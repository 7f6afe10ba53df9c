------------------------- MODULE NodeAccessProofs -------------------------
(* Proofs about NodeAccess, for any nodes, teams, users, tokens and requests, *)
(* and any TTLs and timeouts.                                                 *)
EXTENDS NodeAccess, TLAPS

-----------------------------------------------------------------------------
(* Type correctness *)

\* The verifications and the caches keep their types.
LEMMA TypeVerify ==
    ASSUME TypeOK, NEW v \in Verifiers, Verifying(v)
    PROVE  TypeOK'
  <1> USE NodeAccessAssumption DEF TypeOK, Times, Never, Expiries, tokenVars, verifyVars, userVars
  <1>1. Idle \in Verification
    BY DEF Idle, Verification
  <1>2. ASSUME NEW n \in Nodes, NEW t \in Tokens, Verify(v, n, t) PROVE TypeOK'
    <2>1. <<n, t>> \in Nodes \X Tokens
      OBVIOUS
    <2>2. granted' \in [Nodes \X Tokens -> Times \cup {Never}]
      BY <1>2, <2>1 DEF Verify, Grant
    <2>3. verify' \in [Verifiers -> Verification]
      BY <1>2 DEF Verify, Verification
    <2> QED BY <1>2, <2>2, <2>3 DEF Verify
  <1>3. CASE lookup(v) \/ ListActiveNodeTokens(v) \/ VerifyFails(v)
    <2>1. \A place \in {"list", "view", "answer"} :
             [verify EXCEPT ![v].at = place] \in [Verifiers -> Verification]
      BY DEF Verification
    <2>2. [verify EXCEPT ![v] = Idle] \in [Verifiers -> Verification]
      BY <1>1
    <2>3. verify' \in [Verifiers -> Verification]
      BY <1>3, <2>1, <2>2 DEF lookup, ListActiveNodeTokens, VerifyFails, Step, Refuse
    <2> QED BY <1>3, <2>3 DEF lookup, ListActiveNodeTokens, VerifyFails
  <1>4. CASE NodeAuthView(v)
    <2> DEFINE p == <<verify[v].node, verify[v].token>>
    <2>1. p \in Nodes \X Tokens /\ now + ApiTTL \in Expiries
      BY DEF Verification
    <2> QED BY <1>4, <2>1 DEF NodeAuthView, Step, Verification
  <1>5. CASE Accept(v)
    <2> DEFINE p == <<verify[v].node, verify[v].token>>
    <2>1. p \in Nodes \X Tokens /\ now + ProxyTTL \in Expiries
      BY DEF Verification
    <2> QED BY <1>1, <1>5, <2>1 DEF Accept, Grant
  <1> QED BY <1>2, <1>3, <1>4, <1>5 DEF Verifying

\* What node-token create does after the insert.
Finishes(t) == PinNode(t) \/ PrintToken(t) \/ CreateDies(t)

\* So do the tables of tokens and teams, and the users' requests.
LEMMA TypeRest ==
    ASSUME TypeOK, Next, \A v \in Verifiers : ~Verifying(v)
    PROVE  TypeOK'
  <1> USE NodeAccessAssumption DEF TypeOK, Times, Never, Expiries, tokenVars, verifyVars, userVars
  <1>1. ASSUME NEW team \in Teams, NEW u \in Users, teamAddMember(team, u) PROVE TypeOK'
    BY <1>1 DEF teamAddMember, TeamMemberAdd
  <1>2. ASSUME NEW t \in Tokens, NEW team \in Teams, nodeTokenCreate(t, team) PROVE TypeOK'
    BY <1>2, ZenonT(40) DEF nodeTokenCreate, NodeTokenInsert, Token
  <1>3. ASSUME NEW t \in Tokens, Finishes(t) PROVE TypeOK'
    <2>1. /\ [policy EXCEPT ![TokenNode[t]] = token[t].team] \in [Nodes -> Teams \cup {Public}]
          /\ \A place \in {"pinned", "shown", "lost"} :
                [token EXCEPT ![t].state = place] \in [Tokens -> Token]
      BY DEF Token, NoTeam
    <2>2. policy' \in [Nodes -> Teams \cup {Public}] /\ token' \in [Tokens -> Token]
      BY <1>3, <2>1 DEF Finishes, PinNode, PrintToken, CreateDies
    <2> QED BY <1>3, <2>2 DEF Finishes, PinNode, PrintToken, CreateDies
  <1>4. ASSUME NEW t \in Tokens, nodeTokenRevoke(t) PROVE TypeOK'
    BY <1>4, ZenonT(40) DEF nodeTokenRevoke, NodeTokenRevoke, Token
  <1>5. CASE Restart
    BY <1>5 DEF Restart, Idle, Verification
  <1>6. ASSUME NEW u \in Users, ListNodes(u) PROVE TypeOK'
    BY <1>6 DEF ListNodes, ListNodesAccessibleToUser
  <1>7. ASSUME NEW r \in Requests, ValidateCreate(r) \/ CheckMembership(r) PROVE TypeOK'
    <2>1. Handed(ReqNode[r]) \in BOOLEAN
      BY DEF Handed
    <2>2. request' \in [Requests -> Request]
      <3>1. CASE ValidateCreate(r)
        <4>1. [at |-> "checked", seen |-> policy[ReqNode[r]], late |-> Handed(ReqNode[r])] \in Request
          BY <2>1 DEF Request
        <4> QED BY <3>1, <4>1 DEF ValidateCreate
      <3>2. CASE CheckMembership(r)
        BY <3>2, SMTT(30) DEF CheckMembership, Request
      <3> QED BY <1>7, <3>1, <3>2
    <2> QED BY <1>7, <2>2 DEF ValidateCreate, CheckMembership
  <1>8. CASE Tick
    BY <1>8 DEF Tick
  <1> QED BY <1>1, <1>2, <1>3, <1>4, <1>5, <1>6, <1>7, <1>8 DEF Next, Finishes

\* Tables, caches, verifications and requests keep their types; no cache entry
\* outlives the last tick by more than the two TTLs.
THEOREM AccessTypeCorrect == Spec => []TypeOK
  <1>1. Init => TypeOK
    <2>1. Idle \in Verification
      BY NodeAccessAssumption DEF Idle, Verification, Times
    <2>2. /\ [state |-> "none", team |-> NoTeam, revokedAt |-> Never] \in Token
          /\ [at |-> "new", seen |-> Public, late |-> FALSE] \in Request
      BY DEF Token, Request, NoTeam
    <2>3. 0 \in Times /\ 0 \in Expiries
      BY NodeAccessAssumption DEF Times, Expiries
    <2> QED BY <2>1, <2>2, <2>3 DEF Init, TypeOK
  <1>2. TypeOK /\ [Next]_vars => TypeOK'
    <2> SUFFICES ASSUME TypeOK, [Next]_vars PROVE TypeOK'
      OBVIOUS
    <2>1. CASE UNCHANGED vars
      BY <2>1 DEF vars, tokenVars, verifyVars, userVars, TypeOK
    <2>2. CASE Next
      BY <2>2, TypeVerify, TypeRest
    <2> QED BY <2>1, <2>2
  <1> QED BY <1>1, <1>2, PTL DEF Spec

-----------------------------------------------------------------------------
(* Revocation *)

\* The part of the latency that main-api's cache adds.
CacheSlack == IF ApiTTL > 0 THEN Patience + ApiTTL - 1 ELSE 0

Revoked(t) == token[t].revokedAt # Never

\* A revocation is in the past.
RevokeOK(t) == Revoked(t) => token[t].revokedAt <= now

\* A verification is within its timeout.  From the list of tokens on it is
\* about the token's own node, and it began in time.
VerifyOK(v) ==
    LET e == verify[v]  t == e.token IN
    e.at # "idle" =>
        /\ e.began <= now /\ now <= e.began + Patience
        /\ e.at = "view" => /\ TokenNode[t] = e.node
                            /\ Revoked(t) => e.began <= token[t].revokedAt
        /\ e.at = "answer" => /\ TokenNode[t] = e.node
                              /\ Revoked(t) => e.began <= token[t].revokedAt + CacheSlack

\* An entry of main-api's cache is about the token's own node, and was made
\* within a timeout of the revocation.
ApiOK(n, t) ==
    apiCache[<<n, t>>] > 0 =>
        /\ TokenNode[t] = n /\ ApiTTL > 0
        /\ apiCache[<<n, t>>] <= now + ApiTTL
        /\ Revoked(t) => apiCache[<<n, t>>] <= token[t].revokedAt + Patience + ApiTTL

\* So is one of ssh-proxy's, which may rest on one of main-api's.
ProxyOK(n, t) ==
    proxyCache[<<n, t>>] > 0 =>
        /\ TokenNode[t] = n /\ ProxyTTL > 0
        /\ proxyCache[<<n, t>>] <= now + ProxyTTL
        /\ Revoked(t) => proxyCache[<<n, t>>] <= token[t].revokedAt + ApiLatency + ProxyTTL

\* What was granted, was granted on one of these grounds.
GrantOK(n, t) ==
    granted[<<n, t>>] # Never =>
        /\ TokenNode[t] = n
        /\ granted[<<n, t>>] <= now
        /\ Revoked(t) => granted[<<n, t>>] <= token[t].revokedAt + RevocationLatency

\* The inductive invariant.
AccessInv ==
    /\ TypeOK
    /\ \A t \in Tokens : RevokeOK(t)
    /\ \A v \in Verifiers : VerifyOK(v)
    /\ \A n \in Nodes, t \in Tokens : ApiOK(n, t) /\ ProxyOK(n, t) /\ GrantOK(n, t)

\* Numbers, as the provers need them.
LEMMA Numbers ==
    ASSUME TypeOK
    PROVE  /\ now \in Nat /\ Patience \in Nat /\ ApiTTL \in Nat /\ ProxyTTL \in Nat
           /\ CacheSlack \in Nat /\ ApiLatency \in Nat /\ RevocationLatency \in Nat
           /\ \A t \in Tokens : token[t].revokedAt \in Int
           /\ \A v \in Verifiers :
                 /\ verify[v].began \in Nat /\ verify[v].node \in Nodes
                 /\ verify[v].token \in Tokens
           /\ \A n \in Nodes, t \in Tokens :
                 /\ apiCache[<<n, t>>] \in Nat /\ proxyCache[<<n, t>>] \in Nat
                 /\ granted[<<n, t>>] \in Int
  <1> USE NodeAccessAssumption DEF TypeOK, Times, Never, Expiries
  <1>1. CacheSlack \in Nat /\ ApiLatency \in Nat
    BY DEF CacheSlack, ApiLatency
  <1>2. RevocationLatency \in Nat
    BY <1>1 DEF RevocationLatency
  <1>3. \A t \in Tokens : token[t].revokedAt \in Int
    BY DEF Token
  <1>4. \A v \in Verifiers : /\ verify[v].began \in Nat /\ verify[v].node \in Nodes
                              /\ verify[v].token \in Tokens
    BY DEF Verification
  <1>5. \A n \in Nodes, t \in Tokens : <<n, t>> \in Nodes \X Tokens
    OBVIOUS
  <1> QED BY <1>1, <1>2, <1>3, <1>4, <1>5

\* The latencies add up.
LEMMA Latencies ==
    /\ ApiLatency = Patience + CacheSlack
    /\ ApiTTL > 0 => CacheSlack = Patience + ApiTTL - 1
    /\ ProxyTTL > 0 => RevocationLatency = ApiLatency + ProxyTTL - 1
    /\ RevocationLatency >= ApiLatency
  <1> USE NodeAccessAssumption
  <1>1. ApiLatency \in Int
    BY DEF ApiLatency
  <1> QED BY <1>1 DEF ApiLatency, RevocationLatency, CacheSlack

\* What leaves time, revocations, caches and verifications alone keeps the
\* invariant.
LEMMA InvFrame ==
    ASSUME AccessInv, TypeOK', now' = now, UNCHANGED verifyVars,
           \A t \in Tokens : token'[t].revokedAt = token[t].revokedAt
    PROVE  AccessInv'
  <1> USE DEF AccessInv, verifyVars
  <1>1. \A t \in Tokens : Revoked(t)' <=> Revoked(t)
    BY DEF Revoked
  <1>2. \A t \in Tokens : RevokeOK(t)'
    BY <1>1 DEF RevokeOK
  <1>3. ASSUME NEW v \in Verifiers PROVE VerifyOK(v)'
    BY <1>1, Numbers DEF VerifyOK
  <1>4. ASSUME NEW n \in Nodes, NEW t \in Tokens PROVE ApiOK(n, t)' /\ ProxyOK(n, t)' /\ GrantOK(n, t)'
    BY <1>1 DEF ApiOK, ProxyOK, GrantOK
  <1> QED BY <1>2, <1>3, <1>4

\* A revocation comes after everything that was done with the token.
LEMMA InvRevoke ==
    ASSUME AccessInv, TypeOK', NEW x \in Tokens, nodeTokenRevoke(x)
    PROVE  AccessInv'
  <1> USE Numbers, Latencies DEF AccessInv
  <1>1. /\ now' = now /\ UNCHANGED verifyVars
        /\ \A t \in Tokens : token'[t].revokedAt = IF t = x THEN now ELSE token[t].revokedAt
    BY DEF nodeTokenRevoke, NodeTokenRevoke, TypeOK, Token
  <1>2. \A t \in Tokens : RevokeOK(t)'
    BY <1>1 DEF RevokeOK, Revoked
  <1>3. ASSUME NEW v \in Verifiers PROVE VerifyOK(v)'
    BY <1>1 DEF VerifyOK, Revoked, verifyVars
  <1>4. ASSUME NEW n \in Nodes, NEW t \in Tokens PROVE ApiOK(n, t)' /\ ProxyOK(n, t)' /\ GrantOK(n, t)'
    BY <1>1 DEF ApiOK, ProxyOK, GrantOK, Revoked, verifyVars
  <1> QED BY <1>2, <1>3, <1>4

\* Time passes, but not beyond the timeout of a verification.
LEMMA InvTick ==
    ASSUME AccessInv, TypeOK', Tick
    PROVE  AccessInv'
  <1> USE Numbers DEF AccessInv
  <1>1. now' = now + 1 /\ UNCHANGED verifyVars /\ token' = token
    BY DEF Tick, tokenVars
  <1>2. \A t \in Tokens : RevokeOK(t)'
    BY <1>1 DEF RevokeOK, Revoked
  <1>3. ASSUME NEW v \in Verifiers PROVE VerifyOK(v)'
    <2>1. verify[v].at # "idle" => now < verify[v].began + Patience
      BY DEF Tick
    <2> QED BY <1>1, <2>1 DEF VerifyOK, Revoked, verifyVars
  <1>4. ASSUME NEW n \in Nodes, NEW t \in Tokens PROVE ApiOK(n, t)' /\ ProxyOK(n, t)' /\ GrantOK(n, t)'
    BY <1>1 DEF ApiOK, ProxyOK, GrantOK, Revoked, verifyVars
  <1> QED BY <1>2, <1>3, <1>4

\* Verify begins a verification, or is answered by ssh-proxy's cache.
LEMMA InvVerify ==
    ASSUME AccessInv, TypeOK', NEW w \in Verifiers, NEW m \in Nodes, NEW x \in Tokens,
           Verify(w, m, x)
    PROVE  AccessInv'
  <1> USE Numbers, Latencies DEF AccessInv
  <1>1. now' = now /\ token' = token /\ UNCHANGED <<apiCache, proxyCache>>
    BY DEF Verify, tokenVars
  <1>2. \A t \in Tokens : RevokeOK(t)'
    BY <1>1 DEF RevokeOK, Revoked
  <1>3. \A n \in Nodes, t \in Tokens : ApiOK(n, t)' /\ ProxyOK(n, t)'
    BY <1>1 DEF ApiOK, ProxyOK, Revoked
  <1>4. CASE ProxyTTL > 0 /\ now < proxyCache[<<m, x>>]
    <2>1. /\ verify' = verify
          /\ \A n \in Nodes, t \in Tokens :
                granted'[<<n, t>>] = IF n = m /\ t = x THEN now ELSE granted[<<n, t>>]
      BY <1>4 DEF Verify, Grant, TypeOK
    <2>2. \A v \in Verifiers : VerifyOK(v)'
      BY <1>1, <2>1 DEF VerifyOK, Revoked
    <2>3. ProxyOK(m, x)
      OBVIOUS
    <2>4. ASSUME NEW n \in Nodes, NEW t \in Tokens PROVE GrantOK(n, t)'
      BY <1>1, <1>4, <2>1, <2>3 DEF GrantOK, ProxyOK, Revoked
    <2> QED BY <1>2, <1>3, <2>2, <2>4
  <1>5. CASE ~(ProxyTTL > 0 /\ now < proxyCache[<<m, x>>])
    <2>1. /\ granted' = granted
          /\ \A v \in Verifiers : verify'[v] = IF v = w THEN [at |-> "asked", node |-> m, token |-> x,
                                                             began |-> now]
                                               ELSE verify[v]
      BY <1>5 DEF Verify, TypeOK
    <2>2. ASSUME NEW v \in Verifiers PROVE VerifyOK(v)'
      BY <1>1, <2>1 DEF VerifyOK, Revoked
    <2>3. \A n \in Nodes, t \in Tokens : GrantOK(n, t)'
      BY <1>1, <2>1 DEF GrantOK, Revoked
    <2> QED BY <1>2, <1>3, <2>2, <2>3
  <1> QED BY <1>4, <1>5

\* A step that only moves one verification keeps the invariant if it keeps
\* that verification's part.
LEMMA InvMove ==
    ASSUME AccessInv, TypeOK', NEW w \in Verifiers, now' = now, token' = token,
           UNCHANGED <<apiCache, proxyCache, granted>>,
           \A v \in Verifiers \ {w} : verify'[v] = verify[v],
           VerifyOK(w)'
    PROVE  AccessInv'
  <1> USE DEF AccessInv
  <1>1. \A t \in Tokens : RevokeOK(t)'
    BY DEF RevokeOK, Revoked
  <1>2. ASSUME NEW v \in Verifiers PROVE VerifyOK(v)'
    BY Numbers DEF VerifyOK, Revoked
  <1>3. \A n \in Nodes, t \in Tokens : ApiOK(n, t)' /\ ProxyOK(n, t)' /\ GrantOK(n, t)'
    BY DEF ApiOK, ProxyOK, GrantOK, Revoked
  <1> QED BY <1>1, <1>2, <1>3

\* lookup answers from main-api's cache only what the cache may hold.
LEMMA InvLookup ==
    ASSUME AccessInv, TypeOK', NEW w \in Verifiers, lookup(w)
    PROVE  AccessInv'
  <1> USE Numbers, Latencies DEF AccessInv
  <1> DEFINE n == verify[w].node  t == verify[w].token  hit == ApiTTL > 0 /\ now < apiCache[<<n, t>>]
  <1>1. /\ now' = now /\ token' = token /\ UNCHANGED <<apiCache, proxyCache, granted>>
        /\ \A v \in Verifiers \ {w} : verify'[v] = verify[v]
        /\ verify[w].at = "asked"
        /\ verify'[w].at = IF hit THEN "answer" ELSE "list"
        /\ verify'[w].node = n /\ verify'[w].token = t /\ verify'[w].began = verify[w].began
    BY DEF lookup, Step, TypeOK, tokenVars, Verification
  <1>2. VerifyOK(w) /\ ApiOK(n, t)
    OBVIOUS
  <1>3. CASE hit
    BY <1>1, <1>2, <1>3, InvMove DEF VerifyOK, ApiOK, Revoked
  <1>4. CASE ~hit
    BY <1>1, <1>2, <1>4, InvMove DEF VerifyOK, Revoked
  <1> QED BY <1>3, <1>4

\* The list of active tokens lets only the node's own, unrevoked ones pass; a
\* failure ends the verification.
LEMMA InvList ==
    ASSUME AccessInv, TypeOK', NEW w \in Verifiers, ListActiveNodeTokens(w) \/ VerifyFails(w)
    PROVE  AccessInv'
  <1> USE Numbers DEF AccessInv
  <1> DEFINE t == verify[w].token
  <1>1. /\ now' = now /\ token' = token /\ UNCHANGED <<apiCache, proxyCache, granted>>
    BY DEF ListActiveNodeTokens, VerifyFails, tokenVars
  <1>2. CASE Refuse(w)
    <2>1. /\ \A v \in Verifiers \ {w} : verify'[v] = verify[v]
          /\ verify'[w].at = "idle"
      BY <1>2 DEF Refuse, TypeOK, Idle
    <2>2. VerifyOK(w)'
      BY <2>1 DEF VerifyOK
    <2> QED BY <1>1, <2>1, <2>2, InvMove
  <1>3. CASE /\ verify[w].at = "list" /\ Step(w, "view")
             /\ token[t].revokedAt = Never /\ TokenNode[t] = verify[w].node
    <2>1. /\ \A v \in Verifiers \ {w} : verify'[v] = verify[v]
          /\ verify'[w].at = "view" /\ verify'[w].node = verify[w].node
          /\ verify'[w].token = t /\ verify'[w].began = verify[w].began
      BY <1>3 DEF Step, TypeOK, Verification
    <2>2. VerifyOK(w)'
      BY <1>1, <1>3, <2>1 DEF VerifyOK, Revoked
    <2> QED BY <1>1, <2>1, <2>2, InvMove
  <1> QED BY <1>2, <1>3 DEF ListActiveNodeTokens, VerifyFails

\* NodeAuthView fills main-api's cache within a timeout of the list.
LEMMA InvView ==
    ASSUME AccessInv, TypeOK', NEW w \in Verifiers, NodeAuthView(w)
    PROVE  AccessInv'
  <1> USE Numbers, Latencies DEF AccessInv
  <1> DEFINE m == verify[w].node  x == verify[w].token
  <1>1. /\ now' = now /\ token' = token /\ UNCHANGED <<proxyCache, granted>>
        /\ \A v \in Verifiers \ {w} : verify'[v] = verify[v]
        /\ verify[w].at = "view" /\ verify'[w].at = "answer"
        /\ verify'[w].node = m /\ verify'[w].token = x /\ verify'[w].began = verify[w].began
    BY DEF NodeAuthView, Step, TypeOK, tokenVars, Verification
  <1>2. \A n \in Nodes, t \in Tokens :
           apiCache'[<<n, t>>] = IF ApiTTL > 0 /\ n = m /\ t = x THEN now + ApiTTL
                                 ELSE apiCache[<<n, t>>]
    BY DEF NodeAuthView, TypeOK
  <1>3. VerifyOK(w)
    OBVIOUS
  <1>4. ASSUME NEW v \in Verifiers PROVE VerifyOK(v)'
    BY <1>1, <1>3 DEF VerifyOK, Revoked
  <1>5. ASSUME NEW n \in Nodes, NEW t \in Tokens PROVE ApiOK(n, t)'
    BY <1>1, <1>2, <1>3 DEF ApiOK, VerifyOK, Revoked
  <1>6. \A n \in Nodes, t \in Tokens : ProxyOK(n, t)' /\ GrantOK(n, t)'
    BY <1>1 DEF ProxyOK, GrantOK, Revoked
  <1>7. \A t \in Tokens : RevokeOK(t)'
    BY <1>1 DEF RevokeOK, Revoked
  <1> QED BY <1>4, <1>5, <1>6, <1>7

\* Accept grants, and fills ssh-proxy's cache, within a timeout of the start.
LEMMA InvAccept ==
    ASSUME AccessInv, TypeOK', NEW w \in Verifiers, Accept(w)
    PROVE  AccessInv'
  <1> USE Numbers, Latencies DEF AccessInv
  <1> DEFINE m == verify[w].node  x == verify[w].token
  <1>1. /\ now' = now /\ token' = token /\ UNCHANGED apiCache
        /\ \A v \in Verifiers \ {w} : verify'[v] = verify[v]
        /\ verify[w].at = "answer" /\ verify'[w].at = "idle"
    BY DEF Accept, TypeOK, tokenVars, Idle
  <1>2. \A n \in Nodes, t \in Tokens :
           /\ proxyCache'[<<n, t>>] = IF ProxyTTL > 0 /\ n = m /\ t = x THEN now + ProxyTTL
                                      ELSE proxyCache[<<n, t>>]
           /\ granted'[<<n, t>>] = IF n = m /\ t = x THEN now ELSE granted[<<n, t>>]
    BY DEF Accept, Grant, TypeOK
  <1>3. VerifyOK(w)
    OBVIOUS
  <1>4. ASSUME NEW v \in Verifiers PROVE VerifyOK(v)'
    BY <1>1 DEF VerifyOK, Revoked
  <1>5. ASSUME NEW n \in Nodes, NEW t \in Tokens PROVE ProxyOK(n, t)' /\ GrantOK(n, t)'
    BY <1>1, <1>2, <1>3 DEF ProxyOK, GrantOK, VerifyOK, Revoked
  <1>6. \A n \in Nodes, t \in Tokens : ApiOK(n, t)'
    BY <1>1 DEF ApiOK, Revoked
  <1>7. \A t \in Tokens : RevokeOK(t)'
    BY <1>1 DEF RevokeOK, Revoked
  <1> QED BY <1>4, <1>5, <1>6, <1>7

\* A restart only forgets.
LEMMA InvRestart ==
    ASSUME AccessInv, TypeOK', Restart
    PROVE  AccessInv'
  <1> USE DEF AccessInv
  <1>1. /\ now' = now /\ token' = token /\ granted' = granted
        /\ \A v \in Verifiers : verify'[v].at = "idle"
    BY DEF Restart, tokenVars, Idle
  <1>2. \A n \in Nodes, t \in Tokens :
           /\ apiCache'[<<n, t>>] \in {0, apiCache[<<n, t>>]}
           /\ proxyCache'[<<n, t>>] \in {0, proxyCache[<<n, t>>]}
    BY DEF Restart
  <1>3. \A v \in Verifiers : VerifyOK(v)'
    BY <1>1 DEF VerifyOK
  <1>4. ASSUME NEW n \in Nodes, NEW t \in Tokens PROVE ApiOK(n, t)' /\ ProxyOK(n, t)' /\ GrantOK(n, t)'
    BY <1>1, <1>2 DEF ApiOK, ProxyOK, GrantOK, Revoked
  <1>5. \A t \in Tokens : RevokeOK(t)'
    BY <1>1 DEF RevokeOK, Revoked
  <1> QED BY <1>3, <1>4, <1>5

\* Every step keeps the invariant.
LEMMA InvNext ==
    ASSUME AccessInv, TypeOK', [Next]_vars
    PROVE  AccessInv'
  <1> USE DEF verifyVars, userVars, tokenVars
  <1>1. CASE UNCHANGED vars
    BY <1>1, InvFrame DEF vars
  <1>2. ASSUME NEW team \in Teams, NEW u \in Users, teamAddMember(team, u) PROVE AccessInv'
    BY <1>2, InvFrame DEF teamAddMember
  <1>3. ASSUME NEW x \in Tokens, (\E team \in Teams : nodeTokenCreate(x, team)) \/ Finishes(x)
        PROVE  AccessInv'
    <2>1. \A t \in Tokens : token'[t].revokedAt = token[t].revokedAt
      BY <1>3, SMTT(30) DEF nodeTokenCreate, NodeTokenInsert, Finishes, PinNode, PrintToken,
                            CreateDies, AccessInv, TypeOK, Token
    <2>2. now' = now /\ UNCHANGED verifyVars
      BY <1>3 DEF nodeTokenCreate, Finishes, PinNode, PrintToken, CreateDies
    <2> QED BY <2>1, <2>2, InvFrame
  <1>4. ASSUME NEW v \in Verifiers, Verifying(v) PROVE AccessInv'
    BY <1>4, InvVerify, InvLookup, InvList, InvView, InvAccept DEF Verifying
  <1>5. ASSUME NEW u \in Users, ListNodes(u) PROVE AccessInv'
    BY <1>5, InvFrame DEF ListNodes
  <1>6. ASSUME NEW r \in Requests, ValidateCreate(r) \/ CheckMembership(r) PROVE AccessInv'
    BY <1>6, InvFrame DEF ValidateCreate, CheckMembership
  <1> QED BY <1>1, <1>2, <1>3, <1>4, <1>5, <1>6, InvRevoke, InvRestart, InvTick DEF Next, Finishes

LEMMA InvHolds == Spec => []AccessInv
  <1>1. Init /\ TypeOK => AccessInv
    <2> SUFFICES ASSUME Init, TypeOK PROVE AccessInv
      OBVIOUS
    <2>1. \A t \in Tokens : ~Revoked(t)
      BY DEF Init, Revoked
    <2>2. \A v \in Verifiers : verify[v].at = "idle"
      BY DEF Init, Idle
    <2>3. \A n \in Nodes, t \in Tokens :
             apiCache[<<n, t>>] = 0 /\ proxyCache[<<n, t>>] = 0 /\ granted[<<n, t>>] = Never
      BY DEF Init
    <2> QED BY <2>1, <2>2, <2>3 DEF AccessInv, RevokeOK, VerifyOK, ApiOK, ProxyOK, GrantOK
  <1>2. AccessInv /\ TypeOK' /\ [Next]_vars => AccessInv'
    BY InvNext
  <1> QED BY <1>1, <1>2, AccessTypeCorrect, PTL DEF Spec

\* However verifications, revocations, restarts and both caches interleave, a
\* token is accepted at most RevocationLatency after its revocation: both TTLs
\* and two timeouts.
THEOREM RevocationSound == Spec => []RevocationBites
  <1>1. AccessInv => RevocationBites
    <2> SUFFICES ASSUME AccessInv, NEW n \in Nodes, NEW t \in Tokens, token[t].revokedAt # Never
                 PROVE  granted[<<n, t>>] <= token[t].revokedAt + RevocationLatency
      BY DEF RevocationBites
    <2>1. GrantOK(n, t) /\ TypeOK /\ RevokeOK(t)
      BY DEF AccessInv
    <2>2. token[t].revokedAt \in Nat
      BY <2>1 DEF TypeOK, Token, Times, Never
    <2>3. CASE granted[<<n, t>>] = Never
      BY <2>1, <2>2, <2>3, Numbers DEF Never
    <2>4. CASE granted[<<n, t>>] # Never
      BY <2>1, <2>4 DEF GrantOK, Revoked
    <2> QED BY <2>3, <2>4
  <1> QED BY <1>1, InvHolds, PTL

\* The caches, keyed by node and token, never turn a token of one node into
\* access to another.
THEOREM OwnNodeSound == Spec => []OnlyOwnNode
  <1>1. AccessInv => OnlyOwnNode
    BY DEF AccessInv, OnlyOwnNode, GrantOK
  <1> QED BY <1>1, InvHolds, PTL

-----------------------------------------------------------------------------
(* Teams *)

\* A token of the node was issued to the team.
Issued(n, team) ==
    \E t \in Tokens : TokenNode[t] = n /\ token[t].state # "none" /\ token[t].team = team

Welcome(u, n) == \E team \in Teams : Issued(n, team) /\ IsUserInTeam(u, team)

\* The CLI has pinned the node for a token.
Pinned(n) == \E t \in Tokens : TokenNode[t] = n /\ token[t].state \in {"pinned", "shown"}

\* Then it stays pinned, to a team it was issued to; what requests and listings
\* read of it stays true.
TeamInv ==
    /\ TypeOK
    /\ \A t \in Tokens : token[t].state # "none" => token[t].team \in Teams
    /\ \A n \in Nodes : /\ Pinned(n) => policy[n] # Public
                        /\ policy[n] # Public => Issued(n, policy[n])
    /\ \A r \in Requests : request[r].late =>
          /\ request[r].at = "checked" =>
                request[r].seen # Public /\ Issued(ReqNode[r], request[r].seen)
          /\ request[r].at = "placed" => Welcome(ReqUser[r], ReqNode[r])
    /\ \A u \in Users : \A n \in listed[u] : Welcome(u, n)

\* Nobody takes back a token's team or a membership.
LEMMA TeamsGrow ==
    ASSUME TeamInv, [Next]_vars
    PROVE  /\ \A n, team : Issued(n, team) => Issued(n, team)'
           /\ \A u, n : Welcome(u, n) => Welcome(u, n)'
  <1> USE DEF vars, tokenVars, verifyVars, userVars
  <1>1. \A t \in Tokens : token[t].state # "none" =>
           token'[t].state # "none" /\ token'[t].team = token[t].team
    <2>1. ASSUME NEW x \in Tokens, NEW team \in Teams, nodeTokenCreate(x, team)
          PROVE  \A t \in Tokens : token[t].state # "none" => token'[t] = token[t]
      BY <2>1 DEF nodeTokenCreate, NodeTokenInsert, TeamInv, TypeOK, Token
    <2>2. ASSUME NEW x \in Tokens, Finishes(x) \/ nodeTokenRevoke(x)
          PROVE  \A t \in Tokens : token[t].state # "none" =>
                     token'[t].state # "none" /\ token'[t].team = token[t].team
      <3>1. CASE Finishes(x)
        BY <3>1 DEF Finishes, PinNode, PrintToken, CreateDies, TeamInv, TypeOK, Token
      <3>2. CASE nodeTokenRevoke(x)
        BY <3>2 DEF nodeTokenRevoke, NodeTokenRevoke, TeamInv, TypeOK, Token
      <3> QED BY <2>2, <3>1, <3>2
    <2>3. \/ \E x \in Tokens : \/ \E team \in Teams : nodeTokenCreate(x, team)
                              \/ Finishes(x) \/ nodeTokenRevoke(x)
          \/ token' = token
      BY DEF Next, Finishes, teamAddMember, Verifying, Verify, lookup, ListActiveNodeTokens, NodeAuthView,
             Accept, VerifyFails, Restart, ListNodes, ValidateCreate, CheckMembership, Tick
    <2>4. ASSUME NEW t \in Tokens, token[t].state # "none"
          PROVE  token'[t].state # "none" /\ token'[t].team = token[t].team
      <3>1. CASE token' = token
        BY <2>4, <3>1
      <3>2. ASSUME NEW x \in Tokens, NEW team \in Teams, nodeTokenCreate(x, team)
            PROVE  token'[t] = token[t]
        BY <2>1, <2>4, <3>2
      <3>3. ASSUME NEW x \in Tokens, Finishes(x) \/ nodeTokenRevoke(x)
            PROVE  token'[t].team = token[t].team /\ token'[t].state # "none"
        BY <2>2, <2>4, <3>3
      <3> QED BY <2>3, <2>4, <3>1, <3>2, <3>3
    <2> QED BY <2>4
  <1>2. members \subseteq members'
    BY DEF Next, teamAddMember, TeamMemberAdd, nodeTokenCreate, Finishes, PinNode, PrintToken, CreateDies,
           nodeTokenRevoke,
           Verifying, Verify, lookup, ListActiveNodeTokens, NodeAuthView,
           Accept, VerifyFails, Restart, ListNodes, ValidateCreate, CheckMembership, Tick
  <1>3. \A n, team : Issued(n, team) => Issued(n, team)'
    BY <1>1 DEF Issued
  <1> QED BY <1>2, <1>3 DEF Welcome, IsUserInTeam

\* The admin CLI keeps the invariant: it pins the node before it shows a token.
LEMMA TeamCLI ==
    ASSUME TeamInv, TypeOK', NEW x \in Tokens,
           (\E team \in Teams : nodeTokenCreate(x, team)) \/ Finishes(x) \/ nodeTokenRevoke(x)
    PROVE  TeamInv'
  <1> USE DEF tokenVars, verifyVars, userVars
  <1>1. Next
    BY DEF Next, Finishes
  <1>2. UNCHANGED userVars
    BY DEF nodeTokenCreate, Finishes, PinNode, PrintToken, CreateDies, nodeTokenRevoke
  <1>3. /\ \A n, team : Issued(n, team) => Issued(n, team)'
        /\ \A u, n : Welcome(u, n) => Welcome(u, n)'
    BY <1>1, TeamsGrow
  <1>4. \A t \in Tokens : token'[t].state # "none" => token'[t].team \in Teams
    <2>1. ASSUME NEW team \in Teams, nodeTokenCreate(x, team), NEW t \in Tokens,
                 token'[t].state # "none"
          PROVE  token'[t].team \in Teams
      <3>1. token'[t] = IF t = x THEN [token[x] EXCEPT !.state = "inserted", !.team = team]
                        ELSE token[t]
        BY <2>1 DEF nodeTokenCreate, NodeTokenInsert, TeamInv, TypeOK, Token
      <3> QED BY <2>1, <3>1 DEF TeamInv, TypeOK, Token
    <2>2. ASSUME Finishes(x) \/ nodeTokenRevoke(x), NEW t \in Tokens, token'[t].state # "none"
          PROVE  token'[t].team = token[t].team /\ token[t].state # "none"
      BY <2>2 DEF Finishes, PinNode, PrintToken, CreateDies, nodeTokenRevoke, NodeTokenRevoke,
                  TeamInv, TypeOK, Token
    <2> QED BY <2>1, <2>2 DEF TeamInv
  <1>5. ASSUME NEW n \in Nodes
        PROVE  (Pinned(n)' => policy'[n] # Public) /\ (policy'[n] # Public => Issued(n, policy[n])')
    <2>1. /\ token \in [Tokens -> Token] /\ policy \in [Nodes -> Teams \cup {Public}]
          /\ TokenNode \in [Tokens -> Nodes] /\ Public \notin Teams
      BY NodeAccessAssumption DEF TeamInv, TypeOK
    <2>2. (Pinned(n) => policy[n] # Public) /\ (policy[n] # Public => Issued(n, policy[n]))
      BY DEF TeamInv
    <2>3. CASE \E team \in Teams : nodeTokenCreate(x, team)
      <3>1. policy' = policy /\ (Pinned(n)' => Pinned(n))
        BY <2>1, <2>3 DEF nodeTokenCreate, NodeTokenInsert, Pinned, Token
      <3> QED BY <1>3, <2>2, <3>1
    <2>4. CASE nodeTokenRevoke(x)
      <3>1. policy' = policy /\ (Pinned(n)' => Pinned(n))
        BY <2>1, <2>4 DEF nodeTokenRevoke, NodeTokenRevoke, Pinned, Token
      <3> QED BY <1>3, <2>2, <3>1
    <2>5. CASE PrintToken(x) \/ CreateDies(x)
      <3>1. policy' = policy /\ (Pinned(n)' => Pinned(n))
        BY <2>1, <2>5 DEF PrintToken, CreateDies, Pinned, Token
      <3> QED BY <1>3, <2>2, <3>1
    <2>6. CASE PinNode(x)
      <3>1. CASE n = TokenNode[x]
        <4>1. policy'[n] = token[x].team /\ token[x].team \in Teams
          BY <2>1, <2>6, <3>1 DEF TeamInv, PinNode
        <4>2. Issued(n, token[x].team)
          BY <2>6, <3>1 DEF Issued, PinNode
        <4> QED BY <1>3, <2>1, <4>1, <4>2
      <3>2. CASE n # TokenNode[x]
        <4>1. policy'[n] = policy[n] /\ (Pinned(n)' => Pinned(n))
          BY <2>1, <2>6, <3>2 DEF Pinned, PinNode, Token
        <4> QED BY <1>3, <2>2, <4>1
      <3> QED BY <3>1, <3>2
    <2> QED BY <2>3, <2>4, <2>5, <2>6 DEF Finishes
  <1> QED BY <1>2, <1>3, <1>4, <1>5 DEF TeamInv

\* So do the reads of the users.
LEMMA TeamUsers ==
    ASSUME TeamInv, TypeOK', UNCHANGED tokenVars,
           \/ \E u \in Users : ListNodes(u)
           \/ \E r \in Requests : ValidateCreate(r) \/ CheckMembership(r)
    PROVE  TeamInv'
  <1> USE DEF TeamInv, tokenVars
  <1>1. /\ \A n, team : Issued(n, team)' <=> Issued(n, team)
        /\ \A u, n : Welcome(u, n)' <=> Welcome(u, n)
        /\ \A n : (Pinned(n)' <=> Pinned(n)) /\ (Handed(n) => Pinned(n))
    BY DEF Issued, Welcome, IsUserInTeam, Handed, Pinned
  <1>2. ASSUME NEW x \in Users, ListNodes(x) PROVE TeamInv'
    <2>1. \A n \in ListNodesAccessibleToUser(x) : Handed(n) => Welcome(x, n)
      BY <1>1 DEF ListNodesAccessibleToUser, Welcome, TypeOK
    <2>2. ASSUME NEW u \in Users, NEW n \in listed'[u] PROVE Welcome(u, n)'
      BY <1>1, <1>2, <2>1 DEF ListNodes, TypeOK
    <2>3. request' = request
      BY <1>2 DEF ListNodes
    <2> QED BY <1>1, <2>2, <2>3
  <1>3. ASSUME NEW x \in Requests, ValidateCreate(x) PROVE TeamInv'
    <2> DEFINE n == ReqNode[x]
    <2>1. /\ listed' = listed /\ \A r \in Requests \ {x} : request'[r] = request[r]
          /\ request'[x] = [at |-> "checked", seen |-> policy[n], late |-> Handed(n)]
      BY <1>3 DEF ValidateCreate, TypeOK, userVars
    <2>2. n \in Nodes
      BY NodeAccessAssumption
    <2>3. ASSUME NEW r \in Requests, request'[r].late
          PROVE  /\ request'[r].at = "checked" =>
                       request'[r].seen # Public /\ Issued(ReqNode[r], request'[r].seen)
                 /\ request'[r].at = "placed" => Welcome(ReqUser[r], ReqNode[r])
      BY <1>1, <2>1, <2>2, <2>3
    <2> QED BY <1>1, <2>1, <2>3
  <1>4. ASSUME NEW x \in Requests, CheckMembership(x) PROVE TeamInv'
    <2>1. /\ listed' = listed /\ \A r \in Requests \ {x} : request'[r] = request[r]
          /\ request[x].at = "checked" /\ request'[x].late = request[x].late
          /\ request'[x].seen = request[x].seen
          /\ request'[x].at = IF request[x].seen = Public \/ IsUserInTeam(ReqUser[x], request[x].seen)
                              THEN "placed" ELSE "refused"
      BY <1>4 DEF CheckMembership, TypeOK, Request
    <2>2. request[x].seen \in Teams \cup {Public}
      BY DEF TypeOK, Request
    <2>3. ASSUME NEW r \in Requests, request'[r].late
          PROVE  /\ request'[r].at = "checked" =>
                       request'[r].seen # Public /\ Issued(ReqNode[r], request'[r].seen)
                 /\ request'[r].at = "placed" => Welcome(ReqUser[r], ReqNode[r])
      BY <2>1, <2>2, <2>3 DEF Welcome
    <2> QED BY <1>1, <2>1, <2>3
  <1> QED BY <1>2, <1>3, <1>4

\* And every other step.
LEMMA TeamNext ==
    ASSUME TeamInv, TypeOK', [Next]_vars
    PROVE  TeamInv'
  <1> USE DEF tokenVars, verifyVars, userVars
  <1>1. /\ \A n, team : Issued(n, team) => Issued(n, team)'
        /\ \A u, n : Welcome(u, n) => Welcome(u, n)'
    BY TeamsGrow
  <1>2. CASE UNCHANGED <<token, policy, userVars>>
    <2>1. \A n : Pinned(n)' <=> Pinned(n)
      BY <1>2 DEF Pinned
    <2> QED BY <1>1, <1>2, <2>1 DEF TeamInv
  <1>3. CASE \E u \in Users : ListNodes(u)
    BY <1>3, TeamUsers DEF ListNodes
  <1>4. CASE \E r \in Requests : ValidateCreate(r) \/ CheckMembership(r)
    BY <1>4, TeamUsers DEF ValidateCreate, CheckMembership
  <1>5. CASE \E x \in Tokens : \/ \E team \in Teams : nodeTokenCreate(x, team)
                              \/ Finishes(x) \/ nodeTokenRevoke(x)
    BY <1>5, TeamCLI
  <1>6. \/ UNCHANGED <<token, policy, userVars>> \/ \E u \in Users : ListNodes(u)
        \/ \E r \in Requests : ValidateCreate(r) \/ CheckMembership(r)
        \/ \E x \in Tokens : \/ \E team \in Teams : nodeTokenCreate(x, team)
                            \/ Finishes(x) \/ nodeTokenRevoke(x)
    BY DEF Next, Finishes, teamAddMember, Verifying, Verify, lookup, ListActiveNodeTokens, NodeAuthView,
           Accept, VerifyFails, Restart, Tick, vars
  <1> QED BY <1>2, <1>3, <1>4, <1>5, <1>6

\* Wherever the CLI dies between inserting a token, pinning the node and
\* printing, no user outside the teams of the node's tokens is shown the node
\* or given an instance on it once an agent may hold one of them.
THEOREM StrangersSound == Spec => []StrangersKeptOut
  <1>1. Init /\ TypeOK => TeamInv
    BY DEF Init, TeamInv, Pinned
  <1>2. TeamInv /\ TypeOK' /\ [Next]_vars => TeamInv'
    BY TeamNext
  <1>3. TeamInv => StrangersKeptOut
    BY DEF TeamInv, StrangersKeptOut, Welcome, Issued
  <1> QED BY <1>1, <1>2, <1>3, AccessTypeCorrect, PTL DEF Spec
=============================================================================
