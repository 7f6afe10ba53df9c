----------------------------- MODULE NodeAccess -----------------------------
(***************************************************************************)
(* Who may act as a node, and who may use one: node tokens and the admin   *)
(* CLI that issues and revokes them (cmd/admin), their verification by     *)
(* ssh-proxy (muxserver.HTTPVerifier) through main-api (agentauth), each   *)
(* with a cache, and the owner-team rule in front of CreateForOwner and of *)
(* the node list (internal/api).                                           *)
(*                                                                         *)
(* Every database call is a step.  Time is a counter.                      *)
(***************************************************************************)
EXTENDS Integers

CONSTANTS
    Nodes, Teams, Users, Tokens, Verifiers, Requests,
    TokenNode,          \* the node a token is issued for
    ReqUser, ReqNode,   \* who asks for an instance, and where
    Public,             \* access_policy = 'public'
    ApiTTL, ProxyTTL,   \* CacheTTL of agentauth (60 s) and HTTPVerifier (0)
    Patience,           \* timeout of HTTPVerifier's client (5 s)
    MaxTime             \* bound on time

ASSUME NodeAccessAssumption ==
    /\ TokenNode \in [Tokens -> Nodes]
    /\ ReqUser \in [Requests -> Users] /\ ReqNode \in [Requests -> Nodes]
    /\ Public \notin Teams /\ Nodes # {} /\ Tokens # {}
    /\ ApiTTL \in Nat /\ ProxyTTL \in Nat /\ Patience \in Nat /\ MaxTime \in Nat

VARIABLES
    now,
    policy,      \* nodes.access_policy, owner_team_id: Public or the team
    members,     \* team_members
    token,       \* node_tokens, and for whom and how far the CLI that issues it got
    apiCache,    \* agentauth.Handler.cache: expiresAt of a (node, token)
    proxyCache,  \* HTTPVerifier.cache
    verify,      \* verifications under way
    granted,     \* history: when a (node, token) was last accepted
    request,     \* CreateForOwner requests
    listed       \* history: nodes a user was shown after a token was out

tokenVars  == <<token, policy, members>>
verifyVars == <<apiCache, proxyCache, verify, granted>>
userVars   == <<request, listed>>
vars == <<now, tokenVars, verifyVars, userVars>>

Never == -1
Times == 0..MaxTime
NoTeam == Public

-----------------------------------------------------------------------------
(* State *)

Token == [state: {"none", "inserted", "pinned", "shown", "lost"},
          team: Teams \cup {NoTeam}, revokedAt: Times \cup {Never}]

Verification == [at: {"idle", "asked", "list", "view", "answer"},
                 node: Nodes, token: Tokens, began: Times]

Idle == [at |-> "idle", node |-> CHOOSE n \in Nodes : TRUE,
         token |-> CHOOSE t \in Tokens : TRUE, began |-> 0]

Request == [at: {"new", "checked", "placed", "refused"},
            seen: Teams \cup {Public}, late: BOOLEAN]

\* Expiry times of the caches; 0 when there is no entry.
Expiries == 0..(MaxTime + ApiTTL + ProxyTTL)

TypeOK ==
    /\ now \in Times
    /\ policy \in [Nodes -> Teams \cup {Public}]
    /\ members \subseteq Teams \X Users
    /\ token \in [Tokens -> Token]
    /\ apiCache \in [Nodes \X Tokens -> Expiries]
    /\ proxyCache \in [Nodes \X Tokens -> Expiries]
    /\ verify \in [Verifiers -> Verification]
    /\ granted \in [Nodes \X Tokens -> Times \cup {Never}]
    /\ request \in [Requests -> Request]
    /\ listed \in [Users -> SUBSET Nodes]

Init ==
    /\ now = 0
    /\ policy = [n \in Nodes |-> Public]
    /\ members = {}
    /\ token = [t \in Tokens |-> [state |-> "none", team |-> NoTeam, revokedAt |-> Never]]
    /\ apiCache = [p \in Nodes \X Tokens |-> 0]
    /\ proxyCache = [p \in Nodes \X Tokens |-> 0]
    /\ verify = [v \in Verifiers |-> Idle]
    /\ granted = [p \in Nodes \X Tokens |-> Never]
    /\ request = [r \in Requests |-> [at |-> "new", seen |-> Public, late |-> FALSE]]
    /\ listed = [u \in Users |-> {}]

\* Some token of the node was handed out.
Handed(n) == \E t \in Tokens : TokenNode[t] = n /\ token[t].state = "shown"

-----------------------------------------------------------------------------
(* The admin CLI *)

\* insert into team_members ... on conflict do nothing
TeamMemberAdd(team, u) == members' = members \cup {<<team, u>>}

\* team add-member.
teamAddMember(team, u) ==
    /\ TeamMemberAdd(team, u)
    /\ UNCHANGED <<now, policy, token, verifyVars, userVars>>

\* Printing the token as soon as it is in the table.
NodeTokenInsert_Prints(t, team) ==
    token' = [token EXCEPT ![t].state = "shown", ![t].team = team]

\* insert into node_tokens (node_id, token_hash, created_by).  The team is the
\* --owner-team of the command: the row does not have it.
NodeTokenInsert(t, team) ==
    token' = [token EXCEPT ![t].state = "inserted", ![t].team = team]

\* node-token create, first statement: the hash is in the table, the
\* plaintext only in the process.
nodeTokenCreate(t, team) ==
    /\ token[t].state = "none"
    /\ NodeTokenInsert(t, team)
    /\ UNCHANGED <<now, policy, members, verifyVars, userVars>>

\* Second statement: pin the node to the team.
PinNode(t) ==
    /\ token[t].state = "inserted"
    /\ policy' = [policy EXCEPT ![TokenNode[t]] = token[t].team]
    /\ token' = [token EXCEPT ![t].state = "pinned"]
    /\ UNCHANGED <<now, members, verifyVars, userVars>>

\* Last, the plaintext is printed for the operator to copy.
PrintToken(t) ==
    /\ token[t].state = "pinned"
    /\ token' = [token EXCEPT ![t].state = "shown"]
    /\ UNCHANGED <<now, policy, members, verifyVars, userVars>>

\* The process fails or dies before that: the row stays, its plaintext is lost.
CreateDies(t) ==
    /\ token[t].state \in {"inserted", "pinned"}
    /\ token' = [token EXCEPT ![t].state = "lost"]
    /\ UNCHANGED <<now, policy, members, verifyVars, userVars>>

\* update node_tokens set revoked_at = now() where id = $1 and revoked_at is null
NodeTokenRevoke(t) ==
    /\ token[t].state # "none" /\ token[t].revokedAt = Never
    /\ token' = [token EXCEPT ![t].revokedAt = now]

\* node-token revoke.
nodeTokenRevoke(t) ==
    /\ NodeTokenRevoke(t)
    /\ UNCHANGED <<now, policy, members, verifyVars, userVars>>

-----------------------------------------------------------------------------
(* Verification of an agent at its mux handshake *)

Step(v, place) == verify' = [verify EXCEPT ![v].at = place]
Refuse(v) == verify' = [verify EXCEPT ![v] = Idle]

Grant(n, t) == granted' = [granted EXCEPT ![<<n, t>>] = now]

\* HTTPVerifier.Verify: its own cache, else POST /internal/agent-auth.  An
\* agent presents a token that was handed out, for any node it claims to be.
Verify(v, n, t) ==
    /\ verify[v].at = "idle" /\ token[t].state = "shown"
    /\ IF ProxyTTL > 0 /\ now < proxyCache[<<n, t>>]
       THEN Grant(n, t) /\ UNCHANGED verify
       ELSE /\ verify' = [verify EXCEPT ![v] = [at |-> "asked", node |-> n, token |-> t,
                                                began |-> now]]
            /\ UNCHANGED granted
    /\ UNCHANGED <<now, tokenVars, apiCache, proxyCache, userVars>>

\* A cache hit that renews the entry.
lookup_Renews(v) ==
    LET p == <<verify[v].node, verify[v].token>>
        hit == ApiTTL > 0 /\ now < apiCache[p] IN
    /\ verify[v].at = "asked"
    /\ Step(v, IF hit THEN "answer" ELSE "list")
    /\ apiCache' = IF hit THEN [apiCache EXCEPT ![p] = now + ApiTTL] ELSE apiCache
    /\ UNCHANGED <<now, tokenVars, proxyCache, granted, userVars>>

\* agentauth lookup: an entry that has not expired answers at once.
lookup(v) ==
    LET p == <<verify[v].node, verify[v].token>> IN
    /\ verify[v].at = "asked"
    /\ Step(v, IF ApiTTL > 0 /\ now < apiCache[p] THEN "answer" ELSE "list")
    /\ UNCHANGED <<now, tokenVars, apiCache, proxyCache, granted, userVars>>

\* Comparing with the hashes of every node.
ListActiveNodeTokens_AllNodes(v) ==
    LET t == verify[v].token IN
    /\ verify[v].at = "list"
    /\ IF token[t].state # "none" /\ token[t].revokedAt = Never
       THEN Step(v, "view") ELSE Refuse(v)
    /\ UNCHANGED <<now, tokenVars, apiCache, proxyCache, granted, userVars>>

\* The hashes of the node's tokens that are not revoked, one of which matches;
\* no match and every error refuse the agent.
ListActiveNodeTokens(v) ==
    LET t == verify[v].token IN
    /\ verify[v].at = "list"
    /\ IF /\ token[t].state # "none" /\ token[t].revokedAt = Never
          /\ TokenNode[t] = verify[v].node
       THEN Step(v, "view") ELSE Refuse(v)
    /\ UNCHANGED <<now, tokenVars, apiCache, proxyCache, granted, userVars>>

\* NodeAuthView, after which the positive answer is cached from now on.
NodeAuthView(v) ==
    LET p == <<verify[v].node, verify[v].token>> IN
    /\ verify[v].at = "view"
    /\ Step(v, "answer")
    /\ apiCache' = IF ApiTTL > 0 THEN [apiCache EXCEPT ![p] = now + ApiTTL] ELSE apiCache
    /\ UNCHANGED <<now, tokenVars, proxyCache, granted, userVars>>

\* 200 OK reaches ssh-proxy, which caches it as well and accepts the agent.
Accept(v) ==
    LET p == <<verify[v].node, verify[v].token>> IN
    /\ verify[v].at = "answer"
    /\ verify' = [verify EXCEPT ![v] = Idle]
    /\ Grant(verify[v].node, verify[v].token)
    /\ proxyCache' = IF ProxyTTL > 0 THEN [proxyCache EXCEPT ![p] = now + ProxyTTL]
                     ELSE proxyCache
    /\ UNCHANGED <<now, tokenVars, apiCache, userVars>>

\* A failed query, a lost answer or the timeout of the client: refused.
VerifyFails(v) ==
    /\ verify[v].at # "idle"
    /\ Refuse(v)
    /\ UNCHANGED <<now, tokenVars, apiCache, proxyCache, granted, userVars>>

\* Both caches live in memory; a restart also cuts the calls under way.
Restart ==
    /\ \/ apiCache' = [p \in Nodes \X Tokens |-> 0] /\ UNCHANGED proxyCache
       \/ proxyCache' = [p \in Nodes \X Tokens |-> 0] /\ UNCHANGED apiCache
    /\ verify' = [v \in Verifiers |-> Idle]
    /\ UNCHANGED <<now, tokenVars, granted, userVars>>

-----------------------------------------------------------------------------
(* Users *)

IsUserInTeam(u, team) == <<team, u>> \in members

\* where access_policy = 'public' or owner_team_id in (select team_id ...)
ListNodesAccessibleToUser(u) ==
    {n \in Nodes : policy[n] = Public \/ IsUserInTeam(u, policy[n])}

\* GET /api/v1/nodes.
ListNodes(u) ==
    /\ listed' = [listed EXCEPT ![u] = @ \cup {n \in ListNodesAccessibleToUser(u) : Handed(n)}]
    /\ UNCHANGED <<now, tokenVars, verifyVars, request>>

\* CreateForOwner reads the node and its policy (validateCreate) ...
ValidateCreate(r) ==
    LET n == ReqNode[r] IN
    /\ request[r].at = "new"
    /\ request' = [request EXCEPT ![r] = [at |-> "checked", seen |-> policy[n], late |-> Handed(n)]]
    /\ UNCHANGED <<now, tokenVars, verifyVars, listed>>

\* ... and then asks for the membership in the team it read.
CheckMembership(r) ==
    /\ request[r].at = "checked"
    /\ request' = [request EXCEPT ![r].at =
                      IF request[r].seen = Public \/ IsUserInTeam(ReqUser[r], request[r].seen)
                      THEN "placed" ELSE "refused"]
    /\ UNCHANGED <<now, tokenVars, verifyVars, listed>>

\* Time passes; no verification outlives the timeout of its client.
Tick ==
    /\ now < MaxTime
    /\ \A v \in Verifiers : verify[v].at # "idle" => now < verify[v].began + Patience
    /\ now' = now + 1
    /\ UNCHANGED <<tokenVars, verifyVars, userVars>>

-----------------------------------------------------------------------------
(* Specification *)

Verifying(v) ==
    \/ \E n \in Nodes, t \in Tokens : Verify(v, n, t)
    \/ lookup(v) \/ ListActiveNodeTokens(v) \/ NodeAuthView(v) \/ Accept(v) \/ VerifyFails(v)

Next ==
    \/ \E team \in Teams, u \in Users : teamAddMember(team, u)
    \/ \E t \in Tokens : \/ \E team \in Teams : nodeTokenCreate(t, team)
                         \/ PinNode(t) \/ PrintToken(t) \/ CreateDies(t) \/ nodeTokenRevoke(t)
    \/ \E v \in Verifiers : Verifying(v)
    \/ Restart
    \/ \E u \in Users : ListNodes(u)
    \/ \E r \in Requests : ValidateCreate(r) \/ CheckMembership(r)
    \/ Tick

Spec == Init /\ [][Next]_vars

-----------------------------------------------------------------------------
(* Properties *)

\* How long after its revocation a token can still be accepted: a lookup that
\* listed it before may fill main-api's cache a timeout later, a verification
\* that hits this entry last takes a timeout again, and ssh-proxy's own cache
\* adds its TTL.
ApiLatency == Patience + IF ApiTTL > 0 THEN ApiTTL - 1 + Patience ELSE 0
RevocationLatency == ApiLatency + IF ProxyTTL > 0 THEN ProxyTTL - 1 ELSE 0

\* "revocation surfaces within the cache TTL window" (main-api wiring), with
\* the two caches and the calls in flight counted: lookup and Verify accept no
\* token that was revoked longer ago than that.
RevocationBites ==
    \A n \in Nodes, t \in Tokens :
        token[t].revokedAt # Never => granted[<<n, t>>] <= token[t].revokedAt + RevocationLatency

\* A token opens its own node and no other, although both caches answer
\* without looking at the table (cacheKey is the pair of node and token).
OnlyOwnNode ==
    \A n \in Nodes, t \in Tokens : granted[<<n, t>>] # Never => TokenNode[t] = n

\* node-token create inserts, pins and only then prints, without a
\* transaction.  Once an agent can hold a token for a node, a user whose
\* request or listing starts then gets the node only as a member of a team
\* some token was issued to, whenever the CLI died and whoever repeated it.
StrangersKeptOut ==
    LET Member(u, n) == \E t \in Tokens : TokenNode[t] = n /\ IsUserInTeam(u, token[t].team) IN
    /\ \A r \in Requests :
           request[r].at = "placed" /\ request[r].late => Member(ReqUser[r], ReqNode[r])
    /\ \A u \in Users : \A n \in listed[u] : Member(u, n)
=============================================================================
