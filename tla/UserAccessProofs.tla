-------------------------- MODULE UserAccessProofs --------------------------
(* Proofs about UserAccess, for any clients, addresses and connections, and  *)
(* any limits, lifetimes and timeouts.                                       *)
EXTENDS UserAccess, WellFoundedInduction, TLAPS

LoginStep(c) ==
    \/ Register(c) \/ (\E ip \in IPs : Login(c, ip)) \/ Authenticate(c)
    \/ CreateSession(c) \/ LoadSession(c) \/ HandleRequest(c) \/ Logout(c)

TicketStep(c) ==
    \/ AskTicket(c) \/ LookupUserByFingerprint(c) \/ resolveInstanceByPrefix(c)
    \/ Issue(c) \/ Relay(c) \/ handleStream(c) \/ TicketFails(c)

\* Every step is one of a client, of a connection, of the instance or of time.
LEMMA NextCases ==
    ASSUME [Next]_vars
    PROVE  \/ \E c \in Clients : LoginStep(c)
           \/ \E c \in Conns : TicketStep(c)
           \/ InstanceEnds \/ Tick \/ UNCHANGED vars
  BY Zenon DEF Next, LoginStep, TicketStep

-----------------------------------------------------------------------------
(* Type correctness *)

\* Two names for the limiter's maps keep the provers away from its sums.
LEMMA AllowType ==
    ASSUME TypeOK, NEW ip \in IPs, Allow(ip)
    PROVE  /\ hits' \in [IPs -> [Times -> Nat]] /\ let' \in [IPs -> [Times -> Nat]]
           /\ lastSwep' \in (-Window)..MaxTime
  <1> USE UserAccessAssumption DEF TypeOK, Times
  <1> DEFINE add(h) == IF Allows(ip) THEN [h EXCEPT ![now] = @ + 1] ELSE h
             h1 == [hits EXCEPT ![ip] = add(Fresh(@))]
             due == now - lastSwep >= Window
  <1>1. /\ hits' = IF due THEN [k \in IPs |-> sweepLocked(h1[k])] ELSE h1
        /\ lastSwep' = IF due THEN now ELSE lastSwep
        /\ let' = [let EXCEPT ![ip] = add(@)]
    BY DEF Allow
  <1>2. ASSUME NEW h \in [Times -> Nat] PROVE add(h) \in [Times -> Nat]
    BY <1>2
  <1>3. ASSUME NEW h \in [Times -> Nat]
        PROVE  Fresh(h) \in [Times -> Nat] /\ sweepLocked(h) \in [Times -> Nat]
    BY <1>3 DEF Fresh, sweepLocked, NoHits
  <1> HIDE DEF add
  <1>4. h1 \in [IPs -> [Times -> Nat]]
    BY <1>2, <1>3
  <1>5. let' \in [IPs -> [Times -> Nat]]
    BY <1>1, <1>2
  <1> HIDE DEF h1
  <1>6. hits' \in [IPs -> [Times -> Nat]]
    BY <1>1, <1>3, <1>4
  <1>7. lastSwep' \in (-Window)..MaxTime
    BY <1>1
  <1> QED BY <1>5, <1>6, <1>7

LEMMA LoginType ==
    ASSUME TypeOK, NEW c \in Clients, LoginStep(c)
    PROVE  TypeOK'
  <1> USE UserAccessAssumption DEF TypeOK, Times, Never, limitVars, factVars, sshVars
  <1>1. \A place \in {"out", "checked", "issue", "in", "loaded"} :
            [client EXCEPT ![c].at = place] \in [Clients -> Client]
    BY DEF Client
  <1>2. CASE Register(c)
    BY <1>1, <1>2 DEF Register, CreateUser, Goto
  <1>3. ASSUME NEW ip \in IPs, Login(c, ip) PROVE TypeOK'
    <2>1. client' \in [Clients -> Client]
      BY <1>1, <1>3 DEF Login, Goto
    <2> QED BY <1>3, <2>1, AllowType DEF Login
  <1>4. CASE Authenticate(c)
    BY <1>1, <1>4 DEF Authenticate, Goto
  <1>5. CASE CreateSession(c)
    <2>1. [live |-> TRUE, expires |-> now + SessionTTL, ended |-> Never] \in Session
      BY DEF Session
    <2>2. [client EXCEPT ![c] = [at |-> "in", began |-> 0, used |-> Never, late |-> 0]]
             \in [Clients -> Client]
      BY DEF Client
    <2>3. client' \in [Clients -> Client] /\ session' \in [Clients -> Session]
      BY <1>1, <1>5, <2>1, <2>2, ZenonT(40) DEF CreateSession, Goto
    <2> QED BY <1>5, <2>3 DEF CreateSession
  <1>6. CASE LoadSession(c)
    <2>1. [client EXCEPT ![c].at = "loaded", ![c].began = now] \in [Clients -> Client]
      <3>1. [client[c] EXCEPT !.at = "loaded", !.began = now] \in Client
        <4>1. client[c] \in Client /\ now \in Times
          OBVIOUS
        <4> QED BY <4>1 DEF Client
      <3>2. [client EXCEPT ![c].at = "loaded", ![c].began = now]
               = [client EXCEPT ![c] = [client[c] EXCEPT !.at = "loaded", !.began = now]]
        OBVIOUS
      <3> QED BY <3>1, <3>2
    <2> QED BY <1>1, <1>6, <2>1 DEF LoadSession
  <1>7. CASE HandleRequest(c)
    <2>1. client' \in [Clients -> Client]
      BY <1>7 DEF HandleRequest, Client
    <2>2. key' \in BOOLEAN /\ keyGone' \in Times \cup {Never}
      BY <1>7 DEF HandleRequest, AddKey, DeleteKey
    <2> QED BY <1>7, <2>1, <2>2 DEF HandleRequest
  <1>8. CASE Logout(c)
    <2>1. session' \in [Clients -> Session]
      <3>1. CASE DeleteSessionByTokenHash(c)
        BY <3>1, ZenonT(40) DEF DeleteSessionByTokenHash, Session
      <3> QED BY <1>8, <3>1 DEF Logout
    <2>2. client' \in [Clients -> Client]
      BY <1>1, <1>8, Zenon DEF Logout, Goto
    <2> QED BY <1>8, <2>1, <2>2 DEF Logout
  <1> QED BY <1>2, <1>3, <1>4, <1>5, <1>6, <1>7, <1>8 DEF LoginStep

LEMMA TicketType ==
    ASSUME TypeOK, NEW c \in Conns, TicketStep(c)
    PROVE  TypeOK'
  <1> USE UserAccessAssumption DEF TypeOK, Times, Never, limitVars, userVars, factVars
  <1>1. NoTicket \in Ticket /\ [NoTicket EXCEPT !.at = "done"] \in Ticket
    BY DEF NoTicket, Ticket
  <1>2. \A place \in {"inst", "issue", "stream"} : [ticket EXCEPT ![c].at = place] \in [Conns -> Ticket]
    BY DEF Ticket
  <1>3. [at |-> "have", began |-> 0, expires |-> now + TicketTTL] \in Ticket
    BY DEF Ticket
  <1>4. [ticket EXCEPT ![c].at = "key", ![c].began = now] \in [Conns -> Ticket]
    BY DEF Ticket
  <1>5. ticket' \in [Conns -> Ticket]
    <2>1. CASE AskTicket(c) \/ LookupUserByFingerprint(c) \/ resolveInstanceByPrefix(c) \/ Relay(c)
      BY <1>2, <1>4, <2>1, Zenon DEF TicketAt, AskTicket, LookupUserByFingerprint,
         resolveInstanceByPrefix, Relay
    <2>2. ASSUME NEW x \in Ticket, ticket' = [ticket EXCEPT ![c] = x] PROVE ticket' \in [Conns -> Ticket]
      BY <2>2
    <2>3. CASE Issue(c) \/ handleStream(c) \/ TicketFails(c)
      BY <1>1, <1>3, <2>2, <2>3, Zenon DEF Issue, handleStream, TicketFails
    <2> QED BY <2>1, <2>3 DEF TicketStep
  <1>6. dialled' \in [Conns -> Times \cup {Never}]
    BY DEF TicketStep, AskTicket, LookupUserByFingerprint, resolveInstanceByPrefix, Issue,
       Relay, handleStream, TicketFails
  <1> QED BY <1>5, <1>6 DEF TicketStep, AskTicket, LookupUserByFingerprint,
       resolveInstanceByPrefix, Issue, Relay, handleStream, TicketFails

LEMMA TypeStep ==
    ASSUME TypeOK, [Next]_vars
    PROVE  TypeOK'
  <1> USE UserAccessAssumption DEF TypeOK, Times, Never, limitVars, userVars, factVars, sshVars
  <1>1. CASE \E c \in Clients : LoginStep(c)
    BY <1>1, LoginType
  <1>2. CASE \E c \in Conns : TicketStep(c)
    BY <1>2, TicketType
  <1>3. CASE InstanceEnds
    BY <1>3 DEF InstanceEnds
  <1>4. CASE Tick
    BY <1>4 DEF Tick
  <1>5. CASE UNCHANGED vars
    BY <1>5 DEF vars
  <1> QED BY <1>1, <1>2, <1>3, <1>4, <1>5, NextCases

LEMMA TypeInit == Init => TypeOK
  <1> USE UserAccessAssumption DEF Times, Never
  <1> SUFFICES ASSUME Init PROVE TypeOK
    OBVIOUS
  <1>1. NoHits \in [Times -> Nat] /\ NoTicket \in Ticket
    BY DEF NoHits, NoTicket, Ticket
  <1>2. hits \in [IPs -> [Times -> Nat]] /\ let \in [IPs -> [Times -> Nat]]
    BY <1>1 DEF Init
  <1>3. lastSwep \in (-Window)..MaxTime /\ now \in Times
    BY DEF Init
  <1>4. client \in [Clients -> Client] /\ session \in [Clients -> Session]
    BY DEF Init, Client, Session
  <1>5. ticket \in [Conns -> Ticket] /\ dialled \in [Conns -> Times \cup {Never}]
    BY <1>1 DEF Init
  <1> QED BY <1>2, <1>3, <1>4, <1>5 DEF Init, TypeOK

\* Limiter, sessions, keys and tickets keep their types, and every recorded
\* time stays within the bounds.
THEOREM UserTypeCorrect == Spec => []TypeOK
  BY TypeInit, TypeStep, PTL DEF Spec

-----------------------------------------------------------------------------
(* The login limiter *)

\* What the limiter knows of the past: the sweep is not in the future.
SweepOK == lastSwep <= now

LimiterInv == TypeOK /\ SweepOK /\ KeysReclaimed /\ LimiterExact

\* One Allow, with the sweep it may do on behalf of another key.
LEMMA AllowKeeps ==
    ASSUME LimiterInv, NEW ip \in IPs, Allow(ip), now' = now
    PROVE  SweepOK' /\ KeysReclaimed' /\ LimiterExact'
  <1> USE UserAccessAssumption DEF LimiterInv, TypeOK, Times
  <1> DEFINE add(h) == IF Allows(ip) THEN [h EXCEPT ![now] = @ + 1] ELSE h
             h1 == [hits EXCEPT ![ip] = add(Fresh(@))]
             due == now - lastSwep >= Window
  <1>1. /\ hits' = IF due THEN [k \in IPs |-> sweepLocked(h1[k])] ELSE h1
        /\ lastSwep' = IF due THEN now ELSE lastSwep
        /\ let' = [let EXCEPT ![ip] = add(@)]
    BY DEF Allow
  <1>2. SweepOK'
    BY <1>1 DEF SweepOK
  <1>3. ASSUME NEW h \in [Times -> Nat]
        PROVE  /\ Fresh(h) \in [Times -> Nat]
               /\ \A t \in Times : Fresh(h)[t] = IF t > now - Window THEN h[t] ELSE 0
               /\ Fresh(h) # NoHits => \E t \in Times : h[t] > 0 /\ t > now - Window
               /\ Fresh(h) = NoHits => \A t \in Times : t > now - Window => h[t] = 0
    <2>1. /\ Fresh(h) \in [Times -> Nat]
          /\ \A t \in Times : Fresh(h)[t] = IF t > now - Window THEN h[t] ELSE 0
      BY <1>3 DEF Fresh
    <2>2. NoHits \in [Times -> Nat] /\ \A t \in Times : NoHits[t] = 0
      BY DEF NoHits
    <2>3. Fresh(h) # NoHits => \E t \in Times : Fresh(h)[t] # NoHits[t]
      BY <2>1, <2>2
    <2>4. Fresh(h) # NoHits => \E t \in Times : h[t] > 0 /\ t > now - Window
      <3> SUFFICES ASSUME NEW t \in Times, Fresh(h)[t] # NoHits[t]
                   PROVE  h[t] > 0 /\ t > now - Window
        BY <2>3
      <3>1. h[t] \in Nat /\ Fresh(h)[t] # 0
        BY <1>3, <2>2
      <3> QED BY <2>1, <3>1
    <2>5. Fresh(h) = NoHits => \A t \in Times : t > now - Window => h[t] = 0
      <3> SUFFICES ASSUME Fresh(h) = NoHits, NEW t \in Times, t > now - Window
                   PROVE  h[t] = 0
        OBVIOUS
      <3>1. Fresh(h)[t] = 0
        BY <2>2
      <3> QED BY <2>1, <3>1
    <2> QED BY <2>1, <2>4, <2>5
  <1>4. ASSUME NEW h \in [Times -> Nat]
        PROVE  /\ add(h) \in [Times -> Nat]
               /\ \A t \in Times : add(h)[t] >= h[t]
               /\ add(h) # h => add(h)[now] > 0
    BY <1>4, SMTT(30)
  <1>5. ASSUME NEW g \in [Times -> Nat], NEW h \in [Times -> Nat], NEW t \in Times, g[t] = h[t]
        PROVE  add(g)[t] = add(h)[t]
    BY <1>5
  <1> HIDE DEF add
  <1>6. /\ \A k \in IPs : h1[k] \in [Times -> Nat]
        /\ \A k \in IPs : h1[k] = IF k = ip THEN add(Fresh(hits[ip])) ELSE hits[k]
    BY <1>3, <1>4
  <1> HIDE DEF h1
  <1>7. LimiterExact'
    <2> SUFFICES ASSUME NEW k \in IPs, NEW t \in Times, t > now - Window
                 PROVE  hits'[k][t] = let'[k][t]
      BY DEF LimiterExact
    <2>1. hits[k][t] = let[k][t]
      BY DEF LimiterExact
    <2>2. h1[k][t] = let'[k][t]
      <3>1. CASE k = ip
        <4>1. Fresh(hits[ip])[t] = let[ip][t] /\ Fresh(hits[ip]) \in [Times -> Nat]
          BY <1>3, <2>1, <3>1
        <4>2. let'[k] = add(let[ip]) /\ let[ip] \in [Times -> Nat]
          BY <1>1, <3>1
        <4>3. add(Fresh(hits[ip]))[t] = add(let[ip])[t]
          BY <1>5, <4>1, <4>2
        <4> QED BY <1>6, <3>1, <4>2, <4>3
      <3>2. CASE k # ip
        BY <1>1, <1>6, <2>1, <3>2
      <3> QED BY <3>1, <3>2
    <2>3. sweepLocked(h1[k])[t] = h1[k][t]
      BY <1>3, <1>6 DEF sweepLocked, NoHits
    <2> QED BY <1>1, <2>2, <2>3
  <1>8. KeysReclaimed'
    <2> SUFFICES ASSUME NEW k \in IPs, hits'[k] # NoHits
                 PROVE  \E t \in Times : hits'[k][t] > 0 /\ t > lastSwep' - Window
      BY DEF KeysReclaimed, NoHits
    <2>1. CASE due
      <3>1. hits'[k] = h1[k] /\ Fresh(h1[k]) # NoHits
        BY <1>1, <2>1 DEF sweepLocked
      <3>2. lastSwep' = now
        BY <1>1, <2>1
      <3> QED BY <1>3, <1>6, <3>1, <3>2
    <2>2. CASE ~due
      <3>1. hits'[k] = h1[k] /\ lastSwep' = lastSwep
        BY <1>1, <2>2
      <3>2. CASE k # ip
        BY <1>6, <3>1, <3>2 DEF KeysReclaimed
      <3>3. CASE k = ip /\ add(Fresh(hits[ip])) = Fresh(hits[ip])
        <4>1. Fresh(hits[ip]) # NoHits /\ h1[k] = Fresh(hits[ip])
          BY <1>6, <3>1, <3>3
        <4>2. PICK t \in Times : hits[ip][t] > 0 /\ t > now - Window
          BY <1>3, <4>1
        <4>3. Fresh(hits[ip])[t] > 0
          BY <1>3, <4>2
        <4>4. t > lastSwep - Window
          BY <4>2 DEF SweepOK
        <4> QED BY <3>1, <4>1, <4>3, <4>4
      <3>4. CASE k = ip /\ add(Fresh(hits[ip])) # Fresh(hits[ip])
        <4>1. h1[k][now] > 0
          BY <1>3, <1>4, <1>6, <3>4
        <4>2. now > lastSwep - Window
          BY DEF SweepOK
        <4> QED BY <3>1, <4>1, <4>2
      <3> QED BY <3>2, <3>3, <3>4
    <2> QED BY <2>1, <2>2
  <1> QED BY <1>2, <1>7, <1>8

LEMMA LimiterStep ==
    ASSUME LimiterInv, [Next]_vars
    PROVE  LimiterInv'
  <1>1. TypeOK'
    BY TypeStep DEF LimiterInv
  <1>2. CASE \E c \in Clients, ip \in IPs : Login(c, ip)
    BY <1>1, <1>2, AllowKeeps DEF LimiterInv, Login
  <1>3. CASE UNCHANGED <<now, hits, lastSwep, let>>
    BY <1>1, <1>3 DEF LimiterInv, SweepOK, KeysReclaimed, LimiterExact, NoHits
  <1>4. CASE Tick
    BY <1>1, <1>4, UserAccessAssumption
       DEF LimiterInv, SweepOK, KeysReclaimed, LimiterExact, Tick, limitVars, TypeOK, Times, NoHits
  <1>5. \/ \E c \in Clients, ip \in IPs : Login(c, ip)
        \/ UNCHANGED <<now, hits, lastSwep, let>>
        \/ Tick
    <2>1. CASE \E c \in Clients : LoginStep(c)
      BY <2>1 DEF LoginStep, Register, Authenticate, CreateSession, LoadSession, HandleRequest,
         Logout, limitVars
    <2>2. CASE \E c \in Conns : TicketStep(c)
      BY <2>2 DEF TicketStep, AskTicket, LookupUserByFingerprint, resolveInstanceByPrefix,
         Issue, Relay, handleStream, TicketFails, limitVars
    <2>3. CASE InstanceEnds \/ UNCHANGED vars
      BY <2>3 DEF InstanceEnds, vars, limitVars
    <2> QED BY <2>1, <2>2, <2>3, NextCases
  <1> QED BY <1>2, <1>3, <1>4, <1>5

LEMMA LimiterInit == Init => LimiterInv
  BY TypeInit, UserAccessAssumption
     DEF Init, LimiterInv, SweepOK, KeysReclaimed, LimiterExact

\* Every key the limiter's map keeps was let in less than a window before the
\* last sweep, or since, however many addresses try to log in.
THEOREM KeysReclaimedSound == Spec => []KeysReclaimed
  <1>1. LimiterInv => KeysReclaimed
    BY DEF LimiterInv
  <1> QED BY <1>1, LimiterInit, LimiterStep, PTL DEF Spec

\* What Allow counts for a key is exactly what it let in during the last
\* window: no pruning and no sweep for another key loses a hit that counts.
THEOREM LimiterSound == Spec => []LimiterExact
  <1>1. LimiterInv => LimiterExact
    BY DEF LimiterInv
  <1> QED BY <1>1, LimiterInit, LimiterStep, PTL DEF Spec

-----------------------------------------------------------------------------
(* How often the limiter lets a key in *)

\* A set of naturals has a least element; induction over time is by it.
LEMMA LeastTime ==
    ASSUME NEW T \in SUBSET Nat, T # {}
    PROVE  \E n \in T : \A m \in T : n <= m
  <1> DEFINE before == OpToRel(<, Nat)
  <1>1. IsWellFoundedOn(before, Nat)
    BY NatLessThanWellFounded
  <1>2. before = {ss \in Nat \X Nat : ss[1] < ss[2]}
    BY DEF OpToRel
  <1> HIDE DEF before
  <1>3. PICK n \in T : \A m \in T : <<m, n>> \notin before
    BY <1>1, WFMin
  <1>4. \A m \in T : ~(m < n)
    BY <1>2, <1>3
  <1> QED BY <1>4

\* f counts the hits up to each time before n.
Counts(f, h, n) ==
    f \in [0..n -> Nat] /\ f[0] = h[0] /\ \A t \in 1..n : f[t] = f[t - 1] + h[t]

\* There is such a count.
LEMMA CountExists ==
    ASSUME NEW h \in [Times -> Nat]
    PROVE  \E f : Counts(f, h, MaxTime)
  <1> DEFINE T == {n \in Times : ~\E f : Counts(f, h, n)}
  <1>1. MaxTime \in Nat /\ Times = 0..MaxTime /\ MaxTime \in Times
    BY UserAccessAssumption DEF Times
  <1> SUFFICES ASSUME T # {} PROVE FALSE
    BY <1>1
  <1>2. PICK n \in T : \A m \in T : n <= m
    <2>1. T \in SUBSET Nat
      BY <1>1
    <2> HIDE DEF T
    <2> QED BY <2>1, LeastTime
  <1>3. CASE n = 0
    <2>1. Counts([t \in 0..0 |-> h[0]], h, 0)
      BY <1>1 DEF Counts
    <2> QED BY <1>2, <1>3, <2>1
  <1>4. CASE n # 0
    <2>1. n \in 1..MaxTime /\ n \in Times /\ n - 1 \in Times /\ n - 1 \notin T
      BY <1>1, <1>2, <1>4
    <2>2. PICK f : Counts(f, h, n - 1)
      BY <2>1
    <2> DEFINE g == [t \in 0..n |-> IF t = n THEN f[n - 1] + h[n] ELSE f[t]]
    <2>3. f \in [0..(n - 1) -> Nat] /\ f[0] = h[0] /\ h[n] \in Nat
      BY <2>1, <2>2 DEF Counts
    <2>4. g \in [0..n -> Nat]
      BY <2>1, <2>3
    <2>5. g[0] = h[0] /\ g[n] = f[n - 1] + h[n] /\ \A t \in 0..(n - 1) : g[t] = f[t]
      BY <2>1, <2>3
    <2> HIDE DEF g
    <2>6. \A t \in 1..n : g[t] = g[t - 1] + h[t]
      <3> SUFFICES ASSUME NEW t \in 1..n PROVE g[t] = g[t - 1] + h[t]
        OBVIOUS
      <3>1. CASE t = n
        BY <2>1, <2>5, <3>1
      <3>2. CASE t # n
        <4>1. t \in 1..(n - 1) /\ t \in 0..(n - 1) /\ t - 1 \in 0..(n - 1)
          BY <2>1, <3>2
        <4> QED BY <2>2, <2>5, <4>1 DEF Counts
      <3> QED BY <3>1, <3>2
    <2>7. Counts(g, h, n)
      BY <2>4, <2>5, <2>6 DEF Counts
    <2> QED BY <1>2, <2>7
  <1> QED BY <1>3, <1>4

\* So the recursive definition of Totals means what it says.
LEMMA TotalsCount ==
    ASSUME NEW h \in [Times -> Nat]
    PROVE  /\ Totals(h)[0] = h[0]
           /\ \A t \in 1..MaxTime : Totals(h)[t] = Totals(h)[t - 1] + h[t]
           /\ \A t \in Times : Totals(h)[t] \in Nat
  <1> DEFINE Step(f) == [t \in Times |-> IF t = 0 THEN h[0] ELSE f[t - 1] + h[t]]
             s == Totals(h)
  <1>1. MaxTime \in Nat /\ Times = 0..MaxTime
    BY UserAccessAssumption DEF Times
  <1>2. PICK f : Counts(f, h, MaxTime)
    BY CountExists
  <1>3. f = Step(f)
    <2>1. \A t \in Times : f[t] = Step(f)[t]
      <3> SUFFICES ASSUME NEW t \in Times PROVE f[t] = Step(f)[t]
        OBVIOUS
      <3>1. t = 0 \/ t \in 1..MaxTime
        BY <1>1
      <3> QED BY <1>2, <3>1 DEF Counts
    <2>2. f \in [Times -> Nat]
      BY <1>1, <1>2 DEF Counts
    <2> QED BY <2>1, <2>2
  <1>4. s = Step(s)
    <2>1. s = CHOOSE g : g = Step(g)
      BY DEF Totals
    <2> HIDE DEF Step, s
    <2> QED BY <1>3, <2>1
  <1> HIDE DEF s
  <1>5. \A t \in Times : s[t] = IF t = 0 THEN h[0] ELSE s[t - 1] + h[t]
    BY <1>4
  <1>6. s[0] = h[0] /\ \A t \in 1..MaxTime : s[t] = s[t - 1] + h[t]
    BY <1>1, <1>5
  <1>7. \A t \in Times : s[t] \in Nat
    <2> DEFINE T == {t \in Times : s[t] \notin Nat}
    <2> SUFFICES ASSUME T # {} PROVE FALSE
      OBVIOUS
    <2>1. PICK n \in T : \A m \in T : n <= m
      <3>1. T \in SUBSET Nat
        BY <1>1
      <3> HIDE DEF T
      <3> QED BY <3>1, LeastTime
    <2>2. n # 0
      BY <1>1, <1>6, <2>1
    <2>3. n \in 1..MaxTime /\ n - 1 \in Times /\ n - 1 \notin T /\ n \in Times
      BY <1>1, <2>1, <2>2
    <2>4. s[n - 1] \in Nat /\ h[n] \in Nat
      BY <2>3
    <2> QED BY <1>6, <2>1, <2>3, <2>4
  <1> QED BY <1>6, <1>7 DEF s

\* Fewer hits at every time are fewer hits.
LEMMA TotalMonotone ==
    ASSUME NEW g \in [Times -> Nat], NEW h \in [Times -> Nat], \A t \in Times : g[t] <= h[t]
    PROVE  Total(g) <= Total(h) /\ Total(g) \in Nat /\ Total(h) \in Nat
  <1> DEFINE a == Totals(g)
             b == Totals(h)
             T == {t \in Times : ~(a[t] <= b[t])}
  <1>1. MaxTime \in Nat /\ Times = 0..MaxTime /\ MaxTime \in Times
    BY UserAccessAssumption DEF Times
  <1>2. /\ a[0] = g[0] /\ (\A t \in 1..MaxTime : a[t] = a[t - 1] + g[t]) /\ \A t \in Times : a[t] \in Nat
        /\ b[0] = h[0] /\ (\A t \in 1..MaxTime : b[t] = b[t - 1] + h[t]) /\ \A t \in Times : b[t] \in Nat
    BY TotalsCount
  <1> HIDE DEF a, b
  <1>3. T = {}
    <2> SUFFICES ASSUME T # {} PROVE FALSE
      OBVIOUS
    <2>1. PICK n \in T : \A m \in T : n <= m
      <3>1. T \in SUBSET Nat
        BY <1>1
      <3> HIDE DEF T
      <3> QED BY <3>1, LeastTime
    <2>2. n # 0
      BY <1>1, <1>2, <2>1
    <2>3. n \in 1..MaxTime /\ n - 1 \in Times /\ n - 1 \notin T /\ n \in Times
      BY <1>1, <2>1, <2>2
    <2>4. a[n - 1] <= b[n - 1] /\ g[n] <= h[n] /\ g[n] \in Nat /\ h[n] \in Nat
      BY <2>3
    <2>5. a[n] <= b[n]
      BY <1>2, <2>3, <2>4
    <2> QED BY <2>1, <2>5
  <1>4. a[MaxTime] <= b[MaxTime]
    BY <1>1, <1>3
  <1> QED BY <1>1, <1>2, <1>4 DEF Total, a, b

\* One more hit is one more.
LEMMA TotalOneMore ==
    ASSUME NEW h \in [Times -> Nat], NEW g \in [Times -> Nat], NEW at \in Times,
           g[at] = h[at] + 1, \A t \in Times : t # at => g[t] = h[t]
    PROVE  Total(g) = Total(h) + 1
  <1> DEFINE a == Totals(g)
             b == Totals(h)
             T == {t \in Times : a[t] # b[t] + (IF t < at THEN 0 ELSE 1)}
  <1>1. MaxTime \in Nat /\ Times = 0..MaxTime /\ MaxTime \in Times /\ at <= MaxTime /\ at \in Nat
    BY UserAccessAssumption DEF Times
  <1>2. /\ a[0] = g[0] /\ (\A t \in 1..MaxTime : a[t] = a[t - 1] + g[t]) /\ \A t \in Times : a[t] \in Nat
        /\ b[0] = h[0] /\ (\A t \in 1..MaxTime : b[t] = b[t - 1] + h[t]) /\ \A t \in Times : b[t] \in Nat
    BY TotalsCount
  <1> HIDE DEF a, b
  <1>3. T = {}
    <2> SUFFICES ASSUME T # {} PROVE FALSE
      OBVIOUS
    <2>1. PICK n \in T : \A m \in T : n <= m
      <3>1. T \in SUBSET Nat
        BY <1>1
      <3> HIDE DEF T
      <3> QED BY <3>1, LeastTime
    <2>2. n # 0
      <3>1. 0 \in Times /\ h[0] \in Nat
        BY <1>1
      <3>2. a[0] = b[0] + (IF 0 < at THEN 0 ELSE 1)
        <4>1. CASE at = 0
          BY <1>2, <4>1
        <4>2. CASE at # 0
          <5>1. 0 < at /\ g[0] = h[0]
            BY <1>1, <3>1, <4>2
          <5> QED BY <1>2, <3>1, <5>1
        <4> QED BY <4>1, <4>2
      <3> QED BY <2>1, <3>2
    <2>3. n \in 1..MaxTime /\ n - 1 \in Times /\ n - 1 \notin T /\ n \in Times
      BY <1>1, <2>1, <2>2
    <2>4. /\ a[n - 1] = b[n - 1] + (IF n - 1 < at THEN 0 ELSE 1)
          /\ h[n] \in Nat /\ g[n] = h[n] + (IF n = at THEN 1 ELSE 0)
      BY <2>3
    <2>5. a[n] = a[n - 1] + g[n] /\ b[n] = b[n - 1] + h[n] /\ a[n - 1] \in Nat /\ b[n - 1] \in Nat
      BY <1>2, <2>3
    <2>6. a[n] = b[n] + (IF n < at THEN 0 ELSE 1)
      <3>1. n \in Nat /\ at \in Nat
        BY <1>1, <2>3
      <3>2. CASE n < at
        <4>1. n - 1 < at /\ n # at
          BY <3>1, <3>2
        <4> QED BY <2>4, <2>5, <3>2, <4>1
      <3>3. CASE n = at
        <4>1. n - 1 < at /\ ~(n < at)
          BY <3>1, <3>3
        <4> QED BY <2>4, <2>5, <3>3, <4>1
      <3>4. CASE n > at
        <4>1. ~(n - 1 < at) /\ n # at /\ ~(n < at)
          BY <3>1, <3>4
        <4> QED BY <2>4, <2>5, <4>1
      <3> QED BY <3>1, <3>2, <3>3, <3>4
    <2> QED BY <2>1, <2>6
  <1>4. a[MaxTime] = b[MaxTime] + 1
    BY <1>1, <1>3
  <1> QED BY <1>4 DEF Total, a, b

\* The times a key was let in, in the window that starts at s.
HitsFrom(h, s) == [t \in Times |-> IF t \in s..(s + Window - 1) THEN h[t] ELSE 0]

\* No key was let in at a time to come.
PastOnly == \A ip \in IPs, t \in Times : t > now => let[ip][t] = 0

WindowInv == LimiterInv /\ PastOnly /\ LimitHolds

\* One Allow: a window that holds this moment holds no hit that Allow has not
\* counted, so it had less than Limit.
LEMMA AllowLimits ==
    ASSUME WindowInv, NEW ip \in IPs, Allow(ip), now' = now
    PROVE  PastOnly' /\ LimitHolds'
  <1>t. /\ let \in [IPs -> [Times -> Nat]] /\ hits \in [IPs -> [Times -> Nat]] /\ now \in Times
        /\ Window \in Nat \ {0} /\ Times \subseteq Nat /\ Limit \in Nat
    BY UserAccessAssumption DEF WindowInv, LimiterInv, TypeOK, Times
  <1> DEFINE h == let[ip]
             g == [h EXCEPT ![now] = @ + 1]
  <1>1. h \in [Times -> Nat] /\ g \in [Times -> Nat]
    BY <1>t
  <1>2. let' = let \/ (Allows(ip) /\ let' = [let EXCEPT ![ip] = g])
    BY <1>t DEF Allow
  <1>3. \A k \in IPs, s \in Times : Total(HitsFrom(let[k], s)) <= Limit
    BY DEF WindowInv, LimitHolds, HitsFrom
  <1>4. g[now] = h[now] + 1 /\ \A t \in Times : t # now => g[t] = h[t]
    BY <1>t, <1>1
  <1> HIDE DEF g
  <1>5. CASE let' = let
    BY <1>5 DEF WindowInv, PastOnly, LimitHolds
  <1>6. CASE Allows(ip) /\ let' = [let EXCEPT ![ip] = g]
    <2>1. let'[ip] = g /\ \A k \in IPs : k # ip => let'[k] = let[k]
      BY <1>t, <1>6
    <2>2. PastOnly'
      BY <1>t, <1>4, <2>1 DEF WindowInv, PastOnly
    <2>3. \A s \in Times : Total(HitsFrom(g, s)) <= Limit
      <3> SUFFICES ASSUME NEW s \in Times PROVE Total(HitsFrom(g, s)) <= Limit
        OBVIOUS
      <3> DEFINE wh == HitsFrom(h, s)
                 wg == HitsFrom(g, s)
      <3>1. /\ wh \in [Times -> Nat] /\ wg \in [Times -> Nat]
            /\ \A t \in Times : wh[t] = IF t \in s..(s + Window - 1) THEN h[t] ELSE 0
            /\ \A t \in Times : wg[t] = IF t \in s..(s + Window - 1) THEN g[t] ELSE 0
        BY <1>1 DEF HitsFrom
      <3> HIDE DEF wh, wg
      <3>2. CASE now \notin s..(s + Window - 1)
        <4>1. \A t \in Times : wg[t] <= wh[t]
          <5> SUFFICES ASSUME NEW t \in Times PROVE wg[t] = wh[t] /\ wh[t] \in Nat
            OBVIOUS
          <5> QED BY <1>4, <3>1, <3>2
        <4>2. Total(wg) <= Total(wh) /\ Total(wg) \in Nat /\ Total(wh) \in Nat
          BY <3>1, <4>1, TotalMonotone
        <4>3. Total(wh) <= Limit
          BY <1>3 DEF wh
        <4> QED BY <1>t, <4>2, <4>3 DEF wg
      <3>3. CASE now \in s..(s + Window - 1)
        <4>1. Fresh(hits[ip]) \in [Times -> Nat]
              /\ \A t \in Times : Fresh(hits[ip])[t] = IF t > now - Window THEN hits[ip][t] ELSE 0
          BY <1>t DEF Fresh
        <4>2. \A t \in Times : wh[t] <= Fresh(hits[ip])[t]
          <5> SUFFICES ASSUME NEW t \in Times PROVE wh[t] <= Fresh(hits[ip])[t]
            OBVIOUS
          <5>1. Fresh(hits[ip])[t] \in Nat /\ t \in Nat /\ now \in Nat /\ s \in Nat
            BY <1>t, <4>1
          <5>2. CASE t \in s..(s + Window - 1) /\ t <= now
            <6>1. t > now - Window
              BY <1>t, <3>3, <5>1, <5>2
            <6>2. hits[ip][t] = h[t]
              BY <6>1 DEF WindowInv, LimiterInv, LimiterExact
            <6> QED BY <3>1, <4>1, <5>1, <5>2, <6>1, <6>2
          <5>3. CASE ~(t \in s..(s + Window - 1) /\ t <= now)
            <6>1. wh[t] = 0
              BY <3>1, <5>1, <5>3 DEF WindowInv, PastOnly
            <6> QED BY <5>1, <6>1
          <5> QED BY <5>2, <5>3
        <4>3. Total(wh) <= Total(Fresh(hits[ip])) /\ Total(wh) \in Nat /\ Total(Fresh(hits[ip])) \in Nat
          BY <3>1, <4>1, <4>2, TotalMonotone
        <4>4. Total(Fresh(hits[ip])) < Limit
          BY <1>6 DEF Allows
        <4>5. wg[now] = wh[now] + 1 /\ \A t \in Times : t # now => wg[t] = wh[t]
          BY <1>t, <1>4, <3>1, <3>3
        <4>6. Total(wg) = Total(wh) + 1
          BY <1>t, <3>1, <4>5, TotalOneMore
        <4> QED BY <1>t, <4>3, <4>4, <4>6 DEF wg
      <3> QED BY <3>2, <3>3
    <2>4. \A k \in IPs, s \in Times : Total(HitsFrom(let'[k], s)) <= Limit
      BY <1>3, <2>1, <2>3
    <2> QED BY <2>2, <2>4 DEF LimitHolds, HitsFrom
  <1> QED BY <1>2, <1>5, <1>6

\* Time passes without a hit.
LEMMA WindowStep ==
    ASSUME WindowInv, [Next]_vars
    PROVE  WindowInv'
  <1>1. LimiterInv'
    BY LimiterStep DEF WindowInv
  <1>2. CASE \E c \in Clients, ip \in IPs : Login(c, ip)
    BY <1>1, <1>2, AllowLimits DEF WindowInv, Login
  <1>3. CASE let' = let /\ now' \in {now, now + 1}
    <2>1. PastOnly'
      BY <1>3, UserAccessAssumption DEF WindowInv, LimiterInv, TypeOK, PastOnly, Times
    <2>2. LimitHolds'
      BY <1>3 DEF WindowInv, LimitHolds
    <2> QED BY <1>1, <2>1, <2>2 DEF WindowInv
  <1>4. \/ \E c \in Clients, ip \in IPs : Login(c, ip)
        \/ let' = let /\ now' \in {now, now + 1}
    <2>1. CASE \E c \in Clients : LoginStep(c)
      BY <2>1 DEF LoginStep, Register, Authenticate, CreateSession, LoadSession, HandleRequest,
         Logout, limitVars
    <2>2. CASE \E c \in Conns : TicketStep(c)
      BY <2>2 DEF TicketStep, AskTicket, LookupUserByFingerprint, resolveInstanceByPrefix,
         Issue, Relay, handleStream, TicketFails, limitVars
    <2>3. CASE InstanceEnds \/ Tick \/ UNCHANGED vars
      BY <2>3 DEF InstanceEnds, Tick, vars, limitVars
    <2> QED BY <2>1, <2>2, <2>3, NextCases
  <1> QED BY <1>2, <1>3, <1>4

\* In no window that starts at any time is a key let in more often than Limit,
\* whatever other keys do to the map meanwhile.
THEOREM LimitSound == Spec => []LimitHolds
  <1>1. Init => WindowInv
    <2> SUFFICES ASSUME Init PROVE WindowInv
      OBVIOUS
    <2>1. \A ip \in IPs : let[ip] = NoHits
      BY DEF Init
    <2>2. NoHits \in [Times -> Nat] /\ \A t \in Times : NoHits[t] = 0
      BY DEF NoHits
    <2>3. \A ip \in IPs, s \in Times : HitsFrom(let[ip], s) = NoHits
      BY <2>1, <2>2 DEF HitsFrom, NoHits
    <2>4. Total(NoHits) = 0
      <3> DEFINE a == Totals(NoHits)
                 T == {t \in Times : a[t] # 0}
      <3>1. MaxTime \in Nat /\ Times = 0..MaxTime /\ MaxTime \in Times
        BY UserAccessAssumption DEF Times
      <3>2. a[0] = 0 /\ \A t \in 1..MaxTime : a[t] = a[t - 1] + 0
        BY <2>2, <3>1, TotalsCount
      <3> HIDE DEF a
      <3> SUFFICES ASSUME T # {} PROVE FALSE
        BY <3>1 DEF Total, a
      <3>3. PICK n \in T : \A m \in T : n <= m
        <4>1. T \in SUBSET Nat
          BY <3>1
        <4> HIDE DEF T
        <4> QED BY <4>1, LeastTime
      <3>4. n \in 1..MaxTime /\ n - 1 \in Times /\ n - 1 \notin T
        BY <3>1, <3>2, <3>3
      <3> QED BY <3>2, <3>3, <3>4
    <2>5. LimitHolds
      BY <2>3, <2>4, UserAccessAssumption DEF LimitHolds, HitsFrom
    <2>6. PastOnly
      BY <2>1, <2>2 DEF PastOnly
    <2> QED BY <2>5, <2>6, LimiterInit DEF WindowInv
  <1>2. WindowInv => LimitHolds
    BY DEF WindowInv
  <1> QED BY <1>1, <1>2, WindowStep, PTL DEF Spec

-----------------------------------------------------------------------------
(* Sessions *)

\* The time t lies within the life of the client's session.
Within(c, t) ==
    /\ t < session[c].expires
    /\ session[c].ended # Never => t <= session[c].ended

\* A row in the table was not ended; a request under way began, and the last
\* one served had begun, within the session's life and not in the future; and
\* a late one was served only when the session was over, and the last.
SessionOK(c) ==
    /\ session[c].live => session[c].ended = Never
    /\ client[c].at = "loaded" =>
          Within(c, client[c].began) /\ client[c].began <= now /\ client[c].late = 0
    /\ client[c].used # Never => Within(c, client[c].used) /\ client[c].used <= now
    /\ client[c].late <= 1
    /\ client[c].late = 1 => ~GetSessionByTokenHash(c)

SessionInv == TypeOK /\ \A c \in Clients : SessionOK(c)

\* A step of a client is nothing to the others.
LEMMA SessionLogin ==
    ASSUME SessionInv, NEW c \in Clients, LoginStep(c)
    PROVE  \A d \in Clients : SessionOK(d)'
  <1> USE UserAccessAssumption DEF SessionInv, TypeOK, Times, Never
  <1> SUFFICES ASSUME NEW d \in Clients PROVE SessionOK(d)'
    OBVIOUS
  <1>1. SessionOK(d) /\ client[d] \in Client /\ session[d] \in Session /\ now \in Int
    BY DEF Client, Session
  <1>2. now' = now
    BY DEF LoginStep, Register, Login, Authenticate, CreateSession, LoadSession,
       HandleRequest, Logout
  <1>3. CASE client'[d] = client[d] /\ session'[d] = session[d]
    BY <1>1, <1>2, <1>3 DEF SessionOK, Within, GetSessionByTokenHash
  <1>4. CASE d # c
    <2>1. client'[d] = client[d] /\ session'[d] = session[d]
      BY <1>4 DEF LoginStep, Register, Login, Authenticate, CreateSession, LoadSession,
         HandleRequest, Logout, Goto, DeleteSessionByTokenHash
    <2> QED BY <1>3, <2>1
  <1>5. CASE d = c /\ (Register(c) \/ (\E ip \in IPs : Login(c, ip)) \/ Authenticate(c))
    <2>1. /\ session'[c] = session[c] /\ client'[c].at # "loaded"
          /\ client'[c].used = client[c].used /\ client'[c].late = client[c].late
      BY <1>5 DEF Register, Login, Authenticate, Goto, Client
    <2> QED BY <1>1, <1>2, <1>5, <2>1 DEF SessionOK, Within, GetSessionByTokenHash
  <1>6. CASE d = c /\ CreateSession(c)
    <2>1. CASE client' = [client EXCEPT ![c] = [at |-> "in", began |-> 0, used |-> Never, late |-> 0]]
      <3>1. client'[c].at = "in" /\ client'[c].used = Never /\ client'[c].late = 0
        BY <2>1 DEF Client
      <3>2. session'[c] = session[c] \/ session'[c].ended = Never
        BY <1>6 DEF CreateSession
      <3> QED BY <1>1, <1>6, <3>1, <3>2 DEF SessionOK
    <2>2. CASE Goto(c, "out") /\ UNCHANGED session
      <3>1. /\ client'[c].at = "out" /\ client'[c].used = client[c].used
            /\ client'[c].late = client[c].late /\ session' = session
        BY <2>2 DEF Goto, Client
      <3> QED BY <1>1, <1>2, <1>6, <3>1 DEF SessionOK, Within, GetSessionByTokenHash
    <2> QED BY <1>6, <2>1, <2>2 DEF CreateSession
  <1>7. CASE d = c /\ LoadSession(c)
    <2>1. session' = session /\ client'[c].used = client[c].used /\ client'[c].late = client[c].late
      BY <1>7 DEF LoadSession, Client
    <2>2. client'[c].at = "loaded" => client'[c].began = now /\ GetSessionByTokenHash(c)
      BY <1>7 DEF LoadSession, Client
    <2>3. client'[c].at = "loaded" => Within(c, now) /\ client[c].late = 0
      BY <1>1, <1>7, <2>2 DEF Within, SessionOK, Session, Client, GetSessionByTokenHash
    <2> QED BY <1>1, <1>2, <1>7, <2>1, <2>2, <2>3 DEF SessionOK, Within, GetSessionByTokenHash
  <1>8. CASE d = c /\ HandleRequest(c)
    <2>1. /\ session' = session /\ client[c].at = "loaded"
          /\ client'[c].at = "in" /\ client'[c].used = client[c].began
          /\ client'[c].late = IF GetSessionByTokenHash(c) THEN client[c].late ELSE client[c].late + 1
      BY <1>8 DEF HandleRequest
    <2>2. /\ client'[c].late <= 1
          /\ client'[c].late = 1 => ~GetSessionByTokenHash(c)
      BY <1>1, <1>8, <2>1 DEF SessionOK
    <2> QED BY <1>1, <1>2, <1>8, <2>1, <2>2 DEF SessionOK, Within, GetSessionByTokenHash
  <1>9. CASE d = c /\ Logout(c)
    <2>1. /\ client'[c].at = "loaded" => client[c].at = "loaded"
          /\ client'[c].began = client[c].began /\ client'[c].used = client[c].used
          /\ client'[c].late = client[c].late
      BY <1>9 DEF Logout, Goto, Client
    <2>2. CASE DeleteSessionByTokenHash(c)
      <3>1. /\ session'[c].ended = now /\ session'[c].live = FALSE
            /\ session'[c].expires = session[c].expires
        BY <2>2 DEF DeleteSessionByTokenHash, Session
      <3> QED BY <1>1, <1>2, <1>9, <2>1, <3>1 DEF SessionOK, Within, GetSessionByTokenHash
    <2>3. CASE session' = session
      BY <1>1, <1>2, <1>9, <2>1, <2>3 DEF SessionOK, Within, GetSessionByTokenHash
    <2> QED BY <1>9, <2>2, <2>3 DEF Logout
  <1> QED BY <1>4, <1>5, <1>6, <1>7, <1>8, <1>9 DEF LoginStep

LEMMA SessionStep ==
    ASSUME SessionInv, [Next]_vars
    PROVE  SessionInv'
  <1>1. TypeOK'
    BY TypeStep DEF SessionInv
  <1>2. CASE \E c \in Clients : LoginStep(c)
    BY <1>1, <1>2, SessionLogin DEF SessionInv
  <1>3. CASE UNCHANGED <<client, session>> /\ now' >= now
    <2> SUFFICES ASSUME NEW c \in Clients PROVE SessionOK(c)'
      BY <1>1 DEF SessionInv
    <2>1. /\ SessionOK(c) /\ client[c] \in Client /\ session[c] \in Session
          /\ now \in Int /\ now' \in Int
      BY <1>1 DEF SessionInv, TypeOK, Times
    <2> QED BY <1>3, <2>1, UserAccessAssumption
        DEF SessionOK, Within, Client, Session, Times, Never, GetSessionByTokenHash
  <1>4. CASE (\E c \in Conns : TicketStep(c)) \/ InstanceEnds \/ Tick \/ UNCHANGED vars
    <2>1. now \in Int
      BY UserAccessAssumption DEF SessionInv, TypeOK, Times
    <2>2. UNCHANGED <<client, session>> /\ (now' = now \/ now' = now + 1)
      BY <1>4 DEF TicketStep, AskTicket, LookupUserByFingerprint, resolveInstanceByPrefix,
         Issue, Relay, handleStream, TicketFails, InstanceEnds, Tick, vars, userVars
    <2> QED BY <1>3, <2>1, <2>2
  <1> QED BY <1>2, <1>4, NextCases

\* Once a session is over at most the request then under way is served, and
\* every request served began before the session expired and no later than its
\* logout, however late it finishes and however many clients there are.
THEOREM SessionsSound == Spec => []SessionEnds
  <1>1. Init => SessionInv
    BY TypeInit DEF Init, SessionInv, SessionOK
  <1>2. SessionInv => SessionEnds
    BY DEF SessionInv, SessionOK, Within, SessionEnds
  <1> QED BY <1>1, <1>2, SessionStep, PTL DEF Spec

-----------------------------------------------------------------------------
(* Tickets *)

\* What a connection relies on was true when it was looked up.  A call is not
\* older than its client waits; the fact that was looked up ended, if it did,
\* after the call began; a ticket outlives the end of what it was issued for
\* by no more than the timeout and its lifetime.
Looked(c, gone) == gone # Never => ticket[c].began <= gone

Outlives(c, gone) == gone # Never => ticket[c].expires <= gone + Patience + TicketTTL

TicketOK(c) ==
    /\ ticket[c].at \in {"key", "inst", "issue"} =>
          ticket[c].began <= now /\ now <= ticket[c].began + Patience
    /\ ticket[c].at \in {"inst", "issue"} => Looked(c, keyGone)
    /\ ticket[c].at = "issue" => Looked(c, instGone)
    /\ ticket[c].at \in {"have", "stream"} =>
          /\ ticket[c].expires <= now + TicketTTL
          /\ Outlives(c, keyGone) /\ Outlives(c, instGone)

DialOK(c) ==
    dialled[c] # Never =>
        /\ dialled[c] <= now
        /\ instGone # Never => dialled[c] <= instGone + DialLatency
        /\ keyGone # Never => dialled[c] <= keyGone + DialLatency

FactsOK ==
    /\ key => keyGone = Never
    /\ inst => instGone = Never

TicketInv == TypeOK /\ FactsOK /\ \A c \in Conns : TicketOK(c) /\ DialOK(c)

\* A step of one connection.
LEMMA TicketOwn ==
    ASSUME TicketInv, NEW c \in Conns, TicketStep(c)
    PROVE  FactsOK' /\ \A d \in Conns : TicketOK(d)' /\ DialOK(d)'
  <1> USE UserAccessAssumption DEF TicketInv, TypeOK, Times, Never, DialLatency
  <1>1. UNCHANGED <<now, key, keyGone, inst, instGone>>
    BY DEF TicketStep, AskTicket, LookupUserByFingerprint, resolveInstanceByPrefix,
       Issue, Relay, handleStream, TicketFails, factVars
  <1>2. ASSUME NEW d \in Conns, d # c PROVE TicketOK(d)' /\ DialOK(d)'
    <2>1. ticket'[d] = ticket[d] /\ dialled'[d] = dialled[d]
      BY <1>2 DEF TicketStep, AskTicket, LookupUserByFingerprint, resolveInstanceByPrefix,
         Issue, Relay, handleStream, TicketFails, TicketAt
    <2> QED BY <1>1, <2>1 DEF TicketOK, DialOK, Looked, Outlives
  <1>3. /\ TicketOK(c) /\ DialOK(c) /\ FactsOK /\ ticket[c] \in Ticket
        /\ now \in Int /\ keyGone \in Int /\ instGone \in Int
    OBVIOUS
  <1>4. TicketOK(c)' /\ DialOK(c)'
    <2>1. CASE AskTicket(c)
      <3>1. /\ ticket'[c].at = "key" /\ ticket'[c].began = now
            /\ dialled'[c] = dialled[c]
        BY <2>1 DEF AskTicket, Ticket
      <3> QED BY <1>1, <1>3, <3>1 DEF TicketOK, DialOK
    <2>2. CASE LookupUserByFingerprint(c)
      <3>1. /\ ticket[c].at = "key" /\ ticket'[c].at = "inst"
            /\ ticket'[c].began = ticket[c].began
            /\ dialled'[c] = dialled[c] /\ keyGone = Never
        BY <1>3, <2>2 DEF LookupUserByFingerprint, LookupSSHKeyByFingerprint, TicketAt, Ticket, FactsOK
      <3> QED BY <1>1, <1>3, <3>1 DEF TicketOK, DialOK, Looked
    <2>3. CASE resolveInstanceByPrefix(c)
      <3>1. /\ ticket[c].at = "inst" /\ ticket'[c].at = "issue"
            /\ ticket'[c].began = ticket[c].began
            /\ dialled'[c] = dialled[c] /\ instGone = Never
        BY <1>3, <2>3 DEF resolveInstanceByPrefix, ListInstancesByOwnerAndIDPrefix, TicketAt, Ticket, FactsOK
      <3> QED BY <1>1, <1>3, <3>1 DEF TicketOK, DialOK, Looked
    <2>4. CASE Issue(c)
      <3>1. /\ ticket[c].at = "issue" /\ ticket'[c].at = "have"
            /\ ticket'[c].expires = now + TicketTTL
            /\ dialled'[c] = dialled[c]
        BY <2>4 DEF Issue
      <3>2. ticket[c].began \in Int
        BY <1>3 DEF Ticket
      <3> QED BY <1>1, <1>3, <3>1, <3>2 DEF TicketOK, DialOK, Looked, Outlives
    <2>5. CASE Relay(c)
      <3>1. /\ ticket[c].at = "have" /\ ticket'[c].at = "stream"
            /\ ticket'[c].expires = ticket[c].expires
            /\ dialled'[c] = dialled[c]
        BY <2>5 DEF Relay, TicketAt, Ticket
      <3> QED BY <1>1, <1>3, <3>1 DEF TicketOK, DialOK, Outlives
    <2>6. CASE handleStream(c)
      <3>1. /\ ticket[c].at = "stream" /\ now <= ticket[c].expires - Margin
            /\ ticket'[c].at = "done" /\ dialled'[c] = now
            /\ ticket[c].expires \in Int
        BY <1>3, <2>6 DEF handleStream, Expired, NoTicket, Ticket
      <3>2. TicketOK(c)'
        BY <3>1 DEF TicketOK
      <3>3. DialOK(c)'
        BY <1>1, <1>3, <3>1 DEF TicketOK, DialOK, Outlives
      <3> QED BY <3>2, <3>3
    <2>7. CASE TicketFails(c)
      <3>1. ticket'[c].at = "none" /\ dialled'[c] = dialled[c]
        BY <2>7 DEF TicketFails, NoTicket
      <3> QED BY <1>1, <1>3, <3>1 DEF TicketOK, DialOK
    <2> QED BY <2>1, <2>2, <2>3, <2>4, <2>5, <2>6, <2>7 DEF TicketStep
  <1> QED BY <1>1, <1>2, <1>4 DEF FactsOK

\* The key comes or goes, or the instance ends, under the connections.
LEMMA FactsChange ==
    ASSUME TicketInv, UNCHANGED <<now, ticket, dialled>>,
           \/ AddKey /\ UNCHANGED <<inst, instGone>>
           \/ DeleteKey /\ UNCHANGED <<inst, instGone>>
           \/ InstanceEnds
    PROVE  FactsOK' /\ \A c \in Conns : TicketOK(c)' /\ DialOK(c)'
  <1> USE UserAccessAssumption DEF TicketInv, TypeOK, Times, Never, DialLatency
  <1>1. FactsOK'
    BY DEF FactsOK, AddKey, DeleteKey, InstanceEnds
  <1>2. ASSUME NEW c \in Conns PROVE TicketOK(c)' /\ DialOK(c)'
    <2>1. /\ TicketOK(c) /\ DialOK(c) /\ now \in Int
          /\ ticket[c].began \in Int /\ ticket[c].expires \in Int
      BY DEF Ticket
    <2>2. /\ keyGone' \in {keyGone, now, Never} /\ instGone' \in {instGone, now}
      BY DEF AddKey, DeleteKey, InstanceEnds
    <2>3. TicketOK(c)'
      BY <2>1, <2>2 DEF TicketOK, Looked, Outlives
    <2>4. DialOK(c)'
      BY <2>1, <2>2 DEF DialOK
    <2> QED BY <2>3, <2>4
  <1> QED BY <1>1, <1>2

LEMMA TicketInvStep ==
    ASSUME TicketInv, [Next]_vars
    PROVE  TicketInv'
  <1>1. TypeOK'
    BY TypeStep DEF TicketInv
  <1>2. CASE \E c \in Conns : TicketStep(c)
    BY <1>1, <1>2, TicketOwn DEF TicketInv
  <1>3. CASE UNCHANGED <<now, factVars, sshVars>>
    BY <1>1, <1>3 DEF TicketInv, factVars, sshVars, FactsOK, TicketOK, DialOK, Looked, Outlives
  <1>4. CASE InstanceEnds
    BY <1>1, <1>4, FactsChange DEF TicketInv, InstanceEnds, sshVars
  <1>5. CASE \E c \in Clients : LoginStep(c)
    <2>1. CASE \E c \in Clients : HandleRequest(c)
      <3>1. UNCHANGED <<now, ticket, dialled, inst, instGone>>
        BY <2>1 DEF HandleRequest, sshVars
      <3>2. CASE AddKey \/ DeleteKey
        BY <1>1, <3>1, <3>2, FactsChange DEF TicketInv
      <3>3. CASE UNCHANGED <<key, keyGone>>
        BY <1>3, <3>1, <3>3 DEF factVars, sshVars
      <3> QED BY <2>1, <3>2, <3>3 DEF HandleRequest
    <2>2. CASE ~\E c \in Clients : HandleRequest(c)
      BY <1>3, <1>5, <2>2 DEF LoginStep, Register, Login, Authenticate, CreateSession,
         LoadSession, Logout
    <2> QED BY <2>1, <2>2
  <1>6. CASE Tick
    <2> USE UserAccessAssumption DEF TicketInv, TypeOK, Times, Never
    <2>1. now' = now + 1 /\ UNCHANGED <<key, keyGone, inst, instGone, ticket, dialled>>
      BY <1>6 DEF Tick, factVars, sshVars
    <2>2. ASSUME NEW c \in Conns PROVE TicketOK(c)' /\ DialOK(c)'
      <3>1. /\ TicketOK(c) /\ DialOK(c) /\ now \in Int /\ dialled[c] \in Int
            /\ ticket[c].began \in Int /\ ticket[c].expires \in Int
        BY DEF Ticket
      <3>2. ticket[c].at \in {"key", "inst", "issue"} => now < ticket[c].began + Patience
        BY <1>6 DEF Tick
      <3>3. TicketOK(c)'
        BY <2>1, <3>1, <3>2 DEF TicketOK, Looked, Outlives
      <3>4. DialOK(c)'
        BY <2>1, <3>1 DEF DialOK
      <3> QED BY <3>3, <3>4
    <2> QED BY <1>1, <2>1, <2>2 DEF FactsOK
  <1>7. CASE UNCHANGED vars
    BY <1>3, <1>7 DEF vars
  <1> QED BY <1>2, <1>4, <1>5, <1>6, <1>7, NextCases

\* The agent dials for no connection later than DialLatency after the key was
\* removed or the instance ended, for any timeouts, lifetimes and margins.
THEOREM DialsSound == Spec => []DialIsFresh
  <1>1. Init => TicketInv
    BY TypeInit DEF Init, TicketInv, FactsOK, TicketOK, DialOK, NoTicket
  <1>2. TicketInv => DialIsFresh
    BY DEF TicketInv, DialOK, DialIsFresh
  <1> QED BY <1>1, <1>2, TicketInvStep, PTL DEF Spec
=============================================================================
