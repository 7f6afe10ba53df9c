--------------------------- MODULE DataPlaneProofs ---------------------------
(* Proofs about the SSH data plane: MuxSessions, for any nodes and          *)
(* connections, and SSHRelay, for any clients and any cap.                  *)
EXTENDS MuxSessions, SSHRelay, FiniteSetTheorems, WellFoundedInduction, TLAPS

-----------------------------------------------------------------------------
(* Type correctness *)

\* Register c waits for the session it replaced.
Waiting(c) == handler[c] \in {"stopPrev", "waitPrev"}

\* The type invariant, and that only a Register with a predecessor waits.
TypeInv == TypeOK /\ \A c \in Conns : Waiting(c) => prev[c] \in Conns

\* The agents and the links keep the types.
LEMMA TypeOutside ==
    ASSUME TypeInv,
           \/ \E n \in Nodes : AgentStep(n) \/ ConnectFails(n) \/ AgentStops(n)
           \/ \E c \in Conns : LinkFails(c) \/ AgentNotices(c) \/ ProxyNotices(c)
    PROVE  TypeInv'
  <1> USE DEF TypeInv, TypeOK, Waiting, ConnOrNone, agentVars, registryVars, closeVars
  <1>1. ASSUME NEW n \in Nodes, NEW c \in Conns, Dial(n, c) PROVE TypeInv'
    BY <1>1 DEF Dial
  <1>2. ASSUME NEW n \in Nodes, Attach(n) \/ BackoffEnds(n) \/ SessionEnds(n)
        PROVE TypeInv'
    BY <1>2 DEF Attach, BackoffEnds, SessionEnds
  <1>3. ASSUME NEW n \in Nodes, ConnectFails(n) \/ AgentStops(n) PROVE TypeInv'
    BY <1>3 DEF ConnectFails, AgentStops
  <1>4. ASSUME NEW c \in Conns, LinkFails(c) \/ AgentNotices(c) \/ ProxyNotices(c)
        PROVE TypeInv'
    BY <1>4 DEF LinkFails, AgentNotices, ProxyNotices
  <1> QED BY <1>1, <1>2, <1>3, <1>4 DEF AgentStep

\* So do the connection handlers.
LEMMA TypeHandler ==
    ASSUME TypeInv, NEW c \in Conns, HandlerStep(c)
    PROVE  TypeInv'
  <1> USE MuxAssumption DEF TypeInv, TypeOK, Waiting, ConnOrNone, agentVars, registryVars, closeVars
  <1>1. CASE Verified(c) \/ HandshakeFails(c)
    BY <1>1, ZenonT(40) DEF Verified, HandshakeFails
  <1>2. CASE Register(c)
    <2> DEFINE old == sessions[NodeOf[c]]
    <2>1. NodeOf[c] \in Nodes /\ old \in ConnOrNone
      OBVIOUS
    <2>2. CASE closed
      BY <1>2, <2>2 DEF Register
    <2>3. CASE ~closed
      <3>1. /\ prev' \in [Conns -> ConnOrNone] /\ sessions' \in [Nodes -> ConnOrNone]
            /\ prev' = [prev EXCEPT ![c] = old]
            /\ handler' = [handler EXCEPT ![c] = IF old = NoConn THEN "start" ELSE "stopPrev"]
        BY <1>2, <2>1, <2>3 DEF Register
      <3>2. TypeOK'
        BY <1>2, <2>1, <2>3, <3>1 DEF Register
      <3>3. ASSUME NEW d \in Conns, Waiting(d)' PROVE prev'[d] \in Conns
        BY <2>1, <3>1, <3>3
      <3> QED BY <3>2, <3>3
    <2> QED BY <2>2, <2>3
  <1>3. CASE StopPrev(c)
    BY <1>3 DEF StopPrev
  <1>4. CASE PrevDone(c)
    BY <1>4 DEF PrevDone
  <1>5. CASE StartWatch(c)
    BY <1>5 DEF StartWatch
  <1> QED BY <1>1, <1>2, <1>3, <1>4, <1>5 DEF HandlerStep

\* So do the health checkers.
LEMMA TypeWatch ==
    ASSUME TypeInv, NEW c \in Conns, WatchStep(c)
    PROVE  TypeInv'
  <1> USE DEF TypeInv, TypeOK, Waiting, ConnOrNone, agentVars, registryVars, closeVars
  <1>1. CASE WatchCancelled(c) \/ Tick(c) \/ PingOk(c) \/ PingFails(c) \/ Reported(c)
    BY <1>1 DEF WatchCancelled, Tick, PingOk, PingFails, Reported, WatchMoves
  <1>2. CASE handleDeath(c)
    BY <1>2 DEF handleDeath
  <1>3. CASE CloseDead(c)
    BY <1>3 DEF CloseDead
  <1> QED BY <1>1, <1>2, <1>3 DEF WatchStep

\* So does Close.
LEMMA TypeClose ==
    ASSUME TypeInv, Close \/ CloseStep
    PROVE  TypeInv'
  <1> USE DEF TypeInv, TypeOK, Waiting, ConnOrNone, agentVars, registryVars, closeVars
  <1>1. CASE Close
    BY <1>1 DEF Close
  <1>2. ASSUME NEW c \in Conns, CloseStop(c) PROVE TypeInv'
    BY <1>2 DEF CloseStop
  <1>3. ASSUME NEW c \in Conns, CloseAwait(c) PROVE TypeInv'
    BY <1>3 DEF CloseAwait
  <1>4. CASE CloseReturns
    BY <1>4 DEF CloseReturns
  <1> QED BY <1>1, <1>2, <1>3, <1>4 DEF CloseStep

LEMMA TypeStep ==
    ASSUME TypeInv, [Next]_vars
    PROVE  TypeInv'
  <1>1. CASE UNCHANGED vars
    BY <1>1 DEF TypeInv, TypeOK, Waiting, vars, agentVars, registryVars, closeVars
  <1> QED BY <1>1, TypeOutside, TypeHandler, TypeWatch, TypeClose DEF Next

LEMMA TypeInit == Init => TypeInv
  BY ZenonT(40) DEF Init, TypeInv, TypeOK, Waiting, ConnOrNone

\* Agents, handlers, checkers and the registry keep their types, and a
\* Register that waits has somebody to wait for (muxregistry, Register).
THEOREM MuxTypeCorrect == Spec => []TypeOK
  <1>1. Init => TypeInv
    BY TypeInit
  <1>2. TypeInv /\ [Next]_vars => TypeInv'
    BY TypeStep
  <1>3. TypeInv => TypeOK
    BY DEF TypeInv
  <1> QED BY <1>1, <1>2, <1>3, PTL DEF Spec

-----------------------------------------------------------------------------
(* Ghost sessions *)

\* A checker runs only once its Register is through, and Close has entries to
\* stop only while it runs.
Coherent ==
    /\ \A c \in Conns : handler[c] # "done" => watch[c] = "off"
    /\ closer = "idle" => toAwait = {}

GhostInv == TypeInv /\ Coherent /\ NoGhostSession

\* Every step keeps checkers and handlers coherent.
LEMMA CoherentStep ==
    ASSUME TypeInv, Coherent, [Next]_vars
    PROVE  Coherent'
  <1> USE DEF TypeInv, TypeOK, Coherent, agentVars, registryVars, closeVars
  <1>1. ASSUME NEW n \in Nodes, NEW c \in Conns, Dial(n, c) PROVE Coherent'
    BY <1>1 DEF Dial, Unused
  <1>2. ASSUME NEW n \in Nodes, Attach(n) \/ BackoffEnds(n) \/ SessionEnds(n)
                                 \/ ConnectFails(n) \/ AgentStops(n)
        PROVE Coherent'
    BY <1>2 DEF Attach, BackoffEnds, SessionEnds, ConnectFails, AgentStops
  <1>3. ASSUME NEW c \in Conns, LinkFails(c) \/ AgentNotices(c) \/ ProxyNotices(c)
        PROVE Coherent'
    BY <1>3 DEF LinkFails, AgentNotices, ProxyNotices
  <1>4. ASSUME NEW c \in Conns, HandlerStep(c) PROVE Coherent'
    BY <1>4 DEF HandlerStep, Verified, HandshakeFails, Register, StopPrev, PrevDone, StartWatch
  <1>5. ASSUME NEW c \in Conns, WatchStep(c) PROVE Coherent'
    BY <1>5 DEF WatchStep, WatchCancelled, Tick, PingOk, PingFails, Reported, WatchMoves,
                handleDeath, CloseDead
  <1>6. CASE Close \/ CloseStep
    BY <1>6 DEF Close, CloseStep, CloseStop, CloseAwait, CloseReturns
  <1>7. CASE UNCHANGED vars
    BY <1>7 DEF vars
  <1> QED BY <1>1, <1>2, <1>3, <1>4, <1>5, <1>6, <1>7 DEF Next, AgentStep

\* Whatever replaces, removes or shuts down an entry sees to its session.
LEMMA GhostStep ==
    ASSUME GhostInv, [Next]_vars
    PROVE  NoGhostSession'
  <1> USE DEF GhostInv, TypeInv, TypeOK, Coherent, NoGhostSession, Registered, BeingClosed, Waiting,
              agentVars, registryVars, closeVars
  <1>1. ASSUME NEW n \in Nodes, NEW c \in Conns, Dial(n, c) PROVE NoGhostSession'
    BY <1>1 DEF Dial, Unused
  <1>2. ASSUME NEW n \in Nodes, Attach(n) \/ BackoffEnds(n) \/ SessionEnds(n)
                                 \/ ConnectFails(n) \/ AgentStops(n)
        PROVE NoGhostSession'
    BY <1>2 DEF Attach, BackoffEnds, SessionEnds, ConnectFails, AgentStops
  <1>3. ASSUME NEW c \in Conns, LinkFails(c) \/ AgentNotices(c) \/ ProxyNotices(c)
        PROVE NoGhostSession'
    BY <1>3 DEF LinkFails, AgentNotices, ProxyNotices
  <1>4. ASSUME NEW c \in Conns, Verified(c) \/ HandshakeFails(c) PROVE NoGhostSession'
    BY <1>4 DEF Verified, HandshakeFails
  <1>5. ASSUME NEW c \in Conns, Register(c) PROVE NoGhostSession'
    <2> SUFFICES ASSUME NEW d \in Conns, Registered(d)', d \in proxyOpen'
                 PROVE  sessions'[NodeOf[d]] = d \/ BeingClosed(d)'
      OBVIOUS
    <2>1. CASE closed
      BY <1>5, <2>1 DEF Register
    <2>2. CASE ~closed /\ d = c
      BY <1>5, <2>2, MuxAssumption DEF Register
    <2>3. CASE ~closed /\ d # c /\ sessions[NodeOf[c]] = d
      <3>1. handler' = [handler EXCEPT ![c] = "stopPrev"] /\ prev' = [prev EXCEPT ![c] = d]
        BY <1>5, <2>3, MuxAssumption DEF Register
      <3> QED BY <3>1
    <2>4. CASE ~closed /\ d # c /\ sessions[NodeOf[c]] # d
      <3>1. /\ handler[c] = "verified"
            /\ \A e \in Conns \ {c} : handler'[e] = handler[e] /\ prev'[e] = prev[e]
            /\ \A n \in Nodes \ {NodeOf[c]} : sessions'[n] = sessions[n]
            /\ UNCHANGED <<proxyOpen, watch, toStop>>
        BY <1>5, <2>4 DEF Register
      <3>2. sessions[NodeOf[d]] = d \/ BeingClosed(d)
        BY <2>4, <3>1
      <3> QED BY <2>4, <3>1, <3>2, MuxAssumption
    <2> QED BY <2>1, <2>2, <2>3, <2>4
  <1>6. ASSUME NEW c \in Conns, StopPrev(c) PROVE NoGhostSession'
    BY <1>6 DEF StopPrev
  <1>7. ASSUME NEW c \in Conns, PrevDone(c) PROVE NoGhostSession'
    BY <1>7 DEF PrevDone
  <1>8. ASSUME NEW c \in Conns, StartWatch(c) PROVE NoGhostSession'
    BY <1>8 DEF StartWatch
  <1>9. ASSUME NEW c \in Conns,
               WatchCancelled(c) \/ Tick(c) \/ PingOk(c) \/ PingFails(c) \/ Reported(c)
        PROVE NoGhostSession'
    BY <1>9 DEF WatchCancelled, Tick, PingOk, PingFails, Reported, WatchMoves
  <1>10. ASSUME NEW c \in Conns, handleDeath(c) PROVE NoGhostSession'
    <2>1. /\ watch' = [watch EXCEPT ![c] = "removed"] /\ watch[c] = "dead"
          /\ \A n \in Nodes : sessions[n] # c => sessions'[n] = sessions[n]
          /\ UNCHANGED <<handler, prev, proxyOpen, toStop>>
      BY <1>10 DEF handleDeath
    <2> SUFFICES ASSUME NEW d \in Conns, Registered(d)', d \in proxyOpen', d # c
                 PROVE  sessions'[NodeOf[d]] = d \/ BeingClosed(d)'
      BY <2>1
    <2>2. sessions[NodeOf[d]] = d \/ BeingClosed(d)
      BY <2>1
    <2>3. CASE sessions[NodeOf[d]] = d
      <3>1. NodeOf[d] \in Nodes
        BY MuxAssumption
      <3>2. sessions[NodeOf[d]] # c
        BY <2>3
      <3> QED BY <2>1, <2>3, <3>1, <3>2
    <2>4. CASE BeingClosed(d)
      BY <2>1, <2>4
    <2> QED BY <2>2, <2>3, <2>4
  <1>11. ASSUME NEW c \in Conns, CloseDead(c) PROVE NoGhostSession'
    BY <1>11 DEF CloseDead
  <1>12. CASE Close
    <2> SUFFICES ASSUME NEW d \in Conns, Registered(d)', d \in proxyOpen' PROVE BeingClosed(d)'
      OBVIOUS
    <2>1. toStop = {} /\ Registered(d) /\ d \in proxyOpen
      BY <1>12 DEF Close
    <2>2. CASE sessions[NodeOf[d]] = d
      BY <1>12, <2>2, MuxAssumption DEF Close
    <2>3. CASE BeingClosed(d)
      BY <1>12, <2>1, <2>3 DEF Close
    <2> QED BY <2>1, <2>2, <2>3
  <1>13. CASE CloseStep
    BY <1>13 DEF CloseStep, CloseStop, CloseAwait, CloseReturns
  <1>14. CASE UNCHANGED vars
    BY <1>14 DEF vars
  <1> QED BY <1>1, <1>2, <1>3, <1>4, <1>5, <1>6, <1>7, <1>8, <1>9, <1>10, <1>11, <1>12, <1>13,
             <1>14 DEF Next, AgentStep, HandlerStep, WatchStep

\* Ghost session prevention (muxregistry, Register): however registrations,
\* deaths and the shutdown interleave, a registered session that is open is
\* the one its node is reached by, or somebody is about to close it.
THEOREM GhostsPrevented == Spec => []NoGhostSession
  <1>1. Init => GhostInv
    BY TypeInit DEF Init, GhostInv, Coherent, NoGhostSession, Registered
  <1>2. GhostInv /\ [Next]_vars => GhostInv'
    BY TypeStep, CoherentStep, GhostStep DEF GhostInv
  <1>3. GhostInv => NoGhostSession
    BY DEF GhostInv
  <1> QED BY <1>1, <1>2, <1>3, PTL DEF Spec

\* The late death of a superseded session does no harm (handleDeath): an entry
\* goes only with the death of its own session, or in Close.
THEOREM DeathIsLocal == Spec => OnlyOwnDeathForgets
  <1>1. TypeInv /\ [Next]_vars =>
          [\A n \in Nodes : sessions[n] # NoConn /\ sessions'[n] = NoConn =>
                watch[sessions[n]] = "dead" \/ closed']_vars
    <2> SUFFICES ASSUME TypeInv, Next, NEW n \in Nodes, sessions[n] # NoConn, sessions'[n] = NoConn
                 PROVE  watch[sessions[n]] = "dead" \/ closed'
      OBVIOUS
    <2> USE DEF TypeInv, TypeOK, agentVars, registryVars, closeVars
    <2>1. ASSUME NEW c \in Conns, Register(c) PROVE FALSE
      BY <2>1, MuxAssumption DEF Register
    <2>2. ASSUME NEW c \in Conns, handleDeath(c) PROVE watch[sessions[n]] = "dead"
      BY <2>2 DEF handleDeath
    <2>3. CASE Close
      BY <2>3 DEF Close
    <2>4. ASSUME UNCHANGED sessions PROVE FALSE
      BY <2>4
    <2> QED
      BY <2>1, <2>2, <2>3, <2>4
      DEF Next, AgentStep, Dial, Attach, BackoffEnds, SessionEnds, ConnectFails, AgentStops,
          LinkFails, AgentNotices, ProxyNotices, HandlerStep, Verified, HandshakeFails, StopPrev,
          PrevDone, StartWatch, WatchStep, WatchCancelled, Tick, PingOk, PingFails, Reported,
          WatchMoves, CloseDead, CloseStep, CloseStop, CloseAwait, CloseReturns, vars
  <1> QED BY <1>1, TypeInit, TypeStep, PTL DEF Spec, OnlyOwnDeathForgets

-----------------------------------------------------------------------------
(* Health checkers *)

\* The checker of c pings no more and has given the entry up.
Settled(c) == watch[c] \in {"removed", "report", "exited"}

SameNode(c, d) == NodeOf[c] = NodeOf[d]

\* The registered sessions of a node in the order rank of their registration
\* (top bounds the ranks in use): whoever is past its wait has only settled
\* predecessors, and whoever waits, waits for its direct predecessor.
InOrder(rank, top) ==
    /\ \A c \in Conns : Registered(c) => rank[c] < top
    /\ \A c, d \in Conns : Registered(c) /\ Registered(d) /\ SameNode(c, d) /\ c # d
                            => rank[c] # rank[d]
    /\ \A c, d \in Conns : Registered(c) /\ Registered(d) /\ SameNode(c, d)
                            /\ rank[d] < rank[c] /\ ~Waiting(c) => Settled(d)
    /\ \A c, p \in Conns : Waiting(c) /\ prev[c] = p =>
            Registered(p) /\ SameNode(c, p) /\ rank[p] < rank[c]
    /\ \A c, p, d \in Conns : Waiting(c) /\ prev[c] = p /\ Registered(d) /\ SameNode(c, d)
                               /\ rank[d] < rank[c] => d = p \/ rank[d] < rank[p]

\* The entry of a node is its newest session; without one, all have settled.
HeadIsNewest(rank) ==
    /\ \A c \in Conns, n \in Nodes : sessions[n] = c => Registered(c) /\ NodeOf[c] = n
    /\ \A c, d \in Conns : Registered(d) /\ SameNode(c, d) /\ sessions[NodeOf[c]] = c
                            => rank[d] <= rank[c]
    /\ ~closed => \A d \in Conns : Registered(d) /\ sessions[NodeOf[d]] = NoConn => Settled(d)

\* Close waits for a session at least as new as any that has not settled.
CloseCovers(rank) ==
    /\ closed <=> closer # "idle"
    /\ closer # "idle" => \A n \in Nodes : sessions[n] = NoConn
    /\ closer # "idle" => \A d \in Conns : Registered(d) /\ ~Settled(d) =>
            \E c \in toAwait : Registered(c) /\ SameNode(c, d) /\ rank[d] <= rank[c]
    /\ closer = "returned" => toAwait = {}

Ordered(rank, top) == InOrder(rank, top) /\ HeadIsNewest(rank) /\ CloseCovers(rank)

OrderInv ==
    /\ TypeInv /\ Coherent
    /\ \E rank \in [Conns -> Nat], top \in Nat : Ordered(rank, top)

\* Steps that register nobody, end no wait and touch no entry keep the order.
LEMMA OrderKept ==
    ASSUME NEW rank \in [Conns -> Nat], NEW top \in Nat, TypeInv, Ordered(rank, top),
           \A c \in Conns : Registered(c)' <=> Registered(c),
           \A c \in Conns : Waiting(c)' <=> Waiting(c),
           \A c \in Conns : Settled(c) => Settled(c)',
           UNCHANGED <<prev, sessions, closed, closer, toAwait>>
    PROVE  Ordered(rank, top)'
  <1>1. InOrder(rank, top)'
    BY DEF TypeInv, Ordered, InOrder, SameNode
  <1>2. HeadIsNewest(rank)'
    BY DEF Ordered, HeadIsNewest, SameNode
  <1>3. CloseCovers(rank)'
    BY DEF TypeInv, TypeOK, Ordered, CloseCovers, SameNode
  <1> QED BY <1>1, <1>2, <1>3 DEF Ordered

\* The agents, the links and the handshakes do.
LEMMA OrderOutside ==
    ASSUME NEW rank \in [Conns -> Nat], NEW top \in Nat, TypeInv, Coherent, Ordered(rank, top),
           \/ \E n \in Nodes : AgentStep(n) \/ ConnectFails(n) \/ AgentStops(n)
           \/ \E c \in Conns : LinkFails(c) \/ AgentNotices(c) \/ ProxyNotices(c)
           \/ \E c \in Conns : Verified(c) \/ HandshakeFails(c) \/ StopPrev(c) \/ StartWatch(c)
           \/ UNCHANGED vars
    PROVE  Ordered(rank, top)'
  <1>1. UNCHANGED <<prev, sessions, closed, closer, toAwait>>
    BY DEF AgentStep, Dial, Attach, BackoffEnds, SessionEnds, ConnectFails, AgentStops, LinkFails,
           AgentNotices, ProxyNotices, Verified, HandshakeFails, StopPrev, StartWatch,
           vars, agentVars, registryVars, closeVars
  <1>2. \/ handler' = handler /\ watch' = watch
        \/ \E c \in Conns : /\ watch' = watch
                             /\ \/ /\ handler[c] \in {"idle", "handshake"}
                                   /\ handler' \in {[handler EXCEPT ![c] = h] :
                                                     h \in {"handshake", "verified", "done"}}
                                \/ /\ handler[c] = "stopPrev"
                                   /\ handler' = [handler EXCEPT ![c] = "waitPrev"]
        \/ \E c \in Conns : /\ handler[c] = "start" /\ handler' = [handler EXCEPT ![c] = "done"]
                             /\ watch' = [watch EXCEPT ![c] = "tick"]
    BY DEF AgentStep, Dial, Unused, Attach, BackoffEnds, SessionEnds, ConnectFails, AgentStops,
           LinkFails, AgentNotices, ProxyNotices, Verified, HandshakeFails, StopPrev, StartWatch,
           vars, agentVars, registryVars, closeVars
  <1>3. \A c \in Conns : /\ Registered(c)' <=> Registered(c)
                         /\ Waiting(c)' <=> Waiting(c)
                         /\ Settled(c) => Settled(c)'
    BY <1>2 DEF TypeInv, TypeOK, Coherent, Registered, Waiting, Settled
  <1> QED BY <1>1, <1>3, OrderKept

\* So does a checker that does not touch the map.
LEMMA OrderWatch ==
    ASSUME NEW rank \in [Conns -> Nat], NEW top \in Nat, TypeInv, Coherent, Ordered(rank, top),
           NEW c \in Conns,
           WatchCancelled(c) \/ Tick(c) \/ PingOk(c) \/ PingFails(c) \/ CloseDead(c) \/ Reported(c)
    PROVE  Ordered(rank, top)'
  <1>1. /\ UNCHANGED <<handler, prev, sessions, closed, closer, toAwait>>
        /\ \E to \in {"tick", "ping", "dead", "report", "exited"} :
              /\ watch' = [watch EXCEPT ![c] = to]
              /\ watch[c] # "off"
              /\ Settled(c) => to \in {"report", "exited"}
    BY DEF WatchCancelled, Tick, PingOk, PingFails, CloseDead, Reported, WatchMoves, Settled,
           agentVars, registryVars, closeVars
  <1>2. \A d \in Conns : /\ Registered(d)' <=> Registered(d)
                         /\ Waiting(d)' <=> Waiting(d)
                         /\ Settled(d) => Settled(d)'
    BY <1>1 DEF TypeInv, TypeOK, Registered, Waiting, Settled
  <1> QED BY <1>1, <1>2, OrderKept

\* Register puts the newcomer at the top of the order.
LEMMA OrderRegister ==
    ASSUME NEW rank \in [Conns -> Nat], NEW top \in Nat, TypeInv, Coherent, Ordered(rank, top),
           NEW c \in Conns, Register(c)
    PROVE  \E r \in [Conns -> Nat], t \in Nat : Ordered(r, t)'
  <1> DEFINE old == sessions[NodeOf[c]]
  <1>1. CASE closed
    <2>1. /\ UNCHANGED <<prev, sessions, closed, closer, toAwait, watch>>
          /\ handler[c] = "verified" /\ handler' = [handler EXCEPT ![c] = "done"]
      BY <1>1 DEF Register, closeVars
    <2>2. \A d \in Conns : /\ Registered(d)' <=> Registered(d)
                           /\ Waiting(d)' <=> Waiting(d)
                           /\ Settled(d) => Settled(d)'
      BY <2>1 DEF TypeInv, TypeOK, Registered, Waiting, Settled
    <2>3. Ordered(rank, top)'
      BY <2>1, <2>2, OrderKept
    <2> QED BY <2>3
  <1>2. CASE ~closed
    <2> DEFINE r == [rank EXCEPT ![c] = top]
    <2>1. /\ r \in [Conns -> Nat] /\ top + 1 \in Nat /\ r[c] = top
          /\ \A d \in Conns : d # c => r[d] = rank[d]
      OBVIOUS
    <2>2. /\ handler[c] = "verified" /\ watch[c] = "off"
          /\ handler' = [handler EXCEPT ![c] = IF old = NoConn THEN "start" ELSE "stopPrev"]
          /\ prev' = [prev EXCEPT ![c] = old]
          /\ sessions' = [sessions EXCEPT ![NodeOf[c]] = c]
          /\ UNCHANGED <<watch, closed, closer, toAwait>>
      BY <1>2 DEF Register, Coherent, closeVars
    <2>3. /\ ~Registered(c) /\ Registered(c)' /\ ~Waiting(c) /\ ~Settled(c)
          /\ Waiting(c)' <=> old # NoConn
          /\ \A d \in Conns : d # c => /\ Registered(d)' <=> Registered(d)
                                       /\ Waiting(d)' <=> Waiting(d)
          /\ \A d \in Conns : Settled(d)' <=> Settled(d)
      BY <2>2 DEF TypeInv, TypeOK, Registered, Waiting, Settled
    <2>4. /\ NodeOf[c] \in Nodes /\ old \in Conns \cup {NoConn}
          /\ prev'[c] = old /\ \A d \in Conns : d # c => prev'[d] = prev[d]
          /\ sessions'[NodeOf[c]] = c /\ \A n \in Nodes : n # NodeOf[c] => sessions'[n] = sessions[n]
      BY <2>2, MuxAssumption DEF TypeInv, TypeOK, ConnOrNone
    <2>5. old # NoConn => /\ old \in Conns /\ Registered(old) /\ SameNode(c, old)
                          /\ \A d \in Conns : Registered(d) /\ SameNode(c, d) => rank[d] <= rank[old]
      BY <2>4 DEF Ordered, HeadIsNewest, SameNode
    <2>6. old = NoConn => \A d \in Conns : Registered(d) /\ SameNode(c, d) => Settled(d)
      BY <1>2 DEF Ordered, HeadIsNewest, SameNode
    <2>7. InOrder(r, top + 1)'
      <3> USE <2>1, <2>3, <2>4, <2>5, <2>6
      <3>1. \A d \in Conns : Registered(d) => rank[d] < top /\ d # c
        BY DEF Ordered, InOrder
      <3>2. \A d \in Conns : Registered(d)' => r[d] < top + 1
        BY <3>1
      <3>3. \A d, e \in Conns : Registered(d)' /\ Registered(e)' /\ SameNode(d, e) /\ d # e
                                => r[d] # r[e]
        BY <3>1 DEF Ordered, InOrder
      <3>4. \A d, e \in Conns : Registered(d)' /\ Registered(e)' /\ SameNode(d, e)
                                /\ r[e] < r[d] /\ ~Waiting(d)' => Settled(e)'
        BY <3>1 DEF Ordered, InOrder
      <3>5. \A d, p \in Conns : Waiting(d)' /\ prev'[d] = p =>
                Registered(p)' /\ SameNode(d, p) /\ r[p] < r[d]
        <4> SUFFICES ASSUME NEW d \in Conns, NEW p \in Conns, Waiting(d)', prev'[d] = p
                     PROVE  Registered(p)' /\ SameNode(d, p) /\ r[p] < r[d]
          OBVIOUS
        <4>1. CASE d = c
          <5>1. p = old /\ old # NoConn
            BY <4>1
          <5> QED BY <3>1, <4>1, <5>1
        <4>2. CASE d # c
          <5>1. Waiting(d) /\ prev[d] = p
            BY <4>2
          <5>2. Registered(p) /\ SameNode(d, p) /\ rank[p] < rank[d]
            BY <5>1 DEF Ordered, InOrder
          <5> QED BY <3>1, <4>2, <5>2
        <4> QED BY <4>1, <4>2
      <3>6. \A d, p, e \in Conns : Waiting(d)' /\ prev'[d] = p /\ Registered(e)' /\ SameNode(d, e)
                                   /\ r[e] < r[d] => e = p \/ r[e] < r[p]
        <4> SUFFICES ASSUME NEW d \in Conns, NEW p \in Conns, NEW e \in Conns, Waiting(d)',
                            prev'[d] = p, Registered(e)', SameNode(d, e), r[e] < r[d], e # p
                     PROVE  r[e] < r[p]
          OBVIOUS
        <4>1. CASE d = c
          <5>1. p = old /\ old # NoConn /\ e # c /\ Registered(e) /\ p # c /\ Registered(p)
            BY <3>1, <4>1
          <5>2. SameNode(e, p) /\ rank[e] <= rank[p]
            BY <4>1, <5>1 DEF SameNode
          <5>3. rank[e] # rank[p]
            BY <5>1, <5>2 DEF Ordered, InOrder
          <5> QED BY <5>1, <5>2, <5>3
        <4>2. CASE d # c
          <5>1. Waiting(d) /\ prev[d] = p /\ Registered(d)
            BY <4>2 DEF Waiting, Registered
          <5>2. e # c /\ Registered(e) /\ rank[e] < rank[d] /\ p # c
            BY <3>1, <4>2, <5>1 DEF Ordered, InOrder
          <5> QED BY <5>1, <5>2 DEF Ordered, InOrder
        <4> QED BY <4>1, <4>2
      <3> QED BY <3>2, <3>3, <3>4, <3>5, <3>6 DEF InOrder, SameNode
    <2>8. HeadIsNewest(r)'
      <3>1. \A d \in Conns : Registered(d) => rank[d] < top /\ d # c
        BY <2>3 DEF Ordered, InOrder
      <3>2. \A d \in Conns, n \in Nodes : sessions'[n] = d => Registered(d)' /\ NodeOf[d] = n
        BY <2>3, <2>4 DEF Ordered, HeadIsNewest
      <3>3. \A e, d \in Conns : Registered(d)' /\ SameNode(e, d) /\ sessions'[NodeOf[e]] = e
                                => r[d] <= r[e]
        <4> SUFFICES ASSUME NEW e \in Conns, NEW d \in Conns, Registered(d)', SameNode(e, d),
                            sessions'[NodeOf[e]] = e
                     PROVE  r[d] <= r[e]
          OBVIOUS
        <4>0. NodeOf[e] \in Nodes /\ NodeOf[d] \in Nodes
          BY MuxAssumption
        <4>1. CASE SameNode(e, c)
          BY <2>1, <2>3, <2>4, <3>1, <4>0, <4>1 DEF SameNode
        <4>2. CASE ~SameNode(e, c)
          BY <2>1, <2>3, <2>4, <4>0, <4>2 DEF SameNode, Ordered, HeadIsNewest
        <4> QED BY <4>1, <4>2
      <3>4. \A d \in Conns : Registered(d)' /\ sessions'[NodeOf[d]] = NoConn => Settled(d)'
        BY <1>2, <2>3, <2>4, MuxAssumption DEF Ordered, HeadIsNewest
      <3> QED BY <3>2, <3>3, <3>4 DEF HeadIsNewest, SameNode
    <2>9. CloseCovers(r)'
      BY <1>2, <2>2 DEF Ordered, CloseCovers
    <2>10. Ordered(r, top + 1)'
      BY <2>7, <2>8, <2>9 DEF Ordered
    <2> QED BY <2>1, <2>10
  <1> QED BY <1>1, <1>2 DEF TypeInv, TypeOK

\* A wait ends when the predecessor has settled, and then so have all before it.
LEMMA OrderPrevDone ==
    ASSUME NEW rank \in [Conns -> Nat], NEW top \in Nat, TypeInv, Coherent, Ordered(rank, top),
           NEW c \in Conns, PrevDone(c)
    PROVE  Ordered(rank, top)'
  <1>1. /\ handler[c] = "waitPrev" /\ watch[prev[c]] = "exited" /\ prev[c] \in Conns
        /\ handler' = [handler EXCEPT ![c] = "start"]
        /\ UNCHANGED <<watch, prev, sessions, closed, closer, toAwait>>
    BY DEF PrevDone, TypeInv, Waiting, registryVars, closeVars
  <1>2. /\ Waiting(c) /\ ~Waiting(c)'
        /\ \A d \in Conns : Waiting(d)' => Waiting(d)
        /\ \A d \in Conns : d # c => (Waiting(d)' <=> Waiting(d))
        /\ \A d \in Conns : (Registered(d)' <=> Registered(d)) /\ (Settled(d)' <=> Settled(d))
    BY <1>1 DEF TypeInv, TypeOK, Waiting, Registered, Settled
  <1>3. Settled(prev[c]) /\ ~Waiting(prev[c])
    BY <1>1 DEF Coherent, Settled, Waiting
  <1>4. \A d \in Conns : Registered(d) /\ SameNode(c, d) /\ rank[d] < rank[c] => Settled(d)
    <2>1. PICK p \in Conns : p = prev[c]
      BY <1>1
    <2>2. Registered(p) /\ SameNode(c, p) /\ Settled(p) /\ ~Waiting(p)
      BY <1>2, <1>3, <2>1 DEF Ordered, InOrder
    <2>3. ASSUME NEW d \in Conns, Registered(d), SameNode(c, d), rank[d] < rank[c], d # p
          PROVE  Settled(d)
      <3>1. rank[d] < rank[p] /\ SameNode(p, d)
        BY <1>2, <2>1, <2>2, <2>3 DEF Ordered, InOrder, SameNode
      <3> QED BY <2>2, <2>3, <3>1 DEF Ordered, InOrder
    <2> QED BY <2>2, <2>3
  <1>5. InOrder(rank, top)'
    BY <1>1, <1>2, <1>4 DEF Ordered, InOrder, SameNode
  <1>6. HeadIsNewest(rank)'
    BY <1>1, <1>2 DEF Ordered, HeadIsNewest, SameNode
  <1>7. CloseCovers(rank)'
    BY <1>1, <1>2 DEF TypeInv, TypeOK, Ordered, CloseCovers, SameNode
  <1> QED BY <1>5, <1>6, <1>7 DEF Ordered

\* A death that removes the entry of its node leaves only settled sessions.
LEMMA OrderDeath ==
    ASSUME NEW rank \in [Conns -> Nat], NEW top \in Nat, TypeInv, Coherent, Ordered(rank, top),
           NEW c \in Conns, handleDeath(c)
    PROVE  Ordered(rank, top)'
  <1>1. /\ watch[c] = "dead" /\ handler[c] = "done"
        /\ watch' = [watch EXCEPT ![c] = "removed"]
        /\ \A n \in Nodes : sessions'[n] = IF sessions[n] = c THEN NoConn ELSE sessions[n]
        /\ UNCHANGED <<handler, prev, closed, closer, toAwait>>
    BY DEF handleDeath, Coherent, TypeInv, TypeOK, closeVars
  <1>2. /\ Registered(c) /\ ~Waiting(c) /\ Settled(c)'
        /\ \A d \in Conns : (Registered(d)' <=> Registered(d)) /\ (Waiting(d)' <=> Waiting(d))
        /\ \A d \in Conns : Settled(d) => Settled(d)'
    BY <1>1 DEF TypeInv, TypeOK, Waiting, Registered, Settled
  <1>3. InOrder(rank, top)'
    BY <1>1, <1>2 DEF Ordered, InOrder, SameNode
  <1>4. HeadIsNewest(rank)'
    <2>1. \A d \in Conns, n \in Nodes : sessions'[n] = d => sessions[n] = d
      BY <1>1, MuxAssumption
    <2>2. \A d \in Conns : NodeOf[d] \in Nodes
      BY MuxAssumption
    <2>3. ASSUME NEW d \in Conns, ~closed, Registered(d), sessions'[NodeOf[d]] = NoConn
          PROVE  Settled(d)'
      <3>1. CASE sessions[NodeOf[d]] = NoConn
        BY <1>2, <2>3, <3>1 DEF Ordered, HeadIsNewest
      <3>2. CASE sessions[NodeOf[d]] = c /\ d # c
        <4>1. SameNode(c, d) /\ rank[d] <= rank[c]
          BY <2>2, <2>3, <3>2 DEF Ordered, HeadIsNewest, SameNode
        <4>2. rank[d] < rank[c]
          BY <1>2, <2>3, <3>2, <4>1 DEF Ordered, InOrder, SameNode
        <4> QED BY <1>2, <2>3, <4>1, <4>2 DEF Ordered, InOrder
      <3> QED BY <1>1, <1>2, <2>2, <2>3, <3>1, <3>2
    <2>4. \A d, e \in Conns : Registered(d)' /\ SameNode(e, d) /\ sessions'[NodeOf[e]] = e
                              => rank[d] <= rank[e]
      BY <1>2, <2>1, <2>2 DEF Ordered, HeadIsNewest
    <2>5. \A d \in Conns, n \in Nodes : sessions'[n] = d => Registered(d)' /\ NodeOf[d] = n
      BY <1>2, <2>1 DEF Ordered, HeadIsNewest
    <2> QED BY <1>1, <1>2, <2>3, <2>4, <2>5 DEF HeadIsNewest, SameNode
  <1>5. CloseCovers(rank)'
    BY <1>1, <1>2 DEF TypeInv, TypeOK, Ordered, CloseCovers, SameNode
  <1> QED BY <1>3, <1>4, <1>5 DEF Ordered

\* Close takes the newest session of every node to wait for; when one of them
\* has exited, all older ones have settled.
LEMMA OrderClose ==
    ASSUME NEW rank \in [Conns -> Nat], NEW top \in Nat, TypeInv, Coherent, Ordered(rank, top),
           Close \/ CloseStep
    PROVE  Ordered(rank, top)'
  <1>1. /\ UNCHANGED <<handler, prev, watch>>
        /\ \A d \in Conns : Registered(d)' <=> Registered(d)
        /\ \A d \in Conns : Waiting(d)' <=> Waiting(d)
        /\ \A d \in Conns : Settled(d)' <=> Settled(d)
    <2>1. UNCHANGED <<handler, prev, watch>>
      BY DEF Close, CloseStep, CloseStop, CloseAwait, CloseReturns, registryVars
    <2> QED BY <2>1 DEF Registered, Waiting, Settled
  <1>2. InOrder(rank, top)'
    BY <1>1 DEF Ordered, InOrder, SameNode
  <1>3. CASE Close
    <2>1. /\ closed' = TRUE /\ closer' = "closing" /\ ~closed
          /\ toAwait' = {sessions[n] : n \in Nodes} \ {NoConn}
          /\ \A n \in Nodes : sessions'[n] = NoConn
      BY <1>3 DEF Close, Ordered, CloseCovers
    <2>2. HeadIsNewest(rank)'
      BY <1>1, <2>1, MuxAssumption DEF HeadIsNewest
    <2>3. ASSUME NEW d \in Conns, Registered(d), ~Settled(d)
          PROVE  \E c \in toAwait' : Registered(c)' /\ SameNode(c, d) /\ rank[d] <= rank[c]
      <3>0. NodeOf[d] \in Nodes
        BY MuxAssumption
      <3>1. PICK c \in Conns : c = sessions[NodeOf[d]]
        BY <2>1, <2>3, <3>0 DEF Ordered, HeadIsNewest, TypeInv, TypeOK, ConnOrNone
      <3>2. c \in toAwait'
        BY <2>1, <3>0, <3>1, MuxAssumption
      <3>3. Registered(c) /\ NodeOf[c] = NodeOf[d] /\ rank[d] <= rank[c]
        BY <2>3, <3>0, <3>1 DEF Ordered, HeadIsNewest, SameNode
      <3> QED BY <1>1, <3>2, <3>3 DEF SameNode
    <2>4. CloseCovers(rank)'
      BY <1>1, <2>1, <2>3 DEF CloseCovers, SameNode
    <2> QED BY <1>2, <2>2, <2>4 DEF Ordered
  <1>4. ASSUME UNCHANGED <<sessions, closed>> PROVE HeadIsNewest(rank)'
    BY <1>1, <1>4 DEF Ordered, HeadIsNewest, SameNode
  <1>5. ASSUME NEW c \in Conns, CloseStop(c) PROVE Ordered(rank, top)'
    <2>1. UNCHANGED <<sessions, closed, closer, toAwait>>
      BY <1>5 DEF CloseStop
    <2>2. CloseCovers(rank)'
      BY <1>1, <2>1 DEF TypeInv, TypeOK, Ordered, CloseCovers, SameNode
    <2> QED BY <1>2, <1>4, <2>1, <2>2 DEF Ordered
  <1>6. ASSUME NEW c \in Conns, CloseAwait(c) PROVE Ordered(rank, top)'
    <2>1. /\ UNCHANGED <<sessions, closed, closer>> /\ toAwait' = toAwait \ {c}
          /\ watch[c] = "exited" /\ toAwait \subseteq Conns
      BY <1>6 DEF CloseAwait, TypeInv, TypeOK, registryVars
    <2>2. Registered(c) /\ ~Waiting(c) /\ Settled(c)
      BY <2>1 DEF Coherent, Registered, Waiting, Settled
    <2>3. ASSUME NEW d \in Conns, Registered(d), ~Settled(d), SameNode(c, d) PROVE ~(rank[d] <= rank[c])
      <3>1. d # c
        BY <2>2, <2>3
      <3>2. rank[d] # rank[c] /\ ~(rank[d] < rank[c])
        BY <2>2, <2>3, <3>1 DEF Ordered, InOrder, SameNode
      <3> QED BY <3>2
    <2>4. CloseCovers(rank)'
      BY <1>1, <2>1, <2>3 DEF TypeInv, TypeOK, Ordered, CloseCovers, SameNode
    <2> QED BY <1>2, <1>4, <2>1, <2>4 DEF Ordered
  <1>7. CASE CloseReturns
    <2>1. /\ UNCHANGED <<sessions, closed, toAwait>>
          /\ closer = "closing" /\ closer' = "returned" /\ toAwait = {}
      BY <1>7 DEF CloseReturns, registryVars
    <2>2. CloseCovers(rank)'
      BY <1>1, <2>1 DEF TypeInv, TypeOK, Ordered, CloseCovers, SameNode
    <2> QED BY <1>2, <1>4, <2>1, <2>2 DEF Ordered
  <1> QED BY <1>3, <1>5, <1>6, <1>7 DEF CloseStep

\* Every step keeps the registrations of each node in order.
LEMMA OrderStep ==
    ASSUME OrderInv, [Next]_vars
    PROVE  OrderInv'
  <1>1. TypeInv' /\ Coherent'
    BY TypeStep, CoherentStep DEF OrderInv
  <1>2. PICK rank \in [Conns -> Nat], top \in Nat : Ordered(rank, top)
    BY DEF OrderInv
  <1>3. TypeInv /\ Coherent
    BY DEF OrderInv
  <1>4. \/ Ordered(rank, top)'
        \/ \E r \in [Conns -> Nat], t \in Nat : Ordered(r, t)'
    BY <1>2, <1>3, OrderOutside, OrderWatch, OrderRegister, OrderPrevDone, OrderDeath, OrderClose
    DEF Next, HandlerStep, WatchStep
  <1> QED BY <1>1, <1>2, <1>4 DEF OrderInv

LEMMA OrderInit == Init => OrderInv
  <1> SUFFICES ASSUME Init PROVE OrderInv
    OBVIOUS
  <1>1. \A c \in Conns : ~Registered(c) /\ ~Waiting(c)
    BY DEF Init, Registered, Waiting
  <1> DEFINE r == [c \in Conns |-> 0]
  <1>2. Ordered(r, 0)
    BY <1>1, MuxAssumption DEF Init, Ordered, InOrder, HeadIsNewest, CloseCovers
  <1>3. r \in [Conns -> Nat] /\ 0 \in Nat
    OBVIOUS
  <1> QED BY <1>2, <1>3, TypeInit DEF OrderInv, Coherent, Init

\* The sessions of a node are never pinged by two checkers at a time, for
\* Register waits for the old one before it starts its own (muxregistry).
THEOREM CheckersExclusive == Spec => []OneHealthChecker
  <1>1. OrderInv => OneHealthChecker
    <2> SUFFICES ASSUME OrderInv, NEW c \in Conns, NEW d \in Conns, NodeOf[c] = NodeOf[d],
                        watch[c] \in {"tick", "ping"}, watch[d] \in {"tick", "ping"}, c # d
                 PROVE  FALSE
      BY DEF OneHealthChecker
    <2>1. PICK rank \in [Conns -> Nat], top \in Nat : Ordered(rank, top)
      BY DEF OrderInv
    <2>2. /\ Registered(c) /\ Registered(d) /\ ~Settled(c) /\ ~Settled(d)
          /\ ~Waiting(c) /\ ~Waiting(d) /\ SameNode(c, d) /\ SameNode(d, c)
      BY DEF OrderInv, Coherent, Registered, Settled, Waiting, SameNode
    <2>3. rank[c] # rank[d] /\ ~(rank[c] < rank[d]) /\ ~(rank[d] < rank[c])
      BY <2>1, <2>2 DEF Ordered, InOrder
    <2> QED BY <2>1, <2>3
  <1>2. OrderInv /\ [Next]_vars => OrderInv'
    BY OrderStep
  <1> QED BY <1>1, <1>2, OrderInit, PTL DEF Spec

\* When Close has returned, no checker pings, no Register is under way, and no
\* registered session is open but one that its own checker is closing
\* (muxregistry, Close).
THEOREM ShutdownSound == Spec => []ShutdownIsComplete
  <1>1. GhostInv /\ OrderInv => ShutdownIsComplete
    <2> SUFFICES ASSUME GhostInv, OrderInv, closer = "returned"
                 PROVE  /\ \A n \in Nodes : sessions[n] = NoConn
                        /\ \A c \in Conns : Registered(c) =>
                              Settled(c) /\ (c \in proxyOpen => watch[c] = "removed")
      BY DEF ShutdownIsComplete, Settled
    <2>1. PICK rank \in [Conns -> Nat], top \in Nat : Ordered(rank, top)
      BY DEF OrderInv
    <2>2. /\ \A n \in Nodes : sessions[n] = NoConn
          /\ toAwait = {} /\ toStop = {}
          /\ \A c \in Conns : Registered(c) => Settled(c)
      BY <2>1 DEF Ordered, CloseCovers, OrderInv, TypeInv, TypeOK
    <2>3. ASSUME NEW c \in Conns, Registered(c), c \in proxyOpen PROVE watch[c] = "removed"
      <3>1. sessions[NodeOf[c]] # c
        BY <2>2, MuxAssumption
      <3>2. BeingClosed(c)
        BY <2>3, <3>1 DEF GhostInv, NoGhostSession
      <3>3. ASSUME NEW d \in Conns, handler[d] = "stopPrev" PROVE FALSE
        BY <2>2, <3>3 DEF OrderInv, Coherent, Registered, Settled
      <3> QED BY <2>2, <3>2, <3>3 DEF BeingClosed
    <2> QED BY <2>2, <2>3
  <1>2. OrderInv /\ [Next]_vars => OrderInv'
    BY OrderStep
  <1>3. GhostInv /\ [Next]_vars => GhostInv'
    BY TypeStep, CoherentStep, GhostStep DEF GhostInv
  <1>4. Init => GhostInv
    BY TypeInit DEF Init, GhostInv, Coherent, NoGhostSession, Registered
  <1> QED BY <1>1, <1>2, <1>3, <1>4, OrderInit, PTL DEF Spec

-----------------------------------------------------------------------------
(* Waiting for a health checker *)

\* A Register or a health checker that is on its way out and waits for nobody.
Leaving(c) ==
    \/ handler[c] \in {"stopPrev", "start"}
    \/ watch[c] \in {"tick", "ping"} /\ c \in cancelled
    \/ watch[c] \in {"dead", "removed", "report"}

\* No ring of Registers waits for itself, whoever a Register or Close waits
\* for (<-prev.done, <-e.done) was told to stop, and it is done, on its way
\* out, or a Register that waits in turn.
NoCircularWait ==
    /\ \A W \in SUBSET Conns :
          W # {} => \E c \in W : ~(handler[c] = "waitPrev" /\ prev[c] \in W)
    /\ \A c \in Conns : handler[c] = "waitPrev" =>
          watch[prev[c]] = "exited" \/ Leaving(prev[c]) \/ handler[prev[c]] = "waitPrev"
    /\ \A c \in toAwait : toStop = {} =>
          watch[c] = "exited" \/ Leaving(c) \/ handler[c] = "waitPrev"

\* Nobody waits for a checker that was not cancelled or never comes.
StopInv ==
    /\ \A c \in Conns : handler[c] = "waitPrev" => prev[c] \in cancelled
    /\ \A c \in toAwait : c \in toStop \/ c \in cancelled
    /\ \A c \in toAwait : Registered(c)

\* Every step keeps that.
LEMMA StopStep ==
    ASSUME OrderInv, StopInv, [Next]_vars
    PROVE  StopInv'
  <1>t. TypeInv /\ Coherent
    BY DEF OrderInv
  <1> USE <1>t DEF TypeInv, TypeOK, StopInv, Registered, agentVars, registryVars, closeVars
  <1>1. ASSUME NEW n \in Nodes, NEW c \in Conns, Dial(n, c) PROVE StopInv'
    BY <1>1 DEF Dial, Unused
  <1>2. ASSUME NEW n \in Nodes, Attach(n) \/ BackoffEnds(n) \/ SessionEnds(n)
                                 \/ ConnectFails(n) \/ AgentStops(n)
        PROVE StopInv'
    BY <1>2 DEF Attach, BackoffEnds, SessionEnds, ConnectFails, AgentStops
  <1>3. ASSUME NEW c \in Conns, LinkFails(c) \/ AgentNotices(c) \/ ProxyNotices(c)
        PROVE StopInv'
    BY <1>3 DEF LinkFails, AgentNotices, ProxyNotices
  <1>4. ASSUME NEW c \in Conns, Verified(c) \/ HandshakeFails(c) \/ PrevDone(c) PROVE StopInv'
    BY <1>4 DEF Verified, HandshakeFails, PrevDone
  <1>5. ASSUME NEW c \in Conns, Register(c) PROVE StopInv'
    BY <1>5 DEF Register
  <1>6. ASSUME NEW c \in Conns, StopPrev(c) PROVE StopInv'
    BY <1>6 DEF StopPrev
  <1>7. ASSUME NEW c \in Conns, StartWatch(c) PROVE StopInv'
    BY <1>7 DEF StartWatch
  <1>8. ASSUME NEW c \in Conns, WatchStep(c) PROVE StopInv'
    <2>1. /\ UNCHANGED <<handler, prev, cancelled, toStop, toAwait>>
          /\ \A d \in Conns : watch[d] # "off" => watch'[d] # "off"
      BY <1>8 DEF WatchStep, WatchCancelled, Tick, PingOk, PingFails, handleDeath, CloseDead,
                  Reported, WatchMoves
    <2> QED BY <2>1
  <1>9. CASE Close
    <2>1. \A c \in Conns, n \in Nodes : sessions[n] = c => Registered(c)
      BY DEF OrderInv, Ordered, HeadIsNewest
    <2> QED BY <1>9, <2>1 DEF Close, ConnOrNone
  <1>10. CASE CloseStep
    BY <1>10 DEF CloseStep, CloseStop, CloseAwait, CloseReturns
  <1>11. CASE UNCHANGED vars
    BY <1>11 DEF vars
  <1> QED BY <1>1, <1>2, <1>3, <1>4, <1>5, <1>6, <1>7, <1>8, <1>9, <1>10, <1>11
          DEF Next, AgentStep, HandlerStep

\* A set of naturals has a least element.
LEMMA LeastNatural ==
    ASSUME NEW T \in SUBSET Nat, T # {}
    PROVE  \E n \in T : \A m \in T : n <= m
  <1> DEFINE R == OpToRel(<, Nat)
  <1>1. IsWellFoundedOn(R, Nat)
    BY NatLessThanWellFounded
  <1>2. R = {ss \in Nat \X Nat : ss[1] < ss[2]}
    BY DEF OpToRel
  <1> HIDE DEF R
  <1>3. PICK n \in T : \A m \in T : ~(<<m, n>> \in R)
    BY <1>1, WFMin
  <1>4. \A m \in T : ~(m < n)
    BY <1>2, <1>3
  <1> QED BY <1>4

\* Of any Registers, the one that came first does not wait for another.
LEMMA FirstIsFree ==
    ASSUME OrderInv, NEW W \in SUBSET Conns, W # {}
    PROVE  \E c \in W : ~(handler[c] = "waitPrev" /\ prev[c] \in W)
  <1>1. PICK rank \in [Conns -> Nat], top \in Nat : Ordered(rank, top)
    BY DEF OrderInv
  <1> DEFINE T == {rank[c] : c \in W}
  <1>2. PICK n \in T : \A m \in T : n <= m
    <2>1. T \in SUBSET Nat /\ T # {}
      OBVIOUS
    <2> HIDE DEF T
    <2> QED BY <2>1, LeastNatural
  <1>3. PICK c \in W : n = rank[c]
    BY <1>2
  <1>4. ASSUME handler[c] = "waitPrev", prev[c] \in W PROVE FALSE
    <2>1. rank[prev[c]] < rank[c]
      BY <1>1, <1>4 DEF Ordered, InOrder, Waiting
    <2>2. rank[c] <= rank[prev[c]]
      BY <1>2, <1>3, <1>4
    <2> QED BY <2>1, <2>2, <1>4
  <1> QED BY <1>4

\* A registered session that was cancelled is done, or some goroutine is at it.
LEMMA CancelledLeaves ==
    ASSUME TypeOK, NEW c \in Conns, Registered(c), c \in cancelled
    PROVE  watch[c] = "exited" \/ Leaving(c) \/ handler[c] = "waitPrev"
  BY DEF TypeOK, Registered, Leaving

\* The waits of Register and Close end at a goroutine that can go on, for any
\* order in which an agent's connections are verified and closed: the safety
\* half of WaitsEnd.
THEOREM WaitsSound == Spec => []NoCircularWait
  <1>1. Init => StopInv
    BY DEF Init, StopInv
  <1>2. OrderInv /\ StopInv => NoCircularWait
    <2> SUFFICES ASSUME OrderInv, StopInv PROVE NoCircularWait
      OBVIOUS
    <2>t. TypeInv /\ TypeOK
      BY DEF OrderInv, TypeInv
    <2>1. ASSUME NEW c \in Conns, handler[c] = "waitPrev"
          PROVE  watch[prev[c]] = "exited" \/ Leaving(prev[c]) \/ handler[prev[c]] = "waitPrev"
      <3>1. prev[c] \in Conns /\ prev[c] \in cancelled
        BY <2>t, <2>1 DEF TypeInv, StopInv, Waiting
      <3>2. Registered(prev[c])
        BY <2>1, <3>1 DEF OrderInv, Ordered, InOrder, Waiting
      <3> QED BY <2>t, <3>1, <3>2, CancelledLeaves
    <2>2. ASSUME NEW c \in toAwait, toStop = {}
          PROVE  watch[c] = "exited" \/ Leaving(c) \/ handler[c] = "waitPrev"
      <3>1. c \in Conns /\ c \in cancelled /\ Registered(c)
        BY <2>t, <2>2 DEF TypeOK, StopInv
      <3> QED BY <2>t, <3>1, CancelledLeaves
    <2> QED BY <2>1, <2>2, FirstIsFree DEF NoCircularWait
  <1>3. OrderInv /\ [Next]_vars => OrderInv'
    BY OrderStep
  <1>4. OrderInv /\ StopInv /\ [Next]_vars => StopInv'
    BY StopStep
  <1> QED BY <1>1, <1>2, <1>3, <1>4, OrderInit, PTL DEF Spec

-----------------------------------------------------------------------------
(* Who notices that an entry is dead *)

\* The entry of a node is never one whose checker was told to stop, and its
\* checker runs or the Register that will start it is under way.  So every
\* entry whose session dies has a goroutine that comes to handleDeath: no
\* replacement, late verification or shutdown leaves an entry behind that
\* nobody looks at.
EntriesWatched ==
    \A n \in Nodes, c \in Conns : sessions[n] = c =>
        /\ c \notin cancelled
        /\ \/ handler[c] \in {"stopPrev", "waitPrev", "start"}
           \/ watch[c] \in {"tick", "ping", "dead"}

\* Register has not seen the connection yet.
Fresh(c) == handler[c] \in {"idle", "handshake", "verified"}

\* Who was an entry, or is about to be stopped, was registered, and whoever is
\* to be stopped is an entry no more.
EntryInv ==
    /\ EntriesWatched
    /\ \A n \in Nodes, c \in Conns : sessions[n] = c => NodeOf[c] = n /\ ~Fresh(c)
    /\ \A d \in Conns : handler[d] = "stopPrev" =>
          ~Fresh(prev[d]) /\ \A n \in Nodes : sessions[n] # prev[d]
    /\ \A c \in cancelled \cup toStop : ~Fresh(c) /\ \A n \in Nodes : sessions[n] # c

\* Every step keeps that.
LEMMA EntryStep ==
    ASSUME TypeInv, Coherent, EntryInv, [Next]_vars
    PROVE  EntryInv'
  <1> USE DEF TypeInv, TypeOK, EntryInv, EntriesWatched, Fresh, Waiting,
              agentVars, registryVars, closeVars
  <1>1. ASSUME NEW n \in Nodes, NEW c \in Conns, Dial(n, c) PROVE EntryInv'
    BY <1>1 DEF Dial, Unused
  <1>2. ASSUME NEW n \in Nodes, Attach(n) \/ BackoffEnds(n) \/ SessionEnds(n)
                                 \/ ConnectFails(n) \/ AgentStops(n)
        PROVE EntryInv'
    BY <1>2 DEF Attach, BackoffEnds, SessionEnds, ConnectFails, AgentStops
  <1>3. ASSUME NEW c \in Conns, LinkFails(c) \/ AgentNotices(c) \/ ProxyNotices(c)
        PROVE EntryInv'
    BY <1>3 DEF LinkFails, AgentNotices, ProxyNotices
  <1>4. ASSUME NEW c \in Conns, Verified(c) \/ HandshakeFails(c) \/ PrevDone(c) PROVE EntryInv'
    BY <1>4 DEF Verified, HandshakeFails, PrevDone
  <1>5. ASSUME NEW c \in Conns, Register(c) PROVE EntryInv'
    <2>1. CASE closed
      BY <1>5, <2>1 DEF Register
    <2>2. CASE ~closed
      <3> DEFINE old == sessions[NodeOf[c]]
      <3>1. /\ prev' = [prev EXCEPT ![c] = old] /\ sessions' = [sessions EXCEPT ![NodeOf[c]] = c]
            /\ handler' = [handler EXCEPT ![c] = IF old = NoConn THEN "start" ELSE "stopPrev"]
            /\ handler[c] = "verified" /\ UNCHANGED <<cancelled, toStop, watch>>
        BY <1>5, <2>2 DEF Register
      <3>2. NodeOf[c] \in Nodes /\ old \in ConnOrNone /\ NoConn \notin Conns
        BY MuxAssumption
      <3>3. \A n \in Nodes : sessions[n] # c
        BY <3>1
      <3>4. \A n \in Nodes : sessions'[n] = IF n = NodeOf[c] THEN c ELSE sessions[n]
        BY <3>1, <3>2
      <3>5. \A d \in Conns : d # c => handler'[d] = handler[d] /\ prev'[d] = prev[d]
        BY <3>1
      <3>6. handler'[c] = (IF old = NoConn THEN "start" ELSE "stopPrev") /\ prev'[c] = old
        BY <3>1
      <3>7. c \notin cancelled \cup toStop
        BY <3>1
      <3>8. old \in Conns => old # c /\ ~Fresh(old) /\ \A n \in Nodes : sessions'[n] # old
        BY <3>2, <3>3, <3>4
      <3> HIDE DEF old
      <3>9. EntriesWatched'
        BY <3>1, <3>4, <3>5, <3>6, <3>7
      <3>10. (\A n \in Nodes, d \in Conns : sessions[n] = d => NodeOf[d] = n /\ ~Fresh(d))'
        BY <3>4, <3>5, <3>6
      <3>11. ASSUME NEW d \in Conns, handler'[d] = "stopPrev"
             PROVE  ~Fresh(prev[d])' /\ \A n \in Nodes : sessions'[n] # prev'[d]
        <4>1. CASE d = c
          <5>1. old \in Conns /\ prev'[d] = old
            BY <3>2, <3>6, <3>11, <4>1 DEF ConnOrNone
          <5> QED BY <3>5, <3>8, <5>1
        <4>2. CASE d # c
          <5>1. prev'[d] = prev[d] /\ prev[d] \in Conns /\ ~Fresh(prev[d])
                /\ \A n \in Nodes : sessions[n] # prev[d]
            BY <3>5, <3>11, <4>2
          <5>2. prev[d] # c
            BY <3>1, <5>1
          <5> QED BY <3>4, <3>5, <5>1, <5>2
        <4> QED BY <4>1, <4>2
      <3>12. ASSUME NEW d \in cancelled' \cup toStop'
             PROVE  ~Fresh(d)' /\ \A n \in Nodes : sessions'[n] # d
        <4>1. d # c /\ d \in Conns /\ ~Fresh(d) /\ \A n \in Nodes : sessions[n] # d
          BY <3>1, <3>7, <3>12
        <4> QED BY <3>4, <3>5, <4>1
      <3> QED BY <3>9, <3>10, <3>11, <3>12
    <2> QED BY <2>1, <2>2
  <1>6. ASSUME NEW c \in Conns, StopPrev(c) PROVE EntryInv'
    BY <1>6 DEF StopPrev
  <1>7. ASSUME NEW c \in Conns, StartWatch(c) PROVE EntryInv'
    BY <1>7 DEF StartWatch
  <1>8. ASSUME NEW c \in Conns, WatchCancelled(c) \/ Tick(c) \/ PingOk(c) \/ PingFails(c)
        PROVE EntryInv'
    BY <1>8 DEF WatchCancelled, Tick, PingOk, PingFails, WatchMoves
  <1>9. ASSUME NEW c \in Conns, CloseDead(c) \/ Reported(c) PROVE EntryInv'
    BY <1>9 DEF CloseDead, Reported, WatchMoves, Coherent
  <1>10. ASSUME NEW c \in Conns, handleDeath(c) PROVE EntryInv'
    BY <1>10, MuxAssumption DEF handleDeath
  <1>11. CASE Close
    <2>1. \A n \in Nodes : sessions'[n] = NoConn
      BY <1>11 DEF Close
    <2>2. UNCHANGED <<handler, prev, cancelled>>
      BY <1>11 DEF Close
    <2>3. \A c \in toStop' : \E n \in Nodes : sessions[n] = c
      BY <1>11 DEF Close
    <2>4. toStop' \subseteq Conns
      BY <1>11 DEF Close, ConnOrNone
    <2> QED BY <2>1, <2>2, <2>3, <2>4, MuxAssumption
  <1>12. CASE CloseStep
    BY <1>12 DEF CloseStep, CloseStop, CloseAwait, CloseReturns
  <1>13. CASE UNCHANGED vars
    BY <1>13 DEF vars
  <1> QED BY <1>1, <1>2, <1>3, <1>4, <1>5, <1>6, <1>7, <1>8, <1>9, <1>10, <1>11, <1>12, <1>13
          DEF Next, AgentStep, HandlerStep, WatchStep

\* EntriesWatched, for any nodes and connections: the safety half of
\* DeadIsForgotten.
THEOREM WatchSound == Spec => []EntriesWatched
  <1>1. Init => EntryInv /\ Coherent
    BY MuxAssumption DEF Init, EntryInv, EntriesWatched, Coherent
  <1>2. EntryInv => EntriesWatched
    BY DEF EntryInv
  <1>3. TypeInv /\ Coherent /\ [Next]_vars => Coherent'
    BY CoherentStep
  <1>4. TypeInv /\ Coherent /\ EntryInv /\ [Next]_vars => EntryInv'
    BY EntryStep
  <1> QED BY <1>1, <1>2, <1>3, <1>4, TypeInit, TypeStep, PTL DEF Spec

-----------------------------------------------------------------------------
(* The sessions of SSHRelay *)

\* The types without connSlots.
RelayTypes ==
    /\ stop \in BOOLEAN /\ serve \in {"accept", "conns", "channels", "returned"}
    /\ conn \in [Clients -> {"new", "handshake", "serving", "returned", "dropped"}]
    /\ link \in [Clients -> BOOLEAN]
    /\ chan \in [Clients -> {"none", "opened", "ticket", "header", "relay", "drain", "done"}]
    /\ ssh \in [Clients -> {"open", "eof", "closing", "closed"}]
    /\ stream \in [Clients -> {"none", "open", "closed"}]
    /\ relay \in [Clients -> {"none", "header", "relay", "drain", "done"}]
    /\ vm \in [Clients -> {"none", "open", "closed"}]
    /\ copies \in [Clients -> SUBSET Copies]

\* The copy loops of each side.
Proxy == {"proxy up", "proxy down"}
Agent == {"agent up", "agent down"}

\* The relay of ssh-proxy: a stream from OpenStream on; both ends are closed
\* before it waits for its second copy loop, and no loop outlives it.  The
\* channel does not outlive its link.
ProxySide(c) ==
    /\ chan[c] \in {"none", "opened", "ticket"} => stream[c] = "none"
    /\ chan[c] \in {"header", "relay", "drain"} => stream[c] # "none"
    /\ chan[c] = "drain" => ssh[c] # "open"
    /\ ~link[c] => ssh[c] = "closed"
    /\ chan[c] \in {"drain", "done"} => stream[c] # "open"
    /\ copies[c] \cap Proxy # {} => chan[c] \in {"relay", "drain"}

\* The relay of the agent, the same way.
AgentSide(c) ==
    /\ relay[c] # "none" => chan[c] \in {"relay", "drain", "done"} /\ stream[c] # "none"
    /\ relay[c] \in {"none", "header"} => vm[c] = "none"
    /\ relay[c] \in {"drain", "done"} => stream[c] = "closed"
    /\ relay[c] = "drain" => vm[c] = "closed"
    /\ copies[c] \cap Agent # {} => relay[c] \in {"relay", "drain"}

SessionInv == RelayTypes /\ \A c \in Clients : ProxySide(c) /\ AgentSide(c)

\* The steps of a session: its client, its network, the two relays, their loops.
SessionStep(c) ==
    \/ OpenChannel(c) \/ LinkDown(c) \/ ClientEOF(c) \/ ClientCloses(c) \/ StreamBreaks(c)
    \/ ContextDone(c) \/ ProxyStep(c)
    \/ StreamStep(c) \/ AgentCloses(c) \/ VMCloses(c)
    \/ ProxyUpEnds(c) \/ ProxyDownEnds(c)
    \/ AgentUpEnds(c) \/ AgentDownEnds(c)

\* Only the session of one client changes.
OnlyOf(c) ==
    \A d \in Clients \ {c} :
        /\ chan'[d] = chan[d] /\ ssh'[d] = ssh[d] /\ stream'[d] = stream[d]
        /\ relay'[d] = relay[d] /\ vm'[d] = vm[d] /\ copies'[d] = copies[d]
        /\ link'[d] = link[d]

\* The two closeBoth() of the relays, and their ends.
LEMMA RelayTurns ==
    ASSUME NEW c \in Clients, RelayReturns(c)
    PROVE  /\ \/ /\ chan[c] = "relay" /\ chan' = [chan EXCEPT ![c] = "drain"]
                 /\ stream' = [stream EXCEPT ![c] = "closed"]
                 /\ ssh' = [ssh EXCEPT ![c] = CloseChannel(ssh[c])]
              \/ /\ chan[c] = "drain" /\ Proxy \cap copies[c] = {}
                 /\ chan' = [chan EXCEPT ![c] = "done"] /\ ssh' = [ssh EXCEPT ![c] = "closed"]
                 /\ UNCHANGED stream
           /\ UNCHANGED <<stop, serve, slots, conn, link, relay, vm, copies>>
  BY DEF RelayReturns, Proxy, Set, serverVars

LEMMA RelayBytesTurns ==
    ASSUME NEW c \in Clients, relayBytes(c)
    PROVE  /\ \/ /\ relay[c] = "relay" /\ relay' = [relay EXCEPT ![c] = "drain"]
                 /\ stream' = [stream EXCEPT ![c] = "closed"]
                 /\ vm' = [vm EXCEPT ![c] = "closed"]
              \/ /\ relay[c] = "drain" /\ Agent \cap copies[c] = {}
                 /\ relay' = [relay EXCEPT ![c] = "done"] /\ UNCHANGED <<stream, vm>>
           /\ UNCHANGED <<stop, serve, slots, conn, link, chan, ssh, copies>>
  BY DEF relayBytes, Agent, Set, serverVars

\* The same for the session itself.
LEMMA RelayTurnsAt ==
    ASSUME RelayTypes, NEW c \in Clients, RelayReturns(c)
    PROVE  /\ relay'[c] = relay[c] /\ vm'[c] = vm[c] /\ copies'[c] = copies[c]
           /\ \/ /\ chan[c] = "relay" /\ chan'[c] = "drain"
                 /\ stream'[c] = "closed" /\ ssh'[c] = CloseChannel(ssh[c])
              \/ /\ chan[c] = "drain" /\ chan'[c] = "done" /\ Proxy \cap copies[c] = {}
                 /\ stream'[c] = stream[c] /\ ssh'[c] = "closed"
  BY RelayTurns DEF RelayTypes

LEMMA RelayBytesTurnsAt ==
    ASSUME RelayTypes, NEW c \in Clients, relayBytes(c)
    PROVE  /\ chan'[c] = chan[c] /\ ssh'[c] = ssh[c] /\ copies'[c] = copies[c]
           /\ \/ /\ relay[c] = "relay" /\ relay'[c] = "drain"
                 /\ stream'[c] = "closed" /\ vm'[c] = "closed"
              \/ /\ relay[c] = "drain" /\ relay'[c] = "done" /\ Agent \cap copies[c] = {}
                 /\ stream'[c] = stream[c] /\ vm'[c] = vm[c]
  BY RelayBytesTurns DEF RelayTypes

\* A step of a session keeps the types and leaves the other sessions alone.
LEMMA SessionFrame ==
    ASSUME RelayTypes, NEW c \in Clients, SessionStep(c)
    PROVE  RelayTypes' /\ OnlyOf(c) /\ UNCHANGED <<stop, serve, slots, conn>>
  <1> USE DEF RelayTypes, OnlyOf, Set, serverVars
  <1> DEFINE Loops == /\ copies' \in [Clients -> SUBSET Copies]
                      /\ \A d \in Clients \ {c} : copies'[d] = copies[d]
  <1>1. CASE OpenChannel(c)
    BY <1>1 DEF OpenChannel
  <1>2. CASE LinkDown(c)
    BY <1>2 DEF LinkDown
  <1>3. CASE ClientEOF(c) \/ ClientCloses(c)
    BY <1>3 DEF ClientEOF, ClientCloses
  <1>4. CASE StreamBreaks(c)
    BY <1>4 DEF StreamBreaks
  <1>5. CASE ContextDone(c)
    BY <1>5 DEF ContextDone, CloseChannel
  <1>6. CASE handleDirectTCPIP(c)
    BY <1>6 DEF handleDirectTCPIP
  <1>7. CASE OpenStream(c)
    BY <1>7 DEF OpenStream
  <1>8. CASE GiveUp(c)
    BY <1>8 DEF GiveUp
  <1>9. CASE WriteHeader(c)
    <2>1. Loops
      BY <1>9 DEF WriteHeader, Copies
    <2> QED BY <1>9, <2>1 DEF WriteHeader
  <1>10. CASE WriteHeaderFails(c)
    BY <1>10 DEF WriteHeaderFails
  <1>11. CASE RelayReturns(c)
    BY <1>11, RelayTurns DEF CloseChannel
  <1>12. CASE DialVM(c)
    <2>1. Loops
      BY <1>12 DEF DialVM, Copies
    <2> QED BY <1>12, <2>1 DEF DialVM
  <1>13. CASE StreamRefused(c)
    BY <1>13 DEF StreamRefused
  <1>14. CASE relayBytes(c)
    BY <1>14, RelayBytesTurns
  <1>15. CASE AgentCloses(c)
    BY <1>15 DEF AgentCloses
  <1>16. CASE VMCloses(c)
    BY <1>16 DEF VMCloses
  <1>17. CASE ProxyUpEnds(c)
    <2>1. Loops
      BY <1>17 DEF ProxyUpEnds, Copies
    <2> QED BY <1>17, <2>1 DEF ProxyUpEnds
  <1>18. CASE ProxyDownEnds(c)
    <2>1. Loops
      BY <1>18 DEF ProxyDownEnds, Copies
    <2> QED BY <1>18, <2>1 DEF ProxyDownEnds
  <1>19. CASE AgentUpEnds(c)
    <2>1. Loops
      BY <1>19 DEF AgentUpEnds, Copies
    <2> QED BY <1>19, <2>1 DEF AgentUpEnds
  <1>20. CASE AgentDownEnds(c)
    <2>1. Loops
      BY <1>20 DEF AgentDownEnds, Copies
    <2> QED BY <1>20, <2>1 DEF AgentDownEnds
  <1> QED BY <1>1, <1>2, <1>3, <1>4, <1>5, <1>6, <1>7, <1>8, <1>9, <1>10, <1>11, <1>12, <1>13, <1>14, <1>15, <1>16, <1>17, <1>18, <1>19, <1>20
         DEF SessionStep, ProxyStep, StreamStep

\* It keeps the relation of the two relays.
LEMMA SessionKept ==
    ASSUME SessionInv, NEW c \in Clients, SessionStep(c)
    PROVE  ProxySide(c)' /\ AgentSide(c)'
  <1>t. RelayTypes /\ ProxySide(c) /\ AgentSide(c)
    BY DEF SessionInv
  <1> USE <1>t DEF RelayTypes, ProxySide, AgentSide, Set, Proxy, Agent, serverVars
  <1>1. CASE OpenChannel(c)
    BY <1>1 DEF OpenChannel
  <1>2. CASE LinkDown(c)
    BY <1>2 DEF LinkDown
  <1>3. CASE ClientEOF(c) \/ ClientCloses(c)
    BY <1>3 DEF ClientEOF, ClientCloses
  <1>4. CASE StreamBreaks(c)
    BY <1>4 DEF StreamBreaks
  <1>5. CASE ContextDone(c)
    BY <1>5 DEF ContextDone, CloseChannel
  <1>6. CASE handleDirectTCPIP(c)
    BY <1>6 DEF handleDirectTCPIP
  <1>7. CASE OpenStream(c)
    BY <1>7 DEF OpenStream
  <1>8. CASE GiveUp(c)
    BY <1>8 DEF GiveUp
  <1>9. CASE WriteHeader(c)
    BY <1>9 DEF WriteHeader
  <1>10. CASE WriteHeaderFails(c)
    BY <1>10 DEF WriteHeaderFails
  <1>11. CASE RelayReturns(c)
    <2>1. link' = link
      BY <1>11 DEF RelayReturns, serverVars
    <2> QED BY <1>11, <2>1, RelayTurnsAt DEF CloseChannel
  <1>12. CASE DialVM(c)
    BY <1>12 DEF DialVM
  <1>13. CASE StreamRefused(c)
    BY <1>13 DEF StreamRefused
  <1>14. CASE relayBytes(c)
    <2>1. link' = link
      BY <1>14 DEF relayBytes
    <2> QED BY <1>14, <2>1, RelayBytesTurnsAt
  <1>15. CASE AgentCloses(c)
    BY <1>15 DEF AgentCloses
  <1>16. CASE VMCloses(c)
    BY <1>16 DEF VMCloses
  <1>17. CASE ProxyUpEnds(c)
    BY <1>17 DEF ProxyUpEnds
  <1>18. CASE ProxyDownEnds(c)
    BY <1>18 DEF ProxyDownEnds
  <1>19. CASE AgentUpEnds(c)
    BY <1>19 DEF AgentUpEnds
  <1>20. CASE AgentDownEnds(c)
    BY <1>20 DEF AgentDownEnds
  <1> QED BY <1>1, <1>2, <1>3, <1>4, <1>5, <1>6, <1>7, <1>8, <1>9, <1>10, <1>11, <1>12, <1>13, <1>14, <1>15, <1>16, <1>17, <1>18, <1>19, <1>20
         DEF SessionStep, ProxyStep, StreamStep

\* What the SSH server does by itself.
ServingStep == Stop \/ ServeReturns
               \/ \E c \in Clients : AcceptConn(c) \/ Handshake(c) \/ ConnReturns(c)

\* A step is one of the server or of a session.
LEMMA RelaySteps ==
    ASSUME RelayNext
    PROVE  ServingStep \/ \E c \in Clients : SessionStep(c)
  BY DEF RelayNext, ServerStep, IdleTimeout, ServingStep, SessionStep

\* The server does nothing to a session.
LEMMA ServerFrame ==
    ASSUME RelayTypes, ServingStep
    PROVE  /\ RelayTypes' /\ UNCHANGED <<chan, ssh, stream, relay, vm, copies>>
           /\ \A c \in Clients : link[c] => link'[c]
  <1>1. UNCHANGED <<chan, ssh, stream, relay, vm, copies>>
    BY DEF ServingStep, AcceptConn, Handshake, ConnReturns, Stop,
           ServeReturns, relayVars
  <1>2. RelayTypes'
    <2> USE DEF RelayTypes, Set
    <2>1. CASE Stop \/ ServeReturns
      BY <1>1, <2>1 DEF Stop, ServeReturns
    <2>2. ASSUME NEW c \in Clients,
                 AcceptConn(c) \/ Handshake(c) \/ ConnReturns(c)
          PROVE  RelayTypes'
      BY <1>1, <2>2 DEF AcceptConn, Handshake, ConnReturns
    <2> QED BY <2>1, <2>2 DEF ServingStep
  <1>3. \A c \in Clients : link[c] => link'[c]
    BY DEF ServingStep, AcceptConn, Handshake, ConnReturns, Stop, ServeReturns, RelayTypes, Set
  <1> QED BY <1>1, <1>2, <1>3

\* The invariant is inductive.
LEMMA SessionHolds == RelaySpec => []SessionInv
  <1>1. RelayInit => SessionInv
    <2> SUFFICES ASSUME RelayInit PROVE SessionInv
      OBVIOUS
    <2>1. RelayTypes
      BY DEF RelayInit, RelayTypes
    <2>2. ASSUME NEW c \in Clients PROVE ProxySide(c) /\ AgentSide(c)
      <3>1. /\ chan[c] = "none" /\ stream[c] = "none" /\ relay[c] = "none"
            /\ vm[c] = "none" /\ copies[c] = {} /\ ssh[c] = "closed"
        BY DEF RelayInit
      <3> QED BY <3>1 DEF ProxySide, AgentSide
    <2> QED BY <2>1, <2>2 DEF SessionInv
  <1>2. SessionInv /\ [RelayNext]_sshVars => SessionInv'
    <2> SUFFICES ASSUME SessionInv, [RelayNext]_sshVars PROVE SessionInv'
      OBVIOUS
    <2>1. ASSUME NEW c \in Clients, SessionStep(c) PROVE SessionInv'
      <3>1. RelayTypes' /\ OnlyOf(c) /\ ProxySide(c)' /\ AgentSide(c)'
        BY <2>1, SessionFrame, SessionKept DEF SessionInv
      <3> QED BY <3>1 DEF SessionInv, OnlyOf, ProxySide, AgentSide
    <2>2. CASE ServingStep
      <3>1. /\ RelayTypes' /\ UNCHANGED <<chan, ssh, stream, relay, vm, copies>>
            /\ \A c \in Clients : link[c] => link'[c]
        BY <2>2, ServerFrame DEF SessionInv
      <3> QED BY <3>1 DEF SessionInv, ProxySide, AgentSide
    <2>3. CASE UNCHANGED sshVars
      BY <2>3 DEF sshVars, serverVars, relayVars, SessionInv, RelayTypes,
                  ProxySide, AgentSide
    <2> QED BY <2>1, <2>2, <2>3, RelaySteps
  <1> QED BY <1>1, <1>2, PTL DEF RelaySpec

\* Past wg.Wait no connection is left and past channelWG.Wait no channel: no
\* new one can come, since only a connection being served opens a channel.
ServeInv ==
    /\ serve \in {"channels", "returned"} => \A c \in Clients : ~InFlight(c)
    /\ serve = "returned" => \A c \in Clients : ~Handling(c)

\* Every step of a session keeps it.
LEMMA ServeSession ==
    ASSUME RelayTypes, ServeInv, NEW c \in Clients, SessionStep(c)
    PROVE  ServeInv'
  <1>1. UNCHANGED <<serve, conn>> /\ RelayTypes' /\ OnlyOf(c)
    BY SessionFrame
  <1>2. Handling(c)' => Handling(c) \/ InFlight(c)
    <2> USE DEF Handling, InFlight, RelayTypes, Set
    <2>1. CASE OpenChannel(c)
      BY <2>1 DEF OpenChannel
    <2>2. CASE ProxyStep(c)
      BY <2>2 DEF ProxyStep, handleDirectTCPIP, OpenStream, GiveUp,
                  WriteHeader, WriteHeaderFails, RelayReturns
    <2>3. CASE chan' = chan
      BY <2>3
    <2>4. SessionStep(c) => OpenChannel(c) \/ ProxyStep(c) \/ chan' = chan
      BY DEF SessionStep, LinkDown, ClientEOF, ClientCloses, StreamBreaks,
             ContextDone, StreamStep, DialVM, StreamRefused,
             relayBytes, AgentCloses, VMCloses, ProxyUpEnds,
             ProxyDownEnds, AgentUpEnds, AgentDownEnds
    <2> QED BY <2>1, <2>2, <2>3, <2>4
  <1> QED BY <1>1, <1>2 DEF ServeInv, OnlyOf, Handling, InFlight

\* So does every step of the server.
LEMMA ServeServer ==
    ASSUME RelayTypes, ServeInv, ServingStep
    PROVE  ServeInv'
  <1> USE DEF ServeInv, RelayTypes, InFlight, Handling, Set, relayVars
  <1>1. CASE Stop \/ ServeReturns
    BY <1>1 DEF Stop, ServeReturns
  <1>2. ASSUME NEW c \in Clients, AcceptConn(c) \/ Handshake(c) \/ ConnReturns(c)
        PROVE  ServeInv'
    BY <1>2 DEF AcceptConn, Handshake, ConnReturns
  <1> QED BY <1>1, <1>2 DEF ServingStep

\* Serve returns last: any number of clients, any cap, whatever order they,
\* their channels and the agents end in.
THEOREM DrainSound == RelaySpec => []DrainIsComplete
  <1>1. RelayInit => ServeInv
    BY DEF RelayInit, ServeInv
  <1>2. SessionInv /\ ServeInv /\ [RelayNext]_sshVars => ServeInv'
    <2> SUFFICES ASSUME SessionInv, ServeInv, [RelayNext]_sshVars PROVE ServeInv'
      OBVIOUS
    <2>1. CASE UNCHANGED sshVars
      BY <2>1 DEF sshVars, serverVars, relayVars, ServeInv,
                  InFlight, Handling
    <2> QED BY <2>1, RelaySteps, ServeSession, ServeServer DEF SessionInv
  <1>3. SessionInv /\ ServeInv => DrainIsComplete
    BY DEF SessionInv, ServeInv, ProxySide, DrainIsComplete, Handling, Proxy
  <1> QED BY <1>1, <1>2, <1>3, SessionHolds, PTL DEF RelaySpec

\* connSlots counts the connections in flight.
SlotsCounted == slots = Cardinality({c \in Clients : InFlight(c)})

\* A slot is taken and given back once per connection.
LEMMA SlotsStep ==
    ASSUME IsFiniteSet(Clients), MaxConcurrentConns \in Nat, RelayTypes,
           SlotsCounted, slots \in 0..MaxConcurrentConns, [RelayNext]_sshVars
    PROVE  SlotsCounted' /\ slots' \in 0..MaxConcurrentConns
  <1> DEFINE Held == {c \in Clients : InFlight(c)}
  <1>f. IsFiniteSet(Held)
    BY FS_Subset
  <1>1. ASSUME UNCHANGED <<slots, conn>>
        PROVE  SlotsCounted' /\ slots' \in 0..MaxConcurrentConns
    BY <1>1 DEF SlotsCounted, InFlight
  <1>2. ASSUME NEW c \in Clients, AcceptConn(c)
        PROVE  SlotsCounted' /\ slots' \in 0..MaxConcurrentConns
    <2>1. CASE slots < MaxConcurrentConns
      <3>1. Held' = Held \cup {c} /\ c \notin Held /\ slots' = slots + 1
        BY <1>2, <2>1 DEF AcceptConn, Set, InFlight, RelayTypes
      <3>2. Cardinality(Held') = Cardinality(Held) + 1
        BY <1>f, <3>1, FS_AddElement
      <3> QED BY <2>1, <3>1, <3>2 DEF SlotsCounted
    <2>2. CASE ~(slots < MaxConcurrentConns)
      <3>1. Held' = Held /\ slots' = slots
        BY <1>2, <2>2 DEF AcceptConn, Set, InFlight, RelayTypes
      <3> QED BY <3>1 DEF SlotsCounted
    <2> QED BY <2>1, <2>2
  <1>3. ASSUME NEW c \in Clients, Handshake(c)
        PROVE  SlotsCounted' /\ slots' \in 0..MaxConcurrentConns
    <2>1. Held' = Held /\ slots' = slots
      BY <1>3 DEF Handshake, Set, InFlight, RelayTypes
    <2> QED BY <2>1 DEF SlotsCounted
  <1>4. ASSUME NEW c \in Clients, ConnReturns(c)
        PROVE  SlotsCounted' /\ slots' \in 0..MaxConcurrentConns
    <2>1. Held' = Held \ {c} /\ c \in Held /\ slots' = slots - 1
      BY <1>4 DEF ConnReturns, Set, InFlight, RelayTypes
    <2>2. Cardinality(Held') = Cardinality(Held) - 1 /\ Cardinality(Held') \in Nat
      BY <1>f, <2>1, FS_RemoveElement, FS_CardinalityType
    <2> QED BY <2>1, <2>2 DEF SlotsCounted
  <1>5. CASE Stop \/ ServeReturns
    BY <1>1, <1>5 DEF Stop, ServeReturns
  <1>6. ASSUME NEW c \in Clients, SessionStep(c)
        PROVE  SlotsCounted' /\ slots' \in 0..MaxConcurrentConns
    BY <1>1, <1>6, SessionFrame
  <1>7. CASE UNCHANGED sshVars
    BY <1>1, <1>7 DEF sshVars, serverVars
  <1> QED BY <1>2, <1>3, <1>4, <1>5, <1>6, <1>7, RelaySteps DEF ServingStep

\* The semaphore of Serve: never more than the cap of connections at a time,
\* and no way out of handleConn that keeps a slot or gives one back twice.
THEOREM SlotsSound == RelaySpec => [](RelayTypeOK /\ SlotsCounted)
  <1>a. IsFiniteSet(Clients) /\ MaxConcurrentConns \in Nat
    BY SSHRelayAssumption
  <1> DEFINE Inv == SlotsCounted /\ slots \in 0..MaxConcurrentConns
  <1>1. RelayInit => Inv
    <2> SUFFICES ASSUME RelayInit PROVE Inv
      OBVIOUS
    <2>1. {c \in Clients : InFlight(c)} = {} /\ slots = 0
      BY DEF RelayInit, InFlight
    <2> QED BY <1>a, <2>1, FS_EmptySet DEF SlotsCounted
  <1>2. SessionInv /\ Inv /\ [RelayNext]_sshVars => Inv'
    BY <1>a, SlotsStep DEF SessionInv
  <1>3. SessionInv /\ Inv => RelayTypeOK /\ SlotsCounted
    BY DEF SessionInv, RelayTypes, RelayTypeOK
  <1> HIDE DEF Inv
  <1> QED BY <1>1, <1>2, <1>3, SessionHolds, PTL DEF RelaySpec

-----------------------------------------------------------------------------
(* Teardown without fairness: never stuck, never back, finitely often *)

\* Both relays have returned, and no copy loop runs.
Down(c) == ~Handling(c) /\ relay[c] \in {"none", "done"} /\ copies[c] = {}

\* The guards of Works(c): a goroutine of the session can go on by itself.
CanProgress(c) ==
    \/ InFlight(c) /\ ~link[c]
    \/ chan[c] \in {"opened", "ticket", "header"} \/ relay[c] = "header"
    \/ chan[c] = "relay" /\ Cardinality(Proxy \cap copies[c]) < 2
    \/ chan[c] = "drain" /\ Proxy \cap copies[c] = {}
    \/ relay[c] = "relay" /\ Cardinality(Agent \cap copies[c]) < 2
    \/ relay[c] = "drain" /\ Agent \cap copies[c] = {}
    \/ stop /\ (stream[c] = "open" \/ (chan[c] = "relay" /\ ssh[c] = "open"))
    \/ ssh[c] \in {"eof", "closed"} /\ "proxy up" \in copies[c]
    \/ ssh[c] = "closed" /\ stream[c] = "closed" /\ "proxy down" \in copies[c]
    \/ stream[c] = "closed" /\ "agent up" \in copies[c]
    \/ vm[c] = "closed" /\ "agent down" \in copies[c]

\* All that is left is a copy loop of ssh-proxy, in a read or a write of the
\* channel that returns when the client reads on, answers, closes the channel
\* or loses its link.
AwaitsClient(c) ==
    /\ AgentIsDown(c) /\ ssh[c] # "closed" /\ stream[c] = "closed"
    /\ ssh[c] = "closing" \/ "proxy down" \in copies[c]

\* The guards of ServeReturns.
CanReturn ==
    \/ serve = "accept" /\ stop
    \/ serve = "conns" /\ \A c \in Clients : ~InFlight(c)
    \/ serve = "channels" /\ \A c \in Clients : ~Handling(c)

\* The two relays never wait for each other: whatever side ended, some
\* goroutine can go on until everything is down, or until ssh-proxy waits for
\* nothing but the client; and Serve, once the clients have gone, never waits
\* for a session that cannot go on.
NeverStuck ==
    /\ \A c \in Clients : Over(c) /\ ~Down(c) => CanProgress(c) \/ AwaitsClient(c)
    /\ stop /\ (\A c \in Clients : ~link[c]) /\ serve # "returned"
          => CanReturn \/ \E c \in Clients : CanProgress(c)

\* Of two copy loops one has ended, unless both run.
LEMMA OneEnded ==
    ASSUME NEW S, NEW x, NEW y, ~({x, y} \subseteq S)
    PROVE  Cardinality({x, y} \cap S) < 2
  <1>1. {x, y} \cap S = {} \/ {x, y} \cap S = {x} \/ {x, y} \cap S = {y}
    OBVIOUS
  <1>2. Cardinality({}) = 0 /\ Cardinality({x}) = 1 /\ Cardinality({y}) = 1
    BY FS_EmptySet, FS_Singleton
  <1> QED BY <1>1, <1>2

\* The agent of a session whose stream has ended.
LEMMA AgentProceeds ==
    ASSUME SessionInv, NEW c \in Clients, stream[c] = "closed"
    PROVE  CanProgress(c) \/ AgentIsDown(c)
  <1>t. RelayTypes /\ AgentSide(c)
    BY DEF SessionInv
  <1>1. CASE relay[c] = "header"
    BY <1>1 DEF CanProgress
  <1>2. CASE relay[c] = "relay"
    <2>1. CASE Agent \subseteq copies[c]
      BY <2>1 DEF CanProgress, Agent
    <2>2. CASE ~(Agent \subseteq copies[c])
      BY <1>2, <2>2, OneEnded DEF CanProgress, Agent
    <2> QED BY <2>1, <2>2
  <1>3. CASE relay[c] = "drain"
    <2>1. vm[c] = "closed"
      BY <1>t, <1>3 DEF AgentSide
    <2> QED BY <1>3, <2>1 DEF CanProgress, Agent
  <1>4. CASE relay[c] \in {"none", "done"}
    BY <1>t, <1>4 DEF AgentSide, AgentIsDown, Agent
  <1> QED BY <1>t, <1>1, <1>2, <1>3, <1>4 DEF RelayTypes

\* The first part of NeverStuck, by where the two relays are.
LEMMA SessionProceeds ==
    ASSUME SessionInv, NEW c \in Clients, Over(c), ~Down(c)
    PROVE  CanProgress(c) \/ AwaitsClient(c)
  <1>t. RelayTypes /\ ProxySide(c) /\ AgentSide(c)
    BY DEF SessionInv
  <1>c. copies[c] \subseteq Proxy \cup Agent
    BY <1>t DEF RelayTypes, Copies, Proxy, Agent
  <1>1. CASE chan[c] \in {"opened", "ticket", "header"} \/ relay[c] = "header"
    BY <1>1 DEF CanProgress
  <1>2. CASE chan[c] = "drain"
    <2>1. ssh[c] \in {"eof", "closing", "closed"} /\ stream[c] = "closed"
      BY <1>t, <1>2 DEF ProxySide, RelayTypes
    <2>2. CASE Proxy \cap copies[c] = {}
      BY <1>2, <2>2 DEF CanProgress
    <2>3. CASE "proxy up" \in copies[c] \/ "proxy down" \in copies[c]
      BY <2>1, <2>3, AgentProceeds DEF CanProgress, AwaitsClient
    <2> QED BY <2>2, <2>3 DEF Proxy
  <1>3. CASE chan[c] = "relay"
    <2>1. CASE ~(Proxy \subseteq copies[c])
      BY <1>3, <2>1, OneEnded DEF CanProgress, Proxy
    <2>2. CASE Proxy \subseteq copies[c] /\ ssh[c] \in {"eof", "closed"}
      BY <2>2 DEF CanProgress, Proxy
    <2>3. CASE Proxy \subseteq copies[c] /\ ssh[c] \in {"open", "closing"} /\ stream[c] = "closed"
      BY <2>3, AgentProceeds DEF AwaitsClient, Proxy
    <2>4. CASE stream[c] # "closed" /\ vm[c] = "closed"
      <3>1. relay[c] = "relay"
        BY <1>t, <1>3, <2>4 DEF AgentSide, RelayTypes
      <3>2. CASE Agent \subseteq copies[c]
        BY <2>4, <3>2 DEF CanProgress, Agent
      <3>3. CASE ~(Agent \subseteq copies[c])
        BY <3>1, <3>3, OneEnded DEF CanProgress, Agent
      <3> QED BY <3>2, <3>3
    <2>5. CASE stream[c] # "closed" /\ stop
      <3>1. stream[c] = "open"
        BY <1>t, <1>3, <2>5 DEF ProxySide, RelayTypes
      <3> QED BY <2>5, <3>1 DEF CanProgress
    <2>6. ssh[c] \in {"open", "eof", "closing", "closed"}
      BY <1>t DEF RelayTypes
    <2> QED BY <2>1, <2>2, <2>3, <2>4, <2>5, <2>6 DEF Over
  <1>4. CASE chan[c] \in {"none", "done"}
    <2>1. copies[c] \cap Proxy = {}
      BY <1>t, <1>4 DEF ProxySide
    <2>2. ~AgentIsDown(c)
      BY <1>c, <1>4, <2>1 DEF Down, Handling, AgentIsDown, Proxy, Agent
    <2>3. relay[c] # "none"
      BY <1>t, <2>2 DEF AgentSide, AgentIsDown, Agent
    <2>4. stream[c] = "closed"
      BY <1>t, <1>4, <2>3 DEF ProxySide, AgentSide, RelayTypes
    <2> QED BY <2>2, <2>4, AgentProceeds
  <1> QED BY <1>t, <1>1, <1>2, <1>3, <1>4 DEF RelayTypes

\* What the drain of Serve and the teardown of a session wait for is never
\* waiting for them, and of the world outside ssh-proxy waits for the client
\* alone and the agent for nobody: the safety half of RelayTornDown and
\* ShutdownDrains.
THEOREM TeardownNeverStuck == RelaySpec => []NeverStuck
  <1>1. SessionInv => NeverStuck
    <2> SUFFICES ASSUME SessionInv PROVE NeverStuck
      OBVIOUS
    <2>1. ASSUME stop, \A c \in Clients : ~link[c], serve # "returned"
          PROVE  CanReturn \/ \E c \in Clients : CanProgress(c)
      <3>1. CASE serve = "accept"
        BY <2>1, <3>1 DEF CanReturn
      <3>2. CASE serve = "conns"
        BY <2>1, <3>2 DEF CanReturn, CanProgress
      <3>3. CASE serve = "channels"
        <4>1. ASSUME NEW c \in Clients, Handling(c) PROVE CanProgress(c)
          <5>1. ssh[c] = "closed"
            BY <2>1 DEF SessionInv, ProxySide
          <5> QED BY <2>1, <4>1, <5>1, SessionProceeds DEF Over, Down, AwaitsClient
        <4> QED BY <3>3, <4>1 DEF CanReturn
      <3> QED BY <2>1, <3>1, <3>2, <3>3 DEF SessionInv, RelayTypes
    <2> QED BY <2>1, SessionProceeds DEF NeverStuck
  <1> QED BY <1>1, SessionHolds, PTL

\* How many steps of the programs a session has before it at most.
ChanLeft(at) ==
    CASE at = "none" -> 24 [] at = "opened" -> 21 [] at = "ticket" -> 20 [] at = "header" -> 18
      [] at = "relay" -> 2 [] at = "drain" -> 1 [] OTHER -> 0
AgentLeft(at) == CASE at = "header" -> 10 [] at = "relay" -> 2 [] at = "drain" -> 1 [] OTHER -> 0
ConnLeft(at) == CASE at = "new" -> 2 [] at \in {"handshake", "serving"} -> 1 [] OTHER -> 0
StreamLeft(at) == IF at = "open" THEN 1 ELSE 0
SshLeft(at) == CASE at = "open" -> 2 [] at = "closing" -> 1 [] OTHER -> 0
Left(c) ==
    ChanLeft(chan[c]) + AgentLeft(relay[c]) + ConnLeft(conn[c])
    + StreamLeft(stream[c]) + SshLeft(ssh[c]) + Cardinality(copies[c])

\* A session that is over stays over until it is down, nothing a client, a VM,
\* the network or another session does gives the programs more to do, and
\* every step of theirs, and the client's answer, leaves less.
Winds(c) ==
    /\ Left(c)' <= Left(c)
    /\ Progress(c) => Left(c)' < Left(c)
    /\ Over(c) /\ ~Down(c) => Over(c)' \/ Down(c)'

TeardownAdvances == [][\A c \in Clients : Winds(c)]_sshVars

\* What Left sums up.
LEMMA LeftTypes ==
    \A at : /\ ChanLeft(at) \in Nat /\ AgentLeft(at) \in Nat
            /\ ConnLeft(at) \in Nat /\ StreamLeft(at) \in 0..1 /\ SshLeft(at) \in 0..2
  <1>1. \A at : ChanLeft(at) \in Nat
    BY DEF ChanLeft
  <1>2. \A at : AgentLeft(at) \in Nat
    BY DEF AgentLeft
  <1>3. \A at : ConnLeft(at) \in Nat
    BY DEF ConnLeft
  <1>4. \A at : StreamLeft(at) \in 0..1
    BY DEF StreamLeft
  <1>5. \A at : SshLeft(at) \in 0..2
    BY DEF SshLeft
  <1> QED BY <1>1, <1>2, <1>3, <1>4, <1>5

\* There are finitely many copy loops.
LEMMA CopiesFinite ==
    ASSUME RelayTypes, NEW c \in Clients
    PROVE  IsFiniteSet(copies[c]) /\ Cardinality(copies[c]) \in Nat
  <1>1. IsFiniteSet({"proxy up"}) /\ IsFiniteSet({"proxy down"})
        /\ IsFiniteSet({"agent up"}) /\ IsFiniteSet({"agent down"})
    BY FS_Singleton
  <1>2. IsFiniteSet({"proxy up"} \cup {"proxy down"}) /\ IsFiniteSet({"agent up"} \cup {"agent down"})
    BY <1>1, FS_Union
  <1>3. IsFiniteSet(({"proxy up"} \cup {"proxy down"}) \cup ({"agent up"} \cup {"agent down"}))
    BY <1>2, FS_Union
  <1>4. copies[c] \subseteq ({"proxy up"} \cup {"proxy down"}) \cup ({"agent up"} \cup {"agent down"})
    BY DEF RelayTypes, Copies
  <1>5. IsFiniteSet(copies[c])
    BY <1>3, <1>4, FS_Subset
  <1> QED BY <1>5, FS_CardinalityType

\* Two more copy loops, or one less.
LEMMA CopiesCount ==
    ASSUME NEW S, IsFiniteSet(S), NEW x, NEW y
    PROVE  /\ Cardinality(S \cup {x, y}) \in Nat
           /\ Cardinality(S \cup {x, y}) <= Cardinality(S) + 2
           /\ x \in S => Cardinality(S \ {x}) \in Nat /\ Cardinality(S \ {x}) = Cardinality(S) - 1
  <1>0. Cardinality(S) \in Nat
    BY FS_CardinalityType
  <1>1. IsFiniteSet(S \cup {x}) /\ Cardinality(S \cup {x}) \in Nat
        /\ Cardinality(S \cup {x}) <= Cardinality(S) + 1
    BY <1>0, FS_AddElement, FS_CardinalityType
  <1> DEFINE T == S \cup {x}
  <1>2. Cardinality(T \cup {y}) \in Nat /\ Cardinality(T \cup {y}) <= Cardinality(T) + 1
    <2> HIDE DEF T
    <2>1. IsFiniteSet(T \cup {y}) /\ Cardinality(T) \in Nat
      BY <1>1, FS_AddElement DEF T
    <2>2. Cardinality(T \cup {y}) = IF y \in T THEN Cardinality(T) ELSE Cardinality(T) + 1
      BY <1>1, FS_AddElement DEF T
    <2> QED BY <2>1, <2>2
  <1>3. T \cup {y} = S \cup {x, y}
    OBVIOUS
  <1>4. x \in S => Cardinality(S \ {x}) \in Nat /\ Cardinality(S \ {x}) = Cardinality(S) - 1
    <2>1. IsFiniteSet(S \ {x})
      BY FS_RemoveElement
    <2>2. Cardinality(S \ {x}) \in Nat
      BY <2>1, FS_CardinalityType
    <2> QED BY <2>2, FS_RemoveElement
  <1>5. Cardinality(S \cup {x, y}) \in Nat /\ Cardinality(S \cup {x, y}) <= Cardinality(T) + 1
    BY <1>2, <1>3
  <1>6. Cardinality(S \cup {x, y}) <= Cardinality(S) + 2
    BY <1>0, <1>1, <1>5
  <1> QED BY <1>4, <1>5, <1>6

\* The steps of the programs.
LEMMA ProgressShrinks ==
    ASSUME SessionInv, NEW c \in Clients,
           \/ ProxyStep(c) \/ StreamStep(c) \/ ContextDone(c)
           \/ ProxyUpEnds(c) \/ ProxyDownEnds(c)
           \/ AgentUpEnds(c) \/ AgentDownEnds(c)
           \/ ssh[c] = "closing" /\ ClientCloses(c)
    PROVE  Left(c)' < Left(c) /\ Left(c)' <= Left(c)
  <1>t. RelayTypes /\ ProxySide(c) /\ AgentSide(c)
    BY DEF SessionInv
  <1>f. IsFiniteSet(copies[c]) /\ Cardinality(copies[c]) \in Nat
    BY <1>t, CopiesFinite
  <1>n. conn'[c] = conn[c]
    BY <1>t, SessionFrame DEF SessionStep
  <1>s. ssh'[c] \in {ssh[c], "closed"} \/ (ssh[c] = "open" /\ ssh'[c] = "closing")
    <2> USE <1>t DEF RelayTypes, Set, CloseChannel
    <2>1. CASE ProxyStep(c)
      BY <2>1 DEF ProxyStep, handleDirectTCPIP, OpenStream, GiveUp, WriteHeader,
                  WriteHeaderFails, RelayReturns
    <2>2. CASE ContextDone(c)
      BY <2>2 DEF ContextDone
    <2>3. CASE ClientCloses(c)
      BY <2>3 DEF ClientCloses
    <2>4. CASE ~ProxyStep(c) /\ ~ContextDone(c) /\ ~ClientCloses(c)
      BY <2>4 DEF StreamStep, DialVM, StreamRefused, relayBytes, ProxyUpEnds, ProxyDownEnds,
                  AgentUpEnds, AgentDownEnds
    <2> QED BY <2>1, <2>2, <2>3, <2>4
  <1>h. SshLeft(ssh'[c]) <= SshLeft(ssh[c])
    BY <1>s DEF SshLeft
  <1>1. CASE \/ handleDirectTCPIP(c) \/ OpenStream(c) \/ GiveUp(c)
             \/ WriteHeaderFails(c) \/ RelayReturns(c)
    <2>1. relay'[c] = relay[c] /\ copies'[c] = copies[c]
      BY <1>1 DEF handleDirectTCPIP, OpenStream, GiveUp,
                  WriteHeaderFails, RelayReturns
    <2>2. \/ /\ stream'[c] \in {stream[c], "closed"}
             /\ \/ chan[c] \in {"opened", "ticket", "header"} /\ chan'[c] = "done"
                \/ chan[c] = "opened" /\ chan'[c] = "ticket"
                \/ chan[c] = "relay" /\ chan'[c] = "drain"
                \/ chan[c] = "drain" /\ chan'[c] = "done"
          \/ chan[c] = "ticket" /\ chan'[c] = "header"
      BY <1>t, <1>1 DEF handleDirectTCPIP, OpenStream, GiveUp,
                  WriteHeaderFails, RelayReturns, RelayTypes, Set
    <2>3. \/ /\ ChanLeft(chan'[c]) < ChanLeft(chan[c])
             /\ StreamLeft(stream'[c]) <= StreamLeft(stream[c])
          \/ ChanLeft(chan'[c]) + 1 < ChanLeft(chan[c])
      BY <2>2, LeftTypes DEF ChanLeft, StreamLeft
    <2> QED BY <1>f, <1>n, <1>h, <2>1, <2>3, LeftTypes DEF Left
  <1>2. CASE WriteHeader(c)
    <2>1. chan[c] = "header" /\ chan'[c] = "relay" /\ relay'[c] = "header" /\ stream'[c] = stream[c]
      BY <1>t, <1>2 DEF WriteHeader, Set, RelayTypes
    <2>2. copies'[c] = copies[c] \cup {"proxy up", "proxy down"}
      BY <1>t, <1>2 DEF WriteHeader, RelayTypes
    <2>3. Cardinality(copies'[c]) \in Nat /\ Cardinality(copies'[c]) <= Cardinality(copies[c]) + 2
      BY <1>f, <2>2, CopiesCount
    <2>4. ChanLeft(chan[c]) = 18 /\ ChanLeft(chan'[c]) = 2 /\ AgentLeft(relay'[c]) = 10
      BY <2>1 DEF ChanLeft, AgentLeft
    <2> QED BY <1>f, <1>n, <1>h, <2>1, <2>3, <2>4, LeftTypes DEF Left
  <1>3. CASE DialVM(c)
    <2>1. chan'[c] = chan[c] /\ relay[c] = "header" /\ relay'[c] = "relay" /\ stream'[c] = stream[c]
      BY <1>t, <1>3 DEF DialVM, Set, RelayTypes
    <2>2. copies'[c] = copies[c] \cup {"agent up", "agent down"}
      BY <1>t, <1>3 DEF DialVM, RelayTypes
    <2>3. Cardinality(copies'[c]) \in Nat /\ Cardinality(copies'[c]) <= Cardinality(copies[c]) + 2
      BY <1>f, <2>2, CopiesCount
    <2>4. AgentLeft(relay[c]) = 10 /\ AgentLeft(relay'[c]) = 2
      BY <2>1 DEF AgentLeft
    <2> QED BY <1>f, <1>n, <1>h, <2>1, <2>3, <2>4, LeftTypes DEF Left
  <1>4. CASE StreamRefused(c) \/ relayBytes(c)
    <2>1. /\ chan'[c] = chan[c] /\ copies'[c] = copies[c] /\ stream'[c] \in {stream[c], "closed"}
          /\ \/ relay[c] \in {"header", "drain"} /\ relay'[c] = "done"
             \/ relay[c] = "relay" /\ relay'[c] = "drain"
      BY <1>t, <1>4 DEF StreamRefused, relayBytes, Set, RelayTypes
    <2>2. /\ AgentLeft(relay'[c]) < AgentLeft(relay[c])
          /\ StreamLeft(stream'[c]) <= StreamLeft(stream[c])
      BY <2>1 DEF AgentLeft, StreamLeft
    <2> QED BY <1>f, <1>n, <1>h, <2>1, <2>2, LeftTypes DEF Left
  <1>5. CASE ContextDone(c)
    <2>1. /\ chan'[c] = chan[c] /\ relay'[c] = relay[c] /\ copies'[c] = copies[c]
          /\ stream'[c] = "closed"
          /\ stream[c] = "open" \/ (ssh[c] = "open" /\ ssh'[c] = "closing")
      BY <1>t, <1>5 DEF ContextDone, CloseChannel, Set, RelayTypes
    <2>2. /\ StreamLeft(stream'[c]) <= StreamLeft(stream[c])
          /\ \/ StreamLeft(stream'[c]) < StreamLeft(stream[c])
             \/ SshLeft(ssh'[c]) < SshLeft(ssh[c])
      BY <2>1 DEF StreamLeft, SshLeft
    <2> QED BY <1>f, <1>n, <1>h, <2>1, <2>2, LeftTypes DEF Left
  <1>6. CASE \/ ProxyUpEnds(c) \/ ProxyDownEnds(c)
             \/ AgentUpEnds(c) \/ AgentDownEnds(c)
    <2>1. /\ chan'[c] = chan[c] /\ relay'[c] = relay[c] /\ stream'[c] \in {stream[c], "closed"}
          /\ \E x \in copies[c] : copies'[c] = copies[c] \ {x}
      BY <1>t, <1>6 DEF ProxyUpEnds, ProxyDownEnds, AgentUpEnds,
                        AgentDownEnds, Set, RelayTypes
    <2>2. PICK x \in copies[c] : copies'[c] = copies[c] \ {x}
      BY <2>1
    <2>3. Cardinality(copies'[c]) \in Nat /\ Cardinality(copies'[c]) = Cardinality(copies[c]) - 1
      BY <1>f, <2>2, CopiesCount
    <2>4. StreamLeft(stream'[c]) <= StreamLeft(stream[c])
      BY <2>1 DEF StreamLeft
    <2> QED BY <1>f, <1>n, <1>h, <2>1, <2>3, <2>4, LeftTypes DEF Left
  <1>7. CASE ssh[c] = "closing" /\ ClientCloses(c)
    <2>1. /\ chan'[c] = chan[c] /\ relay'[c] = relay[c] /\ copies'[c] = copies[c]
          /\ stream'[c] = stream[c] /\ ssh'[c] = "closed"
      BY <1>t, <1>7 DEF ClientCloses, Set, RelayTypes
    <2>2. SshLeft(ssh'[c]) < SshLeft(ssh[c])
      BY <1>7, <2>1 DEF SshLeft
    <2> QED BY <1>f, <1>n, <2>1, <2>2, LeftTypes DEF Left
  <1> QED BY <1>1, <1>2, <1>3, <1>4, <1>5, <1>6, <1>7 DEF ProxyStep, StreamStep

\* The steps of the client, the network, the VM and the deadline of a session.
LEMMA OthersShrink ==
    ASSUME SessionInv, NEW c \in Clients,
           \/ OpenChannel(c) \/ LinkDown(c) \/ ClientEOF(c) \/ ClientCloses(c)
           \/ StreamBreaks(c) \/ AgentCloses(c) \/ VMCloses(c)
    PROVE  Left(c)' <= Left(c)
  <1>t. RelayTypes
    BY DEF SessionInv
  <1>f. Cardinality(copies[c]) \in Nat
    BY <1>t, CopiesFinite
  <1>1. /\ conn'[c] = conn[c] /\ relay'[c] = relay[c] /\ copies'[c] = copies[c]
        /\ stream'[c] \in {stream[c], "closed"}
        /\ \/ chan'[c] = chan[c] /\ ssh'[c] \in {ssh[c], "eof", "closed"}
           \/ chan[c] = "none" /\ chan'[c] = "opened" /\ ssh'[c] = "open"
    <2> USE <1>t DEF serverVars, Set, RelayTypes
    <2>1. CASE OpenChannel(c) \/ LinkDown(c) \/ ClientEOF(c) \/ ClientCloses(c)
      BY <2>1 DEF OpenChannel, LinkDown, ClientEOF, ClientCloses
    <2>2. CASE StreamBreaks(c) \/ AgentCloses(c) \/ VMCloses(c)
      BY <2>2 DEF StreamBreaks, AgentCloses, VMCloses
    <2> QED BY <2>1, <2>2
  <1>2. /\ ChanLeft(chan'[c]) + SshLeft(ssh'[c]) <= ChanLeft(chan[c]) + SshLeft(ssh[c])
        /\ StreamLeft(stream'[c]) <= StreamLeft(stream[c])
    <2>1. StreamLeft(stream'[c]) <= StreamLeft(stream[c])
      BY <1>1 DEF StreamLeft
    <2>2. CASE chan'[c] = chan[c] /\ ssh'[c] \in {ssh[c], "eof", "closed"}
      BY <2>1, <2>2, LeftTypes DEF SshLeft
    <2>3. CASE chan[c] = "none" /\ chan'[c] = "opened" /\ ssh'[c] = "open"
      BY <2>1, <2>3, LeftTypes DEF ChanLeft
    <2> QED BY <1>1, <2>2, <2>3
  <1> QED BY <1>f, <1>1, <1>2, LeftTypes DEF Left

\* The steps of the server.
LEMMA ServerShrinks ==
    ASSUME SessionInv, ServingStep, NEW c \in Clients
    PROVE  /\ Left(c)' <= Left(c)
           /\ ConnReturns(c) => Left(c)' < Left(c)
  <1>t. RelayTypes
    BY DEF SessionInv
  <1>f. Cardinality(copies[c]) \in Nat
    BY <1>t, CopiesFinite
  <1>1. UNCHANGED <<chan, ssh, stream, relay, vm, copies>>
    BY <1>t, ServerFrame
  <1>2. \/ conn'[c] = conn[c]
        \/ conn[c] = "new" /\ conn'[c] \in {"handshake", "dropped"}
        \/ conn[c] = "handshake" /\ conn'[c] = "serving"
        \/ conn[c] \in {"handshake", "serving"} /\ conn'[c] = "returned"
    BY <1>t DEF ServingStep, Stop, ServeReturns, AcceptConn, Handshake,
                ConnReturns, InFlight, Set, RelayTypes
  <1>3. ConnLeft(conn'[c]) <= ConnLeft(conn[c])
    BY <1>2, LeftTypes DEF ConnLeft
  <1>4. ConnReturns(c) => ConnLeft(conn'[c]) < ConnLeft(conn[c])
    BY <1>t DEF ConnReturns, InFlight, Set, RelayTypes, ConnLeft
  <1> QED BY <1>f, <1>1, <1>3, <1>4, LeftTypes DEF Left

\* A channel that was never opened has nothing to tear down.
LEMMA NothingBefore ==
    ASSUME SessionInv, NEW c \in Clients, chan[c] = "none"
    PROVE  Down(c)
  <1>1. RelayTypes /\ ProxySide(c) /\ AgentSide(c)
    BY DEF SessionInv
  <1>2. relay[c] = "none" /\ copies[c] \cap Proxy = {} /\ copies[c] \cap Agent = {}
    BY <1>1 DEF ProxySide, AgentSide
  <1>3. copies[c] \subseteq Proxy \cup Agent
    BY <1>1 DEF RelayTypes, Copies, Proxy, Agent
  <1> QED BY <1>2, <1>3 DEF Down, Handling

\* What ended is not reopened while something of the session is left.
LEMMA OverKept ==
    ASSUME SessionInv, NEW c \in Clients, SessionStep(c), Over(c), ~Down(c)
    PROVE  Over(c)' \/ Down(c)'
  <1>t. RelayTypes /\ ProxySide(c) /\ AgentSide(c)
    BY DEF SessionInv
  <1>s. stop' = stop /\ RelayTypes'
    BY <1>t, SessionFrame
  <1> DEFINE Ends == /\ ssh[c] \in {"eof", "closed"} => ssh'[c] \in {"eof", "closed"}
                     /\ stream[c] = "closed" => stream'[c] = "closed"
                     /\ vm[c] = "closed" => vm'[c] = "closed"
                     /\ chan'[c] = "done" => chan[c] = "done" \/ ssh'[c] = "closed"
                     /\ chan[c] # "none" => chan'[c] # "none"
  <1> USE <1>t DEF RelayTypes, Set
  <1>1. CASE \/ ClientEOF(c) \/ ClientCloses(c) \/ LinkDown(c) \/ StreamBreaks(c)
             \/ ContextDone(c)
    <2>1. Ends
      BY <1>1 DEF ClientEOF, ClientCloses, LinkDown, StreamBreaks, ContextDone, CloseChannel
    <2> QED BY <1>s, <2>1 DEF Over, Handling
  <1>2. CASE ProxyStep(c)
    <2>1. ASSUME handleDirectTCPIP(c) \/ OpenStream(c) \/ GiveUp(c) PROVE Ends
      BY <2>1 DEF handleDirectTCPIP, OpenStream, GiveUp, ProxySide
    <2>2. ASSUME WriteHeader(c) PROVE Ends
      BY <2>2 DEF WriteHeader, ProxySide
    <2>3. ASSUME WriteHeaderFails(c) PROVE Ends
      BY <2>3 DEF WriteHeaderFails, ProxySide
    <2>4. ASSUME RelayReturns(c) PROVE Ends
      BY <2>4 DEF RelayReturns, ProxySide, CloseChannel
    <2>5. Ends
      BY <1>2, <2>1, <2>2, <2>3, <2>4 DEF ProxyStep
    <2> QED BY <1>s, <2>5 DEF Over, Handling
  <1>3. CASE StreamStep(c) \/ AgentCloses(c) \/ VMCloses(c)
    <2>1. Ends
      BY <1>3 DEF StreamStep, DialVM, StreamRefused, relayBytes,
                  AgentCloses, VMCloses, AgentSide
    <2> QED BY <1>s, <2>1 DEF Over, Handling
  <1>4. CASE \/ ProxyUpEnds(c) \/ ProxyDownEnds(c)
             \/ AgentUpEnds(c) \/ AgentDownEnds(c)
    <2>1. Ends
      BY <1>4 DEF ProxyUpEnds, ProxyDownEnds, AgentUpEnds, AgentDownEnds
    <2> QED BY <1>s, <2>1 DEF Over, Handling
  <1>5. ~OpenChannel(c)
    BY NothingBefore DEF OpenChannel
  <1> QED BY <1>1, <1>2, <1>3, <1>4, <1>5 DEF SessionStep

\* Each session takes at most 26 steps of the programs, and with NeverStuck
\* they bring it down: what RelayTornDown adds is that goroutines run.
THEOREM TeardownSound == RelaySpec => TeardownAdvances
  <1>1. SessionInv /\ [RelayNext]_sshVars => [\A c \in Clients : Winds(c)]_sshVars
    <2> SUFFICES ASSUME SessionInv, RelayNext, NEW c \in Clients PROVE Winds(c)
      OBVIOUS
    <2>t. RelayTypes
      BY DEF SessionInv
    <2>1. CASE SessionStep(c)
      <3>1. Left(c)' <= Left(c)
        BY <2>1, ProgressShrinks, OthersShrink DEF SessionStep
      <3>2. Progress(c) => Left(c)' < Left(c)
        <4>1. ~ConnReturns(c)
          <5>1. conn' = conn
            BY <2>t, <2>1, SessionFrame
          <5> QED BY <2>t, <5>1 DEF ConnReturns, InFlight, Set, RelayTypes
        <4> QED BY <4>1, ProgressShrinks DEF Progress, Works, Answers
      <3> QED BY <2>1, <3>1, <3>2, OverKept DEF Winds
    <2>2. CASE ServingStep
      <3>1. UNCHANGED <<chan, ssh, stream, relay, vm, copies>>
        BY <2>t, <2>2, ServerFrame
      <3>2. stop => stop'
        BY <2>2 DEF ServingStep, Stop, ServeReturns, AcceptConn,
                    Handshake, ConnReturns
      <3>3. Over(c) => Over(c)'
        BY <3>1, <3>2 DEF Over, Handling
      <3>4. Progress(c) => Left(c)' < Left(c)
        BY <2>2, ServerShrinks, ProgressShrinks DEF Progress, Works, Answers
      <3> QED BY <2>2, <3>3, <3>4, ServerShrinks DEF Winds
    <2>3. ASSUME NEW d \in Clients, d # c, SessionStep(d) PROVE Winds(c)
      <3>1. OnlyOf(d) /\ UNCHANGED <<stop, serve, slots, conn>> /\ RelayTypes'
        BY <2>t, <2>3, SessionFrame
      <3>2. /\ chan'[c] = chan[c] /\ ssh'[c] = ssh[c] /\ stream'[c] = stream[c]
            /\ relay'[c] = relay[c] /\ vm'[c] = vm[c] /\ copies'[c] = copies[c]
        BY <2>3, <3>1 DEF OnlyOf
      <3>3. Over(c)' = Over(c) /\ Left(c)' = Left(c)
        BY <3>1, <3>2 DEF Over, Handling, Left
      <3>4. Left(c) \in Int
        BY <2>t, CopiesFinite, LeftTypes DEF Left
      <3>5. Progress(c) => Left(c)' < Left(c)
        <4>1. ~ConnReturns(c)
          BY <2>t, <3>1 DEF ConnReturns, InFlight, Set, RelayTypes
        <4> QED BY <4>1, ProgressShrinks DEF Progress, Works, Answers
      <3> QED BY <3>3, <3>4, <3>5 DEF Winds
    <2> QED BY <2>1, <2>2, <2>3, RelaySteps
  <1> QED BY <1>1, SessionHolds, PTL DEF RelaySpec, TeardownAdvances
=============================================================================
