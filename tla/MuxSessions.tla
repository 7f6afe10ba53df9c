----------------------------- MODULE MuxSessions -----------------------------
(***************************************************************************)
(* The SSH data plane's sessions: each compute-agent keeps one yamux       *)
(* session open to ssh-proxy (muxclient.Run); ssh-proxy authenticates a    *)
(* connection (muxserver.handleConn), registers it in place of the node's  *)
(* previous session and watches its health (muxregistry).  Every dial is a *)
(* connection of its own; a connection is an entry of the registry, too.   *)
(* Durations are left out: a timer may fire whenever it is armed.          *)
(***************************************************************************)
EXTENDS Naturals

CONSTANTS
    Nodes,
    Conns,     \* connections that can be dialled, each once, lowest first
    NodeOf,    \* the node whose agent dials a connection
    NoConn

ASSUME MuxAssumption ==
    /\ Conns \subseteq Nat /\ NoConn \notin Conns
    /\ NodeOf \in [Conns -> Nodes]

VARIABLES
    agent,      \* per node: where muxclient.Run is
    current,    \* per node: the connection Run works with
    agentOpen,  \* connections open at the agent's end
    proxyOpen,  \* connections open at ssh-proxy's end
    handler,    \* per connection: where handleConn and its Register are
    prev,       \* per connection: the entry its Register replaced
    sessions,   \* Registry.sessions
    closed,     \* Registry.closed
    cancelled,  \* entries whose context is done
    watch,      \* per connection: where its watchHealth is
    closer,     \* where Registry.Close is
    toStop,     \* entries Close has yet to stop
    toAwait     \* entries Close has yet to wait for

agentVars == <<agent, current>>
registryVars == <<prev, sessions, closed, cancelled, watch>>
closeVars == <<closer, toStop, toAwait>>
vars == <<agentVars, agentOpen, proxyOpen, handler, registryVars, closeVars>>

ConnOrNone == Conns \cup {NoConn}

TypeOK ==
    /\ agent \in [Nodes -> {"dial", "auth", "attached", "backoff", "stopped"}]
    /\ current \in [Nodes -> ConnOrNone]
    /\ agentOpen \subseteq Conns /\ proxyOpen \subseteq Conns
    /\ handler \in [Conns -> {"idle", "handshake", "verified", "stopPrev", "waitPrev",
                              "start", "done"}]
    /\ prev \in [Conns -> ConnOrNone]
    /\ sessions \in [Nodes -> ConnOrNone]
    /\ closed \in BOOLEAN
    /\ cancelled \subseteq Conns
    /\ watch \in [Conns -> {"off", "tick", "ping", "dead", "removed", "report", "exited"}]
    /\ closer \in {"idle", "closing", "returned"}
    /\ toStop \subseteq toAwait /\ toAwait \subseteq Conns

Init ==
    /\ agent = [n \in Nodes |-> "dial"]
    /\ current = [n \in Nodes |-> NoConn]
    /\ agentOpen = {} /\ proxyOpen = {}
    /\ handler = [c \in Conns |-> "idle"]
    /\ prev = [c \in Conns |-> NoConn]
    /\ sessions = [n \in Nodes |-> NoConn]
    /\ closed = FALSE
    /\ cancelled = {}
    /\ watch = [c \in Conns |-> "off"]
    /\ closer = "idle" /\ toStop = {} /\ toAwait = {}

-----------------------------------------------------------------------------
(* muxclient.Run, on the compute node *)

Unused(n) == {c \in Conns : NodeOf[c] = n /\ handler[c] = "idle"}

\* TCP connects; ssh-proxy accepts and starts handleConn.
Dial(n, c) ==
    /\ agent[n] = "dial" /\ c \in Unused(n) /\ \A d \in Unused(n) : c <= d
    /\ closer # "returned"
    /\ agent' = [agent EXCEPT ![n] = "auth"]
    /\ current' = [current EXCEPT ![n] = c]
    /\ agentOpen' = agentOpen \cup {c} /\ proxyOpen' = proxyOpen \cup {c}
    /\ handler' = [handler EXCEPT ![c] = "handshake"]
    /\ UNCHANGED <<registryVars, closeVars>>

\* The auth header is written and the yamux client is up; ssh-proxy may not
\* have looked at the header yet.
Attach(n) ==
    /\ agent[n] = "auth"
    /\ agent' = [agent EXCEPT ![n] = "attached"]
    /\ UNCHANGED <<current, agentOpen, proxyOpen, handler, registryVars, closeVars>>

\* The dial, the TLS handshake or the header failed.
ConnectFails(n) ==
    /\ agent[n] \in {"dial", "auth"}
    /\ agent' = [agent EXCEPT ![n] = "backoff"]
    /\ agentOpen' = agentOpen \ {current[n]}
    /\ current' = [current EXCEPT ![n] = NoConn]
    /\ UNCHANGED <<proxyOpen, handler, registryVars, closeVars>>

\* sleep(jitter(backoff)) is over.
BackoffEnds(n) ==
    /\ agent[n] = "backoff"
    /\ agent' = [agent EXCEPT ![n] = "dial"]
    /\ UNCHANGED <<current, agentOpen, proxyOpen, handler, registryVars, closeVars>>

\* <-sess.CloseChan(): the loop dials again at once.
SessionEnds(n) ==
    /\ agent[n] = "attached" /\ current[n] \notin agentOpen
    /\ agent' = [agent EXCEPT ![n] = "dial"]
    /\ current' = [current EXCEPT ![n] = NoConn]
    /\ UNCHANGED <<agentOpen, proxyOpen, handler, registryVars, closeVars>>

\* The agent's context is cancelled: the session is closed and Run returns.
AgentStops(n) ==
    /\ agent[n] # "stopped"
    /\ agent' = [agent EXCEPT ![n] = "stopped"]
    /\ agentOpen' = agentOpen \ {current[n]}
    /\ current' = [current EXCEPT ![n] = NoConn]
    /\ UNCHANGED <<proxyOpen, handler, registryVars, closeVars>>

-----------------------------------------------------------------------------
(* The connection between the two ends *)

\* yamux's keepalive fails at one end, which closes.
LinkFails(c) ==
    /\ c \in agentOpen /\ c \in proxyOpen
    /\ \/ agentOpen' = agentOpen \ {c} /\ UNCHANGED proxyOpen
       \/ proxyOpen' = proxyOpen \ {c} /\ UNCHANGED agentOpen
    /\ UNCHANGED <<agentVars, handler, registryVars, closeVars>>

\* The agent's end learns that the other one is closed.
AgentNotices(c) ==
    /\ c \in agentOpen /\ c \notin proxyOpen
    /\ agentOpen' = agentOpen \ {c}
    /\ UNCHANGED <<agentVars, proxyOpen, handler, registryVars, closeVars>>

\* ssh-proxy's session learns that the other end is closed.
ProxyNotices(c) ==
    /\ c \in proxyOpen /\ c \notin agentOpen /\ handler[c] # "handshake"
    /\ proxyOpen' = proxyOpen \ {c}
    /\ UNCHANGED <<agentVars, agentOpen, handler, registryVars, closeVars>>

-----------------------------------------------------------------------------
(* muxserver.handleConn and Registry.Register *)

\* TLS, the auth header, Verify and yamux.Server succeed.
Verified(c) ==
    /\ handler[c] = "handshake"
    /\ handler' = [handler EXCEPT ![c] = "verified"]
    /\ UNCHANGED <<agentVars, agentOpen, proxyOpen, registryVars, closeVars>>

\* One of them fails, or the handshake deadline passes: the connection is closed.
HandshakeFails(c) ==
    /\ handler[c] = "handshake"
    /\ handler' = [handler EXCEPT ![c] = "done"]
    /\ proxyOpen' = proxyOpen \ {c}
    /\ UNCHANGED <<agentVars, agentOpen, registryVars, closeVars>>

\* The critical section of Register: take the node's entry, unless the
\* registry is closed, in which case the session is closed.
Register(c) ==
    LET old == sessions[NodeOf[c]] IN
    /\ handler[c] = "verified"
    /\ \/ /\ closed
          /\ handler' = [handler EXCEPT ![c] = "done"]
          /\ proxyOpen' = proxyOpen \ {c}
          /\ UNCHANGED <<prev, sessions>>
       \/ /\ ~closed
          /\ prev' = [prev EXCEPT ![c] = old]
          /\ sessions' = [sessions EXCEPT ![NodeOf[c]] = c]
          /\ handler' = [handler EXCEPT ![c] = IF old = NoConn THEN "start" ELSE "stopPrev"]
          /\ UNCHANGED proxyOpen
    /\ UNCHANGED <<agentVars, agentOpen, closed, cancelled, watch, closeVars>>

\* The predecessor's checker is stopped and its session is left open.
StopPrev_CancelOnly(c) ==
    /\ handler[c] = "stopPrev"
    /\ cancelled' = cancelled \cup {prev[c]}
    /\ handler' = [handler EXCEPT ![c] = "waitPrev"]
    /\ UNCHANGED <<agentVars, agentOpen, proxyOpen, prev, sessions, closed, watch, closeVars>>

\* prev.cancel(), prev.sess.Close()
StopPrev(c) ==
    /\ handler[c] = "stopPrev"
    /\ cancelled' = cancelled \cup {prev[c]}
    /\ proxyOpen' = proxyOpen \ {prev[c]}
    /\ handler' = [handler EXCEPT ![c] = "waitPrev"]
    /\ UNCHANGED <<agentVars, agentOpen, prev, sessions, closed, watch, closeVars>>

\* The new checker is started without waiting for the old one.
PrevDone_NoWait(c) ==
    /\ handler[c] = "waitPrev"
    /\ handler' = [handler EXCEPT ![c] = "start"]
    /\ UNCHANGED <<agentVars, agentOpen, proxyOpen, registryVars, closeVars>>

\* <-prev.done
PrevDone(c) ==
    /\ handler[c] = "waitPrev" /\ watch[prev[c]] = "exited"
    /\ handler' = [handler EXCEPT ![c] = "start"]
    /\ UNCHANGED <<agentVars, agentOpen, proxyOpen, registryVars, closeVars>>

\* go watchHealth; Register returns, and handleConn closes prev, which is
\* closed already, and returns.
StartWatch(c) ==
    /\ handler[c] = "start"
    /\ handler' = [handler EXCEPT ![c] = "done"]
    /\ watch' = [watch EXCEPT ![c] = "tick"]
    /\ UNCHANGED <<agentVars, agentOpen, proxyOpen, prev, sessions, closed, cancelled, closeVars>>

-----------------------------------------------------------------------------
(* watchHealth and handleDeath *)

\* A step of the checker of c that only moves it on.
WatchMoves(c, from, to) ==
    /\ watch[c] = from
    /\ watch' = [watch EXCEPT ![c] = to]
    /\ UNCHANGED <<agentVars, agentOpen, proxyOpen, handler, prev, sessions, closed, cancelled, closeVars>>

\* <-ctx.Done(), while waiting for the ticker or for the answer to a ping.
WatchCancelled(c) ==
    /\ c \in cancelled
    /\ \E at \in {"tick", "ping"} : WatchMoves(c, at, "exited")

\* The ticker fires: a closed session is dead, another one is pinged.
Tick(c) == WatchMoves(c, "tick", IF c \in proxyOpen THEN "ping" ELSE "dead")

\* The ping is answered.
PingOk(c) ==
    /\ c \in proxyOpen /\ c \in agentOpen
    /\ WatchMoves(c, "ping", "tick")

\* The ping fails, or PingTimeout passes before its answer.
PingFails(c) == WatchMoves(c, "ping", "dead")

\* Deleting the node's entry whoever holds it.
handleDeath_Anyone(c) ==
    /\ watch[c] = "dead"
    /\ sessions' = [sessions EXCEPT ![NodeOf[c]] = NoConn]
    /\ watch' = [watch EXCEPT ![c] = "removed"]
    /\ UNCHANGED <<agentVars, agentOpen, proxyOpen, handler, prev, closed, cancelled, closeVars>>

\* Closing the dead session without deleting its entry.
handleDeath_EntryKept(c) ==
    /\ watch[c] = "dead"
    /\ watch' = [watch EXCEPT ![c] = "removed"]
    /\ UNCHANGED <<agentVars, agentOpen, proxyOpen, handler, prev, sessions, closed, cancelled, closeVars>>

\* handleDeath deletes the entry if it is still its own.
handleDeath(c) ==
    /\ watch[c] = "dead"
    /\ sessions' = [n \in Nodes |-> IF sessions[n] = c THEN NoConn ELSE sessions[n]]
    /\ watch' = [watch EXCEPT ![c] = "removed"]
    /\ UNCHANGED <<agentVars, agentOpen, proxyOpen, handler, prev, closed, cancelled, closeVars>>

\* Leaving the session open once its entry is gone.
CloseDead_LeftOpen(c) == WatchMoves(c, "removed", "report")

\* ... closes the session ...
CloseDead(c) ==
    /\ watch[c] = "removed"
    /\ proxyOpen' = proxyOpen \ {c}
    /\ watch' = [watch EXCEPT ![c] = "report"]
    /\ UNCHANGED <<agentVars, agentOpen, handler, prev, sessions, closed, cancelled, closeVars>>

\* Returning from handleDeath without close(e.done).
Reported_NotDone(c) == WatchMoves(c, "report", "off")

\* ... and ReportDegraded returns, within its 5 seconds; close(e.done).
Reported(c) == WatchMoves(c, "report", "exited")

-----------------------------------------------------------------------------
(* Registry.Close, at ssh-proxy's shutdown *)

Close ==
    /\ closer = "idle"
    /\ closer' = "closing"
    /\ closed' = TRUE
    /\ toStop' = {sessions[n] : n \in Nodes} \ {NoConn}
    /\ toAwait' = toStop'
    /\ sessions' = [n \in Nodes |-> NoConn]
    /\ UNCHANGED <<agentVars, agentOpen, proxyOpen, handler, prev, cancelled, watch>>

\* e.cancel(), e.sess.Close()
CloseStop(c) ==
    /\ c \in toStop
    /\ toStop' = toStop \ {c}
    /\ cancelled' = cancelled \cup {c}
    /\ proxyOpen' = proxyOpen \ {c}
    /\ UNCHANGED <<agentVars, agentOpen, handler, prev, sessions, closed, watch, closer, toAwait>>

\* <-e.done
CloseAwait(c) ==
    /\ toStop = {} /\ c \in toAwait /\ watch[c] = "exited"
    /\ toAwait' = toAwait \ {c}
    /\ UNCHANGED <<agentVars, agentOpen, proxyOpen, handler, registryVars, closer, toStop>>

\* Close returns without waiting for the checkers.
CloseReturns_NoWait ==
    /\ closer = "closing" /\ toStop = {}
    /\ closer' = "returned"
    /\ UNCHANGED <<agentVars, agentOpen, proxyOpen, handler, registryVars, toStop, toAwait>>

CloseReturns ==
    /\ closer = "closing" /\ toAwait = {}
    /\ closer' = "returned"
    /\ UNCHANGED <<agentVars, agentOpen, proxyOpen, handler, registryVars, toStop, toAwait>>

-----------------------------------------------------------------------------
AgentStep(n) ==
    (\E c \in Conns : Dial(n, c)) \/ Attach(n) \/ BackoffEnds(n) \/ SessionEnds(n)

HandlerStep(c) ==
    Verified(c) \/ HandshakeFails(c) \/ Register(c) \/ StopPrev(c) \/ PrevDone(c) \/ StartWatch(c)

WatchStep(c) ==
    \/ WatchCancelled(c) \/ Tick(c) \/ PingOk(c) \/ PingFails(c)
    \/ handleDeath(c) \/ CloseDead(c) \/ Reported(c)

CloseStep == CloseReturns \/ \E c \in Conns : CloseStop(c) \/ CloseAwait(c)

\* Every agent stopped and ssh-proxy is shut down.
Quiet ==
    /\ \A n \in Nodes : agent[n] = "stopped"
    /\ \A c \in Conns : handler[c] \in {"idle", "done"} /\ watch[c] \in {"off", "exited"}
    /\ \A c \in Conns : c \in agentOpen <=> c \in proxyOpen
    /\ closer = "returned"

Next ==
    \/ \E n \in Nodes : AgentStep(n) \/ ConnectFails(n) \/ AgentStops(n)
    \/ \E c \in Conns : LinkFails(c) \/ AgentNotices(c) \/ ProxyNotices(c)
    \/ \E c \in Conns : HandlerStep(c) \/ WatchStep(c)
    \/ Close \/ CloseStep
    \/ Quiet /\ UNCHANGED vars

Spec == Init /\ [][Next]_vars

\* Goroutines run, timers fire, the handshake and ReportDegraded have
\* deadlines, and yamux notices a closed peer; nothing has to fail, to stop
\* or to be shut down.
FairSpec ==
    /\ Spec
    /\ \A n \in Nodes : WF_vars(AgentStep(n))
    /\ \A c \in Conns : /\ WF_vars(HandlerStep(c)) /\ WF_vars(WatchStep(c))
                        /\ WF_vars(AgentNotices(c)) /\ WF_vars(ProxyNotices(c))
    /\ WF_vars(CloseStep)

-----------------------------------------------------------------------------
(* What the registry promises *)

\* Register accepted c.
Registered(c) == handler[c] \in {"stopPrev", "waitPrev", "start"} \/ watch[c] # "off"

\* Some goroutine is about to close the session of c.
BeingClosed(c) ==
    \/ \E d \in Conns : handler[d] = "stopPrev" /\ prev[d] = c
    \/ watch[c] = "removed"
    \/ c \in toStop

\* Ghost session prevention: a registered session that is open is the one its
\* node is reached by, or a goroutine is about to close it.
NoGhostSession ==
    \A c \in Conns : Registered(c) /\ c \in proxyOpen =>
        sessions[NodeOf[c]] = c \/ BeingClosed(c)

\* Register waits for the old health checker: the sessions of one node are
\* never pinged by two checkers at a time.
OneHealthChecker ==
    \A c, d \in Conns : NodeOf[c] = NodeOf[d]
                        /\ watch[c] \in {"tick", "ping"} /\ watch[d] \in {"tick", "ping"} => c = d

\* Once Close returned, no checker pings, no Register is under way, and no
\* registered session is open but one that its own checker is closing.
ShutdownIsComplete ==
    closer = "returned" =>
        /\ \A n \in Nodes : sessions[n] = NoConn
        /\ \A c \in Conns : Registered(c) =>
              /\ watch[c] \in {"removed", "report", "exited"}
              /\ c \in proxyOpen => watch[c] = "removed"

\* A node loses its entry only when the checker of that very session found it
\* dead, or in Close: the late death of a superseded session does no harm.
OnlyOwnDeathForgets ==
    [][\A n \in Nodes : sessions[n] # NoConn /\ sessions'[n] = NoConn =>
            watch[sessions[n]] = "dead" \/ closed']_vars

\* A dead session does not stay in the registry: watchHealth notices and
\* removes it.  (A connection is used once and dies once, so what holds in the
\* end is what becomes of each.)
DeadIsForgotten == <>[](\A n \in Nodes : sessions[n] \in proxyOpen \cup {NoConn})

\* Nobody waits for ever for a health checker: every Register and Close returns.
WaitsEnd ==
    <>[](/\ \A c \in Conns : handler[c] \in {"idle", "done"}
         /\ closer # "closing")

\* Whatever order superseded connections are verified in, the two ends agree
\* in the end: an agent that is attached by an open session is reached by it.
EndsAgree ==
    <>[](\A n \in Nodes : agent[n] = "attached" /\ current[n] \in agentOpen /\ ~closed =>
            sessions[n] = current[n])
=============================================================================
