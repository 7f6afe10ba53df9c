----------------------------- MODULE AgentStream -----------------------------
(***************************************************************************)
(* main-api's side of the agent streams of one node: the Stream handlers   *)
(* of successive (and, while a dead one is noticed, overlapping) sessions, *)
(* their send loops, the AgentRegistry entry of the node, and the          *)
(* goroutines that call Send.  Registry entries are keyed by node, so one  *)
(* node is enough.                                                         *)
(***************************************************************************)
EXTENDS Naturals, Sequences

CONSTANTS
    Streams,     \* sessions the agent opens, each once
    Senders,     \* goroutines that call Send once; also the message they send
    None,
    BufferSize   \* capacity of a stream's send channel

ASSUME StreamAssumption ==
    /\ None \notin Streams /\ None \notin Senders
    /\ BufferSize \in Nat \ {0}

VARIABLES
    stream,     \* per session: where its Stream handler is
    loop,       \* per session: where its sendLoop is
    taken,      \* per session: the message sendLoop is sending
    broken,     \* sessions whose context is done
    channel,    \* per session: contents of sendCh
    closed,     \* sessions whose sendCh was closed
    entry,      \* AgentRegistry.nodes[nodeID]
    latest,     \* the session that registered last
    send,       \* per sender: where its Send is
    target,     \* per sender: the entry it looked up
    delivered   \* messages the agent's stream took

vars == <<stream, loop, taken, broken, channel, closed, entry, latest, send, target, delivered>>

TypeOK ==
    /\ stream \in [Streams -> {"idle", "serving", "ending", "gone"}]
    /\ loop \in [Streams -> {"off", "select", "sending", "exited"}]
    /\ taken \in [Streams -> Senders \cup {None}]
    /\ broken \subseteq Streams /\ closed \subseteq Streams
    /\ channel \in [Streams -> Seq(Senders)]
    /\ \A s \in Streams : Len(channel[s]) <= BufferSize
    /\ entry \in Streams \cup {None} /\ latest \in Streams \cup {None}
    /\ send \in [Senders -> {"idle", "select", "accepted", "refused", "panicked"}]
    /\ target \in [Senders -> Streams \cup {None}]
    /\ delivered \subseteq Senders

Init ==
    /\ stream = [s \in Streams |-> "idle"]
    /\ loop = [s \in Streams |-> "off"]
    /\ taken = [s \in Streams |-> None]
    /\ broken = {} /\ closed = {}
    /\ channel = [s \in Streams |-> <<>>]
    /\ entry = None /\ latest = None
    /\ send = [x \in Senders |-> "idle"]
    /\ target = [x \in Senders |-> None]
    /\ delivered = {}

-----------------------------------------------------------------------------
(* Stream: the handler of one session *)

\* Register takes over the node's entry; the send loop starts.
Register(s) ==
    /\ stream[s] = "idle"
    /\ stream' = [stream EXCEPT ![s] = "serving"]
    /\ loop' = [loop EXCEPT ![s] = "select"]
    /\ entry' = s /\ latest' = s
    /\ UNCHANGED <<taken, broken, channel, closed, send, target, delivered>>

\* The transport fails or the agent goes away: the session's context is done.
Break(s) ==
    /\ stream[s] \in {"serving", "ending"} /\ s \notin broken
    /\ broken' = broken \cup {s}
    /\ UNCHANGED <<stream, loop, taken, channel, closed, entry, latest, send, target, delivered>>

\* receiveLoop returned (EOF, cancellation or an error): close(sendCh), and
\* wait for the send loop.
ReceiveLoopReturns(s) ==
    /\ stream[s] = "serving"
    /\ stream' = [stream EXCEPT ![s] = "ending"]
    /\ closed' = closed \cup {s}
    /\ UNCHANGED <<loop, taken, broken, channel, entry, latest, send, target, delivered>>

\* Deleting the node's entry whoever registered it.
Cleanup_Anyone(s) ==
    /\ stream[s] = "ending" /\ loop[s] = "exited"
    /\ stream' = [stream EXCEPT ![s] = "gone"]
    /\ entry' = None
    /\ UNCHANGED <<loop, taken, broken, channel, closed, latest, send, target, delivered>>

\* The send loop returned; the deferred cleanup drops the entry if it is ours.
Cleanup(s) ==
    /\ stream[s] = "ending" /\ loop[s] = "exited"
    /\ stream' = [stream EXCEPT ![s] = "gone"]
    /\ entry' = IF entry = s THEN None ELSE entry
    /\ UNCHANGED <<loop, taken, broken, channel, closed, latest, send, target, delivered>>

-----------------------------------------------------------------------------
(* sendLoop *)

\* A message is sent before it is taken off the channel.
TakeMessage_Kept(s) ==
    /\ loop[s] = "select" /\ channel[s] # <<>>
    /\ taken' = [taken EXCEPT ![s] = Head(channel[s])]
    /\ loop' = [loop EXCEPT ![s] = "sending"]
    /\ UNCHANGED <<stream, broken, channel, closed, entry, latest, send, target, delivered>>

\* msg := <-sendCh
TakeMessage(s) ==
    /\ loop[s] = "select" /\ channel[s] # <<>>
    /\ taken' = [taken EXCEPT ![s] = Head(channel[s])]
    /\ channel' = [channel EXCEPT ![s] = Tail(@)]
    /\ loop' = [loop EXCEPT ![s] = "sending"]
    /\ UNCHANGED <<stream, broken, closed, entry, latest, send, target, delivered>>

\* stream.Send succeeds, or fails and ends the loop (for ever).
SendMessage(s) ==
    /\ loop[s] = "sending"
    /\ \/ /\ s \notin broken
          /\ delivered' = delivered \cup {taken[s]}
          /\ loop' = [loop EXCEPT ![s] = "select"]
       \/ UNCHANGED delivered /\ loop' = [loop EXCEPT ![s] = "exited"]
    /\ taken' = [taken EXCEPT ![s] = None]
    /\ UNCHANGED <<stream, broken, channel, closed, entry, latest, send, target>>

\* The context is done, or the channel is closed and drained.
LoopReturns(s) ==
    /\ loop[s] = "select"
    /\ s \in broken \/ (s \in closed /\ channel[s] = <<>>)
    /\ loop' = [loop EXCEPT ![s] = "exited"]
    /\ UNCHANGED <<stream, taken, broken, channel, closed, entry, latest, send, target, delivered>>

-----------------------------------------------------------------------------
(* AgentRegistry.Send *)

\* The entry is read under the lock and used after it.
Lookup(x) ==
    /\ send[x] = "idle"
    /\ target' = [target EXCEPT ![x] = entry]
    /\ send' = [send EXCEPT ![x] = IF entry = None THEN "refused" ELSE "select"]
    /\ UNCHANGED <<stream, loop, taken, broken, channel, closed, entry, latest, delivered>>

Enqueue(x) ==
    LET s == target[x] IN
    /\ send[x] = "select" /\ s \notin closed /\ Len(channel[s]) < BufferSize
    /\ channel' = [channel EXCEPT ![s] = Append(@, x)]
    /\ send' = [send EXCEPT ![x] = "accepted"]
    /\ UNCHANGED <<stream, loop, taken, broken, closed, entry, latest, target, delivered>>

\* A send on a closed channel, blocked in select or new, panics.
Panic(x) ==
    /\ send[x] = "select" /\ target[x] \in closed
    /\ send' = [send EXCEPT ![x] = "panicked"]
    /\ UNCHANGED <<stream, loop, taken, broken, channel, closed, entry, latest, target, delivered>>

\* Waiting for room without a timer.
TimeOut_Never(x) ==
    /\ send[x] = "select" /\ FALSE
    /\ UNCHANGED vars

\* agentSendTimeout passes while the channel has no room.
TimeOut(x) ==
    /\ send[x] = "select"
    /\ target[x] \in closed \/ Len(channel[target[x]]) = BufferSize
    /\ send' = [send EXCEPT ![x] = "refused"]
    /\ UNCHANGED <<stream, loop, taken, broken, channel, closed, entry, latest, target, delivered>>

-----------------------------------------------------------------------------
(* Specification *)

HandlerStep(s) == ReceiveLoopReturns(s) \/ Cleanup(s)
LoopStep(s) == TakeMessage(s) \/ SendMessage(s) \/ LoopReturns(s)
SendStep(x) == Enqueue(x) \/ Panic(x) \/ TimeOut(x)

\* Every session came and went and every Send returned.
Quiet ==
    /\ \A s \in Streams : stream[s] = "gone"
    /\ \A x \in Senders : send[x] \notin {"idle", "select"}

Next ==
    \/ \E s \in Streams : Register(s) \/ Break(s) \/ HandlerStep(s) \/ LoopStep(s)
    \/ \E x \in Senders : Lookup(x) \/ SendStep(x)
    \/ Quiet /\ UNCHANGED vars

Spec == Init /\ [][Next]_vars

\* Goroutines run, stream.Send returns, timers fire, and Recv returns once the
\* session's context is done; a healthy session may last for ever.
FairSpec ==
    /\ Spec
    /\ \A s \in Streams : /\ WF_vars(s \in broken /\ ReceiveLoopReturns(s))
                          /\ WF_vars(Cleanup(s)) /\ WF_vars(LoopStep(s))
    /\ \A x \in Senders : WF_vars(SendStep(x))

-----------------------------------------------------------------------------
(* Properties *)

\* "If an existing entry exists it is replaced": the session that registered
\* last is the one Send reaches as long as it is served, however late the
\* handlers of the sessions before it clean up.
LatestIsReachable ==
    latest # None /\ stream[latest] = "serving" => entry = latest

\* A caller of Send gets an answer even if the send loop died on an error and
\* nothing drains the channel any more.
SendReturns == \A x \in Senders : send[x] = "select" ~> send[x] # "select"

\* What the agent got was accepted from a caller, and no message is both in a
\* channel and already delivered: nothing is sent twice across sessions.
DeliveredOnce ==
    \A x \in Senders :
        /\ x \in delivered => send[x] = "accepted"
        /\ \A s \in Streams : \A k \in 1..Len(channel[s]) :
              channel[s][k] = x => x \notin delivered /\ s = target[x]
=============================================================================
