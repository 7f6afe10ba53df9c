------------------------- MODULE AgentStreamProofs -------------------------
(* Proofs about AgentStream, for any sessions and senders and any buffer.   *)
EXTENDS AgentStream, TLAPS

-----------------------------------------------------------------------------
(* Type correctness *)

\* What a channel may hold.
Buffer == {q \in Seq(Senders) : Len(q) <= BufferSize}

LEMMA TakeType ==
    ASSUME TypeOK, NEW s \in Streams, TakeMessage(s)
    PROVE  /\ Head(channel[s]) \in Senders
           /\ channel' = [channel EXCEPT ![s] = Tail(channel[s])]
           /\ Tail(channel[s]) \in Buffer
           /\ Len(Tail(channel[s])) = Len(channel[s]) - 1
           /\ \A k \in 1..Len(Tail(channel[s])) : Tail(channel[s])[k] = channel[s][k + 1]
           /\ Len(channel[s]) \in Nat \ {0} /\ Head(channel[s]) = channel[s][1]
  <1>1. channel[s] \in Seq(Senders) /\ channel[s] # <<>> /\ Len(channel[s]) <= BufferSize
    BY DEF TypeOK, TakeMessage
  <1>2. /\ Head(channel[s]) \in Senders /\ Tail(channel[s]) \in Seq(Senders)
        /\ Len(Tail(channel[s])) = Len(channel[s]) - 1
        /\ \A k \in 1..Len(Tail(channel[s])) : Tail(channel[s])[k] = channel[s][k + 1]
        /\ Len(channel[s]) \in Nat \ {0} /\ Head(channel[s]) = channel[s][1]
    BY <1>1
  <1> QED BY <1>1, <1>2, StreamAssumption DEF TakeMessage, Buffer

LEMMA EnqueueType ==
    ASSUME TypeOK, NEW x \in Senders, target[x] \in Streams, Enqueue(x)
    PROVE  /\ channel' = [channel EXCEPT ![target[x]] = Append(channel[target[x]], x)]
           /\ Append(channel[target[x]], x) \in Buffer
           /\ Len(channel[target[x]]) \in Nat
           /\ Len(Append(channel[target[x]], x)) = Len(channel[target[x]]) + 1
           /\ \A k \in 1..Len(channel[target[x]]) :
                 Append(channel[target[x]], x)[k] = channel[target[x]][k]
           /\ Append(channel[target[x]], x)[Len(channel[target[x]]) + 1] = x
  <1>1. channel[target[x]] \in Seq(Senders) /\ Len(channel[target[x]]) < BufferSize
    BY DEF TypeOK, Enqueue
  <1> QED BY <1>1, StreamAssumption DEF Enqueue, Buffer

\* A sender past its lookup has a session in hand, and a loop in the middle of
\* stream.Send has a message.
InHand ==
    /\ \A x \in Senders : send[x] \in {"select", "accepted"} => target[x] \in Streams
    /\ \A s \in Streams : loop[s] = "sending" => taken[s] \in Senders

TypeInv == TypeOK /\ InHand

LEMMA TypeStep ==
    ASSUME TypeInv, [Next]_vars
    PROVE  TypeInv'
  <1> USE DEF TypeInv, InHand
  <1>1. ASSUME NEW s \in Streams, TakeMessage(s) PROVE TypeInv'
    <2>1. Tail(channel[s]) \in Seq(Senders) /\ Len(Tail(channel[s])) <= BufferSize
      BY <1>1, TakeType DEF Buffer
    <2>2. channel' \in [Streams -> Seq(Senders)] /\ \A r \in Streams : Len(channel'[r]) <= BufferSize
      BY <1>1, <2>1, TakeType, ZenonT(40) DEF TypeOK
    <2> QED BY <1>1, <2>2, TakeType DEF TypeOK, TakeMessage
  <1>2. ASSUME NEW x \in Senders, Enqueue(x) PROVE TypeInv'
    <2>1. target[x] \in Streams
      BY <1>2 DEF Enqueue
    <2>2. /\ Append(channel[target[x]], x) \in Seq(Senders)
          /\ Len(Append(channel[target[x]], x)) <= BufferSize
      BY <1>2, <2>1, EnqueueType DEF Buffer
    <2>3. channel' \in [Streams -> Seq(Senders)] /\ \A r \in Streams : Len(channel'[r]) <= BufferSize
      <3> DEFINE q == Append(channel[target[x]], x)
      <3>1. channel' = [channel EXCEPT ![target[x]] = q] /\ q \in Seq(Senders) /\ Len(q) <= BufferSize
        BY <1>2, <2>1, <2>2, EnqueueType
      <3> HIDE DEF q
      <3> QED BY <2>1, <3>1 DEF TypeOK
    <2> QED BY <1>2, <2>1, <2>3 DEF TypeOK, Enqueue
  <1>3. ASSUME NEW s \in Streams, Register(s) PROVE TypeInv'
    BY <1>3 DEF Register, TypeOK
  <1>4. ASSUME NEW s \in Streams, Break(s) \/ ReceiveLoopReturns(s) \/ Cleanup(s) PROVE TypeInv'
    BY <1>4 DEF Break, ReceiveLoopReturns, Cleanup, TypeOK
  <1>5. ASSUME NEW s \in Streams, SendMessage(s) \/ LoopReturns(s) PROVE TypeInv'
    BY <1>5 DEF SendMessage, LoopReturns, TypeOK
  <1>6. ASSUME NEW x \in Senders, Lookup(x) \/ Panic(x) \/ TimeOut(x) PROVE TypeInv'
    <2>1. CASE Lookup(x)
      BY <2>1 DEF Lookup, TypeOK
    <2>2. CASE Panic(x)
      BY <2>2 DEF Panic, TypeOK
    <2>3. CASE TimeOut(x)
      <3>1. send' = [send EXCEPT ![x] = "refused"]
            /\ UNCHANGED <<stream, loop, taken, broken, channel, closed, entry, latest, target, delivered>>
        BY <2>3 DEF TimeOut
      <3> QED BY <3>1 DEF TypeOK
    <2> QED BY <1>6, <2>1, <2>2, <2>3
  <1>7. CASE UNCHANGED vars
    BY <1>7 DEF vars, TypeOK
  <1> QED BY <1>1, <1>2, <1>3, <1>4, <1>5, <1>6, <1>7 DEF Next, HandlerStep, LoopStep, SendStep

LEMMA TypeInit == Init => TypeInv
  BY StreamAssumption DEF Init, TypeInv, TypeOK, InHand

\* Handlers, loops, channels and callers keep their types, and no channel
\* exceeds its buffer.
THEOREM StreamTypeCorrect == Spec => []TypeOK
  <1>1. TypeInv => TypeOK
    BY DEF TypeInv
  <1> QED BY <1>1, TypeInit, TypeStep, PTL DEF Spec

-----------------------------------------------------------------------------
(* The registry entry *)

\* However late the handlers of earlier sessions clean up, the session that
\* registered last is the one Send reaches as long as it is served.
THEOREM LatestSound == Spec => []LatestIsReachable
  <1>1. Init => LatestIsReachable
    BY DEF Init, LatestIsReachable
  <1>2. TypeInv /\ LatestIsReachable /\ [Next]_vars => LatestIsReachable'
    <2> SUFFICES ASSUME TypeOK, LatestIsReachable, [Next]_vars PROVE LatestIsReachable'
      BY DEF TypeInv
    <2> USE StreamAssumption DEF TypeOK, LatestIsReachable
    <2>1. ASSUME NEW s \in Streams, Register(s) PROVE LatestIsReachable'
      BY <2>1 DEF Register
    <2>2. ASSUME NEW s \in Streams, ReceiveLoopReturns(s) \/ Cleanup(s) PROVE LatestIsReachable'
      BY <2>2 DEF ReceiveLoopReturns, Cleanup
    <2>3. CASE UNCHANGED <<stream, entry, latest>>
      BY <2>3
    <2>4. \/ \E s \in Streams : Register(s) \/ ReceiveLoopReturns(s) \/ Cleanup(s)
          \/ UNCHANGED <<stream, entry, latest>>
      BY DEF Next, HandlerStep, LoopStep, SendStep, Break, TakeMessage, SendMessage,
         LoopReturns, Lookup, Enqueue, Panic, TimeOut, vars
    <2> QED BY <2>1, <2>2, <2>3, <2>4
  <1> QED BY <1>1, <1>2, TypeInit, TypeStep, PTL DEF Spec

-----------------------------------------------------------------------------
(* Messages *)

InChannel(x, s, k) == k \in 1..Len(channel[s]) /\ channel[s][k] = x

\* A message is in one place of one channel, or in the hands of one loop, or
\* delivered; wherever it is, its Send was accepted by that session.
Queued(x) ==
    \A s \in Streams, k \in Nat : InChannel(x, s, k) =>
        /\ send[x] = "accepted" /\ target[x] = s
        /\ x \notin delivered /\ taken[s] # x
        /\ \A l \in Nat : InChannel(x, s, l) => l = k

Sending(x) ==
    \A s \in Streams : taken[s] = x =>
        send[x] = "accepted" /\ target[x] = s /\ x \notin delivered

MessageInv ==
    /\ TypeInv
    /\ \A x \in Senders : Queued(x) /\ Sending(x) /\ (x \in delivered => send[x] = "accepted")

\* The loop takes the first message: it is then in no channel any more.
LEMMA TakeKeeps ==
    ASSUME MessageInv, NEW s \in Streams, TakeMessage(s), NEW x \in Senders
    PROVE  Queued(x)' /\ Sending(x)'
  <1> DEFINE h == Head(channel[s])
  <1>1. TypeOK /\ Queued(x) /\ Sending(x) /\ Queued(h) /\ h \in Senders
    BY TakeType DEF MessageInv, TypeInv
  <1>2. /\ taken' = [taken EXCEPT ![s] = h] /\ UNCHANGED <<send, target, delivered>>
        /\ channel' = [channel EXCEPT ![s] = Tail(channel[s])]
    BY DEF TakeMessage
  <1>3. InChannel(h, s, 1)
    BY <1>1, TakeType DEF InChannel
  <1>4. \A r \in Streams, k \in Nat : InChannel(x, r, k)' =>
            IF r = s THEN InChannel(x, r, k + 1) ELSE InChannel(x, r, k)
    <2> SUFFICES ASSUME NEW r \in Streams, NEW k \in Nat, InChannel(x, r, k)'
                 PROVE  IF r = s THEN InChannel(x, r, k + 1) ELSE InChannel(x, r, k)
      OBVIOUS
    <2>1. CASE r = s
      <3>1. channel'[s] = Tail(channel[s])
        BY <1>1, <1>2 DEF TypeOK
      <3> QED BY <1>1, <2>1, <3>1, TakeType DEF InChannel
    <2>2. CASE r # s
      BY <1>1, <1>2, <2>2 DEF InChannel, TypeOK
    <2> QED BY <2>1, <2>2
  <1>5. taken'[s] = h /\ \A r \in Streams : r # s => taken'[r] = taken[r]
    BY <1>1, <1>2 DEF TypeOK
  <1> HIDE DEF h
  <1>6. Queued(x)'
    <2> SUFFICES ASSUME NEW r \in Streams, NEW k \in Nat, InChannel(x, r, k)'
                 PROVE  /\ send[x] = "accepted" /\ target[x] = r
                        /\ x \notin delivered /\ taken'[r] # x
                        /\ \A l \in Nat : InChannel(x, r, l)' => l = k
      BY <1>2 DEF Queued
    <2>1. CASE r = s
      <3>1. InChannel(x, s, k + 1) /\ k + 1 \in Nat /\ k \in 1..Len(channel'[s])
        BY <1>4, <2>1 DEF InChannel
      <3>2. x # h
        BY <1>1, <1>3, <3>1 DEF Queued
      <3>3. \A l \in Nat : InChannel(x, s, l)' => l = k
        <4> SUFFICES ASSUME NEW l \in Nat, InChannel(x, s, l)' PROVE l = k
          OBVIOUS
        <4>1. InChannel(x, s, l + 1)
          BY <1>4
        <4>2. l + 1 = k + 1
          BY <1>1, <3>1, <4>1 DEF Queued
        <4> QED BY <4>2
      <3>4. send[x] = "accepted" /\ target[x] = s /\ x \notin delivered
        BY <1>1, <3>1 DEF Queued
      <3> QED BY <1>5, <2>1, <3>2, <3>3, <3>4
    <2>2. CASE r # s
      <3>1. InChannel(x, r, k) /\ \A l \in Nat : InChannel(x, r, l)' => InChannel(x, r, l)
        BY <1>4, <2>2
      <3> QED BY <1>1, <1>5, <2>2, <3>1 DEF Queued
    <2> QED BY <2>1, <2>2
  <1>7. Sending(x)'
    BY <1>1, <1>2, <1>3, <1>5 DEF Sending, Queued
  <1> QED BY <1>6, <1>7

\* Send puts a message in the channel it looked up, once.
LEMMA EnqueueKeeps ==
    ASSUME MessageInv, NEW y \in Senders, Enqueue(y), NEW x \in Senders
    PROVE  Queued(x)' /\ Sending(x)'
  <1> DEFINE s == target[y]
  <1>1. TypeOK /\ Queued(x) /\ Sending(x) /\ s \in Streams /\ send[y] = "select"
    BY DEF MessageInv, TypeInv, InHand, Enqueue
  <1>2. /\ send' = [send EXCEPT ![y] = "accepted"] /\ UNCHANGED <<taken, target, delivered>>
        /\ channel' = [channel EXCEPT ![s] = Append(channel[s], y)]
    BY DEF Enqueue
  <1>3. \A r \in Streams, k \in Nat : InChannel(x, r, k)' =>
            InChannel(x, r, k) \/ (x = y /\ r = s /\ k = Len(channel[s]) + 1)
    <2> SUFFICES ASSUME NEW r \in Streams, NEW k \in Nat, InChannel(x, r, k)'
                 PROVE  InChannel(x, r, k) \/ (x = y /\ r = s /\ k = Len(channel[s]) + 1)
      OBVIOUS
    <2>1. CASE r = s
      <3>1. channel'[s] = Append(channel[s], y)
        BY <1>1, <1>2 DEF TypeOK
      <3> QED BY <1>1, <2>1, <3>1, EnqueueType DEF InChannel
    <2>2. CASE r # s
      BY <1>1, <1>2, <2>2 DEF InChannel, TypeOK
    <2> QED BY <2>1, <2>2
  <1> HIDE DEF s
  <1>4. CASE x = y
    <2>1. \A r \in Streams, k \in Nat : ~InChannel(x, r, k)
      BY <1>1, <1>4 DEF Queued
    <2>2. x \notin delivered /\ \A r \in Streams : taken[r] # x
      BY <1>1, <1>4 DEF MessageInv, Sending
    <2>3. send'[x] = "accepted" /\ target[x] = s
      BY <1>1, <1>2, <1>4 DEF TypeOK, s
    <2> QED BY <1>2, <1>3, <2>1, <2>2, <2>3 DEF Queued, Sending
  <1>5. CASE x # y
    <2>1. send'[x] = send[x]
      BY <1>1, <1>2, <1>5 DEF TypeOK
    <2>2. \A r \in Streams, k \in Nat : InChannel(x, r, k)' => InChannel(x, r, k)
      BY <1>3, <1>5
    <2> QED BY <1>1, <1>2, <2>1, <2>2 DEF Queued, Sending
  <1> QED BY <1>4, <1>5

LEMMA MessageStep ==
    ASSUME MessageInv, [Next]_vars
    PROVE  MessageInv'
  <1>1. TypeInv' /\ TypeInv
    BY TypeStep DEF MessageInv
  <1> SUFFICES ASSUME NEW x \in Senders
               PROVE  (Queued(x) /\ Sending(x) /\ (x \in delivered => send[x] = "accepted"))'
    BY <1>1 DEF MessageInv
  <1>2. Queued(x) /\ Sending(x) /\ (x \in delivered => send[x] = "accepted")
    BY DEF MessageInv
  <1>3. ASSUME NEW s \in Streams, TakeMessage(s)
        PROVE  (Queued(x) /\ Sending(x) /\ (x \in delivered => send[x] = "accepted"))'
    BY <1>2, <1>3, TakeKeeps DEF TakeMessage
  <1>4. ASSUME NEW y \in Senders, Enqueue(y)
        PROVE  (Queued(x) /\ Sending(x) /\ (x \in delivered => send[x] = "accepted"))'
    BY <1>1, <1>2, <1>4, EnqueueKeeps DEF Enqueue, TypeInv, TypeOK
  <1>5. ASSUME NEW s \in Streams, SendMessage(s)
        PROVE  (Queued(x) /\ Sending(x) /\ (x \in delivered => send[x] = "accepted"))'
    <2>1. taken[s] \in Senders /\ taken' = [taken EXCEPT ![s] = None] /\ UNCHANGED <<channel, send, target>>
      BY <1>1, <1>5 DEF SendMessage, TypeInv, InHand
    <2>2. delivered' = delivered \/ delivered' = delivered \cup {taken[s]}
      BY <1>5 DEF SendMessage
    <2>3. \A r \in Streams : taken'[r] = IF r = s THEN None ELSE taken[r]
      BY <1>1, <2>1 DEF TypeInv, TypeOK
    <2>4. CASE x = taken[s]
      <3>1. send[x] = "accepted" /\ target[x] = s
        BY <1>2, <2>4 DEF Sending
      <3>2. \A r \in Streams, k \in Nat : ~InChannel(x, r, k)
        BY <1>2, <2>4, <3>1 DEF Queued
      <3>3. \A r \in Streams : taken'[r] # x
        BY <1>2, <2>3, <2>4, <3>1, StreamAssumption DEF Sending
      <3> QED BY <2>1, <3>1, <3>2, <3>3 DEF Queued, Sending, InChannel
    <2>5. CASE x # taken[s]
      <3>1. x \in delivered' => x \in delivered
        BY <2>2, <2>5
      <3>2. \A r \in Streams : taken'[r] = x => taken[r] = x
        BY <2>3, StreamAssumption
      <3> QED BY <1>2, <2>1, <3>1, <3>2 DEF Queued, Sending, InChannel
    <2> QED BY <2>4, <2>5
  <1>6. ASSUME NEW y \in Senders, Lookup(y) \/ Panic(y) \/ TimeOut(y)
        PROVE  (Queued(x) /\ Sending(x) /\ (x \in delivered => send[x] = "accepted"))'
    <2>1. UNCHANGED <<channel, taken, delivered>> /\ send[y] # "accepted"
      BY <1>6 DEF Lookup, Panic, TimeOut
    <2>2. x # y => send'[x] = send[x] /\ target'[x] = target[x]
      BY <1>1, <1>6 DEF Lookup, Panic, TimeOut, TypeInv, TypeOK
    <2> QED BY <1>2, <2>1, <2>2 DEF Queued, Sending, InChannel
  <1>7. CASE UNCHANGED <<channel, taken, delivered, send, target>>
    BY <1>2, <1>7 DEF Queued, Sending, InChannel
  <1>8. ASSUME NEW s \in Streams,
               Register(s) \/ Break(s) \/ ReceiveLoopReturns(s) \/ Cleanup(s) \/ LoopReturns(s)
        PROVE  UNCHANGED <<channel, taken, delivered, send, target>>
    BY <1>8 DEF Register, Break, ReceiveLoopReturns, Cleanup, LoopReturns
  <1>9. UNCHANGED vars => UNCHANGED <<channel, taken, delivered, send, target>>
    BY DEF vars
  <1> QED BY <1>3, <1>4, <1>5, <1>6, <1>7, <1>8, <1>9 DEF Next, HandlerStep, LoopStep, SendStep

\* What the agent got was accepted, and nothing that waits in a channel was
\* delivered already, for any number of sessions and senders.
THEOREM DeliverySound == Spec => []DeliveredOnce
  <1>1. Init => MessageInv
    <2> SUFFICES ASSUME Init PROVE MessageInv
      OBVIOUS
    <2>1. \A x \in Senders, s \in Streams, k \in Nat : ~InChannel(x, s, k)
      BY DEF Init, InChannel
    <2>2. \A s \in Streams : taken[s] \notin Senders
      BY StreamAssumption DEF Init
    <2> QED BY <2>1, <2>2, TypeInit DEF Init, MessageInv, Queued, Sending
  <1>2. MessageInv => DeliveredOnce
    <2> SUFFICES ASSUME MessageInv, NEW x \in Senders, NEW s \in Streams,
                        NEW k \in 1..Len(channel[s]), channel[s][k] = x
                 PROVE  x \notin delivered /\ s = target[x]
      BY DEF DeliveredOnce, MessageInv
    <2>1. InChannel(x, s, k) /\ k \in Nat
      BY DEF InChannel
    <2> QED BY <2>1 DEF MessageInv, Queued
  <1> QED BY <1>1, <1>2, MessageStep, PTL DEF Spec

-----------------------------------------------------------------------------
(* Nothing accepted is dropped *)

\* A loop starts once, with its handler, and holds a message only in Send.
LoopInv ==
    \A s \in Streams :
        /\ stream[s] = "idle" => loop[s] = "off"
        /\ loop[s] # "sending" => taken[s] = None

\* Where a message is that a Send accepted: delivered, on its way in the
\* session its Send chose, or lost with the send loop of that session.
Accounted(x) ==
    send[x] = "accepted" =>
        \/ x \in delivered
        \/ loop[target[x]] = "exited"
        \/ taken[target[x]] = x
        \/ \E k \in Nat : InChannel(x, target[x], k)

\* Send answered "accepted": the message is with the agent, or in the channel
\* or the hand of a loop that still sends, or its loop has returned.  No
\* takeover of the node's entry, no closing of the channel and no other
\* session can drop it.
NothingDropped == \A x \in Senders : Accounted(x)

LEMMA LoopStepKeeps ==
    ASSUME TypeOK, LoopInv, [Next]_vars
    PROVE  LoopInv'
  <1>1. ASSUME NEW s \in Streams, Register(s) \/ TakeMessage(s) \/ SendMessage(s) \/ LoopReturns(s)
        PROVE  LoopInv'
    BY <1>1 DEF Register, TakeMessage, SendMessage, LoopReturns, LoopInv, TypeOK
  <1>2. ASSUME NEW s \in Streams, ReceiveLoopReturns(s) \/ Cleanup(s)
        PROVE  LoopInv'
    BY <1>2 DEF ReceiveLoopReturns, Cleanup, LoopInv, TypeOK
  <1>3. \/ \E s \in Streams : \/ Register(s) \/ TakeMessage(s) \/ SendMessage(s) \/ LoopReturns(s)
                              \/ ReceiveLoopReturns(s) \/ Cleanup(s)
        \/ UNCHANGED <<stream, loop, taken>>
    BY DEF Next, HandlerStep, LoopStep, SendStep, Break, Lookup, Enqueue, Panic, TimeOut, vars
  <1> QED BY <1>1, <1>2, <1>3 DEF LoopInv

\* The first message of a channel comes to the hand of its loop, every other
\* one moves up by one.
LEMMA TakeAccounts ==
    ASSUME TypeInv, LoopInv, NEW s \in Streams, TakeMessage(s), NEW x \in Senders, Accounted(x)
    PROVE  Accounted(x)'
  <1>0. TypeOK /\ InHand /\ loop[s] = "select" /\ taken[s] = None
    BY DEF TypeInv, TakeMessage, LoopInv
  <1>1. /\ loop' = [loop EXCEPT ![s] = "sending"]
        /\ taken' = [taken EXCEPT ![s] = Head(channel[s])]
        /\ UNCHANGED <<send, target, delivered>>
    BY DEF TakeMessage
  <1> SUFFICES ASSUME send[x] = "accepted"
               PROVE  Accounted(x)'
    BY <1>1 DEF Accounted
  <1>2. target[x] \in Streams
    BY <1>0 DEF InHand
  <1>3. CASE x \in delivered
    BY <1>1, <1>3 DEF Accounted
  <1>4. CASE loop[target[x]] = "exited"
    BY <1>0, <1>1, <1>2, <1>4 DEF Accounted, TypeOK
  <1>5. CASE taken[target[x]] = x
    <2>1. target[x] # s
      BY <1>0, <1>5, StreamAssumption
    <2> QED BY <1>0, <1>1, <1>2, <1>5, <2>1 DEF Accounted, TypeOK
  <1>6. ASSUME NEW k \in Nat, InChannel(x, target[x], k) PROVE Accounted(x)'
    <2>1. CASE target[x] # s
      <3>1. channel'[target[x]] = channel[target[x]]
        BY <1>0, <1>2, <2>1, TakeType DEF TypeOK
      <3> QED BY <1>1, <1>6, <3>1 DEF Accounted, InChannel
    <2>2. CASE target[x] = s /\ k = 1
      <3>1. taken'[s] = x
        BY <1>0, <1>1, <1>6, <2>2, TakeType DEF InChannel, TypeOK
      <3> QED BY <1>1, <2>2, <3>1 DEF Accounted
    <2>3. CASE target[x] = s /\ k # 1
      <3>1. channel'[s] = Tail(channel[s])
        BY <1>0, TakeType DEF TypeOK
      <3>2. /\ Len(Tail(channel[s])) = Len(channel[s]) - 1 /\ Len(channel[s]) \in Nat \ {0}
            /\ \A m \in 1..Len(Tail(channel[s])) : Tail(channel[s])[m] = channel[s][m + 1]
        BY <1>0, TakeType
      <3>3. k \in 1..Len(channel[s]) /\ channel[s][k] = x
        BY <1>6, <2>3 DEF InChannel
      <3>4. k - 1 \in Nat /\ k - 1 \in 1..Len(Tail(channel[s])) /\ (k - 1) + 1 = k
        BY <2>3, <3>2, <3>3
      <3>5. Tail(channel[s])[k - 1] = x
        BY <3>2, <3>3, <3>4
      <3>6. InChannel(x, s, k - 1)'
        BY <3>1, <3>4, <3>5 DEF InChannel
      <3> QED BY <1>1, <2>3, <3>4, <3>6 DEF Accounted
    <2> QED BY <2>1, <2>2, <2>3
  <1> QED BY <1>3, <1>4, <1>5, <1>6 DEF Accounted

\* An accepted message is at the end of the channel of its session.
LEMMA EnqueueAccounts ==
    ASSUME TypeInv, NEW y \in Senders, Enqueue(y), NEW x \in Senders, Accounted(x)
    PROVE  Accounted(x)'
  <1>0. TypeOK /\ InHand /\ target[y] \in Streams
    BY DEF TypeInv, InHand, Enqueue
  <1>1. /\ send' = [send EXCEPT ![y] = "accepted"]
        /\ UNCHANGED <<loop, taken, target, delivered>>
    BY DEF Enqueue
  <1>2. /\ channel'[target[y]] = Append(channel[target[y]], y)
        /\ \A s \in Streams : s # target[y] => channel'[s] = channel[s]
    BY <1>0, EnqueueType DEF TypeOK
  <1>3. \A s \in Streams, k \in Nat : InChannel(x, s, k) => InChannel(x, s, k)'
    <2> SUFFICES ASSUME NEW s \in Streams, NEW k \in Nat, InChannel(x, s, k)
                 PROVE  InChannel(x, s, k)'
      OBVIOUS
    <2>1. CASE s = target[y]
      BY <1>0, <1>2, <2>1, EnqueueType DEF InChannel
    <2>2. CASE s # target[y]
      BY <1>2, <2>2 DEF InChannel
    <2> QED BY <2>1, <2>2
  <1>4. CASE x = y
    <2>1. PICK k \in Nat : k = Len(channel[target[y]]) + 1
      BY <1>0, EnqueueType
    <2>2. InChannel(y, target[y], k)'
      BY <1>0, <1>1, <1>2, <2>1, EnqueueType DEF InChannel
    <2> QED BY <1>1, <1>4, <2>2 DEF Accounted, InChannel
  <1>5. CASE x # y
    <2>1. send'[x] = send[x] /\ (send[x] = "accepted" => target[x] \in Streams)
      BY <1>0, <1>1, <1>5 DEF TypeOK, InHand
    <2> QED BY <1>1, <1>3, <2>1 DEF Accounted, InChannel
  <1> QED BY <1>4, <1>5

\* NothingDropped, for any sessions, senders and buffer.
THEOREM NothingDroppedSound == Spec => []NothingDropped
  <1>1. Init => LoopInv /\ NothingDropped
    BY DEF Init, LoopInv, NothingDropped, Accounted
  <1>2. TypeInv /\ LoopInv /\ NothingDropped /\ [Next]_vars => LoopInv' /\ NothingDropped'
    <2> SUFFICES ASSUME TypeInv, LoopInv, NothingDropped, [Next]_vars
                 PROVE  LoopInv' /\ NothingDropped'
      OBVIOUS
    <2>a. LoopInv'
      BY LoopStepKeeps DEF TypeInv
    <2> SUFFICES ASSUME NEW x \in Senders PROVE Accounted(x)'
      BY <2>a DEF NothingDropped
    <2>0. TypeOK /\ InHand /\ Accounted(x)
      BY DEF TypeInv, NothingDropped
    <2>1. ASSUME NEW s \in Streams, TakeMessage(s) PROVE Accounted(x)'
      BY <2>0, <2>1, TakeAccounts
    <2>2. ASSUME NEW y \in Senders, Enqueue(y) PROVE Accounted(x)'
      BY <2>0, <2>2, EnqueueAccounts
    <2>3. ASSUME NEW s \in Streams, SendMessage(s) PROVE Accounted(x)'
      <3>1. /\ UNCHANGED <<channel, send, target>> /\ loop[s] = "sending"
            /\ taken' = [taken EXCEPT ![s] = None]
            /\ \/ delivered' = delivered \cup {taken[s]} /\ loop' = [loop EXCEPT ![s] = "select"]
               \/ delivered' = delivered /\ loop' = [loop EXCEPT ![s] = "exited"]
        BY <2>3 DEF SendMessage
      <3>2. send[x] = "accepted" => target[x] \in Streams
        BY <2>0 DEF InHand
      <3>3. CASE send[x] = "accepted" /\ taken[target[x]] = x /\ target[x] = s
        BY <2>0, <3>1, <3>2, <3>3 DEF Accounted, TypeOK
      <3>4. CASE send[x] = "accepted" /\ ~(taken[target[x]] = x /\ target[x] = s)
        BY <2>0, <3>1, <3>2, <3>4 DEF Accounted, InChannel, TypeOK
      <3> QED BY <2>0, <3>1, <3>3, <3>4 DEF Accounted
    <2>4. ASSUME NEW s \in Streams, Register(s) \/ LoopReturns(s) PROVE Accounted(x)'
      <3>1. UNCHANGED <<channel, taken, delivered, send, target>>
        BY <2>4 DEF Register, LoopReturns
      <3>2. \A r \in Streams : loop[r] = "exited" => loop'[r] = "exited"
        BY <2>0, <2>4 DEF Register, LoopReturns, LoopInv, TypeOK
      <3>3. send[x] = "accepted" => target[x] \in Streams
        BY <2>0 DEF InHand
      <3> QED BY <2>0, <3>1, <3>2, <3>3 DEF Accounted, InChannel
    <2>5. ASSUME NEW y \in Senders, Lookup(y) \/ Panic(y) \/ TimeOut(y) PROVE Accounted(x)'
      <3>1. UNCHANGED <<channel, taken, delivered, loop>> /\ send[y] # "accepted"
        BY <2>5 DEF Lookup, Panic, TimeOut
      <3>2. send'[x] = "accepted" => send[x] = "accepted" /\ target'[x] = target[x]
        BY <2>0, <2>5 DEF Lookup, Panic, TimeOut, TypeOK
      <3> QED BY <2>0, <3>1, <3>2 DEF Accounted, InChannel
    <2>6. CASE UNCHANGED <<channel, taken, delivered, loop, send, target>>
      BY <2>0, <2>6 DEF Accounted, InChannel
    <2>7. ASSUME NEW s \in Streams, Break(s) \/ ReceiveLoopReturns(s) \/ Cleanup(s)
          PROVE  Accounted(x)'
      BY <2>6, <2>7 DEF Break, ReceiveLoopReturns, Cleanup
    <2>8. UNCHANGED vars => Accounted(x)'
      BY <2>6 DEF vars
    <2> QED BY <2>0, <2>1, <2>2, <2>3, <2>4, <2>5, <2>7, <2>8
            DEF Next, HandlerStep, LoopStep, SendStep
  <1> QED BY <1>1, <1>2, TypeInit, TypeStep, PTL DEF Spec
=============================================================================
