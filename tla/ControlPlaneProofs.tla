------------------------- MODULE ControlPlaneProofs -------------------------
(* Proofs about ControlPlane, for every number of nodes, slots, instances   *)
(* and goroutines.                                                          *)
EXTENDS ControlPlane, TLAPS

-----------------------------------------------------------------------------
(* Type correctness *)

\* A command (Registry.Send to the agent) leaves an agent's state typed.
LEMMA TellIsAgent ==
    ASSUME NEW a \in Agent, NEW x \in Commands
    PROVE  Tell(a, x) \in Agent
  BY DEF Agent, Tell

\* So does every report the agent can send (mapInstanceState's states).
LEMMA ReportType ==
    ASSUME NEW a \in Agent, NEW to \in Reports
    PROVE  AfterReport(a, to) \in Agent
  <1>0. CASE to = "provisioning"
    <2>1. AfterReport(a, to) =
             [a EXCEPT !.made = to, !.gone = IF @ = "stopping" THEN "nothing" ELSE @]
      BY <1>0 DEF AfterReport
    <2> QED BY <1>0, <2>1 DEF Agent
  <1>1. CASE to = "running"
    <2>1. AfterReport(a, to) = [a EXCEPT !.made = to]
      BY <1>1 DEF AfterReport
    <2> QED BY <1>1, <2>1 DEF Agent
  <1>2. CASE to = "stopping"
    <2>1. AfterReport(a, to) =
             [a EXCEPT !.gone = to, !.made = IF @ = "provisioning" THEN "running" ELSE @]
      BY <1>2 DEF AfterReport
    <2> QED BY <1>2, <2>1 DEF Agent
  <1>3. CASE to = "failed" /\ a.gone # "stopping"
    <2>1. AfterReport(a, to) = [a EXCEPT !.made = to]
      BY <1>3 DEF AfterReport
    <2> QED BY <1>3, <2>1 DEF Agent
  <1>4. CASE to = "stopped" \/ (to = "failed" /\ a.gone = "stopping")
    <2>1. AfterReport(a, to) = [a EXCEPT !.gone = to]
      BY <1>4 DEF AfterReport
    <2> QED BY <1>4, <2>1 DEF Agent
  <1> QED BY <1>0, <1>1, <1>2, <1>3, <1>4 DEF Reports, States

\* Continue and AfterRelease name places a goroutine can be at.
LEMMA NextLabels ==
    ASSUME NEW p \in Procs
    PROVE  /\ \A outcome : Continue(p, outcome) \in {"idle", "send", "release", "next"}
           /\ AfterRelease(p) \in {"read", "remove", "idle", "next"}
  BY DEF Continue, AfterRelease

\* Moving a goroutine keeps the goroutine variables well typed.
LEMMA GotoType ==
    ASSUME TypeOK, NEW p \in Procs, NEW label \in Labels, NEW j \in Job, Goto(p, label, j)
    PROVE  /\ pc' \in [Procs -> Labels]
           /\ job' \in [Procs -> Job]
           /\ cancelled' \subseteq Procs
  BY DEF TypeOK, Goto, Job, NoJob, RowStates

\* A database call moves the fault budget within its bound.
LEMMA DbType ==
    ASSUME TypeOK, NEW p, DbOk(p) \/ DbErr(p) \/ \E call \in LossyCalls : AnswerLost(p, call)
    PROVE  budget' \in [faults: 0..MaxFaults, crashes: 0..MaxCrashes]
  BY ConstantsAssumption DEF TypeOK, DbOk, DbErr, AnswerLost

\* Writing one state into the table keeps every row a row.
LEMMA RowUpdateType ==
    ASSUME row \in [Instances -> Row], NEW i, NEW x \in RowStates,
           row' = [row EXCEPT ![i].state = x]
    PROVE  row' \in [Instances -> Row]
  <1>1. ASSUME NEW k \in Instances PROVE row'[k] \in Row
    <2>1. CASE k = i
      BY <2>1, <1>1 DEF Row
    <2>2. CASE k # i
      BY <2>2, <1>1
    <2> QED BY <2>1, <2>2
  <1> QED BY <1>1

\* Telling an agent a command keeps its state typed.
LEMMA TellType ==
    ASSUME agent \in [Instances -> Agent], NEW i, NEW x \in Commands,
           agent' = [agent EXCEPT ![i] = Tell(@, x)]
    PROVE  agent' \in [Instances -> Agent]
  BY TellIsAgent

\* The initial tables are well typed.
LEMMA TypeInit == Init => TypeOK
  BY ConstantsAssumption
  DEF Init, TypeOK, Node, Row, Slot, Job, Agent, NewAgent, Labels, NoRow, FreeSlot, NoJob, RowStates

\* Every call of every goroutine keeps the types.
LEMMA TypeProcStep ==
    ASSUME TypeOK, NEW p \in Procs, ProcStep(p)
    PROVE  TypeOK'
  <1> USE DEF Labels
  <1>j. job[p] \in Job /\ NoJob \in Job
    BY DEF TypeOK, Job, NoJob, RowStates
  <1>f. FreeSlot \in Slot /\ Reserved \in Slot
    BY DEF FreeSlot, Reserved, Slot
  <1>1. CASE TransitionRead(p)
    <2>1. PICK label \in Labels : Goto(p, label, job[p])
      BY <1>1, NextLabels DEF TransitionRead
    <2> QED BY <1>1, <1>j, <2>1, GotoType, DbType DEF TransitionRead, TypeOK
  <1>2. CASE TransitionWrite(p)
    <2>1. PICK label \in Labels : Goto(p, label, job[p])
      BY <1>2, NextLabels DEF TransitionWrite
    <2>2. row' \in [Instances -> Row]
      BY <1>2, <1>j, RowUpdateType DEF TransitionWrite, TypeOK, Job
    <2>3. budget' \in [faults: 0..MaxFaults, crashes: 0..MaxCrashes]
      BY <1>2, DbType DEF TransitionWrite, AnswerLost
    <2> QED BY <1>2, <1>j, <2>1, <2>2, <2>3, GotoType DEF TransitionWrite, TypeOK
  <1>3. CASE ReleaseForInstance(p)
    <2>1. slot' \in [Slots -> Slot]
      BY <1>3, <1>f DEF ReleaseForInstance, TypeOK
    <2> QED BY <1>3, <1>j, <2>1, GotoType, DbType, NextLabels DEF ReleaseForInstance, TypeOK
  <1>4. CASE p \in Creators /\ Reserve(p)
    <2>1. PICK label \in Labels, j \in Job : Goto(p, label, j)
      BY <1>4, <1>j, ZenonT(40) DEF Reserve, FreeSlots, Job
    <2>2. slot' \in [Slots -> Slot]
      BY <1>4, <1>f DEF Reserve, TypeOK
    <2>3. budget' \in [faults: 0..MaxFaults, crashes: 0..MaxCrashes]
      BY <1>4, DbType DEF Reserve, TypeOK, AnswerLost
    <2> QED BY <1>4, <2>1, <2>2, <2>3, GotoType DEF Reserve, TypeOK
  <1>5. CASE p \in Creators /\ CreateInstance(p)
    <2>1. PICK label \in Labels, j \in Job : Goto(p, label, j)
      BY <1>5, <1>j DEF CreateInstance, Job
    <2>2. row' \in [Instances -> Row]
      <3>1. CASE row' = row
        BY <3>1 DEF TypeOK
      <3>2. CASE row' # row
        <4>1. PICK i \in Instances :
                 row' = [row EXCEPT ![i] = [state |-> "pending", node |-> job[p].node,
                                            gpus |-> job[p].gpus, slots |-> job[p].resv]]
          BY <1>5, <3>2 DEF CreateInstance
        <4>2. [state |-> "pending", node |-> job[p].node,
               gpus |-> job[p].gpus, slots |-> job[p].resv] \in Row
          BY <1>j DEF Row, Job, RowStates, States
        <4> QED BY <4>1, <4>2 DEF TypeOK
      <3> QED BY <3>1, <3>2
    <2>3. budget' \in [faults: 0..MaxFaults, crashes: 0..MaxCrashes]
      BY <1>5, DbType DEF CreateInstance, AnswerLost
    <2> QED BY <1>5, <2>1, <2>2, <2>3, GotoType DEF CreateInstance, TypeOK
  <1>6. CASE p \in Creators /\ BindToInstance(p)
    <2>1. PICK label \in Labels : Goto(p, label, job[p])
      BY <1>6 DEF BindToInstance
    <2>2. slot' \in [Slots -> Slot]
      BY <1>6, <1>j DEF BindToInstance, TypeOK, Slot, Job
    <2>3. budget' \in [faults: 0..MaxFaults, crashes: 0..MaxCrashes]
      BY <1>6, DbType DEF BindToInstance, TypeOK, AnswerLost
    <2> QED BY <1>6, <1>j, <2>1, <2>2, <2>3, GotoType DEF BindToInstance, TypeOK
  <1>7. CASE p \in Creators /\ ReleaseReserved(p)
    <2>1. PICK label \in Labels, j \in Job : Goto(p, label, j)
      BY <1>7, <1>j DEF ReleaseReserved, Job, RowStates, States
    <2>2. slot' \in [Slots -> Slot]
      BY <1>7, <1>f DEF ReleaseReserved, TypeOK
    <2> QED BY <1>7, <2>1, <2>2, GotoType, DbType DEF ReleaseReserved, TypeOK
  <1>8. CASE p \in Creators /\ DispatchCreate(p)
    <2>1. agent' \in [Instances -> Agent]
      BY <1>8, TellType DEF DispatchCreate, TypeOK, Commands
    <2> QED BY <1>8, <1>j, <2>1, GotoType DEF DispatchCreate, TypeOK
  <1>9. CASE p \in Creators /\ DispatchCreateFails(p)
    <2>1. PICK label \in Labels, j \in Job : Goto(p, label, j)
      BY <1>9, <1>j DEF DispatchCreateFails, Job, RowStates, States
    <2> QED BY <1>9, <2>1, GotoType DEF DispatchCreateFails, TypeOK
  <1>10. CASE p \in Deleters /\ DeleteRow(p)
    <2>1. row' \in [Instances -> Row]
      BY <1>10, RowUpdateType, "deleted" \in RowStates DEF DeleteRow, TypeOK, RowStates
    <2>2. slot' \in [Slots -> Slot]
      BY <1>10 DEF DeleteRow, TypeOK, Slot
    <2> QED BY <1>10, <1>j, <2>1, <2>2, GotoType, DbType DEF DeleteRow, TypeOK
  <1>11. CASE p \in Deleters /\ SendDestroy(p)
    <2>1. agent' \in [Instances -> Agent]
      BY <1>11, TellType DEF SendDestroy, TypeOK, Commands
    <2> QED BY <1>11, <1>j, <2>1, GotoType DEF SendDestroy, TypeOK
  <1>12. CASE p = Sweeper /\ ListInstances
    <2>1. sweep' \in [nodes: SUBSET Nodes, rows: SUBSET Instances]
      BY <1>12 DEF ListInstances, Reapable, TypeOK
    <2>2. budget' \in [faults: 0..MaxFaults, crashes: 0..MaxCrashes]
      BY <1>12, DbType DEF ListInstances
    <2> QED BY <1>12, <1>j, <2>1, <2>2, GotoType DEF ListInstances, TypeOK
  <1>13. CASE p = Sweeper /\ ReapNext
    <2>1. sweep' \in [nodes: SUBSET Nodes, rows: SUBSET Instances]
      BY <1>13, ZenonT(40) DEF ReapNext, TypeOK
    <2>2. PICK label \in Labels, j \in Job : Goto(p, label, j)
      BY <1>13, <1>j DEF ReapNext, TypeOK, Job, NoJob, RowStates, States
    <2> QED BY <1>13, <2>1, <2>2, GotoType DEF ReapNext, TypeOK
  <1>14. CASE p \in Creators /\ DispatchPanics(p)
    BY <1>14, <1>j, GotoType DEF DispatchPanics, TypeOK
  <1> QED
    BY <1>1, <1>2, <1>3, <1>4, <1>5, <1>6, <1>7, <1>8, <1>9, <1>10, <1>11, <1>12, <1>13, <1>14
    DEF ProcStep, CreateStep, DeleteStep, SweepStep

\* So do requests, reports, node events and crashes.
LEMMA TypeEnvironment ==
    ASSUME TypeOK, Environment \/ MarkStaleOffline \/ Boot
    PROVE  TypeOK'
  <1> USE DEF Labels
  <1>j. NoJob \in Job /\ {"stopping", "failed"} \cup Reports \subseteq RowStates
    BY DEF Job, NoJob, RowStates, Reports, States
  <1>1. ASSUME NEW c \in Creators, NEW n \in Nodes, NEW g \in GpuCounts, validateCreate(c, n, g)
        PROVE  TypeOK'
    <2>1. [NoJob EXCEPT !.node = n, !.gpus = g] \in Job /\ c \in Procs
      BY <1>j, ConstantsAssumption DEF Job, Procs
    <2> QED BY <1>1, <2>1, GotoType DEF validateCreate, TypeOK
  <1>2. ASSUME NEW d \in Deleters, NEW i \in Instances, DeleteGet(d, i)
        PROVE  TypeOK'
    <2>1. [NoJob EXCEPT !.inst = i, !.node = row[i].node, !.to = "stopping"] \in Job /\ d \in Procs
      BY <1>j DEF Job, Procs, TypeOK, Row
    <2> QED BY <1>2, <2>1, GotoType DEF DeleteGet, TypeOK
  <1>3. ASSUME NEW r \in Receivers, NEW i \in Instances, NEW to \in Reports, ReceiveStatus(r, i, to)
        PROVE  TypeOK'
    <2>1. [NoJob EXCEPT !.inst = i, !.to = to] \in Job /\ r \in Procs
      BY <1>j DEF Job, Procs
    <2>2. agent' \in [Instances -> Agent]
      <3>1. agent[i] \in Agent
        BY DEF TypeOK
      <3>2. agent' = [agent EXCEPT ![i] = AfterReport(@, to)]
        BY <1>3 DEF ReceiveStatus
      <3> QED BY <3>1, <3>2, ReportType DEF TypeOK
    <2> QED BY <1>3, <2>1, <2>2, GotoType DEF ReceiveStatus, TypeOK
  <1>4. ASSUME NEW n \in Nodes, TouchHeartbeat(n) \/ AgentConnects(n) \/ AgentDisconnects(n)
                                 \/ HeartbeatLapses(n)
        PROVE  TypeOK'
    <2>1. node' \in [Nodes -> Node]
      <3>1. node[n] \in Node
        BY DEF TypeOK
      <3>2. [node[n] EXCEPT !.fresh = TRUE, !.status = "online"] \in Node
        BY <3>1 DEF Node
      <3>3. [node[n] EXCEPT !.conn = FALSE] \in Node /\ [node[n] EXCEPT !.fresh = FALSE] \in Node
        BY <3>1 DEF Node
      <3>4. PICK x \in Node : node' = [node EXCEPT ![n] = x]
        <4>1. CASE TouchHeartbeat(n)
          BY <4>1, <3>2 DEF TouchHeartbeat
        <4>2. CASE AgentConnects(n)
          BY <4>2 DEF AgentConnects, Node
        <4>3. CASE AgentDisconnects(n)
          BY <4>3, <3>3 DEF AgentDisconnects
        <4>4. CASE HeartbeatLapses(n)
          BY <4>4, <3>3 DEF HeartbeatLapses
        <4> QED BY <1>4, <4>1, <4>2, <4>3, <4>4
      <3> QED BY <3>4 DEF TypeOK
    <2> QED BY <1>4, <2>1 DEF TouchHeartbeat, AgentConnects, AgentDisconnects, HeartbeatLapses, TypeOK
  <1>5. ASSUME NEW p \in Procs, Cancel(p) PROVE TypeOK'
    BY <1>5 DEF Cancel, TypeOK
  <1>6. CASE Crash
    <2>1. node' \in [Nodes -> Node]
      BY <1>6, ZenonT(40) DEF Crash, TypeOK, Node
    <2>2. budget' \in [faults: 0..MaxFaults, crashes: 0..MaxCrashes]
      BY <1>6, ConstantsAssumption DEF Crash, TypeOK
    <2> QED BY <1>6, <1>j, <2>1, <2>2 DEF Crash, TypeOK
  <1>7. CASE MarkStaleOffline
    <2>1. node' \in [Nodes -> Node]
      BY <1>7 DEF MarkStaleOffline, TypeOK, Node
    <2>2. sweep' \in [nodes: SUBSET Nodes, rows: SUBSET Instances]
      BY <1>7 DEF MarkStaleOffline, Stale, TypeOK
    <2>3. Sweeper \in Procs
      BY DEF Procs
    <2>4. budget' \in [faults: 0..MaxFaults, crashes: 0..MaxCrashes]
      BY <1>7, DbType DEF MarkStaleOffline, AnswerLost
    <2>5. PICK label \in Labels : Goto(Sweeper, label, NoJob)
      BY <1>7 DEF MarkStaleOffline
    <2> QED BY <1>7, <1>j, <2>1, <2>2, <2>3, <2>4, <2>5, GotoType DEF MarkStaleOffline, TypeOK
  <1>8. CASE Boot
    <2>1. slot' \in [Slots -> Slot]
      BY <1>8 DEF Boot, TypeOK, Slot, FreeSlot
    <2> QED BY <1>8, <2>1 DEF Boot, TypeOK
  <1> QED BY <1>1, <1>2, <1>3, <1>4, <1>5, <1>6, <1>7, <1>8 DEF Environment

\* Every variable keeps its type in every reachable state.
THEOREM TypeCorrect == Spec => []TypeOK
  <1>1. TypeOK /\ [Next]_vars => TypeOK'
    <2> SUFFICES ASSUME TypeOK, [Next]_vars PROVE TypeOK'
      OBVIOUS
    <2>1. CASE UNCHANGED vars
      BY <2>1 DEF vars, TypeOK
    <2>2. CASE Next
      BY <2>2, TypeProcStep, TypeEnvironment DEF Next
    <2> QED BY <2>1, <2>2
  <1> QED BY <1>1, TypeInit, PTL DEF Spec

-----------------------------------------------------------------------------
(* The inductive invariant behind the slot properties *)

\* A process that is down runs no goroutine, so a boot frees only orphans.
DownIsIdle == ~up => \A p \in Procs : pc[p] = "idle"

\* A goroutine about to touch a row names one, and a target state to put it in.
NamesRow(p) ==
    /\ pc[p] \in {"read", "write", "release", "remove", "send"} =>
          job[p].inst \in Instances /\ job[p].to \in States
    /\ pc[p] \in {"created", "bound"} => job[p].inst \in Instances

\* A create handler reserved slots of the node and size it was asked for, and
\* the row it inserted records exactly them.
Remembers(c) ==
    /\ pc[c] = "validated" => job[c].resv = {}
    /\ \A s \in Holding(c) : SlotNode[s] = job[c].node /\ SlotGpus[s] = job[c].gpus
    /\ pc[c] = "created" =>
          LET r == row[job[c].inst] IN
          /\ r.state # "unborn" /\ r.slots = job[c].resv
          /\ r.node = job[c].node /\ r.gpus = job[c].gpus

SlotInv ==
    /\ TypeOK
    /\ DownIsIdle
    /\ \A p \in Procs : NamesRow(p)
    /\ \A c \in Creators : Remembers(c)
    /\ ReservationsExclusive
    /\ OwnershipConsistent

\* Nobody holds or owns anything at first.
LEMMA SlotInvInit == Init => SlotInv
  <1> SUFFICES ASSUME Init PROVE SlotInv
    OBVIOUS
  <1>1. DownIsIdle /\ \A p \in Procs : NamesRow(p)
    BY DEF Init, DownIsIdle, NamesRow
  <1>2. \A c \in Creators : pc[c] = "idle" /\ Holding(c) = {}
    BY DEF Init, Holding, Procs
  <1>3. OwnershipConsistent
    BY ConstantsAssumption DEF Init, OwnershipConsistent, FreeSlot
  <1> QED BY <1>1, <1>2, <1>3, TypeInit DEF SlotInv, Remembers, ReservationsExclusive

\* Moving goroutine p leaves every other goroutine where it was.
LEMMA GotoFrame ==
    ASSUME TypeOK, NEW p \in Procs, NEW label, NEW j, Goto(p, label, j)
    PROVE  /\ pc'[p] = label
           /\ job'[p] = IF label = "idle" THEN NoJob ELSE j
           /\ \A q \in Procs : q # p => pc'[q] = pc[q] /\ job'[q] = job[q]
           /\ \A c \in Creators : c # p => Holding(c)' = Holding(c)
  BY DEF TypeOK, Goto, Holding, Procs

\* A row in use keeps what it was inserted with, and stays used.
RowsKept ==
    \A k \in Instances : row[k].state # "unborn" =>
        /\ row'[k].state # "unborn" /\ row'[k].slots = row[k].slots
        /\ row'[k].node = row[k].node /\ row'[k].gpus = row[k].gpus

\* Only p's own reservation may end.
OthersReservedKept(p) ==
    \A s \in Slots : slot[s] = Reserved =>
        slot'[s] = Reserved \/ (p \in Creators /\ s \in Holding(p))

\* What p holds after its step is reserved, and was nobody else's.
HoldsItsOwn(p) ==
    p \in Creators => \A s \in Holding(p)' :
        slot'[s] = Reserved /\ \A d \in Creators \ {p} : s \notin Holding(d)

\* The frame argument: a step of goroutine p that keeps the rows in use and
\* the reservations of the others keeps SlotInv if it keeps p's own part of
\* it and the ownership of slots.
LEMMA StepOfOne ==
    ASSUME SlotInv, TypeOK', up', NEW p \in Procs, NEW label, NEW j, Goto(p, label, j),
           NamesRow(p)', p \in Creators => Remembers(p)',
           RowsKept, OthersReservedKept(p), HoldsItsOwn(p), OwnershipConsistent'
    PROVE  SlotInv'
  <1>0. TypeOK
    BY DEF SlotInv
  <1>1. \A q \in Procs : NamesRow(q)'
    BY <1>0, GotoFrame DEF SlotInv, NamesRow
  <1>2. ASSUME NEW c \in Creators PROVE Remembers(c)'
    <2>1. CASE c = p
      BY <2>1
    <2>2. CASE c # p
      <3>1. c \in Procs /\ pc'[c] = pc[c] /\ job'[c] = job[c] /\ Holding(c)' = Holding(c)
        BY <1>0, <2>2, GotoFrame DEF Procs
      <3>2. pc[c] = "created" => job[c].inst \in Instances
        BY <3>1 DEF SlotInv, NamesRow
      <3>3. Remembers(c)
        BY DEF SlotInv
      <3> QED BY <3>1, <3>2, <3>3 DEF Remembers, RowsKept
    <2> QED BY <2>1, <2>2
  <1>3. ReservationsExclusive'
    <2> SUFFICES ASSUME NEW c \in Creators, NEW s \in Holding(c)'
                 PROVE  slot'[s] = Reserved /\ \A d \in Creators \ {c} : s \notin Holding(d)'
      BY DEF ReservationsExclusive
    <2>1. \A d \in Creators : d # p => Holding(d)' = Holding(d)
      BY <1>0, GotoFrame
    <2>2. CASE c = p
      BY <2>1, <2>2 DEF HoldsItsOwn
    <2>3. CASE c # p
      <3>1. s \in Holding(c) /\ s \in Slots
        BY <1>0, <2>1, <2>3 DEF Holding, TypeOK, Job, Procs
      <3>2. slot[s] = Reserved /\ \A d \in Creators \ {c} : s \notin Holding(d)
        BY <3>1 DEF SlotInv, ReservationsExclusive
      <3>3. slot'[s] = Reserved
        BY <2>3, <3>1, <3>2 DEF OthersReservedKept
      <3>4. p \in Creators => s \notin Holding(p)'
        BY <2>3, <3>1 DEF HoldsItsOwn
      <3> QED BY <2>1, <3>2, <3>3, <3>4
    <2> QED BY <2>2, <2>3
  <1> QED BY <1>1, <1>2, <1>3 DEF SlotInv, DownIsIdle

\* Where p ends up with no reservation, its own part is only the row it names.
LEMMA QuietStep ==
    ASSUME SlotInv, TypeOK', up', NEW p \in Procs, NEW label, NEW j, Goto(p, label, j),
           label \notin {"reserved", "created", "unreserve", "validated"},
           label \in {"read", "write", "release", "remove", "send"} =>
               j.inst \in Instances /\ j.to \in States,
           label = "bound" => j.inst \in Instances,
           RowsKept, OthersReservedKept(p), OwnershipConsistent'
    PROVE  SlotInv'
  <1>1. pc'[p] = label /\ job'[p] = IF label = "idle" THEN NoJob ELSE j
    BY GotoFrame DEF SlotInv
  <1>2. NamesRow(p)'
    BY <1>1 DEF NamesRow
  <1>3. Holding(p)' = {}
    BY <1>1 DEF Holding
  <1>4. Remembers(p)' /\ HoldsItsOwn(p)
    BY <1>1, <1>3 DEF Remembers, HoldsItsOwn
  <1> QED BY <1>2, <1>4, StepOfOne

\* Repo.Transition keeps what a row records; a release frees owned slots only.
LEMMA TransitionKeepsSlotInv ==
    ASSUME SlotInv, TypeOK', NEW p \in Procs,
           TransitionRead(p) \/ TransitionWrite(p) \/ ReleaseForInstance(p)
    PROVE  SlotInv'
  <1>0. TypeOK /\ up /\ up' /\ pc[p] \in {"read", "write", "release"}
    BY DEF SlotInv, TransitionRead, TransitionWrite, ReleaseForInstance, At
  <1>1. job[p].inst \in Instances /\ job[p].to \in States
    BY <1>0 DEF SlotInv, NamesRow
  <1>2. PICK label \in {"idle", "send", "release", "next", "write", "read", "remove"} :
            Goto(p, label, job[p])
    BY NextLabels DEF TransitionRead, TransitionWrite, ReleaseForInstance
  <1>3. ASSUME NEW k \in Instances
        PROVE  /\ row'[k].slots = row[k].slots /\ row'[k].node = row[k].node
               /\ row'[k].gpus = row[k].gpus
               /\ row'[k].state = row[k].state \/ row'[k].state \in States
    <2>1. CASE row' = row
      BY <2>1
    <2>2. CASE row' # row
      <3>1. row' = [row EXCEPT ![job[p].inst].state = job[p].to]
        BY <2>2 DEF TransitionRead, TransitionWrite, ReleaseForInstance
      <3>2. CASE k = job[p].inst
        BY <1>0, <1>1, <3>1, <3>2 DEF TypeOK, Row
      <3>3. CASE k # job[p].inst
        BY <1>0, <3>1, <3>3 DEF TypeOK
      <3> QED BY <3>2, <3>3
    <2> QED BY <2>1, <2>2
  <1>4. RowsKept
    BY <1>3 DEF RowsKept, States
  <1>5. \A s \in Slots : slot'[s] = slot[s] \/ (slot[s].inst \in Instances /\ slot'[s] = FreeSlot)
    BY <1>1 DEF TransitionRead, TransitionWrite, ReleaseForInstance
  <1>6. OthersReservedKept(p)
    BY <1>5, ConstantsAssumption DEF OthersReservedKept, Reserved
  <1>7. OwnershipConsistent'
    BY <1>3, <1>5, ConstantsAssumption DEF SlotInv, OwnershipConsistent, Exists, FreeSlot
  <1> QED BY <1>0, <1>1, <1>2, <1>4, <1>6, <1>7, QuietStep

\* A step that writes neither table keeps what the tables say.
LEMMA SameTables ==
    ASSUME SlotInv, row' = row, slot' = slot, NEW p
    PROVE  RowsKept /\ OthersReservedKept(p) /\ OwnershipConsistent'
  BY DEF SlotInv, RowsKept, OthersReservedKept, OwnershipConsistent, Exists

\* A handler's own reservation, in the words of the invariant.
LEMMA OwnReservation ==
    ASSUME SlotInv, NEW c \in Creators, NEW s \in Holding(c)
    PROVE  /\ s \in Slots /\ slot[s] = Reserved
           /\ SlotNode[s] = job[c].node /\ SlotGpus[s] = job[c].gpus
           /\ \A d \in Creators \ {c} : s \notin Holding(d)
  <1>1. Holding(c) \subseteq Slots
    BY DEF SlotInv, TypeOK, Procs, Job, Holding
  <1>2. Remembers(c)
    BY DEF SlotInv
  <1> QED BY <1>1, <1>2 DEF SlotInv, ReservationsExclusive, Remembers

\* Carrying the reservation on: p keeps what it holds, under another label.
LEMMA CarryOn ==
    ASSUME SlotInv, TypeOK', up', slot' = slot, NEW p \in Creators, NEW label,
           pc[p] \in {"reserved", "created"}, label \in {"reserved", "unreserve"},
           RowsKept, OthersReservedKept(p), OwnershipConsistent', Goto(p, label, job[p])
    PROVE  SlotInv'
  <1>1. p \in Procs
    BY DEF Procs
  <1>2. pc'[p] = label /\ job'[p] = job[p] /\ Holding(p)' = Holding(p)
    BY <1>1, GotoFrame DEF SlotInv, Holding
  <1>3. NamesRow(p)'
    BY <1>2 DEF NamesRow
  <1>4. Remembers(p)' /\ HoldsItsOwn(p)
    BY <1>2, OwnReservation DEF Remembers, HoldsItsOwn
  <1> QED BY <1>1, <1>3, <1>4, StepOfOne

\* Picking a free slot under the advisory lock: nobody holds a free slot.
LEMMA ReserveKeepsSlotInv ==
    ASSUME SlotInv, TypeOK', NEW p \in Creators, Reserve(p)
    PROVE  SlotInv'
  <1>0. TypeOK /\ up' /\ pc[p] = "validated" /\ p \in Procs /\ row' = row
    BY DEF SlotInv, Reserve, At, Procs
  <1>j. job[p] \in Job /\ job[p].resv = {}
    BY <1>0 DEF TypeOK, SlotInv, Remembers
  <1>1. \/ Goto(p, "idle", NoJob) /\ slot' = slot
        \/ Goto(p, "reserved", job[p]) /\ slot' = slot
        \/ \E s \in FreeSlots(job[p].node, job[p].gpus), next \in {"reserved", "unreserve"} :
             slot' = [slot EXCEPT ![s] = Reserved] /\ Goto(p, next, [job[p] EXCEPT !.resv = {s}])
        \/ \E s \in FreeSlots(job[p].node, job[p].gpus) :
             slot' = [slot EXCEPT ![s] = Reserved] /\ Goto(p, "idle", NoJob)
    BY DEF Reserve
  <1>2. CASE Goto(p, "idle", NoJob) /\ slot' = slot
    BY <1>0, <1>2, SameTables, QuietStep
  <1>3. CASE Goto(p, "reserved", job[p]) /\ slot' = slot
    <2>1. pc'[p] = "reserved" /\ Holding(p)' = {}
      BY <1>0, <1>j, <1>3, GotoFrame DEF Holding
    <2>2. NamesRow(p)' /\ Remembers(p)' /\ HoldsItsOwn(p)
      BY <2>1 DEF NamesRow, Remembers, HoldsItsOwn
    <2> QED BY <1>0, <1>3, <2>2, SameTables, StepOfOne
  <1>4. ASSUME NEW s \in FreeSlots(job[p].node, job[p].gpus), NEW next \in {"reserved", "unreserve"},
               slot' = [slot EXCEPT ![s] = Reserved], Goto(p, next, [job[p] EXCEPT !.resv = {s}])
        PROVE  SlotInv'
    <2>1. s \in Slots /\ SlotNode[s] = job[p].node /\ SlotGpus[s] = job[p].gpus
          /\ slot[s].status = "free"
      BY DEF FreeSlots
    <2>2. pc'[p] = next /\ job'[p] = [job[p] EXCEPT !.resv = {s}]
      BY <1>0, <1>4, GotoFrame
    <2>3. job'[p].resv = {s} /\ job'[p].node = job[p].node /\ job'[p].gpus = job[p].gpus
      BY <1>j, <2>2 DEF Job
    <2>4. Holding(p)' = {s}
      BY <2>2, <2>3 DEF Holding
    <2>5. \A c \in Creators : s \notin Holding(c)
      BY <2>1, OwnReservation DEF Reserved
    <2>6. \A t \in Slots : slot'[t] = IF t = s THEN Reserved ELSE slot[t]
      BY <1>0, <1>4 DEF TypeOK
    <2>7. NamesRow(p)' /\ Remembers(p)'
      BY <2>1, <2>2, <2>3, <2>4 DEF NamesRow, Remembers
    <2>8. HoldsItsOwn(p) /\ OthersReservedKept(p)
      BY <2>1, <2>4, <2>5, <2>6 DEF HoldsItsOwn, OthersReservedKept
    <2>9. RowsKept
      BY <1>0 DEF RowsKept
    <2>10. OwnershipConsistent'
      BY <1>0, <2>1, <2>6, ConstantsAssumption DEF SlotInv, OwnershipConsistent, Exists, Reserved
    <2> QED BY <1>0, <1>4, <2>7, <2>8, <2>9, <2>10, StepOfOne
  <1>5. ASSUME NEW s \in FreeSlots(job[p].node, job[p].gpus),
               slot' = [slot EXCEPT ![s] = Reserved], Goto(p, "idle", NoJob)
        PROVE  SlotInv'
    <2>1. s \in Slots /\ slot[s].status = "free"
      BY DEF FreeSlots
    <2>2. \A t \in Slots : slot'[t] = IF t = s THEN Reserved ELSE slot[t]
      BY <1>0, <1>5 DEF TypeOK
    <2>3. RowsKept /\ OthersReservedKept(p)
      BY <1>0, <2>2 DEF RowsKept, OthersReservedKept
    <2>4. OwnershipConsistent'
      BY <1>0, <2>1, <2>2, ConstantsAssumption DEF SlotInv, OwnershipConsistent, Exists, Reserved
    <2> QED BY <1>0, <1>5, <2>3, <2>4, QuietStep
  <1> QED BY <1>1, <1>2, <1>3, <1>4, <1>5

\* Inserting the row: an unborn id, so no slot refers to it yet.
LEMMA CreateKeepsSlotInv ==
    ASSUME SlotInv, TypeOK', NEW p \in Creators, CreateInstance(p)
    PROVE  SlotInv'
  <1>0. TypeOK /\ up' /\ pc[p] = "reserved" /\ p \in Procs /\ slot' = slot
    BY DEF SlotInv, CreateInstance, At, Procs
  <1>j. job[p] \in Job /\ Holding(p) = job[p].resv
    BY <1>0 DEF TypeOK, Holding
  <1> DEFINE new == [state |-> "pending", node |-> job[p].node,
                     gpus |-> job[p].gpus, slots |-> job[p].resv]
  <1>1. \/ row' = row /\ Goto(p, "unreserve", job[p])
        \/ row' = row /\ Goto(p, "idle", job[p])
        \/ \E i \in Instances : /\ row[i].state = "unborn" /\ row' = [row EXCEPT ![i] = new]
                                /\ \/ Goto(p, "created", [job[p] EXCEPT !.inst = i])
                                   \/ Goto(p, "unreserve", job[p])
                                   \/ Goto(p, "idle", job[p])
    <2>1. CASE job[p].gpus > 0
      BY <2>1 DEF CreateInstance
    <2>2. CASE ~(job[p].gpus > 0)
      BY <2>2 DEF CreateInstance
    <2> QED BY <2>1, <2>2
  <1>2. CASE row' = row /\ Goto(p, "unreserve", job[p])
    BY <1>0, <1>2, SameTables, CarryOn
  <1>3. CASE row' = row /\ Goto(p, "idle", job[p])
    BY <1>0, <1>3, SameTables, QuietStep
  <1>t. ASSUME NEW i \in Instances, row[i].state = "unborn", row' = [row EXCEPT ![i] = new]
        PROVE  /\ row'[i] = new /\ \A k \in Instances : k # i => row'[k] = row[k]
               /\ RowsKept /\ OthersReservedKept(p) /\ OwnershipConsistent'
    <2>1. row'[i] = new /\ \A k \in Instances : k # i => row'[k] = row[k]
      BY <1>0, <1>t DEF TypeOK
    <2>2. RowsKept
      BY <1>t, <2>1 DEF RowsKept
    <2>3. OwnershipConsistent'
      <3>1. \A s \in Slots : slot[s].inst # i
        BY <1>t DEF SlotInv, OwnershipConsistent, Exists, States
      <3> QED BY <1>0, <2>1, <3>1 DEF SlotInv, OwnershipConsistent, Exists
    <2>4. OthersReservedKept(p)
      BY <1>0 DEF OthersReservedKept
    <2> QED BY <2>1, <2>2, <2>3, <2>4
  <1>4. ASSUME NEW i \in Instances, row[i].state = "unborn", row' = [row EXCEPT ![i] = new],
               Goto(p, "created", [job[p] EXCEPT !.inst = i])
        PROVE  SlotInv'
    <2>1. pc'[p] = "created" /\ job'[p] = [job[p] EXCEPT !.inst = i]
      BY <1>0, <1>4, GotoFrame
    <2>2. /\ job'[p].inst = i /\ job'[p].resv = job[p].resv
          /\ job'[p].node = job[p].node /\ job'[p].gpus = job[p].gpus
      BY <1>j, <2>1 DEF Job
    <2>3. Holding(p)' = Holding(p)
      BY <1>j, <2>1, <2>2 DEF Holding
    <2>4. row'[i] = new /\ RowsKept /\ OthersReservedKept(p) /\ OwnershipConsistent'
      BY <1>4, <1>t
    <2>5. NamesRow(p)' /\ Remembers(p)'
      BY <2>1, <2>2, <2>3, <2>4, OwnReservation DEF NamesRow, Remembers
    <2>6. HoldsItsOwn(p)
      BY <1>0, <2>3, OwnReservation DEF HoldsItsOwn
    <2> QED BY <1>0, <1>4, <2>4, <2>5, <2>6, StepOfOne
  <1>5. ASSUME NEW i \in Instances, row[i].state = "unborn", row' = [row EXCEPT ![i] = new],
               Goto(p, "unreserve", job[p])
        PROVE  SlotInv'
    <2>1. RowsKept /\ OthersReservedKept(p) /\ OwnershipConsistent'
      BY <1>5, <1>t
    <2> QED BY <1>0, <1>5, <2>1, CarryOn
  <1>6. ASSUME NEW i \in Instances, row[i].state = "unborn", row' = [row EXCEPT ![i] = new],
               Goto(p, "idle", job[p])
        PROVE  SlotInv'
    <2>1. RowsKept /\ OthersReservedKept(p) /\ OwnershipConsistent'
      BY <1>6, <1>t
    <2> QED BY <1>0, <1>6, <2>1, QuietStep
  <1> QED BY <1>1, <1>2, <1>3, <1>4, <1>5, <1>6

\* Binding: the handler's slots become owned by the row that lists them.
LEMMA BindKeepsSlotInv ==
    ASSUME SlotInv, TypeOK', NEW p \in Creators, BindToInstance(p), "bind" \notin Lossy
    PROVE  SlotInv'
  <1>0. TypeOK /\ up' /\ pc[p] = "created" /\ p \in Procs /\ row' = row
    BY DEF SlotInv, BindToInstance, At, Procs
  <1>j. Holding(p) = job[p].resv /\ job[p].inst \in Instances
    BY <1>0 DEF SlotInv, NamesRow, Holding
  <1>1. \/ slot' = slot /\ Goto(p, "bound", job[p])
        \/ slot' = slot /\ Goto(p, "unreserve", job[p])
        \/ /\ Exists(job[p].inst) /\ Goto(p, "bound", job[p])
           /\ slot' = [s \in Slots |-> IF s \in job[p].resv
                          THEN [status |-> "in_use", inst |-> job[p].inst] ELSE slot[s]]
    BY DEF BindToInstance, AnswerLost
  <1>2. CASE slot' = slot /\ Goto(p, "bound", job[p])
    BY <1>0, <1>j, <1>2, SameTables, QuietStep
  <1>3. CASE slot' = slot /\ Goto(p, "unreserve", job[p])
    BY <1>0, <1>3, SameTables, CarryOn
  <1>4. CASE /\ Exists(job[p].inst) /\ Goto(p, "bound", job[p])
             /\ slot' = [s \in Slots |-> IF s \in job[p].resv
                            THEN [status |-> "in_use", inst |-> job[p].inst] ELSE slot[s]]
    <2>1. RowsKept /\ OthersReservedKept(p)
      BY <1>0, <1>j, <1>4 DEF RowsKept, OthersReservedKept
    <2>2. Remembers(p)
      BY DEF SlotInv
    <2>3. OwnershipConsistent'
      <3> SUFFICES ASSUME NEW s \in Slots, NEW i \in Instances, slot'[s].inst = i
                   PROVE  /\ slot'[s].status = "in_use" /\ row[i].state \in States
                          /\ s \in row[i].slots
                          /\ SlotNode[s] = row[i].node /\ SlotGpus[s] = row[i].gpus
        BY <1>0 DEF OwnershipConsistent, Exists
      <3>1. CASE s \in job[p].resv
        <4>1. slot'[s] = [status |-> "in_use", inst |-> job[p].inst] /\ i = job[p].inst
          BY <1>4, <3>1
        <4>2. SlotNode[s] = job[p].node /\ SlotGpus[s] = job[p].gpus
          BY <1>j, <3>1, OwnReservation
        <4> QED BY <1>0, <1>4, <2>2, <3>1, <4>1, <4>2 DEF Remembers, Exists
      <3>2. CASE s \notin job[p].resv
        BY <1>4, <3>2 DEF SlotInv, OwnershipConsistent, Exists
      <3> QED BY <3>1, <3>2
    <2> QED BY <1>0, <1>j, <1>4, <2>1, <2>3, QuietStep
  <1> QED BY <1>1, <1>2, <1>3, <1>4

\* Giving the reservation back: only the handler's own reserved slots move.
LEMMA UnreserveKeepsSlotInv ==
    ASSUME SlotInv, TypeOK', NEW p \in Creators, ReleaseReserved(p)
    PROVE  SlotInv'
  <1>0. TypeOK /\ up' /\ pc[p] = "unreserve" /\ p \in Procs /\ row' = row
    BY DEF SlotInv, ReleaseReserved, At, Procs
  <1>j. job[p] \in Job /\ Holding(p) = job[p].resv
    BY <1>0 DEF TypeOK, Holding
  <1> DEFINE j == [job[p] EXCEPT !.to = "failed"]
  <1>1. PICK label \in {"idle", "read"} : Goto(p, label, j) /\ (label = "read" => job[p].inst # NoInst)
    BY DEF ReleaseReserved
  <1>2. label = "read" => j.inst \in Instances /\ j.to \in States
    BY <1>j, <1>1 DEF Job, States
  <1>3. \A s \in Slots : slot'[s] = slot[s]
            \/ (s \in job[p].resv /\ slot[s].status = "reserved" /\ slot'[s] = FreeSlot)
    BY DEF ReleaseReserved
  <1>4. RowsKept /\ OthersReservedKept(p)
    BY <1>0, <1>j, <1>3 DEF RowsKept, OthersReservedKept
  <1>5. OwnershipConsistent'
    BY <1>0, <1>3, ConstantsAssumption DEF SlotInv, OwnershipConsistent, Exists, FreeSlot
  <1> HIDE DEF j
  <1> QED BY <1>0, <1>1, <1>2, <1>4, <1>5, QuietStep

\* Handing the row to the agent, or undoing the binding.
LEMMA DispatchKeepsSlotInv ==
    ASSUME SlotInv, TypeOK', NEW p \in Creators,
           DispatchCreate(p) \/ DispatchCreateFails(p) \/ DispatchPanics(p)
    PROVE  SlotInv'
  <1>0. TypeOK /\ up' /\ pc[p] = "bound" /\ p \in Procs /\ row' = row /\ slot' = slot
    BY DEF SlotInv, DispatchCreate, DispatchCreateFails, DispatchPanics, At, Procs
  <1>1. CASE DispatchCreate(p) \/ DispatchPanics(p)
    <2>1. Goto(p, "idle", NoJob)
      BY <1>1 DEF DispatchCreate, DispatchPanics
    <2> QED BY <1>0, <2>1, SameTables, QuietStep
  <1>2. CASE DispatchCreateFails(p)
    <2> DEFINE j == [job[p] EXCEPT !.to = "failed"]
    <2>1. job[p] \in Job /\ job[p].inst \in Instances
      BY <1>0 DEF TypeOK, SlotInv, NamesRow
    <2>2. j.inst \in Instances /\ j.to \in States
      BY <2>1 DEF Job, States
    <2>3. PICK label \in {"release", "read"} : Goto(p, label, j)
      BY <1>2 DEF DispatchCreateFails
    <2> HIDE DEF j
    <2> QED BY <1>0, <2>2, <2>3, SameTables, QuietStep
  <1> QED BY <1>1, <1>2

\* Removing a row clears the owner of its slots (ON DELETE SET NULL).
LEMMA DeleteKeepsSlotInv ==
    ASSUME SlotInv, TypeOK', NEW p \in Deleters, DeleteRow(p) \/ SendDestroy(p)
    PROVE  SlotInv'
  <1>0. TypeOK /\ up' /\ pc[p] \in {"remove", "send"} /\ p \in Procs /\ Goto(p, "idle", NoJob)
    BY DEF SlotInv, DeleteRow, SendDestroy, At, Procs
  <1>i. job[p].inst \in Instances
    BY <1>0 DEF SlotInv, NamesRow
  <1>1. CASE row' = row /\ slot' = slot
    BY <1>0, <1>1, SameTables, QuietStep
  <1>2. CASE ~(row' = row /\ slot' = slot)
    <2>1. /\ row' = [row EXCEPT ![job[p].inst].state = "deleted"]
          /\ slot' = [s \in Slots |-> IF slot[s].inst = job[p].inst
                                      THEN [slot[s] EXCEPT !.inst = NoInst] ELSE slot[s]]
      BY <1>2 DEF DeleteRow, SendDestroy
    <2>2. ASSUME NEW k \in Instances
          PROVE  /\ row'[k].slots = row[k].slots /\ row'[k].node = row[k].node
                 /\ row'[k].gpus = row[k].gpus
                 /\ row'[k].state = IF k = job[p].inst THEN "deleted" ELSE row[k].state
      <3>1. row[k] \in Row
        BY <1>0 DEF TypeOK
      <3> QED BY <1>0, <2>1, <3>1 DEF TypeOK, Row
    <2>3. RowsKept
      BY <2>2 DEF RowsKept
    <2>4. \A s \in Slots : IF slot[s].inst = job[p].inst THEN slot'[s].inst = NoInst
                           ELSE slot'[s] = slot[s]
      BY <1>0, <2>1 DEF TypeOK, Slot
    <2>5. OthersReservedKept(p)
      BY <1>i, <2>4, ConstantsAssumption DEF OthersReservedKept, Reserved
    <2>6. OwnershipConsistent'
      <3> SUFFICES ASSUME NEW s \in Slots, NEW i \in Instances, slot'[s].inst = i
                   PROVE  /\ slot'[s].status = "in_use" /\ row'[i].state \in States
                          /\ s \in row'[i].slots
                          /\ SlotNode[s] = row'[i].node /\ SlotGpus[s] = row'[i].gpus
        BY DEF OwnershipConsistent, Exists
      <3>1. slot'[s] = slot[s] /\ i # job[p].inst
        BY <2>4, ConstantsAssumption
      <3> QED BY <2>2, <3>1 DEF SlotInv, OwnershipConsistent, Exists
    <2> QED BY <1>0, <2>3, <2>5, <2>6, QuietStep
  <1> QED BY <1>1, <1>2

\* The sweeper only reads the tables and picks the next row to fail.
LEMMA SweepKeepsSlotInv ==
    ASSUME SlotInv, TypeOK', ListInstances \/ ReapNext \/ MarkStaleOffline
    PROVE  SlotInv'
  <1>a. TypeOK /\ Sweeper \in Procs
    BY DEF SlotInv, Procs
  <1>b. up' /\ row' = row /\ slot' = slot
    <2>1. CASE ListInstances
      BY <2>1 DEF ListInstances, At
    <2>2. CASE ReapNext
      BY <2>2 DEF ReapNext, At
    <2>3. CASE MarkStaleOffline
      BY <2>3 DEF MarkStaleOffline, At
    <2> QED BY <2>1, <2>2, <2>3
  <1>0. TypeOK /\ up' /\ Sweeper \in Procs /\ row' = row /\ slot' = slot
    BY <1>a, <1>b
  <1>1. \/ \E label \in {"next", "idle", "list"} : Goto(Sweeper, label, NoJob)
        \/ \E i \in Instances : Goto(Sweeper, "read", [NoJob EXCEPT !.inst = i, !.to = "failed"])
    BY <1>0 DEF ListInstances, ReapNext, MarkStaleOffline, TypeOK
  <1>2. ASSUME NEW label \in {"next", "idle", "list"}, Goto(Sweeper, label, NoJob)
        PROVE  SlotInv'
    BY <1>0, <1>2, SameTables, QuietStep
  <1>3. ASSUME NEW i \in Instances, Goto(Sweeper, "read", [NoJob EXCEPT !.inst = i, !.to = "failed"])
        PROVE  SlotInv'
    <2> DEFINE j == [NoJob EXCEPT !.inst = i, !.to = "failed"]
    <2>1. j.inst \in Instances /\ j.to \in States
      BY DEF NoJob, States
    <2>2. Goto(Sweeper, "read", j)
      BY <1>3
    <2> HIDE DEF j
    <2> QED BY <1>0, <2>1, <2>2, SameTables, QuietStep
  <1> QED BY <1>1, <1>2, <1>3

\* Nobody moves and no table is written, but perhaps nodes or contexts change.
LEMMA StillStep ==
    ASSUME SlotInv, TypeOK', UNCHANGED <<up, row, slot, pc, job>>
    PROVE  SlotInv'
  <1>1. \A c \in Creators : Holding(c)' = Holding(c)
    BY DEF Holding
  <1>2. (\A p \in Procs : NamesRow(p)) => (\A p \in Procs : NamesRow(p)')
    BY DEF NamesRow
  <1>3. (\A c \in Creators : Remembers(c)) => (\A c \in Creators : Remembers(c)')
    BY <1>1 DEF Remembers
  <1>4. ReservationsExclusive => ReservationsExclusive'
    BY <1>1 DEF ReservationsExclusive
  <1>5. OwnershipConsistent => OwnershipConsistent'
    BY DEF OwnershipConsistent, Exists
  <1> QED BY <1>2, <1>3, <1>4, <1>5 DEF SlotInv, DownIsIdle

\* Requests, reports, node events and crashes.
LEMMA EnvironmentKeepsSlotInv ==
    ASSUME SlotInv, TypeOK', Environment
    PROVE  SlotInv'
  <1>0. TypeOK
    BY DEF SlotInv
  <1>1. ASSUME NEW c \in Creators, NEW n \in Nodes, NEW g \in GpuCounts, validateCreate(c, n, g)
        PROVE  SlotInv'
    <2> DEFINE j == [NoJob EXCEPT !.node = n, !.gpus = g]
    <2>1. c \in Procs /\ up' /\ row' = row /\ slot' = slot /\ Goto(c, "validated", j)
      BY <1>1 DEF validateCreate, At, Procs
    <2>a. j.resv = {}
      BY DEF NoJob
    <2>b. pc'[c] = "validated" /\ job'[c] = j
      BY <1>0, <2>1, GotoFrame
    <2>2. pc'[c] = "validated" /\ job'[c].resv = {}
      BY <2>a, <2>b
    <2>3. NamesRow(c)' /\ Remembers(c)' /\ HoldsItsOwn(c)
      BY <2>2 DEF NamesRow, Remembers, HoldsItsOwn, Holding
    <2> HIDE DEF j
    <2> QED BY <2>1, <2>3, SameTables, StepOfOne
  <1>2. ASSUME NEW d \in Deleters, NEW i \in Instances, DeleteGet(d, i)
        PROVE  SlotInv'
    <2> DEFINE j == [NoJob EXCEPT !.inst = i, !.node = row[i].node, !.to = "stopping"]
    <2>1. d \in Procs /\ up' /\ row' = row /\ slot' = slot
      BY <1>2 DEF DeleteGet, At, Procs
    <2>2. PICK label \in {"release", "read"} : Goto(d, label, j)
      BY <1>2 DEF DeleteGet
    <2>3. j.inst \in Instances /\ j.to \in States
      BY DEF NoJob, States
    <2> HIDE DEF j
    <2> QED BY <2>1, <2>2, <2>3, SameTables, QuietStep
  <1>3. ASSUME NEW r \in Receivers, NEW i \in Instances, NEW to \in Reports, ReceiveStatus(r, i, to)
        PROVE  SlotInv'
    <2> DEFINE j == [NoJob EXCEPT !.inst = i, !.to = to]
    <2>1. r \in Procs /\ up' /\ row' = row /\ slot' = slot /\ Goto(r, "read", j)
      BY <1>3 DEF ReceiveStatus, At, Procs
    <2>2. j.inst \in Instances /\ j.to \in States
      BY DEF NoJob, Reports
    <2> HIDE DEF j
    <2> QED BY <2>1, <2>2, SameTables, QuietStep
  <1>4. ASSUME NEW n \in Nodes, \/ TouchHeartbeat(n) \/ AgentConnects(n)
                                \/ AgentDisconnects(n) \/ HeartbeatLapses(n)
        PROVE  SlotInv'
    BY <1>4, StillStep DEF TouchHeartbeat, AgentConnects, AgentDisconnects, HeartbeatLapses
  <1>5. ASSUME NEW p \in Procs, Cancel(p) PROVE SlotInv'
    BY <1>5, StillStep DEF Cancel
  <1>6. CASE Crash
    <2>1. /\ \A p \in Procs : pc'[p] = "idle"
          /\ row' = row /\ slot' = slot
      BY <1>6 DEF Crash
    <2>2. \A c \in Creators : pc'[c] = "idle" /\ Holding(c)' = {}
      BY <2>1 DEF Holding, Procs
    <2>3. DownIsIdle' /\ \A p \in Procs : NamesRow(p)'
      BY <2>1 DEF DownIsIdle, NamesRow
    <2>4. (\A c \in Creators : Remembers(c)') /\ ReservationsExclusive'
      BY <2>2 DEF Remembers, ReservationsExclusive
    <2>5. OwnershipConsistent'
      BY <2>1 DEF SlotInv, OwnershipConsistent, Exists
    <2> QED BY <2>3, <2>4, <2>5 DEF SlotInv
  <1> QED BY <1>1, <1>2, <1>3, <1>4, <1>5, <1>6 DEF Environment

\* A boot frees reservations when no handler runs: it frees orphans only.
LEMMA BootKeepsSlotInv ==
    ASSUME SlotInv, TypeOK', Boot
    PROVE  SlotInv'
  <1>1. \A p \in Procs : pc'[p] = "idle"
    BY DEF SlotInv, DownIsIdle, Boot
  <1>2. \A c \in Creators : pc'[c] = "idle" /\ Holding(c)' = {}
    BY <1>1 DEF Holding, Procs
  <1>3. DownIsIdle' /\ \A p \in Procs : NamesRow(p)'
    BY <1>1 DEF DownIsIdle, NamesRow
  <1>4. (\A c \in Creators : Remembers(c)') /\ ReservationsExclusive'
    BY <1>2 DEF Remembers, ReservationsExclusive
  <1>5. OwnershipConsistent'
    BY ConstantsAssumption DEF SlotInv, OwnershipConsistent, Exists, Boot, FreeSlot
  <1> QED BY <1>3, <1>4, <1>5 DEF SlotInv

\* The invariant that carries the two slot theorems.
LEMMA SlotInvHolds ==
    ASSUME "bind" \notin Lossy
    PROVE  Spec => []SlotInv
  <1>1. SlotInv /\ [Next]_vars => SlotInv'
    <2> SUFFICES ASSUME SlotInv, [Next]_vars PROVE SlotInv'
      OBVIOUS
    <2>0. TypeOK'
      <3>1. TypeOK
        BY DEF SlotInv
      <3>2. CASE Next
        BY <3>1, <3>2, TypeProcStep, TypeEnvironment DEF Next
      <3>3. CASE UNCHANGED vars
        BY <3>1, <3>3 DEF vars, TypeOK
      <3> QED BY <3>2, <3>3
    <2>1. CASE UNCHANGED vars
      BY <2>0, <2>1, StillStep DEF vars
    <2>2. ASSUME NEW p \in Procs, ProcStep(p) PROVE SlotInv'
      <3>1. CASE TransitionRead(p) \/ TransitionWrite(p) \/ ReleaseForInstance(p)
        BY <2>0, <3>1, TransitionKeepsSlotInv
      <3>2. CASE p \in Creators /\ CreateStep(p)
        BY <2>0, <3>2, ReserveKeepsSlotInv, CreateKeepsSlotInv, BindKeepsSlotInv,
           UnreserveKeepsSlotInv, DispatchKeepsSlotInv DEF CreateStep
      <3>3. CASE p \in Deleters /\ DeleteStep(p)
        BY <2>0, <3>3, DeleteKeepsSlotInv DEF DeleteStep
      <3>4. CASE p = Sweeper /\ SweepStep
        BY <2>0, <3>4, SweepKeepsSlotInv DEF SweepStep
      <3> QED BY <2>2, <3>1, <3>2, <3>3, <3>4 DEF ProcStep
    <2>3. CASE Environment
      BY <2>0, <2>3, EnvironmentKeepsSlotInv
    <2>4. CASE MarkStaleOffline
      BY <2>0, <2>4, SweepKeepsSlotInv
    <2>5. CASE Boot
      BY <2>0, <2>5, BootKeepsSlotInv
    <2> QED BY <2>1, <2>2, <2>3, <2>4, <2>5 DEF Next
  <1> QED BY <1>1, SlotInvInit, PTL DEF Spec

\* Two create handlers never hold the same slot, and what a handler holds is
\* reserved and unowned, for any number of handlers, slots, nodes, crashes and
\* failing calls: Bind and ReleaseReserved act on the caller's slots only.  The
\* assumption is needed: a handler whose bind took effect without an answer
\* goes on to release slots that may have been freed and reserved again.
THEOREM SlotsExclusive ==
    ASSUME "bind" \notin Lossy
    PROVE  Spec => []ReservationsExclusive
  <1>1. SlotInv => ReservationsExclusive
    BY DEF SlotInv
  <1>2. Spec => []SlotInv
    BY SlotInvHolds
  <1> QED BY <1>1, <1>2, PTL

\* A slot's owner is an existing row that asked for, and lists, that slot,
\* although the bind, the row's deletion and the releases are separate calls.
THEOREM OwnershipSound ==
    ASSUME "bind" \notin Lossy
    PROVE  Spec => []OwnershipConsistent
  <1>1. SlotInv => OwnershipConsistent
    BY DEF SlotInv
  <1>2. Spec => []SlotInv
    BY SlotInvHolds
  <1> QED BY <1>1, <1>2, PTL

-----------------------------------------------------------------------------
(* Where reservations may be left behind *)

\* Slot s stays reserved although no create handler is left to bind or to
\* release it; only the next boot will free it.
Orphan(s) ==
    up /\ slot[s].status = "reserved" /\ \A c \in Creators : s \notin Holding(c)

\* The handler that holds s undoes its create, and the database refuses.
ReleaseFails(s) ==
    \E c \in Creators : s \in Holding(c) /\ ReleaseReserved(c) /\ DbErr(c)

\* A reservation is committed for a handler that is told it failed.
ReserveLost(s) ==
    \E c \in Creators : /\ Reserve(c) /\ AnswerLost(c, "reserve")
                        /\ slot[s].status = "free" /\ slot'[s].status = "reserved"

\* A goroutine that keeps what it holds abandons nothing.
LEMMA KeptIsNoOrphan ==
    ASSUME TypeOK, up, NEW p \in Procs, NEW label, NEW j, Goto(p, label, j),
           NEW s \in Slots, slot[s].status = "reserved", Orphan(s)',
           p \in Creators /\ s \in Holding(p) => s \in Holding(p)'
    PROVE  Orphan(s)
  <1>1. ASSUME NEW c \in Creators, s \in Holding(c) PROVE FALSE
    <2>1. CASE c = p
      BY <1>1, <2>1 DEF Orphan
    <2>2. CASE c # p
      BY <1>1, <2>2, GotoFrame DEF Orphan
    <2> QED BY <2>1, <2>2
  <1> QED BY <1>1 DEF Orphan

\* A reservation has a GPU count, so a handler without one holds nothing.
LEMMA GpulessHoldsNothing ==
    ASSUME SlotInv, NEW c \in Creators, ~(job[c].gpus > 0)
    PROVE  Holding(c) = {}
  <1>1. ASSUME NEW s \in Holding(c) PROVE FALSE
    <2>1. s \in Slots /\ SlotGpus[s] = job[c].gpus
      BY <1>1, OwnReservation
    <2> QED BY <2>1, ConstantsAssumption
  <1> QED BY <1>1

\* A create handler leaves a slot reserved only where its release fails or
\* where it was never told of the reservation.
LEMMA CreatorAbandons ==
    ASSUME SlotInv, NEW p \in Creators, CreateStep(p), NEW s \in Slots, Orphan(s)',
           "bind" \notin Lossy
    PROVE  Orphan(s) \/ ReleaseFails(s) \/ ReserveLost(s)
  <1>0. TypeOK /\ p \in Procs /\ job[p] \in Job /\ up
    BY DEF SlotInv, TypeOK, Procs, CreateStep, Reserve, CreateInstance, BindToInstance,
           ReleaseReserved, DispatchCreate, DispatchCreateFails, DispatchPanics, At
  <1>s. slot'[s].status = "reserved" /\ \A c \in Creators : s \notin Holding(c)'
    BY DEF Orphan
  <1>1. CASE Reserve(p)
    <2>1. pc[p] = "validated" /\ Holding(p) = {}
      BY <1>1 DEF Reserve, At, Holding
    <2>2. CASE slot' = slot
      <3>1. PICK label, j : Goto(p, label, j)
        BY <1>1, Zenon DEF Reserve
      <3> QED BY <1>0, <1>s, <2>1, <2>2, <3>1, KeptIsNoOrphan
    <2>3. CASE AnswerLost(p, "reserve") /\ slot' # slot
      <3>0. PICK label, j : Goto(p, label, j)
        BY <1>1, Zenon DEF Reserve
      <3>1. PICK t \in FreeSlots(job[p].node, job[p].gpus) : slot' = [slot EXCEPT ![t] = Reserved]
        BY <1>1, <2>3, Zenon DEF Reserve
      <3>2. t \in Slots /\ slot[t].status = "free"
        BY DEF FreeSlots
      <3>3. CASE s = t
        BY <1>1, <1>s, <2>3, <3>2, <3>3 DEF ReserveLost
      <3>4. CASE s # t
        <4>1. slot'[s] = slot[s]
          BY <1>0, <3>1, <3>4 DEF TypeOK
        <4> QED BY <1>0, <1>s, <2>1, <3>0, <4>1, KeptIsNoOrphan
      <3> QED BY <3>3, <3>4
    <2>4. CASE ~AnswerLost(p, "reserve") /\ slot' # slot
      <3>1. PICK t \in FreeSlots(job[p].node, job[p].gpus), next \in {"reserved", "unreserve"} :
               slot' = [slot EXCEPT ![t] = Reserved] /\ Goto(p, next, [job[p] EXCEPT !.resv = {t}])
        BY <1>1, <2>4 DEF Reserve
      <3>2. pc'[p] = next /\ job'[p] = [job[p] EXCEPT !.resv = {t}]
        BY <1>0, <3>1, GotoFrame
      <3>3. Holding(p)' = {t}
        BY <1>0, <3>2 DEF Holding, Job
      <3>4. s # t
        BY <1>s, <3>3
      <3>5. slot'[s] = slot[s]
        BY <1>0, <3>1, <3>4 DEF TypeOK
      <3> QED BY <1>0, <1>s, <2>1, <3>1, <3>5, KeptIsNoOrphan
    <2> QED BY <2>2, <2>3, <2>4
  <1>2. CASE CreateInstance(p)
    <2>1. pc[p] = "reserved" /\ slot' = slot /\ Holding(p) = job[p].resv
      BY <1>2 DEF CreateInstance, At, Holding
    <2>2. CASE ~(job[p].gpus > 0)
      <3>1. PICK label, j : Goto(p, label, j)
        BY <1>2, Zenon DEF CreateInstance
      <3> QED BY <1>0, <1>s, <2>1, <2>2, <3>1, GpulessHoldsNothing, KeptIsNoOrphan
    <2>3. CASE job[p].gpus > 0
      <3>1. \/ Goto(p, "unreserve", job[p])
            \/ \E i \in Instances : Goto(p, "created", [job[p] EXCEPT !.inst = i])
        BY <1>2, <2>3 DEF CreateInstance
      <3>2. ASSUME NEW label \in {"unreserve", "created"}, NEW j, Goto(p, label, j),
                   j.resv = job[p].resv
            PROVE  Orphan(s)
        <4>1. pc'[p] = label /\ job'[p] = j
          BY <1>0, <3>2, GotoFrame
        <4>2. Holding(p)' = job[p].resv
          BY <3>2, <4>1 DEF Holding
        <4> QED BY <1>0, <1>s, <2>1, <3>2, <4>2, KeptIsNoOrphan
      <3>3. CASE Goto(p, "unreserve", job[p])
        BY <3>2, <3>3
      <3>4. ASSUME NEW i \in Instances, Goto(p, "created", [job[p] EXCEPT !.inst = i])
            PROVE  Orphan(s)
        <4>1. [job[p] EXCEPT !.inst = i].resv = job[p].resv
          BY <1>0 DEF Job
        <4> QED BY <3>2, <3>4, <4>1
      <3> QED BY <3>1, <3>3, <3>4
    <2> QED BY <2>2, <2>3
  <1>3. CASE BindToInstance(p)
    <2>1. pc[p] = "created" /\ Holding(p) = job[p].resv
      BY <1>3 DEF BindToInstance, At, Holding
    <2>2. CASE ~(job[p].gpus > 0)
      <3>1. slot' = slot /\ Goto(p, "bound", job[p])
        BY <1>3, <2>2 DEF BindToInstance
      <3> QED BY <1>0, <1>s, <2>2, <3>1, GpulessHoldsNothing, KeptIsNoOrphan
    <2>3. CASE job[p].gpus > 0 /\ Goto(p, "unreserve", job[p]) /\ slot' = slot
      <3>1. Holding(p)' = Holding(p)
        BY <1>0, <2>1, <2>3, GotoFrame DEF Holding
      <3> QED BY <1>0, <1>s, <2>3, <3>1, KeptIsNoOrphan
    <2>4. CASE /\ slot' = [t \in Slots |-> IF t \in job[p].resv
                                          THEN [status |-> "in_use", inst |-> job[p].inst]
                                          ELSE slot[t]]
               /\ Goto(p, "bound", job[p])
      <3>1. s \notin Holding(p) /\ slot'[s] = slot[s]
        BY <1>s, <2>1, <2>4
      <3> QED BY <1>0, <1>s, <2>4, <3>1, KeptIsNoOrphan
    <2> QED BY <1>0, <1>3, <2>2, <2>3, <2>4, ConstantsAssumption
        DEF BindToInstance, AnswerLost, Job
  <1>4. CASE ReleaseReserved(p)
    <2>1. pc[p] = "unreserve" /\ Holding(p) = job[p].resv
      BY <1>4 DEF ReleaseReserved, At, Holding
    <2>2. PICK label, j : Goto(p, label, j)
      BY <1>4, Zenon DEF ReleaseReserved
    <2>3. CASE DbErr(p) /\ slot' = slot
      <3>1. CASE s \in Holding(p)
        BY <1>4, <2>3, <3>1 DEF ReleaseFails
      <3>2. CASE s \notin Holding(p)
        BY <1>0, <1>s, <2>2, <2>3, <3>2, KeptIsNoOrphan
      <3> QED BY <3>1, <3>2
    <2>4. CASE slot' = [t \in Slots |-> IF t \in job[p].resv /\ slot[t].status = "reserved"
                                       THEN FreeSlot ELSE slot[t]]
      <3>1. slot'[s] = slot[s] /\ s \notin Holding(p)
        BY <1>s, <2>1, <2>4 DEF FreeSlot
      <3> QED BY <1>0, <1>s, <2>2, <3>1, KeptIsNoOrphan
    <2> QED BY <1>4, <2>3, <2>4 DEF ReleaseReserved
  <1>5. CASE DispatchCreate(p) \/ DispatchCreateFails(p) \/ DispatchPanics(p)
    <2>1. pc[p] = "bound" /\ slot' = slot /\ Holding(p) = {}
      BY <1>5 DEF DispatchCreate, DispatchCreateFails, DispatchPanics, At, Holding
    <2>2. PICK label, j : Goto(p, label, j)
      BY <1>5, Zenon DEF DispatchCreate, DispatchCreateFails, DispatchPanics
    <2> QED BY <1>0, <1>s, <2>1, <2>2, KeptIsNoOrphan
  <1> QED BY <1>1, <1>2, <1>3, <1>4, <1>5 DEF CreateStep

\* Transitions, releases by owner, deletes and the sweeper reserve nothing and
\* hold nothing.
LEMMA OthersAbandonNothing ==
    ASSUME SlotInv, NEW p \in Procs, NEW s \in Slots, Orphan(s)',
           \/ TransitionRead(p) \/ TransitionWrite(p) \/ ReleaseForInstance(p)
           \/ p \in Deleters /\ DeleteStep(p)
           \/ p = Sweeper /\ (SweepStep \/ MarkStaleOffline)
    PROVE  Orphan(s)
  <1>0. TypeOK /\ slot'[s].status = "reserved"
    BY DEF SlotInv, Orphan
  <1>1. up /\ (p \in Creators => Holding(p) = {})
    BY ProcsAssumption
    DEF TransitionRead, TransitionWrite, ReleaseForInstance, DeleteStep, DeleteRow, SendDestroy,
        SweepStep, ListInstances, ReapNext, MarkStaleOffline, At, Holding
  <1>2. slot[s].status = "reserved"
    <2>1. CASE slot' = slot
      BY <1>0, <2>1
    <2>2. CASE ReleaseForInstance(p)
      BY <1>0, <2>2 DEF ReleaseForInstance, FreeSlot
    <2>3. CASE DeleteRow(p)
      <3>1. slot[s] \in Slot
        BY <1>0 DEF TypeOK
      <3> QED BY <1>0, <2>3, <3>1 DEF DeleteRow, Slot
    <2> QED
      BY <2>1, <2>2, <2>3
      DEF TransitionRead, TransitionWrite, DeleteStep, SendDestroy, SweepStep, ListInstances,
          ReapNext, MarkStaleOffline
  <1>3. PICK label, j : Goto(p, label, j)
    <2>1. CASE TransitionRead(p) \/ TransitionWrite(p) \/ ReleaseForInstance(p)
      BY <2>1, Zenon DEF TransitionRead, TransitionWrite, ReleaseForInstance
    <2>2. CASE DeleteStep(p)
      BY <2>2, Zenon DEF DeleteStep, DeleteRow, SendDestroy
    <2>3. CASE p = Sweeper /\ (SweepStep \/ MarkStaleOffline)
      BY <2>3, Zenon DEF SweepStep, ListInstances, ReapNext, MarkStaleOffline
    <2> QED BY <2>1, <2>2, <2>3
  <1> QED BY <1>0, <1>1, <1>2, <1>3, KeptIsNoOrphan

\* Requests and events hold nothing yet; a crash leaves no process to serve,
\* and the boot that ends it frees what was reserved.
LEMMA EventsAbandonNothing ==
    ASSUME SlotInv, Environment \/ Boot, NEW s \in Slots, Orphan(s)'
    PROVE  Orphan(s)
  <1>0. TypeOK /\ slot'[s].status = "reserved" /\ up'
    BY DEF SlotInv, Orphan
  <1>1. ASSUME NEW p \in Procs, NEW label, NEW j, At(p, "idle"), Goto(p, label, j), slot' = slot
        PROVE  Orphan(s)
    BY <1>0, <1>1, KeptIsNoOrphan DEF At, Holding
  <1>2. CASE \E c \in Creators, n \in Nodes, g \in GpuCounts : validateCreate(c, n, g)
    BY <1>1, <1>2, Zenon DEF validateCreate, Procs
  <1>3. CASE \E d \in Deleters, i \in Instances : DeleteGet(d, i)
    BY <1>1, <1>3, Zenon DEF DeleteGet, Procs
  <1>4. CASE \E r \in Receivers, i \in Instances, to \in Reports : ReceiveStatus(r, i, to)
    BY <1>1, <1>4, Zenon DEF ReceiveStatus, Procs
  <1>5. CASE \/ \E n \in Nodes : \/ TouchHeartbeat(n) \/ AgentConnects(n)
                                 \/ AgentDisconnects(n) \/ HeartbeatLapses(n)
             \/ \E p \in Procs : Cancel(p)
    <2>1. UNCHANGED <<up, slot, pc, job>>
      BY <1>5 DEF TouchHeartbeat, AgentConnects, AgentDisconnects, HeartbeatLapses, Cancel
    <2> QED BY <2>1 DEF Orphan, Holding
  <1>6. CASE Crash
    BY <1>0, <1>6 DEF Crash
  <1>7. CASE Boot
    <2>1. slot'[s] = slot[s] /\ slot[s] # Reserved
      BY <1>0, <1>7 DEF Boot, FreeSlot
    <2>2. slot[s].inst \in Instances
      BY <1>0, <2>1 DEF TypeOK, Slot, Reserved
    <2>3. slot[s].status = "in_use"
      BY <2>2 DEF SlotInv, OwnershipConsistent
    <2> QED BY <1>0, <2>1, <2>3
  <1> QED BY <1>2, <1>3, <1>4, <1>5, <1>6, <1>7 DEF Environment

\* A step that leaves a reservation without a handler is one of the two.
LEMMA OrphanStep ==
    ASSUME SlotInv, [Next]_vars, NEW s \in Slots, Orphan(s)', "bind" \notin Lossy
    PROVE  Orphan(s) \/ ReleaseFails(s) \/ ReserveLost(s)
  <1>1. CASE UNCHANGED vars
    BY <1>1 DEF vars, Orphan, Holding
  <1>2. ASSUME NEW p \in Procs, ProcStep(p)
        PROVE  Orphan(s) \/ ReleaseFails(s) \/ ReserveLost(s)
    BY <1>2, CreatorAbandons, OthersAbandonNothing DEF ProcStep
  <1>3. CASE MarkStaleOffline
    BY <1>3, OthersAbandonNothing DEF Procs
  <1>4. CASE Environment \/ Boot
    BY <1>4, EventsAbandonNothing
  <1> QED BY <1>1, <1>2, <1>3, <1>4 DEF Next

\* A reservation is left without a handler in two ways only: ReleaseReserved,
\* whose error the create handler ignores, fails, or the answer to Reserve's
\* commit is lost, so that the handler returns without knowing of its slot.
\* Every other early return of a create either holds nothing or comes to that
\* release, a crash is followed by RecoverOrphanReservations before anything
\* is served, and nobody else can orphan a slot.
OrphansExplained ==
    [][\A s \in Slots : Orphan(s)' => Orphan(s) \/ ReleaseFails(s) \/ ReserveLost(s)]_vars

\* OrphansExplained, for any number of slots, goroutines, faults and crashes,
\* while binds are answered.
THEOREM OrphansSound ==
    ASSUME "bind" \notin Lossy
    PROVE  Spec => OrphansExplained
  <1>1. SlotInv /\ [Next]_vars =>
          [\A s \in Slots : Orphan(s)' => Orphan(s) \/ ReleaseFails(s) \/ ReserveLost(s)]_vars
    BY OrphanStep
  <1>2. Spec => []SlotInv
    BY SlotInvHolds
  <1> QED BY <1>1, <1>2, PTL DEF Spec, OrphansExplained

\* Nobody hangs up on a create, so no create handler loses its context.
CreatesUndisturbed == cancelled \cap Creators = {}

\* While calls succeed and clients wait for their answer, no reservation is
\* ever orphaned, crashes included: whoever must end it is under way.  This
\* is the safety half of ReservationsEnd.
THEOREM ReservationsHeld ==
    ASSUME MaxFaults = 0, Cancellable \cap Creators = {}, "bind" \notin Lossy
    PROVE  Spec => [](\A s \in Slots : ~Orphan(s))
  <1> DEFINE Inv == CreatesUndisturbed /\ \A s \in Slots : ~Orphan(s)
  <1>1. Init => Inv
    BY DEF Init, CreatesUndisturbed, Orphan, FreeSlot
  <1>2. SlotInv /\ Inv /\ [Next]_vars => Inv'
    <2> SUFFICES ASSUME SlotInv, Inv, [Next]_vars PROVE Inv'
      OBVIOUS
    <2>1. cancelled' \cap Creators = {}
      <3>1. \/ cancelled' \subseteq cancelled
            \/ \E p \in Procs : Cancel(p)
        <4>1. ASSUME NEW p, NEW label, NEW j, Goto(p, label, j)
              PROVE  cancelled' \subseteq cancelled
          BY <4>1 DEF Goto
        <4>2. ASSUME NEW p \in Procs, ProcStep(p)
              PROVE  cancelled' \subseteq cancelled
          <5>1. CASE TransitionRead(p) \/ TransitionWrite(p) \/ ReleaseForInstance(p)
            BY <4>1, <5>1, Zenon DEF TransitionRead, TransitionWrite, ReleaseForInstance
          <5>2. CASE CreateStep(p)
            BY <4>1, <5>2, Zenon
            DEF CreateStep, Reserve, CreateInstance, BindToInstance, ReleaseReserved,
                DispatchCreate, DispatchCreateFails, DispatchPanics
          <5>3. CASE DeleteStep(p)
            BY <4>1, <5>3, Zenon DEF DeleteStep, DeleteRow, SendDestroy
          <5>4. CASE p = Sweeper /\ SweepStep
            BY <4>1, <5>4, Zenon DEF SweepStep, ListInstances, ReapNext
          <5> QED BY <4>2, <5>1, <5>2, <5>3, <5>4 DEF ProcStep
        <4>3. CASE MarkStaleOffline
          BY <4>1, <4>3, Zenon DEF MarkStaleOffline
        <4>4. CASE \/ \E c \in Creators, n \in Nodes, g \in GpuCounts : validateCreate(c, n, g)
                   \/ \E d \in Deleters, i \in Instances : DeleteGet(d, i)
                   \/ \E r \in Receivers, i \in Instances, to \in Reports : ReceiveStatus(r, i, to)
          BY <4>1, <4>4, Zenon DEF validateCreate, DeleteGet, ReceiveStatus
        <4>5. CASE \/ \E n \in Nodes : \/ TouchHeartbeat(n) \/ AgentConnects(n)
                                       \/ AgentDisconnects(n) \/ HeartbeatLapses(n)
                   \/ Crash \/ Boot \/ UNCHANGED vars
          BY <4>5 DEF TouchHeartbeat, AgentConnects, AgentDisconnects, HeartbeatLapses, Crash,
                      Boot, vars
        <4> QED BY <4>2, <4>3, <4>4, <4>5 DEF Next, Environment
      <3>2. CASE cancelled' \subseteq cancelled
        BY <3>2 DEF CreatesUndisturbed
      <3>3. CASE \E p \in Procs : Cancel(p)
        BY <3>3 DEF Cancel, CreatesUndisturbed
      <3> QED BY <3>1, <3>2, <3>3
    <2>2. ASSUME NEW c \in Creators, DbErr(c) PROVE FALSE
      BY <2>2 DEF DbErr, CreatesUndisturbed, SlotInv, TypeOK
    <2>3. ASSUME NEW s \in Slots, Orphan(s)' PROVE FALSE
      BY <2>2, <2>3, OrphanStep DEF ReleaseFails, ReserveLost, AnswerLost
    <2> QED BY <2>1, <2>3 DEF CreatesUndisturbed
  <1>3. Spec => []SlotInv
    BY SlotInvHolds
  <1>4. Spec => []Inv
    BY <1>1, <1>2, <1>3, PTL DEF Spec
  <1> QED BY <1>4, PTL

-----------------------------------------------------------------------------
(* The tables and handlers implement SlotAllocator *)

\* What SlotHolder says of a slot, by its row and by who holds it.
HolderMeans(s) ==
    /\ slot[s].status = "free" => SlotHolder(s) = <<"free">>
    /\ \A c \in Creators : s \in Holding(c) => SlotHolder(s) = <<"handler", c>>
    /\ slot[s].status = "reserved" /\ (\A c \in Creators : s \notin Holding(c))
          => SlotHolder(s) = <<"orphan">>
    /\ slot[s].status = "in_use" /\ slot[s].inst # NoInst
          => SlotHolder(s) = <<"instance", slot[s].inst>>
    /\ slot[s].status = "in_use" /\ slot[s].inst = NoInst => SlotHolder(s) = <<"leaked">>

\* A reservation has one holder, so SlotHolder's choice is that handler.
LEMMA HolderMeaning == SlotInv => \A s \in Slots : HolderMeans(s)
  <1> SUFFICES ASSUME SlotInv, NEW s \in Slots PROVE HolderMeans(s)
    OBVIOUS
  <1>1. slot[s].status \in {"free", "reserved", "in_use"}
    BY DEF SlotInv, TypeOK, Slot
  <1>2. ASSUME NEW c \in Creators, s \in Holding(c)
        PROVE  slot[s].status = "reserved" /\ c = CHOOSE d \in Creators : s \in Holding(d)
    <2>1. slot[s] = Reserved /\ \A d \in Creators \ {c} : s \notin Holding(d)
      BY <1>2, OwnReservation
    <2>2. \E d \in Creators : s \in Holding(d)
      BY <1>2
    <2> QED BY <2>1, <2>2 DEF Reserved
  <1> QED BY <1>1, <1>2 DEF HolderMeans, SlotHolder

\* The same after a step.
LEMMA HolderMeaningNext == (SlotInv => \A s \in Slots : HolderMeans(s))'
  BY HolderMeaning, PTL

\* A handler is named as holder exactly of what it holds, an instance of what
\* it owns.
LEMMA HolderNames ==
    ASSUME SlotInv, NEW s \in Slots
    PROVE  /\ SlotHolder(s) = <<"free">> <=> slot[s].status = "free"
           /\ \A c \in Creators : SlotHolder(s) = <<"handler", c>> <=> s \in Holding(c)
           /\ \A i \in Instances : SlotHolder(s) = <<"instance", i>> <=> slot[s].inst = i
           /\ SlotHolder(s) = <<"orphan">> <=>
                 slot[s].status = "reserved" /\ \A c \in Creators : s \notin Holding(c)
  <1>1. HolderMeans(s)
    BY HolderMeaning
  <1>2. slot[s].status \in {"free", "reserved", "in_use"}
    BY DEF SlotInv, TypeOK, Slot
  <1>3. \A i \in Instances : slot[s].inst = i => slot[s].status = "in_use" /\ slot[s].inst # NoInst
    BY ConstantsAssumption DEF SlotInv, OwnershipConsistent
  <1>4. \A c \in Creators : s \in Holding(c) => slot[s].status = "reserved"
    BY OwnReservation DEF Reserved
  <1>5. \A c, i : /\ <<"free">> # <<"handler", c>> /\ <<"free">> # <<"instance", i>>
                  /\ <<"orphan">> # <<"handler", c>> /\ <<"orphan">> # <<"instance", i>>
                  /\ <<"leaked">> # <<"handler", c>> /\ <<"leaked">> # <<"instance", i>>
                  /\ <<"handler", c>> # <<"instance", i>>
    OBVIOUS
  <1>6. /\ <<"free">> # <<"orphan">> /\ <<"free">> # <<"leaked">> /\ <<"orphan">> # <<"leaked">>
        /\ \A c, d : <<"handler", c>> = <<"handler", d>> => c = d
        /\ \A c, d : <<"instance", c>> = <<"instance", d>> => c = d
    OBVIOUS
  <1>7. \/ slot[s].status = "free" /\ SlotHolder(s) = <<"free">>
        \/ /\ slot[s].status = "reserved" /\ SlotHolder(s) = <<"orphan">>
           /\ \A c \in Creators : s \notin Holding(c)
        \/ \E c \in Creators : slot[s].status = "reserved" /\ s \in Holding(c) /\ SlotHolder(s) = <<"handler", c>>
        \/ slot[s].status = "in_use" /\ slot[s].inst # NoInst /\ SlotHolder(s) = <<"instance", slot[s].inst>>
        \/ slot[s].status = "in_use" /\ slot[s].inst = NoInst /\ SlotHolder(s) = <<"leaked">>
    BY <1>1, <1>2, <1>4 DEF HolderMeans
  <1>a. SlotHolder(s) = <<"free">> <=> slot[s].status = "free"
    BY <1>5, <1>6, <1>7
  <1>b. ASSUME NEW c \in Creators PROVE SlotHolder(s) = <<"handler", c>> <=> s \in Holding(c)
    BY <1>1, <1>5, <1>6, <1>7 DEF HolderMeans
  <1>c. ASSUME NEW i \in Instances PROVE SlotHolder(s) = <<"instance", i>> <=> slot[s].inst = i
    BY <1>3, <1>5, <1>6, <1>7
  <1>d. SlotHolder(s) = <<"orphan">> <=>
                 slot[s].status = "reserved" /\ \A c \in Creators : s \notin Holding(c)
    BY <1>1, <1>5, <1>6, <1>7 DEF HolderMeans
  <1> QED BY <1>a, <1>b, <1>c, <1>d

\* Passing every slot of x to y, slot by slot.
LEMMA PassBySlot ==
    ASSUME NEW x, NEW y,
           \A s \in Slots : SlotHolder(s)' = IF SlotHolder(s) = x THEN y ELSE SlotHolder(s)
    PROVE  Allocator!Pass(x, y)
  BY DEF Allocator!Pass

\* Nobody's holding and no slot changed: the allocator stutters.
LEMMA SameHolders ==
    ASSUME slot' = slot, \A c \in Creators : Holding(c)' = Holding(c)
    PROVE  UNCHANGED [s \in Slots |-> SlotHolder(s)]
  <1>1. \A s \in Slots : SlotHolder(s)' = SlotHolder(s)
    BY DEF SlotHolder
  <1> QED BY <1>1

\* A slot whose row and holders did not change has the holder it had.
LEMMA SameHolder ==
    ASSUME NEW s \in Slots, slot'[s] = slot[s],
           \A c \in Creators : s \in Holding(c)' <=> s \in Holding(c)
    PROVE  SlotHolder(s)' = SlotHolder(s)
  <1>1. (CHOOSE c \in Creators : s \in Holding(c))' = CHOOSE c \in Creators : s \in Holding(c)
    OBVIOUS
  <1> QED BY <1>1 DEF SlotHolder

\* A step of the slot allocator, or none.
AllocatorStep == [Allocator!Next]_([s \in Slots |-> SlotHolder(s)])

\* A goroutine moves, no slot changes, and it goes on holding what it held.
LEMMA MoveStutters ==
    ASSUME SlotInv, NEW p \in Procs, NEW label, NEW j, Goto(p, label, j), slot' = slot,
           p \in Creators => Holding(p)' = Holding(p)
    PROVE  AllocatorStep
  <1>1. \A c \in Creators : Holding(c)' = Holding(c)
    BY GotoFrame DEF SlotInv
  <1> QED BY <1>1, SameHolders DEF AllocatorStep

\* A handler returns without its slot: the slot is orphaned.
LEMMA ForgettingAbandons ==
    ASSUME SlotInv, SlotInv', NEW p \in Creators, NEW label, NEW j, Goto(p, label, j), slot' = slot,
           Holding(p)' = {}
    PROVE  Allocator!Abandon(p)
  <1>1. \A c \in Creators : c # p => Holding(c)' = Holding(c)
    BY GotoFrame DEF SlotInv, Procs
  <1>2. ASSUME NEW s \in Slots
        PROVE  SlotHolder(s)' = IF SlotHolder(s) = <<"handler", p>> THEN <<"orphan">> ELSE SlotHolder(s)
    <2>1. CASE s \in Holding(p)
      <3>1. SlotHolder(s) = <<"handler", p>>
        BY <2>1, HolderNames
      <3>2. slot[s] = Reserved /\ \A d \in Creators \ {p} : s \notin Holding(d)
        BY <2>1, OwnReservation
      <3>3. slot'[s].status = "reserved" /\ \A d \in Creators : s \notin Holding(d)'
        BY <1>1, <3>2 DEF Reserved
      <3>4. HolderMeans(s)'
        BY HolderMeaningNext
      <3> QED BY <3>1, <3>3, <3>4 DEF HolderMeans
    <2>2. CASE s \notin Holding(p)
      <3>1. \A c \in Creators : s \in Holding(c)' <=> s \in Holding(c)
        BY <1>1, <2>2
      <3>2. SlotHolder(s)' = SlotHolder(s)
        BY <3>1, SameHolder
      <3>3. SlotHolder(s) # <<"handler", p>>
        BY <2>2, HolderNames
      <3> QED BY <3>2, <3>3
    <2> QED BY <2>1, <2>2
  <1>3. Allocator!Pass(<<"handler", p>>, <<"orphan">>)
    BY <1>2, PassBySlot
  <1> QED BY <1>3 DEF Allocator!Abandon, Allocator!By, Allocator!Orphan

\* The pick under the advisory lock gives one free slot to a handler with none,
\* or to nobody if the handler is not told.
LEMMA ReserveRefines ==
    ASSUME SlotInv, SlotInv', NEW p \in Creators, Reserve(p)
    PROVE  AllocatorStep
  <1>0. TypeOK /\ pc[p] = "validated" /\ p \in Procs
    BY DEF SlotInv, Reserve, At, Procs
  <1>j. job[p] \in Job /\ job[p].resv = {} /\ Holding(p) = {}
    BY <1>0 DEF TypeOK, SlotInv, Remembers, Holding
  <1>1. \/ Goto(p, "idle", NoJob) /\ slot' = slot
        \/ Goto(p, "reserved", job[p]) /\ slot' = slot
        \/ \E s \in FreeSlots(job[p].node, job[p].gpus), next \in {"reserved", "unreserve"} :
             slot' = [slot EXCEPT ![s] = Reserved] /\ Goto(p, next, [job[p] EXCEPT !.resv = {s}])
        \/ \E s \in FreeSlots(job[p].node, job[p].gpus) :
             slot' = [slot EXCEPT ![s] = Reserved] /\ Goto(p, "idle", NoJob)
    BY DEF Reserve
  <1>2. CASE Goto(p, "idle", NoJob) /\ slot' = slot
    <2>1. Holding(p)' = {}
      BY <1>0, <1>2, GotoFrame DEF Holding
    <2> QED BY <1>0, <1>j, <1>2, <2>1, MoveStutters
  <1>3. CASE Goto(p, "reserved", job[p]) /\ slot' = slot
    <2>1. Holding(p)' = {}
      BY <1>0, <1>j, <1>3, GotoFrame DEF Holding
    <2> QED BY <1>0, <1>j, <1>3, <2>1, MoveStutters
  <1>4. ASSUME NEW s \in FreeSlots(job[p].node, job[p].gpus), NEW next \in {"reserved", "unreserve"},
               slot' = [slot EXCEPT ![s] = Reserved], Goto(p, next, [job[p] EXCEPT !.resv = {s}])
        PROVE  Allocator!Reserve(p)
    <2>1. s \in Slots /\ slot[s].status = "free"
      BY DEF FreeSlots
    <2>2. pc'[p] = next /\ job'[p] = [job[p] EXCEPT !.resv = {s}]
      BY <1>0, <1>4, GotoFrame
    <2>3. Holding(p)' = {s}
      BY <1>j, <2>2 DEF Holding, Job
    <2>4. \A c \in Creators : c # p => Holding(c)' = Holding(c)
      BY <1>0, <1>4, GotoFrame
    <2>5. SlotHolder(s) = <<"free">>
      BY <2>1, HolderNames
    <2>6. SlotHolder(s)' = <<"handler", p>>
      BY <2>1, <2>3, HolderMeaningNext DEF HolderMeans
    <2>7. ASSUME NEW t \in Slots, t # s PROVE SlotHolder(t)' = SlotHolder(t)
      <3>1. slot'[t] = slot[t]
        BY <1>0, <1>4, <2>7 DEF TypeOK
      <3>2. \A c \in Creators : t \in Holding(c)' <=> t \in Holding(c)
        BY <1>j, <2>3, <2>4, <2>7
      <3> QED BY <3>1, <3>2, SameHolder
    <2>8. \A t \in Slots : SlotHolder(t) # <<"handler", p>>
      BY <1>j, HolderNames
    <2> QED BY <2>1, <2>5, <2>6, <2>7, <2>8
            DEF Allocator!Reserve, Allocator!HoldsNone, Allocator!By, Allocator!Free
  <1>5. ASSUME NEW s \in FreeSlots(job[p].node, job[p].gpus),
               slot' = [slot EXCEPT ![s] = Reserved], Goto(p, "idle", NoJob)
        PROVE  Allocator!Strand
    <2>1. s \in Slots /\ slot[s].status = "free"
      BY DEF FreeSlots
    <2>2. Holding(p)' = {}
      BY <1>0, <1>5, GotoFrame DEF Holding
    <2>3. \A c \in Creators : Holding(c)' = Holding(c)
      BY <1>0, <1>j, <1>5, <2>2, GotoFrame
    <2>4. SlotHolder(s) = <<"free">> /\ \A c \in Creators : s \notin Holding(c)
      BY <2>1, HolderNames, OwnReservation DEF Reserved
    <2>5. SlotHolder(s)' = <<"orphan">>
      <3>1. slot'[s].status = "reserved"
        BY <1>0, <1>5, <2>1 DEF TypeOK, Reserved
      <3>2. HolderMeans(s)'
        BY <2>1, HolderMeaningNext
      <3> QED BY <2>3, <2>4, <3>1, <3>2 DEF HolderMeans
    <2>6. ASSUME NEW t \in Slots, t # s PROVE SlotHolder(t)' = SlotHolder(t)
      <3>1. slot'[t] = slot[t]
        BY <1>0, <1>5, <2>6 DEF TypeOK
      <3> QED BY <2>3, <3>1, SameHolder
    <2> QED BY <2>1, <2>4, <2>5, <2>6 DEF Allocator!Strand, Allocator!Free, Allocator!Orphan
  <1>6. (\E h \in Creators : Allocator!Reserve(h)) \/ Allocator!Strand => AllocatorStep
    BY DEF AllocatorStep, Allocator!Next
  <1> QED BY <1>1, <1>2, <1>3, <1>4, <1>5, <1>6

\* A failed or successful insert moves no slot; a GPU-less one holds none.
LEMMA CreateRefines ==
    ASSUME SlotInv, SlotInv', NEW p \in Creators, CreateInstance(p)
    PROVE  AllocatorStep
  <1>0. TypeOK /\ pc[p] = "reserved" /\ p \in Procs /\ slot' = slot
    BY DEF SlotInv, CreateInstance, At, Procs
  <1>j. job[p] \in Job /\ Holding(p) = job[p].resv
    BY <1>0 DEF TypeOK, Holding
  <1>1. \/ Goto(p, "unreserve", job[p])
        \/ Goto(p, "idle", job[p])
        \/ \E i \in Instances : Goto(p, "created", [job[p] EXCEPT !.inst = i])
    <2>1. CASE job[p].gpus > 0
      BY <2>1 DEF CreateInstance
    <2>2. CASE ~(job[p].gpus > 0)
      BY <2>2 DEF CreateInstance
    <2> QED BY <2>1, <2>2
  <1>2. CASE Goto(p, "idle", job[p])
    <2>1. Holding(p)' = {}
      BY <1>0, <1>2, GotoFrame DEF Holding
    <2>2. Allocator!Abandon(p)
      BY <1>0, <1>2, <2>1, ForgettingAbandons
    <2> QED BY <2>2 DEF AllocatorStep, Allocator!Next
  <1>3. ASSUME NEW label \in {"unreserve", "created"}, NEW j, Goto(p, label, j), j.resv = job[p].resv
        PROVE  AllocatorStep
    <2>1. Holding(p)' = Holding(p)
      BY <1>0, <1>j, <1>3, GotoFrame DEF Holding
    <2> QED BY <1>0, <1>3, <2>1, MoveStutters
  <1>4. ASSUME NEW i \in Instances, Goto(p, "created", [job[p] EXCEPT !.inst = i])
        PROVE  AllocatorStep
    <2>1. [job[p] EXCEPT !.inst = i].resv = job[p].resv
      BY <1>j DEF Job
    <2> QED BY <1>3, <1>4, <2>1
  <1> QED BY <1>1, <1>2, <1>3, <1>4

\* A bind hands the handler's slots to the row it created, which owns none:
\* a slot it owned would be listed in the row, hence still held and unowned.
LEMMA BindRefines ==
    ASSUME SlotInv, SlotInv', NEW p \in Creators, BindToInstance(p), "bind" \notin Lossy
    PROVE  AllocatorStep
  <1>0. TypeOK /\ pc[p] = "created" /\ p \in Procs
    BY DEF SlotInv, BindToInstance, At, Procs
  <1>j. Holding(p) = job[p].resv /\ job[p].inst \in Instances
    BY <1>0 DEF SlotInv, NamesRow, Holding
  <1>1. \/ slot' = slot /\ Goto(p, "bound", job[p])
        \/ slot' = slot /\ Goto(p, "unreserve", job[p])
        \/ /\ Goto(p, "bound", job[p])
           /\ slot' = [s \in Slots |-> IF s \in job[p].resv
                          THEN [status |-> "in_use", inst |-> job[p].inst] ELSE slot[s]]
    BY DEF BindToInstance, AnswerLost
  <1>2. CASE slot' = slot /\ Goto(p, "bound", job[p])
    <2>1. Holding(p)' = {}
      BY <1>0, <1>2, GotoFrame DEF Holding
    <2>2. Allocator!Abandon(p)
      BY <1>2, <2>1, ForgettingAbandons
    <2> QED BY <2>2 DEF AllocatorStep, Allocator!Next
  <1>3. CASE slot' = slot /\ Goto(p, "unreserve", job[p])
    <2>1. Holding(p)' = Holding(p)
      BY <1>0, <1>3, GotoFrame DEF Holding
    <2> QED BY <1>0, <1>3, <2>1, MoveStutters
  <1>4. CASE /\ Goto(p, "bound", job[p])
             /\ slot' = [s \in Slots |-> IF s \in job[p].resv
                            THEN [status |-> "in_use", inst |-> job[p].inst] ELSE slot[s]]
    <2> DEFINE i == job[p].inst
    <2>1. Holding(p)' = {} /\ \A c \in Creators : c # p => Holding(c)' = Holding(c)
      BY <1>0, <1>4, GotoFrame DEF Holding
    <2>2. ASSUME NEW s \in Slots PROVE slot[s].inst # i
      <3>1. row[i].slots = job[p].resv
        BY <1>0 DEF SlotInv, Remembers
      <3>2. slot[s].inst = i => s \in Holding(p)
        BY <1>j, <3>1 DEF SlotInv, OwnershipConsistent
      <3>3. s \in Holding(p) => slot[s].inst = NoInst
        BY OwnReservation DEF Reserved
      <3> QED BY <1>j, <3>2, <3>3, ConstantsAssumption
    <2>3. \A s \in Slots : SlotHolder(s) # <<"instance", i>>
      BY <1>j, <2>2, HolderNames
    <2>4. ASSUME NEW s \in Slots
          PROVE  SlotHolder(s)' = IF SlotHolder(s) = <<"handler", p>> THEN <<"instance", i>>
                                  ELSE SlotHolder(s)
      <3>1. CASE s \in Holding(p)
        <4>1. SlotHolder(s) = <<"handler", p>>
          BY <3>1, HolderNames
        <4>2. slot'[s].status = "in_use" /\ slot'[s].inst = i /\ i # NoInst
          BY <1>j, <1>4, <3>1, ConstantsAssumption
        <4>3. HolderMeans(s)'
          BY HolderMeaningNext
        <4> QED BY <4>1, <4>2, <4>3 DEF HolderMeans
      <3>2. CASE s \notin Holding(p)
        <4>1. slot'[s] = slot[s] /\ \A c \in Creators : s \in Holding(c)' <=> s \in Holding(c)
          BY <1>j, <1>4, <2>1, <3>2
        <4>2. SlotHolder(s)' = SlotHolder(s)
          BY <4>1, SameHolder
        <4>3. SlotHolder(s) # <<"handler", p>>
          BY <3>2, HolderNames
        <4> QED BY <4>2, <4>3
      <3> QED BY <3>1, <3>2
    <2> HIDE DEF i
    <2>5. Allocator!Pass(<<"handler", p>>, <<"instance", i>>)
      BY <2>4, PassBySlot
    <2>6. Allocator!Bind(p, i) /\ i \in Instances
      BY <1>j, <2>3, <2>5 DEF Allocator!Bind, Allocator!HoldsNone, Allocator!By, Allocator!Of, i
    <2> QED BY <2>6 DEF AllocatorStep, Allocator!Next
  <1> QED BY <1>1, <1>2, <1>3, <1>4

\* ReleaseReserved gives the handler's slots back, or fails and orphans them.
LEMMA UnreserveRefines ==
    ASSUME SlotInv, SlotInv', NEW p \in Creators, ReleaseReserved(p)
    PROVE  AllocatorStep
  <1>0. TypeOK /\ pc[p] = "unreserve" /\ p \in Procs
    BY DEF SlotInv, ReleaseReserved, At, Procs
  <1>j. Holding(p) = job[p].resv
    BY <1>0 DEF Holding
  <1> DEFINE j == [job[p] EXCEPT !.to = "failed"]
  <1>1. PICK label \in {"idle", "read"} : Goto(p, label, j)
    BY DEF ReleaseReserved
  <1> HIDE DEF j
  <1>2. Holding(p)' = {} /\ \A c \in Creators : c # p => Holding(c)' = Holding(c)
    BY <1>0, <1>1, GotoFrame DEF Holding
  <1>3. CASE slot' = slot
    <2>1. Allocator!Abandon(p)
      BY <1>1, <1>2, <1>3, ForgettingAbandons
    <2> QED BY <2>1 DEF AllocatorStep, Allocator!Next
  <1>4. CASE slot' = [s \in Slots |-> IF s \in job[p].resv /\ slot[s].status = "reserved"
                                      THEN FreeSlot ELSE slot[s]]
    <2>1. ASSUME NEW s \in Slots
          PROVE  SlotHolder(s)' = IF SlotHolder(s) = <<"handler", p>> THEN <<"free">> ELSE SlotHolder(s)
      <3>1. CASE s \in Holding(p)
        <4>1. SlotHolder(s) = <<"handler", p>> /\ slot[s].status = "reserved"
          BY <3>1, HolderNames, OwnReservation DEF Reserved
        <4>2. slot'[s].status = "free"
          BY <1>j, <1>4, <3>1, <4>1 DEF FreeSlot
        <4>3. HolderMeans(s)'
          BY HolderMeaningNext
        <4> QED BY <4>1, <4>2, <4>3 DEF HolderMeans
      <3>2. CASE s \notin Holding(p)
        <4>1. slot'[s] = slot[s] /\ \A c \in Creators : s \in Holding(c)' <=> s \in Holding(c)
          BY <1>j, <1>2, <1>4, <3>2
        <4>2. SlotHolder(s)' = SlotHolder(s)
          BY <4>1, SameHolder
        <4>3. SlotHolder(s) # <<"handler", p>>
          BY <3>2, HolderNames
        <4> QED BY <4>2, <4>3
      <3> QED BY <3>1, <3>2
    <2>2. Allocator!Pass(<<"handler", p>>, <<"free">>)
      BY <2>1, PassBySlot
    <2>3. Allocator!GiveBack(p)
      BY <2>2 DEF Allocator!GiveBack, Allocator!By, Allocator!Free
    <2> QED BY <2>3 DEF AllocatorStep, Allocator!Next
  <1> QED BY <1>3, <1>4 DEF ReleaseReserved

\* The slots of one instance all change alike, and no handler's holding does.
LEMMA InstancePasses ==
    ASSUME SlotInv, SlotInv', NEW i \in Instances, NEW y,
           \A c \in Creators : Holding(c)' = Holding(c),
           \A s \in Slots : IF slot[s].inst = i THEN SlotHolder(s)' = y ELSE slot'[s] = slot[s]
    PROVE  Allocator!Pass(<<"instance", i>>, y)
  <1>1. ASSUME NEW s \in Slots
        PROVE  SlotHolder(s)' = IF SlotHolder(s) = <<"instance", i>> THEN y ELSE SlotHolder(s)
    <2>1. SlotHolder(s) = <<"instance", i>> <=> slot[s].inst = i
      BY HolderNames
    <2>2. CASE slot[s].inst = i
      BY <2>1, <2>2
    <2>3. CASE slot[s].inst # i
      BY <2>1, <2>3, SameHolder
    <2> QED BY <2>2, <2>3
  <1> QED BY <1>1, PassBySlot

\* ReleaseForInstance frees the slots of the row it names, and only those.
LEMMA TransitionRefines ==
    ASSUME SlotInv, SlotInv', NEW p \in Procs,
           TransitionRead(p) \/ TransitionWrite(p) \/ ReleaseForInstance(p)
    PROVE  AllocatorStep
  <1>0. TypeOK /\ pc[p] \in {"read", "write", "release"} /\ job[p].inst \in Instances
    BY DEF SlotInv, TransitionRead, TransitionWrite, ReleaseForInstance, At, NamesRow
  <1>1. PICK label \in {"idle", "send", "release", "next", "write", "read", "remove"} :
            Goto(p, label, job[p])
    BY NextLabels DEF TransitionRead, TransitionWrite, ReleaseForInstance
  <1>2. p \in Creators => Holding(p) = {} /\ Holding(p)' = {}
    BY <1>0, <1>1, GotoFrame DEF Holding
  <1>3. CASE slot' = slot
    BY <1>1, <1>2, <1>3, MoveStutters
  <1>4. CASE slot' = [s \in Slots |-> IF slot[s].inst = job[p].inst THEN FreeSlot ELSE slot[s]]
    <2>1. \A c \in Creators : Holding(c)' = Holding(c)
      BY <1>0, <1>1, <1>2, GotoFrame
    <2>2. ASSUME NEW s \in Slots
          PROVE  IF slot[s].inst = job[p].inst THEN SlotHolder(s)' = <<"free">> ELSE slot'[s] = slot[s]
      <3>1. slot'[s] = IF slot[s].inst = job[p].inst THEN FreeSlot ELSE slot[s]
        BY <1>4
      <3>2. HolderMeans(s)'
        BY HolderMeaningNext
      <3> QED BY <3>1, <3>2 DEF HolderMeans, FreeSlot
    <2>3. Allocator!Pass(<<"instance", job[p].inst>>, <<"free">>)
      BY <1>0, <2>1, <2>2, InstancePasses
    <2>4. Allocator!Release(job[p].inst)
      BY <2>3 DEF Allocator!Release, Allocator!Of, Allocator!Free
    <2> QED BY <1>0, <2>4 DEF AllocatorStep, Allocator!Next
  <1> QED BY <1>3, <1>4 DEF TransitionRead, TransitionWrite, ReleaseForInstance

\* Dispatching comes after the reservation ended; a row's removal only clears
\* the owner of its slots, which leaks the ones still in use.
LEMMA DeleteRefines ==
    ASSUME SlotInv, SlotInv', NEW p \in Deleters, DeleteRow(p) \/ SendDestroy(p)
    PROVE  AllocatorStep
  <1>0. TypeOK /\ pc[p] \in {"remove", "send"} /\ p \in Procs /\ Goto(p, "idle", NoJob)
    BY DEF SlotInv, DeleteRow, SendDestroy, At, Procs
  <1>i. job[p].inst \in Instances
    BY <1>0 DEF SlotInv, NamesRow
  <1>d. p \notin Creators
    BY ProcsAssumption
  <1>1. CASE slot' = slot
    BY <1>0, <1>d, <1>1, MoveStutters
  <1>2. CASE slot' = [s \in Slots |-> IF slot[s].inst = job[p].inst
                                      THEN [slot[s] EXCEPT !.inst = NoInst] ELSE slot[s]]
    <2>1. \A c \in Creators : Holding(c)' = Holding(c)
      BY <1>0, <1>d, GotoFrame
    <2>2. ASSUME NEW s \in Slots
          PROVE  IF slot[s].inst = job[p].inst THEN SlotHolder(s)' = <<"leaked">> ELSE slot'[s] = slot[s]
      <3>1. slot[s].inst = job[p].inst => slot[s].status = "in_use"
        BY <1>i DEF SlotInv, OwnershipConsistent
      <3>2. slot[s] \in Slot
        BY <1>0 DEF TypeOK
      <3>3. slot'[s] = IF slot[s].inst = job[p].inst THEN [slot[s] EXCEPT !.inst = NoInst] ELSE slot[s]
        BY <1>2
      <3>4. slot[s].inst = job[p].inst => slot'[s].status = "in_use" /\ slot'[s].inst = NoInst
        BY <3>1, <3>2, <3>3 DEF Slot
      <3>5. HolderMeans(s)'
        BY HolderMeaningNext
      <3> QED BY <3>3, <3>4, <3>5 DEF HolderMeans
    <2>3. Allocator!Pass(<<"instance", job[p].inst>>, <<"leaked">>)
      BY <1>i, <2>1, <2>2, InstancePasses
    <2>4. Allocator!Forget(job[p].inst)
      BY <2>3 DEF Allocator!Forget, Allocator!Of, Allocator!Leaked
    <2> QED BY <1>i, <2>4 DEF AllocatorStep, Allocator!Next
  <1> QED BY <1>1, <1>2 DEF DeleteRow, SendDestroy

\* Steps of goroutines that hold no slot and write none.
LEMMA OtherMovesRefine ==
    ASSUME SlotInv, NEW p \in Procs, NEW label, NEW j, Goto(p, label, j), slot' = slot,
           label \notin {"reserved", "created", "unreserve"},
           pc[p] \notin {"reserved", "created", "unreserve"}
    PROVE  AllocatorStep
  <1>1. Holding(p) = {} /\ Holding(p)' = {}
    BY GotoFrame DEF SlotInv, Holding
  <1> QED BY <1>1, MoveStutters

\* Dispatch, the sweeper and the start of a request or of a report.
LEMMA MovesRefine ==
    ASSUME SlotInv,
           \/ \E c \in Creators : DispatchCreate(c) \/ DispatchCreateFails(c) \/ DispatchPanics(c)
           \/ ListInstances \/ ReapNext \/ MarkStaleOffline
           \/ \E c \in Creators, n \in Nodes, g \in GpuCounts : validateCreate(c, n, g)
           \/ \E d \in Deleters, i \in Instances : DeleteGet(d, i)
           \/ \E r \in Receivers, i \in Instances, to \in Reports : ReceiveStatus(r, i, to)
    PROVE  AllocatorStep
  <1> DEFINE Moves(p) == /\ slot' = slot
                         /\ \E label, j :
                               /\ label \notin {"reserved", "created", "unreserve"}
                               /\ Goto(p, label, j)
                         /\ pc[p] \notin {"reserved", "created", "unreserve"}
  <1>1. ASSUME NEW c \in Creators, DispatchCreate(c) \/ DispatchCreateFails(c) \/ DispatchPanics(c)
        PROVE  Moves(c)
    BY <1>1 DEF DispatchCreate, DispatchCreateFails, DispatchPanics, At
  <1>2. ASSUME ListInstances \/ ReapNext \/ MarkStaleOffline PROVE Moves(Sweeper)
    <2>1. CASE ListInstances
      BY <2>1 DEF ListInstances, At
    <2>2. CASE ReapNext
      BY <2>2 DEF ReapNext, At
    <2>3. CASE MarkStaleOffline
      BY <2>3 DEF MarkStaleOffline, At
    <2> QED BY <1>2, <2>1, <2>2, <2>3
  <1>3. ASSUME NEW c \in Creators, NEW n \in Nodes, NEW g \in GpuCounts, validateCreate(c, n, g)
        PROVE  Moves(c)
    BY <1>3 DEF validateCreate, At
  <1>4. ASSUME NEW d \in Deleters, NEW i \in Instances, DeleteGet(d, i) PROVE Moves(d)
    BY <1>4 DEF DeleteGet, At
  <1>5. ASSUME NEW r \in Receivers, NEW i \in Instances, NEW to \in Reports, ReceiveStatus(r, i, to)
        PROVE  Moves(r)
    BY <1>5 DEF ReceiveStatus, At
  <1>6. ASSUME NEW p \in Procs, Moves(p) PROVE AllocatorStep
    BY <1>6, OtherMovesRefine
  <1> HIDE DEF Moves
  <1> QED BY <1>1, <1>2, <1>3, <1>4, <1>5, <1>6 DEF Procs

\* A crash orphans every reservation at once; the boot frees all orphans.
LEMMA CrashAndBootRefine ==
    ASSUME SlotInv, SlotInv', Crash \/ Boot
    PROVE  AllocatorStep
  <1>0. \A c \in Creators : Holding(c)' = {}
    BY DEF SlotInv, DownIsIdle, Crash, Boot, Holding, Procs
  <1>1. CASE Crash
    <2>1. ASSUME NEW s \in Slots
          PROVE  SlotHolder(s)' = IF \E h \in Creators : SlotHolder(s) = <<"handler", h>>
                                  THEN <<"orphan">> ELSE SlotHolder(s)
      <3>1. slot'[s] = slot[s]
        BY <1>1 DEF Crash
      <3>2. CASE \E h \in Creators : s \in Holding(h)
        <4>1. slot'[s].status = "reserved" /\ \E h \in Creators : SlotHolder(s) = <<"handler", h>>
          BY <3>1, <3>2, HolderNames, OwnReservation DEF Reserved
        <4>2. HolderMeans(s)'
          BY HolderMeaningNext
        <4> QED BY <1>0, <4>1, <4>2 DEF HolderMeans
      <3>3. CASE ~\E h \in Creators : s \in Holding(h)
        <4>1. \A h \in Creators : SlotHolder(s) # <<"handler", h>>
          BY <3>3, HolderNames
        <4>2. SlotHolder(s)' = SlotHolder(s)
          BY <1>0, <3>1, <3>3, SameHolder
        <4> QED BY <4>1, <4>2
      <3> QED BY <3>2, <3>3
    <2>2. Allocator!AbandonAll
      BY <2>1 DEF Allocator!AbandonAll, Allocator!By, Allocator!Orphan
    <2> QED BY <2>2 DEF AllocatorStep, Allocator!Next
  <1>2. CASE Boot
    <2>0. \A c \in Creators : Holding(c) = {}
      BY <1>2 DEF SlotInv, DownIsIdle, Boot, Holding, Procs
    <2>1. ASSUME NEW s \in Slots
          PROVE  SlotHolder(s)' = IF SlotHolder(s) = <<"orphan">> THEN <<"free">> ELSE SlotHolder(s)
      <3>0. slot[s] \in Slot
        BY DEF SlotInv, TypeOK
      <3>1. slot'[s] = IF slot[s] = Reserved THEN FreeSlot ELSE slot[s]
        BY <1>2 DEF Boot
      <3>2. SlotHolder(s) = <<"orphan">> <=> slot[s].status = "reserved"
        BY <2>0, HolderNames
      <3>3. slot[s].status = "reserved" <=> slot[s] = Reserved
        <4>1. slot[s].status = "reserved" => slot[s].inst = NoInst
          BY <3>0 DEF SlotInv, OwnershipConsistent, Slot
        <4> QED BY <3>0, <4>1 DEF Slot, Reserved
      <3>4. CASE slot[s] = Reserved
        <4>1. HolderMeans(s)'
          BY HolderMeaningNext
        <4>2. slot'[s].status = "free"
          BY <3>1, <3>4 DEF FreeSlot
        <4> QED BY <3>2, <3>3, <3>4, <4>1, <4>2 DEF HolderMeans
      <3>5. CASE slot[s] # Reserved
        <4>1. SlotHolder(s)' = SlotHolder(s)
          BY <1>0, <2>0, <3>1, <3>5, SameHolder
        <4> QED BY <3>2, <3>3, <3>5, <4>1
      <3> QED BY <3>4, <3>5
    <2>2. Allocator!Pass(<<"orphan">>, <<"free">>)
      BY <2>1, PassBySlot
    <2>3. Allocator!Recover
      BY <2>2 DEF Allocator!Recover, Allocator!Orphan, Allocator!Free
    <2> QED BY <2>3 DEF AllocatorStep, Allocator!Next
  <1> QED BY <1>1, <1>2

\* The control plane implements the slot allocator: whatever handlers,
\* receivers, the sweeper, failing calls, crashes and boots do, a slot goes
\* from free to one handler, from it to the instance it created or back, and
\* never from one holder straight to another.  (Binds are answered.)
THEOREM AllocatorImplemented ==
    ASSUME "bind" \notin Lossy
    PROVE  Spec => ImplementsAllocator
  <1>1. Init => Allocator!Init
    <2> SUFFICES ASSUME Init PROVE Allocator!Init
      OBVIOUS
    <2>1. SlotInv /\ \A s \in Slots : slot[s].status = "free"
      BY SlotInvInit DEF Init, FreeSlot
    <2>2. \A s \in Slots : SlotHolder(s) = <<"free">>
      BY <2>1, HolderNames
    <2> QED BY <2>2 DEF Allocator!Init, Allocator!Free
  <1>2. SlotInv /\ SlotInv' /\ [Next]_vars => AllocatorStep
    <2> SUFFICES ASSUME SlotInv, SlotInv', [Next]_vars PROVE AllocatorStep
      OBVIOUS
    <2>1. CASE UNCHANGED <<slot, pc, job>>
      <3>1. \A c \in Creators : Holding(c)' = Holding(c)
        BY <2>1 DEF Holding
      <3> QED BY <2>1, <3>1, SameHolders DEF AllocatorStep
    <2>2. ASSUME NEW p \in Procs, ProcStep(p) PROVE AllocatorStep
      <3>1. CASE TransitionRead(p) \/ TransitionWrite(p) \/ ReleaseForInstance(p)
        BY <3>1, TransitionRefines
      <3>2. CASE p \in Creators /\ CreateStep(p)
        BY <3>2, ReserveRefines, CreateRefines, BindRefines, UnreserveRefines, MovesRefine
           DEF CreateStep
      <3>3. CASE p \in Deleters /\ DeleteStep(p)
        BY <3>3, DeleteRefines DEF DeleteStep
      <3>4. CASE p = Sweeper /\ SweepStep
        BY <3>4, MovesRefine DEF SweepStep
      <3> QED BY <2>2, <3>1, <3>2, <3>3, <3>4 DEF ProcStep
    <2>3. CASE Environment
      <3>1. ASSUME NEW n \in Nodes, \/ TouchHeartbeat(n) \/ AgentConnects(n)
                                    \/ AgentDisconnects(n) \/ HeartbeatLapses(n)
            PROVE  AllocatorStep
        BY <2>1, <3>1 DEF TouchHeartbeat, AgentConnects, AgentDisconnects, HeartbeatLapses
      <3>2. ASSUME NEW p \in Procs, Cancel(p) PROVE AllocatorStep
        BY <2>1, <3>2 DEF Cancel
      <3> QED BY <2>3, <3>1, <3>2, MovesRefine, CrashAndBootRefine DEF Environment
    <2>4. CASE MarkStaleOffline
      BY <2>4, MovesRefine
    <2>5. CASE Boot
      BY <2>5, CrashAndBootRefine
    <2>6. CASE UNCHANGED vars
      BY <2>1, <2>6 DEF vars
    <2> QED BY <2>2, <2>3, <2>4, <2>5, <2>6 DEF Next
  <1>3. Spec => []SlotInv
    BY SlotInvHolds
  <1> QED BY <1>1, <1>2, <1>3, PTL DEF Spec, ImplementsAllocator, Allocator!Spec, AllocatorStep
=============================================================================
