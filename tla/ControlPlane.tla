----------------------------- MODULE ControlPlane -----------------------------
(***************************************************************************)
(* main-api's instance lifecycle over PostgreSQL.  The tables instances,   *)
(* gpu_slots and nodes are shared by concurrent goroutines, each of which  *)
(* makes one database call (or one transaction) per step:                  *)
(*                                                                         *)
(*   Creators   POST /instances handlers   (api/admin_instances.go)        *)
(*   Deleters   DELETE /instances/{id} handlers (admin and user)           *)
(*   Receivers  receive loops of agent streams  (grpc/agent_stream.go)     *)
(*   Sweeper    the stale-node sweeper                                     *)
(*                                                                         *)
(* Repo.Transition is a transaction at READ COMMITTED that SELECTs the row *)
(* without locking it and UPDATEs it afterwards, so it is two steps here.  *)
(* A database call fails for ever once its context is cancelled (the HTTP  *)
(* client or the agent went away) and may fail transiently MaxFaults times.*)
(* A failing call has no effect, except that the answer to the COMMIT of a *)
(* call in Lossy may be lost after the database has carried it out.        *)
(***************************************************************************)
EXTENDS AgentReports, Naturals, FiniteSets

CONSTANTS
    Nodes, Slots, Instances,  \* ids of rows; an instance id is used once
    NoNode, NoInst,           \* SQL null
    Creators, Deleters, Receivers, Sweeper,   \* goroutines
    SlotNode, SlotGpus,       \* gpu_slots.node_id and gpu_slots.gpu_count
    SlotRank,                 \* position in ReserveFreeSlots' ORDER BY
    GpuCounts,                \* gpu_count values clients ask for
    Cancellable,              \* goroutines whose context may be cancelled
    Lossy,                    \* calls that may return an error although they took effect
    MaxFaults, MaxCrashes     \* bounds on transient errors and on crashes

LossyCalls == {"reserve", "create", "bind", "transition", "mark"}

Procs == Creators \cup Deleters \cup Receivers \cup {Sweeper}

ASSUME ConstantsAssumption ==
    /\ NoNode \notin Nodes /\ NoInst \notin Instances
    /\ SlotNode \in [Slots -> Nodes]
    /\ SlotGpus \in [Slots -> Nat \ {0}]
    /\ SlotRank \in [Slots -> Nat]
    /\ GpuCounts \subseteq Nat
    /\ MaxFaults \in Nat /\ MaxCrashes \in Nat
    /\ Cancellable \subseteq Procs
    /\ Lossy \subseteq LossyCalls

ASSUME ProcsAssumption ==
    /\ Creators \cap Deleters = {} /\ Creators \cap Receivers = {}
    /\ Deleters \cap Receivers = {}
    /\ Sweeper \notin Creators \cup Deleters \cup Receivers

VARIABLES
    up,         \* main-api is serving
    node,       \* nodes table, heartbeat age and AgentRegistry entry per node
    row,        \* instances table
    slot,       \* gpu_slots table
    agent,      \* per instance: commands accepted for its agent, reports received
    pc, job,    \* per goroutine: next call and local variables
    sweep,      \* the sweeper's lists: nodes just marked, rows still to reap
    cancelled,  \* goroutines whose context is done
    budget      \* faults and crashes so far

vars == <<up, node, row, slot, agent, pc, job, sweep, cancelled, budget>>

-----------------------------------------------------------------------------
(* State *)

RowStates == States \cup {"unborn", "deleted"}

Node == [status: {"online", "offline"}, fresh: BOOLEAN, conn: BOOLEAN]
Row  == [state: RowStates, node: Nodes \cup {NoNode}, gpus: Nat, slots: SUBSET Slots]
Slot == [status: {"free", "reserved", "in_use"}, inst: Instances \cup {NoInst}]
Job  == [node: Nodes \cup {NoNode}, gpus: Nat, resv: SUBSET Slots,
         inst: Instances \cup {NoInst}, to: RowStates]

Labels == {"idle", "validated", "reserved", "created", "bound", "unreserve",
           "read", "write", "release", "remove", "send", "list", "next"}

NoRow    == [state |-> "unborn", node |-> NoNode, gpus |-> 0, slots |-> {}]
FreeSlot == [status |-> "free", inst |-> NoInst]
Reserved == [status |-> "reserved", inst |-> NoInst]
NoJob    == [node |-> NoNode, gpus |-> 0, resv |-> {}, inst |-> NoInst, to |-> "unborn"]

TypeOK ==
    /\ up \in BOOLEAN
    /\ node \in [Nodes -> Node]
    /\ row \in [Instances -> Row]
    /\ slot \in [Slots -> Slot]
    /\ agent \in [Instances -> Agent]
    /\ pc \in [Procs -> Labels]
    /\ job \in [Procs -> Job]
    /\ sweep \in [nodes: SUBSET Nodes, rows: SUBSET Instances]
    /\ cancelled \subseteq Procs
    /\ budget \in [faults: 0..MaxFaults, crashes: 0..MaxCrashes]

Init ==
    /\ up = TRUE
    /\ node = [n \in Nodes |-> [status |-> "online", fresh |-> TRUE, conn |-> TRUE]]
    /\ row = [i \in Instances |-> NoRow]
    /\ slot = [s \in Slots |-> FreeSlot]
    /\ agent = [i \in Instances |-> NewAgent]
    /\ pc = [p \in Procs |-> "idle"]
    /\ job = [p \in Procs |-> NoJob]
    /\ sweep = [nodes |-> {}, rows |-> {}]
    /\ cancelled = {}
    /\ budget = [faults |-> 0, crashes |-> 0]

-----------------------------------------------------------------------------
(* Goroutines and database calls *)

At(p, label) == up /\ pc[p] = label

\* Move p on; a goroutine that returns forgets its locals and its context.
Goto(p, label, j) ==
    /\ pc' = [pc EXCEPT ![p] = label]
    /\ job' = [job EXCEPT ![p] = IF label = "idle" THEN NoJob ELSE j]
    /\ cancelled' = IF label = "idle" THEN cancelled \ {p} ELSE cancelled

DbOk(p) == p \notin cancelled /\ UNCHANGED budget

DbErr(p) ==
    \/ p \in cancelled /\ UNCHANGED budget
    \/ /\ p \notin cancelled
       /\ budget.faults < MaxFaults
       /\ budget' = [budget EXCEPT !.faults = @ + 1]

\* The connection or the context died between the commit and its answer.  The
\* releases and the delete are not in LossyCalls: their callers ignore errors,
\* so a lost answer looks like success.
AnswerLost(p, call) == call \in Lossy /\ DbErr(p)

Exists(i) == row[i].state \in States

\* The HTTP client hangs up, or the agent's stream breaks, under a handler.
Cancel(p) ==
    /\ up /\ p \in Cancellable /\ pc[p] # "idle"
    /\ cancelled' = cancelled \cup {p}
    /\ UNCHANGED <<up, node, row, slot, agent, pc, job, sweep, budget>>

-----------------------------------------------------------------------------
(* Repo.Transition and slot.Repo.ReleaseForInstance, called from four places. *)

\* Where each caller continues after Transition returned outcome.
Continue(p, outcome) ==
    CASE p \in Creators  -> "idle"                                 \* markFailed
      [] p \in Deleters  -> IF outcome = "error" THEN "idle" ELSE "send"
      [] p \in Receivers -> IF outcome # "error" /\ IsTerminal(job[p].to)
                            THEN "release" ELSE "idle"
      [] OTHER           -> IF outcome = "error" THEN "next" ELSE "release"

\* SELECT the row (no lock) and check the state machine against what was read.
TransitionRead(p) ==
    LET i == job[p].inst IN
    /\ At(p, "read")
    /\ \/ DbErr(p) /\ Goto(p, Continue(p, "error"), job[p])
       \/ /\ DbOk(p)
          /\ Goto(p,
                  IF ~Exists(i) THEN Continue(p, "error")
                  ELSE IF CanTransition(row[i].state, job[p].to) THEN "write"
                  ELSE Continue(p, "invalid"),
                  job[p])
    /\ UNCHANGED <<up, node, row, slot, agent, sweep>>

\* UPDATE ... WHERE id, INSERT the audit event, COMMIT.
TransitionWrite(p) ==
    LET i == job[p].inst IN
    /\ At(p, "write")
    /\ \/ DbErr(p) /\ Goto(p, Continue(p, "error"), job[p]) /\ UNCHANGED row
       \/ /\ DbOk(p) /\ ~Exists(i)
          /\ Goto(p, Continue(p, "error"), job[p]) /\ UNCHANGED row
       \/ /\ DbOk(p) /\ Exists(i)
          /\ row' = [row EXCEPT ![i].state = job[p].to]
          /\ Goto(p, Continue(p, "ok"), job[p])
       \/ /\ AnswerLost(p, "transition") /\ Exists(i)
          /\ row' = [row EXCEPT ![i].state = job[p].to]
          /\ Goto(p, Continue(p, "error"), job[p])
    /\ UNCHANGED <<up, node, slot, agent, sweep>>

\* What follows a release: markFailed, row removal, return, the next row.
AfterRelease(p) ==
    CASE p \in Creators  -> "read"
      [] p \in Deleters  -> "remove"
      [] p \in Receivers -> "idle"
      [] OTHER           -> "next"

\* Releasing by the row's slot list instead of by current_instance_id.
ReleaseForInstance_ByIndex(p) ==
    /\ At(p, "release")
    /\ \/ DbErr(p) /\ UNCHANGED slot
       \/ /\ DbOk(p)
          /\ slot' = [s \in Slots |-> IF s \in row[job[p].inst].slots THEN FreeSlot ELSE slot[s]]
    /\ Goto(p, AfterRelease(p), job[p])
    /\ UNCHANGED <<up, node, row, agent, sweep>>

\* UPDATE gpu_slots ... WHERE current_instance_id; every caller ignores errors.
ReleaseForInstance(p) ==
    /\ At(p, "release")
    /\ \/ DbErr(p) /\ UNCHANGED slot
       \/ /\ DbOk(p)
          /\ slot' = [s \in Slots |-> IF slot[s].inst = job[p].inst THEN FreeSlot ELSE slot[s]]
    /\ Goto(p, AfterRelease(p), job[p])
    /\ UNCHANGED <<up, node, row, agent, sweep>>

-----------------------------------------------------------------------------
(* Create: validateCreate, Reserve, Instances.Create, Bind, dispatch. *)

\* Bound on the model: a request starts only if an instance id is left for it.
IdLeft ==
    Cardinality({i \in Instances : row[i].state = "unborn"})
        > Cardinality({c \in Creators : pc[c] \in {"validated", "reserved"}})

validateCreate(c, n, g) ==
    /\ At(c, "idle") /\ IdLeft
    /\ node[n].status = "online" /\ node[n].conn
    /\ Goto(c, "validated", [NoJob EXCEPT !.node = n, !.gpus = g])
    /\ UNCHANGED <<up, node, row, slot, agent, sweep, budget>>

FreeSlots(n, g) ==
    {s \in Slots : SlotNode[s] = n /\ SlotGpus[s] = g /\ slot[s].status = "free"}

\* Without the advisory lock two handlers may pick the slot both saw free.
Reserve_NoLock(c) ==
    LET n == job[c].node  g == job[c].gpus
        seen == {s \in Slots : SlotNode[s] = n /\ SlotGpus[s] = g /\ slot[s].status # "in_use"} IN
    /\ At(c, "validated")
    /\ \E s \in seen :
          /\ slot' = [slot EXCEPT ![s] = Reserved]
          /\ Goto(c, "reserved", [job[c] EXCEPT !.resv = {s}])
    /\ UNCHANGED <<up, node, row, agent, sweep, budget>>

\* LIMIT re-evaluated per outer row: every free slot of the size is flipped.
Reserve_NoLimit(c) ==
    LET picked == FreeSlots(job[c].node, job[c].gpus) IN
    /\ At(c, "validated") /\ DbOk(c) /\ picked # {}
    /\ slot' = [s \in Slots |-> IF s \in picked THEN Reserved ELSE slot[s]]
    /\ Goto(c, "reserved", [job[c] EXCEPT !.resv = picked])
    /\ UNCHANGED <<up, node, row, agent, sweep>>

\* reserveIfNeeded up to slot.Repo.Reserve(node, gpu_count, 1): the advisory
\* lock makes the pick and the flip one step; a GPU-less request skips it.
\* The PCI resolution that follows may fail and go to the release.  On an
\* error the handler knows of no slot and releases none.
Reserve(c) ==
    LET n == job[c].node  g == job[c].gpus IN
    /\ At(c, "validated")
    /\ \/ /\ g = 0
          /\ Goto(c, "reserved", job[c]) /\ UNCHANGED <<slot, budget>>
       \/ g > 0 /\ DbErr(c) /\ Goto(c, "idle", NoJob) /\ UNCHANGED slot
       \/ /\ g > 0 /\ DbOk(c) /\ FreeSlots(n, g) = {}
          /\ Goto(c, "idle", NoJob) /\ UNCHANGED slot
       \/ /\ g > 0
          /\ \E s \in FreeSlots(n, g) :
                /\ \A t \in FreeSlots(n, g) : SlotRank[s] <= SlotRank[t]
                /\ slot' = [slot EXCEPT ![s] = Reserved]
                /\ \/ /\ DbOk(c)
                      /\ \E next \in {"reserved", "unreserve"} :
                            Goto(c, next, [job[c] EXCEPT !.resv = {s}])
                   \/ AnswerLost(c, "reserve") /\ Goto(c, "idle", NoJob)
    /\ UNCHANGED <<up, node, row, agent, sweep>>

\* Instances.Create; on failure the reservation is released (if any).
CreateInstance(c) ==
    /\ At(c, "reserved")
    /\ \/ /\ DbErr(c) /\ UNCHANGED row
          /\ Goto(c, IF job[c].gpus > 0 THEN "unreserve" ELSE "idle", job[c])
       \/ \E i \in Instances :
             /\ row[i].state = "unborn"
             /\ row' = [row EXCEPT ![i] = [state |-> "pending", node |-> job[c].node,
                                           gpus |-> job[c].gpus, slots |-> job[c].resv]]
             /\ \/ DbOk(c) /\ Goto(c, "created", [job[c] EXCEPT !.inst = i])
                \/ /\ AnswerLost(c, "create")
                   /\ Goto(c, IF job[c].gpus > 0 THEN "unreserve" ELSE "idle", job[c])
    /\ UNCHANGED <<up, node, slot, agent, sweep>>

\* Waiting for the agent with the reservation held.
BindToInstance_Waits(c) ==
    /\ At(c, "created") /\ job[c].gpus > 0 /\ node[job[c].node].conn /\ DbOk(c)
    /\ slot' = [s \in Slots |-> IF s \in job[c].resv
                                THEN [status |-> "in_use", inst |-> job[c].inst] ELSE slot[s]]
    /\ Goto(c, "bound", job[c])
    /\ UNCHANGED <<up, node, row, agent, sweep>>

\* BindToInstance: all reserved slots or none; the foreign key needs the row.
BindToInstance(c) ==
    LET i == job[c].inst
        ok == Exists(i) /\ \A s \in job[c].resv : slot[s].status = "reserved" IN
    /\ At(c, "created")
    /\ \/ job[c].gpus = 0 /\ Goto(c, "bound", job[c]) /\ UNCHANGED <<slot, budget>>
       \/ /\ job[c].gpus > 0
          /\ DbErr(c) \/ (DbOk(c) /\ ~ok)
          /\ Goto(c, "unreserve", job[c]) /\ UNCHANGED slot
       \/ /\ job[c].gpus > 0 /\ ok
          /\ slot' = [s \in Slots |-> IF s \in job[c].resv
                                      THEN [status |-> "in_use", inst |-> i] ELSE slot[s]]
          /\ \/ DbOk(c) /\ Goto(c, "bound", job[c])
             \/ AnswerLost(c, "bind") /\ Goto(c, "unreserve", job[c])
    /\ UNCHANGED <<up, node, row, agent, sweep>>

\* ReleaseReserved (errors ignored), then markFailed if a row was inserted.
ReleaseReserved(c) ==
    /\ At(c, "unreserve")
    /\ \/ DbErr(c) /\ UNCHANGED slot
       \/ /\ DbOk(c)
          /\ slot' = [s \in Slots |-> IF s \in job[c].resv /\ slot[s].status = "reserved"
                                      THEN FreeSlot ELSE slot[s]]
    /\ Goto(c, IF job[c].inst = NoInst THEN "idle" ELSE "read",
            [job[c] EXCEPT !.to = "failed"])
    /\ UNCHANGED <<up, node, row, agent, sweep>>

\* dispatchCreate: the registry took the message; the handler answers 201.
DispatchCreate(c) ==
    LET i == job[c].inst IN
    /\ At(c, "bound") /\ node[job[c].node].conn
    /\ agent' = [agent EXCEPT ![i] = Tell(@, "create")]
    /\ Goto(c, "idle", NoJob)
    /\ UNCHANGED <<up, node, row, slot, sweep, budget>>

\* No stream, or a send buffer blocked past agentSendTimeout: undo, answer 502.
DispatchCreateFails(c) ==
    /\ At(c, "bound")
    /\ Goto(c, IF job[c].gpus > 0 THEN "release" ELSE "read",
            [job[c] EXCEPT !.to = "failed"])
    /\ UNCHANGED <<up, node, row, slot, agent, sweep, budget>>

\* Send found the entry of a stream that is ending and panicked on its closed
\* channel: net/http drops the request, and nothing is undone.
DispatchPanics(c) ==
    /\ At(c, "bound") /\ node[job[c].node].conn
    /\ Goto(c, "idle", NoJob)
    /\ UNCHANGED <<up, node, row, slot, agent, sweep, budget>>

-----------------------------------------------------------------------------
(* Delete *)

\* The handler reads the row once and decides on what it read.
DeleteGet(d, i) ==
    /\ At(d, "idle") /\ Exists(i)
    /\ Goto(d, IF IsTerminal(row[i].state) THEN "release" ELSE "read",
            [NoJob EXCEPT !.inst = i, !.node = row[i].node, !.to = "stopping"])
    /\ UNCHANGED <<up, node, row, slot, agent, sweep, budget>>

\* Removing the row without the ON DELETE SET NULL of gpu_slots.
DeleteRow_Dangling(d) ==
    /\ At(d, "remove") /\ DbOk(d)
    /\ row' = [row EXCEPT ![job[d].inst].state = "deleted"]
    /\ Goto(d, "idle", NoJob)
    /\ UNCHANGED <<up, node, slot, agent, sweep>>

\* DELETE FROM instances; ON DELETE SET NULL clears the owner, not the status.
DeleteRow(d) ==
    LET i == job[d].inst IN
    /\ At(d, "remove")
    /\ \/ DbErr(d) /\ UNCHANGED <<row, slot>>
       \/ /\ DbOk(d)
          /\ row' = [row EXCEPT ![i].state = "deleted"]
          /\ slot' = [s \in Slots |-> IF slot[s].inst = i
                                      THEN [slot[s] EXCEPT !.inst = NoInst] ELSE slot[s]]
    /\ Goto(d, "idle", NoJob)
    /\ UNCHANGED <<up, node, agent, sweep>>

\* Dispatcher.Send(DestroyInstance); ErrAgentNotConnected is swallowed.
SendDestroy(d) ==
    /\ At(d, "send")
    /\ \/ /\ node[job[d].node].conn
          /\ agent' = [agent EXCEPT ![job[d].inst] = Tell(@, "destroy")]
       \/ UNCHANGED agent
    /\ Goto(d, "idle", NoJob)
    /\ UNCHANGED <<up, node, row, slot, sweep, budget>>

-----------------------------------------------------------------------------
(* Agent streams *)

\* applyInstanceStatus starts on one message of an open stream.
ReceiveStatus(r, i, to) ==
    /\ At(r, "idle") /\ agent[i].told # {} /\ node[row[i].node].conn
    /\ MayReport(agent[i], to)
    /\ agent' = [agent EXCEPT ![i] = AfterReport(@, to)]
    /\ Goto(r, "read", [NoJob EXCEPT !.inst = i, !.to = to])
    /\ UNCHANGED <<up, node, row, slot, sweep, budget>>

\* TouchHeartbeat: the row is fresh again and back online.
TouchHeartbeat(n) ==
    /\ up /\ node[n].conn
    /\ node' = [node EXCEPT ![n].fresh = TRUE, ![n].status = "online"]
    /\ UNCHANGED <<up, row, slot, agent, pc, job, sweep, cancelled, budget>>

\* Stream: Register accepted, UpsertOnline, registry entry stored.
AgentConnects(n) ==
    /\ up /\ ~node[n].conn
    /\ node' = [node EXCEPT ![n] = [status |-> "online", fresh |-> TRUE, conn |-> TRUE]]
    /\ UNCHANGED <<up, row, slot, agent, pc, job, sweep, cancelled, budget>>

\* The stream handler returned and removed its registry entry.
AgentDisconnects(n) ==
    /\ up /\ node[n].conn
    /\ node' = [node EXCEPT ![n].conn = FALSE]
    /\ UNCHANGED <<up, row, slot, agent, pc, job, sweep, cancelled, budget>>

\* The stale TTL passes without a heartbeat, connected or not.
HeartbeatLapses(n) ==
    /\ node[n].fresh
    /\ node' = [node EXCEPT ![n].fresh = FALSE]
    /\ UNCHANGED <<up, row, slot, agent, pc, job, sweep, cancelled, budget>>

-----------------------------------------------------------------------------
(* Stale sweeper *)

Stale == {n \in Nodes : node[n].status # "offline" /\ ~node[n].fresh}

\* Flip every node without a fresh heartbeat, and remember which ones flipped;
\* a tick that returns an error reaps nothing, and no later tick flips them.
MarkStaleOffline ==
    /\ At(Sweeper, "idle") /\ Stale # {}
    /\ node' = [n \in Nodes |-> IF n \in Stale THEN [node[n] EXCEPT !.status = "offline"]
                                ELSE node[n]]
    /\ \/ /\ DbOk(Sweeper)
          /\ sweep' = [nodes |-> Stale, rows |-> {}]
          /\ Goto(Sweeper, "list", NoJob)
       \/ AnswerLost(Sweeper, "mark") /\ Goto(Sweeper, "idle", NoJob) /\ UNCHANGED sweep
    /\ UNCHANGED <<up, row, slot, agent>>

\* The rows ListNonTerminalInstancesForNode selects; stopping is not among them.
Reapable(n) ==
    {i \in Instances : row[i].node = n /\ row[i].state \in {"pending", "provisioning", "running"}}

\* reapInstancesForOfflineNode: list one node's rows, or give the node up.
ListInstances ==
    /\ At(Sweeper, "list")
    /\ \E n \in sweep.nodes :
          \/ DbErr(Sweeper) /\ sweep' = [nodes |-> sweep.nodes \ {n}, rows |-> {}]
          \/ DbOk(Sweeper) /\ sweep' = [nodes |-> sweep.nodes \ {n}, rows |-> Reapable(n)]
    /\ Goto(Sweeper, "next", NoJob)
    /\ UNCHANGED <<up, node, row, slot, agent>>

\* Fail the next row, or go on to the next node, or wait for the next tick.
ReapNext ==
    /\ At(Sweeper, "next")
    /\ \/ \E i \in sweep.rows :
             /\ sweep' = [sweep EXCEPT !.rows = @ \ {i}]
             /\ Goto(Sweeper, "read", [NoJob EXCEPT !.inst = i, !.to = "failed"])
       \/ /\ sweep.rows = {} /\ UNCHANGED sweep
          /\ Goto(Sweeper, IF sweep.nodes = {} THEN "idle" ELSE "list", NoJob)
    /\ UNCHANGED <<up, node, row, slot, agent, budget>>

-----------------------------------------------------------------------------
(* Process crash and boot *)

Crash ==
    /\ up /\ budget.crashes < MaxCrashes
    /\ up' = FALSE
    /\ budget' = [budget EXCEPT !.crashes = @ + 1]
    /\ pc' = [p \in Procs |-> "idle"]
    /\ job' = [p \in Procs |-> NoJob]
    /\ cancelled' = {}
    /\ sweep' = [nodes |-> {}, rows |-> {}]
    /\ node' = [n \in Nodes |-> [node[n] EXCEPT !.conn = FALSE]]
    /\ UNCHANGED <<row, slot, agent>>

\* RecoverOrphanReservations runs before any listener is started.
Boot ==
    /\ ~up /\ up' = TRUE
    /\ slot' = [s \in Slots |-> IF slot[s] = Reserved THEN FreeSlot ELSE slot[s]]
    /\ UNCHANGED <<node, row, agent, pc, job, sweep, cancelled, budget>>

-----------------------------------------------------------------------------
(* Specification *)

CreateStep(c) ==
    \/ Reserve(c) \/ CreateInstance(c) \/ BindToInstance(c)
    \/ ReleaseReserved(c) \/ DispatchCreate(c) \/ DispatchCreateFails(c)
    \/ DispatchPanics(c)

DeleteStep(d) == DeleteRow(d) \/ SendDestroy(d)

SweepStep == ListInstances \/ ReapNext

\* The calls a goroutine makes once it runs, whoever it belongs to.
ProcStep(p) ==
    \/ TransitionRead(p) \/ TransitionWrite(p) \/ ReleaseForInstance(p)
    \/ p \in Creators /\ CreateStep(p)
    \/ p \in Deleters /\ DeleteStep(p)
    \/ p = Sweeper /\ SweepStep

Environment ==
    \/ \E c \in Creators, n \in Nodes, g \in GpuCounts : validateCreate(c, n, g)
    \/ \E d \in Deleters, i \in Instances : DeleteGet(d, i)
    \/ \E r \in Receivers, i \in Instances, to \in Reports : ReceiveStatus(r, i, to)
    \/ \E n \in Nodes : \/ TouchHeartbeat(n) \/ AgentConnects(n)
                        \/ AgentDisconnects(n) \/ HeartbeatLapses(n)
    \/ \E p \in Procs : Cancel(p)
    \/ Crash

Next ==
    \/ \E p \in Procs : ProcStep(p)
    \/ MarkStaleOffline
    \/ Boot
    \/ Environment

Spec == Init /\ [][Next]_vars

\* Go schedules every runnable goroutine, the sweeper's ticker keeps ticking
\* and the process manager restarts main-api.
Fairness ==
    /\ \A p \in Procs : WF_vars(ProcStep(p))
    /\ WF_vars(MarkStaleOffline)
    /\ WF_vars(Boot)

FairSpec == Spec /\ Fairness

-----------------------------------------------------------------------------
(* Properties *)

\* The slots creator c holds between Reserve and Bind (or release).
Holding(c) == IF pc[c] \in {"reserved", "created", "unreserve"} THEN job[c].resv ELSE {}

\* Reserve's advisory lock and the status guards of Bind and of the releases
\* keep reservations exclusive: a slot some create handler holds is reserved,
\* unowned, and held by no other handler, whatever runs in between.
ReservationsExclusive ==
    \A c \in Creators : \A s \in Holding(c) :
        /\ slot[s] = Reserved
        /\ \A d \in Creators \ {c} : s \notin Holding(d)

\* gpu_slots.current_instance_id agrees with the instances table: an owned
\* slot is in_use, its owner's row exists, lists the slot, and asked for that
\* node and size.
OwnershipConsistent ==
    \A s \in Slots : \A i \in Instances : slot[s].inst = i =>
        /\ slot[s].status = "in_use"
        /\ Exists(i)
        /\ s \in row[i].slots
        /\ SlotNode[s] = row[i].node
        /\ SlotGpus[s] = row[i].gpus

\* A reservation ends: the handler binds or releases it, or the process dies
\* and the next boot frees it.
ReservationsEnd ==
    \A s \in Slots : slot[s].status = "reserved" ~> slot[s].status # "reserved"

\* "The target state must be reachable from the current state per the state
\* machine" (Transition): an existing row moves only along allowedTransitions.
TransitionsFollowStateMachine ==
    [][\A i \in Instances : Exists(i) /\ row'[i].state \in States
          => CanTransition(row[i].state, row'[i].state)]_row

-----------------------------------------------------------------------------
(* Refinement *)

\* Who holds slot s in the terms of SlotAllocator.
SlotHolder(s) ==
    CASE slot[s].status = "free" -> <<"free">>
      [] slot[s].status = "reserved" /\ (\E c \in Creators : s \in Holding(c)) ->
             <<"handler", CHOOSE c \in Creators : s \in Holding(c)>>
      [] slot[s].status = "in_use" /\ slot[s].inst # NoInst -> <<"instance", slot[s].inst>>
      [] slot[s].status = "in_use" /\ slot[s].inst = NoInst -> <<"leaked">>
      [] OTHER -> <<"orphan">>

Allocator == INSTANCE SlotAllocator
             WITH Handlers <- Creators, holder <- [s \in Slots |-> SlotHolder(s)]

\* The tables and handlers of main-api implement the slot allocator: a slot
\* changes hands only as SlotAllocator allows.
ImplementsAllocator == Allocator!Spec
=============================================================================
