# Hybrid cloud: TLA+ models, checks and proofs

A verification development for the Go services under `src/services`. Nine state
machines model the control plane and its database, the agent streams, the VM
operations and the GPU inventory of a node, the SSH data plane, billing, and who
gets in. TLC checks them on small instances; TLAPS proves the main invariants for
every size. `PROJECT.json` holds the map from definitions to source lines, the
hazards with the properties that watch them, the runs and the theorems.

## 1. The system

Users rent VMs with passed-through GPUs and pay by the minute. Three services
matter here.

* **main-api** (`services/main-api`) is the control plane. PostgreSQL holds its
  state. HTTP handlers create and delete instances, move credit and issue SSH
  tickets; one gRPC stream per node brings registrations, heartbeats and status
  reports and takes commands; a sweeper marks silent nodes offline; a worker bills.
* **compute-agent** (`services/compute-agent`) runs on each GPU node. It reports its
  GPUs and its slot profile, carries out `CreateInstance` and `DestroyInstance` over
  libvirt, one goroutine per message, and relays SSH streams to VMs.
* **ssh-proxy** (`services/ssh-proxy`) is the data plane: it authenticates agents,
  keeps one yamux session per node, and relays SSH connections to VMs.

| Component | State it keeps | Operations | What makes it correct | Module |
|---|---|---|---|---|
| instance state machine (`instance/`) | `instances.state` | Create, Transition, Delete | rows move along the state machine | `InstanceStates`, `ControlPlane` |
| GPU slots (`slot/repo.go`) | `gpu_slots` | Reserve, Bind, two releases, boot recovery, SyncFromProfile | one holder per slot, no lost slot, owner agrees with the row, slots are those of one profile | `SlotAllocator`, `ControlPlane`, `NodeInventory` |
| instance handlers (`api/`) | locals between database calls | Create, Delete | a failure undoes what was done | `ControlPlane` |
| agent streams (`grpc/`) | AgentRegistry, send channels | Stream, Send, applyInstanceStatus, StaleSweeper | the latest session is reachable, Send returns, lost nodes free their slots | `AgentStream`, `ControlPlane` |
| VM handler (`vm/handler.go`) | `inFlight`, libvirt domains, files, GPU state | create, destroy, IP poller | exclusive operations, nothing left behind, truthful reports | `VMHandler`, `AgentReports` |
| profiles and topology (`profile/`, `topology/`, `gpu/`) | profile file, sysfs, `nodes.topology_json` | Collect, Resolve, register, resolvePassthroughPCI | VMs get disjoint devices | `NodeInventory` |
| mux client, server and registry | yamux session per node | Run, handleConn, Register, watchHealth, Close | one live session per node, nobody waits for ever | `MuxSessions` |
| SSH server and relays | connections, channels, streams | Serve, handleConn, Relay, handleStream | torn down completely, drained at shutdown | `SSHRelay` |
| billing and credit | ledger, balances | charge, Post, sweepBankrupt, Recharge | a minute is charged once, balance is the sum of the ledger, bankrupt users stop | `Billing` |
| node tokens, teams | `node_tokens`, two caches, `team_members` | issue, pin, revoke, verify, list | revocation bites, a token opens its own node only, outsiders stay out | `NodeAccess` |
| accounts, limiter, sessions, tickets | `users`, `sessions`, `ssh_keys`, hits per address | Login, Allow, LoadSession, Logout, issue, check | limits and expiry hold | `UserAccess` |

Interaction: handlers call the repositories one database call at a time and then
push a command through `AgentRegistry.Send`; the stream's send loop delivers it;
the agent runs it and reports; `applyInstanceStatus` moves the row and frees the
slots of a finished instance. The sweeper does the same for lost nodes, and the
billing worker sends the same commands for users without credit. Beside that,
every agent dials ssh-proxy's mux port, is verified through main-api, and `Register`
puts its session in place of the node's previous one; an SSH connection gets a ticket
from main-api and is relayed through that session to the VM.

What is hard in it: the handlers hold no transaction across their calls, so every
pair of calls of two goroutines can interleave; `Transition` reads without a row
lock; a handler's context dies with its client; processes die between calls;
agents reconnect before the old session is noticed dead; a destroy overtakes a
create; libvirt calls fail half way; answers are lost and requests repeated; facts
that were looked up are used seconds later by another service.

## 2. The modules

| Module | Models | Kind |
|---|---|---|
| `InstanceStates` | `instance/state.go` | states and transition table |
| `AgentReports` | which reports an agent may send about an instance | contract shared by two models |
| `SlotAllocator` | what slot bookkeeping promises | abstract specification |
| `ControlPlane` | handlers, repositories, stream receivers, sweeper, boot | core state machine |
| `AgentStream` | stream sessions of a node, send loops, registry, Send | state machine |
| `VMHandler` | the VM operations of one instance on an agent | state machine |
| `NodeInventory` | enumeration, profile, registration, synchronisation, device resolution | state machine |
| `MuxSessions` | mux client, mux server and mux registry, for all nodes | state machine |
| `SSHRelay` | SSH server, both relays and their copy loops | state machine |
| `Billing` | ledger, worker, recharge, balance views, balance gate | state machine |
| `NodeAccess` | node tokens, verification through two caches, owner teams | state machine |
| `UserAccess` | accounts, limiter, sessions, SSH keys, tickets | state machine |
| `MC...` | named model values and small tables | for TLC |
| `...Proofs` (8) | theorems about the module they are named after; `DataPlaneProofs` about `MuxSessions` and `SSHRelay` | for TLAPS |

In all of them one action is one database call, one transaction, one critical section
or one call into a library, with its error branches; goroutines keep a place and their
locals between actions. Variables that the code does not have and only properties read are
marked `history` where they are declared.

**ControlPlane.** The variables `row`, `slot` and `node` are the tables (`node` has
the registry entry, `conn`, and one bit for the age of the heartbeat). `pc` and `job`
are the program counter and the locals of each goroutine. `Repo.Transition` is two
actions, `TransitionRead` and `TransitionWrite`, because PostgreSQL's READ COMMITTED
lets others write in between. `Continue` and `AfterRelease` say where each caller goes
on, so the four callers share the actions. A call fails always once its goroutine is in
`cancelled`, and transiently `MaxFaults` times; a call in `Lossy` may also take effect and
lose its answer (`AnswerLost`: the commit at `slot/repo.go:265` on a dying connection). Names, sizes, keys, audit events
and IP addresses are left out. `ReserveFreeSlots`' ORDER BY is the constant `SlotRank`.
The agent's behaviour is that of `AgentReports`. Panics of `Send` are
`DispatchPanics`: net/http drops the request. (The billing worker's `Send` has no such
net, see section 4; here that is a `Crash`.)

**AgentStream.** Per session the place of its `Stream` handler and of its send loop,
the channel and whether it is closed; `entry` is the registry's entry; each sender
performs one `Send`, in which the entry is read under the lock and used after it.

**VMHandler.** `pc` per operation, `inFlight`, the cancelled contexts, the closed
`done` channels; the outside world is `domain`, `files` and `dirty` (GPUs used since
the last reset). All state of the handler is keyed by the instance id, so one
instance suffices. `faults` says what may go wrong in a behaviour: it is chosen at the start
from `FaultSets` and stays, so that a property can except, by `Without(...)`, exactly the
faults with which it is false. `said` is what main-api was told. A libvirt or qemu-img call
is one step. A `CreateDomain` that fails may have touched the GPUs before (`dirty`), which is
why `AbortCreate` resets them; a reset that fails and a file that cannot be removed are only
logged, and stay as they are. `KeepsReportContract` shows that the
reports obey `AgentReports`, on which `ControlPlane` relies: the two models are
composed through that contract.

**NodeInventory.** The way from PCI devices to a VM's devices and back. `Collect` is
nvidia-smi (which sees only GPUs vfio-pci does not hold) or sysfs; a list of GPUs is kept
as a set, since both come in address order, and `Index` is a GPU's place in it; `Valid` has the checks of `Resolve`; each statement of
`SyncFromProfile` is an action (`CompareHash`, `CountBusy`, `DeleteSlotsForNode`,
`InsertSlots`), at READ COMMITTED: the delete fixes its snapshot, rows it deletes stay
locked until the commit, and an insert that meets the rows of another synchronisation
fails on the unique index. A statement that fails ends the synchronisation and the session is
served all the same (`SyncFails`). `past` remembers, for a handler, the synchronisations that
had counted when it reserved. Create handlers read the topology, reserve, bind and dispatch
as in `ControlPlane`, reduced to one slot each. `bootstrapped` says whether the
operator's script bound all GPUs to vfio-pci at boot. Model names, memory, sysfs read
errors and the bindability diagnostics are left out.

**MuxSessions.** A connection has two ends, `agentOpen` and `proxyOpen`, which close
separately and learn of each other later. `agent` is the place of `muxclient.Run`,
`handler` that of `handleConn` with the `Register` it calls, `watch` that of
`watchHealth` with `handleDeath`, `closer` that of `Registry.Close`. A critical
section of the registry's mutex is one action; what the code does after the unlock
(cancel, close, wait for `done`, start the checker) are further ones. Two handlers of
one node may be between those steps at once. `Run` calls `yamux.Client` without
waiting for ssh-proxy's verdict, so `Attach` and `Verified` are independent: a refused
agent is attached until it sees the close, and `SessionEnds` dials again at once.
Durations and the streams inside a session are left out.

**SSHRelay.** `serve` is the place of `Serve` with its two waits, `conn` that of
`handleConn`, `chan` that of `handleDirectTCPIP` with the `Relay` it calls, `relay` that
of `handleStream` with `relayBytes`; `ssh`, `stream` and `vm` are the three pipes of a
session and `copies` its four copy loops. A loop ends when the side it reads from ends;
when only the side it writes to is closed it may sit in its read for ever. `Close` of an
x/crypto/ssh channel only sends CLOSE (`ssh` is then `closing`): its reader returns when the
client answers, closes, or loses its link, and clients in `Silent` need never do so.
`Serve` accepts until its listener is closed, a while after the context ended. A yamux
stream that one end closes is closed at both in one step; in yamux v0.1.2 its readers return at
the peer's FIN or after `StreamCloseTimeout`, so they always do. Every connection opens at most one channel. Bytes are left out.

**Billing.** `Post` is a transaction; every other call of a worker or handler is a step,
so two workers (two processes overlap during a deployment), recharges and views
interleave. Time is the minute bucket. The minute is read after the list, as in `charge`.
A call may fail with or without having committed, and a worker may die anywhere. `row`
moves along the transition table in one step: the race that `cp_transition` shows is not
in this model, so `ChargesFollowUse` is about rows that follow the table. Amounts are
small integers; overflow of `bigint` is out of reach of any balance the API accepts.
Ledger entries have a place, in the order of their commits (and of their ids), and the time
their transaction began, `created`, which may be earlier than that of entries before them.
`ListCreditLedgerEntries` sorts by the latter (`Newer`); `Totals` are the running sums, by
commit, that the properties compare balances with.

**NodeAccess.** `verify` is a verification from the mux handshake through
`HTTPVerifier`'s cache, agentauth's cache and the two queries to the answer. Time is a
counter, and `Tick` lets no verification outlive its client's timeout. The CLI inserts a
token, pins the node and prints in that order, three actions, and may die between any two of
them (`CreateDies`). Hashes are left out.

**UserAccess.** `hits` counts per address and time what `RateLimiter` stores as time
stamps; `client` is a login or a request under way, `ticket` a ticket from the lookup of
the key through ssh-proxy to the agent that dials. `Logout` may fail to delete the session and
answer 204 all the same, as the code does. One clock stands for those of main-api, ssh-proxy and
the agent (section 4). Passwords, signatures and key formats
are left out. `GetSessionByTokenHash`, `DeleteKey` and the other queries are operators
of their own, with the condition of their SQL.

## 3. The runs

| Run | Checks | Instance |
|---|---|---|
| `cp_allocate` | `ReservationsExclusive`, `ReservationsEnd`, `ImplementsAllocator` | 2 create handlers, 2 slots, 2 instances, 1 crash |
| `cp_lifecycle` | `OwnershipConsistent`, `ImplementsAllocator` | 1 instance with every kind of goroutine, broken stream, 1 call that fails or whose answer is lost, with and without GPU |
| `cp_transition` | `TransitionsFollowStateMachine`: **violated** | the same without faults |
| `vm_ops` | `OpsExclusive`, `FilesFollowDomain`, `PreemptedIsGone`, `StoppedIsGone`, `CleanForNextTenant`, `KeepsReportContract`, `OpsReturn` | a create, 2 destroys; every kind of fault, and every kind but those a property excepts |
| `st_registry` | `LatestIsReachable`, `DeliveredOnce`, `SendReturns` | 2 sessions, 3 senders, buffer of 1 |
| `mux_sessions` | `NoGhostSession`, `OneHealthChecker`, `ShutdownIsComplete`, `OnlyOwnDeathForgets`, `DeadIsForgotten`, `WaitsEnd`, `EndsAgree` | 1 node, 3 dials, failing links, a shutdown |
| `billing` | `PostedOnce`, `BalanceIsLedgerSum`, `ChargesFollowUse`, `ViewExplainsBalance`, `BankruptIsStopped` | 2 workers, 1 user, 1 instance, 1 recharge, 2 minutes, 1 fault or crash |
| `node_access` | `RevocationBites`, `OnlyOwnNode`, `StrangersKeptOut` | 2 nodes, 1 token, 2 verifications, 1 user, 1 team, 5 instants, both caches on |
| `user_access` | `LimitHolds`, `KeysReclaimed`, `SessionEnds`, `DialIsFresh` | 1 client, 2 addresses, limit 1, 1 SSH connection, 4 instants |
| `ssh_relay` | `DrainIsComplete`, `RelayTornDown`, `ShutdownDrains` | 2 connections, one of a silent client, cap of 1 |
| `node_inventory` | `LayoutMatchesHash`, `KeepsBusySlots`, `DevicesExclusive` | 2 GPUs with audio functions, 4 profiles (one invalid, one empty), 3 sessions, 2 create handlers |
| `node_sync_race` | `InUseIsUntouched`: **violated** | the same host, 2 sessions, 1 create handler |

`cp_transition` is the disagreement of the code with its own comment that `findings`
quotes: two transitions read one state, both write, and a finished row moves on.
`node_sync_race` is the other one: "when any slot is in_use we refuse to touch them"
(`slot/repo.go:201`), but a `Reserve` and a `BindToInstance` that commit between the count
and the delete of `SyncFromProfile` are deleted with the rest. `KeepsBusySlots`, which
passes, says that no other order loses a busy slot.
`TypeOK` of every module is used as a check while modelling and, where it is proved, as
a theorem (section 5).

**Bounds.** Two create handlers and two slots are the smallest instance in which a race
for a slot, a wrong choice and an over-reservation exist; one instance with all kinds
of goroutines covers every race on one row. `IdLeft` bounds creations by the ids
of the model, `MaxCrashes` crashes, `MaxFaults` transient errors. Two destroys
are what it takes for one to wait while another overtakes it. `vm_ops` has five initial
values of `faults`: all kinds, and for each property all kinds but the ones it excepts, so
each property is checked in the worst system it speaks about. Three senders and a buffer
of one are what it takes to fill the channel of a dead send loop. Three dials of one node
are a session, one that supersedes it and one that supersedes both or dials after
them, so that three `Register` calls can overlap; entries of different nodes share only the
mutex and `Close`, and the proofs cover any number. Dials go by number, as connections
are interchangeable until dialled. In `billing`, one fault suffices for a lost answer, a
repeated request, a lost command or a dead worker, and two minutes (`MaxMinute = 1`) for
a pass that straddles their boundary; the recharge pays one minute, so the balance crosses
zero within them. In `node_access` the TTLs are 2 and 1 and the timeout 1, so the longest
chain (a slow lookup fills one cache, a slow hit the other) ends before `MaxTime`; in
`user_access` the window is 2 of 4 instants, so hits age out and a sweep happens.
Two connections at a cap of one are a served and a dropped one, and the second is served once
the first is gone; one of the two clients is `Silent`. In
`node_access` there is one token and one team, the theorem `StrangersSound` has any number. Three sessions are two synchronisations that overlap and one after them.

**Symmetry** permutes what no definition tells apart: verifications (`node_access`),
addresses (`user_access`), sessions and create handlers (`node_inventory`). None of these
runs checks liveness. `node_inventory` also has a VIEW, which forgets what a session was
started with once its synchronisation is over: no later step and no property reads it.

**Fairness.** `ControlPlane`: goroutines run (Go's scheduler), the sweeper ticks,
the process manager restarts main-api; nothing is assumed about clients, agents or
errors. `VMHandler`: goroutines run and library calls return. `AgentStream`: goroutines
run, `stream.Send` returns, timers fire, and `Recv` returns once its session
is broken; a healthy session may last for ever. `MuxSessions`: goroutines run, tickers
fire, the handshake and `ReportDegraded` end by their deadlines, and a yamux session
notices that its peer closed (its keepalive); links need not fail or hold, agents need not
stop. `Billing`: the ticker ticks and calls return (perhaps with an error, of which there
are finitely many), and an agent that holds a destroy command carries it out; users need
not pay and instances need not start. `SSHRelay`: goroutines run, calls with a timeout
return, watchers of a context notice its end, and a copy loop notices the end of the side it
reads from (`Works`); clients outside `Silent` answer CLOSE and read on (`Answers`), nothing
is assumed of the others, of VMs, or of a write that might end a loop earlier.

**Deadlock** is checked except in `ssh_relay`, `node_inventory` and `node_sync_race`. There every
connection, session and instance may have ended, and then nothing is left to do: that is
how these systems stop. The stuttering disjunct `Quiet` marks the one place where the
bounded models of `VMHandler`, `AgentStream` and `MuxSessions` have nothing left to do;
the others always have a step.

## 4. What the models show beyond the runs

Building the models brought up behaviour that no passing property contradicts, but that a
reader of the code should know. Where a property would be false of the code, it was tried
with TLC on the named configuration and is not part of the project.

Control plane:

* A client that hangs up after `Reserve` makes the insert and the rollback fail on the
  same dead context (`admin_instances.go:253`): with a member of `Creators` in
  `Cancellable`, TLC refutes `ReservationsEnd`. The slot stays reserved until the next boot.
  (`cp_allocate` has `Cancellable = {}` and `MaxFaults = 0`, so it does not show this.)
* A `Reserve` that commits without an answer leaves its slot reserved, with nobody to release
  it, until the next boot. A `BindToInstance` that does so is worse: the handler goes on to
  `ReleaseReserved` with slots that are in use, which is harmless until a delete or a report frees
  one of them and another handler reserves it. Then the late release frees a slot
  under that handler: with `"bind"` in `Lossy` and two handlers TLC refutes
  `ReservationsExclusive`. With one handler, as in `cp_lifecycle`, nothing happens.
* A `MarkStaleOffline` whose answer is lost flips nodes whose instances are then never
  reaped.
* A row that is `stopping` when its node is lost is in no list of the sweeper
  (`nodes.sql:60`, `Reapable`) and is never failed; its slot stays in use.
* If main-api dies after `MarkStaleOffline`, the node is offline already and its rows are not
  listed again (`agent_stream.go:294`).
* A slot may be bound to a row that the sweeper or a delete has finished meanwhile; no later
  event frees it.
* The sweeper frees slots of VMs that may still run on a node that is merely
  unreachable; `DevicesExclusive` is therefore about instances that own a slot.
* `close(sendCh)` comes before the registry entry is removed (`agent_stream.go:152`): a
  `Send` in between panics. net/http recovers it, and the request is dropped half done; in
  the billing worker nothing does, and main-api ends.
* The comment of `muxregistry/registry.go:109` says that the old session is closed before it is
  replaced; the code replaces the entry first and closes after the unlock. `NoGhostSession`
  allows for it (`BeingClosed`).
* An instance that stops between the list and the minute of a billing pass may be
  charged for a minute it did not run in (`worker.go:98`); `ChargesFollowUse` says that this
  is the only such case.
* The revocation of a token surfaces within the TTLs of both caches plus two client
  timeouts (`RevocationLatency`), not within the one TTL the comment at `main.go:158` names,
  nor within the 60 s of ADR-009 (lines 16 and 40) and of the runbooks.
* The entries a balance view shows need not add up to its balance: posts may commit between the
  two queries, and one that began earlier and committed later sorts below others.
  `ViewExplainsBalance` says what remains.
* `Logout` ignores the error of `RevokeSession` (`auth_handlers.go:157`): the client gets 204 and
  an expired cookie while the session stays usable until it expires. Nothing bounds how late
  a request that passed `LoadSession` finishes (`SessionEnds`: but there is at most one).
* The expiry of a ticket is checked on the clocks of ssh-proxy and of the agent (`relay.go:97`,
  `muxclient/handler.go:137`), which the model takes to agree with main-api's. Both comments
  speak of a "1s skew tolerance" where the code subtracts a second: a clock that is
  late accepts for as long as it is late, and one that is ahead refuses.
* `SweepExpired` has no caller, although its comment says that the main loop calls it. Expired
  sessions are refused all the same (`SessionEnds`).

Inventory:

* `SyncFromProfile` counts and deletes without the advisory lock of `Reserve`. A reservation
  in between loses its slot. If the delete commits before the bind, the bind fails; if reserve and
  bind both fit in, a slot in use is deleted (`node_sync_race`), its VM boots, and the GPUs
  are in free slots of the new profile, which another VM may get. `DevicesExclusive` is about
  instances that own a slot and so leaves that double assignment out.
* A synchronisation that fails is logged and the session is served on with the old slots.
* Where sysfs fails to list an IOMMU group, the GPU is reported without companions
  (`topology/linux.go:58`). That is not modelled; it would refute the part of
  `DevicesExclusive` about whole groups.
* On a host that is not bootstrapped, nvidia-smi does not see GPUs that VMs hold, so the
  indices in a later registration shift and `DevicesExclusive` is refuted. The same holds for two
  GPUs in one IOMMU group.
* A profile file may name a layout without slots (`profile.go:88` accepts it). Its
  synchronisation inserts nothing, so it never meets the unique index that makes two
  overlapping ones exclude each other: TLC then finds the slots of another profile under
  the hash of the empty one. `LayoutMatchesHash` says that this is the only deviation, and
  the rows are those of one profile in any case (`OneLayoutSound`).
* The upsert of a delayed older session may overwrite the topology of a newer one.

Agent and data plane:

* The goroutine of a destroy may overtake that of the create it follows (`handler.go:104`):
  STOPPED is reported and the VM boots.
* `CleanForNextTenant` excepts `restart`: a destroy redelivered after the agent died between
  destroying and resetting finds no device list. It excepts `reset` too: `gpu/iommu.go:221-223`
  wants a failed reset surfaced, the handler only logs it and reports STOPPED or FAILED.
* `StoppedIsGone` excepts `lookup`: `DestroyVM` takes any lookup error for a missing domain
  (`libvirt/manager.go:105`), and STOPPED is reported of a running VM. It excepts `remove`: a file
  that `os.Remove` could not delete (`handler.go:424`) is logged and stays.
* The second `<-done` of ssh-proxy's relay (`relay.go:168`) waits for a client that neither
  answers CLOSE nor closes its link: `closeBoth` does not end the read of the ssh channel. The
  relay, its handler and its connection slot stay until the link goes. `RelayTornDown`
  demands the end of ssh-proxy's side only of other clients, that of the agent's side of all.
* The comments at `server.go:98-102` and `184-187` say that relays in flight are left to
  flush at shutdown; the watcher of the context closes both their ends at once.
* The stream client's backoff only grows (`client.go:122`): after a few sessions that
  worked, a reconnect waits `MaxBackoff`.
* The package comment of `muxclient.go` says that session death "triggers a backoff"; the loop
  sleeps only after a failed connection attempt, so a refused agent dials again at once.
* The death of a superseded mux session is reported as a degradation of its node
  (`muxregistry/registry.go:276`).
* The goroutine that closes a stream on cancellation (`muxregistry/registry.go:174`) lives
  until the context ends, not until the stream does.

## 5. The proofs

Each theorem is about `Spec`, for every value of the constants that the module's assumption
allows. The assumptions (`ConstantsAssumption`, `ProcsAssumption`, `OpsAssumption`,
`StreamAssumption`, `MuxAssumption`, `BillingAssumption`, `NodeAccessAssumption`,
`UserAccessAssumption`, `InventoryAssumption`, `SSHRelayAssumption`) say that names are distinct and constants have their types; TLC
evaluates them in every run.

`ControlPlaneProofs`, for any nodes, slots, instances, goroutines, faults and crashes:
`TypeCorrect`, `SlotsExclusive` (`ReservationsExclusive`) and `OwnershipSound`
(`OwnershipConsistent`). All but the first assume that a bind is answered (`"bind"` not in
`Lossy`), without which TLC refutes them (section 4); any other answer may be lost. The last two rest on one inductive invariant, `SlotInv`. The
properties alone are not inductive: that a bind gives a slot to a row that lists it needs
`Remembers` (a create handler holds slots of the node and size it was asked for, and the
row it inserted records exactly them); that a release or a deletion concerns an instance
needs `NamesRow`; that a boot frees no slot in use by a handler needs `DownIsIdle`.
`StepOfOne` is the frame argument all goroutines share: a step of one goroutine that
touches nobody else's reservation only owes its own part.

`AllocatorImplemented` is the refinement (`ImplementsAllocator`): under the mapping
`SlotHolder`, every step of `Next` is a step of `SlotAllocator` or a stutter. `SlotHolder`
chooses the handler that holds a reservation; `HolderMeaning` and `HolderNames` show from
`SlotInv` that the choice is the only one, which makes the mapping a function of the
tables and locals (`SameHolder`). Then there is one lemma per group of actions
(`ReserveRefines`, `BindRefines`, `TransitionRefines`, ...). A handler that loses its context
or is killed abandons all its slots in one step (`ForgettingAbandons`); what a crash does to
all handlers, and what boot recovery does to all reservations, is `CrashAndBootRefine`.

`OrphansSound` says where a reservation can be left without a handler while main-api
serves: at a `ReleaseReserved` that fails, an error the create handler ignores
(`ReleaseFails`), and at a `Reserve` that commits and loses its answer (`ReserveLost`), and
nowhere else (`OrphansExplained`, an action property). Every other early return holds nothing or leads
to that release: a handler whose request has no GPUs holds nothing
(`GpulessHoldsNothing`), and a boot frees what a crash left, since a reserved slot has no
owner. `ReservationsHeld` draws the conclusion for `MaxFaults = 0` and clients that wait,
which is how `cp_allocate` checks `ReservationsEnd`: every reservation has a handler that
is to end it, whatever crashes.

`VMHandlerProofs`, for any number of destroys: `OperationsExclusive` (`OpsExclusive`),
whatever the faults; `FilesSound`, `StoppedSound`, `ResetSound` and `PreemptionSound`
(`FilesFollowDomain`, `StoppedIsGone`, `CleanForNextTenant`, `PreemptedIsGone`), each of
which excepts, by its own `Without(...)`, only faults with which TLC refutes it: `rollback`,
`lookup`, `remove` and `restart` for the files; `lookup` and `remove` for STOPPED; `lookup`,
`xml`, `reset` and `restart` for the GPUs; `lookup`, `remove` and `restart` for preemption. The
theorems themselves assume nothing. All other faults, among them
sessions that die, are allowed. `GoneInv` says that a destroy that got to its cleanup
has no domain left; `FilesInv`, what exists at each place of a create and of a destroy and that
nothing is out of step when nobody owns the instance (`Matched`); `UsedInv`, the same of the
GPUs; `PreemptInv`, that from the moment a create is cancelled some destroy is still to
undo it or failed to, unless nothing of it is left. Exclusion makes them inductive: only the owner
moves domain, files and GPUs. `ContractSound` (`KeepsReportContract`) assumes nothing about
faults: `ContractInv` relates what main-api was told and has heard to how far each operation
is that can still report, and an operation whose session is gone (`deaf`) reports nothing.
`NobodyHangsSound` and `WaitsOnceSound` are what `OpsReturn` rests on, for every fault: the slot is
never left with an operation that returned, a destroy waits only for one at work or done,
and it waits once (`WaitInv`).

`DataPlaneProofs` has two halves. About `MuxSessions`, for any nodes and connections:
`MuxTypeCorrect`; `GhostsPrevented` (`NoGhostSession`), from `GhostInv`, which adds that a
checker runs only once its `Register` is through (`Coherent`); `DeathIsLocal`
(`OnlyOwnDeathForgets`); `CheckersExclusive` and `ShutdownSound` (`OneHealthChecker`,
`ShutdownIsComplete`). The last two need the order in which the connections of a node
registered, which the code keeps nowhere. `OrderInv` says that some ranking of the
connections exists (a new rank is given to each one registered) in which whoever is past
its wait has only settled predecessors and whoever waits, waits for its direct predecessor
(`InOrder`), the registry's entry is the newest (`HeadIsNewest`), and `Close` waits for a
session at least as new as any that has not settled (`CloseCovers`). A chain of `Register`
calls that wait for each other is thus part of the invariant, of any length.
`WaitsSound` (`NoCircularWait`) is the safety half of `WaitsEnd`: no set of Registers
waits within itself, since the one of least rank does not (`FirstIsFree`, by
`LeastNatural`), and whoever is waited for was told to stop (`StopInv`) and is on its way out
or waits in turn. `WatchSound` (`EntriesWatched`) is that of `DeadIsForgotten`: an entry is
never one that was told to stop, so its checker runs on or is about to start, and will
find it dead; `EntryInv` adds that who is about to be stopped is an entry no more.

About `SSHRelay` (whose `RelaySpec`, `RelayNext` and so on have names of their own, so that
one module extends both), for any clients: `DrainSound` (`DrainIsComplete`). `SessionInv` says which copy loops and which ends
exist at each place of ssh-proxy's relay (`ProxySide`) and of the agent's (`AgentSide`);
`ServeInv` what is left at each place of `Serve`. `SlotsSound`, for every cap, says that
the semaphore counts exactly the connections in flight. `TeardownNeverStuck` (`NeverStuck`)
and `TeardownSound` (`TeardownAdvances`) are the safety half of `RelayTornDown` and
`ShutdownDrains`: a session that is over always has a goroutine that can go on until it is
down, or nothing of it is left but ssh-proxy's wait for its client (`AwaitsClient`) (`CanProgress` and `CanReturn` spell out the guards of those steps; TLC confirms on the instance of
`ssh_relay` that they are the ENABLED of them), and the variant `Left` never grows and falls with every
step of the programs. Fairness is all that is missing.

`AgentStreamProofs`, for any sessions, senders and buffer: `StreamTypeCorrect`,
`LatestSound` (`LatestIsReachable`) and `DeliverySound` (`DeliveredOnce`). A message moves from
its sender to a channel, from there to the hand of a send loop and out; `MessageInv` says
that it is in at most one of these places, at one position of one channel (`Queued`), that
what a sender still has is in none (`Sending`) and that what a loop holds was accepted and not
delivered (`InHand`). `NothingDroppedSound` is the converse: an accepted message is
delivered, or in the channel or the hand of the session it was given to, unless that
session's loop has returned. It needs that a loop starts once and never overwrites what it
holds (`LoopInv`).

`BillingProofs`, for any users, instances, workers, requests and faults: `LedgerSound`
(`PostedOnce`), whose invariant adds only types, as `Post` alone writes the ledger; and
`ChargesSound` (`ChargesFollowUse`). `UseInv` adds what the history of use records
(`RanOK`) and that whatever a pass is about to charge is due already (`ListedOK`): an
instance listed has run, and if it still runs when the clock is read it runs in that very
minute. `OnlyForward` is the fact about the transition table it needs: only provisioning leads
to running, so nothing returns to it.

`BalanceSound` and `ViewSound` (`BalanceIsLedgerSum`, `ViewExplainsBalance`) are about sums
over a ledger of any length. The induction over it that they need is done with the least
counterexample: `LeastNatural` (from `WFMin` of the library, which has no operator
parameter) gives the first place at which a claim fails. So `SumsExist` and `SumsUnique`,
thus the recursive function `Totals` is what it says (`TotalsSum`), and an appended entry
adds one total and changes none (`TotalsAppend`). `BalanceInv` then says that `Post` moves
ledger and balance together; `ViewInv` remembers up to which commit the balance of a view is
the sum, and that its page shows what came before (`ShowsUpTo`). The page's order, by
`created` and then place, is total (`PageOrder`), so who is not on it has a full page of
newer ones (`HistoryComplete`); later posts take nothing away from that (`ViewKept`).

`NodeAccessProofs`, for any nodes, tokens, teams, TTLs and timeouts: `AccessTypeCorrect`;
`RevocationSound`, `OwnNodeSound` and `StrangersSound` (`RevocationBites`, `OnlyOwnNode`,
`StrangersKeptOut`). `AccessInv` bounds how late each place may still trust a revoked
token, one after the other: a verification under way (`VerifyOK`), an entry of main-api's
cache (`ApiOK`), one of ssh-proxy's (`ProxyOK`), a grant (`GrantOK`). `TeamInv` says that a
node with a token out is pinned to a team one of its tokens was issued to (`Issued`), and what
that means for requests under way (`Welcome`).

`UserAccessProofs`, for any clients, addresses, limits, windows, lifetimes and timeouts:
`UserTypeCorrect`; `KeysReclaimedSound` (`KeysReclaimed`); `LimiterSound` (`LimiterExact`: what
the limiter counts is what it let in during the last window); `SessionsSound`
(`SessionEnds`), with `SessionInv` for requests under way: one that was loaded before the
session ended is the only one that can still be served; `DialsSound` (`DialIsFresh`), with
`TicketInv`: at each place of a ticket, how long ago the key (and then the instance) was
last seen. `LimitSound` (`LimitHolds`) says more than `LimiterExact`: every window of the past,
not only the one that ends now, holds at most `Limit` hits. `WindowInv` adds that no hit is
of a time to come; a window that holds this moment then holds no hit `Allow` has not
counted (`AllowLimits`). Its sums over time are treated as those of the ledger
(`TotalsCount`, `TotalMonotone`, `TotalOneMore`).

`NodeInventoryProofs`, for any GPUs, IOMMU groups, profiles, sessions and instances:
`InventoryTypes`, with the fact that only resolved profiles travel (`FilesInv`);
`BusySlotsKept` (`KeepsBusySlots`), `OneLayoutSound` (`OneLayout`), `LayoutSound`
(`LayoutMatchesHash`) and `DevicesSound` (`DevicesExclusive`). The first rests on
`SyncInv`: a row and the handler that works on it agree on status, owner and GPUs (`OwnedInv`, `ClaimsInv`), no two handlers work on one row
(`DistinctInv`), and a synchronisation that is about to delete the row of a handler, or has,
had counted before the handler reserved (`BusyInv`, by the history `past`); its delete took a snapshot, and rows inserted later have
greater ids. For the layout, `OneInv` says that all rows come
from one insert (`TogetherInv`) and are those of one profile (`OneLayout`); an insert that
finds other rows fails on index 0, which every layout with a slot has. So mixtures never
happen, whatever the profiles; `LayoutSound` adds that the rows are those of the profile whose
hash is stored unless that one is empty. For the devices,
`DeviceInv` says that on a bootstrapped host every list of GPUs is the whole one and every
instance has what `resolvePassthroughPCI` makes of its slot. Disjoint indices are then
disjoint GPUs (`IndexInjective`), which are in disjoint groups; that a slot of n indices gets n
GPUs is a bijection between the two (`ChosenCount`).

Only model-checked: the liveness properties, as fairness and ENABLED are out of the prover's
reach. For `OpsReturn`, `WaitsEnd`, `DeadIsForgotten`, `RelayTornDown`, `ShutdownDrains` and
`ReservationsEnd` the safety half is proved (above): nobody waits for what cannot come. For
`EndsAgree` it is `GhostsPrevented`. `SendReturns` has none worth stating, since a
blocked `Send` has a timer, and that of `BankruptIsStopped` would say that every pass
comes to `sweepBankrupt`, which is the order of its actions.

## 6. Not modelled

* cloud-init and domain XML: text made from a request, without state.
* Passwords, hashes, signatures, key formats: cryptography and parsing.
* Protobuf code, metrics, logs, configuration: marshalling, or state nothing reads back.
* Web front end, infrastructure and operator scripts.
* The wiring and the graceful shutdown of main-api's servers; the three goroutines of a
  session in the stream client and the lengths of its backoff (that sessions end and
  registrations come again is modelled where it has effects).
* `List` and `Get` handlers, which change nothing, except the balance views.

## 7. Plan

1. A composition of stream session and VM handler: what a reconnect does to commands
   between the buffer of the send loop and the goroutine that runs them.
   `NothingDroppedSound` is its first half.
2. `SSHRelay` with several channels per connection; `ProxySide` and `AgentSide` are stated
   per client and would be stated per channel.
