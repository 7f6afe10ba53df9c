--------------------------- MODULE NodeInventory ---------------------------
(***************************************************************************)
(* From the devices of a host to the devices of a VM: the agent enumerates *)
(* its GPUs (topology, gpu) and resolves its profile file into slots       *)
(* (profile), reports both when it registers (stream client), main-api     *)
(* stores them (UpsertNode, SyncFromProfile), and a create handler turns a *)
(* reserved slot back into PCI addresses (resolvePassthroughPCI).          *)
(*                                                                         *)
(* Every statement of SyncFromProfile is a step.  Its transaction runs at  *)
(* READ COMMITTED and takes no advisory lock: count and delete each see    *)
(* what is committed when they start, inserts meet a unique index, and     *)
(* nothing is visible before the commit.                                   *)
(***************************************************************************)
EXTENDS Integers, Sequences, FiniteSets, SequencesExt

CONSTANTS
    Devices,        \* PCI devices of the host, numbered in address order
    Gpus,           \* those of class VGA or 3D controller
    Group,          \* IOMMU group of each device
    Files,          \* profile files the operator may install
    Content,        \* what they say
    NoFile,         \* no profile configured
    Down,           \* no agent runs
    Sessions,       \* Register calls; each is one run of Stream
    Creators,       \* create handlers, one instance each
    GpuCounts       \* sizes they ask for

SlotYAML == [size: Int, gpus: Seq(Int), domain: STRING]

\* A profile file names one of its layouts as the active one.
File == [active: STRING, layouts: Seq([name: STRING, slots: Seq(SlotYAML)])]

ASSUME InventoryAssumption ==
    /\ Devices \subseteq Nat /\ IsFiniteSet(Devices) /\ Gpus \subseteq Devices
    /\ Group \in [Devices -> Nat]
    /\ Content \in [Files -> File]
    /\ NoFile \notin Files /\ Down \notin Files \cup {NoFile}
    /\ GpuCounts \subseteq Nat \ {0}
    /\ "none" \notin Creators

VARIABLES
    bootstrapped, \* node-bootstrap.sh bound every device to vfio-pci at boot
    agent,        \* the profile file of the running agent
    node,         \* nodes.topology_json and nodes.profile_hash
    slots,        \* gpu_slots of the node
    replaced,     \* how often the layout was replaced: numbers the inserted rows
    sess,         \* Stream of each session
    job,          \* runCreate of each instance
    past          \* history, per instance: syncs past their count when it reserved

hostVars == <<bootstrapped, agent>>
dbVars   == <<node, slots, replaced>>
jobVars  == <<job, past>>
vars == <<hostVars, dbVars, sess, jobVars>>

-----------------------------------------------------------------------------
(* The host: sysfs and nvidia-smi *)

\* Devices held by the VMs.
Held == UNION {job[j].devs : j \in Creators}

\* vfio-pci holds a device from boot, or (managed='yes') while a VM has it.
OnVfio(d) == bootstrapped \/ d \in Held

GroupMembers(d) == {m \in Devices : Group[m] = Group[d]}

\* The other members.  The directory of the group is taken to be readable: a
\* GPU whose group cannot be read is listed without companions.
Companions(d) == GroupMembers(d) \ {d}

\* A GPU's index is its place, from 0, in a list that collectViaSysfs and
\* parseNvidiaSmiXML give in address order.
Index(d, list) == Cardinality({e \in list : e < d})

Indices(list) == {Index(d, list) : d \in list}

ListNVIDIAGPUs == Gpus

\* nvidia-smi sees the GPUs that vfio-pci does not hold, and fails if it sees
\* none, or hangs.
NvidiaSmi == {d \in Gpus : ~OnVfio(d)}

\* LinuxCollector.Collect: nvidia-smi, else sysfs.
Collect == {ListNVIDIAGPUs} \cup ({NvidiaSmi} \ {{}})

-----------------------------------------------------------------------------
(* Profiles *)

\* The place of the first layout with the active name, if there is one.
Active(f) ==
    LET name(k) == Content[f].layouts[k].name
    IN  {k \in DOMAIN Content[f].layouts :
            name(k) = Content[f].active /\ \A m \in 1..(k - 1) : name(m) # Content[f].active}

ActiveSlots(f) == Content[f].layouts[CHOOSE k \in Active(f) : TRUE].slots

\* Without the look at GPUs that another slot claims.
Valid_NoDuplicateCheck(rows, host) ==
    \A i \in DOMAIN rows :
        /\ rows[i].size > 0 /\ rows[i].size = Len(rows[i].gpus)
        /\ ToSet(rows[i].gpus) \subseteq Indices(host)

\* The checks of Resolve: sizes, GPUs the host has, no GPU claimed twice, no
\* NVLink domain shared by two slots.
Valid(rows, host) ==
    /\ \A i \in DOMAIN rows :
          /\ rows[i].size > 0 /\ rows[i].size = Len(rows[i].gpus)
          /\ ToSet(rows[i].gpus) \subseteq Indices(host)
          /\ IsInjective(rows[i].gpus)
    /\ \A i, j \in DOMAIN rows : i # j =>
          /\ ToSet(rows[i].gpus) \cap ToSet(rows[j].gpus) = {}
          /\ rows[i].domain # "" => rows[i].domain # rows[j].domain

Resolve(f, host) == Active(f) # {} /\ Valid(ActiveSlots(f), host)

\* Resolved.Proto: slot_index is the place in the layout, from 0.
Layout(f) ==
    LET rows == ActiveSlots(f)
    IN  {[index |-> i - 1, gpus |-> ToSet(rows[i].gpus)] : i \in DOMAIN rows}

-----------------------------------------------------------------------------
(* State *)

Slot == [id: Nat, index: Nat, gpus: SUBSET Int, status: {"free", "reserved", "in_use"},
         owner: Creators \cup {"none"}]

Session == [at: {"new", "upsert", "hash", "count", "delete", "insert", "served", "ended"},
            file: Files \cup {NoFile}, top: SUBSET Gpus, snap: Nat]

Job == [at: {"new", "loaded", "reserved", "bound", "running", "done"}, top: SUBSET Gpus,
        id: Nat, index: Nat, gpus: SUBSET Int, devs: SUBSET Devices]

TypeOK ==
    /\ bootstrapped \in BOOLEAN
    /\ agent \in Files \cup {NoFile, Down}
    /\ node \in [known: BOOLEAN, top: SUBSET Gpus, hash: Files \cup {NoFile}]
    /\ \A r \in slots : r \in Slot
    /\ replaced \in Nat
    /\ sess \in [Sessions -> Session]
    /\ job \in [Creators -> Job]
    /\ past \in [Creators -> SUBSET Sessions]

Init ==
    /\ bootstrapped \in BOOLEAN
    /\ agent = Down
    /\ node = [known |-> FALSE, top |-> {}, hash |-> NoFile]
    /\ slots = {} /\ replaced = 0
    /\ sess = [s \in Sessions |-> [at |-> "new", file |-> NoFile, top |-> {}, snap |-> 0]]
    /\ job = [j \in Creators |-> [at |-> "new", top |-> {}, id |-> 0, index |-> 0,
                                  gpus |-> {}, devs |-> {}]]
    /\ past = [j \in Creators |-> {}]

-----------------------------------------------------------------------------
(* The agent *)

\* main: load and resolve the profile against the GPUs found now, or exit.
AgentBoots(f) ==
    /\ agent = Down
    /\ f # NoFile => \E host \in Collect : Resolve(f, host)
    /\ agent' = f
    /\ UNCHANGED <<bootstrapped, dbVars, sess, jobVars>>

\* The process ends; its VMs run on, and so may the Stream of its session.
AgentDies ==
    /\ agent # Down /\ agent' = Down
    /\ UNCHANGED <<bootstrapped, dbVars, sess, jobVars>>

\* runOnce: collect the topology, connect and send Register with it.
runOnce(s) ==
    /\ agent # Down /\ sess[s].at = "new"
    /\ \E top \in Collect :
          sess' = [sess EXCEPT ![s] = [at |-> "upsert", file |-> agent, top |-> top, snap |-> 0]]
    /\ UNCHANGED <<hostVars, dbVars, jobVars>>

-----------------------------------------------------------------------------
(* Stream and SyncFromProfile *)

Goto(s, place) == sess' = [sess EXCEPT ![s].at = place]

\* on conflict (node_name) do update set topology_json = ...
UpsertNode(top) == node' = [node EXCEPT !.known = TRUE, !.top = top]

\* UpsertOnline and RegisterAck; without a profile nothing is synchronised.
UpsertOnline(s) ==
    /\ sess[s].at = "upsert"
    /\ UpsertNode(sess[s].top)
    /\ Goto(s, IF sess[s].file = NoFile THEN "served" ELSE "hash")
    /\ UNCHANGED <<hostVars, slots, replaced, jobVars>>

\* The hash is compared before the transaction: equal means unchanged.
CompareHash(s) ==
    /\ sess[s].at = "hash"
    /\ Goto(s, IF node.hash = sess[s].file THEN "served" ELSE "count")
    /\ UNCHANGED <<hostVars, dbVars, jobVars>>

\* Counting the slots in use.
CountNonFreeSlotsForNode_InUse == Cardinality({r \in slots : r.status = "in_use"})

CountNonFreeSlotsForNode == Cardinality({r \in slots : r.status # "free"})

\* A slot that is not free keeps the old layout (SyncDegraded).
CountBusy(s) ==
    /\ sess[s].at = "count"
    /\ Goto(s, IF CountNonFreeSlotsForNode > 0 THEN "served" ELSE "delete")
    /\ UNCHANGED <<hostVars, dbVars, jobVars>>

\* The delete sees the rows committed when it starts, whatever their status by
\* the time it gets their locks.
DeleteSlotsForNode(s) ==
    /\ sess[s].at = "delete"
    /\ sess' = [sess EXCEPT ![s].at = "insert", ![s].snap = replaced]
    /\ UNCHANGED <<hostVars, dbVars, jobVars>>

\* Going on after an insert that met the rows of another sync.
InsertSlots_KeepsFirst(s) ==
    LET kept  == {r \in slots : r.id > sess[s].snap}
        fresh == {[id |-> replaced + 1, index |-> l.index, gpus |-> l.gpus,
                   status |-> "free", owner |-> "none"] : l \in Layout(sess[s].file)} IN
    /\ sess[s].at = "insert"
    /\ slots' = kept \cup {r \in fresh : \A q \in kept : q.index # r.index}
    /\ node' = [node EXCEPT !.hash = sess[s].file]
    /\ replaced' = replaced + 1
    /\ Goto(s, "served")
    /\ UNCHANGED <<hostVars, jobVars>>

\* InsertSlot for every slot, UpdateNodeProfileHash, COMMIT.  A row that
\* another sync has committed since the delete has the index of one of them:
\* unique (node_id, slot_index) fails and the transaction is rolled back.
InsertSlots(s) ==
    LET kept  == {r \in slots : r.id > sess[s].snap}
        fresh == {[id |-> replaced + 1, index |-> l.index, gpus |-> l.gpus,
                   status |-> "free", owner |-> "none"] : l \in Layout(sess[s].file)} IN
    /\ sess[s].at = "insert"
    /\ IF \E r \in fresh, q \in kept : r.index = q.index
       THEN UNCHANGED dbVars
       ELSE /\ slots' = kept \cup fresh
            /\ node' = [node EXCEPT !.hash = sess[s].file]
            /\ replaced' = replaced + 1
    /\ Goto(s, "served")
    /\ UNCHANGED <<hostVars, jobVars>>

\* A statement of SyncFromProfile fails, or the session's context is done: the
\* transaction is rolled back, the error is logged and Stream serves on.
SyncFails(s) ==
    /\ sess[s].at \in {"hash", "count", "delete", "insert"}
    /\ Goto(s, "served")
    /\ UNCHANGED <<hostVars, dbVars, jobVars>>

\* UpsertOnline or the ack fails, or the session is over.
StreamEnds(s) ==
    /\ sess[s].at \in {"upsert", "served"}
    /\ Goto(s, "ended")
    /\ UNCHANGED <<hostVars, dbVars, jobVars>>

-----------------------------------------------------------------------------
(* Create handlers *)

\* Syncs that have counted the slots and are about to delete them.
SyncsPastCount == {s \in Sessions : sess[s].at = "delete"}

\* A deleted row stays locked until its transaction ends: statements that
\* change it wait.
Locked(r) == \E s \in Sessions : sess[s].at = "insert" /\ r.id <= sess[s].snap

\* validateCreate reads the node with its topology and wants it connected:
\* Stream registers after the sync.
validateCreate(j) ==
    /\ job[j].at = "new" /\ node.known
    /\ \E s \in Sessions : sess[s].at = "served"
    /\ job' = [job EXCEPT ![j].at = "loaded", ![j].top = node.top]
    /\ UNCHANGED <<hostVars, dbVars, sess, past>>

\* Reserve a free slot of the size asked for, or 409.
Reserve(j, size) ==
    /\ job[j].at = "loaded"
    /\ \E r \in slots :
          /\ r.status = "free" /\ Cardinality(r.gpus) = size /\ ~Locked(r)
          /\ slots' = (slots \ {r}) \cup {[r EXCEPT !.status = "reserved"]}
          /\ job' = [job EXCEPT ![j].at = "reserved", ![j].id = r.id, ![j].index = r.index,
                                ![j].gpus = r.gpus]
    /\ past' = [past EXCEPT ![j] = SyncsPastCount]
    /\ UNCHANGED <<hostVars, node, replaced, sess>>

\* The row of a reservation, if it is still there.
RowOf(j) == {r \in slots : r.id = job[j].id /\ r.index = job[j].index}

\* Every index is in the topology that was read.
Resolvable(j) == job[j].gpus \subseteq Indices(job[j].top)

\* Each GPU at its index, with the companions it was reported with.
resolvePassthroughPCI(j) ==
    UNION {{d} \cup Companions(d) : d \in {e \in job[j].top : Index(e, job[j].top) \in job[j].gpus}}

\* ReleaseReserved, after the addresses could not be resolved or a call failed.
ReleaseReserved(j) ==
    /\ job[j].at = "reserved" /\ \A r \in RowOf(j) : ~Locked(r)
    /\ slots' = {IF r \in RowOf(j) /\ r.status = "reserved"
                 THEN [r EXCEPT !.status = "free"] ELSE r : r \in slots}
    /\ job' = [job EXCEPT ![j].at = "done"]
    /\ UNCHANGED <<hostVars, node, replaced, sess, past>>

\* Repo.Create and BindToInstance ("where id = $1 and status = 'reserved'"); a
\* row that is gone makes the bind fail.
BindToInstance(j) ==
    /\ job[j].at = "reserved" /\ Resolvable(j)
    /\ \E r \in {q \in RowOf(j) : q.status = "reserved" /\ ~Locked(q)} :
          slots' = (slots \ {r}) \cup {[r EXCEPT !.status = "in_use", !.owner = j]}
    /\ job' = [job EXCEPT ![j].at = "bound"]
    /\ UNCHANGED <<hostVars, node, replaced, sess, past>>

\* dispatchCreate: the agent is told which devices to pass through.
dispatchCreate(j) ==
    /\ job[j].at = "bound"
    /\ job' = [job EXCEPT ![j].at = "running", ![j].devs = resolvePassthroughPCI(j)]
    /\ UNCHANGED <<hostVars, dbVars, sess, past>>

\* update gpu_slots set status = 'free' ... where current_instance_id = $1
ReleaseForInstance(j) ==
    /\ \A r \in slots : r.owner = j => ~Locked(r)
    /\ slots' = {IF r.owner = j THEN [r EXCEPT !.status = "free", !.owner = "none"] ELSE r : r \in slots}

\* The dispatch fails, or the VM is gone and reported so.
InstanceEnds(j) ==
    /\ job[j].at \in {"bound", "running"}
    /\ ReleaseForInstance(j)
    /\ job' = [job EXCEPT ![j].at = "done", ![j].devs = {}]
    /\ UNCHANGED <<hostVars, node, replaced, sess, past>>

\* The node was lost: the sweeper fails the instance and frees its slot while
\* the VM runs on.
Reap(j) ==
    /\ job[j].at = "running"
    /\ ReleaseForInstance(j)
    /\ UNCHANGED <<hostVars, node, replaced, sess, jobVars>>

-----------------------------------------------------------------------------
(* Specification *)

Next ==
    \/ \E f \in Files \cup {NoFile} : AgentBoots(f)
    \/ AgentDies
    \/ \E s \in Sessions :
          \/ runOnce(s) \/ UpsertOnline(s) \/ CompareHash(s) \/ CountBusy(s)
          \/ DeleteSlotsForNode(s) \/ InsertSlots(s) \/ SyncFails(s) \/ StreamEnds(s)
    \/ \E j \in Creators :
          \/ validateCreate(j) \/ (\E size \in GpuCounts : Reserve(j, size))
          \/ ReleaseReserved(j) \/ BindToInstance(j) \/ dispatchCreate(j)
          \/ InstanceEnds(j) \/ Reap(j)

Spec == Init /\ [][Next]_vars

-----------------------------------------------------------------------------
(* Properties *)

\* SyncFromProfile, run by overlapping sessions of agents with different
\* profiles and cut off anywhere, leaves no half of a layout and no mixture of
\* two: the slots are those of the profile whose hash the node has.  It is the
\* unique index that keeps two of them apart.  A profile without slots inserts
\* nothing and meets nobody: under its hash the slots of one other profile may
\* be left.
LayoutMatchesHash ==
    LET rows == {[index |-> r.index, gpus |-> r.gpus] : r \in slots} IN
    IF node.hash = NoFile THEN rows = {}
    ELSE \/ rows = Layout(node.hash)
         \/ /\ Layout(node.hash) = {}
            /\ \E f \in Files, host \in SUBSET Gpus : Resolve(f, host) /\ rows = Layout(f)

\* "when any slot is in_use we refuse to touch them" (SyncFromProfile).
InUseIsUntouched ==
    [][\A s \in Sessions, r \in slots : InsertSlots(s) /\ r.status = "in_use" => r \in slots']_vars

Owns(j) == \E r \in slots : r.owner = j

\* An instance has the slot it reserved, or bound.
Has(j) ==
    \/ job[j].at = "reserved" /\ \E r \in RowOf(j) : r.status = "reserved"
    \/ Owns(j)

\* What holds of that comment: from its reservation, over bind and dispatch,
\* until it is released or reaped an instance loses its slot to no sync that
\* counts after the reservation, however many overlap and whatever fails.
\* Only one that had counted before it can still delete the slot.
KeepsBusySlots ==
    [][\A j \in Creators : Has(j) /\ ~Has(j)' =>
          \/ ReleaseReserved(j) \/ InstanceEnds(j) \/ Reap(j)
          \/ \E s \in past[j] : InsertSlots(s)]_vars

\* GPUs in different IOMMU groups, as DiagnoseBindability hopes for.
Isolated == \A d, e \in Gpus : d # e => Group[d] # Group[e]

\* "so libvirt can bind the whole IOMMU group" (resolvePassthroughPCI): across
\* changes of the profile, instances that own a slot are told to take disjoint
\* sets of whole IOMMU groups, with one GPU for each of the slot's.  It takes a
\* bootstrapped host, or the indices move while VMs hold GPUs, and GPUs in
\* groups of their own.
DevicesExclusive ==
    bootstrapped /\ Isolated =>
        \A j, k \in {i \in Creators : job[i].at = "running" /\ Owns(i)} :
            /\ \A d \in job[j].devs : GroupMembers(d) \subseteq job[j].devs
            /\ Cardinality(job[j].devs \cap Gpus) = Cardinality(job[j].gpus)
            /\ j # k => job[j].devs \cap job[k].devs = {}
=============================================================================
