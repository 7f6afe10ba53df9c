------------------------ MODULE NodeInventoryProofs ------------------------
(* Proofs about NodeInventory, for any host, any profile files, any number   *)
(* of sessions and of create handlers.                                       *)
EXTENDS NodeInventory, FiniteSetTheorems, TLAPS

-----------------------------------------------------------------------------
(* Profiles *)

\* A profile file that passed the checks of Resolve on some list of GPUs.
Resolved(f) == f \in Files /\ \E host \in SUBSET Gpus : Resolve(f, host)

\* An element of a sequence over S is in S.
LEMMA ElementIn ==
    ASSUME NEW S, NEW q \in Seq(S), NEW k \in DOMAIN q
    PROVE  q[k] \in S
  OBVIOUS

\* The slots of a resolved profile are a sequence of checked rows.
LEMMA RowsOfProfile ==
    ASSUME NEW f, Resolved(f)
    PROVE  /\ ActiveSlots(f) \in Seq(SlotYAML)
           /\ \E host \in SUBSET Gpus : Valid(ActiveSlots(f), host)
  <1>1. f \in Files /\ Active(f) # {} /\ \E host \in SUBSET Gpus : Valid(ActiveSlots(f), host)
    BY DEF Resolved, Resolve
  <1>2. Content[f] \in File
    BY <1>1, InventoryAssumption
  <1>3. Active(f) \subseteq DOMAIN Content[f].layouts
    BY DEF Active
  <1> DEFINE k == CHOOSE n \in Active(f) : TRUE
  <1>4. k \in DOMAIN Content[f].layouts
    <2>1. \E n \in Active(f) : TRUE
      BY <1>1
    <2> QED BY <1>3, <2>1, Zenon
  <1>5. Content[f].layouts \in Seq([name: STRING, slots: Seq(SlotYAML)])
    BY <1>2 DEF File
  <1>6. ActiveSlots(f) = Content[f].layouts[k].slots
    BY DEF ActiveSlots
  <1> HIDE DEF k
  <1>7. Content[f].layouts[k] \in [name: STRING, slots: Seq(SlotYAML)]
    BY <1>4, <1>5, ElementIn
  <1> QED BY <1>1, <1>6, <1>7

\* Its layout: finitely many slots, told apart by their index, with no GPU in
\* two of them.
LEMMA LayoutOfProfile ==
    ASSUME NEW f, Resolved(f)
    PROVE  /\ IsFiniteSet(Layout(f))
           /\ Layout(f) \subseteq [index: Nat, gpus: SUBSET Int]
           /\ \A l, m \in Layout(f) : l.index = m.index => l = m
           /\ \A l, m \in Layout(f) : l # m => l.gpus \cap m.gpus = {}
  <1> DEFINE rows == ActiveSlots(f)
             at   == [i \in DOMAIN rows |-> [index |-> i - 1, gpus |-> ToSet(rows[i].gpus)]]
  <1>1. rows \in Seq(SlotYAML) /\ \E host \in SUBSET Gpus : Valid(rows, host)
    BY RowsOfProfile
  <1>2. DOMAIN rows = 1..Len(rows) /\ Len(rows) \in Nat /\ IsFiniteSet(DOMAIN rows)
    BY <1>1, FS_Interval
  <1>3. Layout(f) = {at[i] : i \in DOMAIN rows}
    BY DEF Layout
  <1>4. \A i \in DOMAIN rows : rows[i].gpus \in Seq(Int)
    <2>1. \A i \in DOMAIN rows : rows[i] \in SlotYAML
      BY <1>1
    <2> QED BY <2>1 DEF SlotYAML
  <1>5. \A i \in DOMAIN rows : ToSet(rows[i].gpus) \subseteq Int
    BY <1>4 DEF ToSet
  <1>6. \A i, k \in DOMAIN rows : i # k => ToSet(rows[i].gpus) \cap ToSet(rows[k].gpus) = {}
    BY <1>1 DEF Valid
  <1>7. at \in Surjection(DOMAIN rows, Layout(f))
    BY <1>3 DEF Surjection
  <1>8. \A i \in DOMAIN rows : at[i].index = i - 1 /\ at[i].gpus = ToSet(rows[i].gpus) /\ i \in Nat \ {0}
    BY <1>2
  <1>9. \A i \in DOMAIN rows : at[i] \in [index: Nat, gpus: SUBSET Int]
    BY <1>2, <1>5
  <1>10. IsFiniteSet(Layout(f))
    BY <1>2, <1>7, FS_Surjection
  <1> HIDE DEF rows, at
  <1>11. \A l, m \in Layout(f) : l.index = m.index => l = m
    BY <1>3, <1>8
  <1>12. \A l, m \in Layout(f) : l # m => l.gpus \cap m.gpus = {}
    <2> SUFFICES ASSUME NEW l \in Layout(f), NEW m \in Layout(f), l # m PROVE l.gpus \cap m.gpus = {}
      OBVIOUS
    <2>1. PICK i \in DOMAIN rows, k \in DOMAIN rows : l = at[i] /\ m = at[k] /\ i # k
      BY <1>3
    <2> QED BY <1>6, <1>8, <2>1
  <1> QED BY <1>3, <1>9, <1>10, <1>11, <1>12

-----------------------------------------------------------------------------
(* Type correctness, and that only resolved profiles travel *)

\* The profile of the agent, of every session and of the node was resolved,
\* and a session that synchronises has one.
FilesInv ==
    /\ agent \in Files => Resolved(agent)
    /\ node.hash \in Files => Resolved(node.hash)
    /\ \A s \in Sessions :
          /\ sess[s].file \in Files => Resolved(sess[s].file)
          /\ sess[s].at \in {"hash", "count", "delete", "insert"} => sess[s].file \in Files

BaseInv == TypeOK /\ FilesInv

\* A session moves; what it was started with stays.
LEMMA SessMoves ==
    ASSUME TypeOK, NEW s \in Sessions, NEW place, Goto(s, place)
    PROVE  /\ sess' = [sess EXCEPT ![s] = sess'[s]]
           /\ sess'[s] = [sess[s] EXCEPT !.at = place]
           /\ sess'[s].at = place /\ sess'[s].file = sess[s].file
           /\ sess'[s].top = sess[s].top /\ sess'[s].snap = sess[s].snap
           /\ \A t \in Sessions : t # s => sess'[t] = sess[t]
           /\ DOMAIN sess' = Sessions
  BY DEF TypeOK, Session, Goto

\* Collect returns GPUs of the host.
LEMMA CollectType == Collect \subseteq SUBSET Gpus
  BY DEF Collect, ListNVIDIAGPUs, NvidiaSmi

\* The initial state.
LEMMA BaseInit == Init => BaseInv
  BY InventoryAssumption DEF Init, BaseInv, TypeOK, FilesInv, Session, Job

\* What the agent does.
LEMMA BaseAgent ==
    ASSUME BaseInv, \/ \E f \in Files \cup {NoFile} : AgentBoots(f)
                    \/ AgentDies
                    \/ \E s \in Sessions : runOnce(s)
    PROVE  BaseInv'
  <1> USE DEF BaseInv, TypeOK, FilesInv
  <1>1. ASSUME NEW f \in Files \cup {NoFile}, AgentBoots(f) PROVE BaseInv'
    <2>1. f \in Files => Resolved(f)
      BY <1>1, CollectType, InventoryAssumption DEF AgentBoots, Resolved
    <2> QED BY <1>1, <2>1 DEF AgentBoots, dbVars, jobVars
  <1>2. CASE AgentDies
    BY <1>2, InventoryAssumption DEF AgentDies, dbVars, jobVars
  <1>3. ASSUME NEW s \in Sessions, runOnce(s) PROVE BaseInv'
    <2>1. PICK top \in Collect :
             sess' = [sess EXCEPT ![s] = [at |-> "upsert", file |-> agent, top |-> top, snap |-> 0]]
      BY <1>3 DEF runOnce
    <2>2. agent \in Files \cup {NoFile} /\ top \subseteq Gpus
      BY <1>3, <2>1, CollectType DEF runOnce
    <2>3. sess' \in [Sessions -> Session]
      BY <2>1, <2>2 DEF Session
    <2>4. /\ sess'[s].file = agent /\ sess'[s].at = "upsert"
          /\ \A t \in Sessions : t # s => sess'[t] = sess[t]
      BY <2>1
    <2>5. UNCHANGED <<bootstrapped, agent, node, slots, replaced, job, past>>
      BY <1>3 DEF runOnce, hostVars, dbVars, jobVars
    <2>6. FilesInv'
      BY <2>4, <2>5
    <2> QED BY <2>3, <2>5, <2>6
  <1> QED BY <1>1, <1>2, <1>3

\* What a session does before it may write slots.
LEMMA BaseSession ==
    ASSUME BaseInv, NEW s \in Sessions,
           \/ UpsertOnline(s) \/ CompareHash(s) \/ CountBusy(s)
           \/ DeleteSlotsForNode(s) \/ SyncFails(s) \/ StreamEnds(s)
    PROVE  BaseInv'
  <1>t. TypeOK /\ FilesInv /\ sess[s] \in Session
    BY DEF BaseInv, TypeOK
  <1>1. UNCHANGED <<bootstrapped, agent, slots, replaced, job, past>>
    BY DEF UpsertOnline, CompareHash, CountBusy, DeleteSlotsForNode, SyncFails, StreamEnds, hostVars, dbVars, jobVars
  <1>2. PICK x \in Session :
           /\ sess' = [sess EXCEPT ![s] = x]
           /\ x.file = sess[s].file
           /\ x.at \in {"hash", "count", "delete", "insert"} => sess[s].file # NoFile
    <2>1. CASE UpsertOnline(s)
      <3>1. PICK place \in {"served", "hash"} : Goto(s, place) /\ (place = "hash" => sess[s].file # NoFile)
        BY <2>1 DEF UpsertOnline
      <3>2. [sess[s] EXCEPT !.at = place] \in Session
        BY <1>t DEF Session
      <3> QED BY <1>t, <3>1, <3>2, SessMoves
    <2>2. CASE CompareHash(s)
      <3>1. PICK place \in {"served", "count"} : Goto(s, place) /\ sess[s].at = "hash"
        BY <2>2 DEF CompareHash
      <3>2. [sess[s] EXCEPT !.at = place] \in Session
        BY <1>t DEF Session
      <3> QED BY <1>t, <3>1, <3>2, SessMoves, InventoryAssumption DEF FilesInv
    <2>3. CASE CountBusy(s)
      <3>1. PICK place \in {"served", "delete"} : Goto(s, place) /\ sess[s].at = "count"
        BY <2>3 DEF CountBusy
      <3>2. [sess[s] EXCEPT !.at = place] \in Session
        BY <1>t DEF Session
      <3> QED BY <1>t, <3>1, <3>2, SessMoves, InventoryAssumption DEF FilesInv
    <2>4. CASE DeleteSlotsForNode(s)
      <3> DEFINE x == [sess[s] EXCEPT !.at = "insert", !.snap = replaced]
      <3>1. sess' = [sess EXCEPT ![s] = x] /\ sess[s].at = "delete"
        BY <1>t, <2>4 DEF DeleteSlotsForNode, TypeOK, Session
      <3>2. x \in Session /\ x.file = sess[s].file
        BY <1>t DEF Session, TypeOK
      <3> HIDE DEF x
      <3> QED BY <1>t, <3>1, <3>2, InventoryAssumption DEF FilesInv
    <2>5. CASE SyncFails(s) \/ StreamEnds(s)
      <3>1. PICK place \in {"served", "ended"} : Goto(s, place)
        BY <2>5 DEF SyncFails, StreamEnds
      <3>2. [sess[s] EXCEPT !.at = place] \in Session
        BY <1>t DEF Session
      <3> QED BY <1>t, <3>1, <3>2, SessMoves
    <2> QED BY <2>1, <2>2, <2>3, <2>4, <2>5
  <1>3. sess' \in [Sessions -> Session]
    BY <1>t, <1>2 DEF TypeOK
  <1>4. node' \in [known: BOOLEAN, top: SUBSET Gpus, hash: Files \cup {NoFile}] /\ node'.hash = node.hash
    <2>1. CASE UpsertOnline(s)
      <3>1. node' = [node EXCEPT !.known = TRUE, !.top = sess[s].top]
        BY <2>1 DEF UpsertOnline, UpsertNode
      <3>2. sess[s].top \subseteq Gpus
        BY <1>t DEF Session
      <3> QED BY <1>t, <3>1, <3>2 DEF TypeOK
    <2>2. CASE node' = node
      BY <1>t, <2>2 DEF TypeOK
    <2> QED BY <2>1, <2>2 DEF CompareHash, CountBusy, DeleteSlotsForNode, SyncFails, StreamEnds, dbVars
  <1>5. FilesInv'
    <2>1. sess'[s] = x /\ \A t \in Sessions : t # s => sess'[t] = sess[t]
      BY <1>t, <1>2 DEF TypeOK
    <2>2. x.file \in Files \cup {NoFile}
      BY <1>2 DEF Session
    <2> QED BY <1>t, <1>1, <1>2, <1>4, <2>1, <2>2 DEF FilesInv
  <1> QED BY <1>t, <1>1, <1>3, <1>4, <1>5 DEF BaseInv, TypeOK

\* The rows a session writes are slots, and the node gets the session's profile.
LEMMA BaseInsert ==
    ASSUME BaseInv, NEW s \in Sessions, InsertSlots(s)
    PROVE  BaseInv'
  <1>t. TypeOK /\ FilesInv /\ sess[s] \in Session
    BY DEF BaseInv, TypeOK
  <1>1. UNCHANGED <<bootstrapped, agent, job, past>> /\ Goto(s, "served") /\ sess[s].at = "insert"
    BY DEF InsertSlots, hostVars, jobVars
  <1>2. [sess[s] EXCEPT !.at = "served"] \in Session
    BY <1>t DEF Session
  <1>3. sess' \in [Sessions -> Session]
    BY <1>t, <1>1, <1>2, SessMoves DEF TypeOK
  <1>4. sess[s].file \in Files /\ Resolved(sess[s].file)
    BY <1>t, <1>1 DEF FilesInv
  <1>5. \A l \in Layout(sess[s].file) :
           [id |-> replaced + 1, index |-> l.index, gpus |-> l.gpus, status |-> "free", owner |-> "none"] \in Slot
    <2>1. Layout(sess[s].file) \subseteq [index: Nat, gpus: SUBSET Int] /\ replaced + 1 \in Nat
      BY <1>t, <1>4, LayoutOfProfile DEF TypeOK
    <2> QED BY <2>1 DEF Slot
  <1>6. (\A r \in slots' : r \in Slot) /\ replaced' \in Nat
    BY <1>t, <1>5 DEF InsertSlots, TypeOK, dbVars
  <1>7. /\ node' \in [known: BOOLEAN, top: SUBSET Gpus, hash: Files \cup {NoFile}]
        /\ node'.hash \in {node.hash, sess[s].file}
    BY <1>t, <1>4 DEF InsertSlots, TypeOK, dbVars
  <1>8. FilesInv'
    <2>1. /\ sess'[s].at = "served" /\ sess'[s].file = sess[s].file
          /\ \A t \in Sessions : t # s => sess'[t] = sess[t]
      BY <1>t, <1>1, SessMoves
    <2> QED BY <1>t, <1>1, <1>4, <1>7, <2>1 DEF FilesInv
  <1> QED BY <1>t, <1>1, <1>3, <1>6, <1>7, <1>8 DEF BaseInv, TypeOK

\* A statement of a create handler rewrites rows in place: h gives each its
\* new status and owner, and leaves alone which row it is.
Rewritten(h) ==
    /\ h \in [slots -> Slot]
    /\ slots' = {h[r] : r \in slots}
    /\ \A r \in slots : h[r].id = r.id /\ h[r].index = r.index /\ h[r].gpus = r.gpus

\* Nothing is rewritten.
LEMMA RewriteNone ==
    ASSUME TypeOK, slots' = slots
    PROVE  Rewritten([r \in slots |-> r])
  BY DEF Rewritten, TypeOK

\* One row is.
LEMMA RewriteOne ==
    ASSUME TypeOK, NEW r0 \in slots, NEW r1 \in Slot,
           r1.id = r0.id, r1.index = r0.index, r1.gpus = r0.gpus,
           slots' = (slots \ {r0}) \cup {r1}
    PROVE  Rewritten([r \in slots |-> IF r = r0 THEN r1 ELSE r])
  BY DEF Rewritten, TypeOK

\* The rows an instance owns are freed.
Freed(j) == [r \in slots |-> IF r.owner = j THEN [r EXCEPT !.status = "free", !.owner = "none"] ELSE r]

\* ReleaseForInstance rewrites them.
LEMMA RewriteFreed ==
    ASSUME TypeOK, NEW j \in Creators, ReleaseForInstance(j)
    PROVE  Rewritten(Freed(j))
  <1>1. \A r \in slots : r \in Slot
    BY DEF TypeOK
  <1>2. \A r \in slots : LET q == [r EXCEPT !.status = "free", !.owner = "none"]
                         IN  q \in Slot /\ q.id = r.id /\ q.index = r.index /\ q.gpus = r.gpus
    BY <1>1 DEF Slot
  <1>3. Freed(j) \in [slots -> Slot]
    BY <1>1, <1>2 DEF Freed
  <1>4. slots' = {Freed(j)[r] : r \in slots}
    BY DEF ReleaseForInstance, Freed
  <1> QED BY <1>2, <1>3, <1>4 DEF Rewritten, Freed

\* A reservation is given up.
Unreserved(j) ==
    [r \in slots |-> IF r \in RowOf(j) /\ r.status = "reserved" THEN [r EXCEPT !.status = "free"] ELSE r]

\* ReleaseReserved rewrites its row.
LEMMA RewriteUnreserved ==
    ASSUME TypeOK, NEW j \in Creators, ReleaseReserved(j)
    PROVE  Rewritten(Unreserved(j))
  <1>1. \A r \in slots : r \in Slot
    BY DEF TypeOK
  <1>2. \A r \in slots : LET q == [r EXCEPT !.status = "free"]
                         IN  q \in Slot /\ q.id = r.id /\ q.index = r.index /\ q.gpus = r.gpus
    BY <1>1 DEF Slot
  <1>3. Unreserved(j) \in [slots -> Slot]
    BY <1>1, <1>2 DEF Unreserved
  <1>4. slots' = {Unreserved(j)[r] : r \in slots}
    BY DEF ReleaseReserved, Unreserved
  <1> QED BY <1>2, <1>3, <1>4 DEF Rewritten, Unreserved

\* The two statements that change the row of a handler: reserving it and
\* binding it.
ReservedRow(r) == [r EXCEPT !.status = "reserved"]
BoundRow(r, j) == [r EXCEPT !.status = "in_use", !.owner = j]

\* They keep it a slot, the same one.
LEMMA RowTypes ==
    ASSUME NEW r \in Slot, NEW j \in Creators
    PROVE  /\ ReservedRow(r) \in Slot /\ BoundRow(r, j) \in Slot
           /\ ReservedRow(r).id = r.id /\ ReservedRow(r).index = r.index /\ ReservedRow(r).gpus = r.gpus
           /\ ReservedRow(r).status = "reserved" /\ ReservedRow(r).owner = r.owner
           /\ BoundRow(r, j).id = r.id /\ BoundRow(r, j).index = r.index /\ BoundRow(r, j).gpus = r.gpus
           /\ BoundRow(r, j).status = "in_use" /\ BoundRow(r, j).owner = j
  BY DEF Slot, ReservedRow, BoundRow

\* Any step of a create handler.
Handles(j) ==
    \/ validateCreate(j) \/ (\E size \in GpuCounts : Reserve(j, size))
    \/ ReleaseReserved(j) \/ BindToInstance(j) \/ dispatchCreate(j)
    \/ InstanceEnds(j) \/ Reap(j)

\* It rewrites rows in place, and touches no other handler.
LEMMA HandlerStep ==
    ASSUME TypeOK, NEW j \in Creators, Handles(j)
    PROVE  /\ UNCHANGED <<bootstrapped, agent, node, replaced, sess>>
           /\ \E h : Rewritten(h)
           /\ job' \in [Creators -> Job]
           /\ \A k \in Creators : k # j => job'[k] = job[k]
           /\ past' \in [Creators -> SUBSET Sessions] /\ \A k \in Creators : k # j => past'[k] = past[k]
  <1>t. job[j] \in Job /\ \A r \in slots : r \in Slot
    BY DEF TypeOK
  <1>1. CASE validateCreate(j)
    <2>1. job' = [job EXCEPT ![j] = [job[j] EXCEPT !.at = "loaded", !.top = node.top]]
      BY <1>1 DEF validateCreate, TypeOK
    <2>2. [job[j] EXCEPT !.at = "loaded", !.top = node.top] \in Job
      BY <1>t DEF TypeOK, Job
    <2> QED BY <1>1, <2>1, <2>2, RewriteNone DEF validateCreate, hostVars, dbVars, TypeOK
  <1>2. ASSUME NEW size \in GpuCounts, Reserve(j, size) PROVE
           /\ UNCHANGED <<bootstrapped, agent, node, replaced, sess>>
           /\ \E h : Rewritten(h)
           /\ job' \in [Creators -> Job]
           /\ \A k \in Creators : k # j => job'[k] = job[k]
           /\ past' \in [Creators -> SUBSET Sessions] /\ \A k \in Creators : k # j => past'[k] = past[k]
    <2>1. PICK r \in slots :
             /\ slots' = (slots \ {r}) \cup {ReservedRow(r)}
             /\ job' = [job EXCEPT ![j].at = "reserved", ![j].id = r.id, ![j].index = r.index,
                                   ![j].gpus = r.gpus]
      BY <1>2 DEF Reserve, ReservedRow
    <2> DEFINE x == [job[j] EXCEPT !.at = "reserved", !.id = r.id, !.index = r.index, !.gpus = r.gpus]
    <2>2. job' = [job EXCEPT ![j] = x]
      BY <2>1 DEF TypeOK
    <2>3. x \in Job
      BY <1>t, <2>1 DEF Job, Slot
    <2>4. \E h : Rewritten(h)
      <3> DEFINE r1 == ReservedRow(r)
      <3>1. r1 \in Slot /\ r1.id = r.id /\ r1.index = r.index /\ r1.gpus = r.gpus
        BY <1>t, <2>1, RowTypes
      <3> HIDE DEF r1
      <3>2. slots' = (slots \ {r}) \cup {r1}
        BY <2>1 DEF r1
      <3> QED BY <2>1, <3>1, <3>2, RewriteOne
    <2> HIDE DEF x
    <2>5. past' = [past EXCEPT ![j] = SyncsPastCount] /\ SyncsPastCount \subseteq Sessions
      BY <1>2 DEF Reserve, SyncsPastCount
    <2>6. past' \in [Creators -> SUBSET Sessions] /\ \A k \in Creators : k # j => past'[k] = past[k]
      BY <2>5 DEF TypeOK
    <2> QED BY <1>2, <2>2, <2>3, <2>4, <2>6 DEF Reserve, hostVars, TypeOK
  <1>3. CASE ReleaseReserved(j)
    <2>1. job' = [job EXCEPT ![j] = [job[j] EXCEPT !.at = "done"]]
      BY <1>3 DEF ReleaseReserved, TypeOK
    <2>2. [job[j] EXCEPT !.at = "done"] \in Job
      BY <1>t DEF Job
    <2> QED BY <1>3, <2>1, <2>2, RewriteUnreserved DEF ReleaseReserved, hostVars, TypeOK
  <1>4. CASE BindToInstance(j)
    <2>1. job' = [job EXCEPT ![j] = [job[j] EXCEPT !.at = "bound"]]
      BY <1>4 DEF BindToInstance, TypeOK
    <2>2. [job[j] EXCEPT !.at = "bound"] \in Job
      BY <1>t DEF Job
    <2>3. PICK r \in slots : slots' = (slots \ {r}) \cup {BoundRow(r, j)}
      BY <1>4 DEF BindToInstance, RowOf, BoundRow
    <2>4. \E h : Rewritten(h)
      <3> DEFINE r1 == BoundRow(r, j)
      <3>1. r1 \in Slot /\ r1.id = r.id /\ r1.index = r.index /\ r1.gpus = r.gpus
        BY <1>t, <2>3, RowTypes
      <3> HIDE DEF r1
      <3>2. slots' = (slots \ {r}) \cup {r1}
        BY <2>3 DEF r1
      <3> QED BY <2>3, <3>1, <3>2, RewriteOne
    <2> QED BY <1>4, <2>1, <2>2, <2>4 DEF BindToInstance, hostVars, TypeOK
  <1>5. CASE dispatchCreate(j)
    <2> DEFINE devs == resolvePassthroughPCI(j)
    <2>1. devs \subseteq Devices
      <3>1. job[j].top \subseteq Devices
        BY <1>t, InventoryAssumption DEF Job
      <3> QED BY <3>1 DEF resolvePassthroughPCI, Companions, GroupMembers
    <2>2. job' = [job EXCEPT ![j] = [job[j] EXCEPT !.at = "running", !.devs = devs]]
      BY <1>5 DEF dispatchCreate, TypeOK
    <2> HIDE DEF devs
    <2>3. [job[j] EXCEPT !.at = "running", !.devs = devs] \in Job
      BY <1>t, <2>1 DEF Job
    <2>4. job' \in [Creators -> Job] /\ \A k \in Creators : k # j => job'[k] = job[k]
      BY <2>2, <2>3 DEF TypeOK
    <2>5. UNCHANGED <<bootstrapped, agent, node, slots, replaced, sess, past>>
      BY <1>5 DEF dispatchCreate, hostVars, dbVars
    <2>6. past' \in [Creators -> SUBSET Sessions] /\ past' = past
      BY <2>5 DEF TypeOK
    <2> QED BY <1>t, <2>4, <2>5, <2>6, RewriteNone
  <1>6. CASE InstanceEnds(j)
    <2>1. job' = [job EXCEPT ![j] = [job[j] EXCEPT !.at = "done", !.devs = {}]]
      BY <1>6 DEF InstanceEnds, TypeOK
    <2>2. [job[j] EXCEPT !.at = "done", !.devs = {}] \in Job
      BY <1>t DEF Job
    <2> QED BY <1>6, <2>1, <2>2, RewriteFreed DEF InstanceEnds, hostVars, TypeOK
  <1>7. CASE Reap(j)
    BY <1>7, RewriteFreed DEF Reap, hostVars, jobVars, TypeOK
  <1> QED BY <1>1, <1>2, <1>3, <1>4, <1>5, <1>6, <1>7 DEF Handles

\* What create handlers do.
LEMMA BaseHandler ==
    ASSUME BaseInv, NEW j \in Creators, Handles(j)
    PROVE  BaseInv'
  <1>1. TypeOK /\ FilesInv
    BY DEF BaseInv
  <1>2. PICK h : Rewritten(h)
    BY <1>1, HandlerStep
  <1>3. \A r \in slots' : r \in Slot
    BY <1>2 DEF Rewritten
  <1> QED BY <1>1, <1>3, HandlerStep DEF BaseInv, TypeOK, FilesInv

\* Every step of the specification is of one of these kinds.
LEMMA Steps ==
    ASSUME Next
    PROVE  \/ \E f \in Files \cup {NoFile} : AgentBoots(f)
           \/ AgentDies
           \/ \E s \in Sessions :
                 \/ runOnce(s) \/ UpsertOnline(s) \/ CompareHash(s) \/ CountBusy(s)
                 \/ DeleteSlotsForNode(s) \/ InsertSlots(s) \/ SyncFails(s) \/ StreamEnds(s)
           \/ \E j \in Creators : Handles(j)
  BY Zenon DEF Next, Handles

\* Every state is well typed, and every profile in it was resolved.
THEOREM InventoryTypes == Spec => []BaseInv
  <1>1. BaseInv /\ [Next]_vars => BaseInv'
    <2> SUFFICES ASSUME BaseInv, [Next]_vars PROVE BaseInv'
      OBVIOUS
    <2>1. CASE Next
      BY <2>1, Steps, BaseAgent, BaseSession, BaseInsert, BaseHandler
    <2>2. CASE UNCHANGED vars
      BY <2>2 DEF vars, hostVars, dbVars, jobVars, BaseInv, TypeOK, FilesInv
    <2> QED BY <2>1, <2>2
  <1> QED BY <1>1, BaseInit, PTL DEF Spec

-----------------------------------------------------------------------------
(* Whose a row is *)

\* The rows of a node are finitely many and told apart by their index; ids
\* only grow.
RowsInv ==
    /\ IsFiniteSet(slots)
    /\ \A r, q \in slots : r.index = q.index => r = q
    /\ \A r \in slots : r.id <= replaced
    /\ \A s \in Sessions : sess[s].snap <= replaced
    /\ \A j \in Creators : job[j].id <= replaced

\* A row with an owner is the one its owner reserved, and is in use.
OwnedInv ==
    \A r \in slots, j \in Creators : r.owner = j =>
        /\ r.status = "in_use" /\ job[j].at \in {"bound", "running"}
        /\ r.id = job[j].id /\ r.index = job[j].index /\ r.gpus = job[j].gpus

\* A row that a handler works on has the status the handler gave it.
ClaimsInv ==
    \A j \in Creators : \A r \in RowOf(j) :
        /\ job[j].at = "reserved" => r.status = "reserved" /\ r.owner = "none" /\ r.gpus = job[j].gpus
        /\ job[j].at = "bound" => r.owner = j

\* No two handlers work on one row.
DistinctInv ==
    \A j, k \in Creators :
        /\ j # k
        /\ job[j].at \in {"reserved", "bound"} /\ job[k].at \in {"reserved", "bound"}
        => job[j].id # job[k].id \/ job[j].index # job[k].index

\* Of the syncs that go for an instance's slot each had counted before it was
\* reserved.
Takes(s, j) == \/ sess[s].at = "delete"
               \/ sess[s].at = "insert" /\ ~(job[j].id > sess[s].snap)

BusyInv ==
    \A j \in Creators : Has(j) => \A s \in Sessions : Takes(s, j) => s \in past[j]

SyncInv == BaseInv /\ RowsInv /\ OwnedInv /\ ClaimsInv /\ DistinctInv /\ BusyInv

\* The initial state.
LEMMA SyncInit == Init => SyncInv
  <1> SUFFICES ASSUME Init PROVE SyncInv
    OBVIOUS
  <1>1. BaseInv /\ slots = {} /\ IsFiniteSet(slots)
    BY BaseInit, FS_EmptySet DEF Init
  <1> QED BY <1>1 DEF Init, SyncInv, RowsInv, OwnedInv, ClaimsInv, DistinctInv, BusyInv, RowOf, Has, Owns

\* Sessions move on without writing rows.  One goes for the rows only when no
\* instance has one, or as one that had counted before.
LEMMA SyncQuiet ==
    ASSUME SyncInv, BaseInv', UNCHANGED <<slots, replaced, job, past>>,
           \A t \in Sessions : sess'[t].snap <= replaced,
           \A t \in Sessions :
              \/ sess'[t] = sess[t] \/ sess'[t].at \notin {"delete", "insert"}
              \/ \A j \in Creators : Has(j) => t \in past[j]
    PROVE  SyncInv'
  <1>1. RowsInv'
    BY DEF SyncInv, RowsInv
  <1>2. \A j \in Creators : RowOf(j)' = RowOf(j)
    BY DEF RowOf
  <1>3. OwnedInv' /\ ClaimsInv' /\ DistinctInv'
    BY <1>2 DEF SyncInv, OwnedInv, ClaimsInv, DistinctInv
  <1>4. \A j \in Creators : Has(j)' <=> Has(j)
    BY <1>2 DEF Has, Owns
  <1>5. BusyInv'
    BY <1>4 DEF SyncInv, BusyInv, Takes
  <1> QED BY <1>1, <1>3, <1>5 DEF SyncInv

\* What the agent does.
LEMMA SyncAgent ==
    ASSUME SyncInv, BaseInv', \/ \E f \in Files \cup {NoFile} : AgentBoots(f)
                              \/ AgentDies
                              \/ \E s \in Sessions : runOnce(s)
    PROVE  SyncInv'
  <1>1. UNCHANGED <<slots, replaced, job, past>>
    BY DEF AgentBoots, AgentDies, runOnce, dbVars, jobVars
  <1>2. TypeOK /\ RowsInv
    BY DEF SyncInv, BaseInv
  <1>3. CASE sess' = sess
    BY <1>1, <1>2, <1>3, SyncQuiet DEF RowsInv
  <1>4. ASSUME NEW s \in Sessions, runOnce(s) PROVE SyncInv'
    <2>1. PICK top : sess' = [sess EXCEPT ![s] = [at |-> "upsert", file |-> agent, top |-> top, snap |-> 0]]
      BY <1>4 DEF runOnce
    <2>2. /\ sess'[s].at = "upsert" /\ sess'[s].snap = 0
          /\ \A t \in Sessions : t # s => sess'[t] = sess[t]
      BY <1>2, <2>1 DEF TypeOK
    <2>3. \A t \in Sessions : sess'[t].snap <= replaced
      BY <1>2, <2>2 DEF TypeOK, RowsInv
    <2> QED BY <1>1, <2>2, <2>3, SyncQuiet
  <1> QED BY <1>3, <1>4 DEF AgentBoots, AgentDies

\* When the count is zero no instance has a slot.
LEMMA NothingBusy ==
    ASSUME SyncInv, ~(CountNonFreeSlotsForNode > 0)
    PROVE  \A j \in Creators : ~Has(j)
  <1> DEFINE busy == {r \in slots : r.status # "free"}
  <1>1. IsFiniteSet(busy)
    BY FS_Subset DEF SyncInv, RowsInv
  <1>2. Cardinality(busy) \in Nat /\ Cardinality(busy) = CountNonFreeSlotsForNode
    BY <1>1, FS_CardinalityType DEF CountNonFreeSlotsForNode
  <1>3. busy = {}
    BY <1>1, <1>2, FS_EmptySet
  <1>4. \A r \in slots : r.status = "free"
    BY <1>3
  <1> QED BY <1>4 DEF SyncInv, OwnedInv, Has, Owns, RowOf

\* What a session does before it may write slots.
LEMMA SyncSession ==
    ASSUME SyncInv, BaseInv', NEW s \in Sessions,
           \/ UpsertOnline(s) \/ CompareHash(s) \/ CountBusy(s)
           \/ DeleteSlotsForNode(s) \/ SyncFails(s) \/ StreamEnds(s)
    PROVE  SyncInv'
  <1>t. TypeOK /\ RowsInv /\ BusyInv
    BY DEF SyncInv, BaseInv
  <1>1. UNCHANGED <<slots, replaced, job, past>>
    BY DEF UpsertOnline, CompareHash, CountBusy, DeleteSlotsForNode, SyncFails, StreamEnds, hostVars, dbVars, jobVars
  <1>2. ASSUME NEW place, Goto(s, place),
               place \notin {"delete", "insert"} \/ \A j \in Creators : ~Has(j)
        PROVE  SyncInv'
    <2>1. /\ sess'[s].at = place /\ sess'[s].snap = sess[s].snap
          /\ \A t \in Sessions : t # s => sess'[t] = sess[t]
      BY <1>t, <1>2, SessMoves
    <2>2. \A t \in Sessions : sess'[t].snap <= replaced
      BY <1>t, <2>1 DEF RowsInv
    <2> QED BY <1>1, <1>2, <2>1, <2>2, SyncQuiet
  <1>3. CASE UpsertOnline(s) \/ CompareHash(s) \/ SyncFails(s) \/ StreamEnds(s)
    BY <1>2, <1>3 DEF UpsertOnline, CompareHash, SyncFails, StreamEnds
  <1>4. CASE CountBusy(s)
    BY <1>2, <1>4, NothingBusy DEF CountBusy
  <1>5. CASE DeleteSlotsForNode(s)
    <2>1. sess[s].at = "delete" /\ sess' = [sess EXCEPT ![s].at = "insert", ![s].snap = replaced]
      BY <1>5 DEF DeleteSlotsForNode
    <2>2. /\ \A j \in Creators : Has(j) => s \in past[j]
          /\ \A t \in Sessions : t # s => sess'[t] = sess[t]
      BY <1>t, <2>1 DEF BusyInv, Takes, TypeOK
    <2>3. \A t \in Sessions : sess'[t].snap <= replaced
      <3>1. sess'[s].snap = replaced /\ \A t \in Sessions : t # s => sess'[t] = sess[t]
        BY <1>t, <2>1 DEF TypeOK, Session
      <3> QED BY <1>t, <3>1 DEF RowsInv, TypeOK
    <2> QED BY <1>1, <2>2, <2>3, SyncQuiet
  <1> QED BY <1>3, <1>4, <1>5

\* The rows of the sync that a session commits.
Kept(s) == {r \in slots : r.id > sess[s].snap}

FreshRow(l) == [id |-> replaced + 1, index |-> l.index, gpus |-> l.gpus, status |-> "free", owner |-> "none"]

Fresh(s) == {FreshRow(l) : l \in Layout(sess[s].file)}

\* InsertSlots is rolled back, or commits them.
LEMMA InsertOutcome ==
    ASSUME BaseInv, NEW s \in Sessions, InsertSlots(s)
    PROVE  /\ UNCHANGED <<job, past, bootstrapped>> /\ Goto(s, "served") /\ sess[s].at = "insert"
           /\ Resolved(sess[s].file)
           /\ \/ UNCHANGED <<node, slots, replaced>>
              \/ /\ slots' = Kept(s) \cup Fresh(s)
                 /\ \A r \in Fresh(s), q \in Kept(s) : r.index # q.index
                 /\ node' = [node EXCEPT !.hash = sess[s].file]
                 /\ replaced' = replaced + 1
  <1>1. sess[s].at = "insert" /\ Resolved(sess[s].file)
    BY DEF InsertSlots, BaseInv, FilesInv
  <1>2. Fresh(s) = {[id |-> replaced + 1, index |-> l.index, gpus |-> l.gpus,
                     status |-> "free", owner |-> "none"] : l \in Layout(sess[s].file)}
    BY DEF Fresh, FreshRow
  <1> QED BY <1>1, <1>2 DEF InsertSlots, Kept, hostVars, dbVars, jobVars

\* The fresh rows: finitely many, told apart by their index, newer than any
\* row or reservation, and nobody's.
LEMMA FreshRows ==
    ASSUME BaseInv, NEW s \in Sessions, Resolved(sess[s].file)
    PROVE  /\ IsFiniteSet(Fresh(s))
           /\ \A r, q \in Fresh(s) : r.index = q.index => r = q
           /\ \A r \in Fresh(s) : r.id = replaced + 1 /\ r.status = "free" /\ r.owner = "none"
           /\ {[index |-> r.index, gpus |-> r.gpus] : r \in Fresh(s)} = Layout(sess[s].file)
  <1> DEFINE L == Layout(sess[s].file)
             row == [l \in L |-> FreshRow(l)]
  <1>1. /\ IsFiniteSet(L)
        /\ L \subseteq [index: Nat, gpus: SUBSET Int]
        /\ \A l, m \in L : l.index = m.index => l = m
    BY LayoutOfProfile
  <1>2. Fresh(s) = {row[l] : l \in L}
    BY DEF Fresh
  <1>3. \A l \in L : /\ row[l].id = replaced + 1 /\ row[l].index = l.index /\ row[l].gpus = l.gpus
                     /\ row[l].status = "free" /\ row[l].owner = "none"
    BY DEF FreshRow
  <1>4. row \in Surjection(L, Fresh(s))
    BY <1>2 DEF Surjection
  <1> HIDE DEF L, row
  <1>5. IsFiniteSet(Fresh(s))
    BY <1>1, <1>4, FS_Surjection
  <1>6. \A r, q \in Fresh(s) : r.index = q.index => r = q
    BY <1>1, <1>2, <1>3
  <1>7. {[index |-> r.index, gpus |-> r.gpus] : r \in Fresh(s)} = L
    <2>1. \A l \in L : [index |-> row[l].index, gpus |-> row[l].gpus] = l
      BY <1>1, <1>3
    <2> QED BY <1>2, <2>1
  <1> QED BY <1>2, <1>3, <1>5, <1>6, <1>7 DEF L

\* A commit deletes the row of no instance that reserved before its count.
LEMMA SyncInsert ==
    ASSUME SyncInv, BaseInv', NEW s \in Sessions, InsertSlots(s)
    PROVE  SyncInv' /\ \A j \in Creators : Has(j) /\ ~Has(j)' => s \in past[j]
  <1>t. BaseInv /\ TypeOK /\ RowsInv /\ OwnedInv /\ ClaimsInv /\ DistinctInv /\ BusyInv
    BY DEF SyncInv, BaseInv
  <1>1. /\ job' = job /\ past' = past /\ Resolved(sess[s].file)
        /\ sess'[s].at = "served" /\ sess'[s].snap = sess[s].snap /\ sess[s].at = "insert"
        /\ \A t \in Sessions : t # s => sess'[t] = sess[t]
    BY <1>t, InsertOutcome, SessMoves
  <1>2. CASE UNCHANGED <<slots, replaced>>
    <2>1. \A t \in Sessions : sess'[t].snap <= replaced
      BY <1>t, <1>1 DEF RowsInv
    <2>2. \A j \in Creators : Has(j)' <=> Has(j)
      BY <1>1, <1>2 DEF Has, Owns, RowOf
    <2> QED BY <1>1, <1>2, <2>1, <2>2, SyncQuiet
  <1>3. CASE /\ slots' = Kept(s) \cup Fresh(s)
             /\ \A r \in Fresh(s), q \in Kept(s) : r.index # q.index
             /\ replaced' = replaced + 1
    <2>1. /\ IsFiniteSet(Fresh(s))
          /\ \A r, q \in Fresh(s) : r.index = q.index => r = q
          /\ \A r \in Fresh(s) : r.id = replaced + 1 /\ r.status = "free" /\ r.owner = "none"
      BY <1>t, <1>1, FreshRows
    <2>2. Kept(s) \subseteq slots /\ \A r \in slots : r \in Kept(s) <=> r.id > sess[s].snap
      BY DEF Kept
    <2>3. /\ replaced \in Nat /\ \A t \in Sessions : sess[t].snap \in Nat
          /\ (\A j \in Creators : job[j].id \in Nat) /\ \A r \in slots : r.id \in Nat
      BY <1>t DEF TypeOK, Session, Job, Slot
    <2>4. RowsInv'
      <3>1. IsFiniteSet(slots')
        <4>1. IsFiniteSet(Kept(s))
          BY <1>t, <2>2, FS_Subset DEF RowsInv
        <4> QED BY <1>3, <2>1, <4>1, FS_Union
      <3>2. \A r, q \in slots' : r.index = q.index => r = q
        BY <1>t, <1>3, <2>1, <2>2 DEF RowsInv
      <3>3. \A r \in slots' : r.id <= replaced'
        BY <1>t, <1>3, <2>1, <2>2, <2>3 DEF RowsInv
      <3>4. (\A t \in Sessions : sess'[t].snap <= replaced') /\ \A j \in Creators : job'[j].id <= replaced'
        BY <1>t, <1>1, <1>3, <2>3 DEF RowsInv
      <3> QED BY <3>1, <3>2, <3>3, <3>4 DEF RowsInv
    <2>5. \A j \in Creators : RowOf(j)' = {r \in RowOf(j) : r.id > sess[s].snap}
      <3>1. \A j \in Creators : \A r \in Fresh(s) : r.id # job[j].id
        BY <1>t, <2>1, <2>3 DEF RowsInv
      <3> QED BY <1>1, <1>3, <2>2, <3>1 DEF RowOf
    <2>6. OwnedInv'
      BY <1>t, <1>1, <1>3, <2>1, <2>2, InventoryAssumption DEF OwnedInv
    <2>7. ClaimsInv' /\ DistinctInv'
      BY <1>t, <1>1, <2>5 DEF ClaimsInv, DistinctInv
    <2>8. \A j \in Creators : Has(j)' => Has(j)
      <3>1. \A j \in Creators : Owns(j)' => Owns(j)
        BY <1>3, <2>1, <2>2, InventoryAssumption DEF Owns
      <3> QED BY <1>1, <2>5, <3>1 DEF Has
    <2>9. BusyInv'
      <3> SUFFICES ASSUME NEW j \in Creators, Has(j)', NEW t \in Sessions, Takes(t, j)'
                   PROVE  t \in past[j]
        BY <1>1 DEF BusyInv
      <3>1. Has(j) /\ Takes(t, j)
        BY <1>1, <2>8 DEF Takes
      <3> QED BY <1>t, <3>1 DEF BusyInv
    <2>10. \A j \in Creators : Has(j) /\ ~Has(j)' => s \in past[j]
      <3> SUFFICES ASSUME NEW j \in Creators, Has(j), s \notin past[j] PROVE Has(j)'
        OBVIOUS
      <3>1. job[j].id > sess[s].snap
        BY <1>t, <1>1 DEF BusyInv, Takes
      <3>2. RowOf(j)' = RowOf(j)
        BY <2>5, <3>1 DEF RowOf
      <3>3. Owns(j) => Owns(j)'
        BY <1>t, <1>3, <2>2, <3>1 DEF Owns, OwnedInv
      <3> QED BY <1>1, <3>2, <3>3 DEF Has
    <2> QED BY <2>4, <2>6, <2>7, <2>9, <2>10 DEF SyncInv
  <1> QED BY <1>t, <1>2, <1>3, InsertOutcome

\* Rewriting rows in place keeps them told apart.
LEMMA RewriteKeeps ==
    ASSUME NEW h, Rewritten(h), RowsInv
    PROVE  /\ IsFiniteSet(slots')
           /\ \A r, q \in slots' : r.index = q.index => r = q
           /\ (\A r \in slots : r.id <= replaced) => \A r \in slots' : r.id <= replaced
           /\ {[index |-> r.index, gpus |-> r.gpus] : r \in slots'}
                = {[index |-> r.index, gpus |-> r.gpus] : r \in slots}
  <1>1. IsFiniteSet(slots')
    <2>1. h \in Surjection(slots, slots')
      BY DEF Rewritten, Surjection
    <2> QED BY <2>1, FS_Surjection DEF RowsInv
  <1>2. \A r, q \in slots' : r.index = q.index => r = q
    BY DEF Rewritten, RowsInv
  <1>3. {[index |-> r.index, gpus |-> r.gpus] : r \in slots'}
          = {[index |-> r.index, gpus |-> r.gpus] : r \in slots}
    BY DEF Rewritten
  <1> QED BY <1>1, <1>2, <1>3 DEF Rewritten

\* A handler's row under a rewriting, when its reservation stays.
LEMMA RewrittenRow ==
    ASSUME NEW h, Rewritten(h), NEW k, job'[k].id = job[k].id, job'[k].index = job[k].index
    PROVE  RowOf(k)' = {h[r] : r \in RowOf(k)}
  BY DEF Rewritten, RowOf

\* What every step of a handler keeps: rows told apart and ids below the
\* counter, once its own id is.
LEMMA HandlerRows ==
    ASSUME SyncInv, NEW j \in Creators, Handles(j), job'[j].id <= replaced
    PROVE  RowsInv'
  <1>1. TypeOK /\ RowsInv
    BY DEF SyncInv, BaseInv
  <1>2. PICK h : Rewritten(h)
    BY <1>1, HandlerStep
  <1>3. /\ IsFiniteSet(slots')
        /\ \A r, q \in slots' : r.index = q.index => r = q
        /\ \A r \in slots' : r.id <= replaced
    BY <1>1, <1>2, RewriteKeeps DEF RowsInv
  <1>4. replaced' = replaced /\ sess' = sess /\ \A k \in Creators : k # j => job'[k] = job[k]
    BY <1>1, HandlerStep
  <1> QED BY <1>1, <1>3, <1>4 DEF RowsInv

\* Every other instance has a slot as before.
OthersKeep(j) == \A k \in Creators : k # j => (Has(k)' <=> Has(k))

\* A handler keeps to its own row and its own reservation.
LEMMA OthersKeepTheirs ==
    ASSUME SyncInv, NEW j \in Creators, Handles(j),
           \A k \in Creators : k # j => (Owns(k)' <=> Owns(k)),
           \A k \in Creators : k # j /\ job[k].at \in {"reserved", "bound"} => RowOf(k)' = RowOf(k)
    PROVE  /\ OthersKeep(j)
           /\ \A k \in Creators : k # j => (Has(k)' => \A s \in Sessions : Takes(s, k)' => s \in past'[k])
  <1>1. /\ sess' = sess /\ \A k \in Creators : k # j => job'[k] = job[k] /\ past'[k] = past[k]
    BY HandlerStep DEF SyncInv, BaseInv
  <1>2. OthersKeep(j)
    BY <1>1 DEF OthersKeep, Has
  <1> QED BY <1>1, <1>2 DEF OthersKeep, SyncInv, BusyInv, Takes

\* A handler reserves a free row: no other handler works on it, and a sync that
\* is about to delete it is past its count.
LEMMA SyncReserve ==
    ASSUME SyncInv, BaseInv', NEW j \in Creators, NEW size \in GpuCounts, Reserve(j, size)
    PROVE  SyncInv' /\ OthersKeep(j) /\ ~Has(j)
  <1>t. BaseInv /\ TypeOK /\ RowsInv /\ OwnedInv /\ ClaimsInv /\ DistinctInv /\ BusyInv
    BY DEF SyncInv, BaseInv
  <1>1. PICK r \in slots :
           /\ r.status = "free" /\ ~Locked(r)
           /\ slots' = (slots \ {r}) \cup {ReservedRow(r)}
           /\ job' = [job EXCEPT ![j].at = "reserved", ![j].id = r.id, ![j].index = r.index,
                                 ![j].gpus = r.gpus]
    BY DEF Reserve, ReservedRow
  <1> DEFINE q == ReservedRow(r)
             h == [p \in slots |-> IF p = r THEN q ELSE p]
  <1>2. /\ job'[j].at = "reserved" /\ job'[j].id = r.id /\ job'[j].index = r.index /\ job'[j].gpus = r.gpus
        /\ \A k \in Creators : k # j => job'[k] = job[k]
    BY <1>t, <1>1 DEF TypeOK, Job
  <1>3. /\ q \in Slot /\ q.id = r.id /\ q.index = r.index /\ q.gpus = r.gpus
        /\ q.status = "reserved" /\ q.owner = r.owner /\ r.owner \in Creators \cup {"none"}
    <2>1. r \in Slot
      BY <1>t, <1>1 DEF TypeOK
    <2> QED BY <2>1, RowTypes DEF Slot
  <1>4. sess' = sess /\ replaced' = replaced /\ past'[j] = SyncsPastCount /\ job[j].at = "loaded"
    BY <1>t DEF Reserve, TypeOK
  <1> HIDE DEF q
  <1>5. Rewritten(h) /\ slots' = (slots \ {r}) \cup {q}
    <2>1. slots' = (slots \ {r}) \cup {q}
      BY <1>1 DEF q
    <2> QED BY <1>t, <1>1, <1>3, <2>1, RewriteOne
  <1>6. r.owner = "none"
    BY <1>t, <1>1, <1>3 DEF OwnedInv
  <1>7. RowsInv'
    <2>1. Handles(j)
      BY DEF Handles
    <2> QED BY <1>t, <1>1, <1>2, <2>1, HandlerRows DEF RowsInv
  <1>8. \A k \in Creators : k # j /\ job[k].at \in {"reserved", "bound"} => r \notin RowOf(k)
    BY <1>t, <1>1, <1>6, InventoryAssumption DEF ClaimsInv
  <1>9. \A k \in Creators : k # j /\ job[k].at \in {"reserved", "bound"} =>
           RowOf(k)' = RowOf(k) /\ (job[k].id # r.id \/ job[k].index # r.index)
    <2> SUFFICES ASSUME NEW k \in Creators, k # j, job[k].at \in {"reserved", "bound"}
                 PROVE  RowOf(k)' = RowOf(k) /\ (job[k].id # r.id \/ job[k].index # r.index)
      OBVIOUS
    <2>1. job[k].id # r.id \/ job[k].index # r.index
      BY <1>1, <1>8 DEF RowOf
    <2> QED BY <1>2, <1>3, <1>5, <2>1 DEF RowOf
  <1>10. RowOf(j)' = {q}
    BY <1>t, <1>1, <1>2, <1>3, <1>5 DEF RowOf, RowsInv
  <1>11. OwnedInv'
    <2> SUFFICES ASSUME NEW p \in slots', NEW k \in Creators, p.owner = k
                 PROVE  /\ p.status = "in_use" /\ job'[k].at \in {"bound", "running"}
                        /\ p.id = job'[k].id /\ p.index = job'[k].index /\ p.gpus = job'[k].gpus
      BY DEF OwnedInv
    <2>1. p \in slots
      BY <1>3, <1>5, <1>6, InventoryAssumption
    <2>2. k # j
      BY <1>t, <2>1 DEF OwnedInv, Reserve
    <2> QED BY <1>t, <1>2, <2>1, <2>2 DEF OwnedInv
  <1>12. ClaimsInv'
    <2>1. \A p \in RowOf(j)' : p.status = "reserved" /\ p.owner = "none" /\ p.gpus = job'[j].gpus
      BY <1>2, <1>3, <1>6, <1>10
    <2>2. \A k \in Creators : k # j => \A p \in RowOf(k)' :
             /\ job'[k].at = "reserved" => p.status = "reserved" /\ p.owner = "none" /\ p.gpus = job'[k].gpus
             /\ job'[k].at = "bound" => p.owner = k
      BY <1>t, <1>2, <1>9 DEF ClaimsInv
    <2> QED BY <1>2, <2>1, <2>2 DEF ClaimsInv
  <1>13. DistinctInv'
    BY <1>t, <1>2, <1>9 DEF DistinctInv
  <1>14. \A k \in Creators : k # j => (Owns(k)' <=> Owns(k))
    BY <1>1, <1>3, <1>5, <1>6, InventoryAssumption DEF Owns
  <1>15. OthersKeep(j) /\ \A k \in Creators : k # j => (Has(k)' => \A s \in Sessions : Takes(s, k)' => s \in past'[k])
    <2>1. Handles(j)
      BY DEF Handles
    <2> QED BY <1>9, <1>14, <2>1, OthersKeepTheirs
  <1>16. \A s \in Sessions : Takes(s, j)' => s \in past'[j]
    <2>1. r.id \in Nat /\ \A s \in Sessions : sess[s].snap \in Nat
      BY <1>t, <1>1 DEF TypeOK, Slot, Session
    <2> QED BY <1>1, <1>2, <1>4, <2>1 DEF Takes, SyncsPastCount, Locked
  <1>17. BusyInv'
    BY <1>15, <1>16 DEF BusyInv
  <1>18. ~Has(j)
    BY <1>t, <1>4 DEF Has, Owns, OwnedInv
  <1> QED BY <1>7, <1>11, <1>12, <1>13, <1>15, <1>17, <1>18 DEF SyncInv

\* A handler gives its reservation up.
LEMMA SyncUnreserve ==
    ASSUME SyncInv, BaseInv', NEW j \in Creators, ReleaseReserved(j)
    PROVE  SyncInv' /\ OthersKeep(j) /\ ~Has(j)'
  <1>t. BaseInv /\ TypeOK /\ RowsInv /\ OwnedInv /\ ClaimsInv /\ DistinctInv /\ BusyInv
    BY DEF SyncInv, BaseInv
  <1> DEFINE h == Unreserved(j)
  <1>1. /\ job'[j].at = "done" /\ job'[j].id = job[j].id /\ job[j].at = "reserved"
        /\ \A k \in Creators : k # j => job'[k] = job[k]
    BY <1>t DEF ReleaseReserved, TypeOK, Job
  <1>2. sess' = sess /\ replaced' = replaced /\ past' = past
    BY DEF ReleaseReserved
  <1>3. Rewritten(h)
    BY <1>t, RewriteUnreserved
  <1>4. \A r \in slots : h[r] = r \/ (r \in RowOf(j) /\ r.owner = "none" /\ h[r].owner = "none")
    <2>1. \A r \in slots : r \in RowOf(j) => r.owner = "none" /\ r \in Slot
      BY <1>t, <1>1 DEF ClaimsInv, TypeOK
    <2> QED BY <2>1 DEF Unreserved, Slot
  <1>5. \A r \in slots : r \notin RowOf(j) => h[r] = r
    BY DEF Unreserved
  <1> HIDE DEF h
  <1>6. RowsInv'
    <2>1. Handles(j)
      BY DEF Handles
    <2> QED BY <1>t, <1>1, <2>1, HandlerRows DEF RowsInv
  <1>7. \A k \in Creators : k # j /\ job[k].at \in {"reserved", "bound"} => RowOf(k)' = RowOf(k)
    <2> SUFFICES ASSUME NEW k \in Creators, k # j, job[k].at \in {"reserved", "bound"}
                 PROVE  RowOf(k)' = RowOf(k)
      OBVIOUS
    <2>1. RowOf(k) \cap RowOf(j) = {}
      BY <1>t, <1>1 DEF DistinctInv, RowOf
    <2>2. \A r \in RowOf(k) : h[r] = r
      BY <1>5, <2>1 DEF RowOf
    <2>3. RowOf(k)' = {h[r] : r \in RowOf(k)}
      BY <1>1, <1>3, RewrittenRow
    <2> QED BY <2>2, <2>3
  <1>8. OwnedInv'
    <2> SUFFICES ASSUME NEW p \in slots', NEW k \in Creators, p.owner = k
                 PROVE  /\ p.status = "in_use" /\ job'[k].at \in {"bound", "running"}
                        /\ p.id = job'[k].id /\ p.index = job'[k].index /\ p.gpus = job'[k].gpus
      BY DEF OwnedInv
    <2>1. p \in slots
      BY <1>3, <1>4, InventoryAssumption DEF Rewritten
    <2>2. k # j
      BY <1>t, <1>1, <2>1 DEF OwnedInv
    <2> QED BY <1>t, <1>1, <2>1, <2>2 DEF OwnedInv
  <1>9. ClaimsInv'
    BY <1>t, <1>1, <1>7 DEF ClaimsInv
  <1>10. DistinctInv'
    BY <1>t, <1>1 DEF DistinctInv
  <1>11. \A k \in Creators : k # j => (Owns(k)' <=> Owns(k))
    <2>1. slots' = {h[r] : r \in slots}
      BY <1>3 DEF Rewritten
    <2> QED BY <1>4, <2>1, InventoryAssumption DEF Owns
  <1>12. OthersKeep(j) /\ \A k \in Creators : k # j => (Has(k)' => \A s \in Sessions : Takes(s, k)' => s \in past'[k])
    <2>1. Handles(j)
      BY DEF Handles
    <2> QED BY <1>7, <1>11, <2>1, OthersKeepTheirs
  <1>13. ~Has(j)'
    BY <1>1, <1>8 DEF Has, Owns, OwnedInv
  <1>14. BusyInv'
    BY <1>12, <1>13 DEF BusyInv
  <1> QED BY <1>6, <1>8, <1>9, <1>10, <1>12, <1>13, <1>14 DEF SyncInv

\* A handler binds the row it reserved.
LEMMA SyncBind ==
    ASSUME SyncInv, BaseInv', NEW j \in Creators, BindToInstance(j)
    PROVE  SyncInv' /\ OthersKeep(j) /\ (Has(j)' => Has(j)) /\ (Has(j) => Has(j)')
  <1>t. BaseInv /\ TypeOK /\ RowsInv /\ OwnedInv /\ ClaimsInv /\ DistinctInv /\ BusyInv
    BY DEF SyncInv, BaseInv
  <1>1. PICK r \in RowOf(j) : slots' = (slots \ {r}) \cup {BoundRow(r, j)}
    BY DEF BindToInstance, BoundRow
  <1> DEFINE q == BoundRow(r, j)
             h == [p \in slots |-> IF p = r THEN q ELSE p]
  <1>2. /\ job'[j].at = "bound" /\ job'[j].id = job[j].id /\ job'[j].index = job[j].index
        /\ job'[j].gpus = job[j].gpus /\ job[j].at = "reserved"
        /\ \A k \in Creators : k # j => job'[k] = job[k]
    BY <1>t DEF BindToInstance, TypeOK, Job
  <1>3. /\ r \in slots /\ r.id = job[j].id /\ r.index = job[j].index
        /\ r.gpus = job[j].gpus /\ r.owner = "none"
    BY <1>t, <1>1, <1>2 DEF RowOf, ClaimsInv
  <1>4. /\ q \in Slot /\ q.id = r.id /\ q.index = r.index /\ q.gpus = r.gpus
        /\ q.status = "in_use" /\ q.owner = j
    <2>1. r \in Slot
      BY <1>t, <1>3 DEF TypeOK
    <2> QED BY <2>1, RowTypes
  <1>5. sess' = sess /\ replaced' = replaced /\ past' = past
    BY DEF BindToInstance
  <1> HIDE DEF q
  <1>6. Rewritten(h) /\ slots' = (slots \ {r}) \cup {q}
    <2>1. slots' = (slots \ {r}) \cup {q}
      BY <1>1 DEF q
    <2> QED BY <1>t, <1>3, <1>4, <2>1, RewriteOne
  <1>7. RowsInv'
    <2>1. Handles(j)
      BY DEF Handles
    <2> QED BY <1>t, <1>2, <2>1, HandlerRows DEF RowsInv
  <1>8. \A k \in Creators : k # j /\ job[k].at \in {"reserved", "bound"} => RowOf(k)' = RowOf(k)
    <2> SUFFICES ASSUME NEW k \in Creators, k # j, job[k].at \in {"reserved", "bound"}
                 PROVE  RowOf(k)' = RowOf(k)
      OBVIOUS
    <2>1. job[k].id # r.id \/ job[k].index # r.index
      BY <1>t, <1>2, <1>3 DEF DistinctInv
    <2> QED BY <1>2, <1>4, <1>6, <2>1 DEF RowOf
  <1>9. RowOf(j)' = {q}
    BY <1>t, <1>2, <1>3, <1>4, <1>6 DEF RowOf, RowsInv
  <1>10. OwnedInv'
    <2> SUFFICES ASSUME NEW p \in slots', NEW k \in Creators, p.owner = k
                 PROVE  /\ p.status = "in_use" /\ job'[k].at \in {"bound", "running"}
                        /\ p.id = job'[k].id /\ p.index = job'[k].index /\ p.gpus = job'[k].gpus
      BY DEF OwnedInv
    <2>1. CASE p = q
      BY <1>2, <1>3, <1>4, <2>1
    <2>2. CASE p \in slots
      <3>1. k # j
        BY <1>t, <1>2, <2>2 DEF OwnedInv
      <3> QED BY <1>t, <1>2, <2>2, <3>1 DEF OwnedInv
    <2> QED BY <1>6, <2>1, <2>2
  <1>11. ClaimsInv'
    <2>1. \A p \in RowOf(j)' : p.owner = j
      BY <1>4, <1>9
    <2>2. \A k \in Creators : k # j => \A p \in RowOf(k)' :
             /\ job'[k].at = "reserved" => p.status = "reserved" /\ p.owner = "none" /\ p.gpus = job'[k].gpus
             /\ job'[k].at = "bound" => p.owner = k
      BY <1>t, <1>2, <1>8 DEF ClaimsInv
    <2> QED BY <1>2, <2>1, <2>2 DEF ClaimsInv
  <1>12. DistinctInv'
    BY <1>t, <1>2 DEF DistinctInv
  <1>13. \A k \in Creators : k # j => (Owns(k)' <=> Owns(k))
    BY <1>3, <1>4, <1>6, InventoryAssumption DEF Owns
  <1>14. OthersKeep(j) /\ \A k \in Creators : k # j => (Has(k)' => \A s \in Sessions : Takes(s, k)' => s \in past'[k])
    <2>1. Handles(j)
      BY DEF Handles
    <2> QED BY <1>8, <1>13, <2>1, OthersKeepTheirs
  <1>15. Has(j) /\ Has(j)'
    <2>1. Has(j)
      BY <1>1, <1>2, <1>t DEF Has, ClaimsInv
    <2>2. Owns(j)'
      BY <1>4, <1>6 DEF Owns
    <2> QED BY <2>1, <2>2 DEF Has
  <1>16. BusyInv'
    <2>1. \A s \in Sessions : Takes(s, j)' => s \in past'[j]
      BY <1>t, <1>2, <1>5, <1>15 DEF BusyInv, Takes
    <2> QED BY <1>14, <2>1 DEF BusyInv
  <1> QED BY <1>7, <1>10, <1>11, <1>12, <1>14, <1>15, <1>16 DEF SyncInv

\* An instance's rows are freed: it ended, or its node was lost.
LEMMA SyncFree ==
    ASSUME SyncInv, BaseInv', NEW j \in Creators, InstanceEnds(j) \/ Reap(j)
    PROVE  SyncInv' /\ OthersKeep(j) /\ ~Has(j)'
  <1>t. BaseInv /\ TypeOK /\ RowsInv /\ OwnedInv /\ ClaimsInv /\ DistinctInv /\ BusyInv
    BY DEF SyncInv, BaseInv
  <1> DEFINE h == Freed(j)
  <1>1. /\ job'[j].at \in {"running", "done"} /\ job'[j].id = job[j].id
        /\ \A k \in Creators : k # j => job'[k] = job[k]
    BY <1>t DEF InstanceEnds, Reap, jobVars, TypeOK, Job
  <1>2. sess' = sess /\ replaced' = replaced /\ past' = past
    BY DEF InstanceEnds, Reap, jobVars
  <1>3. Rewritten(h)
    BY <1>t, RewriteFreed DEF InstanceEnds, Reap
  <1>4. \A r \in slots : /\ r.owner # j => h[r] = r
                         /\ r.owner = j => h[r].owner = "none"
    <2>1. \A r \in slots : r \in Slot
      BY <1>t DEF TypeOK
    <2> QED BY <2>1 DEF Freed, Slot
  <1> HIDE DEF h
  <1>6. RowsInv'
    <2>1. Handles(j)
      BY DEF Handles
    <2> QED BY <1>t, <1>1, <2>1, HandlerRows DEF RowsInv
  <1>7. \A k \in Creators : k # j /\ job[k].at \in {"reserved", "bound"} => RowOf(k)' = RowOf(k)
    <2> SUFFICES ASSUME NEW k \in Creators, k # j, job[k].at \in {"reserved", "bound"}
                 PROVE  RowOf(k)' = RowOf(k)
      OBVIOUS
    <2>1. \A r \in RowOf(k) : r.owner # j /\ r \in slots
      BY <1>t, InventoryAssumption DEF ClaimsInv, RowOf
    <2>2. RowOf(k)' = {h[r] : r \in RowOf(k)}
      BY <1>1, <1>3, RewrittenRow
    <2> QED BY <1>4, <2>1, <2>2
  <1>8. OwnedInv'
    <2> SUFFICES ASSUME NEW p \in slots', NEW k \in Creators, p.owner = k
                 PROVE  /\ p.status = "in_use" /\ job'[k].at \in {"bound", "running"}
                        /\ p.id = job'[k].id /\ p.index = job'[k].index /\ p.gpus = job'[k].gpus
      BY DEF OwnedInv
    <2>1. p \in slots /\ k # j
      BY <1>3, <1>4, InventoryAssumption DEF Rewritten
    <2> QED BY <1>t, <1>1, <2>1 DEF OwnedInv
  <1>9. ClaimsInv'
    BY <1>t, <1>1, <1>7 DEF ClaimsInv
  <1>10. DistinctInv'
    BY <1>t, <1>1 DEF DistinctInv
  <1>11. slots' = {h[r] : r \in slots}
    BY <1>3 DEF Rewritten
  <1>12. (\A k \in Creators : k # j => (Owns(k)' <=> Owns(k))) /\ ~Owns(j)'
    BY <1>4, <1>11, InventoryAssumption DEF Owns
  <1>13. OthersKeep(j) /\ \A k \in Creators : k # j => (Has(k)' => \A s \in Sessions : Takes(s, k)' => s \in past'[k])
    <2>1. Handles(j)
      BY DEF Handles
    <2> QED BY <1>7, <1>12, <2>1, OthersKeepTheirs
  <1>14. ~Has(j)'
    BY <1>1, <1>12 DEF Has
  <1>15. BusyInv'
    BY <1>13, <1>14 DEF BusyInv
  <1> QED BY <1>6, <1>8, <1>9, <1>10, <1>13, <1>14, <1>15 DEF SyncInv

\* A handler starts, or dispatches: no row changes.
LEMMA SyncLeaves ==
    ASSUME SyncInv, BaseInv', NEW j \in Creators, validateCreate(j) \/ dispatchCreate(j)
    PROVE  SyncInv' /\ OthersKeep(j) /\ (Has(j)' <=> Has(j))
  <1>t. BaseInv /\ TypeOK /\ RowsInv /\ OwnedInv /\ ClaimsInv /\ DistinctInv /\ BusyInv
    BY DEF SyncInv, BaseInv
  <1>1. /\ job'[j].at \in {"loaded", "running"} /\ job'[j].id = job[j].id
        /\ job'[j].index = job[j].index /\ job'[j].gpus = job[j].gpus
        /\ job[j].at = "bound" => job'[j].at = "running"
        /\ job[j].at \notin {"running"}
        /\ \A k \in Creators : k # j => job'[k] = job[k]
    BY <1>t DEF validateCreate, dispatchCreate, TypeOK, Job
  <1>2. sess' = sess /\ replaced' = replaced /\ past' = past /\ slots' = slots
    BY DEF validateCreate, dispatchCreate, dbVars
  <1>3. RowsInv'
    <2>1. Handles(j)
      BY DEF Handles
    <2> QED BY <1>t, <1>1, <2>1, HandlerRows DEF RowsInv
  <1>4. \A k \in Creators : RowOf(k)' = RowOf(k)
    BY <1>1, <1>2 DEF RowOf
  <1>5. OwnedInv'
    <2> SUFFICES ASSUME NEW p \in slots, NEW k \in Creators, p.owner = k
                 PROVE  /\ p.status = "in_use" /\ job'[k].at \in {"bound", "running"}
                        /\ p.id = job'[k].id /\ p.index = job'[k].index /\ p.gpus = job'[k].gpus
      BY <1>2 DEF OwnedInv
    <2> QED BY <1>t, <1>1 DEF OwnedInv
  <1>6. ClaimsInv' /\ DistinctInv'
    BY <1>t, <1>1, <1>4 DEF ClaimsInv, DistinctInv
  <1>7. \A k \in Creators : Owns(k)' <=> Owns(k)
    BY <1>2 DEF Owns
  <1>8. OthersKeep(j) /\ \A k \in Creators : k # j => (Has(k)' => \A s \in Sessions : Takes(s, k)' => s \in past'[k])
    <2>1. Handles(j)
      BY DEF Handles
    <2> QED BY <1>4, <1>7, <2>1, OthersKeepTheirs
  <1>9. Has(j)' <=> Has(j)
    <2>1. job[j].at # "reserved"
      BY DEF validateCreate, dispatchCreate
    <2> QED BY <1>1, <1>7, <2>1 DEF Has
  <1>10. BusyInv'
    <2>1. Has(j)' => \A s \in Sessions : Takes(s, j)' => s \in past'[j]
      BY <1>t, <1>1, <1>2, <1>9 DEF BusyInv, Takes
    <2> QED BY <1>8, <2>1 DEF BusyInv
  <1> QED BY <1>3, <1>5, <1>6, <1>8, <1>9, <1>10 DEF SyncInv

\* Every step keeps whose a row is.
LEMMA SyncHolds == Spec => []SyncInv
  <1>1. SyncInv /\ [Next]_vars => SyncInv'
    <2> SUFFICES ASSUME SyncInv, [Next]_vars PROVE SyncInv'
      OBVIOUS
    <2>1. CASE Next
      <3>1. BaseInv'
        BY <2>1, Steps, BaseAgent, BaseSession, BaseInsert, BaseHandler DEF SyncInv
      <3>2. ASSUME NEW j \in Creators, Handles(j) PROVE SyncInv'
        BY <3>1, <3>2, SyncReserve, SyncUnreserve, SyncBind, SyncFree, SyncLeaves DEF Handles
      <3> QED BY <2>1, <3>1, <3>2, Steps, SyncAgent, SyncSession, SyncInsert
    <2>2. CASE UNCHANGED vars
      BY <2>2 DEF vars, hostVars, dbVars, jobVars, SyncInv, BaseInv, TypeOK, FilesInv, RowsInv,
                  OwnedInv, ClaimsInv, DistinctInv, BusyInv, RowOf, Has, Owns, Takes
    <2> QED BY <2>1, <2>2
  <1> QED BY <1>1, SyncInit, PTL DEF Spec

\* An instance loses its slot by its release, by the sweeper, or to a sync that
\* had counted before it reserved, for any number of overlapping sessions and
\* of handlers, whatever statement fails.
THEOREM BusySlotsKept == Spec => KeepsBusySlots
  <1> DEFINE Loses(j) == /\ Has(j) /\ ~Has(j)'
                         /\ ~(\/ ReleaseReserved(j) \/ InstanceEnds(j) \/ Reap(j)
                              \/ \E s \in past[j] : InsertSlots(s))
  <1>1. SyncInv /\ SyncInv' /\ [Next]_vars => \A j \in Creators : ~Loses(j)
    <2> SUFFICES ASSUME SyncInv, SyncInv', [Next]_vars, NEW j \in Creators, Loses(j) PROVE FALSE
      OBVIOUS
    <2>t. BaseInv'
      BY DEF SyncInv
    <2>1. slots' # slots \/ job' # job
      BY DEF Has, Owns, RowOf
    <2>2. ASSUME NEW k \in Creators, Handles(k) PROVE FALSE
      <3>1. k = j \/ OthersKeep(k)
        BY <2>t, <2>2, SyncReserve, SyncUnreserve, SyncBind, SyncFree, SyncLeaves DEF Handles
      <3>2. k = j
        BY <3>1 DEF OthersKeep
      <3> QED BY <2>t, <2>2, <3>2, SyncReserve, SyncBind, SyncLeaves DEF Handles
    <2>3. ASSUME NEW s \in Sessions, InsertSlots(s) PROVE FALSE
      BY <2>t, <2>3, SyncInsert
    <2>4. CASE \/ \E f \in Files \cup {NoFile} : AgentBoots(f)
               \/ AgentDies
               \/ \E s \in Sessions :
                     \/ runOnce(s) \/ UpsertOnline(s) \/ CompareHash(s) \/ CountBusy(s)
                     \/ DeleteSlotsForNode(s) \/ SyncFails(s) \/ StreamEnds(s)
      BY <2>1, <2>4 DEF AgentBoots, AgentDies, runOnce, UpsertOnline, CompareHash, CountBusy,
                        DeleteSlotsForNode, SyncFails, StreamEnds, dbVars, jobVars
    <2>5. ~UNCHANGED vars
      BY <2>1 DEF vars, dbVars, jobVars
    <2> QED BY <2>2, <2>3, <2>4, <2>5, Steps
  <1>2. SyncInv /\ SyncInv' /\ [Next]_vars =>
           [\A j \in Creators : Has(j) /\ ~Has(j)' =>
               \/ ReleaseReserved(j) \/ InstanceEnds(j) \/ Reap(j)
               \/ \E s \in past[j] : InsertSlots(s)]_vars
    BY <1>1
  <1> QED BY <1>2, SyncHolds, PTL DEF Spec, KeepsBusySlots

-----------------------------------------------------------------------------
(* Which layout the rows are *)

\* What the rows say.
Listed == {[index |-> r.index, gpus |-> r.gpus] : r \in slots}

\* No half of a layout and no mixture of two: the rows are those of a profile.
OneLayout == slots = {} \/ \E f \in Files : Resolved(f) /\ Listed = Layout(f)

\* The rows of a node were inserted together.
TogetherInv == \A r, q \in slots : r.id = q.id

OneInv == SyncInv /\ TogetherInv /\ OneLayout

\* A layout with a slot has one at index 0.
LEMMA FirstSlot ==
    ASSUME NEW f, Resolved(f), Layout(f) # {}
    PROVE  \E l \in Layout(f) : l.index = 0
  <1> DEFINE rows == ActiveSlots(f)
  <1>1. rows \in Seq(SlotYAML)
    BY RowsOfProfile
  <1>2. Layout(f) = {[index |-> i - 1, gpus |-> ToSet(rows[i].gpus)] : i \in DOMAIN rows}
    BY DEF Layout
  <1>3. DOMAIN rows = 1..Len(rows) /\ Len(rows) \in Nat
    BY <1>1
  <1> HIDE DEF rows
  <1>4. 1 \in DOMAIN rows
    BY <1>2, <1>3
  <1>5. [index |-> 1 - 1, gpus |-> ToSet(rows[1].gpus)] \in Layout(f)
    BY <1>2, <1>4, Zenon
  <1>6. [index |-> 1 - 1, gpus |-> ToSet(rows[1].gpus)].index = 0
    OBVIOUS
  <1> QED BY <1>5, <1>6

\* The commit of a sync with a slot finds no row of another one: that would be
\* of a whole layout, with a row at index 0, and the unique index refuses a
\* second.  One without a slot deletes all rows or none.
LEMMA InsertIsWhole ==
    ASSUME OneInv, NEW s \in Sessions, InsertSlots(s), ~UNCHANGED <<node, slots, replaced>>
    PROVE  /\ Resolved(sess[s].file)
           /\ node' = [node EXCEPT !.hash = sess[s].file]
           /\ IF Layout(sess[s].file) = {} THEN slots' \in {slots, {}}
              ELSE slots' = Fresh(s) /\ Listed' = Layout(sess[s].file) /\ TogetherInv'
  <1>t. BaseInv /\ TogetherInv /\ OneLayout
    BY DEF OneInv, SyncInv
  <1>1. /\ Resolved(sess[s].file)
        /\ slots' = Kept(s) \cup Fresh(s)
        /\ \A r \in Fresh(s), q \in Kept(s) : r.index # q.index
        /\ node' = [node EXCEPT !.hash = sess[s].file]
    BY <1>t, InsertOutcome
  <1>2. /\ \A r \in Fresh(s) : r.id = replaced + 1
        /\ {[index |-> r.index, gpus |-> r.gpus] : r \in Fresh(s)} = Layout(sess[s].file)
    BY <1>t, <1>1, FreshRows
  <1>3. CASE Layout(sess[s].file) = {}
    <2>1. Fresh(s) = {}
      BY <1>3 DEF Fresh
    <2>2. Kept(s) \in {slots, {}}
      BY <1>t DEF Kept, TogetherInv
    <2> QED BY <1>1, <1>3, <2>1, <2>2
  <1>4. CASE Layout(sess[s].file) # {}
    <2>1. PICK r \in Fresh(s) : r.index = 0
      <3>1. PICK l \in Layout(sess[s].file) : l.index = 0
        BY <1>1, <1>4, FirstSlot
      <3>2. PICK r \in Fresh(s) : l = [index |-> r.index, gpus |-> r.gpus]
        BY <1>2, <3>1
      <3> QED BY <3>1, <3>2
    <2>2. Kept(s) = {}
      <3> SUFFICES ASSUME NEW k \in Kept(s) PROVE FALSE
        OBVIOUS
      <3>1. k \in slots /\ k.id > sess[s].snap
        BY DEF Kept
      <3>2. PICK f \in Files : Resolved(f) /\ Listed = Layout(f)
        BY <1>t, <3>1 DEF OneLayout
      <3>3. [index |-> k.index, gpus |-> k.gpus] \in Listed
        BY <3>1, Zenon DEF Listed
      <3>4. PICK l \in Layout(f) : l.index = 0
        BY <3>2, <3>3, FirstSlot
      <3>5. PICK q \in slots : q.index = 0
        <4>1. \E q \in slots : l = [index |-> q.index, gpus |-> q.gpus]
          BY <3>2, <3>4, Zenon DEF Listed
        <4>2. PICK q \in slots : l = [index |-> q.index, gpus |-> q.gpus]
          BY <4>1
        <4> QED BY <3>4, <4>2
      <3>6. q \in Kept(s)
        BY <1>t, <3>1, <3>5 DEF TogetherInv, Kept
      <3> QED BY <1>1, <2>1, <3>5, <3>6
    <2>3. slots' = Fresh(s)
      BY <1>1, <2>2
    <2>4. Listed' = Layout(sess[s].file) /\ TogetherInv'
      BY <1>2, <2>3 DEF Listed, TogetherInv
    <2> QED BY <1>1, <1>4, <2>3, <2>4
  <1> QED BY <1>3, <1>4

\* Only a commit of SyncFromProfile writes hashes or other rows than there were.
LEMMA OnlySyncsReplace ==
    ASSUME SyncInv, [Next]_vars
    PROVE  \/ /\ node'.hash = node.hash /\ Listed' = Listed
              /\ (slots = {} => slots' = {}) /\ (TogetherInv => TogetherInv')
           \/ \E s \in Sessions : InsertSlots(s) /\ ~UNCHANGED <<node, slots, replaced>>
  <1>t. TypeOK /\ RowsInv
    BY DEF SyncInv, BaseInv
  <1> DEFINE Same == /\ node'.hash = node.hash /\ Listed' = Listed
                     /\ (slots = {} => slots' = {}) /\ (TogetherInv => TogetherInv')
  <1>1. ASSUME slots' = slots, node'.hash = node.hash PROVE Same
    BY <1>1 DEF Listed, TogetherInv
  <1>2. ASSUME NEW h, Rewritten(h), node' = node PROVE Same
    <2>1. Listed' = Listed
      BY <1>t, <1>2, RewriteKeeps DEF Listed
    <2>2. (slots = {} => slots' = {}) /\ (TogetherInv => TogetherInv')
      BY <1>2 DEF Rewritten, TogetherInv
    <2> QED BY <1>2, <2>1, <2>2
  <1> HIDE DEF Same
  <1>3. CASE Next
    <2>1. CASE \/ \E f \in Files \cup {NoFile} : AgentBoots(f)
               \/ AgentDies
               \/ \E s \in Sessions : runOnce(s)
      <3>1. UNCHANGED <<slots, node>>
        BY <2>1 DEF AgentBoots, AgentDies, runOnce, dbVars
      <3> QED BY <1>1, <3>1 DEF Same
    <2>2. ASSUME NEW s \in Sessions,
                 \/ UpsertOnline(s) \/ CompareHash(s) \/ CountBusy(s)
                 \/ DeleteSlotsForNode(s) \/ SyncFails(s) \/ StreamEnds(s)
          PROVE  Same
      <3>1. slots' = slots /\ node'.hash = node.hash
        BY <1>t, <2>2 DEF UpsertOnline, UpsertNode, CompareHash, CountBusy, DeleteSlotsForNode,
                          SyncFails, StreamEnds, dbVars, TypeOK
      <3> QED BY <1>1, <3>1
    <2>3. ASSUME NEW j \in Creators, Handles(j) PROVE Same
      <3>1. node' = node /\ \E h : Rewritten(h)
        BY <1>t, <2>3, HandlerStep
      <3> QED BY <1>2, <3>1
    <2>4. UNCHANGED <<node, slots, replaced>> => Same
      BY <1>1
    <2> QED BY <1>3, <2>1, <2>2, <2>3, <2>4, Steps DEF Same
  <1>4. CASE UNCHANGED vars
    BY <1>1, <1>4 DEF vars, dbVars, Same
  <1> QED BY <1>3, <1>4

\* Every step keeps the rows those of one layout.
LEMMA OneStep ==
    ASSUME OneInv, SyncInv', [Next]_vars
    PROVE  OneInv'
  <1>1. CASE /\ Listed' = Listed /\ (slots = {} => slots' = {})
             /\ (TogetherInv => TogetherInv')
    BY <1>1 DEF OneInv, OneLayout
  <1>2. ASSUME NEW s \in Sessions, InsertSlots(s), ~UNCHANGED <<node, slots, replaced>>
        PROVE  OneInv'
    <2>1. Resolved(sess[s].file) /\ sess[s].file \in Files
      BY <1>2, InsertIsWhole DEF Resolved
    <2>2. CASE Layout(sess[s].file) = {}
      <3>1. slots' \in {slots, {}}
        BY <1>2, <2>2, InsertIsWhole
      <3> QED BY <3>1 DEF OneInv, TogetherInv, OneLayout, Listed
    <2>3. CASE Layout(sess[s].file) # {}
      <3>1. Listed' = Layout(sess[s].file) /\ TogetherInv'
        BY <1>2, <2>3, InsertIsWhole
      <3> QED BY <2>1, <3>1 DEF OneInv, OneLayout
    <2> QED BY <2>2, <2>3
  <1> QED BY <1>1, <1>2, OnlySyncsReplace DEF OneInv

\* The invariant holds in every reachable state.
LEMMA OneHolds == Spec => []OneInv
  <1>1. Init => OneInv
    BY SyncInit DEF Init, OneInv, TogetherInv, OneLayout
  <1>2. OneInv /\ SyncInv' /\ [Next]_vars => OneInv'
    BY OneStep
  <1> QED BY <1>1, <1>2, SyncHolds, PTL DEF Spec

\* SyncFromProfile by any number of overlapping and interrupted sessions never
\* leaves a part of a layout or a mixture of two, empty profiles included.
THEOREM OneLayoutSound == Spec => []OneLayout
  <1>1. OneInv => OneLayout
    BY DEF OneInv
  <1> QED BY <1>1, OneHolds, PTL

\* The slots are those of the profile whose hash the node has, or, when that
\* one has none, of one other profile.
THEOREM LayoutSound == Spec => []LayoutMatchesHash
  <1>1. Init => LayoutMatchesHash
    BY DEF Init, LayoutMatchesHash
  <1>2. OneInv /\ OneInv' /\ LayoutMatchesHash /\ [Next]_vars => LayoutMatchesHash'
    <2> SUFFICES ASSUME OneInv, OneInv', LayoutMatchesHash, [Next]_vars PROVE LayoutMatchesHash'
      OBVIOUS
    <2>1. CASE node'.hash = node.hash /\ Listed' = Listed
      BY <2>1 DEF LayoutMatchesHash, Listed
    <2>2. ASSUME NEW s \in Sessions, InsertSlots(s), ~UNCHANGED <<node, slots, replaced>>
          PROVE  LayoutMatchesHash'
      <3>1. Resolved(sess[s].file) /\ sess[s].file \in Files
        BY <2>2, InsertIsWhole DEF Resolved
      <3>2. node'.hash = sess[s].file /\ sess[s].file # NoFile
        <4>1. node' = [node EXCEPT !.hash = sess[s].file]
          BY <2>2, InsertIsWhole
        <4> QED BY <3>1, <4>1, InventoryAssumption DEF OneInv, SyncInv, BaseInv, TypeOK
      <3>3. CASE Layout(sess[s].file) # {}
        <4>1. Listed' = Layout(sess[s].file)
          BY <2>2, <3>3, InsertIsWhole
        <4> QED BY <3>2, <4>1 DEF LayoutMatchesHash, Listed
      <3>4. CASE Layout(sess[s].file) = {}
        <4>1. CASE slots' = {}
          BY <3>2, <3>4, <4>1 DEF LayoutMatchesHash
        <4>2. CASE slots' # {}
          <5>1. PICK f \in Files : Resolved(f) /\ Listed' = Layout(f)
            BY <4>2 DEF OneInv, OneLayout
          <5>2. PICK host \in SUBSET Gpus : Resolve(f, host)
            BY <5>1 DEF Resolved
          <5> QED BY <3>2, <3>4, <5>1, <5>2 DEF LayoutMatchesHash, Listed
        <4> QED BY <4>1, <4>2
      <3> QED BY <3>3, <3>4
    <2> QED BY <2>1, <2>2, OnlySyncsReplace DEF OneInv
  <1> QED BY <1>1, <1>2, OneHolds, PTL DEF Spec

-----------------------------------------------------------------------------
(* Which devices instances get *)

\* On a bootstrapped host every list of GPUs is the whole one.
ListsInv ==
    bootstrapped =>
        /\ node.known => node.top = Gpus
        /\ \A s \in Sessions : sess[s].at # "new" => sess[s].top = Gpus
        /\ \A j \in Creators : job[j].at # "new" => job[j].top = Gpus

\* An instance was bound after its slot was resolved, and runs with what
\* resolvePassthroughPCI returned.
PassedInv ==
    \A j \in Creators :
        /\ job[j].at \in {"bound", "running"} => Resolvable(j)
        /\ job[j].at = "running" => job[j].devs = resolvePassthroughPCI(j)

DeviceInv == BaseInv /\ ListsInv /\ PassedInv

\* The initial state.
LEMMA DeviceInit == Init => DeviceInv
  BY BaseInit DEF Init, DeviceInv, ListsInv, PassedInv

\* With every GPU on vfio-pci nvidia-smi sees none, and sysfs lists them all.
LEMMA CollectsAll == bootstrapped => Collect = {Gpus}
  BY DEF Collect, ListNVIDIAGPUs, NvidiaSmi, OnVfio

\* Every list of GPUs comes from Collect.
LEMMA ListsStep ==
    ASSUME DeviceInv, BaseInv', Next
    PROVE  ListsInv'
  <1>t. TypeOK /\ ListsInv
    BY DEF DeviceInv, BaseInv
  <1>1. CASE (\E f \in Files \cup {NoFile} : AgentBoots(f)) \/ AgentDies
    BY <1>t, <1>1 DEF AgentBoots, AgentDies, dbVars, jobVars, ListsInv
  <1>2. ASSUME NEW s \in Sessions, runOnce(s) PROVE ListsInv'
    <2>1. PICK top \in Collect :
             sess' = [sess EXCEPT ![s] = [at |-> "upsert", file |-> agent, top |-> top, snap |-> 0]]
      BY <1>2 DEF runOnce
    <2>2. sess'[s].top = top /\ \A t \in Sessions : t # s => sess'[t] = sess[t]
      BY <1>t, <2>1 DEF TypeOK
    <2>3. bootstrapped => top = Gpus
      BY <2>1, CollectsAll
    <2>4. UNCHANGED <<bootstrapped, node, job>>
      BY <1>2 DEF runOnce, hostVars, dbVars, jobVars
    <2> QED BY <1>t, <2>2, <2>3, <2>4 DEF ListsInv
  <1>3. ASSUME NEW s \in Sessions,
               \/ UpsertOnline(s) \/ CompareHash(s) \/ CountBusy(s)
               \/ DeleteSlotsForNode(s) \/ InsertSlots(s) \/ SyncFails(s) \/ StreamEnds(s)
        PROVE  ListsInv'
    <2>1. UNCHANGED <<bootstrapped, job>>
      BY <1>3 DEF UpsertOnline, CompareHash, CountBusy, DeleteSlotsForNode, InsertSlots, SyncFails, StreamEnds,
                  hostVars, jobVars
    <2>2. sess[s].at # "new" /\ sess'[s].top = sess[s].top /\ \A t \in Sessions : t # s => sess'[t] = sess[t]
      <3>1. CASE DeleteSlotsForNode(s)
        BY <1>t, <3>1 DEF DeleteSlotsForNode, TypeOK, Session
      <3>2. ASSUME NEW place, Goto(s, place), sess[s].at # "new"
            PROVE  sess'[s].top = sess[s].top /\ \A t \in Sessions : t # s => sess'[t] = sess[t]
        BY <1>t, <3>2, SessMoves
      <3> QED BY <1>3, <3>1, <3>2 DEF UpsertOnline, CompareHash, CountBusy, InsertSlots, SyncFails, StreamEnds
    <2>3. \/ node'.known = node.known /\ node'.top = node.top
          \/ node'.top = sess[s].top
      <3>1. CASE UpsertOnline(s)
        BY <1>t, <3>1 DEF UpsertOnline, UpsertNode, TypeOK
      <3>2. CASE InsertSlots(s)
        BY <1>t, <3>2 DEF InsertSlots, TypeOK, dbVars
      <3> QED BY <1>3, <3>1, <3>2 DEF CompareHash, CountBusy, DeleteSlotsForNode, SyncFails, StreamEnds, dbVars
    <2> QED BY <1>t, <2>1, <2>2, <2>3 DEF ListsInv
  <1>4. ASSUME NEW j \in Creators, Handles(j) PROVE ListsInv'
    <2>1. UNCHANGED <<bootstrapped, node, sess>> /\ \A k \in Creators : k # j => job'[k] = job[k]
      BY <1>t, <1>4, HandlerStep
    <2>2. CASE validateCreate(j)
      <3>1. job'[j].top = node.top /\ node.known
        BY <1>t, <2>2 DEF validateCreate, TypeOK, Job
      <3> QED BY <1>t, <2>1, <3>1 DEF ListsInv
    <2>3. CASE ~validateCreate(j)
      <3>1. job'[j].top = job[j].top /\ job[j].at # "new"
        <4>1. ASSUME NEW size \in GpuCounts, Reserve(j, size)
              PROVE  job'[j].top = job[j].top /\ job[j].at # "new"
          BY <1>t, <4>1 DEF Reserve, TypeOK, Job
        <4>2. CASE ReleaseReserved(j) \/ BindToInstance(j)
          <5>1. /\ job[j].at = "reserved"
                /\ job' = [job EXCEPT ![j].at = "done"] \/ job' = [job EXCEPT ![j].at = "bound"]
            BY <4>2 DEF ReleaseReserved, BindToInstance
          <5> QED BY <1>t, <5>1 DEF TypeOK, Job
        <4>3. CASE dispatchCreate(j)
          BY <1>t, <4>3 DEF dispatchCreate, TypeOK, Job
        <4>4. CASE InstanceEnds(j) \/ Reap(j)
          BY <1>t, <4>4 DEF InstanceEnds, Reap, jobVars, TypeOK, Job
        <4> QED BY <1>4, <2>3, <4>1, <4>2, <4>3, <4>4 DEF Handles
      <3> QED BY <1>t, <2>1, <3>1 DEF ListsInv
    <2> QED BY <2>2, <2>3
  <1> QED BY <1>1, <1>2, <1>3, <1>4, Steps

\* A handler binds what it can resolve and dispatches what it resolved.
LEMMA PassedStep ==
    ASSUME DeviceInv, BaseInv', Next
    PROVE  PassedInv'
  <1>t. TypeOK /\ PassedInv
    BY DEF DeviceInv, BaseInv
  <1>1. ASSUME NEW k \in Creators, job'[k] = job[k]
        PROVE  /\ job'[k].at \in {"bound", "running"} => Resolvable(k)'
               /\ job'[k].at = "running" => job'[k].devs = resolvePassthroughPCI(k)'
    BY <1>t, <1>1 DEF PassedInv, Resolvable, resolvePassthroughPCI
  <1>2. CASE job' = job
    BY <1>1, <1>2 DEF PassedInv
  <1>3. ASSUME NEW j \in Creators, Handles(j) PROVE PassedInv'
    <2>1. \A k \in Creators : k # j => job'[k] = job[k]
      BY <1>t, <1>3, HandlerStep
    <2> SUFFICES /\ job'[j].at \in {"bound", "running"} => Resolvable(j)'
                 /\ job'[j].at = "running" => job'[j].devs = resolvePassthroughPCI(j)'
      BY <1>1, <2>1 DEF PassedInv
    <2>2. CASE job'[j].at \notin {"bound", "running"}
      BY <2>2
    <2>3. CASE BindToInstance(j)
      <3>1. job'[j].at = "bound" /\ job'[j].top = job[j].top /\ job'[j].gpus = job[j].gpus
        BY <1>t, <2>3 DEF BindToInstance, TypeOK, Job
      <3> QED BY <2>3, <3>1 DEF BindToInstance, Resolvable
    <2>4. CASE dispatchCreate(j)
      <3>1. /\ job'[j].top = job[j].top /\ job'[j].gpus = job[j].gpus
            /\ job'[j].devs = resolvePassthroughPCI(j) /\ job[j].at = "bound"
        BY <1>t, <2>4 DEF dispatchCreate, TypeOK, Job
      <3> QED BY <1>t, <3>1 DEF PassedInv, Resolvable, resolvePassthroughPCI
    <2>5. CASE Reap(j)
      BY <1>1, <2>5 DEF Reap, jobVars
    <2>6. ASSUME NEW size \in GpuCounts, Reserve(j, size)
          PROVE  job'[j].at \notin {"bound", "running"}
      BY <1>t, <2>6 DEF Reserve, TypeOK, Job
    <2>7. validateCreate(j) \/ ReleaseReserved(j) \/ InstanceEnds(j) =>
             job'[j].at \notin {"bound", "running"}
      BY <1>t DEF validateCreate, ReleaseReserved, InstanceEnds, TypeOK, Job
    <2> QED BY <1>3, <2>2, <2>3, <2>4, <2>5, <2>6, <2>7 DEF Handles
  <1>4. (\E j \in Creators : Handles(j)) \/ job' = job
    <2>1. \/ \E f \in Files \cup {NoFile} : AgentBoots(f)
          \/ AgentDies
          \/ \E s \in Sessions :
                \/ runOnce(s) \/ UpsertOnline(s) \/ CompareHash(s) \/ CountBusy(s)
                \/ DeleteSlotsForNode(s) \/ InsertSlots(s) \/ SyncFails(s) \/ StreamEnds(s)
          \/ \E j \in Creators : Handles(j)
      BY Steps
    <2> QED BY <2>1 DEF AgentBoots, AgentDies, runOnce, UpsertOnline, CompareHash, CountBusy,
                        DeleteSlotsForNode, InsertSlots, SyncFails, StreamEnds, jobVars
  <1> QED BY <1>2, <1>3, <1>4

\* Every step keeps them.
LEMMA DevicesHold == Spec => []DeviceInv
  <1>1. DeviceInv /\ BaseInv' /\ [Next]_vars => DeviceInv'
    <2> SUFFICES ASSUME DeviceInv, BaseInv', [Next]_vars PROVE DeviceInv'
      OBVIOUS
    <2>1. CASE Next
      BY <2>1, ListsStep, PassedStep DEF DeviceInv
    <2>2. CASE UNCHANGED vars
      BY <2>2 DEF vars, hostVars, dbVars, jobVars, DeviceInv, ListsInv, PassedInv, Resolvable,
                  resolvePassthroughPCI
    <2> QED BY <2>1, <2>2
  <1> QED BY <1>1, DeviceInit, InventoryTypes, PTL DEF Spec

\* A later GPU has a larger index.
LEMMA IndexGrows ==
    ASSUME NEW d \in Gpus, NEW e \in Gpus, d < e
    PROVE  Index(d, Gpus) < Index(e, Gpus)
  <1> DEFINE below == {x \in Gpus : x < d}
             upto  == {x \in Gpus : x < e}
  <1>1. IsFiniteSet(Gpus) /\ Gpus \subseteq Nat
    BY InventoryAssumption, FS_Subset
  <1>2. IsFiniteSet(below) /\ IsFiniteSet(upto)
    BY <1>1, FS_Subset
  <1>3. below \cup {d} \subseteq upto /\ d \notin below
    <2>1. d \in Nat /\ e \in Nat /\ \A x \in Gpus : x \in Nat
      BY <1>1
    <2>2. \A x \in Gpus : x < d => x < e
      BY <2>1
    <2>3. ~(d < d)
      BY <2>1
    <2> QED BY <2>2, <2>3, Zenon
  <1>4. Cardinality(below \cup {d}) = Cardinality(below) + 1
    BY <1>2, <1>3, FS_AddElement
  <1>5. Cardinality(below \cup {d}) <= Cardinality(upto)
    BY <1>2, <1>3, FS_Subset
  <1>6. Cardinality(below) \in Nat /\ Cardinality(upto) \in Nat
    BY <1>2, FS_CardinalityType
  <1>7. Index(d, Gpus) = Cardinality(below) /\ Index(e, Gpus) = Cardinality(upto)
    BY DEF Index
  <1> HIDE DEF below, upto
  <1> QED BY <1>4, <1>5, <1>6, <1>7

\* So an index names one GPU.
LEMMA IndexInjective ==
    ASSUME NEW d \in Gpus, NEW e \in Gpus, Index(d, Gpus) = Index(e, Gpus)
    PROVE  d = e
  <1>1. d \in Nat /\ e \in Nat /\ IsFiniteSet(Gpus)
    BY InventoryAssumption, FS_Subset
  <1>2. Index(d, Gpus) \in Nat /\ Index(e, Gpus) \in Nat
    <2>1. IsFiniteSet({x \in Gpus : x < d}) /\ IsFiniteSet({x \in Gpus : x < e})
      BY <1>1, FS_Subset
    <2> QED BY <2>1, FS_CardinalityType DEF Index
  <1>3. CASE d < e
    BY <1>2, <1>3, IndexGrows
  <1>4. CASE e < d
    BY <1>2, <1>4, IndexGrows
  <1> QED BY <1>1, <1>3, <1>4

\* The GPUs at the indices of a slot.
Chosen(gpus) == {d \in Gpus : Index(d, Gpus) \in gpus}

\* They are as many as the indices.
LEMMA ChosenCount ==
    ASSUME NEW gpus, gpus \subseteq Indices(Gpus)
    PROVE  Cardinality(Chosen(gpus)) = Cardinality(gpus)
  <1> DEFINE at == [d \in Chosen(gpus) |-> Index(d, Gpus)]
  <1>1. IsFiniteSet(Chosen(gpus))
    BY InventoryAssumption, FS_Subset DEF Chosen
  <1>2. \A d \in Chosen(gpus) : at[d] \in gpus /\ at[d] = Index(d, Gpus) /\ d \in Gpus
    BY DEF Chosen
  <1>3. \A g \in gpus : \E d \in Chosen(gpus) : at[d] = g
    BY DEF Chosen, Indices
  <1> HIDE DEF at
  <1>4. \A d, e \in Chosen(gpus) : at[d] = at[e] => d = e
    BY <1>2, IndexInjective
  <1>5. at \in [Chosen(gpus) -> gpus]
    BY <1>2 DEF at
  <1>6. at \in Bijection(Chosen(gpus), gpus)
    <2>1. at \in Injection(Chosen(gpus), gpus)
      BY <1>4, <1>5 DEF Injection, IsInjective
    <2>2. at \in Surjection(Chosen(gpus), gpus)
      BY <1>3, <1>5 DEF Surjection
    <2> QED BY <2>1, <2>2 DEF Bijection
  <1>7. ExistsBijection(Chosen(gpus), gpus)
    BY <1>6 DEF ExistsBijection
  <1> QED BY <1>1, <1>7, FS_Bijection

\* With GPUs in groups of their own, the devices for a slot are the groups of
\* its GPUs.
LEMMA PassedDevices ==
    ASSUME DeviceInv, bootstrapped, NEW j \in Creators, job[j].at = "running"
    PROVE  /\ job[j].gpus \subseteq Indices(Gpus)
           /\ \A m : m \in job[j].devs <=>
                        m \in Devices /\ \E d \in Chosen(job[j].gpus) : Group[m] = Group[d]
  <1>1. job[j].top = Gpus /\ Resolvable(j) /\ job[j].devs = resolvePassthroughPCI(j)
    BY DEF DeviceInv, ListsInv, PassedInv
  <1>2. Gpus \subseteq Devices
    BY InventoryAssumption
  <1>3. job[j].devs = UNION {{d} \cup Companions(d) : d \in Chosen(job[j].gpus)}
    BY <1>1 DEF resolvePassthroughPCI, Chosen
  <1>4. \A d \in Chosen(job[j].gpus) : {d} \cup Companions(d) = {m \in Devices : Group[m] = Group[d]}
    BY <1>2 DEF Chosen, Companions, GroupMembers
  <1>5. \A m : m \in job[j].devs <=> \E d \in Chosen(job[j].gpus) : m \in Devices /\ Group[m] = Group[d]
    BY <1>3, <1>4
  <1> QED BY <1>1, <1>5 DEF Resolvable

\* On a bootstrapped host with GPUs in groups of their own, instances that own a
\* slot have disjoint sets of whole IOMMU groups with as many GPUs as the slot,
\* across any changes of profile.
THEOREM DevicesSound == Spec => []DevicesExclusive
  <1>1. OneInv /\ DeviceInv => DevicesExclusive
    <2> SUFFICES ASSUME OneInv, DeviceInv, bootstrapped, Isolated,
                        NEW j \in Creators, NEW k \in Creators,
                        job[j].at = "running", Owns(j), job[k].at = "running", Owns(k)
                 PROVE  /\ \A d \in job[j].devs : GroupMembers(d) \subseteq job[j].devs
                        /\ Cardinality(job[j].devs \cap Gpus) = Cardinality(job[j].gpus)
                        /\ j # k => job[j].devs \cap job[k].devs = {}
      BY DEF DevicesExclusive
    <2>t. RowsInv /\ OwnedInv /\ OneLayout
      BY DEF OneInv, SyncInv
    <2> DEFINE J == Chosen(job[j].gpus)
               K == Chosen(job[k].gpus)
    <2>1. /\ job[j].gpus \subseteq Indices(Gpus)
          /\ \A m : m \in job[j].devs <=> m \in Devices /\ \E d \in J : Group[m] = Group[d]
      BY PassedDevices
    <2>2. \A m : m \in job[k].devs <=> m \in Devices /\ \E d \in K : Group[m] = Group[d]
      BY PassedDevices
    <2>3. J \subseteq Gpus /\ K \subseteq Gpus /\ Gpus \subseteq Devices
      BY InventoryAssumption DEF Chosen
    <2>4. Cardinality(J) = Cardinality(job[j].gpus)
      BY <2>1, ChosenCount
    <2>5. job[j].gpus \cap job[k].gpus = {} => J \cap K = {}
      BY DEF Chosen
    <2> HIDE DEF J, K
    <2>6. \A d \in job[j].devs : GroupMembers(d) \subseteq job[j].devs
      BY <2>1 DEF GroupMembers
    <2>7. job[j].devs \cap Gpus = J
      BY <2>1, <2>3 DEF Isolated
    <2>8. ASSUME j # k PROVE job[j].gpus \cap job[k].gpus = {}
      <3>1. PICK r \in slots, q \in slots : r.owner = j /\ q.owner = k
        BY DEF Owns
      <3>2. r.gpus = job[j].gpus /\ q.gpus = job[k].gpus
        BY <2>t, <3>1 DEF OwnedInv
      <3>3. r.index # q.index
        BY <2>t, <2>8, <3>1 DEF RowsInv
      <3> DEFINE lr == [index |-> r.index, gpus |-> r.gpus]
                 lq == [index |-> q.index, gpus |-> q.gpus]
      <3>4. lr \in Listed /\ lq \in Listed
        BY <3>1, Zenon DEF Listed
      <3>5. PICK f \in Files : Resolved(f) /\ Listed = Layout(f)
        BY <2>t, <3>1 DEF OneLayout
      <3>6. lr # lq /\ lr.gpus = r.gpus /\ lq.gpus = q.gpus
        BY <3>3
      <3> HIDE DEF lr, lq
      <3>7. lr.gpus \cap lq.gpus = {}
        BY <3>4, <3>5, <3>6, LayoutOfProfile
      <3> QED BY <3>2, <3>6, <3>7
    <2>9. ASSUME j # k PROVE job[j].devs \cap job[k].devs = {}
      <3>1. J \cap K = {}
        BY <2>5, <2>8, <2>9
      <3> QED BY <2>1, <2>2, <2>3, <3>1 DEF Isolated
    <2> QED BY <2>4, <2>6, <2>7, <2>9
  <1> QED BY <1>1, OneHolds, DevicesHold, PTL
====
