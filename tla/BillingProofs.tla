---------------------------- MODULE BillingProofs ----------------------------
(* Proofs about Billing, for any users, instances, workers and requests, any *)
(* rates and any number of faults.                                           *)
EXTENDS Billing, FiniteSetTheorems, WellFoundedInduction, TLAPS

Locals == [at: Places, minute: 0..MaxMinute, rows: SUBSET Instances, users: SUBSET Users]

WorkerType == worker \in [Workers -> Locals]

\* The part of the state that posts depend on, with its types.
LedgerType ==
    /\ now \in 0..MaxMinute
    /\ ledger \in Seq(Entry)
    /\ credits \in [Users -> Int \cup {NoCredits}]
    /\ WorkerType

LedgerInv == LedgerType /\ PostedOnce

-----------------------------------------------------------------------------
(* The ledger transaction *)

\* A transaction begins within the minutes of the run.
LEMMA StampType ==
    ASSUME LedgerType, NEW k \in Keys, NEW began \in k.minute..now
    PROVE  began \in 0..MaxMinute
  <1>1. k.minute \in 0..MaxMinute
    BY BillingAssumption DEF Keys
  <1> QED BY <1>1, BillingAssumption DEF LedgerType

\* One Post, whoever calls it: a key that is there is not posted again.
LEMMA PostKeeps ==
    ASSUME LedgerInv, NEW k \in Keys, NEW u \in Users, NEW delta \in Int, Post(k, u, delta)
    PROVE  /\ ledger' \in Seq(Entry) /\ credits' \in [Users -> Int \cup {NoCredits}]
           /\ PostedOnce'
  <1>1. CASE Posted(k) /\ UNCHANGED <<ledger, credits>>
    BY <1>1 DEF LedgerInv, LedgerType, PostedOnce
  <1>2. CASE ~Posted(k) /\ InsertCreditLedgerEntry(k, u, delta) /\ UpsertCredits(u, delta)
    <2>0. PICK began \in k.minute..now :
             ledger' = Append(ledger, [key |-> k, user |-> u, delta |-> delta, created |-> began])
      BY <1>2 DEF InsertCreditLedgerEntry
    <2> DEFINE e == [key |-> k, user |-> u, delta |-> delta, created |-> began]
    <2>1. e \in Entry /\ e.key = k
      BY StampType DEF LedgerInv, Entry
    <2>2. ledger' = Append(ledger, e)
      BY <2>0
    <2> HIDE DEF e
    <2>3. ledger' \in Seq(Entry)
      BY <2>1, <2>2 DEF LedgerInv, LedgerType
    <2>4. Balance(u) \in Int
      BY DEF LedgerInv, LedgerType, Balance
    <2>5. credits' \in [Users -> Int \cup {NoCredits}]
      BY <1>2, <2>4 DEF UpsertCredits, LedgerInv, LedgerType
    <2>6. PostedOnce'
      <3>1. /\ Len(ledger') = Len(ledger) + 1 /\ Len(ledger) \in Nat
            /\ DOMAIN ledger = 1..Len(ledger) /\ DOMAIN ledger' = 1..Len(ledger')
            /\ \A n \in 1..Len(ledger) : ledger'[n] = ledger[n]
            /\ ledger'[Len(ledger) + 1] = e
        BY <2>1, <2>2 DEF LedgerInv, LedgerType
      <3>2. \A n \in 1..Len(ledger) : ledger[n].key # k
        BY <1>2, <3>1 DEF Posted
      <3>3. \A m, n \in 1..Len(ledger) : ledger[m].key = ledger[n].key => m = n
        BY <3>1 DEF LedgerInv, PostedOnce
      <3> SUFFICES ASSUME NEW m \in 1..(Len(ledger) + 1), NEW n \in 1..(Len(ledger) + 1),
                          ledger'[m].key = ledger'[n].key
                   PROVE  m = n
        BY <3>1 DEF PostedOnce
      <3>4. CASE m \in 1..Len(ledger) /\ n \in 1..Len(ledger)
        BY <3>1, <3>3, <3>4
      <3>5. CASE m = Len(ledger) + 1 /\ n \in 1..Len(ledger)
        BY <2>1, <3>1, <3>2, <3>5
      <3>6. CASE n = Len(ledger) + 1 /\ m \in 1..Len(ledger)
        BY <2>1, <3>1, <3>2, <3>6
      <3> QED BY <3>1, <3>4, <3>5, <3>6
    <2> QED BY <2>3, <2>5, <2>6
  <1> QED BY <1>1, <1>2 DEF Post

-----------------------------------------------------------------------------
(* The callers *)

\* The places a worker goes to.
LEMMA WorkerTypes ==
    ASSUME LedgerType, NEW w \in Workers
    PROVE  /\ \A p \in Places, rs \in SUBSET Instances, us \in SUBSET Users :
                 Goto(w, p, rs, us) => WorkerType'
           /\ TakeBucket(w) \/ ChargeDone(w) \/ WorkerDies(w) => WorkerType'
  <1> USE DEF LedgerType, WorkerType
  <1>1. Idle \in Locals /\ [Idle EXCEPT !.at = "sweep"] \in Locals
    <2>1. MaxMinute \in Nat
      BY BillingAssumption
    <2>2. Idle \in Locals
      BY <2>1 DEF Idle, Places, Locals
    <2>3. [Idle EXCEPT !.at = "sweep"] \in Locals
      BY <2>2 DEF Places, Locals
    <2> QED BY <2>2, <2>3
  <1>2. ASSUME NEW p \in Places, NEW rs \in SUBSET Instances, NEW us \in SUBSET Users,
               Goto(w, p, rs, us)
        PROVE  WorkerType'
    <2>1. [worker[w] EXCEPT !.at = p, !.rows = rs, !.users = us] \in Locals
      BY DEF Locals
    <2>2. worker' = [worker EXCEPT ![w] = [worker[w] EXCEPT !.at = p, !.rows = rs, !.users = us]]
      BY <1>2 DEF Goto, Locals
    <2> QED BY <2>1, <2>2
  <1>3. ASSUME TakeBucket(w) PROVE WorkerType'
    <2>1. [worker[w] EXCEPT !.at = "charge", !.minute = now] \in Locals
      BY DEF Locals, Places
    <2>2. worker' = [worker EXCEPT ![w] = [worker[w] EXCEPT !.at = "charge", !.minute = now]]
      BY <1>3 DEF TakeBucket, Locals
    <2> QED BY <2>1, <2>2
  <1>4. ASSUME ChargeDone(w) \/ WorkerDies(w) PROVE WorkerType'
    BY <1>1, <1>4 DEF ChargeDone, WorkerDies
  <1> QED BY <1>2, <1>3, <1>4

LEMMA ChargeKeeps ==
    ASSUME LedgerInv, NEW w \in Workers, NEW i \in Instances, Charge(w, i)
    PROVE  LedgerInv'
  <1> DEFINE rate == MilliPerMinute(Gpus[i])
             k == BillingKey(i, worker[w].minute)
  <1>1. k \in Keys /\ Owner[i] \in Users /\ -rate \in Int
    BY BillingAssumption DEF BillingKey, Keys, MilliPerMinute, LedgerInv, LedgerType, WorkerType, Locals
  <1>2. WorkerType' /\ now' = now
    <2>1. worker[w].rows \ {i} \in SUBSET Instances /\ {} \in SUBSET Users /\ "charge" \in Places
      BY DEF LedgerInv, LedgerType, WorkerType, Locals, Places
    <2>2. Goto(w, "charge", worker[w].rows \ {i}, {}) /\ now' = now
      BY DEF Charge
    <2> QED BY <2>1, <2>2, WorkerTypes DEF LedgerInv
  <1>3. CASE UNCHANGED <<ledger, credits>>
    BY <1>2, <1>3 DEF LedgerInv, LedgerType, WorkerType, PostedOnce
  <1>4. CASE Post(k, Owner[i], -rate)
    <2> HIDE DEF k, rate
    <2> QED BY <1>1, <1>2, <1>4, PostKeeps DEF LedgerInv, LedgerType, WorkerType
  <1> QED BY <1>3, <1>4 DEF Charge

LEMMA RechargeKeeps ==
    ASSUME LedgerInv, NEW r \in Requests, Recharge(r)
    PROVE  LedgerInv'
  <1>1. RechargeKey(r) \in Keys /\ Payee[r] \in Users /\ Amount[r] \in Int
    BY BillingAssumption DEF RechargeKey, Keys
  <1>2. UNCHANGED <<now, worker>>
    BY DEF Recharge
  <1>3. CASE UNCHANGED <<ledger, credits>>
    BY <1>2, <1>3 DEF LedgerInv, LedgerType, WorkerType, PostedOnce
  <1>4. CASE Post(RechargeKey(r), Payee[r], Amount[r])
    BY <1>1, <1>2, <1>4, PostKeeps DEF LedgerInv, LedgerType, WorkerType
  <1> QED BY <1>3, <1>4 DEF Recharge

\* No other step of a worker touches the ledger.
LEMMA WorkerKeeps ==
    ASSUME LedgerInv, NEW w \in Workers, WorkerStep(w) \/ WorkerDies(w)
    PROVE  LedgerInv'
  <1>1. CASE \E i \in Instances : Charge(w, i)
    BY <1>1, ChargeKeeps
  <1>2. CASE ~\E i \in Instances : Charge(w, i)
    <2>1. UNCHANGED <<now, ledger, credits>>
      BY <1>2 DEF WorkerStep, ListRunning, TakeBucket, ChargeDone, SweepUsers, SweepNext,
         SendDestroy, SweepInstances, WorkerDies
    <2>2. worker[w].rows \subseteq Instances /\ worker[w].users \subseteq Users
      BY DEF LedgerInv, LedgerType, WorkerType, Locals
    <2>3. WorkerType'
      <3> USE DEF LedgerInv
      <3>1. CASE ListRunning(w)
        <4>1. ListBillableRunningInstances \in SUBSET Instances /\ {} \in SUBSET Users /\ "bucket" \in Places
          BY DEF ListBillableRunningInstances, Places
        <4>2. Goto(w, "bucket", ListBillableRunningInstances, {}) \/ UNCHANGED worker
          BY <3>1 DEF ListRunning
        <4>3. CASE UNCHANGED worker
          BY <4>3 DEF LedgerType, WorkerType
        <4> QED BY <4>1, <4>2, <4>3, WorkerTypes
      <3>2. CASE TakeBucket(w) \/ ChargeDone(w) \/ WorkerDies(w)
        BY <3>2, WorkerTypes
      <3>3. CASE SweepUsers(w)
        <4>1. /\ ListUsersWithNegativeBalance \in SUBSET Users /\ {} \in SUBSET Users
              /\ {} \in SUBSET Instances /\ "users" \in Places /\ "idle" \in Places
          BY DEF ListUsersWithNegativeBalance, Places
        <4>2. Goto(w, "users", {}, ListUsersWithNegativeBalance) \/ Goto(w, "idle", {}, {})
          BY <3>3 DEF SweepUsers
        <4> QED BY <4>1, <4>2, WorkerTypes
      <3>4. CASE SweepNext(w)
        BY <2>2, <3>4, WorkerTypes DEF SweepNext, Places
      <3>5. ASSUME NEW i \in Instances, SendDestroy(w, i) PROVE WorkerType'
        BY <2>2, <3>5, WorkerTypes DEF SendDestroy, Places
      <3>6. ASSUME NEW u \in Users, SweepInstances(w, u) PROVE WorkerType'
        <4>1. /\ InstancesToStop(u) \in SUBSET Instances /\ {} \in SUBSET Instances
              /\ worker[w].users \ {u} \in SUBSET Users
              /\ "users" \in Places /\ "destroy" \in Places
          BY <2>2 DEF InstancesToStop, Places
        <4>2. \/ Goto(w, "destroy", InstancesToStop(u), worker[w].users \ {u})
              \/ Goto(w, "users", {}, worker[w].users \ {u})
          BY <3>6 DEF SweepInstances
        <4> QED BY <4>1, <4>2, WorkerTypes
      <3> QED BY <1>2, <3>1, <3>2, <3>3, <3>4, <3>5, <3>6 DEF WorkerStep
    <2> QED BY <2>1, <2>3 DEF LedgerInv, LedgerType, PostedOnce
  <1> QED BY <1>1, <1>2

LEMMA LedgerStep ==
    ASSUME LedgerInv, [Next]_vars
    PROVE  LedgerInv'
  <1>1. CASE \E w \in Workers : WorkerStep(w) \/ WorkerDies(w)
    BY <1>1, WorkerKeeps
  <1>2. CASE \E r \in Requests : Recharge(r)
    BY <1>2, RechargeKeeps
  <1>3. CASE Tick
    BY <1>3, BillingAssumption DEF Tick, LedgerInv, LedgerType, WorkerType, PostedOnce
  <1>4. CASE UNCHANGED <<now, ledger, credits, worker>>
    BY <1>4 DEF LedgerInv, LedgerType, WorkerType, PostedOnce
  <1>5. CASE \/ \E r \in Requests : RechargeAnswer(r)
             \/ \E u \in Users : ViewBalance(u)
             \/ \E i \in Instances : \/ BalanceForOwner(i) \/ CreateInstance(i)
                                     \/ AgentStops(i) \/ CommandLost(i)
                                     \/ \E to \in States : Transition(i, to)
             \/ UNCHANGED vars
    <2>1. UNCHANGED <<now, ledger, credits, worker>>
      BY <1>5 DEF RechargeAnswer, ViewBalance, BalanceForOwner, CreateInstance, AgentStops,
         CommandLost, Transition, Move, vars
    <2> QED BY <1>4, <2>1
  <1> QED BY <1>1, <1>2, <1>3, <1>5 DEF Next

LEMMA LedgerInit == Init => LedgerInv
  <1> SUFFICES ASSUME Init PROVE LedgerInv
    OBVIOUS
  <1>1. WorkerType
    BY BillingAssumption DEF Init, Idle, Places, WorkerType, Locals
  <1> QED BY <1>1, BillingAssumption DEF Init, LedgerInv, LedgerType, PostedOnce

\* No key has two ledger entries, however many workers overlap, processes die
\* and clients repeat a request whose answer was lost.
THEOREM LedgerSound == Spec => []PostedOnce
  <1>1. LedgerInv => PostedOnce
    BY DEF LedgerInv
  <1> QED BY <1>1, LedgerInit, LedgerStep, PTL DEF Spec

-----------------------------------------------------------------------------
(* What is charged *)

\* The states an instance can be in once it ran; none leads back to running.
Used == {"running", "stopping", "stopped", "failed"}

RanType ==
    /\ row \in [Instances -> States \cup {"none"}]
    /\ ran \in [Instances -> SUBSET (0..MaxMinute)]

\* What ran records: past minutes, the present one of a running instance, and
\* nothing of an instance that has not run yet.
RanOK(i) ==
    /\ \A m \in ran[i] : m <= now
    /\ row[i] = "running" => now \in ran[i]
    /\ ran[i] # {} => row[i] \in Used

\* A charge of i for minute m is in order.
Due(i, m) ==
    /\ row[i] = "running" => m \in ran[i]
    /\ \E k \in ran[i] : k <= m

\* What a pass is about to charge is in order already.
ListedOK(w, i) ==
    /\ At(w, "bucket") /\ i \in worker[w].rows => ran[i] # {}
    /\ At(w, "charge") /\ i \in worker[w].rows => Due(i, worker[w].minute)

UseInv ==
    /\ LedgerInv /\ RanType
    /\ \A i \in Instances : RanOK(i)
    /\ \A w \in Workers, i \in Instances : ListedOK(w, i)
    /\ ChargesFollowUse

\* The transition table: only provisioning leads to running.
LEMMA OnlyForward ==
    ASSUME NEW from \in States, NEW to \in States, CanTransition(from, to), from # to
    PROVE  /\ to = "running" => from = "provisioning"
           /\ from \in Used => to \in Used
  <1> USE DEF CanTransition, allowedTransitions, States, Used
  <1>1. CASE from = "pending"
    BY <1>1
  <1>2. CASE from = "provisioning"
    BY <1>2
  <1>3. CASE from = "running"
    BY <1>3
  <1>4. CASE from = "stopping"
    BY <1>4
  <1>5. CASE from \in {"stopped", "failed"}
    BY <1>5
  <1> QED BY <1>1, <1>2, <1>3, <1>4, <1>5

\* A row moves, or time passes: what was due stays due.
LEMMA DueKept ==
    ASSUME RanType, NEW i \in Instances, RanOK(i), NEW m \in Int, Due(i, m),
           \/ row'[i] = row[i] /\ ran'[i] = ran[i]
           \/ row'[i] # "running" /\ ran'[i] = ran[i]
           \/ row'[i] = row[i] /\ ran[i] \subseteq ran'[i]
    PROVE  Due(i, m)'
  BY DEF Due, RanType

\* Steps that touch neither rows nor time.
LEMMA UseSteady ==
    ASSUME UseInv, LedgerInv', UNCHANGED <<now, row, ran>>,
           \A w \in Workers, i \in Instances : ListedOK(w, i)',
           ChargesFollowUse'
    PROVE  UseInv'
  BY DEF UseInv, RanType, RanOK

LEMMA UseCharge ==
    ASSUME UseInv, LedgerInv', NEW w \in Workers, NEW i \in Instances, Charge(w, i)
    PROVE  UseInv'
  <1> DEFINE rate == MilliPerMinute(Gpus[i])
             k == BillingKey(i, worker[w].minute)
  <1>1. /\ UNCHANGED <<now, row, ran>> /\ At(w, "charge") /\ i \in worker[w].rows
        /\ \/ UNCHANGED ledger
           \/ \E began \in k.minute..now :
                 ledger' = Append(ledger, [key |-> k, user |-> Owner[i], delta |-> -rate,
                                           created |-> began])
        /\ worker' = [worker EXCEPT ![w].at = "charge", ![w].rows = worker[w].rows \ {i},
                                    ![w].users = {}]
    BY DEF Charge, Goto, Post, InsertCreditLedgerEntry
  <1>2. Due(i, worker[w].minute)
    BY <1>1 DEF UseInv, ListedOK
  <1>3. ASSUME NEW v \in Workers, NEW j \in Instances PROVE ListedOK(v, j)'
    <2>1. ListedOK(v, j)
      BY DEF UseInv
    <2>2. /\ worker'[v].at = worker[v].at /\ worker'[v].minute = worker[v].minute
          /\ worker'[v].rows \subseteq worker[v].rows
      BY <1>1 DEF At, UseInv, LedgerInv, LedgerType, WorkerType, Locals
    <2> QED BY <1>1, <2>1, <2>2 DEF ListedOK, At, Due
  <1>4. ChargesFollowUse'
    <2>1. CASE UNCHANGED ledger
      BY <1>1, <2>1 DEF UseInv, ChargesFollowUse, ChargesOf
    <2>2. ASSUME NEW began \in k.minute..now,
                 ledger' = Append(ledger, [key |-> k, user |-> Owner[i], delta |-> -rate,
                                           created |-> began])
          PROVE  ChargesFollowUse'
      <3> DEFINE e == [key |-> k, user |-> Owner[i], delta |-> -rate, created |-> began]
      <3>1. e.key.of = i /\ e.key.minute = worker[w].minute
        BY DEF BillingKey
      <3>2. ledger' = Append(ledger, e)
        BY <2>2
      <3> HIDE DEF e
      <3> SUFFICES ASSUME NEW j \in Instances, NEW n \in ChargesOf(j)'
                   PROVE  Due(j, ledger'[n].key.minute)
        BY <1>1 DEF ChargesFollowUse, Due
      <3>3. /\ Len(ledger) \in Nat /\ DOMAIN ledger = 1..Len(ledger)
            /\ DOMAIN ledger' = 1..(Len(ledger) + 1)
            /\ \A l \in 1..Len(ledger) : ledger'[l] = ledger[l]
            /\ ledger'[Len(ledger) + 1] = e
        BY <3>2 DEF UseInv, LedgerInv, LedgerType
      <3>4. CASE n = Len(ledger) + 1
        <4>1. j = i /\ ledger'[n].key.minute = worker[w].minute
          BY <3>1, <3>3, <3>4 DEF ChargesOf
        <4> QED BY <1>2, <4>1
      <3>5. CASE n \in 1..Len(ledger)
        <4>1. n \in ChargesOf(j) /\ ledger'[n] = ledger[n]
          BY <3>3, <3>5 DEF ChargesOf
        <4>2. Due(j, ledger[n].key.minute)
          BY <4>1 DEF UseInv, ChargesFollowUse, Due
        <4> QED BY <4>1, <4>2
      <3>6. n \in 1..(Len(ledger) + 1)
        BY <3>3 DEF ChargesOf
      <3> QED BY <3>3, <3>4, <3>5, <3>6
    <2> QED BY <1>1, <2>1, <2>2
  <1> QED BY <1>1, <1>3, <1>4, UseSteady

\* A recharge adds no charge of any instance.
LEMMA UseRecharge ==
    ASSUME UseInv, LedgerInv', NEW r \in Requests, Recharge(r)
    PROVE  UseInv'
  <1> DEFINE e(began) == [key |-> RechargeKey(r), user |-> Payee[r], delta |-> Amount[r],
                          created |-> began]
  <1>1. /\ UNCHANGED <<now, row, ran, worker>>
        /\ UNCHANGED ledger \/ \E began : ledger' = Append(ledger, e(began))
    BY DEF Recharge, Post, InsertCreditLedgerEntry
  <1>2. \A began : e(began).key.kind # "billing"
    BY DEF RechargeKey
  <1> HIDE DEF e
  <1>3. \A v \in Workers, j \in Instances : ListedOK(v, j)'
    BY <1>1 DEF UseInv, ListedOK, At, Due
  <1>4. ChargesFollowUse'
    <2>1. CASE UNCHANGED ledger
      BY <1>1, <2>1 DEF UseInv, ChargesFollowUse, ChargesOf
    <2>2. ASSUME NEW began, ledger' = Append(ledger, e(began))
          PROVE  ChargesFollowUse'
      <3>1. /\ Len(ledger) \in Nat /\ DOMAIN ledger = 1..Len(ledger)
            /\ DOMAIN ledger' = 1..(Len(ledger) + 1)
            /\ \A l \in 1..Len(ledger) : ledger'[l] = ledger[l]
            /\ ledger'[Len(ledger) + 1] = e(began)
        BY <2>2 DEF UseInv, LedgerInv, LedgerType
      <3> SUFFICES ASSUME NEW j \in Instances, NEW n \in ChargesOf(j)'
                   PROVE  Due(j, ledger'[n].key.minute)
        BY <1>1 DEF ChargesFollowUse, Due
      <3>2. n \in 1..(Len(ledger) + 1) /\ ledger'[n].key.kind = "billing"
        BY <3>1 DEF ChargesOf
      <3>3. n \in 1..Len(ledger)
        BY <1>2, <3>1, <3>2
      <3>4. n \in ChargesOf(j) /\ ledger'[n] = ledger[n]
        BY <3>1, <3>3 DEF ChargesOf
      <3> QED BY <3>4 DEF UseInv, ChargesFollowUse, Due
    <2> QED BY <1>1, <2>1, <2>2
  <1> QED BY <1>1, <1>3, <1>4, UseSteady

\* The other steps of a worker: it lists what runs, and charges the minute it
\* reads from the clock.
LEMMA UseWorker ==
    ASSUME UseInv, LedgerInv', NEW w \in Workers, WorkerStep(w) \/ WorkerDies(w),
           ~\E i \in Instances : Charge(w, i)
    PROVE  UseInv'
  <1>1. UNCHANGED <<now, row, ran, ledger>>
    BY DEF WorkerStep, ListRunning, TakeBucket, ChargeDone, SweepUsers, SweepNext,
       SendDestroy, SweepInstances, WorkerDies
  <1>2. ChargesFollowUse'
    BY <1>1 DEF UseInv, ChargesFollowUse, ChargesOf
  <1>3. WorkerType
    BY DEF UseInv, LedgerInv, LedgerType
  <1>4. ASSUME NEW v \in Workers, v # w, NEW j \in Instances PROVE ListedOK(v, j)'
    <2>1. worker'[v] = worker[v]
      BY <1>3, <1>4 DEF WorkerStep, ListRunning, TakeBucket, ChargeDone, SweepUsers, SweepNext,
         SendDestroy, SweepInstances, WorkerDies, Goto, WorkerType
    <2> QED BY <1>1, <2>1 DEF UseInv, ListedOK, At, Due
  <1>5. ASSUME NEW j \in Instances PROVE ListedOK(w, j)'
    <2>1. CASE ListRunning(w)
      <3>1. CASE UNCHANGED worker
        BY <1>1, <3>1 DEF UseInv, ListedOK, At, Due
      <3>2. CASE Goto(w, "bucket", ListBillableRunningInstances, {})
        <4>1. worker'[w].at = "bucket" /\ worker'[w].rows = ListBillableRunningInstances
          BY <1>3, <3>2 DEF Goto, WorkerType, Locals
        <4>2. j \in ListBillableRunningInstances => ran[j] # {}
          BY DEF ListBillableRunningInstances, UseInv, RanOK
        <4> QED BY <1>1, <4>1, <4>2 DEF ListedOK, At
      <3> QED BY <2>1, <3>1, <3>2 DEF ListRunning
    <2>2. CASE TakeBucket(w)
      <3>1. /\ At(w, "bucket") /\ worker'[w].at = "charge"
            /\ worker'[w].minute = now /\ worker'[w].rows = worker[w].rows
        BY <1>3, <2>2 DEF TakeBucket, WorkerType, Locals
      <3>2. j \in worker[w].rows => Due(j, now)
        <4> SUFFICES ASSUME j \in worker[w].rows PROVE Due(j, now)
          OBVIOUS
        <4>1. ran[j] # {} /\ RanOK(j)
          BY <3>1 DEF UseInv, ListedOK
        <4> QED BY <4>1 DEF Due, RanOK
      <3> QED BY <1>1, <3>1, <3>2 DEF ListedOK, At, Due
    <2>3. CASE ~ListRunning(w) /\ ~TakeBucket(w)
      <3>1. \A p \in Places, rs \in SUBSET Instances, us \in SUBSET Users :
                Goto(w, p, rs, us) => worker'[w].at = p
        BY <1>3 DEF Goto, WorkerType, Locals
      <3>2. /\ worker[w].rows \subseteq Instances /\ worker[w].users \subseteq Users
            /\ ListUsersWithNegativeBalance \subseteq Users
            /\ \A u \in Users : InstancesToStop(u) \subseteq Instances
        BY <1>3 DEF WorkerType, Locals, ListUsersWithNegativeBalance, InstancesToStop
      <3>3. CASE ChargeDone(w) \/ WorkerDies(w)
        <4>1. worker'[w] = Idle \/ worker'[w] = [Idle EXCEPT !.at = "sweep"]
          BY <1>3, <3>3 DEF ChargeDone, WorkerDies, WorkerType
        <4> QED BY <4>1 DEF ListedOK, At, Idle
      <3>4. CASE SweepUsers(w)
        <4>1. worker'[w].at \in {"users", "idle"}
          BY <3>1, <3>2, <3>4 DEF SweepUsers, Places
        <4> QED BY <4>1 DEF ListedOK, At
      <3>5. CASE SweepNext(w)
        <4>1. worker'[w].at \in {"users", "idle"}
          BY <3>1, <3>2, <3>5 DEF SweepNext, Places
        <4> QED BY <4>1 DEF ListedOK, At
      <3>6. ASSUME NEW i \in Instances, SendDestroy(w, i) PROVE ListedOK(w, j)'
        <4>1. worker'[w].at = "destroy"
          BY <3>1, <3>2, <3>6 DEF SendDestroy, Places
        <4> QED BY <4>1 DEF ListedOK, At
      <3>7. ASSUME NEW u \in Users, SweepInstances(w, u) PROVE ListedOK(w, j)'
        <4>1. worker'[w].at \in {"destroy", "users"}
          BY <3>1, <3>2, <3>7 DEF SweepInstances, Places
        <4> QED BY <4>1 DEF ListedOK, At
      <3> QED BY <2>3, <3>3, <3>4, <3>5, <3>6, <3>7 DEF WorkerStep
    <2> QED BY <2>1, <2>2, <2>3
  <1> QED BY <1>1, <1>2, <1>4, <1>5, UseSteady

\* A row moves forward, or a minute begins.
LEMMA UseMove ==
    ASSUME UseInv, LedgerInv', RanType', \A i \in Instances : RanOK(i)',
           UNCHANGED <<ledger, worker>>,
           \A i \in Instances : \/ row'[i] = row[i] /\ ran[i] \subseteq ran'[i]
                                \/ row'[i] # "running" /\ ran'[i] = ran[i]
                                \/ ran[i] = {}
    PROVE  UseInv'
  <1>1. ASSUME NEW i \in Instances, NEW m \in Int, Due(i, m) PROVE Due(i, m)'
    <2>1. ran[i] # {} /\ RanOK(i) /\ RanType
      BY <1>1 DEF Due, UseInv
    <2> QED BY <1>1, <2>1, DueKept
  <1>2. \A w \in Workers, i \in Instances : ListedOK(w, i)'
    <2> SUFFICES ASSUME NEW w \in Workers, NEW i \in Instances PROVE ListedOK(w, i)'
      OBVIOUS
    <2>1. ListedOK(w, i) /\ worker[w].minute \in Int
      BY DEF UseInv, LedgerInv, LedgerType, WorkerType, Locals
    <2>2. ran[i] # {} => ran'[i] # {}
      OBVIOUS
    <2>3. Due(i, worker[w].minute) => Due(i, worker[w].minute)'
      <3>1. Due(i, worker[w].minute) =>
              /\ row'[i] = "running" => worker[w].minute \in ran'[i]
              /\ \E m \in ran'[i] : m <= worker[w].minute
        BY <1>1, <2>1 DEF Due
      <3> QED BY <3>1 DEF Due
    <2> QED BY <2>1, <2>2, <2>3 DEF ListedOK, At
  <1>3. ChargesFollowUse'
    <2> SUFFICES ASSUME NEW i \in Instances, NEW n \in ChargesOf(i)
                 PROVE  /\ row'[i] = "running" => ledger[n].key.minute \in ran'[i]
                        /\ \E m \in ran'[i] : m <= ledger[n].key.minute
      BY DEF ChargesFollowUse, ChargesOf
    <2>1. Due(i, ledger[n].key.minute)
      BY DEF UseInv, ChargesFollowUse, Due
    <2>2. ledger[n].key.minute \in Int
      <3>1. n \in DOMAIN ledger /\ ledger \in Seq(Entry)
        BY DEF ChargesOf, UseInv, LedgerInv, LedgerType
      <3>2. ledger[n] \in Entry
        BY <3>1
      <3>3. ledger[n].key \in Keys
        BY <3>2 DEF Entry
      <3> QED BY <3>3, BillingAssumption DEF Keys
    <2> QED BY <1>1, <2>1, <2>2 DEF Due
  <1> QED BY <1>2, <1>3 DEF UseInv

LEMMA UseTransition ==
    ASSUME UseInv, LedgerInv', NEW i \in Instances, NEW to \in States, Move(i, to),
           row[i] \in States, to = "running" => row[i] = "provisioning",
           row[i] \in Used => to \in Used
    PROVE  UseInv'
  <1>1. RanType /\ (\A j \in Instances : RanOK(j)) /\ now \in 0..MaxMinute
    BY DEF UseInv, LedgerInv, LedgerType
  <1>2. /\ row' = [row EXCEPT ![i] = to] /\ now' = now
        /\ ran' = [ran EXCEPT ![i] = IF to = "running" THEN ran[i] \cup {now} ELSE ran[i]]
        /\ UNCHANGED <<ledger, worker>>
    BY DEF Move
  <1>3. RanType'
    BY <1>1, <1>2 DEF RanType
  <1>4. to = "running" => ran[i] = {}
    BY <1>1 DEF RanOK, Used
  <1>5. ASSUME NEW j \in Instances PROVE RanOK(j)'
    <2>1. CASE j # i
      BY <1>1, <1>2, <2>1 DEF RanOK, RanType
    <2>2. CASE j = i /\ to = "running"
      <3>1. row'[i] = "running" /\ ran'[i] = {now}
        BY <1>1, <1>2, <1>4, <2>2 DEF RanType
      <3> QED BY <1>1, <1>2, <2>2, <3>1 DEF RanOK, Used
    <2>3. CASE j = i /\ to # "running"
      <3>1. row'[i] = to /\ ran'[i] = ran[i]
        BY <1>1, <1>2, <2>3 DEF RanType
      <3> QED BY <1>1, <1>2, <2>3, <3>1 DEF RanOK
    <2> QED BY <2>1, <2>2, <2>3
  <1>6. \A j \in Instances : \/ row'[j] = row[j] /\ ran[j] \subseteq ran'[j]
                             \/ row'[j] # "running" /\ ran'[j] = ran[j]
                             \/ ran[j] = {}
    BY <1>1, <1>2, <1>4 DEF RanType
  <1> QED BY <1>2, <1>3, <1>5, <1>6, UseMove

LEMMA UseStep ==
    ASSUME UseInv, [Next]_vars
    PROVE  UseInv'
  <1>1. LedgerInv'
    BY LedgerStep DEF UseInv
  <1>2. RanType /\ (\A j \in Instances : RanOK(j)) /\ now \in 0..MaxMinute
    BY DEF UseInv, LedgerInv, LedgerType
  <1>3. ASSUME NEW w \in Workers, WorkerStep(w) \/ WorkerDies(w) PROVE UseInv'
    BY <1>1, <1>3, UseCharge, UseWorker
  <1>4. ASSUME NEW r \in Requests, Recharge(r) PROVE UseInv'
    BY <1>1, <1>4, UseRecharge
  <1>5. CASE UNCHANGED <<now, row, ran, ledger, worker>>
    BY <1>1, <1>5, UseSteady DEF UseInv, ListedOK, At, Due, ChargesFollowUse, ChargesOf
  <1>6. CASE \/ \E r \in Requests : RechargeAnswer(r)
             \/ \E u \in Users : ViewBalance(u)
             \/ \E i \in Instances : BalanceForOwner(i) \/ CommandLost(i)
             \/ UNCHANGED vars
    <2>1. UNCHANGED <<now, row, ran, ledger, worker>>
      BY <1>6 DEF RechargeAnswer, ViewBalance, BalanceForOwner, CommandLost, vars
    <2> QED BY <1>5, <2>1
  <1>7. ASSUME NEW i \in Instances, CreateInstance(i) PROVE UseInv'
    <2>1. /\ row[i] = "none" /\ row' = [row EXCEPT ![i] = "pending"]
          /\ UNCHANGED <<now, ran, ledger, worker>>
      BY <1>7 DEF CreateInstance
    <2>2. ran[i] = {}
      BY <1>2, <2>1 DEF RanOK, Used
    <2>3. RanType'
      BY <1>2, <2>1 DEF RanType, States
    <2>4. \A j \in Instances : RanOK(j)'
      BY <1>2, <2>1, <2>2 DEF RanOK, RanType
    <2>5. \A j \in Instances : j # i => row'[j] = row[j]
      BY <1>2, <2>1 DEF RanType
    <2> QED BY <1>1, <2>1, <2>2, <2>3, <2>4, <2>5, UseMove
  <1>8. ASSUME NEW i \in Instances, AgentStops(i) PROVE UseInv'
    <2> DEFINE to == IF row[i] = "stopping" THEN "stopped" ELSE "stopping"
    <2>1. Move(i, to) /\ row[i] \in States
      BY <1>8 DEF AgentStops, States
    <2>2. to \in States /\ to # "running" /\ to \in Used
      BY DEF States, Used
    <2> HIDE DEF to
    <2> QED BY <1>1, <2>1, <2>2, UseTransition
  <1>9. ASSUME NEW i \in Instances, NEW to \in States, Transition(i, to) PROVE UseInv'
    BY <1>1, <1>9, OnlyForward, UseTransition DEF Transition
  <1>10. CASE Tick
    <2>1. /\ now' = now + 1 /\ now' \in 0..MaxMinute
          /\ ran' = [i \in Instances |-> IF row[i] = "running" THEN ran[i] \cup {now + 1} ELSE ran[i]]
          /\ UNCHANGED <<row, ledger, worker>>
      BY <1>2, <1>10, BillingAssumption DEF Tick
    <2>2. RanType'
      BY <1>2, <2>1 DEF RanType
    <2>3. \A i \in Instances : RanOK(i)'
      <3> SUFFICES ASSUME NEW i \in Instances PROVE RanOK(i)'
        OBVIOUS
      <3>1. ran'[i] = IF row[i] = "running" THEN ran[i] \cup {now + 1} ELSE ran[i]
        BY <2>1
      <3>2. RanOK(i) /\ ran[i] \subseteq 0..MaxMinute
        BY <1>2 DEF RanType
      <3> QED BY <1>2, <2>1, <3>1, <3>2 DEF RanOK, Used
    <2>4. \A i \in Instances : row'[i] = row[i] /\ ran[i] \subseteq ran'[i]
      BY <2>1
    <2> QED BY <1>1, <2>1, <2>2, <2>3, <2>4, UseMove
  <1> QED BY <1>3, <1>4, <1>6, <1>7, <1>8, <1>9, <1>10 DEF Next

\* An instance that still runs has paid only for minutes it ran in, and none
\* has paid for a minute before it first ran, for any number of workers.
THEOREM ChargesSound == Spec => []ChargesFollowUse
  <1>1. Init => UseInv
    <2> SUFFICES ASSUME Init PROVE UseInv
      OBVIOUS
    <2>1. LedgerInv
      BY LedgerInit
    <2>2. RanType /\ \A i \in Instances : RanOK(i)
      BY DEF Init, RanType, RanOK
    <2>3. \A w \in Workers, i \in Instances : ListedOK(w, i)
      BY DEF Init, ListedOK, At, Idle
    <2>4. ChargesFollowUse
      BY DEF Init, ChargesFollowUse, ChargesOf
    <2> QED BY <2>1, <2>2, <2>3, <2>4 DEF UseInv
  <1>2. UseInv => ChargesFollowUse
    BY DEF UseInv
  <1> QED BY <1>1, <1>2, UseStep, PTL DEF Spec

-----------------------------------------------------------------------------
(* Running totals *)

\* A set of naturals has a least element; induction over the ledger is by it.
LEMMA LeastNatural ==
    ASSUME NEW T \in SUBSET Nat, T # {}
    PROVE  \E n \in T : \A m \in T : n <= m
  <1> DEFINE R == OpToRel(<, Nat)
  <1>1. IsWellFoundedOn(R, Nat)
    BY NatLessThanWellFounded
  <1>2. R = {ss \in Nat \X Nat : ss[1] < ss[2]}
    BY DEF OpToRel
  <1> HIDE DEF R
  <1>3. PICK n \in T : \A m \in T : ~(<<m, n>> \in R)
    BY <1>1, WFMin
  <1>4. \A m \in T : ~(m < n)
    BY <1>2, <1>3
  <1> QED BY <1>4

\* What an entry adds to the balance of a user.
Share(e, u) == IF e.user = u THEN e.delta ELSE 0

\* f sums the shares of the first n entries.
Sums(f, entries, u, n) ==
    /\ f \in [0..n -> Int] /\ f[0] = 0
    /\ \A m \in 1..n : f[m] = f[m - 1] + Share(entries[m], u)

\* A share is a number.
LEMMA ShareType ==
    ASSUME NEW entries \in Seq(Entry), NEW u
    PROVE  \A m \in 1..Len(entries) : Share(entries[m], u) \in Int
  <1> SUFFICES ASSUME NEW m \in 1..Len(entries) PROVE Share(entries[m], u) \in Int
    OBVIOUS
  <1>1. entries[m] \in Entry
    OBVIOUS
  <1>2. entries[m].delta \in Int
    BY <1>1 DEF Entry
  <1> QED BY <1>2 DEF Share

\* There are such sums.
LEMMA SumsExist ==
    ASSUME NEW entries \in Seq(Entry), NEW u
    PROVE  \E f : Sums(f, entries, u, Len(entries))
  <1> DEFINE T == {n \in 0..Len(entries) : ~\E f : Sums(f, entries, u, n)}
  <1>1. Len(entries) \in Nat /\ Len(entries) \in 0..Len(entries)
    OBVIOUS
  <1> SUFFICES ASSUME T # {} PROVE FALSE
    BY <1>1
  <1>2. PICK n \in T : \A m \in T : n <= m
    <2>1. T \in SUBSET Nat
      OBVIOUS
    <2> HIDE DEF T
    <2> QED BY <2>1, LeastNatural
  <1>3. CASE n = 0
    <2>1. Sums([m \in 0..0 |-> 0], entries, u, 0)
      BY DEF Sums
    <2> QED BY <1>2, <1>3, <2>1
  <1>4. CASE n # 0
    <2>1. n \in 1..Len(entries) /\ n - 1 \in 0..Len(entries) /\ n - 1 \notin T
      BY <1>1, <1>2, <1>4
    <2>2. PICK f : Sums(f, entries, u, n - 1)
      BY <2>1
    <2> DEFINE g == [m \in 0..n |-> IF m = n THEN f[n - 1] + Share(entries[n], u) ELSE f[m]]
    <2>3. Share(entries[n], u) \in Int
      BY <2>1, ShareType
    <2>4. f \in [0..(n - 1) -> Int] /\ f[0] = 0
      BY <2>2 DEF Sums
    <2>5. g \in [0..n -> Int]
      BY <2>1, <2>3, <2>4
    <2>6. g[0] = 0 /\ g[n] = f[n - 1] + Share(entries[n], u) /\ \A m \in 0..(n - 1) : g[m] = f[m]
      BY <2>1, <2>4
    <2> HIDE DEF g
    <2>7. \A m \in 1..n : g[m] = g[m - 1] + Share(entries[m], u)
      <3> SUFFICES ASSUME NEW m \in 1..n PROVE g[m] = g[m - 1] + Share(entries[m], u)
        OBVIOUS
      <3>1. CASE m = n
        BY <2>1, <2>6, <3>1
      <3>2. CASE m # n
        <4>1. m \in 1..(n - 1) /\ m \in 0..(n - 1) /\ m - 1 \in 0..(n - 1)
          BY <2>1, <3>2
        <4> QED BY <2>2, <2>6, <4>1 DEF Sums
      <3> QED BY <3>1, <3>2
    <2>8. Sums(g, entries, u, n)
      BY <2>5, <2>6, <2>7 DEF Sums
    <2> QED BY <1>2, <2>8
  <1> QED BY <1>3, <1>4

\* f starts at 0 and grows by the shares.
Grows(f, share, N) ==
    DOMAIN f = 0..N /\ f[0] = 0 /\ \A m \in 1..N : f[m] = f[m - 1] + share[m]

\* Sums are determined by the entries.
LEMMA SumsUnique ==
    ASSUME NEW f, NEW g, NEW share, NEW N \in Nat, Grows(f, share, N), Grows(g, share, N)
    PROVE  \A n \in 0..N : f[n] = g[n]
  <1> DEFINE T == {n \in 0..N : f[n] # g[n]}
  <1> SUFFICES ASSUME T # {} PROVE FALSE
    OBVIOUS
  <1>1. PICK n \in T : \A m \in T : n <= m
    <2>1. T \in SUBSET Nat
      OBVIOUS
    <2> HIDE DEF T
    <2> QED BY <2>1, LeastNatural
  <1>2. n \in 1..N /\ n - 1 \in 0..N /\ n - 1 \notin T
    BY <1>1 DEF Grows
  <1>3. f[n - 1] = g[n - 1]
    BY <1>2
  <1> QED BY <1>1, <1>2, <1>3 DEF Grows

\* So the recursive definition of Totals means what it says.
LEMMA TotalsSum ==
    ASSUME NEW entries \in Seq(Entry), NEW u
    PROVE  Sums(Totals(entries, u), entries, u, Len(entries))
  <1> DEFINE N == Len(entries)
             Next1(f) == [n \in 0..N |-> IF n = 0 THEN 0
                                         ELSE f[n - 1] + (IF entries[n].user = u THEN entries[n].delta ELSE 0)]
  <1>1. N \in Nat
    OBVIOUS
  <1>2. PICK f : Sums(f, entries, u, N)
    BY SumsExist
  <1>3. f = Next1(f)
    <2>1. \A n \in 0..N : f[n] = Next1(f)[n]
      <3> SUFFICES ASSUME NEW n \in 0..N PROVE f[n] = Next1(f)[n]
        OBVIOUS
      <3>1. CASE n = 0
        BY <1>2, <3>1 DEF Sums
      <3>2. CASE n # 0
        <4>1. n \in 1..N
          BY <1>1, <3>2
        <4> QED BY <1>2, <3>2, <4>1 DEF Sums, Share
      <3> QED BY <3>1, <3>2
    <2>2. f \in [0..N -> Int]
      BY <1>2 DEF Sums
    <2> QED BY <2>1, <2>2
  <1>4. Totals(entries, u) = CHOOSE g : g = Next1(g)
    BY DEF Totals
  <1> DEFINE t == Totals(entries, u)
  <1>5. t = Next1(t)
    <2> HIDE DEF Next1
    <2> QED BY <1>3, <1>4
  <1> HIDE DEF t
  <1>6. DOMAIN t = 0..N /\ t[0] = 0 /\ \A n \in 1..N : t[n] = t[n - 1] + Share(entries[n], u)
    <2>1. DOMAIN t = 0..N
      BY <1>5
    <2>2. \A n \in 0..N : t[n] = Next1(t)[n]
      BY <1>5
    <2>3. t[0] = 0
      BY <1>1, <2>2
    <2>4. \A n \in 1..N : t[n] = t[n - 1] + Share(entries[n], u)
      <3> SUFFICES ASSUME NEW n \in 1..N PROVE t[n] = t[n - 1] + Share(entries[n], u)
        OBVIOUS
      <3>1. n \in 0..N /\ n # 0
        BY <1>1
      <3> QED BY <2>2, <3>1 DEF Share
    <2> QED BY <2>1, <2>3, <2>4
  <1>7. \A n \in 0..N : t[n] = f[n]
    <2> DEFINE share == [m \in 1..N |-> Share(entries[m], u)]
    <2>1. Grows(t, share, N)
      BY <1>6 DEF Grows
    <2>2. Grows(f, share, N)
      BY <1>2 DEF Grows, Sums
    <2> HIDE DEF share
    <2> QED BY <1>1, <2>1, <2>2, SumsUnique
  <1>8. t = f
    <2>1. t = [n \in 0..N |-> t[n]] /\ f = [n \in 0..N |-> f[n]]
      BY <1>2, <1>5 DEF Sums
    <2> QED BY <1>7, <2>1
  <1> QED BY <1>2, <1>8 DEF t

\* A new entry adds a total and changes none.
LEMMA TotalsAppend ==
    ASSUME NEW entries \in Seq(Entry), NEW e \in Entry, NEW u
    PROVE  LET more == Append(entries, e) IN
           /\ \A n \in 0..Len(entries) : Totals(more, u)[n] = Totals(entries, u)[n]
           /\ Totals(more, u)[Len(more)] = Totals(entries, u)[Len(entries)] + Share(e, u)
  <1> DEFINE N == Len(entries)
             more == Append(entries, e)
             s == Totals(entries, u)
             t == Totals(more, u)
             f == [n \in 0..N |-> t[n]]
             share == [m \in 1..N |-> Share(entries[m], u)]
  <1>1. /\ N \in Nat /\ more \in Seq(Entry) /\ Len(more) = N + 1
        /\ more[N + 1] = e /\ \A n \in 1..N : more[n] = entries[n]
    OBVIOUS
  <1>2. Sums(s, entries, u, N) /\ Sums(t, more, u, N + 1)
    BY <1>1, TotalsSum
  <1> HIDE DEF s, t, more
  <1>3. DOMAIN s = 0..N /\ DOMAIN f = 0..N /\ f[0] = s[0]
    BY <1>1, <1>2 DEF Sums
  <1>4. \A m \in 1..N : s[m] = s[m - 1] + share[m] /\ f[m] = f[m - 1] + share[m]
    <2> SUFFICES ASSUME NEW m \in 1..N
                 PROVE  s[m] = s[m - 1] + share[m] /\ f[m] = f[m - 1] + share[m]
      OBVIOUS
    <2>1. m \in 1..(N + 1) /\ m \in 0..N /\ m - 1 \in 0..N /\ more[m] = entries[m]
      BY <1>1
    <2>2. s[m] = s[m - 1] + Share(entries[m], u) /\ t[m] = t[m - 1] + Share(entries[m], u)
      BY <1>2, <2>1 DEF Sums
    <2> QED BY <2>1, <2>2
  <1>5. \A n \in 0..N : f[n] = s[n]
    <2>1. Grows(f, share, N) /\ Grows(s, share, N)
      BY <1>2, <1>3, <1>4 DEF Grows, Sums
    <2> HIDE DEF f, share
    <2> QED BY <1>1, <2>1, SumsUnique
  <1>6. \A n \in 0..N : t[n] = s[n]
    BY <1>5
  <1>7. t[N + 1] = t[(N + 1) - 1] + Share(e, u)
    BY <1>1, <1>2 DEF Sums
  <1>8. t[N + 1] = s[N] + Share(e, u)
    BY <1>1, <1>6, <1>7
  <1> QED BY <1>1, <1>6, <1>8 DEF s, t, more

-----------------------------------------------------------------------------
(* Balances *)

\* A step either leaves ledger and balances alone or is one Post.
LEMMA OnlyPosts ==
    ASSUME LedgerInv, [Next]_vars
    PROVE  \/ UNCHANGED <<ledger, credits>>
           \/ \E k \in Keys, u \in Users, delta \in Int : Post(k, u, delta) /\ UNCHANGED view
  <1>1. ASSUME NEW w \in Workers, NEW i \in Instances, Charge(w, i)
        PROVE  \/ UNCHANGED <<ledger, credits>>
               \/ \E k \in Keys, u \in Users, delta \in Int : Post(k, u, delta) /\ UNCHANGED view
    <2> DEFINE rate == MilliPerMinute(Gpus[i])
               k == BillingKey(i, worker[w].minute)
    <2>1. k \in Keys /\ Owner[i] \in Users /\ -rate \in Int
      BY BillingAssumption DEF BillingKey, Keys, MilliPerMinute, LedgerInv, LedgerType, WorkerType, Locals
    <2>2. UNCHANGED <<ledger, credits>> \/ Post(k, Owner[i], -rate)
      BY <1>1 DEF Charge
    <2>3. UNCHANGED view
      BY <1>1 DEF Charge
    <2> HIDE DEF k, rate
    <2> QED BY <2>1, <2>2, <2>3
  <1>2. ASSUME NEW r \in Requests, Recharge(r)
        PROVE  \/ UNCHANGED <<ledger, credits>>
               \/ \E k \in Keys, u \in Users, delta \in Int : Post(k, u, delta) /\ UNCHANGED view
    <2>1. RechargeKey(r) \in Keys /\ Payee[r] \in Users /\ Amount[r] \in Int
      BY BillingAssumption DEF RechargeKey, Keys
    <2>2. UNCHANGED <<ledger, credits>> \/ Post(RechargeKey(r), Payee[r], Amount[r])
      BY <1>2 DEF Recharge
    <2>3. UNCHANGED view
      BY <1>2 DEF Recharge
    <2> QED BY <2>1, <2>2, <2>3
  <1>3. \/ \E w \in Workers, i \in Instances : Charge(w, i)
        \/ \E r \in Requests : Recharge(r)
        \/ UNCHANGED <<ledger, credits>>
    <2>1. ASSUME NEW w \in Workers, WorkerStep(w) \/ WorkerDies(w), ~\E i \in Instances : Charge(w, i)
          PROVE  UNCHANGED <<ledger, credits>>
      BY <2>1 DEF WorkerStep, ListRunning, TakeBucket, ChargeDone, SweepUsers, SweepNext,
         SendDestroy, SweepInstances, WorkerDies
    <2>2. CASE \/ \E r \in Requests : RechargeAnswer(r)
               \/ \E u \in Users : ViewBalance(u)
               \/ \E i \in Instances : \/ BalanceForOwner(i) \/ CreateInstance(i)
                                       \/ AgentStops(i) \/ CommandLost(i)
                                       \/ \E to \in States : Transition(i, to)
               \/ Tick \/ UNCHANGED vars
      BY <2>2 DEF RechargeAnswer, ViewBalance, BalanceForOwner, CreateInstance, AgentStops,
         CommandLost, Transition, Move, Tick, vars
    <2> QED BY <2>1, <2>2 DEF Next
  <1> QED BY <1>1, <1>2, <1>3

\* One Post keeps every cached balance the sum of the ledger.
LEMMA PostBalances ==
    ASSUME LedgerInv, BalanceIsLedgerSum,
           NEW k \in Keys, NEW u \in Users, NEW delta \in Int, Post(k, u, delta)
    PROVE  /\ BalanceIsLedgerSum'
           /\ ledger' = ledger \/ \E e \in Entry : ledger' = Append(ledger, e)
  <1>t. ledger \in Seq(Entry) /\ credits \in [Users -> Int \cup {NoCredits}]
    BY DEF LedgerInv, LedgerType
  <1>1. CASE UNCHANGED <<ledger, credits>>
    BY <1>1 DEF BalanceIsLedgerSum, Balance, Mine
  <1>2. CASE InsertCreditLedgerEntry(k, u, delta) /\ UpsertCredits(u, delta)
    <2>0. PICK began \in k.minute..now :
             ledger' = Append(ledger, [key |-> k, user |-> u, delta |-> delta, created |-> began])
      BY <1>2 DEF InsertCreditLedgerEntry
    <2> DEFINE e == [key |-> k, user |-> u, delta |-> delta, created |-> began]
               N == Len(ledger)
    <2>1. e \in Entry /\ e.user = u /\ e.delta = delta
      BY StampType DEF LedgerInv, Entry
    <2>2. ledger' = Append(ledger, e)
      BY <2>0
    <2> HIDE DEF e
    <2>3. /\ N \in Nat /\ Len(ledger') = N + 1 /\ DOMAIN ledger = 1..N /\ DOMAIN ledger' = 1..(N + 1)
          /\ ledger'[N + 1] = e /\ \A n \in 1..N : ledger'[n] = ledger[n]
      BY <1>t, <2>1, <2>2
    <2>4. \A v \in Users : Totals(ledger', v)[Len(ledger')] = Totals(ledger, v)[N] + Share(e, v)
      BY <1>t, <2>1, <2>2, TotalsAppend
    <2>5. \A v \in Users : Totals(ledger, v)[N] \in Int
      BY <1>t, <2>3, TotalsSum DEF Sums
    <2>6. \A v \in Users : v # u => credits'[v] = credits[v] /\ Share(e, v) = 0 /\ Mine(v)' = Mine(v)
      <3> SUFFICES ASSUME NEW v \in Users, v # u
                   PROVE  credits'[v] = credits[v] /\ Share(e, v) = 0 /\ Mine(v)' = Mine(v)
        OBVIOUS
      <3>1. credits'[v] = credits[v] /\ Share(e, v) = 0
        BY <1>t, <1>2, <2>1 DEF UpsertCredits, Share
      <3>2. Mine(v)' = Mine(v)
        BY <2>1, <2>3 DEF Mine
      <3> QED BY <3>1, <3>2
    <2>7. /\ Balance(u) \in Int /\ credits'[u] = Balance(u) + delta /\ credits'[u] # NoCredits
          /\ Share(e, u) = delta /\ N + 1 \in Mine(u)'
      <3>1. Balance(u) \in Int
        BY <1>t DEF Balance
      <3>2. credits'[u] = Balance(u) + delta
        BY <1>t, <1>2 DEF UpsertCredits
      <3>3. N + 1 \in Mine(u)'
        BY <2>1, <2>3 DEF Mine
      <3> QED BY <2>1, <3>1, <3>2, <3>3, BillingAssumption DEF Share
    <2>8. ASSUME NEW v \in Users
          PROVE  /\ Balance(v)' = Totals(ledger', v)[Len(ledger')]
                 /\ (credits'[v] = NoCredits) <=> (Mine(v)' = {})
      <3>1. Balance(v) = Totals(ledger, v)[N] /\ ((credits[v] = NoCredits) <=> (Mine(v) = {}))
        BY DEF BalanceIsLedgerSum
      <3>2. CASE v = u
        <4>1. Balance(v)' = credits'[v]
          BY <2>7, <3>2 DEF Balance
        <4> QED BY <2>4, <2>7, <3>1, <3>2, <4>1
      <3>3. CASE v # u
        <4>1. Balance(v)' = Balance(v)
          BY <2>6, <3>3 DEF Balance
        <4> QED BY <2>4, <2>5, <2>6, <3>1, <3>3, <4>1
      <3> QED BY <3>2, <3>3
    <2>9. BalanceIsLedgerSum'
      BY <2>8 DEF BalanceIsLedgerSum
    <2> QED BY <2>1, <2>2, <2>9
  <1> QED BY <1>1, <1>2 DEF Post

BalanceInv == LedgerInv /\ BalanceIsLedgerSum

\* The cached balances never drift.
LEMMA BalanceStep ==
    ASSUME BalanceInv, [Next]_vars
    PROVE  /\ BalanceInv'
           /\ \/ UNCHANGED ledger
              \/ UNCHANGED view /\ \E e \in Entry : ledger' = Append(ledger, e)
  <1>1. LedgerInv'
    BY LedgerStep DEF BalanceInv
  <1>2. CASE UNCHANGED <<ledger, credits>>
    BY <1>1, <1>2 DEF BalanceInv, BalanceIsLedgerSum, Balance, Mine
  <1>3. ASSUME NEW k \in Keys, NEW u \in Users, NEW delta \in Int, Post(k, u, delta), UNCHANGED view
        PROVE  /\ BalanceIsLedgerSum'
               /\ \/ UNCHANGED ledger
                  \/ UNCHANGED view /\ \E e \in Entry : ledger' = Append(ledger, e)
    BY <1>3, PostBalances DEF BalanceInv
  <1> QED BY <1>1, <1>2, <1>3, OnlyPosts DEF BalanceInv

\* An empty ledger explains an absent credits row.
LEMMA BalanceInit == Init => BalanceInv
  <1> SUFFICES ASSUME Init PROVE BalanceInv
    OBVIOUS
  <1>1. LedgerInv /\ ledger = <<>> /\ ledger \in Seq(Entry) /\ Len(ledger) = 0
    BY LedgerInit DEF Init, LedgerInv, LedgerType
  <1>2. \A u \in Users : Totals(ledger, u)[Len(ledger)] = 0
    BY <1>1, TotalsSum DEF Sums
  <1>3. \A u \in Users : Balance(u) = 0 /\ credits[u] = NoCredits /\ Mine(u) = {}
    BY <1>1 DEF Init, Balance, Mine
  <1> QED BY <1>1, <1>2, <1>3 DEF BalanceInv, BalanceIsLedgerSum

\* The balance that credit.Repo.Post caches is the sum of the user's ledger
\* entries, and there is a credits row exactly when there is an entry.
THEOREM BalanceSound == Spec => []BalanceIsLedgerSum
  <1>1. BalanceInv /\ [Next]_vars => BalanceInv'
    BY BalanceStep
  <1>2. BalanceInv => BalanceIsLedgerSum
    BY DEF BalanceInv
  <1> QED BY <1>1, <1>2, BalanceInit, PTL DEF Spec

-----------------------------------------------------------------------------
(* Balance views *)

\* Every post of u up to n is on the page, or sorts below a full page.
ShowsUpTo(u, n) ==
    /\ view[u].entries \subseteq Mine(u)
    /\ \A k \in Mine(u) : k <= n => k \in view[u].entries \/ LeftOut(u, k)

\* The point of the ledger that a view's balance is the sum up to; once the
\* view has its entries they show what came before it.
ViewOK(u) ==
    view[u].at \in {"balance", "done"} =>
        \E n \in 0..Len(ledger) :
            /\ view[u].balance = Totals(ledger, u)[n]
            /\ view[u].at = "done" => ShowsUpTo(u, n)

ViewInv ==
    /\ BalanceInv
    /\ view \in [Users -> [at: {"none", "balance", "done"}, balance: Int, entries: SUBSET Nat]]
    /\ \A u \in Users : ViewOK(u)

\* The places of a user's entries, and the order of the page on them.
LEMMA PageOrder ==
    ASSUME LedgerType, NEW u \in Users
    PROVE  /\ IsFiniteSet(Mine(u))
           /\ \A m, n \in Mine(u) : m = n \/ Newer(m, n) \/ Newer(n, m)
           /\ \A l, m, n \in Mine(u) : Newer(l, m) /\ Newer(m, n) => Newer(l, n)
  <1>1. Len(ledger) \in Nat /\ Mine(u) \subseteq 1..Len(ledger)
    BY DEF LedgerType, Mine
  <1>2. IsFiniteSet(Mine(u))
    <2>1. IsFiniteSet(1..Len(ledger))
      BY <1>1, FS_Interval
    <2> QED BY <1>1, <2>1, FS_Subset
  <1>3. \A n \in Mine(u) : n \in Nat /\ ledger[n].created \in Nat
    <2>1. \A n \in 1..Len(ledger) : ledger[n] \in Entry
      BY DEF LedgerType
    <2> QED BY <1>1, <2>1, BillingAssumption DEF Entry
  <1> QED BY <1>2, <1>3 DEF Newer

\* What the query leaves out is below everything it returns, and a full page
\* is above it.
LEMMA HistoryComplete ==
    ASSUME LedgerInv, NEW u \in Users, NEW k \in Mine(u), k \notin History(u)
    PROVE  /\ Cardinality(NewerOnes(u, k)) >= HistoryLimit
           /\ \A m \in History(u) : Newer(m, k)
  <1>1. \A n \in Mine(u) : IsFiniteSet(NewerOnes(u, n)) /\ Cardinality(NewerOnes(u, n)) \in Nat
    <2> SUFFICES ASSUME NEW n \in Mine(u)
                 PROVE  IsFiniteSet(NewerOnes(u, n)) /\ Cardinality(NewerOnes(u, n)) \in Nat
      OBVIOUS
    <2>1. IsFiniteSet(Mine(u)) /\ NewerOnes(u, n) \subseteq Mine(u)
      BY PageOrder DEF LedgerInv, NewerOnes
    <2>2. IsFiniteSet(NewerOnes(u, n))
      BY <2>1, FS_Subset
    <2> QED BY <2>2, FS_CardinalityType
  <1>2. Cardinality(NewerOnes(u, k)) >= HistoryLimit
    BY <1>1, BillingAssumption DEF History
  <1>3. ASSUME NEW m \in History(u) PROVE Newer(m, k)
    <2>1. m \in Mine(u) /\ Cardinality(NewerOnes(u, m)) < HistoryLimit /\ m # k
      BY <1>3 DEF History
    <2>2. ASSUME Newer(k, m) PROVE FALSE
      <3>1. NewerOnes(u, k) \subseteq NewerOnes(u, m)
        BY <2>1, <2>2, PageOrder DEF LedgerInv, NewerOnes
      <3>2. Cardinality(NewerOnes(u, k)) <= Cardinality(NewerOnes(u, m))
        BY <1>1, <2>1, <3>1, FS_Subset
      <3> QED BY <1>1, <1>2, <2>1, <3>2, BillingAssumption
    <2> QED BY <2>1, <2>2, PageOrder DEF LedgerInv
  <1> QED BY <1>2, <1>3

\* Posts of later transactions take nothing off what is above a left-out one.
LEMMA LeftOutKept ==
    ASSUME LedgerType, LedgerType', UNCHANGED view, NEW e \in Entry, ledger' = Append(ledger, e),
           NEW u \in Users, NEW k \in Mine(u), view[u].entries \subseteq Mine(u), LeftOut(u, k)
    PROVE  LeftOut(u, k)'
  <1>1. /\ DOMAIN ledger = 1..Len(ledger) /\ DOMAIN ledger' = 1..(Len(ledger) + 1)
        /\ Len(ledger) \in Nat /\ \A n \in 1..Len(ledger) : ledger'[n] = ledger[n]
    BY DEF LedgerType
  <1>2. Mine(u) \subseteq 1..Len(ledger) /\ Mine(u) \subseteq Mine(u)'
    BY <1>1 DEF Mine
  <1>3. \A m, n \in Mine(u) : Newer(m, n)' <=> Newer(m, n)
    BY <1>1, <1>2 DEF Newer
  <1>4. NewerOnes(u, k) \subseteq NewerOnes(u, k)'
    BY <1>2, <1>3 DEF NewerOnes
  <1>5. IsFiniteSet(Mine(u)')
    <2>1. Len(ledger) + 1 \in Nat /\ Mine(u)' \subseteq 1..(Len(ledger) + 1)
      BY <1>1 DEF Mine
    <2>2. IsFiniteSet(1..(Len(ledger) + 1))
      BY <2>1, FS_Interval
    <2> QED BY <2>1, <2>2, FS_Subset
  <1>6. IsFiniteSet(NewerOnes(u, k)') /\ IsFiniteSet(NewerOnes(u, k))
    <2>1. NewerOnes(u, k)' \subseteq Mine(u)'
      BY DEF NewerOnes
    <2>2. IsFiniteSet(NewerOnes(u, k)')
      BY <1>5, <2>1, FS_Subset
    <2> QED BY <1>4, <2>2, FS_Subset
  <1>7. Cardinality(NewerOnes(u, k)') >= HistoryLimit
    <2>1. Cardinality(NewerOnes(u, k)) <= Cardinality(NewerOnes(u, k)')
      BY <1>4, <1>6, FS_Subset
    <2>2. Cardinality(NewerOnes(u, k)) \in Nat /\ Cardinality(NewerOnes(u, k)') \in Nat
      BY <1>6, FS_CardinalityType
    <2> QED BY <2>1, <2>2, BillingAssumption DEF LeftOut
  <1> QED BY <1>3, <1>7 DEF LeftOut

\* A view that is not touched while the ledger is not stays as good as it was.
LEMMA SameView ==
    ASSUME NEW v \in Users, ledger' = ledger, view'[v] = view[v], ViewOK(v)
    PROVE  ViewOK(v)'
  <1>1. /\ Mine(v)' = Mine(v)
        /\ \A k : NewerOnes(v, k)' = NewerOnes(v, k)
        /\ \A m, k : Newer(m, k)' <=> Newer(m, k)
    BY DEF Mine, NewerOnes, Newer
  <1>2. \A k : LeftOut(v, k)' <=> LeftOut(v, k)
    BY <1>1 DEF LeftOut
  <1>3. \A n : ShowsUpTo(v, n)' <=> ShowsUpTo(v, n)
    BY <1>1, <1>2 DEF ShowsUpTo
  <1> QED BY <1>3 DEF ViewOK

\* A view reads its balance, and later its entries.
LEMMA ViewReads ==
    ASSUME ViewInv, BalanceInv', NEW u \in Users, ViewBalance(u)
    PROVE  ViewInv'
  <1>t. /\ LedgerInv /\ BalanceIsLedgerSum /\ view[u] \in [at: {"none", "balance", "done"}, balance: Int, entries: SUBSET Nat]
        /\ ledger \in Seq(Entry) /\ credits \in [Users -> Int \cup {NoCredits}] /\ Len(ledger) \in Nat
    BY DEF ViewInv, BalanceInv, LedgerInv, LedgerType
  <1>1. ledger' = ledger
    BY DEF ViewBalance
  <1>2. ASSUME NEW v \in Users, view'[v] = view[v] PROVE ViewOK(v)'
    BY <1>1, <1>2, SameView DEF ViewInv
  <1>3. CASE view' = [view EXCEPT ![u] = [NoView EXCEPT !.at = "balance", !.balance = Balance(u)]]
    <2> DEFINE x == [NoView EXCEPT !.at = "balance", !.balance = Balance(u)]
    <2>1. /\ x \in [at: {"none", "balance", "done"}, balance: Int, entries: SUBSET Nat]
          /\ x.at = "balance" /\ x.balance = Balance(u)
      <3>1. Balance(u) \in Int
        BY <1>t DEF Balance
      <3> QED BY <3>1 DEF NoView
    <2>2. view' = [view EXCEPT ![u] = x]
      BY <1>3
    <2> HIDE DEF x
    <2>3. view'[u] = x /\ \A v \in Users : v # u => view'[v] = view[v]
      BY <2>2 DEF ViewInv
    <2>4. Balance(u) = Totals(ledger, u)[Len(ledger)] /\ Len(ledger) \in 0..Len(ledger)
      BY <1>t DEF BalanceIsLedgerSum
    <2>5. ViewOK(u)'
      BY <1>1, <2>1, <2>3, <2>4 DEF ViewOK
    <2>6. \A v \in Users : ViewOK(v)'
      BY <1>2, <2>3, <2>5
    <2> QED BY <2>1, <2>2, <2>6 DEF ViewInv
  <1>4. CASE view[u].at = "balance" /\ view' = [view EXCEPT ![u].at = "done", ![u].entries = History(u)]
    <2> DEFINE x == [view[u] EXCEPT !.at = "done", !.entries = History(u)]
    <2>1. History(u) \subseteq Nat
      BY <1>t DEF History, Mine
    <2>2. /\ x \in [at: {"none", "balance", "done"}, balance: Int, entries: SUBSET Nat]
          /\ x.balance = view[u].balance /\ x.entries = History(u) /\ x.at = "done"
      BY <1>t, <2>1
    <2>3. view' = [view EXCEPT ![u] = x]
      BY <1>4 DEF ViewInv
    <2> HIDE DEF x
    <2>4. view'[u] = x /\ \A v \in Users : v # u => view'[v] = view[v]
      BY <2>3 DEF ViewInv
    <2>5. PICK n \in 0..Len(ledger) : view[u].balance = Totals(ledger, u)[n]
      BY <1>4 DEF ViewInv, ViewOK
    <2>6. \A k \in Mine(u) : k \in History(u) \/
             /\ Cardinality(NewerOnes(u, k)) >= HistoryLimit
             /\ \A m \in History(u) : Newer(m, k)
      BY <1>t, HistoryComplete
    <2>7. /\ Mine(u)' = Mine(u) /\ History(u) \subseteq Mine(u)
          /\ \A k : NewerOnes(u, k)' = NewerOnes(u, k)
          /\ \A m, k : Newer(m, k)' <=> Newer(m, k)
      BY <1>1 DEF Mine, NewerOnes, Newer, History
    <2>a. ShowsUpTo(u, n)'
      BY <2>2, <2>4, <2>6, <2>7 DEF ShowsUpTo, LeftOut
    <2>8. ViewOK(u)'
      BY <1>1, <2>2, <2>4, <2>5, <2>a DEF ViewOK
    <2>9. \A v \in Users : ViewOK(v)'
      BY <1>2, <2>4, <2>8
    <2> QED BY <2>2, <2>3, <2>9 DEF ViewInv
  <1> QED BY <1>3, <1>4 DEF ViewBalance

\* Posts come after the point a view refers to.
LEMMA ViewKept ==
    ASSUME ViewInv, BalanceInv', UNCHANGED view, NEW e \in Entry, ledger' = Append(ledger, e)
    PROVE  ViewInv'
  <1>t. ledger \in Seq(Entry)
    BY DEF ViewInv, BalanceInv, LedgerInv, LedgerType
  <1> DEFINE N == Len(ledger)
  <1>1. /\ N \in Nat /\ Len(ledger') = N + 1 /\ DOMAIN ledger = 1..N /\ DOMAIN ledger' = 1..(N + 1)
        /\ \A n \in 1..N : ledger'[n] = ledger[n]
    BY <1>t
  <1>2. ASSUME NEW u \in Users, view[u].at \in {"balance", "done"}
        PROVE  \E n \in 0..Len(ledger') :
                  /\ view[u].balance = Totals(ledger', u)[n]
                  /\ view[u].at = "done" => ShowsUpTo(u, n)'
    <2>1. PICK n \in 0..N :
             /\ view[u].balance = Totals(ledger, u)[n]
             /\ view[u].at = "done" => ShowsUpTo(u, n)
      BY <1>2 DEF ViewInv, ViewOK
    <2>2. Totals(ledger', u)[n] = Totals(ledger, u)[n]
      BY <1>t, <2>1, TotalsAppend
    <2>3. n \in 0..Len(ledger')
      BY <1>1, <2>1
    <2>4. Mine(u) \subseteq Mine(u)' /\ \A k \in Mine(u)' : k <= n => k \in Mine(u)
      BY <1>1, <2>1 DEF Mine
    <2>5. LedgerType /\ LedgerType'
      BY DEF ViewInv, BalanceInv, LedgerInv
    <2>6. ASSUME view[u].at = "done" PROVE ShowsUpTo(u, n)'
      <3>1. ShowsUpTo(u, n)
        BY <2>1, <2>6
      <3>2. \A k \in Mine(u) : LeftOut(u, k) => LeftOut(u, k)'
        BY <2>5, <3>1, LeftOutKept DEF ShowsUpTo
      <3> QED BY <2>4, <3>1, <3>2 DEF ShowsUpTo
    <2> QED BY <2>1, <2>2, <2>3, <2>6
  <1>3. \A u \in Users : ViewOK(u)'
    BY <1>2 DEF ViewOK
  <1> QED BY <1>3 DEF ViewInv

\* Whatever is posted between its two queries and after them, and in whatever
\* order overlapping posts are sorted, a balance view leaves out no post that
\* its balance counts unless a full page of newer ones is shown.
THEOREM ViewSound == Spec => []ViewExplainsBalance
  <1>1. Init => ViewInv
    BY BalanceInit DEF Init, ViewInv, ViewOK, NoView
  <1>2. ViewInv /\ [Next]_vars => ViewInv'
    <2> SUFFICES ASSUME ViewInv, [Next]_vars PROVE ViewInv'
      OBVIOUS
    <2>1. /\ BalanceInv'
          /\ \/ UNCHANGED ledger
             \/ UNCHANGED view /\ \E e \in Entry : ledger' = Append(ledger, e)
      BY BalanceStep DEF ViewInv
    <2>2. CASE \E u \in Users : ViewBalance(u)
      BY <2>1, <2>2, ViewReads
    <2>3. CASE UNCHANGED <<ledger, view>>
      BY <2>1, <2>3, SameView DEF ViewInv
    <2>4. CASE UNCHANGED view /\ \E e \in Entry : ledger' = Append(ledger, e)
      BY <2>1, <2>4, ViewKept
    <2>5. UNCHANGED view \/ \E u \in Users : ViewBalance(u)
      BY DEF Next, WorkerStep, ListRunning, TakeBucket, Charge, ChargeDone, SweepUsers, SweepNext,
             SendDestroy, SweepInstances, WorkerDies, Recharge, RechargeAnswer, BalanceForOwner,
             CreateInstance, AgentStops, CommandLost, Transition, Move, Tick, vars
    <2> QED BY <2>1, <2>2, <2>3, <2>4, <2>5
  <1>3. ViewInv => ViewExplainsBalance
    BY DEF ViewInv, ViewOK, ShowsUpTo, ViewExplainsBalance
  <1> QED BY <1>1, <1>2, <1>3, PTL DEF Spec
====
