------------------------------- MODULE Billing -------------------------------
(***************************************************************************)
(* Per-minute billing in main-api: the credit ledger and its cached        *)
(* balances (internal/credit), the billing worker (internal/billing), the  *)
(* recharge and balance handlers and the balance gate in front of          *)
(* CreateForOwner (internal/api).                                          *)
(*                                                                         *)
(* Post is one transaction; every other database call of a worker or of a  *)
(* handler is a step of its own, so several workers (two processes overlap *)
(* during a deployment), handlers and agents interleave between them.      *)
(* Time is the minute bucket of the wall clock.                            *)
(***************************************************************************)
EXTENDS InstanceStates, Integers, Sequences, FiniteSets

CONSTANTS
    Users, Instances, Workers,
    Requests,             \* recharge requests; each has an idempotency key
    Owner, Gpus,          \* instances.owner_id and instances.gpu_count
    Rates,                \* gpu_rates_milli_per_minute of rates.yaml
    Amount, Payee,        \* what a recharge request asks for
    HistoryLimit,         \* LIMIT of the ledger view
    NoCredits,            \* no credits row
    MaxMinute, MaxFaults  \* bounds on time, on failing calls and on crashes

\* What LoadRates accepts: a table with an entry, no negative count or rate.
LoadRates(table) ==
    /\ DOMAIN table # {}
    /\ \A g \in DOMAIN table : g >= 0 /\ table[g] >= 0

ASSUME BillingAssumption ==
    /\ LoadRates(Rates)
    /\ DOMAIN Rates \subseteq Int /\ \A g \in DOMAIN Rates : Rates[g] \in Int
    /\ Owner \in [Instances -> Users] /\ Gpus \in [Instances -> Nat]
    /\ Payee \in [Requests -> Users] /\ Amount \in [Requests -> Int \ {0}]
    /\ MaxMinute \in Nat /\ MaxFaults \in Nat /\ HistoryLimit \in Nat \ {0}
    /\ NoCredits \notin Int

VARIABLES
    now,       \* minute bucket of the clock
    row,       \* instances.state; "none" before the row is inserted
    gate,      \* create handler of each instance: "idle" or past the gate
    told,      \* instances whose agent was sent DestroyInstance
    ledger,    \* credit_ledger, in the order of the commits
    credits,   \* credits.balance_milli; NoCredits when there is no row
    worker,    \* place and locals of each billing worker
    recharge,  \* where the client of each recharge request is
    view,      \* balance view being read: its balance and the places of its entries
    ran,       \* history: the minutes in which each instance was running
    faults     \* failing calls and crashes so far

vars == <<now, row, gate, told, ledger, credits, worker, recharge, view, ran, faults>>

-----------------------------------------------------------------------------
(* State *)

BillingKey(i, m) == [kind |-> "billing", of |-> i, minute |-> m]
RechargeKey(r)   == [kind |-> "recharge", of |-> r, minute |-> 0]

Keys == [kind: {"billing"}, of: Instances, minute: 0..MaxMinute]
        \cup [kind: {"recharge"}, of: Requests, minute: {0}]

\* created is created_at, the minute in which the transaction began.
Entry == [key: Keys, user: Users, delta: Int, created: 0..MaxMinute]

Places == {"idle", "bucket", "charge", "sweep", "users", "destroy"}

Idle == [at |-> "idle", minute |-> 0, rows |-> {}, users |-> {}]

TypeOK ==
    /\ now \in 0..MaxMinute
    /\ row \in [Instances -> States \cup {"none"}]
    /\ gate \in [Instances -> {"idle", "passed"}]
    /\ told \subseteq Instances
    /\ ledger \in Seq(Entry)
    /\ credits \in [Users -> Int \cup {NoCredits}]
    /\ worker \in [Workers -> [at: Places, minute: 0..MaxMinute,
                               rows: SUBSET Instances, users: SUBSET Users]]
    /\ recharge \in [Requests -> {"new", "sent", "posted", "answered"}]
    /\ view \in [Users -> [at: {"none", "balance", "done"}, balance: Int, entries: SUBSET Nat]]
    /\ ran \in [Instances -> SUBSET (0..MaxMinute)]
    /\ faults \in 0..MaxFaults

NoView == [at |-> "none", balance |-> 0, entries |-> {}]

Init ==
    /\ now = 0
    /\ row = [i \in Instances |-> "none"]
    /\ gate = [i \in Instances |-> "idle"]
    /\ told = {}
    /\ ledger = <<>>
    /\ credits = [u \in Users |-> NoCredits]
    /\ worker = [w \in Workers |-> Idle]
    /\ recharge = [r \in Requests |-> "new"]
    /\ view = [u \in Users |-> NoView]
    /\ ran = [i \in Instances |-> {}]
    /\ faults = 0

Fault == faults < MaxFaults /\ faults' = faults + 1

-----------------------------------------------------------------------------
(* Queries and the ledger transaction *)

\* credit.Repo.Balance: a user without a credits row has balance 0.
Balance(u) == IF credits[u] = NoCredits THEN 0 ELSE credits[u]

\* Where the ledger has entries of a user.
Mine(u) == {n \in DOMAIN ledger : ledger[n].user = u}

\* order by created_at desc, id desc: a post that began earlier and committed
\* later sorts below the ones it overlapped.
Newer(m, n) ==
    \/ ledger[m].created > ledger[n].created
    \/ ledger[m].created = ledger[n].created /\ m > n

NewerOnes(u, n) == {m \in Mine(u) : Newer(m, n)}

\* ListCreditLedgerEntries: the newest HistoryLimit entries of a user.
History(u) == {n \in Mine(u) : Cardinality(NewerOnes(u, n)) < HistoryLimit}

\* Listing every row that is not finished.
ListBillableRunningInstances_All == {i \in Instances : row[i] \in States /\ ~IsTerminal(row[i])}

ListBillableRunningInstances == {i \in Instances : row[i] = "running"}

\* Only users the ledger has touched have a credits row to be found.
ListUsersWithNegativeBalance ==
    {u \in Users : credits[u] # NoCredits /\ credits[u] <= 0}

\* ListInstances of one user, and the states the sweep picks from them.
InstancesToStop(u) ==
    {i \in Instances : Owner[i] = u /\ row[i] \in {"running", "provisioning"}}

\* Missing entries of the rate table fall back to 0.
MilliPerMinute(g) == IF g \in DOMAIN Rates THEN Rates[g] ELSE 0

Posted(key) == \E n \in DOMAIN ledger : ledger[n].key = key

\* created_at defaults to now(), which is when the transaction began: after the
\* minute of a billing key was read from the clock, and before the commit.
InsertCreditLedgerEntry(key, u, delta) ==
    \E began \in key.minute..now :
        ledger' = Append(ledger, [key |-> key, user |-> u, delta |-> delta, created |-> began])

\* insert ... on conflict do update set balance_milli = balance_milli + delta
UpsertCredits(u, delta) == credits' = [credits EXCEPT ![u] = Balance(u) + delta]

\* Without the unique index on idempotency_key.
Post_NotUnique(key, u, delta) ==
    InsertCreditLedgerEntry(key, u, delta) /\ UpsertCredits(u, delta)

\* Updating the balance before the insert that may be refused, outside one tx.
Post_TwoTx(key, u, delta) ==
    /\ UpsertCredits(u, delta)
    /\ IF Posted(key) THEN UNCHANGED ledger ELSE InsertCreditLedgerEntry(key, u, delta)

\* The transaction of credit.Repo.Post.  A key already in the ledger is
\* ErrDuplicateIdempotency and changes nothing; both writes commit together.
Post(key, u, delta) ==
    \/ Posted(key) /\ UNCHANGED <<ledger, credits>>
    \/ ~Posted(key) /\ InsertCreditLedgerEntry(key, u, delta) /\ UpsertCredits(u, delta)

-----------------------------------------------------------------------------
(* The billing worker: runOnce is charge, then sweepBankrupt. *)

At(w, place) == worker[w].at = place

Goto(w, place, rows, users) ==
    worker' = [worker EXCEPT ![w].at = place, ![w].rows = rows, ![w].users = users]

\* A tick: charge lists the running instances; an error ends the whole pass.
ListRunning(w) ==
    /\ At(w, "idle")
    /\ \/ Goto(w, "bucket", ListBillableRunningInstances, {}) /\ UNCHANGED faults
       \/ Fault /\ UNCHANGED worker
    /\ UNCHANGED <<now, row, gate, told, ledger, credits, recharge, view, ran>>

\* The minute is read from the clock after the list.
TakeBucket(w) ==
    /\ At(w, "bucket")
    /\ worker' = [worker EXCEPT ![w].at = "charge", ![w].minute = now]
    /\ UNCHANGED <<now, row, gate, told, ledger, credits, recharge, view, ran, faults>>

\* One Post per listed instance with a rate.  Errors are only logged: a failed
\* transaction changed nothing, one whose answer was lost did commit.
Charge(w, i) ==
    LET rate == MilliPerMinute(Gpus[i])
        key  == BillingKey(i, worker[w].minute) IN
    /\ At(w, "charge") /\ i \in worker[w].rows
    /\ \/ IF rate = 0 THEN UNCHANGED <<ledger, credits>> ELSE Post(key, Owner[i], -rate)
          /\ UNCHANGED faults
       \/ rate # 0 /\ Fault /\ UNCHANGED <<ledger, credits>>
    /\ Goto(w, "charge", worker[w].rows \ {i}, {})
    /\ UNCHANGED <<now, row, gate, told, recharge, view, ran>>

ChargeDone(w) ==
    /\ At(w, "charge") /\ worker[w].rows = {}
    /\ worker' = [worker EXCEPT ![w] = [Idle EXCEPT !.at = "sweep"]]
    /\ UNCHANGED <<now, row, gate, told, ledger, credits, recharge, view, ran, faults>>

\* Taking the users with a negative balance for those without credit.
SweepUsers_Strict(w) ==
    /\ At(w, "sweep")
    /\ Goto(w, "users", {}, {u \in ListUsersWithNegativeBalance : credits[u] < 0})
    /\ UNCHANGED <<now, row, gate, told, ledger, credits, recharge, view, ran, faults>>

SweepUsers(w) ==
    /\ At(w, "sweep")
    /\ \/ Goto(w, "users", {}, ListUsersWithNegativeBalance) /\ UNCHANGED faults
       \/ Fault /\ Goto(w, "idle", {}, {})
    /\ UNCHANGED <<now, row, gate, told, ledger, credits, recharge, view, ran>>

\* The next user: list the instances to stop, or skip the user on an error.
SweepInstances(w, u) ==
    /\ At(w, "users") /\ u \in worker[w].users
    /\ \/ Goto(w, "destroy", InstancesToStop(u), worker[w].users \ {u}) /\ UNCHANGED faults
       \/ Fault /\ Goto(w, "users", {}, worker[w].users \ {u})
    /\ UNCHANGED <<now, row, gate, told, ledger, credits, recharge, view, ran>>

\* Dispatcher.Send of DestroyInstance; its failure is logged, the next tick
\* finds the instance again.
SendDestroy(w, i) ==
    /\ At(w, "destroy") /\ i \in worker[w].rows
    /\ \/ told' = told \cup {i} /\ UNCHANGED faults
       \/ Fault /\ UNCHANGED told
    /\ Goto(w, "destroy", worker[w].rows \ {i}, worker[w].users)
    /\ UNCHANGED <<now, row, gate, ledger, credits, recharge, view, ran>>

SweepNext(w) ==
    /\ \/ At(w, "destroy") /\ worker[w].rows = {} /\ Goto(w, "users", {}, worker[w].users)
       \/ At(w, "users") /\ worker[w].users = {} /\ Goto(w, "idle", {}, {})
    /\ UNCHANGED <<now, row, gate, told, ledger, credits, recharge, view, ran, faults>>

\* The process dies, or its context is cancelled, anywhere in a pass.
WorkerDies(w) ==
    /\ ~At(w, "idle") /\ Fault
    /\ worker' = [worker EXCEPT ![w] = Idle]
    /\ UNCHANGED <<now, row, gate, told, ledger, credits, recharge, view, ran>>

-----------------------------------------------------------------------------
(* Recharge and the balance views *)

\* Recharge: the Post of a request, sent for the first time or once more.
\* The answer is lost with the connection, or an error hides a commit.
Recharge(r) ==
    /\ recharge[r] \in {"new", "sent"}
    /\ \/ Post(RechargeKey(r), Payee[r], Amount[r]) /\ UNCHANGED faults
          /\ recharge' = [recharge EXCEPT ![r] = IF Posted(RechargeKey(r)) THEN "answered"
                                                 ELSE "posted"]
       \/ Post(RechargeKey(r), Payee[r], Amount[r]) /\ Fault
          /\ recharge' = [recharge EXCEPT ![r] = "sent"]
       \/ UNCHANGED <<ledger, credits>> /\ Fault
          /\ recharge' = [recharge EXCEPT ![r] = "sent"]
    /\ UNCHANGED <<now, row, gate, told, worker, view, ran>>

\* The handler then reads the balance it answers with; that may fail as well,
\* and the client, which saw an error, may send the request again.
RechargeAnswer(r) ==
    /\ recharge[r] = "posted"
    /\ \/ recharge' = [recharge EXCEPT ![r] = "answered"] /\ UNCHANGED faults
       \/ recharge' = [recharge EXCEPT ![r] = "sent"] /\ Fault
    /\ UNCHANGED <<now, row, gate, told, ledger, credits, worker, view, ran>>

\* Reading the ledger before the balance.
ViewBalance_LedgerFirst(u) ==
    /\ \/ /\ view[u].at = "none"
          /\ view' = [view EXCEPT ![u] = [NoView EXCEPT !.at = "balance", !.entries = History(u)]]
       \/ /\ view[u].at = "balance"
          /\ view' = [view EXCEPT ![u].at = "done", ![u].balance = Balance(u)]
    /\ UNCHANGED <<now, row, gate, told, ledger, credits, worker, recharge, ran, faults>>

\* GET .../credits of the admin and of the user: balance, then history.
ViewBalance(u) ==
    /\ \/ /\ view[u].at = "none"
          /\ view' = [view EXCEPT ![u] = [NoView EXCEPT !.at = "balance", !.balance = Balance(u)]]
       \/ /\ view[u].at = "balance"
          /\ view' = [view EXCEPT ![u].at = "done", ![u].entries = History(u)]
    /\ UNCHANGED <<now, row, gate, told, ledger, credits, worker, recharge, ran, faults>>

-----------------------------------------------------------------------------
(* Instances and time *)

\* CreateForOwner: the gate reads the balance once and lets the request by.
BalanceForOwner(i) ==
    /\ row[i] = "none" /\ gate[i] = "idle" /\ Balance(Owner[i]) > 0
    /\ gate' = [gate EXCEPT ![i] = "passed"]
    /\ UNCHANGED <<now, row, told, ledger, credits, worker, recharge, view, ran, faults>>

\* runCreate: the row is inserted later.
CreateInstance(i) ==
    /\ gate[i] = "passed" /\ row[i] = "none"
    /\ row' = [row EXCEPT ![i] = "pending"]
    /\ gate' = [gate EXCEPT ![i] = "idle"]
    /\ UNCHANGED <<now, told, ledger, credits, worker, recharge, view, ran, faults>>

\* The instance runs in every minute it is running in at some time.
Move(i, to) ==
    /\ row' = [row EXCEPT ![i] = to]
    /\ ran' = [ran EXCEPT ![i] = IF to = "running" THEN @ \cup {now} ELSE @]
    /\ UNCHANGED <<now, gate, ledger, credits, worker, recharge, view, faults>>

\* A status report or a delete handler moves the row (Repo.Transition).
Transition(i, to) ==
    /\ row[i] \in States /\ to # row[i] /\ CanTransition(row[i], to)
    /\ Move(i, to) /\ UNCHANGED told

\* The agent carries out DestroyInstance and reports the next state.
AgentStops(i) ==
    /\ i \in told /\ row[i] \in {"provisioning", "running", "stopping"}
    /\ Move(i, IF row[i] = "stopping" THEN "stopped" ELSE "stopping")
    /\ told' = IF row[i] = "stopping" THEN told \ {i} ELSE told

\* The command, or the agent's report about it, is lost with its session.
CommandLost(i) ==
    /\ i \in told /\ row[i] \in {"provisioning", "running"} /\ Fault
    /\ told' = told \ {i}
    /\ UNCHANGED <<now, row, gate, ledger, credits, worker, recharge, view, ran>>

Tick ==
    /\ now < MaxMinute
    /\ now' = now + 1
    /\ ran' = [i \in Instances |-> IF row[i] = "running" THEN ran[i] \cup {now + 1} ELSE ran[i]]
    /\ UNCHANGED <<row, gate, told, ledger, credits, worker, recharge, view, faults>>

-----------------------------------------------------------------------------
(* Specification *)

WorkerStep(w) ==
    \/ ListRunning(w) \/ TakeBucket(w) \/ ChargeDone(w) \/ SweepUsers(w) \/ SweepNext(w)
    \/ \E i \in Instances : Charge(w, i) \/ SendDestroy(w, i)
    \/ \E u \in Users : SweepInstances(w, u)

Next ==
    \/ \E w \in Workers : WorkerStep(w) \/ WorkerDies(w)
    \/ \E r \in Requests : Recharge(r) \/ RechargeAnswer(r)
    \/ \E u \in Users : ViewBalance(u)
    \/ \E i \in Instances : \/ BalanceForOwner(i) \/ CreateInstance(i)
                            \/ AgentStops(i) \/ CommandLost(i)
                            \/ \E to \in States : Transition(i, to)
    \/ Tick

Spec == Init /\ [][Next]_vars

\* The ticker ticks and the worker's calls return; an agent that holds a
\* destroy command carries it out.
Fairness ==
    /\ \A w \in Workers : WF_vars(WorkerStep(w))
    /\ \A i \in Instances : WF_vars(AgentStops(i))

FairSpec == Spec /\ Fairness

-----------------------------------------------------------------------------
(* Properties *)

\* "The unique idempotency_key prevents double-billing across tick overlap,
\* restarts, or skewed runs" (charge) and "repeated requests with the same key
\* are 409" (Recharge): whatever workers overlap and whatever clients repeat
\* after a lost answer, no key has two ledger entries.
PostedOnce ==
    \A m, n \in DOMAIN ledger : ledger[m].key = ledger[n].key => m = n

\* The running totals of a user: the sum of the entries up to each place.
Totals(entries, u) ==
    LET sum[n \in 0..Len(entries)] ==
            IF n = 0 THEN 0
            ELSE sum[n - 1] + (IF entries[n].user = u THEN entries[n].delta ELSE 0)
    IN  sum

\* The cached balance of credit.Repo.Post never drifts from the ledger: it is
\* the sum of the user's entries, and there is a credits row exactly when
\* there is an entry.
BalanceIsLedgerSum ==
    \A u \in Users :
        /\ Balance(u) = Totals(ledger, u)[Len(ledger)]
        /\ (credits[u] = NoCredits) <=> (Mine(u) = {})

ChargesOf(i) == {n \in DOMAIN ledger : ledger[n].key.kind = "billing" /\ ledger[n].key.of = i}

\* charge reads the minute after the list, so a pass that listed an instance
\* before it stopped may charge it for a minute it did not run in.  That is
\* the only way: an instance that still runs has paid for minutes it ran in
\* and no others, and none pays for a minute before it first ran.
ChargesFollowUse ==
    \A i \in Instances : \A n \in ChargesOf(i) :
        /\ row[i] = "running" => ledger[n].key.minute \in ran[i]
        /\ \E m \in ran[i] : m <= ledger[n].key.minute

\* An entry is left out of a page only because the page is full of newer ones.
LeftOut(u, k) ==
    /\ Cardinality(NewerOnes(u, k)) >= HistoryLimit
    /\ \A m \in view[u].entries : Newer(m, k)

\* A balance view reads balance and ledger in two queries with posts in
\* between, and sorts by when posts began rather than by when they committed.
\* The shown entries need not add up to the shown balance; what the order of
\* the two queries does give is that no post the balance counts is missing:
\* the balance is what had been committed at some moment, and each of those
\* posts is shown, or sorts below a full page.
ViewExplainsBalance ==
    \A u \in Users : view[u].at = "done" =>
        \E n \in 0..Len(ledger) :
            /\ view[u].balance = Totals(ledger, u)[n]
            /\ \A k \in Mine(u) : k <= n => k \in view[u].entries \/ LeftOut(u, k)

\* "This loop catches the drain-during-run case" (sweepBankrupt): an instance
\* that runs, or comes up, while its owner has no credit is stopped, or the
\* owner pays, although commands get lost, calls fail and workers die.
BankruptIsStopped ==
    \A i \in Instances :
        (row[i] \in {"provisioning", "running"} /\ Balance(Owner[i]) <= 0)
            ~> (row[i] \notin {"provisioning", "running"} \/ Balance(Owner[i]) > 0)
=============================================================================
