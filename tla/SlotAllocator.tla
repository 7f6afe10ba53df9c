---------------------------- MODULE SlotAllocator ----------------------------
(***************************************************************************)
(* What GPU slot bookkeeping promises, without tables, handlers or steps.  *)
(* Every slot has one holder at any time.  A free slot can only go to a    *)
(* create handler that holds none; the handler hands it to the one         *)
(* instance it creates, or gives it back; an instance's slot only goes     *)
(* back to free.  Three ways of losing track are part of the promise: a    *)
(* handler that vanishes orphans its slot, a reservation nobody was told   *)
(* of is an orphan from the start (a restart recovers both), and an        *)
(* instance row removed under its slot leaks it.                           *)
(***************************************************************************)
CONSTANTS Slots, Handlers, Instances

VARIABLE holder

Free   == <<"free">>
Orphan == <<"orphan">>
Leaked == <<"leaked">>
By(h)  == <<"handler", h>>
Of(i)  == <<"instance", i>>

Holders == {Free, Orphan, Leaked} \cup {By(h) : h \in Handlers} \cup {Of(i) : i \in Instances}

Init == holder = [s \in Slots |-> Free]

HoldsNone(x) == \A s \in Slots : holder[s] # x

\* Everything x holds passes to y at once.
Pass(x, y) == holder' = [s \in Slots |-> IF holder[s] = x THEN y ELSE holder[s]]

Reserve(h) ==
    /\ HoldsNone(By(h))
    /\ \E s \in Slots : holder[s] = Free /\ holder' = [holder EXCEPT ![s] = By(h)]

\* The slot was reserved, and the handler was told that it was not.
Strand == \E s \in Slots : holder[s] = Free /\ holder' = [holder EXCEPT ![s] = Orphan]

Bind(h, i) == HoldsNone(Of(i)) /\ Pass(By(h), Of(i))

GiveBack(h) == Pass(By(h), Free)

Abandon(h) == Pass(By(h), Orphan)

\* The process dies with every handler in it.
AbandonAll ==
    holder' = [s \in Slots |-> IF \E h \in Handlers : holder[s] = By(h) THEN Orphan ELSE holder[s]]

Recover == Pass(Orphan, Free)

Release(i) == Pass(Of(i), Free)

Forget(i) == Pass(Of(i), Leaked)

Next ==
    \/ \E h \in Handlers : \/ Reserve(h) \/ GiveBack(h) \/ Abandon(h)
                           \/ \E i \in Instances : Bind(h, i)
    \/ \E i \in Instances : Release(i) \/ Forget(i)
    \/ Strand \/ AbandonAll \/ Recover

Spec == Init /\ [][Next]_holder
=============================================================================
