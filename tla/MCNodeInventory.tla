-------------------------- MODULE MCNodeInventory --------------------------
(* A host with two GPUs, each with an audio function in its IOMMU group, and *)
(* four profile files, one of which claims a GPU twice and one no GPU.       *)
EXTENDS NodeInventory

CONSTANTS j1, j2, s1, s2, s3, twoByOne, oneByTwo, doubled, empty

FourDevices == 1..4
TwoGpus == {1, 3}
Pairs == [d \in FourDevices |-> IF d < 3 THEN 7 ELSE 8]

Row(gpus, domain) == [size |-> Len(gpus), gpus |-> gpus, domain |-> domain]
Layouts == <<[name |-> "1x2", slots |-> <<Row(<<0, 1>>, "a")>>],
             [name |-> "2x1", slots |-> <<Row(<<0>>, ""), Row(<<1>>, "")>>],
             [name |-> "bad", slots |-> <<Row(<<0>>, ""), Row(<<0>>, "")>>],
             [name |-> "0x0", slots |-> <<>>]>>

FourFiles ==
    (twoByOne :> [active |-> "2x1", layouts |-> Layouts])
    @@ (oneByTwo :> [active |-> "1x2", layouts |-> Layouts])
    @@ (doubled :> [active |-> "bad", layouts |-> Layouts])
    @@ (empty :> [active |-> "0x0", layouts |-> Layouts])

\* What can still matter of a session: its list of GPUs until it is stored, its
\* profile until the sync is over.  Of an instance: its list until the dispatch,
\* its devices as long as it runs, the syncs that may still take its slot.
View == <<hostVars, dbVars,
          [s \in Sessions |->
              CASE sess[s].at = "upsert" -> <<"upsert", sess[s].file, sess[s].top>>
                [] sess[s].at \in {"served", "ended"} -> <<sess[s].at>>
                [] OTHER -> <<sess[s].at, sess[s].file, sess[s].snap>>],
          [j \in Creators |->
              CASE job[j].at = "done" -> <<>>
                [] job[j].at = "running" -> <<job[j].devs, job[j].gpus>>
                [] OTHER -> job[j]],
          [j \in Creators |->
              {s \in past[j] : Has(j) /\ sess[s].at \in {"delete", "insert"}}]>>

Symmetry == Permutations(Sessions) \cup Permutations(Creators)
=============================================================================
