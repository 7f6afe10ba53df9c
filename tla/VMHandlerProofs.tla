--------------------------- MODULE VMHandlerProofs ---------------------------
(* Proofs about VMHandler, for any number of destroy messages. *)
EXTENDS VMHandler, TLAPS

-----------------------------------------------------------------------------
(* Type correctness *)

\* A command leaves an agent's state typed and its reports as they were.
LEMMA TellIsAgent ==
    ASSUME NEW a \in Agent, NEW x \in Commands
    PROVE  /\ Tell(a, x) \in Agent
           /\ Tell(a, x).told = a.told \cup {x}
           /\ Tell(a, x).made = a.made /\ Tell(a, x).gone = a.gone
  BY DEF Agent, Tell

\* What a report (mapInstanceState's states) makes of an agent's state.
LEMMA ReportEffect ==
    ASSUME NEW a \in Agent, NEW to \in Reports
    PROVE  LET b == AfterReport(a, to) IN
           /\ b \in Agent /\ b.told = a.told
           /\ to = "provisioning" => b.made = to /\ b.gone = IF a.gone = "stopping" THEN "nothing" ELSE a.gone
           /\ to = "running" => b.made = to /\ b.gone = a.gone
           /\ to = "stopping" => b.gone = to /\ b.made = IF a.made = "provisioning" THEN "running" ELSE a.made
           /\ to = "failed" /\ a.gone # "stopping" => b.made = to /\ b.gone = a.gone
           /\ to = "stopped" \/ (to = "failed" /\ a.gone = "stopping") => b.gone = to /\ b.made = a.made
  <1> DEFINE b == AfterReport(a, to)
  <1>0. CASE to = "provisioning"
    <2>1. b = [a EXCEPT !.made = to, !.gone = IF @ = "stopping" THEN "nothing" ELSE @]
      BY <1>0 DEF AfterReport
    <2> QED BY <1>0, <2>1 DEF Agent
  <1>1. CASE to = "running"
    <2>1. b = [a EXCEPT !.made = to]
      BY <1>1 DEF AfterReport
    <2> QED BY <1>1, <2>1 DEF Agent
  <1>2. CASE to = "stopping"
    <2>1. b = [a EXCEPT !.gone = to, !.made = IF @ = "provisioning" THEN "running" ELSE @]
      BY <1>2 DEF AfterReport
    <2> QED BY <1>2, <2>1 DEF Agent
  <1>3. CASE to = "failed" /\ a.gone # "stopping"
    <2>1. b = [a EXCEPT !.made = to]
      BY <1>3 DEF AfterReport
    <2> QED BY <1>3, <2>1 DEF Agent
  <1>4. CASE to = "stopped" \/ (to = "failed" /\ a.gone = "stopping")
    <2>1. b = [a EXCEPT !.gone = to]
      BY <1>4 DEF AfterReport
    <2> QED BY <1>4, <2>1 DEF Agent
  <1> QED BY <1>0, <1>1, <1>2, <1>3, <1>4 DEF Reports, States

\* A report keeps the agent's state typed, whether its session is up or not.
LEMMA SendType ==
    ASSUME said \in Agent, NEW o, NEW to \in Reports, Send(o, to)
    PROVE  said' \in Agent
  BY ReportEffect DEF Send

\* The steps of the create goroutine keep the types.
LEMMA TypeCreateStep ==
    ASSUME TypeOK, CreateStep, UNCHANGED faults
    PROVE  TypeOK'
  <1>o. Create \in Ops /\ "failed" \in Reports /\ "running" \in Reports
    BY DEF Ops, Reports, States
  <1> USE DEF TypeOK, Goto, release, Labels, Owning, Ended
  <1>1. CASE prepareFiles
    <2>1. said' \in Agent
      BY <1>1, <1>o, SendType DEF prepareFiles, CreateFails
    <2> QED BY <1>1, <1>o, <2>1 DEF prepareFiles, CreateFails, cleanupFiles
  <1>2. CASE CheckContext
    BY <1>2, <1>o DEF CheckContext
  <1>3. CASE CreateDomain
    BY <1>3, <1>o DEF CreateDomain
  <1>8. CASE AbortCreate
    <2>1. said' \in Agent
      BY <1>8, <1>o, SendType DEF AbortCreate, CreateFails
    <2> QED BY <1>8, <1>o, <2>1 DEF AbortCreate, CreateFails, cleanupFiles, ResetDevices
  <1>4. CASE ReleaseOnce
    BY <1>4, <1>o DEF ReleaseOnce
  <1>5. CASE SendRunning
    <2>1. said' \in Agent
      BY <1>5, <1>o, SendType DEF SendRunning
    <2> QED BY <1>5, <1>o, <2>1 DEF SendRunning
  <1>6. CASE detectIP
    BY <1>6, <1>o DEF detectIP
  <1>7. CASE PublishIP
    <2>1. said' \in Agent
      BY <1>7, <1>o, SendType DEF PublishIP
    <2> QED BY <1>7, <1>o, <2>1 DEF PublishIP
  <1> QED BY <1>1, <1>2, <1>3, <1>4, <1>5, <1>6, <1>7, <1>8 DEF CreateStep

\* So do the steps of a destroy goroutine.
LEMMA TypeDestroyStep ==
    ASSUME TypeOK, NEW d \in Destroys, DestroyStep(d), UNCHANGED faults
    PROVE  TypeOK'
  <1>o. d \in Ops /\ "failed" \in Reports /\ "stopped" \in Reports
    BY DEF Ops, Reports, States
  <1> USE DEF TypeOK, Goto, release, Labels, Owning, Ended
  <1>1. CASE Wake(d)
    BY <1>1, <1>o DEF Wake
  <1>2. CASE DomainPassthroughPCI(d)
    BY <1>2, <1>o DEF DomainPassthroughPCI
  <1>3. CASE DestroyDomain(d)
    <2>1. said' \in Agent
      BY <1>3, <1>o, SendType DEF DestroyDomain
    <2> QED BY <1>3, <1>o, <2>1 DEF DestroyDomain
  <1>4. CASE CleanUp(d)
    <2>1. said' \in Agent
      BY <1>4, <1>o, SendType DEF CleanUp
    <2> QED BY <1>4, <1>o, <2>1 DEF CleanUp, cleanupFiles, ResetDevices
  <1> QED BY <1>1, <1>2, <1>3, <1>4 DEF DestroyStep

\* Starting an operation keeps the types.
LEMMA TypeStart ==
    ASSUME TypeOK, NEW o \in Ops, OnControl(o) \/ acquireOp(o), UNCHANGED faults
    PROVE  TypeOK'
  <1> USE DEF TypeOK, Goto, Labels, Owning, Ended
  <1>1. CASE OnControl(o)
    <2>1. said' \in Agent
      BY <1>1, TellIsAgent DEF OnControl, Commands
    <2> QED BY <1>1, <2>1 DEF OnControl
  <1>2. CASE acquireOp(o)
    <2>1. said' \in Agent
      BY <1>2, SendType, "provisioning" \in Reports, "stopping" \in Reports
      DEF acquireOp, Reports, States
    <2>2. awaited' \in [Destroys -> Ops \cup {NoOp}] /\ inFlight' \in Ops \cup {NoOp}
      BY <1>2 DEF acquireOp, Ops
    <2> QED BY <1>2, <2>1, <2>2 DEF acquireOp, Ops
  <1> QED BY <1>1, <1>2

\* Every variable keeps its type.
LEMMA TypeStep == TypeOK /\ [Next]_vars => TypeOK'
  <1> SUFFICES ASSUME TypeOK, [Next]_vars PROVE TypeOK'
    OBVIOUS
  <1>1. CASE UNCHANGED vars
    BY <1>1 DEF vars, TypeOK
  <1>2. CASE SessionEnds
    BY <1>2 DEF SessionEnds, TypeOK
  <1>3. CASE Restart
    BY <1>3 DEF Restart, TypeOK, Labels, Ended
  <1>4. ASSUME NEW o \in Ops, OnControl(o) \/ OpStep(o)
        PROVE  TypeOK'
    <2>1. UNCHANGED faults
      BY <1>4 DEF OnControl, OpStep
    <2> QED BY <1>4, <2>1, TypeStart, TypeCreateStep, TypeDestroyStep DEF OpStep
  <1> QED BY <1>1, <1>2, <1>3, <1>4 DEF Next

\* Types hold in every reachable state.
LEMMA TypeCorrect == Spec => []TypeOK
  <1>1. Init => TypeOK
    <2>1. NewAgent \in Agent
      BY DEF Agent, NewAgent
    <2> QED BY <2>1, OpsAssumption DEF Init, TypeOK, Labels
  <1> QED BY <1>1, TypeStep, PTL DEF Spec

-----------------------------------------------------------------------------
(* Exclusion *)

\* Every step keeps the operations exclusive: one enters only an empty slot,
\* and only its owner empties it.
LEMMA ExclusionStep ==
    ASSUME TypeOK, OpsExclusive, [Next]_vars
    PROVE  OpsExclusive'
  <1> USE DEF OpsExclusive, TypeOK, Goto, Owning
  <1>n. NoOp \notin Ops /\ Create \in Ops /\ Create \notin Destroys /\ Destroys \subseteq Ops
    BY OpsAssumption DEF Ops
  <1>1. CASE UNCHANGED vars
    BY <1>1 DEF vars
  <1>2. CASE SessionEnds
    BY <1>2 DEF SessionEnds
  <1>3. CASE Restart
    BY <1>3 DEF Restart, Started, Ended
  <1>4. ASSUME NEW o \in Ops, OnControl(o)
        PROVE  OpsExclusive'
    BY <1>4 DEF OnControl
  <1>5. ASSUME NEW o \in Ops, acquireOp(o)
        PROVE  OpsExclusive'
    BY <1>5, <1>n DEF acquireOp
  <1>6. CASE CreateStep
    <2>1. CASE prepareFiles \/ AbortCreate
      BY <1>n, <2>1 DEF prepareFiles, AbortCreate, CreateFails, release
    <2>2. CASE CheckContext \/ CreateDomain
      BY <1>n, <2>2 DEF CheckContext, CreateDomain
    <2>3. CASE ReleaseOnce \/ SendRunning \/ detectIP \/ PublishIP
      BY <1>n, <2>3 DEF ReleaseOnce, release, SendRunning, detectIP, PublishIP
    <2> QED BY <1>6, <2>1, <2>2, <2>3 DEF CreateStep
  <1>7. ASSUME NEW d \in Destroys, DestroyStep(d)
        PROVE  OpsExclusive'
    BY <1>7, <1>n DEF DestroyStep, Wake, DomainPassthroughPCI, DestroyDomain, CleanUp, release
  <1> QED BY <1>1, <1>2, <1>3, <1>4, <1>5, <1>6, <1>7 DEF Next, OpStep

\* Whatever fails, whichever sessions end and however often the agent dies, at
\* most one operation of an instance is between acquireOp and release.
THEOREM OperationsExclusive == Spec => []OpsExclusive
  <1>1. Init => OpsExclusive
    BY DEF Init, OpsExclusive, Owning
  <1>2. TypeOK /\ OpsExclusive /\ [Next]_vars => OpsExclusive'
    BY ExclusionStep
  <1> QED BY <1>1, <1>2, TypeCorrect, PTL DEF Spec

-----------------------------------------------------------------------------
(* What the operations leave behind *)

\* What may go wrong stays the same.
LEMMA FaultsStay ==
    ASSUME [Next]_vars
    PROVE  faults' = faults
  BY DEF Next, OnControl, OpStep, SessionEnds, Restart, vars

\* A destroy that got to its cleanup has no domain left.
GoneInv == \A d \in Destroys : pc[d] = "cleanup" => domain = "absent"

\* Disk and seed exist for a domain.
Matched == files <=> domain # "absent"

\* Files and domain by how far the operations got; before the create acquires,
\* nothing exists.
FilesInv ==
    /\ inFlight = NoOp => Matched
    /\ pc[Create] \in {"none", "acquire", "prepare"} => domain = "absent" /\ ~files
    /\ pc[Create] \in {"check", "define", "abort"} => domain = "absent" /\ files
    /\ pc[Create] = "release" => domain # "absent" /\ files
    /\ \A d \in Destroys : pc[d] \in {"passthrough", "undo"} => Matched

\* GPUs are used by a domain, and a destroy knows the devices of a domain that
\* used some.
UsedInv ==
    /\ inFlight = NoOp => (dirty => domain # "absent")
    /\ pc[Create] \in {"none", "acquire", "prepare", "check", "define"} => ~dirty
    /\ pc[Create] = "release" => domain # "absent"
    /\ \A d \in Destroys :
          /\ pc[d] \in {"passthrough", "undo"} => (dirty => domain # "absent")
          /\ pc[d] \in {"undo", "cleanup"} /\ dirty => d \in pcis

\* A destroy reaches its cleanup only past a domain that is gone, and nobody
\* else defines one meanwhile, as only the owner of the slot does.
LEMMA GoneStep ==
    ASSUME Without({"lookup"}), TypeOK, OpsExclusive, GoneInv, [Next]_vars
    PROVE  GoneInv'
  <1>n. NoOp \notin Ops /\ Create \in Ops /\ Create \notin Destroys /\ Destroys \subseteq Ops
    BY OpsAssumption DEF Ops
  <1> USE DEF TypeOK, OpsExclusive, Owning, GoneInv, Goto
  <1>1. CASE UNCHANGED vars
    BY <1>1 DEF vars
  <1>2. CASE SessionEnds
    BY <1>2 DEF SessionEnds
  <1>3. CASE Restart
    BY <1>3, <1>n DEF Restart, Started, Ended
  <1>4. ASSUME NEW o \in Ops, OnControl(o) \/ acquireOp(o)
        PROVE  GoneInv'
    BY <1>4, <1>n DEF OnControl, acquireOp
  <1>5. CASE CreateStep
    BY <1>5, <1>n DEF CreateStep, prepareFiles, CheckContext, CreateDomain, AbortCreate, CreateFails,
                      ReleaseOnce, SendRunning, detectIP, PublishIP
  <1>6. ASSUME NEW d \in Destroys, DestroyStep(d)
        PROVE  GoneInv'
    <2>1. CASE Wake(d) \/ DomainPassthroughPCI(d) \/ CleanUp(d)
      BY <1>n, <2>1 DEF Wake, DomainPassthroughPCI, CleanUp
    <2>2. CASE DestroyDomain(d)
      BY <1>n, <2>2 DEF DestroyDomain, Without
    <2> QED BY <1>6, <2>1, <2>2 DEF DestroyStep
  <1> QED BY <1>1, <1>2, <1>3, <1>4, <1>5, <1>6 DEF Next, OpStep

\* Every step keeps files and domain together.
LEMMA FilesStep ==
    ASSUME Without({"rollback", "lookup", "remove", "restart"}), TypeOK, OpsExclusive, GoneInv, FilesInv,
           [Next]_vars
    PROVE  FilesInv'
  <1>n. NoOp \notin Ops /\ Create \in Ops /\ Create \notin Destroys /\ Destroys \subseteq Ops
    BY OpsAssumption DEF Ops
  <1> USE DEF TypeOK, OpsExclusive, Owning, GoneInv, FilesInv, Matched, Goto
  <1>1. CASE UNCHANGED vars
    BY <1>1 DEF vars
  <1>2. CASE SessionEnds
    BY <1>2 DEF SessionEnds
  <1>3. CASE Restart
    BY <1>3 DEF Restart, Without
  <1>4. ASSUME NEW o \in Ops, OnControl(o)
        PROVE  FilesInv'
    BY <1>4, <1>n DEF OnControl
  <1>5. ASSUME NEW o \in Ops, acquireOp(o)
        PROVE  FilesInv'
    BY <1>5, <1>n DEF acquireOp
  <1>6. CASE prepareFiles \/ CheckContext \/ AbortCreate
    BY <1>6, <1>n DEF prepareFiles, CheckContext, AbortCreate, CreateFails, cleanupFiles, release, Without
  <1>7. CASE CreateDomain
    BY <1>7, <1>n DEF CreateDomain, Without
  <1>8. CASE ReleaseOnce
    BY <1>8, <1>n DEF ReleaseOnce, release
  <1>9. CASE SendRunning \/ detectIP \/ PublishIP
    BY <1>9, <1>n DEF SendRunning, detectIP, PublishIP
  <1>10. ASSUME NEW d \in Destroys, Wake(d) \/ DomainPassthroughPCI(d)
         PROVE  FilesInv'
    BY <1>10, <1>n DEF Wake, DomainPassthroughPCI
  <1>11. ASSUME NEW d \in Destroys, DestroyDomain(d)
         PROVE  FilesInv'
    BY <1>11, <1>n DEF DestroyDomain, release, Without
  <1>12. ASSUME NEW d \in Destroys, CleanUp(d)
         PROVE  FilesInv'
    BY <1>12, <1>n DEF CleanUp, cleanupFiles, release, Without
  <1> QED BY <1>1, <1>2, <1>3, <1>4, <1>5, <1>6, <1>7, <1>8, <1>9, <1>10, <1>11, <1>12
          DEF Next, OpStep, CreateStep, DestroyStep

\* Every step keeps track of the GPUs in use.
LEMMA UsedStep ==
    ASSUME Without({"lookup", "xml", "reset", "restart"}), TypeOK, OpsExclusive, UsedInv,
           [Next]_vars
    PROVE  UsedInv'
  <1>n. NoOp \notin Ops /\ Create \in Ops /\ Create \notin Destroys /\ Destroys \subseteq Ops
    BY OpsAssumption DEF Ops
  <1> USE DEF TypeOK, OpsExclusive, Owning, UsedInv, Goto
  <1>1. CASE UNCHANGED vars
    BY <1>1 DEF vars
  <1>2. CASE SessionEnds
    BY <1>2 DEF SessionEnds
  <1>3. CASE Restart
    BY <1>3 DEF Restart, Without
  <1>4. ASSUME NEW o \in Ops, OnControl(o)
        PROVE  UsedInv'
    BY <1>4, <1>n DEF OnControl
  <1>5. ASSUME NEW o \in Ops, acquireOp(o)
        PROVE  UsedInv'
    BY <1>5, <1>n DEF acquireOp
  <1>6. CASE prepareFiles
    BY <1>6, <1>n DEF prepareFiles, CreateFails, release
  <1>7. CASE CheckContext \/ CreateDomain
    <2>1. inFlight = Create /\ inFlight' = Create /\ pcis' = pcis
      BY <1>7, <1>n DEF CheckContext, CreateDomain
    <2>2. \A d \in Destroys : pc'[d] = pc[d] /\ pc[d] \notin {"passthrough", "undo", "cleanup"}
      BY <1>7, <1>n, <2>1 DEF CheckContext, CreateDomain
    <2>3. \/ pc'[Create] = "abort"
          \/ pc'[Create] = "define" /\ ~dirty'
          \/ pc'[Create] = "release" /\ domain' = "running"
      BY <1>7, <1>n DEF CheckContext, CreateDomain
    <2> QED BY <1>n, <2>1, <2>2, <2>3
  <1>8. CASE AbortCreate
    <2>1. dirty' = FALSE
      BY <1>8 DEF AbortCreate, ResetDevices, Without
    <2> QED BY <1>8, <2>1, <1>n DEF AbortCreate, CreateFails, release
  <1>9. CASE ReleaseOnce
    BY <1>9, <1>n DEF ReleaseOnce, release
  <1>10. CASE SendRunning \/ detectIP \/ PublishIP
    BY <1>10, <1>n DEF SendRunning, detectIP, PublishIP
  <1>11. ASSUME NEW d \in Destroys, Wake(d)
         PROVE  UsedInv'
    BY <1>11, <1>n DEF Wake
  <1>12. ASSUME NEW d \in Destroys, DomainPassthroughPCI(d)
         PROVE  UsedInv'
    BY <1>12, <1>n DEF DomainPassthroughPCI, Without
  <1>13. ASSUME NEW d \in Destroys, DestroyDomain(d)
         PROVE  UsedInv'
    BY <1>13, <1>n DEF DestroyDomain, release, Without
  <1>14. ASSUME NEW d \in Destroys, CleanUp(d)
         PROVE  UsedInv'
    BY <1>14, <1>n DEF CleanUp, release, ResetDevices, Without
  <1> QED BY <1>1, <1>2, <1>3, <1>4, <1>5, <1>6, <1>7, <1>8, <1>9, <1>10, <1>11, <1>12, <1>13, <1>14
          DEF Next, OpStep, CreateStep, DestroyStep

\* Nothing exists at first.
LEMMA NothingAtFirst == Init => GoneInv /\ FilesInv /\ UsedInv
  <1> SUFFICES ASSUME Init PROVE GoneInv /\ FilesInv /\ UsedInv
    OBVIOUS
  <1>1. Create \in Ops /\ Destroys \subseteq Ops
    BY DEF Ops
  <1> QED BY <1>1 DEF Init, GoneInv, FilesInv, UsedInv, Matched

\* As long as a failed lookup is not taken for a missing domain.
LEMMA GoneHolds == Spec => [](TypeOK /\ OpsExclusive /\ (Without({"lookup"}) => GoneInv))
  <1>1. TypeOK /\ OpsExclusive /\ (Without({"lookup"}) => GoneInv) /\ [Next]_vars
            => (Without({"lookup"}) => GoneInv)'
    BY GoneStep, FaultsStay DEF Without
  <1> QED BY <1>1, NothingAtFirst, TypeCorrect, OperationsExclusive, PTL DEF Spec

\* Unless the agent dies, a lookup fails for another reason than absence, a
\* rollback fails or a file cannot be removed, disk and seed exist exactly for a
\* domain that exists whenever the slot is free.
THEOREM FilesSound == Spec => []FilesFollowDomain
  <1> DEFINE Spared == Without({"rollback", "lookup", "remove", "restart"})
             I == Spared => FilesInv
  <1>1. Spared => Without({"lookup"})
    BY DEF Without
  <1>2. TypeOK /\ OpsExclusive /\ (Without({"lookup"}) => GoneInv) /\ I /\ [Next]_vars => I'
    BY <1>1, FilesStep, FaultsStay DEF Without
  <1>3. I => FilesFollowDomain
    BY DEF FilesInv, Matched, FilesFollowDomain
  <1>4. Init => I
    BY NothingAtFirst
  <1> HIDE DEF I
  <1> QED BY <1>2, <1>3, <1>4, GoneHolds, PTL DEF Spec

\* An operation reaches an end only by its own step.
LEMMA EndsItself ==
    ASSUME TypeOK, NEW o \in Ops, [Next]_vars,
           NEW label \in {"stopped", "failed"}, pc[o] # label, pc'[o] = label
    PROVE  IF o = Create THEN CreateStep ELSE DestroyStep(o)
  <1> USE DEF TypeOK, Goto
  <1>1. CASE UNCHANGED vars
    BY <1>1 DEF vars
  <1>2. CASE SessionEnds
    BY <1>2 DEF SessionEnds
  <1>3. CASE Restart
    BY <1>3 DEF Restart
  <1>4. ASSUME NEW x \in Ops, OnControl(x) \/ acquireOp(x)
        PROVE  FALSE
    BY <1>4 DEF OnControl, acquireOp
  <1>5. CASE CreateStep
    BY <1>5, OpsAssumption DEF CreateStep, prepareFiles, CheckContext, CreateDomain, AbortCreate,
          CreateFails, ReleaseOnce, SendRunning, detectIP, PublishIP
  <1>6. ASSUME NEW d \in Destroys, DestroyStep(d)
        PROVE  o = d
    BY <1>6 DEF DestroyStep, Wake, DomainPassthroughPCI, DestroyDomain, CleanUp
  <1> QED BY <1>1, <1>2, <1>3, <1>4, <1>5, <1>6, OpsAssumption DEF Next, OpStep, Ops

\* STOPPED, on which main-api frees the GPU slot, is reported only when neither
\* domain nor files are left: after crashes of the agent, failed rollbacks and
\* any other fault but the one that hides a domain and the one that keeps a file.
THEOREM StoppedSound == Spec => StoppedIsGone
  <1>1. TypeOK /\ (Without({"lookup"}) => GoneInv) /\ [Next]_vars =>
           \A d \in Destroys : Without({"lookup", "remove"}) /\ pc[d] # "stopped" /\ pc'[d] = "stopped" =>
               domain' = "absent" /\ ~files'
    <2> SUFFICES ASSUME TypeOK, Without({"lookup"}) => GoneInv, [Next]_vars, NEW d \in Destroys,
                        Without({"lookup", "remove"}), pc[d] # "stopped", pc'[d] = "stopped"
                 PROVE  domain' = "absent" /\ ~files'
      OBVIOUS
    <2>1. d \in Ops /\ d # Create
      BY OpsAssumption DEF Ops
    <2>2. DestroyStep(d)
      BY <2>1, EndsItself
    <2>3. CleanUp(d)
      BY <2>1, <2>2 DEF TypeOK, DestroyStep, Wake, DomainPassthroughPCI, DestroyDomain, Goto
    <2> QED BY <2>3 DEF CleanUp, cleanupFiles, GoneInv, Without
  <1> QED BY <1>1, GoneHolds, PTL DEF Spec, StoppedIsGone

\* The next tenant's GPUs were reset before the slot could be freed, by a destroy
\* as by a create that failed after libvirt touched them, unless the device list
\* is lost with the agent, a lookup or the XML, or the reset fails.
THEOREM ResetSound == Spec => CleanForNextTenant
  <1> DEFINE Spared == Without({"lookup", "xml", "reset", "restart"})
             I == Spared => UsedInv
  <1>1. TypeOK /\ I /\ [Next]_vars =>
           \A o \in Ops : /\ Spared
                          /\ \/ pc[o] # "stopped" /\ pc'[o] = "stopped"
                             \/ o = Create /\ pc[o] # "failed" /\ pc'[o] = "failed"
               => ~dirty'
    <2> SUFFICES ASSUME TypeOK, UsedInv, [Next]_vars, NEW o \in Ops, Spared,
                        \/ pc[o] # "stopped" /\ pc'[o] = "stopped"
                        \/ o = Create /\ pc[o] # "failed" /\ pc'[o] = "failed"
                 PROVE  ~dirty'
      OBVIOUS
    <2>1. CASE o = Create
      <3>1. CreateStep
        BY <2>1, EndsItself
      <3>2. prepareFiles \/ AbortCreate
        BY <2>1, <3>1 DEF TypeOK, CreateStep, prepareFiles, CheckContext, CreateDomain, AbortCreate,
              ReleaseOnce, SendRunning, detectIP, PublishIP, Goto
      <3> QED BY <3>2 DEF prepareFiles, AbortCreate, ResetDevices, Without, UsedInv
    <2>2. CASE o # Create
      <3>1. DestroyStep(o) /\ o \in Destroys
        BY <2>2, EndsItself DEF Ops
      <3>2. CleanUp(o)
        BY <2>2, <3>1 DEF TypeOK, DestroyStep, Wake, DomainPassthroughPCI, DestroyDomain, Goto
      <3> QED BY <3>1, <3>2 DEF CleanUp, ResetDevices, Without, UsedInv
    <2> QED BY <2>1, <2>2
  <1>2. TypeOK /\ OpsExclusive /\ I /\ [Next]_vars => I'
    BY UsedStep, FaultsStay DEF Without
  <1>3. Init => I
    BY NothingAtFirst
  <1> HIDE DEF I
  <1> QED BY <1>1, <1>2, <1>3, TypeCorrect, OperationsExclusive, PTL DEF Spec, CleanForNextTenant

-----------------------------------------------------------------------------
(* A preempted create *)

\* The slot names an operation that is at work (release and a restart clear it).
SlotHeld == \A o \in Ops : inFlight = o => pc[o] \in Owning

\* After a destroy cancelled the create, some destroy is still to undo it or
\* failed to, unless the create is over and nothing of it is left.
Preempting == {"wait", "acquire", "failed"} \cup Owning

PreemptInv ==
    Create \in cancelled =>
        /\ pc[Create] \notin {"none", "acquire"}
        /\ \/ \E d \in Destroys : pc[d] \in Preempting
           \/ pc[Create] \notin Owning /\ domain = "absent" /\ ~files

\* Only an operation that goes to work takes the slot, and it leaves work with it.
LEMMA SlotHeldStep ==
    ASSUME TypeOK, OpsExclusive, SlotHeld, [Next]_vars
    PROVE  SlotHeld'
  <1> USE DEF OpsExclusive, SlotHeld, TypeOK, Goto, Owning
  <1>n. NoOp \notin Ops /\ Create \in Ops /\ Create \notin Destroys /\ Destroys \subseteq Ops
    BY OpsAssumption DEF Ops
  <1>1. CASE UNCHANGED vars
    BY <1>1 DEF vars
  <1>2. CASE SessionEnds
    BY <1>2 DEF SessionEnds
  <1>3. CASE Restart
    BY <1>3, <1>n DEF Restart
  <1>4. ASSUME NEW o \in Ops, OnControl(o)
        PROVE  SlotHeld'
    BY <1>4 DEF OnControl
  <1>5. ASSUME NEW o \in Ops, acquireOp(o)
        PROVE  SlotHeld'
    BY <1>5, <1>n DEF acquireOp
  <1>6. CASE CreateStep
    <2>1. CASE prepareFiles \/ AbortCreate
      BY <1>n, <2>1 DEF prepareFiles, AbortCreate, CreateFails, release
    <2>2. CASE CheckContext \/ CreateDomain
      BY <1>n, <2>2 DEF CheckContext, CreateDomain
    <2>3. CASE ReleaseOnce \/ SendRunning \/ detectIP \/ PublishIP
      BY <1>n, <2>3 DEF ReleaseOnce, release, SendRunning, detectIP, PublishIP
    <2> QED BY <1>6, <2>1, <2>2, <2>3 DEF CreateStep
  <1>7. ASSUME NEW d \in Destroys, DestroyStep(d)
        PROVE  SlotHeld'
    BY <1>7, <1>n DEF DestroyStep, Wake, DomainPassthroughPCI, DestroyDomain, CleanUp, release
  <1> QED BY <1>1, <1>2, <1>3, <1>4, <1>5, <1>6, <1>7 DEF Next, OpStep

\* Every step keeps a preempted create in the hands of a destroy until it is
\* undone: the one that drops out on acquiring finds another at work.
LEMMA PreemptStep ==
    ASSUME Without({"lookup", "remove", "restart"}), TypeOK, OpsExclusive, SlotHeld, GoneInv,
           PreemptInv, [Next]_vars
    PROVE  PreemptInv'
  <1>n. NoOp \notin Ops /\ Create \in Ops /\ Create \notin Destroys /\ Destroys \subseteq Ops
    BY OpsAssumption DEF Ops
  <1> USE DEF TypeOK, OpsExclusive, SlotHeld, Owning, PreemptInv, Preempting, Goto
  <1>1. CASE UNCHANGED vars
    BY <1>1 DEF vars
  <1>2. CASE SessionEnds
    BY <1>2 DEF SessionEnds
  <1>3. CASE Restart
    BY <1>3 DEF Restart, Without
  <1>4. ASSUME NEW o \in Ops, OnControl(o)
        PROVE  PreemptInv'
    BY <1>4, <1>n DEF OnControl
  <1>5. ASSUME NEW o \in Ops, acquireOp(o)
        PROVE  PreemptInv'
    <2>1. CASE inFlight = NoOp
      BY <1>5, <1>n, <2>1 DEF acquireOp, Ops
    <2>2. CASE o # Create /\ inFlight = Create
      BY <1>5, <1>n, <2>2 DEF acquireOp, Ops
    <2>3. CASE inFlight # NoOp /\ ~(o # Create /\ inFlight = Create)
      BY <1>5, <1>n, <2>3 DEF acquireOp, Ops
    <2> QED BY <2>1, <2>2, <2>3
  <1>6. CASE CreateStep
    <2>1. \A d \in Destroys : pc'[d] = pc[d]
      BY <1>6, <1>n DEF CreateStep, prepareFiles, CheckContext, CreateDomain, AbortCreate, CreateFails,
                        ReleaseOnce, SendRunning, detectIP, PublishIP
    <2>2. /\ cancelled' = cancelled /\ pc'[Create] \notin {"none", "acquire"}
          /\ pc[Create] \in Owning \/ (domain' = domain /\ files' = files /\ pc'[Create] \notin Owning)
      <3>1. CASE prepareFiles \/ AbortCreate
        BY <1>n, <3>1 DEF prepareFiles, AbortCreate, CreateFails
      <3>2. CASE CheckContext \/ CreateDomain
        BY <1>n, <3>2 DEF CheckContext, CreateDomain
      <3>3. CASE ReleaseOnce \/ SendRunning \/ detectIP \/ PublishIP
        BY <1>n, <3>3 DEF ReleaseOnce, SendRunning, detectIP, PublishIP
      <3> QED BY <1>6, <3>1, <3>2, <3>3 DEF CreateStep
    <2> QED BY <2>1, <2>2
  <1>7. ASSUME NEW d \in Destroys, DestroyStep(d)
        PROVE  PreemptInv'
    <2>1. CASE Wake(d)
      BY <1>n, <2>1 DEF Wake
    <2>2. CASE DomainPassthroughPCI(d)
      BY <1>n, <2>2 DEF DomainPassthroughPCI
    <2>3. CASE DestroyDomain(d)
      BY <1>n, <2>3 DEF DestroyDomain
    <2>4. CASE CleanUp(d)
      BY <1>n, <2>4 DEF CleanUp, cleanupFiles, GoneInv, Without
    <2> QED BY <1>7, <2>1, <2>2, <2>3, <2>4 DEF DestroyStep
  <1> QED BY <1>1, <1>2, <1>3, <1>4, <1>5, <1>6, <1>7 DEF Next, OpStep

\* Unless the agent dies, libvirt hides a domain or a file cannot be removed, a
\* destroy that cancelled a create in flight leaves nothing of it once all
\* operations returned, although CreateDomain may run to its end after the
\* cancellation.
THEOREM PreemptionSound == Spec => []PreemptedIsGone
  <1> DEFINE Spared == Without({"lookup", "remove", "restart"})
             I == Spared => PreemptInv
  <1>n. NoOp \notin Ops /\ Create \in Ops /\ Create \notin Destroys /\ Destroys \subseteq Ops
    BY OpsAssumption DEF Ops
  <1>1. Init => SlotHeld /\ I
    BY <1>n DEF Init, SlotHeld, PreemptInv
  <1>2. TypeOK /\ OpsExclusive /\ SlotHeld /\ [Next]_vars => SlotHeld'
    BY SlotHeldStep
  <1>3. TypeOK /\ OpsExclusive /\ SlotHeld /\ (Without({"lookup"}) => GoneInv) /\ I /\ [Next]_vars => I'
    <2>1. Spared => Without({"lookup"})
      BY DEF Without
    <2> QED BY <2>1, PreemptStep, FaultsStay DEF Without
  <1>4. I => PreemptedIsGone
    BY <1>n DEF PreemptInv, PreemptedIsGone, Preempting, Owning, Quiet, Ended
  <1> HIDE DEF I
  <1> QED BY <1>1, <1>2, <1>3, <1>4, GoneHolds, PTL DEF Spec

-----------------------------------------------------------------------------
(* Waiting for a preempted create *)

\* A destroy waits for a create that is still at work or has closed its done
\* channel; once it is awake that channel stays closed.
WaitInv ==
    /\ Create \in released => pc[Create] \notin {"none", "acquire"} \cup Owning
    /\ \A d \in Destroys :
          /\ pc[d] = "wait" => awaited[d] = Create /\ (Create \in released \/ pc[Create] \in Owning)
          /\ awaited[d] # NoOp /\ pc[d] \notin {"wait", "dropped"} => Create \in released

\* Nobody waits for a channel that nobody will close, and the slot is never
\* left with an operation that returned: with libvirt calls that return, this is
\* why OpsReturn holds.
NobodyHangs ==
    /\ \A o \in Ops : inFlight = o => pc[o] \in Owning
    /\ \A d \in Destroys : pc[d] = "wait" => awaited[d] \in released \/ pc[awaited[d]] \in Owning

\* The loop of acquireOp goes round at most twice: a destroy that waited does not
\* wait again.
WaitsOnce ==
    [][\A d \in Destroys : pc[d] = "acquire" /\ pc'[d] = "wait" => awaited[d] = NoOp]_vars

\* Every step keeps it, whatever the faults: a release closes the channel, and a
\* restart ends whoever waits.
LEMMA WaitStep ==
    ASSUME TypeOK, OpsExclusive, SlotHeld, WaitInv, [Next]_vars
    PROVE  WaitInv'
  <1>n. NoOp \notin Ops /\ Create \in Ops /\ Create \notin Destroys /\ Destroys \subseteq Ops
    BY OpsAssumption DEF Ops
  <1> USE DEF TypeOK, SlotHeld, Owning, WaitInv, Goto
  <1>1. CASE UNCHANGED vars
    BY <1>1 DEF vars
  <1>2. CASE SessionEnds
    BY <1>2 DEF SessionEnds
  <1>3. CASE Restart
    BY <1>3, <1>n DEF Restart, Started, Ended
  <1>4. ASSUME NEW o \in Ops, OnControl(o)
        PROVE  WaitInv'
    BY <1>4, <1>n DEF OnControl
  <1>5. ASSUME NEW o \in Ops, acquireOp(o)
        PROVE  WaitInv'
    <2>1. CASE inFlight = NoOp
      BY <1>5, <1>n, <2>1 DEF acquireOp
    <2>2. CASE o # Create /\ inFlight = Create
      BY <1>5, <1>n, <2>2 DEF acquireOp, Ops
    <2>3. CASE inFlight # NoOp /\ ~(o # Create /\ inFlight = Create)
      BY <1>5, <1>n, <2>3 DEF acquireOp
    <2> QED BY <2>1, <2>2, <2>3
  <1>6. CASE CreateStep
    <2>1. \/ \E there \in BOOLEAN : CreateFails(there)
          \/ ReleaseOnce
          \/ /\ UNCHANGED released /\ \A d \in Destroys : pc'[d] = pc[d]
             /\ pc[Create] \in Owning => pc'[Create] \in Owning
             /\ pc'[Create] \notin {"none", "acquire"} /\ (pc'[Create] \in Owning => pc[Create] \in Owning)
      <3>1. prepareFiles \/ AbortCreate =>
               \/ CreateFails(TRUE) \/ CreateFails(files)
               \/ prepareFiles /\ pc' = [pc EXCEPT ![Create] = "check"] /\ UNCHANGED released
        BY DEF prepareFiles, AbortCreate
      <3>2. CreateFails(TRUE) \/ CreateFails(files) => \E there \in BOOLEAN : CreateFails(there)
        <4>1. TRUE \in BOOLEAN /\ files \in BOOLEAN
          OBVIOUS
        <4> HIDE DEF Goto
        <4> QED BY <4>1, Zenon
      <3>3. CASE prepareFiles /\ pc' = [pc EXCEPT ![Create] = "check"] /\ UNCHANGED released
        BY <1>n, <3>3 DEF prepareFiles
      <3>4. CASE CheckContext \/ CreateDomain
        <4>1. \E l \in {"abort", "define", "release"} : pc' = [pc EXCEPT ![Create] = l]
          BY <3>4 DEF CheckContext, CreateDomain
        <4>2. UNCHANGED released /\ pc[Create] \in {"check", "define"}
          BY <3>4 DEF CheckContext, CreateDomain
        <4> QED BY <1>n, <4>1, <4>2
      <3>5. CASE SendRunning \/ detectIP \/ PublishIP
        BY <1>n, <3>5 DEF SendRunning, detectIP, PublishIP
      <3> QED BY <1>6, <3>1, <3>2, <3>3, <3>4, <3>5 DEF CreateStep
    <2>2. awaited' = awaited
      BY <1>6 DEF CreateStep, prepareFiles, CheckContext, CreateDomain, AbortCreate,
                  ReleaseOnce, SendRunning, detectIP, PublishIP
    <2>3. ASSUME NEW there \in BOOLEAN, CreateFails(there)
          PROVE  WaitInv'
      BY <1>n, <2>2, <2>3 DEF CreateFails, release
    <2>4. CASE ReleaseOnce
      BY <1>n, <2>2, <2>4 DEF ReleaseOnce, release
    <2> QED BY <1>n, <2>1, <2>2, <2>3, <2>4
  <1>7. ASSUME NEW d \in Destroys, DestroyStep(d)
        PROVE  WaitInv'
    BY <1>7, <1>n DEF DestroyStep, Wake, DomainPassthroughPCI, DestroyDomain, CleanUp, release
  <1> QED BY <1>1, <1>2, <1>3, <1>4, <1>5, <1>6, <1>7 DEF Next, OpStep

\* The invariant holds in every reachable state.
LEMMA WaitHolds == Spec => [](TypeOK /\ OpsExclusive /\ SlotHeld /\ WaitInv)
  <1>1. Init => WaitInv /\ SlotHeld
    BY OpsAssumption DEF Init, WaitInv, SlotHeld, Ops
  <1>2. TypeOK /\ OpsExclusive /\ SlotHeld /\ [Next]_vars => SlotHeld'
    BY SlotHeldStep
  <1>3. TypeOK /\ OpsExclusive /\ SlotHeld /\ WaitInv /\ [Next]_vars => WaitInv'
    BY WaitStep
  <1> QED BY <1>1, <1>2, <1>3, TypeCorrect, OperationsExclusive, PTL DEF Spec

\* acquireOp and release never leave an operation waiting for one that is gone,
\* whatever faults and restarts happen.
THEOREM NobodyHangsSound == Spec => []NobodyHangs
  <1>1. SlotHeld /\ WaitInv => NobodyHangs
    BY DEF SlotHeld, WaitInv, NobodyHangs
  <1> QED BY <1>1, WaitHolds, PTL

\* A destroy meets a create in flight at most once, whatever happens meanwhile.
THEOREM WaitsOnceSound == Spec => WaitsOnce
  <1>1. TypeOK /\ SlotHeld /\ WaitInv /\ [Next]_vars =>
           \A d \in Destroys : pc[d] = "acquire" /\ pc'[d] = "wait" => awaited[d] = NoOp
    <2> SUFFICES ASSUME TypeOK, SlotHeld, WaitInv, [Next]_vars, NEW d \in Destroys,
                        pc[d] = "acquire", pc'[d] = "wait", awaited[d] # NoOp
                 PROVE  FALSE
      OBVIOUS
    <2>n. Create \in Ops /\ Create \notin Destroys /\ Destroys \subseteq Ops
      BY OpsAssumption DEF Ops
    <2>1. inFlight # Create
      BY <2>n DEF WaitInv, SlotHeld
    <2> USE <2>n DEF TypeOK, Goto
    <2>2. ~(UNCHANGED vars \/ SessionEnds \/ Restart)
      BY DEF vars, SessionEnds, Restart
    <2>3. ~CreateStep
      BY DEF CreateStep, prepareFiles, CheckContext, CreateDomain, AbortCreate, CreateFails, ReleaseOnce,
             SendRunning, detectIP, PublishIP
    <2>4. \A o \in Ops : ~OnControl(o) /\ ~acquireOp(o)
      BY <2>1 DEF OnControl, acquireOp
    <2>5. \A e \in Destroys : ~DestroyStep(e)
      BY DEF DestroyStep, Wake, DomainPassthroughPCI, DestroyDomain, CleanUp
    <2> QED BY <2>2, <2>3, <2>4, <2>5 DEF Next, OpStep
  <1> QED BY <1>1, WaitHolds, PTL DEF Spec, WaitsOnce

-----------------------------------------------------------------------------
(* The report contract *)

\* What main-api was told and has heard, by how far the operations that can
\* still report are.
ContractInv ==
    /\ pc[Create] # "none" => "create" \in said.told
    /\ \A d \in Destroys : pc[d] # "none" => "destroy" \in said.told
    /\ pc[Create] \in {"none", "acquire"} => said.made = "nothing"
    /\ Create \notin deaf /\ pc[Create] \in {"prepare", "check", "define", "abort"} =>
           said.made = "provisioning" /\ said.gone # "stopping"
    /\ Create \notin deaf /\ pc[Create] \in {"release", "running", "lease", "address"} =>
           said.made \in {"provisioning", "running"}
    /\ \A d \in Destroys \ deaf : pc[d] \in {"passthrough", "undo", "cleanup"} => said.gone = "stopping"

\* The contract's step.
ContractStep ==
    \/ said' = said
    \/ \E cmd \in Commands : said' = Tell(said, cmd)
    \/ \E to \in Reports : MayReport(said, to) /\ said' = AfterReport(said, to)

\* An operation that owns the slot is the only one that does.
LEMMA OthersIdle ==
    ASSUME TypeOK, OpsExclusive, NEW o \in Ops, inFlight \in {o, NoOp}
    PROVE  \A x \in Ops : x # o => pc[x] \notin Owning
  BY OpsAssumption DEF OpsExclusive, Ops

\* Taking the slot: PROVISIONING only once, STOPPING when no create is at work.
LEMMA ContractAcquire ==
    ASSUME TypeOK, OpsExclusive, ContractInv, NEW o \in Ops, acquireOp(o)
    PROVE  ContractStep /\ ContractInv'
  <1>n. NoOp \notin Ops /\ Create \in Ops /\ Create \notin Destroys /\ Destroys \subseteq Ops
    BY OpsAssumption DEF Ops
  <1>a. said \in Agent /\ pc[o] = "acquire"
    BY DEF TypeOK, acquireOp
  <1>r. "provisioning" \in Reports /\ "stopping" \in Reports
    BY DEF Reports, States
  <1> USE DEF TypeOK, Goto
  <1>1. CASE inFlight = NoOp /\ o = Create
    <2>1. \A x \in Destroys : pc[x] \notin Owning
      BY <1>1, <1>n, OthersIdle
    <2>2. Send(o, "provisioning") /\ pc' = [pc EXCEPT ![Create] = "prepare"] /\ deaf' = deaf
      BY <1>1 DEF acquireOp
    <2>3. "create" \in said.told /\ said.made = "nothing"
      BY <1>a, <1>1 DEF ContractInv
    <2>4. CASE Create \in deaf
      BY <1>1, <1>n, <2>1, <2>2, <2>4, <2>3 DEF Send, ContractStep, ContractInv, Owning
    <2>5. CASE Create \notin deaf
      <3>1. said' = AfterReport(said, "provisioning") /\ MayReport(said, "provisioning")
        BY <1>1, <2>2, <2>3, <2>5 DEF Send, MayReport
      <3>2. said'.told = said.told /\ said'.made = "provisioning" /\ said'.gone # "stopping"
        BY <1>a, <1>r, <3>1, ReportEffect DEF Agent
      <3> QED BY <1>r, <1>n, <2>1, <2>2, <2>3, <3>1, <3>2 DEF ContractStep, ContractInv, Owning
    <2> QED BY <2>4, <2>5
  <1>2. CASE inFlight = NoOp /\ o \in Destroys
    <2>1. \A x \in Ops : x # o => pc[x] \notin Owning
      BY <1>2, <1>n, OthersIdle
    <2>2. Send(o, "stopping") /\ pc' = [pc EXCEPT ![o] = "passthrough"] /\ deaf' = deaf
      BY <1>2, <1>n DEF acquireOp
    <2>3. "destroy" \in said.told /\ pc[Create] \notin Owning
      BY <1>a, <1>2, <1>n, <2>1 DEF ContractInv
    <2>4. CASE o \in deaf
      BY <1>2, <1>n, <2>1, <2>2, <2>4, <2>3 DEF Send, ContractStep, ContractInv, Owning
    <2>5. CASE o \notin deaf
      <3>1. said' = AfterReport(said, "stopping") /\ MayReport(said, "stopping")
        BY <1>2, <2>2, <2>3, <2>5 DEF Send, MayReport
      <3>2. /\ said'.told = said.told /\ said'.gone = "stopping"
            /\ said'.made = IF said.made = "provisioning" THEN "running" ELSE said.made
        BY <1>a, <1>r, <3>1, ReportEffect
      <3>3. ContractStep
        BY <1>r, <3>1 DEF ContractStep
      <3>4. pc'[Create] = pc[Create] /\ pc'[o] = "passthrough"
            /\ \A x \in Destroys : x # o => pc'[x] = pc[x] /\ pc[x] \notin Owning
        BY <1>2, <1>n, <2>1, <2>2
      <3> QED BY <2>2, <2>3, <3>2, <3>3, <3>4 DEF ContractInv, Owning
    <2> QED BY <2>4, <2>5
  <1>3. CASE inFlight # NoOp
    <2>1. said' = said /\ deaf' = deaf /\ \E l \in {"wait", "dropped"} : pc' = [pc EXCEPT ![o] = l]
      BY <1>3 DEF acquireOp
    <2> QED BY <1>a, <1>n, <2>1 DEF ContractStep, ContractInv
  <1> QED BY <1>1, <1>2, <1>3 DEF Ops

\* The create's later reports: FAILED while it owns the slot, RUNNING after.
LEMMA ContractCreate ==
    ASSUME TypeOK, OpsExclusive, ContractInv, CreateStep
    PROVE  ContractStep /\ ContractInv'
  <1>n. NoOp \notin Ops /\ Create \in Ops /\ Create \notin Destroys /\ Destroys \subseteq Ops
    BY OpsAssumption DEF Ops
  <1>a. said \in Agent /\ deaf' = deaf
    BY DEF TypeOK, CreateStep, prepareFiles, CheckContext, CreateDomain, AbortCreate, ReleaseOnce,
           SendRunning, detectIP, PublishIP
  <1>r. "failed" \in Reports /\ "running" \in Reports
    BY DEF Reports, States
  <1> USE DEF TypeOK, Goto
  <1>1. CASE \E there \in BOOLEAN : CreateFails(there)
    <2>0. pc[Create] \in {"prepare", "abort"} /\ pc' = [pc EXCEPT ![Create] = "failed"]
      <3>1. pc' = [pc EXCEPT ![Create] = "failed"] /\ pc'[Create] = "failed"
        BY <1>1, <1>n DEF CreateFails
      <3>2. ~(CheckContext \/ CreateDomain)
        BY <1>n, <3>1 DEF CheckContext, CreateDomain
      <3>3. ~(ReleaseOnce \/ SendRunning \/ detectIP \/ PublishIP)
        BY <1>n, <3>1 DEF ReleaseOnce, SendRunning, detectIP, PublishIP
      <3> QED BY <3>1, <3>2, <3>3 DEF CreateStep, prepareFiles, AbortCreate
    <2>1. \A x \in Destroys : pc[x] \notin Owning
      BY <1>n, <2>0 DEF OpsExclusive, Owning
    <2>2. CASE Create \in deaf
      <3>1. said' = said
        BY <1>1, <2>2 DEF CreateFails, Send
      <3> QED BY <1>a, <1>n, <2>0, <2>1, <2>2, <3>1 DEF ContractStep, ContractInv, Owning
    <2>3. CASE Create \notin deaf
      <3>1. said.made = "provisioning" /\ said.gone # "stopping"
        BY <2>0, <2>3 DEF ContractInv
      <3>2. said' = AfterReport(said, "failed") /\ MayReport(said, "failed")
        BY <1>1, <2>3, <3>1 DEF CreateFails, Send, MayReport
      <3>3. said'.told = said.told /\ said'.gone = said.gone
        BY <1>a, <1>r, <3>1, <3>2, ReportEffect
      <3> QED BY <1>a, <1>n, <1>r, <2>0, <2>1, <3>2, <3>3 DEF ContractStep, ContractInv, Owning
    <2> QED BY <2>2, <2>3
  <1>2. CASE SendRunning \/ PublishIP
    <2>0. /\ pc[Create] \in {"running", "address"} /\ Send(Create, "running")
          /\ \E l \in {"lease", "done"} : pc' = [pc EXCEPT ![Create] = l]
      BY <1>2 DEF SendRunning, PublishIP
    <2>2. CASE Create \in deaf
      <3>1. said' = said
        BY <2>0, <2>2 DEF Send
      <3> QED BY <1>a, <1>n, <2>0, <2>2, <3>1 DEF ContractStep, ContractInv
    <2>3. CASE Create \notin deaf
      <3>1. said.made \in {"provisioning", "running"}
        BY <2>0, <2>3 DEF ContractInv
      <3>2. said' = AfterReport(said, "running") /\ MayReport(said, "running")
        BY <2>0, <2>3, <3>1 DEF Send, MayReport
      <3>3. said'.told = said.told /\ said'.gone = said.gone /\ said'.made = "running"
        BY <1>a, <1>r, <3>2, ReportEffect
      <3> QED BY <1>a, <1>n, <1>r, <2>0, <3>2, <3>3 DEF ContractStep, ContractInv
    <2> QED BY <2>2, <2>3
  <1>3. CASE ~(\E there \in BOOLEAN : CreateFails(there)) /\ ~(SendRunning \/ PublishIP)
    <2>1. /\ said' = said
          /\ \/ pc[Create] = "prepare" /\ pc' = [pc EXCEPT ![Create] = "check"]
             \/ pc[Create] = "check" /\ pc' = [pc EXCEPT ![Create] = "define"]
             \/ pc[Create] \in {"check", "define"} /\ pc' = [pc EXCEPT ![Create] = "abort"]
             \/ pc[Create] = "define" /\ pc' = [pc EXCEPT ![Create] = "release"]
             \/ pc[Create] = "release" /\ pc' = [pc EXCEPT ![Create] = "running"]
             \/ pc[Create] = "lease" /\ pc' = [pc EXCEPT ![Create] = "address"]
             \/ pc[Create] = "lease" /\ pc' = [pc EXCEPT ![Create] = "done"]
      BY <1>3 DEF CreateStep, prepareFiles, CheckContext, CreateDomain, AbortCreate, ReleaseOnce, detectIP
    <2> QED BY <1>a, <1>n, <2>1 DEF ContractStep, ContractInv
  <1> QED BY <1>1, <1>2, <1>3

\* A destroy's last report follows its own STOPPING.
LEMMA ContractDestroy ==
    ASSUME TypeOK, OpsExclusive, ContractInv, NEW d \in Destroys, DestroyStep(d)
    PROVE  ContractStep /\ ContractInv'
  <1>n. NoOp \notin Ops /\ Create \in Ops /\ Create \notin Destroys /\ Destroys \subseteq Ops
    BY OpsAssumption DEF Ops
  <1>a. said \in Agent /\ deaf' = deaf
    BY DEF TypeOK, DestroyStep, Wake, DomainPassthroughPCI, DestroyDomain, CleanUp
  <1>r. "failed" \in Reports /\ "stopped" \in Reports
    BY DEF Reports, States
  <1> USE DEF TypeOK, Goto
  <1>1. \/ /\ said' = said
           /\ \/ pc[d] = "wait" /\ pc' = [pc EXCEPT ![d] = "acquire"]
              \/ pc[d] = "passthrough" /\ pc' = [pc EXCEPT ![d] = "undo"]
              \/ pc[d] = "undo" /\ pc' = [pc EXCEPT ![d] = "cleanup"]
        \/ \E to \in {"stopped", "failed"} :
              /\ pc[d] \in {"undo", "cleanup"} /\ pc' = [pc EXCEPT ![d] = to]
              /\ Send(d, to)
    BY DEF DestroyStep, Wake, DomainPassthroughPCI, DestroyDomain, CleanUp
  <1>2. CASE /\ said' = said
             /\ \/ pc[d] = "wait" /\ pc' = [pc EXCEPT ![d] = "acquire"]
                \/ pc[d] = "passthrough" /\ pc' = [pc EXCEPT ![d] = "undo"]
                \/ pc[d] = "undo" /\ pc' = [pc EXCEPT ![d] = "cleanup"]
    BY <1>a, <1>n, <1>2 DEF ContractStep, ContractInv
  <1>3. ASSUME NEW to \in {"stopped", "failed"}, pc[d] \in {"undo", "cleanup"},
               pc' = [pc EXCEPT ![d] = to], Send(d, to)
        PROVE  ContractStep /\ ContractInv'
    <2>1. \A x \in Ops : x # d => pc[x] \notin Owning
      BY <1>3, <1>n DEF OpsExclusive, Owning
    <2>2. CASE d \in deaf
      <3>1. said' = said
        BY <1>3, <2>2 DEF Send
      <3> QED BY <1>a, <1>n, <1>3, <2>1, <2>2, <3>1 DEF ContractStep, ContractInv, Owning
    <2>3. CASE d \notin deaf
      <3>1. said.gone = "stopping"
        BY <1>3, <2>3 DEF ContractInv
      <3>2. said' = AfterReport(said, to) /\ MayReport(said, to)
        BY <1>3, <2>3, <3>1 DEF Send, MayReport
      <3>3. said'.told = said.told /\ said'.gone = to /\ said'.made = said.made
        BY <1>a, <1>r, <3>1, <3>2, ReportEffect
      <3> QED BY <1>a, <1>n, <1>r, <1>3, <2>1, <3>2, <3>3 DEF ContractStep, ContractInv, Owning
    <2> QED BY <2>2, <2>3
  <1> QED BY <1>1, <1>2, <1>3

\* Every step is one of the contract and keeps what it rests on.
LEMMA ContractKept ==
    ASSUME TypeOK, OpsExclusive, ContractInv, [Next]_vars
    PROVE  ContractStep /\ ContractInv'
  <1>n. NoOp \notin Ops /\ Create \in Ops /\ Create \notin Destroys /\ Destroys \subseteq Ops
    BY OpsAssumption DEF Ops
  <1> USE DEF TypeOK, Goto
  <1>1. CASE UNCHANGED vars
    BY <1>1 DEF vars, ContractStep, ContractInv
  <1>2. CASE SessionEnds
    BY <1>2 DEF SessionEnds, ContractStep, ContractInv
  <1>3. CASE Restart
    BY <1>3, <1>n DEF Restart, Started, ContractStep, ContractInv
  <1>4. ASSUME NEW o \in Ops, OnControl(o)
        PROVE  ContractStep /\ ContractInv'
    <2>1. PICK cmd \in Commands : /\ said' = Tell(said, cmd)
                                  /\ cmd = IF o = Create THEN "create" ELSE "destroy"
      BY <1>4 DEF OnControl, Commands
    <2>2. said'.told = said.told \cup {cmd} /\ said'.made = said.made /\ said'.gone = said.gone
      BY <2>1, TellIsAgent
    <2> QED BY <1>4, <1>n, <2>1, <2>2 DEF OnControl, ContractStep, ContractInv
  <1> QED BY <1>1, <1>2, <1>3, <1>4, ContractAcquire, ContractCreate, ContractDestroy
          DEF Next, OpStep

\* Whatever fails, whichever sessions end and however often the agent dies, the
\* reports an agent sends are those ControlPlane's receivers are checked against.
THEOREM ContractSound == Spec => KeepsReportContract
  <1>1. Init => ContractInv
    <2> SUFFICES ASSUME Init PROVE ContractInv
      OBVIOUS
    <2>1. Create \in Ops /\ Destroys \subseteq Ops
      BY DEF Ops
    <2> QED BY <2>1 DEF Init, ContractInv, NewAgent
  <1>2. TypeOK /\ OpsExclusive /\ ContractInv /\ [Next]_vars => ContractInv' /\ ContractStep
    BY ContractKept
  <1>3. ContractStep =>
           [\/ \E cmd \in Commands : said' = Tell(said, cmd)
            \/ \E to \in Reports : MayReport(said, to) /\ said' = AfterReport(said, to)]_said
    BY DEF ContractStep
  <1> QED BY <1>1, <1>2, <1>3, TypeCorrect, OperationsExclusive, PTL DEF Spec, KeepsReportContract
====
