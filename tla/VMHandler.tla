------------------------------ MODULE VMHandler ------------------------------
(***************************************************************************)
(* compute-agent's VM operations on one instance (vm/handler.go over       *)
(* libvirt/manager.go).  OnControl starts a goroutine per control message; *)
(* acquireOp makes the operations of an instance exclusive, lets a destroy *)
(* cancel a create in flight, and drops every other second comer.  All     *)
(* state of the handler is keyed by the instance id, so one instance is    *)
(* enough.  A step is one call that another goroutine can observe.         *)
(***************************************************************************)
EXTENDS AgentReports

CONSTANTS
    Create,     \* the CreateInstance message of the instance
    Destroys,   \* DestroyInstance messages that may arrive for it
    NoOp,
    FaultSets   \* kinds of fault that may go together in a run of the system

Ops == {Create} \cup Destroys

FaultKinds == {"early",      \* a DELETE beat the create's dispatch to the agent
               "prepare",    \* qemu-img or a file operation fails
               "create",     \* defining or starting the domain fails
               "destroy",    \* DomainDestroy fails
               "undefine",   \* DomainUndefineFlags fails: the domain stays, off
               "rollback",   \* so it does when a start that failed is undone
               "lookup",     \* DomainLookupByName fails for another reason than absence
               "xml",        \* DomainGetXMLDesc fails
               "reset",      \* ResetDevice fails
               "remove",     \* os.Remove fails: the file stays
               "session",    \* the stream session that brought the message ends
               "restart"}    \* the agent process dies; domains and files survive

ASSUME OpsAssumption ==
    Create \notin Destroys /\ NoOp \notin Ops /\ FaultSets \subseteq SUBSET FaultKinds

VARIABLES
    faults,     \* what may go wrong, the same throughout a run
    pc,         \* per operation: next call
    inFlight,   \* Handler.inFlight[id]
    awaited,    \* per destroy: the preempted operation it waits for
    cancelled,  \* operations whose context was cancelled
    released,   \* operations whose slot's done channel is closed
    domain,     \* the libvirt domain
    files,      \* disk image and seed exist
    dirty,      \* the passthrough GPUs were used and not reset since
    pcis,       \* destroys that learnt which devices to reset
    deaf,       \* operations whose session ended: sendFn drops their reports
    said        \* commands and reports so far, as AgentReports sees them

vars == <<faults, pc, inFlight, awaited, cancelled, released, domain, files, dirty, pcis, deaf, said>>

-----------------------------------------------------------------------------
Ended == {"done", "dropped", "stopped", "failed"}

\* Labels at which an operation owns the instance's slot.
Owning == {"prepare", "check", "define", "abort", "release", "passthrough", "undo", "cleanup"}

Labels == {"none", "acquire", "wait", "running", "lease", "address"} \cup Owning \cup Ended

TypeOK ==
    /\ faults \subseteq FaultKinds
    /\ pc \in [Ops -> Labels]
    /\ inFlight \in Ops \cup {NoOp}
    /\ awaited \in [Destroys -> Ops \cup {NoOp}]
    /\ cancelled \subseteq Ops /\ released \subseteq Ops
    /\ pcis \subseteq Destroys /\ deaf \subseteq Ops
    /\ domain \in {"absent", "running", "off"}
    /\ files \in BOOLEAN /\ dirty \in BOOLEAN
    /\ said \in Agent

Init ==
    /\ faults \in FaultSets
    /\ pc = [o \in Ops |-> "none"]
    /\ inFlight = NoOp
    /\ awaited = [d \in Destroys |-> NoOp]
    /\ cancelled = {} /\ released = {} /\ pcis = {} /\ deaf = {}
    /\ domain = "absent" /\ files = FALSE /\ dirty = FALSE
    /\ said = NewAgent

Goto(o, label) == pc' = [pc EXCEPT ![o] = label]

\* send: a report reaches outCh unless the operation's session is over.
Send(o, to) == said' = IF o \in deaf THEN said ELSE AfterReport(said, to)

\* Closing done but leaving the entry in inFlight.
release_EntryKept(o) ==
    /\ UNCHANGED inFlight
    /\ released' = released \cup {o}

\* release: give up the slot if it is still ours, and close done.
release(o) ==
    /\ inFlight' = IF inFlight = o THEN NoOp ELSE inFlight
    /\ released' = released \cup {o}

-----------------------------------------------------------------------------
(* Messages and exclusion *)

OnControl(o) ==
    /\ pc[o] = "none"
    /\ o = Create \/ pc[Create] # "none" \/ "early" \in faults
    /\ Goto(o, "acquire")
    /\ said' = Tell(said, IF o = Create THEN "create" ELSE "destroy")
    /\ UNCHANGED <<faults, inFlight, awaited, cancelled, released, domain, files, dirty, pcis, deaf>>

\* A preempting destroy that does not wait for the create to exit.
acquireOp_NoWait(o) ==
    /\ pc[o] = "acquire"
    /\ inFlight = NoOp \/ (o # Create /\ inFlight = Create)
    /\ inFlight' = o
    /\ cancelled' = IF inFlight = Create THEN cancelled \cup {Create} ELSE cancelled
    /\ Goto(o, IF o = Create THEN "prepare" ELSE "passthrough")
    /\ Send(o, IF o = Create THEN "provisioning" ELSE "stopping")
    /\ UNCHANGED <<awaited, released, domain, files, dirty, pcis, deaf>>

\* A destroy that cancels the create it meets and leaves the rest to it.
acquireOp_CancelOnly(o) ==
    /\ pc[o] = "acquire"
    /\ \/ /\ inFlight = NoOp /\ inFlight' = o
          /\ Goto(o, IF o = Create THEN "prepare" ELSE "passthrough")
          /\ Send(o, IF o = Create THEN "provisioning" ELSE "stopping")
          /\ UNCHANGED cancelled
       \/ /\ inFlight # NoOp
          /\ cancelled' = IF inFlight = Create THEN cancelled \cup {Create} ELSE cancelled
          /\ Goto(o, "dropped") /\ UNCHANGED <<inFlight, said>>
    /\ UNCHANGED <<awaited, released, domain, files, dirty, pcis, deaf>>

\* acquireOp, and the first report of the operation that got the slot.
acquireOp(o) ==
    /\ pc[o] = "acquire"
    /\ \/ /\ inFlight = NoOp /\ inFlight' = o
          /\ Goto(o, IF o = Create THEN "prepare" ELSE "passthrough")
          /\ Send(o, IF o = Create THEN "provisioning" ELSE "stopping")
          /\ UNCHANGED <<awaited, cancelled>>
       \/ /\ o # Create /\ inFlight = Create
          /\ cancelled' = cancelled \cup {Create}
          /\ awaited' = [awaited EXCEPT ![o] = Create]
          /\ Goto(o, "wait") /\ UNCHANGED <<inFlight, said>>
       \/ /\ inFlight # NoOp /\ ~(o # Create /\ inFlight = Create)
          /\ Goto(o, "dropped") /\ UNCHANGED <<inFlight, said, awaited, cancelled>>
    /\ UNCHANGED <<released, domain, files, dirty, pcis, deaf>>

\* <-preempted.done, then look again: another operation may have come first.
Wake(d) ==
    /\ pc[d] = "wait" /\ awaited[d] \in released
    /\ Goto(d, "acquire")
    /\ UNCHANGED <<inFlight, awaited, cancelled, released, domain, files, dirty, pcis, deaf, said>>

-----------------------------------------------------------------------------
(* handleCreate *)

\* ResetDevice on the passthrough devices; an error is only logged.
ResetDevices == dirty' = FALSE \/ ("reset" \in faults /\ UNCHANGED dirty)

\* cleanupFiles, where the files may be there or not; an error is only logged.
cleanupFiles(there) == files' = FALSE \/ ("remove" \in faults /\ files' = there)

\* An error path that leaves the disk image behind.
CreateFails_KeepFiles(there) ==
    /\ files' = there
    /\ Send(Create, "failed") /\ release(Create) /\ Goto(Create, "failed")

\* The end of the two error paths: remove the files, report, release on return.
CreateFails(there) ==
    /\ cleanupFiles(there)
    /\ Send(Create, "failed") /\ release(Create) /\ Goto(Create, "failed")

\* A missing return: the failure is reported and the creation goes on.
prepareFiles_NoReturn ==
    /\ pc[Create] = "prepare"
    /\ files' = TRUE /\ Goto(Create, "check")
    /\ \/ UNCHANGED said
       \/ "prepare" \in faults /\ Send(Create, "failed")
    /\ UNCHANGED <<inFlight, released, awaited, cancelled, domain, dirty, pcis, deaf>>

\* qemu-img runs under the operation's context; a failure may leave a file.
prepareFiles ==
    /\ pc[Create] = "prepare"
    /\ \/ /\ files' = TRUE /\ Goto(Create, "check")
          /\ UNCHANGED <<inFlight, released, said>>
       \/ /\ Create \in cancelled \/ "prepare" \in faults
          /\ CreateFails(TRUE)
    /\ UNCHANGED <<awaited, cancelled, domain, dirty, pcis, deaf>>

\* CreateDomain looks at its context once, before it does anything.
CheckContext ==
    /\ pc[Create] = "check"
    /\ Goto(Create, IF Create \in cancelled THEN "abort" ELSE "define")
    /\ UNCHANGED <<inFlight, awaited, cancelled, released, domain, files, dirty, pcis, deaf, said>>

\* Define and start.  A failure undefines the domain, but libvirt may have
\* bound and used the GPUs before it failed.
CreateDomain ==
    /\ pc[Create] = "define"
    /\ \/ domain' = "running" /\ dirty' = TRUE /\ Goto(Create, "release")
       \/ /\ "create" \in faults
          /\ UNCHANGED domain \/ ("rollback" \in faults /\ domain' = "off")
          /\ dirty' \in {dirty, TRUE}
          /\ Goto(Create, "abort")
    /\ UNCHANGED <<inFlight, awaited, cancelled, released, files, pcis, deaf, said>>

\* Giving up on a domain without resetting the GPUs libvirt may have touched.
AbortCreate_NoReset ==
    /\ pc[Create] = "abort"
    /\ CreateFails(files)
    /\ UNCHANGED <<awaited, cancelled, domain, dirty, pcis, deaf>>

\* CreateDomain returned an error: remove the files, reset every requested
\* device libvirt may have touched, report FAILED.
AbortCreate ==
    /\ pc[Create] = "abort"
    /\ CreateFails(files) /\ ResetDevices
    /\ UNCHANGED <<awaited, cancelled, domain, pcis, deaf>>

\* The slot is released before RUNNING is sent.
ReleaseOnce ==
    /\ pc[Create] = "release"
    /\ release(Create) /\ Goto(Create, "running")
    /\ UNCHANGED <<awaited, cancelled, domain, files, dirty, pcis, deaf, said>>

SendRunning ==
    /\ pc[Create] = "running"
    /\ Send(Create, "running") /\ Goto(Create, "lease")
    /\ UNCHANGED <<inFlight, awaited, cancelled, released, domain, files, dirty, pcis, deaf>>

\* detectAndPublishIP: a lease is found, or the poller gives up (the context is
\* done, the domain is gone, libvirt fails, 90 seconds are over, shutdown).
detectIP ==
    /\ pc[Create] = "lease"
    /\ \/ Create \notin cancelled /\ domain = "running" /\ Goto(Create, "address")
       \/ Goto(Create, "done")
    /\ UNCHANGED <<inFlight, awaited, cancelled, released, domain, files, dirty, pcis, deaf, said>>

PublishIP ==
    /\ pc[Create] = "address"
    /\ Send(Create, "running") /\ Goto(Create, "done")
    /\ UNCHANGED <<inFlight, awaited, cancelled, released, domain, files, dirty, pcis, deaf>>

-----------------------------------------------------------------------------
(* handleDestroy *)

\* Learn the devices to reset; every error only leaves the list empty.
DomainPassthroughPCI(d) ==
    /\ pc[d] = "passthrough"
    /\ \/ domain # "absent" /\ pcis' = pcis \cup {d}
       \/ domain = "absent" /\ UNCHANGED pcis
       \/ faults \cap {"lookup", "xml"} # {} /\ UNCHANGED pcis
    /\ Goto(d, "undo")
    /\ UNCHANGED <<inFlight, awaited, cancelled, released, domain, files, dirty, deaf, said>>

\* Every error of DestroyDomain taken for a success.
DestroyDomain_AllFine(d) ==
    /\ pc[d] = "undo"
    /\ \/ /\ domain' = "absent" /\ Goto(d, "cleanup")
          /\ UNCHANGED <<inFlight, released, said>>
       \/ /\ domain = "running" /\ "destroy" \in faults /\ UNCHANGED domain
          /\ Send(d, "stopped") /\ release(d) /\ Goto(d, "stopped")
    /\ UNCHANGED <<awaited, cancelled, files, dirty, pcis, deaf>>

\* Any error of the lookup is taken for ErrDomainNotFound, which is success;
\* destroying and undefining may fail, which is reported.
DestroyDomain(d) ==
    /\ pc[d] = "undo"
    /\ \/ /\ domain' = "absent" /\ Goto(d, "cleanup")
          /\ UNCHANGED <<inFlight, released, said>>
       \/ /\ "lookup" \in faults /\ UNCHANGED domain /\ Goto(d, "cleanup")
          /\ UNCHANGED <<inFlight, released, said>>
       \/ /\ \/ domain = "running" /\ "destroy" \in faults /\ UNCHANGED domain
             \/ domain # "absent" /\ "undefine" \in faults /\ domain' = "off"
          /\ Send(d, "failed") /\ release(d) /\ Goto(d, "failed")
    /\ UNCHANGED <<awaited, cancelled, files, dirty, pcis, deaf>>

\* cleanupFiles, reset the devices on the list, report STOPPED, release.
CleanUp(d) ==
    /\ pc[d] = "cleanup"
    /\ cleanupFiles(files)
    /\ IF d \in pcis THEN ResetDevices ELSE UNCHANGED dirty
    /\ Send(d, "stopped") /\ release(d) /\ Goto(d, "stopped")
    /\ UNCHANGED <<awaited, cancelled, domain, pcis, deaf>>

-----------------------------------------------------------------------------
(* Sessions and process restarts *)

Started(o) == pc[o] \notin {"none"} \cup Ended

\* runOnce returned: work goes on, its reports do not.
SessionEnds ==
    /\ "session" \in faults
    /\ \E o \in Ops \ deaf : Started(o)
    /\ deaf' = deaf \cup {o \in Ops : Started(o)}
    /\ UNCHANGED <<faults, pc, inFlight, awaited, cancelled, released, domain, files, dirty, pcis, said>>

\* The agent dies (or Wait's grace expires): goroutines and inFlight are gone.
Restart ==
    /\ "restart" \in faults
    /\ \E o \in Ops : Started(o)
    /\ pc' = [o \in Ops |-> IF Started(o) THEN "dropped" ELSE pc[o]]
    /\ inFlight' = NoOp
    /\ UNCHANGED <<faults, awaited, cancelled, released, domain, files, dirty, pcis, deaf, said>>

-----------------------------------------------------------------------------
(* Specification *)

CreateStep ==
    \/ prepareFiles \/ CheckContext \/ CreateDomain \/ AbortCreate \/ ReleaseOnce
    \/ SendRunning \/ detectIP \/ PublishIP

DestroyStep(d) == Wake(d) \/ DomainPassthroughPCI(d) \/ DestroyDomain(d) \/ CleanUp(d)

OpStep(o) ==
    /\ \/ acquireOp(o)
       \/ o = Create /\ CreateStep
       \/ o \in Destroys /\ DestroyStep(o)
    /\ UNCHANGED faults

\* All messages were handled and every operation returned.
Quiet == \A o \in Ops : pc[o] \in Ended

Next ==
    \/ \E o \in Ops : OnControl(o) \/ OpStep(o)
    \/ SessionEnds
    \/ Restart
    \/ Quiet /\ UNCHANGED vars

Spec == Init /\ [][Next]_vars

\* Go runs every operation's goroutine; libvirt and qemu-img calls return.
FairSpec == Spec /\ \A o \in Ops : WF_vars(OpStep(o))

-----------------------------------------------------------------------------
(* Properties *)

\* None of the faults in S happens.
Without(S) == faults \cap S = {}

\* acquireOp and release make the VM operations of an instance exclusive even
\* while a destroy takes over from a create: two operations are never between
\* acquire and release together, and the one that is owns inFlight.
OpsExclusive ==
    \A o \in Ops : pc[o] \in Owning => inFlight = o

\* handleCreate and handleDestroy undo what they leave half done: when no
\* operation owns the instance, disk and seed exist exactly for a domain that
\* exists.  Four faults the code only logs, or cannot see, are excepted.
FilesFollowDomain ==
    Without({"rollback", "lookup", "remove", "restart"}) /\ inFlight = NoOp =>
        (files <=> domain # "absent")

\* handleDestroy reports STOPPED, on which main-api frees the GPU slot, only
\* for an instance that has no domain and no files, whatever was racing it and
\* after any fault but the one that hides a domain and the one that keeps a file.
StoppedIsGone ==
    [][\A d \in Destroys : Without({"lookup", "remove"}) /\ pc[d] # "stopped" /\ pc'[d] = "stopped" =>
          domain' = "absent" /\ ~files']_vars

\* "Reset every passthrough device so the next tenant starts from a clean GPU
\* state (A6 gate)", and after a failed create "reset every PCI device libvirt
\* may have touched": with STOPPED, or FAILED of a create, the GPUs are clean,
\* unless the reset fails or the list of devices is lost.
CleanForNextTenant ==
    [][\A o \in Ops : /\ Without({"lookup", "xml", "reset", "restart"})
                      /\ \/ pc[o] # "stopped" /\ pc'[o] = "stopped"
                         \/ o = Create /\ pc[o] # "failed" /\ pc'[o] = "failed"
          => ~dirty']_vars

\* CreateDomain looks at its context only once, so cancelling a create is not
\* enough to stop it: a destroy that met a create in flight waits and then
\* removes whatever the create made, unless it reports a failure.
PreemptedIsGone ==
    /\ Without({"lookup", "remove", "restart"})
    /\ Quiet /\ Create \in cancelled /\ (\A d \in Destroys : pc[d] # "failed")
    => domain = "absent" /\ ~files

\* The reports of the two handlers, late RUNNING and lost sessions included,
\* are those AgentReports allows, which is what ControlPlane expects.
KeepsReportContract ==
    [][\/ \E cmd \in Commands : said' = Tell(said, cmd)
       \/ \E to \in Reports : MayReport(said, to) /\ said' = AfterReport(said, to)]_said

\* Waiting for a preempted operation cannot hang: every operation whose
\* message arrived returns, and gives up the slot.
OpsReturn == \A o \in Ops : pc[o] = "acquire" ~> pc[o] \in Ended /\ inFlight # o
=============================================================================
