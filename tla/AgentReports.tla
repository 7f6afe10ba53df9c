---------------------------- MODULE AgentReports ----------------------------
(***************************************************************************)
(* The contract between a compute agent and main-api about one instance:   *)
(* which InstanceStatus reports the agent may emit, given the commands it  *)
(* was told and what its create and its destroy operation reported so far. *)
(* ControlPlane uses it as the agent's behaviour; VMHandler is shown to    *)
(* keep it.                                                                *)
(***************************************************************************)
EXTENDS InstanceStates

Commands == {"create", "destroy"}

\* States an agent reports (mapInstanceState): every state but pending.
Reports == States \ {"pending"}

\* made: what the create operation said; gone: what the last destroy said.
Agent == [told: SUBSET Commands,
          made: {"nothing", "provisioning", "running", "failed"},
          gone: {"nothing", "stopping", "stopped", "failed"}]

NewAgent == [told |-> {}, made |-> "nothing", gone |-> "nothing"]

Tell(a, cmd) == [a EXCEPT !.told = @ \cup {cmd}]

\* Creating and destroying exclude each other, except that RUNNING is sent
\* after the create operation gave up its slot, and once more with the IP.
\* The end of a destroy may go unreported (its session ended).
MayReport(a, to) ==
    \/ to = "provisioning" /\ "create" \in a.told /\ a.made = "nothing"
    \/ to = "running" /\ a.made \in {"provisioning", "running"}
    \/ to = "failed" /\ a.made = "provisioning" /\ a.gone # "stopping"
    \/ to = "stopping" /\ "destroy" \in a.told
    \/ to \in {"stopped", "failed"} /\ a.gone = "stopping"

\* PROVISIONING after STOPPING: that destroy is over.  STOPPING after
\* PROVISIONING: that create is over, and if FAILED was not sent it may still
\* send RUNNING.
AfterReport(a, to) ==
    CASE to = "provisioning" ->
             [a EXCEPT !.made = to, !.gone = IF @ = "stopping" THEN "nothing" ELSE @]
      [] to = "running" -> [a EXCEPT !.made = to]
      [] to = "stopping" ->
             [a EXCEPT !.gone = to, !.made = IF @ = "provisioning" THEN "running" ELSE @]
      [] to = "failed" /\ a.gone # "stopping" -> [a EXCEPT !.made = to]
      [] OTHER -> [a EXCEPT !.gone = to]
=============================================================================
