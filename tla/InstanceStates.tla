---------------------------- MODULE InstanceStates ----------------------------
(***************************************************************************)
(* The instance lifecycle state machine of main-api                        *)
(* (services/main-api/internal/instance/state.go): pure definitions used   *)
(* by every module that moves an instance row.                             *)
(***************************************************************************)

States == {"pending", "provisioning", "running", "stopping", "stopped", "failed"}

\* The states reachable in one step; the two terminal states have none.
allowedTransitions ==
    [ pending      |-> {"provisioning", "failed", "stopped"},
      provisioning |-> {"running", "failed", "stopping"},
      running      |-> {"stopping", "failed"},
      stopping     |-> {"stopped", "failed"},
      stopped      |-> {},
      failed       |-> {} ]

IsTerminal(s) == s \in {"stopped", "failed"}

\* from = to is always allowed, so a caller may retry.
CanTransition(from, to) == from = to \/ to \in allowedTransitions[from]
=============================================================================
