------------------------ MODULE EmergencyController ------------------------
(***************************************************************************)
(* The emergency write lock of core/emergency.py: a record of five flags   *)
(* and what each of the controller's methods leaves in it.  The methods    *)
(* become actions in the modules that own the record.                      *)
(***************************************************************************)
EXTENDS WritePolicy

Controllers == [runtime_mode: Modes,
                write_locked: BOOLEAN,
                automation_stopped: BOOLEAN,
                emergency_active: BOOLEAN,
                reconciliation_required: BOOLEAN]

InitialController == [runtime_mode |-> "OBSERVE",
                      write_locked |-> TRUE,
                      automation_stopped |-> FALSE,
                      emergency_active |-> FALSE,
                      reconciliation_required |-> TRUE]

\* enter_emergency, beside the cancelling of the pending proposals.
InEmergency == [runtime_mode |-> "EMERGENCY",
                write_locked |-> TRUE,
                automation_stopped |-> TRUE,
                emergency_active |-> TRUE,
                reconciliation_required |-> TRUE]

\* exit_emergency_to_observe restores the initial flags.
BackInObserve == InitialController
=============================================================================
