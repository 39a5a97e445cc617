---------------------------- MODULE WritePolicy ----------------------------
(***************************************************************************)
(* The policy decision every proposed console operation must pass, both    *)
(* when a proposal is built and again when it is executed:                 *)
(* core/policy.py, core/operations.py and core/rate_limits.py.  A module   *)
(* of constant operators, with no state.                                   *)
(*                                                                         *)
(* Levels are integers in quarters of a decibel, which is fine enough to   *)
(* tell a value on the 0.5 dB grid from one that is off it.                *)
(***************************************************************************)
EXTENDS Integers

Modes == {"OBSERVE", "SOUNDCHECK", "LIVE", "EMERGENCY"}

dB == 4

\* ACTION_RISK, one set of semantic actions for each risk class.
R1Actions == {"label_set", "fader_set", "mute_set"}
R2Actions == {"send_level_set", "eq_adjust", "dynamics_adjust",
              "talkback_momentary"}
R3Actions == {"talkback_configure", "headamp_set", "routing_set",
              "recall_scene", "bulk_update"}

Actions == R1Actions \cup R2Actions \cup R3Actions

\* operation_bounds: the two actions that have a range and a grid.
Ranged == {"fader_set", "headamp_set"}
MinLevel(action) == IF action = "fader_set" THEN -90 * dB ELSE -12 * dB
MaxLevel(action) == IF action = "fader_set" THEN 10 * dB ELSE 60 * dB
Grid == dB \div 2

\* live_fader_delta_allowed.
LiveMaxDelta == 3 * dB
LiveDeltaAllowed(before, requested) ==
    /\ requested - before <= LiveMaxDelta
    /\ before - requested <= LiveMaxDelta

\* validate_operation_bounds returns without raising.
WithinBounds(action, before, requested, mode) ==
    action \in Ranged =>
        /\ requested >= MinLevel(action)
        /\ requested <= MaxLevel(action)
        /\ (requested - MinLevel(action)) % Grid = 0
        /\ mode = "LIVE" /\ action = "fader_set" =>
               LiveDeltaAllowed(before, requested)

\* evaluate_policy leaves its list of reasons empty.  Both callers pass a
\* snapshot, the action's own risk class, and no operation of the main bus.
PolicyAllows(action, before, requested, mode) ==
    /\ mode \notin {"EMERGENCY", "OBSERVE"}
    /\ action \in R3Actions => mode = "SOUNDCHECK"
    /\ mode = "LIVE" /\ action = "fader_set" =>
           LiveDeltaAllowed(before, requested)

OperationAllowed(action, before, requested, mode) ==
    /\ WithinBounds(action, before, requested, mode)
    /\ PolicyAllows(action, before, requested, mode)
=============================================================================
