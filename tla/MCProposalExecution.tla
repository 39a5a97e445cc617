------------------------ MODULE MCProposalExecution ------------------------
(***************************************************************************)
(* Small consoles for TLC: a channel fader, a headamp, and a send that the *)
(* console does not support; levels of -10 and -8 dB; plans that          *)
(* exercise what the policy and the readback tell apart.                   *)
(***************************************************************************)
EXTENDS ProposalExecution, TLC

CONSTANTS p1, p2, fader, gain, send

OneProposal == {p1}
TwoProposals == {p1, p2}
Interchangeable == Permutations({p1, p2})

TwoLevels == {-10 * dB, -8 * dB}

Move(path, from, to) == [path |-> path, before |-> from, requested |-> to]

\* The fader alone.
FaderPaths == {fader}
FaderAction == fader :> "fader_set"
FaderAtMinus10 == fader :> -10 * dB
FaderUpOrDown == {<<Move(fader, -10 * dB, -8 * dB)>>,
                  <<Move(fader, -8 * dB, -10 * dB)>>}
FaderUp == {<<Move(fader, -10 * dB, -8 * dB)>>}

\* Two operations on two paths, of which the second is R3.
PairPaths == {fader, gain}
PairActions == (fader :> "fader_set") @@ (gain :> "headamp_set")
PairAtMinus10 == (fader :> -10 * dB) @@ (gain :> -10 * dB)
Pair == <<Move(fader, -10 * dB, -8 * dB), Move(gain, -10 * dB, -8 * dB)>>
PairPlan == {Pair}

\* All three: the same, and one operation whose readback can never match.
DeskPaths == {fader, gain, send}
DeskActions == PairActions @@ (send :> "send_level_set")
DeskAtMinus10 == PairAtMinus10 @@ (send :> NoValue)
DeskPlans == {Pair, <<Move(send, -10 * dB, -8 * dB)>>}
=============================================================================
