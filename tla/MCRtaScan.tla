----------------------------- MODULE MCRtaScan -----------------------------
(***************************************************************************)
(* Three sources, of which the console refuses to select one, for TLC.     *)
(***************************************************************************)
EXTENDS RtaScan

CONSTANTS mic, main, aux

MicMainAux == {mic, main, aux}
AuxRefused == {aux}
MicOrUnknown == {mic, Unknown}
OneOrTwo == {<<main>>, <<main, aux>>, <<mic, main>>}
=============================================================================
