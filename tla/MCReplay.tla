------------------------------- MODULE MCReplay -------------------------------
(***************************************************************************)
(* ReplayQualification by itself: two scripts, and two versions of the     *)
(* worker's file that ask for the same cassette.                           *)
(***************************************************************************)
EXTENDS ReplayQualification, TLC

Scripts == Permutations(Qualifier)

SameInput(m) == "protected fixture"

MCNext == ReplayNext \/ (Ended /\ UNCHANGED replayVars)

MCSpec == ReplayInit /\ [][MCNext]_replayVars

=============================================================================
