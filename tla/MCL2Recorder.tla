----------------------------- MODULE MCL2Recorder -----------------------------
(***************************************************************************)
(* One session on small sets of hooks.                                     *)
(***************************************************************************)
EXTENDS L2Recorder, TLC

\* Calls are interchangeable, and so are stops.
HookSymmetry == Permutations(Calls) \cup Permutations(Stops)
=============================================================================
