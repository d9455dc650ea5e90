----------------------------- MODULE MCGovernor -----------------------------
(* Small instances of Governor for TLC.                                     *)
EXTENDS Governor, TLC

(* Concurrent calls are interchangeable; the safety run says so. *)
CallSymmetry == Permutations(Calls)
=============================================================================
