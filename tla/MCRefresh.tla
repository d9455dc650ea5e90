----------------------------- MODULE MCRefresh -----------------------------
(* Small instances of Refresh for TLC.                                      *)
EXTENDS Refresh, TLC

(* The surface on screen and the poll task ask for the inbox; details are   *)
(* asked for only by a job that has landed it.                              *)
MCMayAsk == [c \in Callers |-> {Inbox}]

(* Task identities are interchangeable; the safety runs say so. *)
JobSymmetry == Permutations(Jobs)
=============================================================================
