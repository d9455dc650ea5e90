------------------------------ MODULE MCTriage ------------------------------
(* Small instances of Triage for TLC.                                       *)
EXTENDS Triage

(* The newest and the oldest of three rows share a repository. *)
MCRepoOf == [i \in Ids |-> IF i = 2 THEN "b" ELSE "a"]

\* The table of orders is one of sequences of rows; looked at, it is computed
\* once for all the states.
ASSUME OrdersAreSequences == Orders \in [Flags \X Modes \X BOOLEAN -> Seq(Ids)]
=============================================================================
