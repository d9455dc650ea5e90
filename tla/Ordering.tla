------------------------------ MODULE Ordering ------------------------------
(* Sets put in order, by a relation and not by an algorithm.                 *)
EXTENDS Integers, FiniteSets

\* The member of a singleton: a value, where LET names an expression that TLC
\* computes again wherever it is looked at.
The(singleton) == CHOOSE x \in singleton : TRUE

\* The elements of S one after the other: at n is what n - 1 come before.
Ranked(S, before) ==
    [n \in 1 .. Cardinality(S) |->
        CHOOSE i \in S : Cardinality({j \in S : <<j, i>> \in before}) = n - 1]

Sorted(S, before) == The({Ranked(all, relation) : all \in {S}, relation \in {before}})

\* What a sequence has at these places.
Those(seq, places) ==
    The({[n \in DOMAIN order |-> seq[order[n]]] :
         order \in {Sorted(places, {r \in places \X places : r[1] < r[2]})}})
=============================================================================
