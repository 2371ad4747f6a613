--------------------------------- MODULE Sums ---------------------------------
(***************************************************************************)
(* Totals: of a function over a finite set, and of the sizes of the        *)
(* elements of a sequence.                                                 *)
(***************************************************************************)
EXTENDS Integers, Sequences, Functions

SumOver(v, S) == FoldFunctionOnSet(+, 0, v, S)
SumAlong(size, s) == SumOver([i \in DOMAIN s |-> size[s[i]]], DOMAIN s)
===============================================================================
