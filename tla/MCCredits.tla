------------------------------ MODULE MCCredits ------------------------------
(***************************************************************************)
(* Small instances of Credits and CreditsAccounting. The numbers are small *)
(* but keep the cases apart: an allowance that covers a cost in part, a    *)
(* paid balance that runs out, an allowance lowered below what is used.    *)
(***************************************************************************)
EXTENDS CreditsAccounting

CONSTANTS u1, u2, r1, r2, r3, a1, p1

\* r1 and r2 are the fan-out of one prompt of u1. In TwoUsers r3 is another
\* user's call that carries the same prompt id; in OneUser it is a call of u1
\* without a prompt id.
TwoUsers == [r \in Requests |-> IF r = r3 THEN u2 ELSE u1]
OneUser == [r \in Requests |-> u1]
SamePromptId == [r \in Requests |-> p1]
TwoOfThree == [r \in Requests |-> IF r = r3 THEN NoPrompt ELSE p1]

OpenRow(used, paid) ==
  [present |-> TRUE, used |-> used, date |-> 0, paid |-> paid, blocked |-> FALSE]

Spent == {OpenRow(2, 1)}     \* the allowance of 2 is used up
HalfSpent == {OpenRow(1, 3)}

OneOff == {-2, 1}
TopUp == {1}
Allowances == {-1, 0}
=============================================================================
