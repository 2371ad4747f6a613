--------------------------- MODULE DebitArithmetic ---------------------------
(***************************************************************************)
(* The arithmetic of one credits_balance row: the expressions of the      *)
(* admission UPDATE that debit() sends to the database, and the lazy       *)
(* daily reset that the usage endpoint applies for display.                *)
(*                                                                         *)
(* A row is a record with at least                                         *)
(*   used     daily_used, credits taken from the allowance on day `date`   *)
(*   date     daily_date, the UTC day `used` belongs to                    *)
(*   paid     paid_balance, credits bought or granted, which never expire  *)
(*   blocked  the admin's block                                            *)
(*                                                                         *)
(* Here and in the other modules, a definition whose name begins with Slip *)
(* is not part of the model: it is the definition that follows it with a   *)
(* plausible mistake, which the runs must notice.                          *)
(***************************************************************************)
EXTENDS Integers

LeastOf(m, n) == IF m <= n THEN m ELSE n
GreatestOf(m, n) == IF m >= n THEN m ELSE n

\* The input is stored as it came.
SlipClampInt(v, lo, hi, def) == v

\* clampInt: an input outside lo..hi is replaced by the default, not by the
\* nearest bound.
ClampInt(v, lo, hi, def) == IF v < lo \/ v > hi THEN def ELSE v

\* Off by one: today's row is reset too.
SlipStale(row, d) == row.date <= d

\* The row belongs to an earlier day than d.
Stale(row, d) == row.date < d

\* What an allowance of `a` still covers on day d. Negative when the allowance
\* was lowered below what the user has used already.
Available(row, d, a) == IF Stale(row, d) THEN a ELSE a - row.used

\* Admission against the whole allowance instead of what is left of it.
SlipAdmits(row, d, a, c) == ~row.blocked /\ a + row.paid >= c

\* The WHERE clause of the UPDATE.
Admits(row, d, a, c) == ~row.blocked /\ Available(row, d, a) + row.paid >= c

\* The part of cost c that paid_balance pays.
FromPaid(row, d, a, c) == GreatestOf(c - Available(row, d, a), 0)

\* The reset of the first debit of a day is forgotten.
SlipCharge(row, d, a, c) ==
  [row EXCEPT !.used = LeastOf(row.used + c, a),
              !.date = d,
              !.paid = row.paid - FromPaid(row, d, a, c)]

\* The SET clause of the UPDATE.
Charge(row, d, a, c) ==
  [row EXCEPT !.used = LeastOf((IF Stale(row, d) THEN 0 ELSE row.used) + c, a),
              !.date = d,
              !.paid = row.paid - FromPaid(row, d, a, c)]

\* daily_used as GET /api/construct/usage reports it on day d.
UsageView(row, d) == IF Stale(row, d) THEN 0 ELSE row.used

=============================================================================
