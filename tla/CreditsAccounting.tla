-------------------------- MODULE CreditsAccounting --------------------------
(***************************************************************************)
(* Accounts kept beside Credits: what each user was charged, in total and  *)
(* by day, against what the user's row says. Every user opens with the     *)
(* same row, so that the totals have a known start.                        *)
(***************************************************************************)
EXTENDS Credits, Sums

ASSUME AccountingAssumption ==
  /\ \E row \in InitialRows : InitialRows = {row}
  /\ IsFiniteSet(Requests)

OpeningRow == CHOOSE row \in InitialRows : TRUE

ChargedTo(u) == {r \in Requests : UserOf[r] = u /\ req[r].charged}
ChargedOn(u, d) == {r \in ChargedTo(u) : req[r].day = d}
GrantsTo(u) == {row \in ledger : row.user = u /\ row.kind = "admin_grant"}

CostOf == [r \in Requests |-> req[r].cost]
FreeOf == [r \in Requests |-> req[r].free]
TotalCost(S) == SumOver(CostOf, S)
FromAllowance(S) == SumOver(FreeOf, S)
TotalDelta(S) == SumOver([row \in S |-> row.delta], S)

SameCounts(row1, row2) ==
  row1.used = row2.used /\ row1.date = row2.date /\ row1.paid = row2.paid

\* Debits of one day commute and add up: whatever the interleaving of the
\* UPDATEs of debit(), including the first one of the day that resets the row,
\* the row is the one a single debit of the total would leave (runs without
\* admin calls).
DebitsCompose ==
  \A u \in Users, d \in 0..LastDay :
    ChargedTo(u) # {} /\ ChargedTo(u) = ChargedOn(u, d) =>
      SameCounts(balance[u], Charge(OpeningRow, d, DefaultAllowance, TotalCost(ChargedTo(u))))

\* "`daily_used` + `daily_date` form a lazy reset": what GET /api/construct/usage
\* shows as used today is no more than what the user was charged today.
UsageIsTodaysSpending ==
  \A u \in Users :
    UsageView(balance[u], today) <=
      TotalCost(ChargedOn(u, today)) + (IF today = 0 THEN OpeningRow.used ELSE 0)

\* paid_balance is what the user opened with, plus the grants on record, minus
\* what debits took from it ("`paid_balance` stores top-ups (never expire)").
PaidIsAccountedFor ==
  \A u \in Users :
    balance[u].paid = OpeningRow.paid + TotalDelta(GrantsTo(u))
                      - (TotalCost(ChargedTo(u)) - FromAllowance(ChargedTo(u)))

\* "The single UPDATE handles daily reset": the allowance of a day is spent once.
AllowanceOncePerDay ==
  \A u \in Users, d \in 0..LastDay :
    FromAllowance(ChargedOn(u, d)) <= DefaultAllowance
=============================================================================
