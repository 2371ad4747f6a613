---------------------------- MODULE CreditsProofs ----------------------------
(***************************************************************************)
(* Theorems about Credits, for any users, requests, admin calls, costs,    *)
(* allowances and number of days, with or without database errors. First,  *)
(* what the admission UPDATE of debit() does to a row, for every row,      *)
(* allowance and cost.                                                     *)
(***************************************************************************)
EXTENDS Credits, TLAPS

BalanceRow == [present : BOOLEAN, used : Int, date : Int, paid : Int, blocked : BOOLEAN]

\* The UPDATE keeps the shape of a row.
LEMMA ChargeType ==
  ASSUME NEW row \in BalanceRow, NEW d \in Int, NEW a \in Int, NEW c \in Int
  PROVE  Charge(row, d, a, c) \in BalanceRow
  <1>1. LeastOf((IF Stale(row, d) THEN 0 ELSE row.used) + c, a) \in Int
    BY DEF BalanceRow, LeastOf, Stale
  <1>2. row.paid - FromPaid(row, d, a, c) \in Int
    BY DEF BalanceRow, FromPaid, GreatestOf, Available, Stale
  <1> QED BY <1>1, <1>2 DEF Charge, BalanceRow

\* The fields the UPDATE changes, one by one.
LEMMA ChargeFields ==
  ASSUME NEW row \in BalanceRow, NEW d \in Int, NEW a \in Int, NEW c \in Int
  PROVE  LET new == Charge(row, d, a, c) IN
         /\ new.present = row.present
         /\ new.blocked = row.blocked
         /\ new.date = d
         /\ new.used = LeastOf((IF Stale(row, d) THEN 0 ELSE row.used) + c, a)
         /\ new.paid = row.paid - FromPaid(row, d, a, c)
  BY DEF Charge, BalanceRow

\* The WHERE clause protects the SET clause: an admitted debit leaves
\* paid_balance at zero or more, and daily_used between zero and the allowance.
THEOREM ChargeInBounds ==
  ASSUME NEW row \in BalanceRow, NEW d \in Int, NEW a \in Nat, NEW c \in Nat,
         row.used >= 0, row.paid >= 0, Admits(row, d, a, c)
  PROVE  /\ Charge(row, d, a, c).paid >= 0
         /\ Charge(row, d, a, c).used \in 0..a
  BY ChargeFields
  DEF BalanceRow, Admits, LeastOf, FromPaid, GreatestOf, Available, Stale

\* A debit takes exactly its cost from what the user can spend today, the rest
\* of the allowance and paid_balance together, unless the allowance was lowered
\* below what is used already.
THEOREM ChargeTakesTheCost ==
  ASSUME NEW row \in BalanceRow, NEW d \in Int, NEW a \in Nat, NEW c \in Nat,
         Available(row, d, a) >= 0
  PROVE  LET new == Charge(row, d, a, c) IN
         Available(new, d, a) + new.paid = Available(row, d, a) + row.paid - c
  BY ChargeFields, ChargeType
  DEF BalanceRow, LeastOf, FromPaid, GreatestOf, Available, Stale

\* Two debits of one day are one debit of the sum, so their order is irrelevant.
THEOREM ChargesCompose ==
  ASSUME NEW row \in BalanceRow, NEW d \in Int, NEW a \in Nat, NEW c1 \in Nat, NEW c2 \in Nat
  PROVE  Charge(Charge(row, d, a, c1), d, a, c2) = Charge(row, d, a, c1 + c2)
  <1> DEFINE one == Charge(row, d, a, c1)
             two == Charge(one, d, a, c2)
             sum == Charge(row, d, a, c1 + c2)
  <1>1. one \in BalanceRow /\ two \in BalanceRow /\ sum \in BalanceRow
    BY ChargeType
  <1>2. two.present = sum.present /\ two.blocked = sum.blocked /\ two.date = sum.date
    BY <1>1, ChargeFields
  <1>3. one.date = d /\ ~Stale(one, d)
    BY <1>1, ChargeFields DEF Stale
  <1>4. two.used = sum.used
    BY <1>1, <1>3, ChargeFields DEF BalanceRow, LeastOf, Available, Stale
  <1>5. two.paid = sum.paid
    BY <1>1, <1>3, ChargeFields
    DEF BalanceRow, LeastOf, FromPaid, GreatestOf, Available, Stale
  <1> QED BY <1>1, <1>2, <1>4, <1>5 DEF BalanceRow

\* The usage endpoint and the UPDATE apply the same lazy reset: what is left of
\* the allowance is the allowance minus what the endpoint shows as used.
THEOREM UsageAgrees ==
  ASSUME NEW row \in BalanceRow, NEW d \in Int, NEW a \in Int
  PROVE  Available(row, d, a) = a - UsageView(row, d)
  BY DEF BalanceRow, Available, UsageView

-----------------------------------------------------------------------------
LEMMA InitType == Init => TypeOK
  BY CreditsAssumption
  DEF Init, TypeOK, Row, BalanceRows, LedgerRows, RequestStates, AdminStates,
      IdleRequest, IdleAdmin, AdminOps, Waiting, Ended, Turned, Broken

\* A debit that takes effect leaves a row of the balance table.
LEMMA ChargedRowType ==
  ASSUME NEW row \in BalanceRows, NEW d \in 0..LastDay, NEW a \in 0..MaxAllowance,
         NEW c \in Nat
  PROVE  Charge(row, d, a, c) \in BalanceRows
  <1>1. row \in BalanceRow /\ d \in Int /\ a \in Int /\ c \in Int
    BY CreditsAssumption DEF BalanceRows, BalanceRow
  <1>2. Charge(row, d, a, c) \in BalanceRow /\ Charge(row, d, a, c).date = d
    BY <1>1, ChargeType, ChargeFields
  <1> QED BY <1>2 DEF BalanceRows, BalanceRow

LEMMA FreshRowType ==
  ASSUME NEW d \in 0..LastDay
  PROVE  FreshRow(d) \in BalanceRows
  BY CreditsAssumption DEF FreshRow, BalanceRows

\* A handler that only moves on keeps its type.
LEMMA GotoType ==
  ASSUME TypeOK, NEW r \in Requests, NEW from, NEW to \in Waiting \cup Ended,
         Goto(r, from, to)
  PROVE  req' \in [Requests -> RequestStates]
  BY DEF TypeOK, RequestStates, Goto

LEMMA AdminGotoType ==
  ASSUME TypeOK, NEW a \in Admins,
         \E to \in {"done", "failed"} : adm' = [adm EXCEPT ![a].pc = to]
  PROVE  /\ adm' \in [Admins -> AdminStates]
         /\ \A b \in Admins : adm'[b].pc = "read" => adm'[b].user \in Users
  <1>1. PICK to \in {"done", "failed"} : adm' = [adm EXCEPT ![a].pc = to]
    OBVIOUS
  <1>2. [adm[a] EXCEPT !.pc = to] \in AdminStates
    BY DEF TypeOK, AdminStates
  <1>3. \A b \in Admins : adm'[b] = IF b = a THEN [adm[a] EXCEPT !.pc = to] ELSE adm[b]
    BY <1>1 DEF TypeOK
  <1>4. [adm[a] EXCEPT !.pc = to].pc = to
    BY DEF TypeOK, AdminStates
  <1> QED BY <1>1, <1>2, <1>3, <1>4 DEF TypeOK

LEMMA AtOnceType ==
  ASSUME TypeOK, NEW a \in Admins, NEW op \in AdminOps, AtOnce(a, op)
  PROVE  /\ adm' \in [Admins -> AdminStates]
         /\ \A b \in Admins : adm'[b].pc = "read" => adm'[b].user \in Users
  <1>1. adm[a] \in AdminStates
    BY DEF TypeOK
  <1>2. /\ [adm[a] EXCEPT !.pc = "done", !.op = op] \in AdminStates
        /\ [adm[a] EXCEPT !.pc = "done", !.op = op].pc = "done"
    BY <1>1 DEF AdminStates
  <1>3. \A b \in Admins : adm'[b] = IF b = a THEN [adm[a] EXCEPT !.pc = "done", !.op = op]
                                              ELSE adm[b]
    BY DEF TypeOK, AtOnce
  <1>4. adm' = [adm EXCEPT ![a] = [adm[a] EXCEPT !.pc = "done", !.op = op]]
    BY DEF AtOnce
  <1> QED BY <1>2, <1>3, <1>4 DEF TypeOK

LEMMA HandlerType ==
  ASSUME TypeOK, NEW r \in Requests, HandlerStep(r)
  PROVE  TypeOK'
  <1> USE DEF Waiting, Ended, Turned, Broken
  <1>1. CASE Arrive(r)
    <2>1. /\ req[r] \in RequestStates
          /\ config.allowance \in 0..MaxAllowance
      BY DEF TypeOK
    <2>2. /\ [req[r] EXCEPT !.pc = "dispatched", !.cap = config.allowance] \in RequestStates
          /\ [req[r] EXCEPT !.pc = "disabled"] \in RequestStates
      BY <2>1 DEF RequestStates
    <2>3. req' \in [Requests -> RequestStates]
      BY <1>1, <2>2 DEF TypeOK, Arrive
    <2> QED BY <1>1, <2>3 DEF TypeOK, Arrive
  <1>2. CASE Answer(r)
    <2>1. req' \in [Requests -> RequestStates]
      <3>1. CASE Goto(r, "dispatched", "unrouted")
        BY <3>1, GotoType
      <3>2. ASSUME NEW c \in Costs, NEW s \in Statuses,
                   req' = [req EXCEPT ![r].pc = "answered", ![r].cost = c, ![r].status = s]
            PROVE  req' \in [Requests -> RequestStates]
        <4>1. req[r] \in RequestStates /\ c \in Nat
          BY CreditsAssumption DEF TypeOK
        <4>2. [req[r] EXCEPT !.pc = "answered", !.cost = c, !.status = s] \in RequestStates
          BY <4>1 DEF RequestStates
        <4> QED BY <3>2, <4>2 DEF TypeOK
      <3> QED BY <1>2, <3>1, <3>2 DEF Answer
    <2> QED BY <1>2, <2>1 DEF TypeOK, Answer
  <1>3. CASE CountDebits(r)
    <2>1. req' \in [Requests -> RequestStates]
      BY <1>3, GotoType DEF CountDebits
    <2> QED BY <1>3, <2>1 DEF TypeOK, CountDebits
  <1>4. CASE EnsureRow(r)
    <2>1. req' \in [Requests -> RequestStates]
      BY <1>4, GotoType DEF EnsureRow
    <2>2. FreshRow(today) \in BalanceRows
      BY FreshRowType DEF TypeOK
    <2>3. balance' \in [Users -> BalanceRows]
      BY <1>4, <2>2 DEF TypeOK, EnsureRow
    <2> QED BY <1>4, <2>1, <2>3 DEF TypeOK, EnsureRow
  <1>5. CASE StartDebit(r)
    <2>1. req[r] \in RequestStates /\ today \in 0..LastDay
      BY DEF TypeOK
    <2>2. [req[r] EXCEPT !.pc = "debiting", !.day = today] \in RequestStates
      BY <2>1 DEF RequestStates
    <2> QED BY <1>5, <2>2 DEF TypeOK, StartDebit
  <1>6. CASE ApplyDebit(r)
    <2> DEFINE q == req[r]
               old == balance[UserOf[r]]
    <2>1. /\ old \in BalanceRows /\ UserOf[r] \in Users
          /\ q \in RequestStates
      BY CreditsAssumption DEF TypeOK
    <2>2. Charge(old, q.day, q.cap, q.cost) \in BalanceRows
      BY <2>1, ChargedRowType DEF RequestStates
    <2>3. q.cost - FromPaid(old, q.day, q.cap, q.cost) \in Int
      BY <2>1, CreditsAssumption DEF RequestStates, BalanceRows, FromPaid, GreatestOf, Available, Stale
    <2>4. balance' \in [Users -> BalanceRows]
      BY <1>6, <2>2 DEF TypeOK, ApplyDebit
    <2>5. req' \in [Requests -> RequestStates]
      <3>1. ASSUME NEW to \in {"paid", "failed"},
                   req' = [req EXCEPT ![r].pc = to, ![r].charged = TRUE,
                             ![r].free = q.cost - FromPaid(old, q.day, q.cap, q.cost)]
            PROVE  req' \in [Requests -> RequestStates]
        <4>1. [q EXCEPT !.pc = to, !.charged = TRUE,
                 !.free = q.cost - FromPaid(old, q.day, q.cap, q.cost)] \in RequestStates
          BY <2>1, <2>3 DEF RequestStates
        <4> QED BY <3>1, <4>1 DEF TypeOK
      <3>2. ASSUME NEW to \in {"explaining", "failed"}, Goto(r, "debiting", to)
            PROVE  req' \in [Requests -> RequestStates]
        BY <3>2, GotoType
      <3> QED BY <1>6, <3>1, <3>2 DEF ApplyDebit
    <2> QED BY <1>6, <2>4, <2>5 DEF TypeOK, ApplyDebit
  <1>7. CASE ExplainDenial(r)
    <2>1. req' \in [Requests -> RequestStates]
      BY <1>7, GotoType DEF ExplainDenial
    <2> QED BY <1>7, <2>1 DEF TypeOK, ExplainDenial
  <1>8. CASE WriteLedger(r)
    <2>1. req' \in [Requests -> RequestStates]
      BY <1>8, GotoType DEF WriteLedger
    <2>2. DebitRow(r) \in LedgerRows
      BY CreditsAssumption DEF TypeOK, DebitRow, LedgerRows, RequestStates
    <2> QED BY <1>8, <2>1, <2>2 DEF TypeOK, WriteLedger
  <1> QED BY <1>1, <1>2, <1>3, <1>4, <1>5, <1>6, <1>7, <1>8 DEF HandlerStep

LEMMA AdminType ==
  ASSUME TypeOK, NEW a \in Admins, AdminStep(a)
  PROVE  TypeOK'
  <1>1. CASE GrantRead(a)
    <2>1. PICK u \in Users, d \in Deltas :
            adm' = [adm EXCEPT ![a] = ReadAdmin("grant", u, d)]
      BY <1>1 DEF GrantRead
    <2>2. ReadAdmin("grant", u, d) \in AdminStates /\ ReadAdmin("grant", u, d).user = u
      BY CreditsAssumption DEF TypeOK, AdminStates, AdminOps, BalanceRows, ReadAdmin
    <2> QED BY <1>1, <2>1, <2>2 DEF TypeOK, GrantRead
  <1>2. CASE GrantCommit(a)
    <2> DEFINE g == adm[a]
               row == IF g.found THEN balance[g.user] ELSE FreshRow(today)
    <2>1. g.user \in Users /\ row \in BalanceRows
      BY <1>2, FreshRowType DEF TypeOK, GrantCommit
    <2>2. GreatestOf(g.paid + g.delta, 0) \in Int
      BY DEF TypeOK, AdminStates, GreatestOf
    <2>3. [row EXCEPT !.paid = GreatestOf(g.paid + g.delta, 0)] \in BalanceRows
      BY <2>1, <2>2 DEF BalanceRows
    <2>4. balance' \in [Users -> BalanceRows]
      BY <1>2, <2>3 DEF TypeOK, GrantCommit
    <2>5. GrantRow(a) \in LedgerRows
      BY <2>1 DEF TypeOK, GrantRow, LedgerRows, AdminStates
    <2>6. ledger' \subseteq LedgerRows
      BY <1>2, <2>5 DEF TypeOK, GrantCommit
    <2>7. \E to \in {"done", "failed"} : adm' = [adm EXCEPT ![a].pc = to]
      BY <1>2 DEF GrantCommit
    <2>8. /\ adm' \in [Admins -> AdminStates]
          /\ \A b \in Admins : adm'[b].pc = "read" => adm'[b].user \in Users
      BY <2>7, AdminGotoType
    <2> QED BY <1>2, <2>4, <2>6, <2>8 DEF TypeOK, GrantCommit
  <1>3. CASE BlockRead(a)
    <2>1. PICK u \in Users :
            adm' = [adm EXCEPT ![a] = ReadAdmin("block", u, 0)]
      BY <1>3 DEF BlockRead
    <2>2. ReadAdmin("block", u, 0) \in AdminStates /\ ReadAdmin("block", u, 0).user = u
      BY CreditsAssumption DEF TypeOK, AdminStates, AdminOps, BalanceRows, ReadAdmin
    <2> QED BY <1>3, <2>1, <2>2 DEF TypeOK, BlockRead
  <1>4. CASE BlockWrite(a)
    <2> DEFINE b == adm[a]
               row == IF b.found THEN balance[b.user] ELSE FreshRow(b.day)
    <2>1. b.user \in Users /\ row \in BalanceRows /\ b.day \in 0..LastDay
      BY <1>4, FreshRowType DEF TypeOK, BlockWrite, AdminStates
    <2>2. [row EXCEPT !.date = b.day, !.blocked = TRUE] \in BalanceRows
      BY <2>1 DEF BalanceRows
    <2>3. balance' \in [Users -> BalanceRows]
      BY <1>4, <2>2 DEF TypeOK, BlockWrite
    <2>4. \E to \in {"done", "failed"} : adm' = [adm EXCEPT ![a].pc = to]
      BY <1>4 DEF BlockWrite
    <2>5. /\ adm' \in [Admins -> AdminStates]
          /\ \A x \in Admins : adm'[x].pc = "read" => adm'[x].user \in Users
      BY <2>4, AdminGotoType
    <2> QED BY <1>4, <2>3, <2>5 DEF TypeOK, BlockWrite
  <1>5. CASE Unblock(a)
    <2>1. PICK u \in Users : balance' = [balance EXCEPT ![u].blocked = FALSE]
      BY <1>5 DEF Unblock
    <2>2. balance[u] \in BalanceRows
      BY DEF TypeOK
    <2>3. [balance[u] EXCEPT !.blocked = FALSE] \in BalanceRows
      BY <2>2 DEF BalanceRows
    <2>4. balance' \in [Users -> BalanceRows]
      BY <2>1, <2>3 DEF TypeOK
    <2> QED BY <1>5, <2>4, AtOnceType DEF TypeOK, Unblock, AdminOps
  <1>6. CASE SetConfig(a)
    <2>1. \A v \in AllowanceInputs :
            ClampInt(v, 0, MaxAllowance, DefaultAllowance) \in 0..MaxAllowance
      BY CreditsAssumption DEF ClampInt
    <2>2. config' \in [allowance : 0..MaxAllowance, enabled : BOOLEAN]
      BY <1>6, <2>1 DEF TypeOK, SetConfig
    <2> QED BY <1>6, <2>2, AtOnceType DEF TypeOK, SetConfig, AdminOps
  <1> QED BY <1>1, <1>2, <1>3, <1>4, <1>5, <1>6 DEF AdminStep

LEMMA NextType == TypeOK /\ [Next]_vars => TypeOK'
  <1> SUFFICES ASSUME TypeOK, [Next]_vars
               PROVE  TypeOK'
    OBVIOUS
  <1> USE CreditsAssumption
  <1>1. ASSUME NEW r \in Requests, HandlerStep(r)
        PROVE  TypeOK'
    BY <1>1, HandlerType
  <1>2. ASSUME NEW a \in Admins, AdminStep(a)
        PROVE  TypeOK'
    BY <1>2, AdminType
  <1>3. CASE NextDay
    BY <1>3 DEF TypeOK, NextDay
  <1>4. CASE Crash
    <2>1. req' \in [Requests -> RequestStates]
      <3>1. ASSUME NEW r \in Requests
            PROVE  [req[r] EXCEPT !.pc = "lost"] \in RequestStates
        BY DEF TypeOK, RequestStates, Ended, Broken
      <3> QED BY <1>4, <3>1 DEF TypeOK, Crash
    <2>2. adm' \in [Admins -> AdminStates]
      BY <1>4 DEF TypeOK, Crash, AdminStates
    <2>3. \A a \in Admins : adm'[a].pc = "read" => adm'[a].user \in Users
      BY <1>4 DEF TypeOK, Crash, AdminStates
    <2> QED BY <1>4, <2>1, <2>2, <2>3 DEF TypeOK, Crash
  <1>5. CASE UNCHANGED vars
    BY <1>5 DEF TypeOK, vars
  <1> QED BY <1>1, <1>2, <1>3, <1>4, <1>5 DEF Next, Quiescent

\* Every reachable state is well typed.
THEOREM TypeCorrect == Spec => []TypeOK
  <1> QED BY InitType, NextType, PTL DEF Spec

-----------------------------------------------------------------------------
(* The balances stay in bounds.                                            *)

InBounds(row) == row.paid >= 0 /\ row.used \in 0..MaxAllowance

LEMMA HandlerBounds ==
  ASSUME TypeOK, BalanceInBounds, NEW r \in Requests, HandlerStep(r)
  PROVE  BalanceInBounds'
  <1> DEFINE u == UserOf[r]
             q == req[r]
  <1>1. /\ u \in Users
        /\ balance \in [Users -> BalanceRows]
        /\ q \in RequestStates
        /\ MaxAllowance \in Nat
        /\ \A v \in Users : InBounds(balance[v])
    BY CreditsAssumption DEF TypeOK, BalanceInBounds, InBounds
  <1>2. CASE EnsureRow(r)
    <2>1. InBounds(FreshRow(today))
      BY <1>1 DEF InBounds, FreshRow
    <2>2. \A v \in Users : InBounds(balance'[v])
      BY <1>1, <1>2, <2>1 DEF EnsureRow
    <2> QED BY <2>2 DEF BalanceInBounds, InBounds
  <1>3. CASE ApplyDebit(r)
    <2>1. CASE UNCHANGED balance
      BY <2>1 DEF BalanceInBounds
    <2>2. CASE /\ Admits(balance[u], q.day, q.cap, q.cost)
               /\ balance' = [balance EXCEPT ![u] = Charge(@, q.day, q.cap, q.cost)]
      <3>1. /\ balance[u] \in BalanceRow /\ q.day \in Int
            /\ q.cap \in 0..MaxAllowance /\ q.cap \in Nat /\ q.cost \in Nat
        BY <1>1, CreditsAssumption DEF BalanceRows, BalanceRow, RequestStates
      <3>2. balance[u].used >= 0 /\ balance[u].paid >= 0
        BY <1>1 DEF InBounds
      <3>3. /\ Charge(balance[u], q.day, q.cap, q.cost).paid >= 0
            /\ Charge(balance[u], q.day, q.cap, q.cost).used \in 0..q.cap
        BY <2>2, <3>1, <3>2, ChargeInBounds
      <3>4. InBounds(Charge(balance[u], q.day, q.cap, q.cost))
        BY <1>1, <3>1, <3>3 DEF InBounds
      <3>5. \A v \in Users : InBounds(balance'[v])
        BY <1>1, <2>2, <3>4
      <3> QED BY <3>5 DEF BalanceInBounds, InBounds
    <2> QED BY <1>3, <2>1, <2>2 DEF ApplyDebit
  <1>4. CASE UNCHANGED balance
    BY <1>4 DEF BalanceInBounds
  <1> QED BY <1>2, <1>3, <1>4
          DEF HandlerStep, Arrive, Answer, CountDebits, StartDebit, ExplainDenial, WriteLedger

LEMMA AdminBounds ==
  ASSUME TypeOK, BalanceInBounds, NEW a \in Admins, AdminStep(a)
  PROVE  BalanceInBounds'
  <1> DEFINE g == adm[a]
  <1>1. /\ balance \in [Users -> BalanceRows]
        /\ g \in AdminStates
        /\ MaxAllowance \in Nat
        /\ \A v \in Users : InBounds(balance[v])
        /\ \A d : InBounds(FreshRow(d))
    BY CreditsAssumption DEF TypeOK, BalanceInBounds, InBounds, FreshRow
  <1>2. ASSUME NEW u \in Users, NEW row, InBounds(row), balance' = [balance EXCEPT ![u] = row]
        PROVE  BalanceInBounds'
    BY <1>1, <1>2 DEF BalanceInBounds, InBounds
  <1>3. CASE UNCHANGED balance
    BY <1>3 DEF BalanceInBounds
  <1>4. CASE GrantCommit(a)
    <2> DEFINE row == IF g.found THEN balance[g.user] ELSE FreshRow(today)
    <2>1. g.user \in Users /\ row \in BalanceRows
      BY <1>4, FreshRowType DEF TypeOK, GrantCommit
    <2>2. InBounds([row EXCEPT !.paid = GreatestOf(g.paid + g.delta, 0)])
      BY <1>1, <2>1 DEF InBounds, BalanceRows, GreatestOf, AdminStates
    <2> QED BY <1>2, <1>3, <1>4, <2>1, <2>2 DEF GrantCommit
  <1>5. CASE BlockWrite(a)
    <2> DEFINE row == IF g.found THEN balance[g.user] ELSE FreshRow(g.day)
    <2>1. g.user \in Users /\ row \in BalanceRows
      BY <1>1, <1>5, FreshRowType DEF TypeOK, BlockWrite, AdminStates
    <2>2. InBounds([row EXCEPT !.date = g.day, !.blocked = TRUE])
      BY <1>1, <2>1 DEF InBounds, BalanceRows
    <2> QED BY <1>2, <1>3, <1>5, <2>1, <2>2 DEF BlockWrite
  <1>6. CASE Unblock(a)
    <2>1. PICK u \in Users : balance' = [balance EXCEPT ![u].blocked = FALSE]
      BY <1>6 DEF Unblock
    <2>2. InBounds([balance[u] EXCEPT !.blocked = FALSE])
      BY <1>1 DEF InBounds, BalanceRows
    <2> QED BY <1>2, <2>1, <2>2
  <1> QED BY <1>3, <1>4, <1>5, <1>6 DEF AdminStep, GrantRead, BlockRead, SetConfig

\* No order of debits, grants, blocks and allowance changes overdraws a
\* balance: paid_balance never goes below zero and daily_used stays within the
\* largest allowance there can be.
THEOREM BalancesStayInBounds == Spec => []BalanceInBounds
  <1>1. Init => BalanceInBounds
    BY CreditsAssumption DEF Init, BalanceInBounds, Row
  <1>2. TypeOK /\ BalanceInBounds /\ [Next]_vars => BalanceInBounds'
    <2> SUFFICES ASSUME TypeOK, BalanceInBounds, [Next]_vars
                 PROVE  BalanceInBounds'
      OBVIOUS
    <2>1. CASE UNCHANGED balance
      BY <2>1 DEF BalanceInBounds
    <2> QED BY <2>1, HandlerBounds, AdminBounds DEF Next, NextDay, Crash, Quiescent, vars
  <1> QED BY <1>1, <1>2, TypeCorrect, PTL DEF Spec

-----------------------------------------------------------------------------
(* Charging. The steps of a handler fall into five kinds, by what they do  *)
(* to the request's charge and to the ledger.                              *)

Before == Waiting \ {"paid"}
After == {"paid", "served"} \cup Broken

Keeps(r) == /\ req'[r].charged = req[r].charged
            /\ req'[r].cost = req[r].cost

\* The handler goes on, not charged yet.
GoesOn(r) == /\ req[r].pc \in Before /\ req'[r].pc \in Before
             /\ req'[r].charged = req[r].charged
             /\ UNCHANGED ledger
\* The handler ends without a charge.
Ends(r) == /\ req[r].pc \in Before /\ req'[r].pc \in Turned \cup {"failed"}
           /\ Keeps(r)
           /\ UNCHANGED ledger
\* The UPDATE takes effect.
Pays(r) == /\ req[r].pc \in Before /\ req'[r].pc \in {"paid", "failed"}
           /\ req'[r].charged
           /\ req'[r].cost = req[r].cost
           /\ UNCHANGED ledger
\* The dedup path.
ServesFree(r) == /\ req[r].pc \in Before /\ req'[r].pc = "served"
                 /\ PromptOf[r] # NoPrompt /\ AlreadyDebited(r)
                 /\ Keeps(r)
                 /\ UNCHANGED ledger
\* The ledger write after a charge.
ServesPaid(r) == /\ req[r].pc = "paid" /\ req'[r].pc = "served"
                 /\ Keeps(r)
                 /\ ledger' \in {ledger, ledger \cup {DebitRow(r)}}

LEMMA HandlerEffect ==
  ASSUME TypeOK, NEW r \in Requests, HandlerStep(r)
  PROVE  /\ \A s \in Requests \ {r} : req'[s] = req[s]
         /\ GoesOn(r) \/ Ends(r) \/ Pays(r) \/ ServesFree(r) \/ ServesPaid(r)
  <1> USE DEF Before, Waiting, Turned
  <1>1. /\ req \in [Requests -> RequestStates]
        /\ req[r] \in RequestStates
    BY DEF TypeOK
  <1>2. ASSUME NEW from, NEW to, Goto(r, from, to)
        PROVE  /\ \A s \in Requests \ {r} : req'[s] = req[s]
               /\ req[r].pc = from /\ req'[r].pc = to
               /\ Keeps(r)
    BY <1>1, <1>2 DEF Goto, Keeps, RequestStates
  <1>3. CASE Arrive(r)
    <2>1. /\ \A s \in Requests \ {r} : req'[s] = req[s]
          /\ req'[r].pc \in {"dispatched", "disabled"}
          /\ Keeps(r)
      BY <1>1, <1>3 DEF Arrive, Keeps, RequestStates
    <2> QED BY <1>3, <2>1 DEF Arrive, GoesOn, Ends, Keeps
  <1>4. CASE Answer(r)
    <2>1. CASE Goto(r, "dispatched", "unrouted")
      <3>1. UNCHANGED ledger
        BY <1>4 DEF Answer
      <3> QED BY <1>2, <2>1, <3>1 DEF Ends
    <2>2. ASSUME NEW c \in Costs, NEW s \in Statuses, req[r].pc = "dispatched",
                 req' = [req EXCEPT ![r].pc = "answered", ![r].cost = c, ![r].status = s]
          PROVE  GoesOn(r) /\ \A t \in Requests \ {r} : req'[t] = req[t]
      <3>1. req'[r].pc = "answered" /\ req'[r].charged = req[r].charged
        BY <1>1, <2>2 DEF RequestStates
      <3> QED BY <1>1, <1>4, <2>2, <3>1 DEF Answer, GoesOn
    <2> QED BY <1>4, <2>1, <2>2 DEF Answer
  <1>5. CASE CountDebits(r)
    BY <1>2, <1>5 DEF CountDebits, GoesOn, ServesFree, Keeps
  <1>6. CASE EnsureRow(r)
    BY <1>2, <1>6 DEF EnsureRow, GoesOn, Ends, Keeps
  <1>7. CASE StartDebit(r)
    <2>1. /\ \A s \in Requests \ {r} : req'[s] = req[s]
          /\ req'[r].pc = "debiting" /\ Keeps(r)
      BY <1>1, <1>7 DEF StartDebit, Keeps, RequestStates
    <2> QED BY <1>7, <2>1 DEF StartDebit, GoesOn, Keeps
  <1>8. CASE ApplyDebit(r)
    <2>1. ASSUME NEW to \in {"paid", "failed"}, NEW f,
                 req' = [req EXCEPT ![r].pc = to, ![r].charged = TRUE, ![r].free = f]
          PROVE  Pays(r) /\ \A s \in Requests \ {r} : req'[s] = req[s]
      <3>1. req'[r].pc = to /\ req'[r].charged /\ req'[r].cost = req[r].cost
        BY <1>1, <2>1 DEF RequestStates
      <3> QED BY <1>1, <1>8, <2>1, <3>1 DEF ApplyDebit, Pays
    <2>2. ASSUME NEW to \in {"explaining", "failed"}, Goto(r, "debiting", to)
          PROVE  /\ GoesOn(r) \/ Ends(r)
                 /\ \A s \in Requests \ {r} : req'[s] = req[s]
      BY <1>2, <1>8, <2>2 DEF ApplyDebit, GoesOn, Ends, Keeps
    <2> QED BY <1>8, <2>1, <2>2 DEF ApplyDebit
  <1>9. CASE ExplainDenial(r)
    <2>1. \E to \in {"forbidden", "refused"} : Goto(r, "explaining", to)
      BY <1>9 DEF ExplainDenial
    <2> QED BY <1>2, <1>9, <2>1 DEF ExplainDenial, Ends
  <1>10. CASE WriteLedger(r)
    <2>1. Goto(r, "paid", "served")
      BY <1>10 DEF WriteLedger
    <2>2. ledger' \in {ledger, ledger \cup {DebitRow(r)}}
      BY <1>10 DEF WriteLedger
    <2> QED BY <1>2, <2>1, <2>2 DEF ServesPaid
  <1> QED BY <1>3, <1>4, <1>5, <1>6, <1>7, <1>8, <1>9, <1>10 DEF HandlerStep

\* ServedIsPaidFor in the words of the dedup query.
ServedByCharge ==
  \A r \in Requests :
    req[r].pc = "served" => req[r].charged \/ (PromptOf[r] # NoPrompt /\ AlreadyDebited(r))

\* What makes the charging properties inductive: a handler is past the UPDATE
\* once it is charged, and is charged when it goes on to the ledger.
ChargeInv ==
  /\ \A r \in Requests : req[r].charged => req[r].pc \in After
  /\ \A r \in Requests : req[r].pc = "paid" => req[r].charged
  /\ LedgerDebitsAreCharges
  /\ ServedByCharge

LEMMA HandlerCharge ==
  ASSUME TypeOK, ChargeInv, NEW r \in Requests, HandlerStep(r)
  PROVE  ChargeInv'
  <1> USE DEF Before, After, Waiting, Turned, Broken
  <1>1. \A s \in Requests \ {r} : req'[s] = req[s]
    BY HandlerEffect
  <1>2. GoesOn(r) \/ Ends(r) \/ Pays(r) \/ ServesFree(r) \/ ServesPaid(r)
    BY HandlerEffect
  <1>3. ledger \subseteq ledger'
    BY <1>2 DEF GoesOn, Ends, Pays, ServesFree, ServesPaid
  <1>4. req[r].charged => req'[r].charged /\ req'[r].cost = req[r].cost
    BY <1>2 DEF ChargeInv, GoesOn, Ends, Pays, ServesFree, ServesPaid, Keeps
  <1>5. (\A s \in Requests : req[s].charged => req[s].pc \in After)'
    BY <1>1, <1>2 DEF ChargeInv, GoesOn, Ends, Pays, ServesFree, ServesPaid, Keeps
  <1>6. (\A s \in Requests : req[s].pc = "paid" => req[s].charged)'
    BY <1>1, <1>2 DEF ChargeInv, GoesOn, Ends, Pays, ServesFree, ServesPaid, Keeps
  <1>7. LedgerDebitsAreCharges'
    <2>1. ASSUME NEW s \in Requests, req[s].charged
          PROVE  DebitRow(s)' = DebitRow(s) /\ req'[s].charged
      BY <1>1, <1>4, <2>1 DEF DebitRow
    <2>2. ASSUME NEW row \in ledger', row \notin ledger
          PROVE  row = DebitRow(r) /\ req[r].charged
      BY <1>2, <2>2 DEF ChargeInv, GoesOn, Ends, Pays, ServesFree, ServesPaid
    <2> QED BY <2>1, <2>2 DEF ChargeInv, LedgerDebitsAreCharges
  <1>8. ServedByCharge'
    <2>1. \A s \in Requests : AlreadyDebited(s) => AlreadyDebited(s)'
      BY <1>3 DEF AlreadyDebited
    <2>2. ASSUME NEW s \in Requests \ {r}, req'[s].pc = "served"
          PROVE  req'[s].charged \/ (PromptOf[s] # NoPrompt /\ AlreadyDebited(s)')
      BY <1>1, <2>1, <2>2 DEF ChargeInv, ServedByCharge
    <2>3. ASSUME req'[r].pc = "served"
          PROVE  req'[r].charged \/ (PromptOf[r] # NoPrompt /\ AlreadyDebited(r)')
      BY <1>2, <2>1, <2>3
      DEF ChargeInv, GoesOn, Ends, Pays, ServesFree, ServesPaid, Keeps
    <2> QED BY <2>2, <2>3 DEF ServedByCharge
  <1> QED BY <1>5, <1>6, <1>7, <1>8 DEF ChargeInv

\* A crash loses handlers, not charges or rows.
LEMMA CrashEffect ==
  ASSUME TypeOK, Crash
  PROVE  /\ UNCHANGED ledger
         /\ \A r \in Requests :
              /\ Keeps(r)
              /\ req'[r].pc = IF req[r].pc \in Waiting \ {"new"} THEN "lost" ELSE req[r].pc
  BY DEF TypeOK, Crash, Keeps, RequestStates

LEMMA ChargeStep ==
  ASSUME TypeOK, ChargeInv, [Next]_vars
  PROVE  ChargeInv'
  <1>1. ASSUME NEW r \in Requests, HandlerStep(r)
        PROVE  ChargeInv'
    BY <1>1, HandlerCharge
  <1>2. ASSUME UNCHANGED req, ledger \subseteq ledger',
               \A row \in ledger' \ ledger : row.kind = "admin_grant"
        PROVE  ChargeInv'
    <2>1. \A r \in Requests : DebitRow(r)' = DebitRow(r)
      BY <1>2 DEF DebitRow
    <2>2. LedgerDebitsAreCharges'
      BY <1>2, <2>1 DEF ChargeInv, LedgerDebitsAreCharges
    <2>3. ServedByCharge'
      BY <1>2 DEF ChargeInv, ServedByCharge, AlreadyDebited
    <2> QED BY <1>2, <2>2, <2>3 DEF ChargeInv
  <1>3. ASSUME NEW a \in Admins, AdminStep(a)
        PROVE  ChargeInv'
    <2>1. UNCHANGED req /\ ledger \subseteq ledger'
      BY <1>3 DEF AdminStep, GrantRead, GrantCommit, BlockRead, BlockWrite, Unblock, SetConfig
    <2>2. \A row \in ledger' \ ledger : row.kind = "admin_grant"
      BY <1>3 DEF AdminStep, GrantRead, GrantCommit, BlockRead, BlockWrite, Unblock,
                  SetConfig, GrantRow
    <2> QED BY <1>2, <2>1, <2>2
  <1>4. CASE Crash
    <2>1. UNCHANGED ledger
      BY <1>4, CrashEffect
    <2>2. ASSUME NEW r \in Requests
          PROVE  /\ Keeps(r)
                 /\ req'[r].pc = IF req[r].pc \in Waiting \ {"new"} THEN "lost" ELSE req[r].pc
      BY <1>4, CrashEffect
    <2>3. \A r \in Requests : DebitRow(r)' = DebitRow(r)
      BY <2>2 DEF DebitRow, Keeps
    <2>4. LedgerDebitsAreCharges'
      BY <2>1, <2>2, <2>3 DEF ChargeInv, LedgerDebitsAreCharges, Keeps
    <2>5. ServedByCharge'
      BY <2>1, <2>2 DEF ChargeInv, ServedByCharge, AlreadyDebited, Keeps
    <2>6. /\ (\A r \in Requests : req[r].charged => req[r].pc \in After)'
          /\ (\A r \in Requests : req[r].pc = "paid" => req[r].charged)'
      BY <2>2 DEF ChargeInv, Keeps, After, Waiting, Broken
    <2> QED BY <2>4, <2>5, <2>6 DEF ChargeInv
  <1>5. CASE UNCHANGED <<req, ledger>>
    BY <1>2, <1>5
  <1> QED BY <1>1, <1>3, <1>4, <1>5 DEF Next, NextDay, Quiescent, vars

LEMMA ChargeInvariant == Spec => [](TypeOK /\ ChargeInv)
  <1>1. Init => ChargeInv
    BY DEF Init, ChargeInv, IdleRequest, LedgerDebitsAreCharges, ServedByCharge
  <1>2. TypeOK /\ ChargeInv /\ [Next]_vars => ChargeInv'
    BY ChargeStep
  <1> QED BY <1>1, <1>2, TypeCorrect, PTL DEF Spec

\* Whoever is served has paid for the prompt: the request was charged, or a
\* debit of another request of that user and prompt is in the ledger.
THEOREM ServedArePaidFor == Spec => []ServedIsPaidFor
  <1>1. ASSUME ChargeInv, NEW r \in Requests, PromptOf[r] # NoPrompt, AlreadyDebited(r)
        PROVE  OnRecord(r)
    <2>1. PICK row \in ledger : /\ row.kind = "debit_prompt"
                                /\ row.user = UserOf[r]
                                /\ row.prompt = PromptOf[r]
      BY <1>1 DEF AlreadyDebited
    <2>2. PICK s \in Requests : row = DebitRow(s) /\ req[s].charged
      BY <1>1, <2>1 DEF ChargeInv, LedgerDebitsAreCharges
    <2>3. <<r, s>> \in SamePrompt
      BY <1>1, <2>1, <2>2 DEF SamePrompt, DebitRow
    <2> QED BY <2>1, <2>2, <2>3 DEF OnRecord
  <1>2. ChargeInv => ServedIsPaidFor
    BY <1>1 DEF ChargeInv, ServedByCharge, ServedIsPaidFor
  <1> QED BY <1>2, ChargeInvariant, PTL

\* The ledger records no debit that did not happen.
THEOREM LedgerIsTrue == Spec => []LedgerDebitsAreCharges
  <1>1. ChargeInv => LedgerDebitsAreCharges
    BY DEF ChargeInv
  <1> QED BY <1>1, ChargeInvariant, PTL

-----------------------------------------------------------------------------
(* The refinement. The images of Billing's variables, by name.             *)

Outcomes == [r \in Requests |-> Outcome(r)]
ChargedSet == {r \in Requests : req[r].charged}
RecordedSet == {r \in Requests : DebitRow(r) \in ledger}

\* A debit row of the ledger belongs to a charged request.
LEMMA RecordedAreCharged ==
  ASSUME LedgerDebitsAreCharges, NEW r \in Requests, NEW row \in ledger,
         row.kind = "debit_prompt", row.id = r
  PROVE  req[r].charged
  BY DEF LedgerDebitsAreCharges, DebitRow

LEMMA InitRefines == Init => Bill!Init
  <1> SUFFICES ASSUME Init
               PROVE  Bill!Init
    OBVIOUS
  <1>1. \A r \in Requests : Outcome(r) = "open"
    BY DEF Init, IdleRequest, Outcome, Turned, Broken
  <1>2. {r \in Requests : req[r].charged} = {}
    BY DEF Init, IdleRequest
  <1>3. {r \in Requests : DebitRow(r) \in ledger} = {}
    BY DEF Init
  <1> QED BY <1>1, <1>2, <1>3 DEF Bill!Init

\* What a handler's step does to the images: only those of its own request can
\* change.
LEMMA HandlerFrame ==
  ASSUME TypeOK, ChargeInv, NEW r \in Requests, HandlerStep(r)
  PROVE  /\ \A s \in Requests \ {r} :
              /\ Outcome(s)' = Outcome(s)
              /\ s \in ChargedSet' <=> s \in ChargedSet
              /\ s \in RecordedSet' <=> s \in RecordedSet
         /\ ~ServesPaid(r) => (r \in RecordedSet' <=> r \in RecordedSet)
  <1>1. \A s \in Requests \ {r} : req'[s] = req[s]
    BY HandlerEffect
  <1>2. GoesOn(r) \/ Ends(r) \/ Pays(r) \/ ServesFree(r) \/ ServesPaid(r)
    BY HandlerEffect
  <1>3. \A s \in Requests \ {r} : Outcome(s)' = Outcome(s)
    BY <1>1 DEF Outcome
  <1>4. \A s \in Requests \ {r} : s \in ChargedSet' <=> s \in ChargedSet
    BY <1>1 DEF ChargedSet
  <1>5. ASSUME NEW s \in Requests \ {r}
        PROVE  s \in RecordedSet' <=> s \in RecordedSet
    <2>1. DebitRow(s)' = DebitRow(s)
      BY <1>1 DEF DebitRow
    <2>2. DebitRow(s) # DebitRow(r)
      BY DEF DebitRow
    <2>3. DebitRow(s) \in ledger' <=> DebitRow(s) \in ledger
      BY <1>2, <2>2 DEF GoesOn, Ends, Pays, ServesFree, ServesPaid
    <2> QED BY <2>1, <2>3 DEF RecordedSet
  <1>6. ASSUME ~ServesPaid(r)
        PROVE  r \in RecordedSet' <=> r \in RecordedSet
    <2>1. UNCHANGED ledger
      BY <1>2, <1>6 DEF GoesOn, Ends, Pays, ServesFree
    <2>2. CASE Keeps(r)
      BY <2>1, <2>2 DEF RecordedSet, DebitRow, Keeps
    <2>3. CASE ~req[r].charged
      <3>1. \A row \in ledger : ~(row.kind = "debit_prompt" /\ row.id = r)
        BY <2>3, RecordedAreCharged DEF ChargeInv
      <3>2. /\ DebitRow(r).kind = "debit_prompt" /\ DebitRow(r).id = r
            /\ DebitRow(r)'.kind = "debit_prompt" /\ DebitRow(r)'.id = r
        BY DEF DebitRow
      <3> QED BY <2>1, <3>1, <3>2 DEF RecordedSet
    <2> QED BY <1>2, <1>6, <2>2, <2>3
            DEF GoesOn, Ends, Pays, ServesFree, ChargeInv, Before, After, Waiting, Broken
  <1> QED BY <1>3, <1>4, <1>5, <1>6

\* A handler's step is a step of Billing, or leaves Billing's state alone.
LEMMA HandlerRefines ==
  ASSUME TypeOK, ChargeInv, NEW r \in Requests, HandlerStep(r)
  PROVE  Bill!Next \/ UNCHANGED <<Outcomes, ChargedSet, RecordedSet>>
  <1>1. \A s \in Requests \ {r} :
          /\ Outcome(s)' = Outcome(s)
          /\ s \in ChargedSet' <=> s \in ChargedSet
          /\ s \in RecordedSet' <=> s \in RecordedSet
    BY HandlerFrame
  <1>2. ~ServesPaid(r) => (r \in RecordedSet' <=> r \in RecordedSet)
    BY HandlerFrame
  <1>3. /\ ChargedSet \subseteq Requests /\ ChargedSet' \subseteq Requests
        /\ RecordedSet \subseteq Requests /\ RecordedSet' \subseteq Requests
    BY DEF ChargedSet, RecordedSet
  <1>4. ~ServesPaid(r) => UNCHANGED RecordedSet
    BY <1>1, <1>2, <1>3
  <1>5. Outcomes' = [Outcomes EXCEPT ![r] = Outcome(r)']
    BY <1>1 DEF Outcomes
  <1>6. req[r].pc \in Before \cup {"paid"} => Outcome(r) = "open"
    BY DEF Outcome, Before, Waiting, Turned, Broken
  <1>7. req[r].pc \in Before => r \notin ChargedSet
    BY DEF ChargeInv, ChargedSet, Before, After, Waiting, Broken
  <1>8. (r \in ChargedSet' <=> r \in ChargedSet) => UNCHANGED ChargedSet
    BY <1>1, <1>3
  <1>9. Outcomes[r] = Outcome(r)
    BY DEF Outcomes
  <1> USE DEF Bill!Next, Bill!Open, Bill!Conclude
  <1>10. CASE GoesOn(r)
    <2>1. Outcome(r)' = "open" /\ Outcome(r) = "open"
      BY <1>6, <1>10 DEF GoesOn, Outcome, Before, Waiting, Turned, Broken
    <2>2. UNCHANGED Outcomes
      BY <1>5, <1>9, <2>1 DEF Outcomes
    <2>3. UNCHANGED ChargedSet
      BY <1>8, <1>10 DEF GoesOn, ChargedSet
    <2>4. ~ServesPaid(r)
      BY <1>10 DEF GoesOn, ServesPaid, Before, Waiting
    <2> QED BY <1>4, <2>2, <2>3, <2>4
  <1>11. CASE Ends(r)
    <2>1. UNCHANGED ChargedSet /\ UNCHANGED RecordedSet
      BY <1>4, <1>8, <1>11 DEF Ends, ServesPaid, Keeps, ChargedSet, Before, Waiting
    <2>2. Outcome(r) = "open" /\ r \notin ChargedSet
      BY <1>6, <1>7, <1>11 DEF Ends
    <2>3. CASE req'[r].pc \in Turned
      <3>1. Outcome(r)' = "turned"
        BY <2>3 DEF Outcome, Turned, Broken
      <3>2. Bill!TurnDown(r)
        BY <1>5, <1>9, <2>1, <2>2, <3>1
        DEF Bill!TurnDown, Outcomes, ChargedSet, RecordedSet
      <3> QED BY <3>2
    <2>4. CASE req'[r].pc = "failed"
      <3>1. Outcome(r)' = "broken"
        BY <2>4 DEF Outcome, Turned, Broken
      <3>2. Outcomes' = [s \in Requests |-> IF s \in {r} THEN "broken" ELSE Outcomes[s]]
        BY <1>5, <3>1 DEF Outcomes
      <3>3. {r} \in SUBSET {s \in Requests : Outcomes[s] = "open"}
        BY <1>9, <2>2
      <3>4. Bill!BreakOff
        BY <2>1, <3>2, <3>3 DEF Bill!BreakOff, Outcomes, ChargedSet, RecordedSet
      <3> QED BY <3>4
    <2> QED BY <1>11, <2>3, <2>4 DEF Ends
  <1>12. CASE Pays(r)
    <2>1. UNCHANGED RecordedSet
      BY <1>4, <1>12 DEF Pays, ServesPaid, Before, Waiting
    <2>2. Outcome(r) = "open" /\ r \notin ChargedSet
      BY <1>6, <1>7, <1>12 DEF Pays
    <2>3. ChargedSet' = ChargedSet \cup {r}
      BY <1>1, <1>3, <1>12 DEF Pays, ChargedSet
    <2>4. Outcome(r)' \in {"open", "broken"}
      BY <1>12 DEF Pays, Outcome, Turned, Broken
    <2>5. Outcomes' \in {Outcomes, [Outcomes EXCEPT ![r] = "broken"]}
      BY <1>5, <1>9, <2>2, <2>4 DEF Outcomes
    <2>6. Bill!Charge(r)
      BY <1>9, <2>1, <2>2, <2>3, <2>5 DEF Bill!Charge, Outcomes, ChargedSet, RecordedSet
    <2> QED BY <2>6
  <1>13. CASE ServesFree(r)
    <2>1. UNCHANGED ChargedSet /\ UNCHANGED RecordedSet
      BY <1>4, <1>8, <1>13 DEF ServesFree, ServesPaid, Keeps, ChargedSet, Before, Waiting
    <2>2. Outcome(r) = "open" /\ Outcome(r)' = "served"
      BY <1>6, <1>13 DEF ServesFree, Outcome, Turned, Broken
    <2>3. PICK row \in ledger : /\ row.kind = "debit_prompt"
                                /\ row.user = UserOf[r]
                                /\ row.prompt = PromptOf[r]
      BY <1>13 DEF ServesFree, AlreadyDebited
    <2>4. PICK s \in Requests : row = DebitRow(s)
      BY <2>3 DEF ChargeInv, LedgerDebitsAreCharges
    <2>5. <<r, s>> \in SamePrompt /\ s \in RecordedSet
      BY <1>13, <2>3, <2>4 DEF SamePrompt, DebitRow, RecordedSet, ServesFree
    <2>6. Bill!ServeRecorded(r)
      BY <1>5, <1>9, <2>1, <2>2, <2>5
      DEF Bill!ServeRecorded, Outcomes, ChargedSet, RecordedSet
    <2> QED BY <2>6
  <1>14. CASE ServesPaid(r)
    <2>1. UNCHANGED ChargedSet
      BY <1>8, <1>14 DEF ServesPaid, Keeps, ChargedSet
    <2>2. /\ Outcome(r) = "open" /\ Outcome(r)' = "served"
          /\ r \in ChargedSet
      BY <1>6, <1>14 DEF ServesPaid, Outcome, Turned, Broken, ChargeInv, ChargedSet
    <2>3. DebitRow(r)' = DebitRow(r) /\ ledger \subseteq ledger'
      BY <1>14 DEF ServesPaid, Keeps, DebitRow
    <2>4. RecordedSet' \in {RecordedSet, RecordedSet \cup {r}}
      BY <1>1, <1>3, <2>3 DEF RecordedSet
    <2>5. Bill!ServeCharged(r)
      BY <1>5, <1>9, <2>1, <2>2, <2>4
      DEF Bill!ServeCharged, Outcomes, ChargedSet, RecordedSet
    <2> QED BY <2>5
  <1> QED BY <1>10, <1>11, <1>12, <1>13, <1>14, HandlerEffect

\* A crash breaks off every request in flight.
LEMMA CrashRefines ==
  ASSUME TypeOK, Crash
  PROVE  Bill!Next
  <1> DEFINE S == {r \in Requests : req[r].pc \in Waiting \ {"new"}}
  <1>1. UNCHANGED ledger
    BY CrashEffect
  <1>2. ASSUME NEW r \in Requests
        PROVE  /\ Keeps(r)
               /\ req'[r].pc = IF r \in S THEN "lost" ELSE req[r].pc
    BY CrashEffect
  <1>3. UNCHANGED ChargedSet /\ UNCHANGED RecordedSet
    BY <1>1, <1>2 DEF ChargedSet, RecordedSet, Keeps, DebitRow
  <1>4. Outcomes' = [r \in Requests |-> IF r \in S THEN "broken" ELSE Outcomes[r]]
    BY <1>2 DEF Outcomes, Outcome, Turned, Broken
  <1>5. S \in SUBSET {r \in Requests : Outcomes[r] = "open"}
    BY DEF Outcomes, Outcome, Waiting, Turned, Broken
  <1> HIDE DEF S
  <1>6. Bill!BreakOff
    BY <1>3, <1>4, <1>5 DEF Bill!BreakOff, Bill!Open, Outcomes, ChargedSet, RecordedSet
  <1> QED BY <1>6 DEF Bill!Next

LEMMA StepRefines ==
  TypeOK /\ ChargeInv /\ [Next]_vars => [Bill!Next]_<<Outcomes, ChargedSet, RecordedSet>>
  <1> SUFFICES ASSUME TypeOK, ChargeInv, [Next]_vars
               PROVE  Bill!Next \/ UNCHANGED <<Outcomes, ChargedSet, RecordedSet>>
    OBVIOUS
  <1>1. ASSUME NEW r \in Requests, HandlerStep(r)
        PROVE  Bill!Next \/ UNCHANGED <<Outcomes, ChargedSet, RecordedSet>>
    BY <1>1, HandlerRefines
  <1>2. ASSUME NEW a \in Admins, AdminStep(a)
        PROVE  UNCHANGED <<Outcomes, ChargedSet, RecordedSet>>
    <2>1. UNCHANGED req
      BY <1>2 DEF AdminStep, GrantRead, GrantCommit, BlockRead, BlockWrite, Unblock, SetConfig
    <2>2. \A row : row.kind = "debit_prompt" => (row \in ledger' <=> row \in ledger)
      BY <1>2 DEF AdminStep, GrantRead, GrantCommit, BlockRead, BlockWrite, Unblock,
                  SetConfig, GrantRow
    <2>3. \A r \in Requests : /\ DebitRow(r)' = DebitRow(r)
                              /\ DebitRow(r).kind = "debit_prompt"
      BY <2>1 DEF DebitRow
    <2>4. UNCHANGED RecordedSet
      BY <2>2, <2>3 DEF RecordedSet
    <2>5. UNCHANGED Outcomes /\ UNCHANGED ChargedSet
      BY <2>1 DEF Outcomes, Outcome, ChargedSet
    <2> QED BY <2>4, <2>5
  <1>3. CASE Crash
    BY <1>3, CrashRefines
  <1>4. CASE UNCHANGED <<req, ledger>>
    BY <1>4 DEF Outcomes, Outcome, ChargedSet, RecordedSet, DebitRow
  <1> QED BY <1>1, <1>2, <1>3, <1>4 DEF Next, NextDay, Quiescent, vars

\* The handlers, statement by statement, implement the promise of Billing.
THEOREM CreditsImplementsBilling == Spec => BillingSpec
  <1>1. TypeOK /\ ChargeInv /\ [Next]_vars => [Bill!Next]_(Bill!billing)
    BY StepRefines DEF Bill!billing, Outcomes, ChargedSet, RecordedSet
  <1> QED BY <1>1, InitRefines, ChargeInvariant, PTL DEF Spec, BillingSpec, Bill!Spec
=============================================================================
