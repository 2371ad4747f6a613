---------------------------- MODULE ChargingProofs ----------------------------
(***************************************************************************)
(* Promises of Credits about the order of things, no charge after a block, *)
(* none after a debit of the prompt was seen, and a record of every charge *)
(* that returns; and the accounts of CreditsAccounting. For any users,     *)
(* requests, admin calls, costs, allowances and number of days.            *)
(***************************************************************************)
EXTENDS CreditsAccounting, CreditsProofs, CountingTheorems

(***************************************************************************)
(* A block holds: until an unblock is called, an acknowledged block is in  *)
(* the row, which no statement in flight replaces.                         *)
(***************************************************************************)
Unblocked == \E a \in Admins : adm[a].op = "unblock"
Blocks(u) == \E a \in Admins : adm[a].op = "block" /\ adm[a].pc = "done" /\ adm[a].user = u

BlockInv ==
  /\ \A a \in Admins : adm[a].pc = "new" => adm[a].op = "none"
  /\ \A a \in Admins : adm[a].pc = "read" /\ adm[a].found => balance[adm[a].user].present
  /\ Unblocked \/ \A u \in Users : Blocks(u) => balance[u].present /\ balance[u].blocked

\* Handlers create a row, charge a row that is not blocked, or leave it alone.
LEMMA HandlerRows ==
  ASSUME TypeOK, NEW r \in Requests, HandlerStep(r)
  PROVE  /\ UNCHANGED adm
         /\ \A u \in Users : balance[u].present =>
              /\ balance'[u].present
              /\ balance[u].blocked => balance'[u] = balance[u]
  <1>1. balance \in [Users -> BalanceRows] /\ UserOf[r] \in Users
    BY CreditsAssumption DEF TypeOK
  <1>2. CASE ApplyDebit(r)
    <2>1. ASSUME NEW d, NEW a, NEW c
          PROVE  Charge(balance[UserOf[r]], d, a, c).present = balance[UserOf[r]].present
      <3>1. balance[UserOf[r]] \in BalanceRows
        BY <1>1
      <3> QED BY <3>1 DEF Charge, BalanceRows
    <2> QED BY <1>1, <1>2, <2>1 DEF ApplyDebit, Admits
  <1>3. CASE EnsureRow(r)
    BY <1>1, <1>3 DEF EnsureRow
  <1> QED BY <1>2, <1>3 DEF HandlerStep, Arrive, Answer, CountDebits, StartDebit,
                            ExplainDenial, WriteLedger

\* What an admin call writes keeps a block, unless it is an unblock.
LEMMA AdminRows ==
  ASSUME TypeOK, BlockInv, NEW a \in Admins, AdminStep(a)
  PROVE  BlockInv'
  <1>1. /\ adm \in [Admins -> AdminStates] /\ balance \in [Users -> BalanceRows]
        /\ adm[a].pc = "read" => adm[a].user \in Users
    BY DEF TypeOK
  <1>2. /\ \A b \in Admins \ {a} : adm'[b] = adm[b]
        /\ adm'[a].pc # "new"
        /\ adm[a].pc \in {"new", "read"}
        /\ adm[a].op # "unblock"
    <2>1. adm[a] \in AdminStates
      BY <1>1
    <2>2. CASE \E op \in AdminOps, u \in Users, d \in Deltas \cup {0} :
                 adm[a].pc = "new" /\ adm' = [adm EXCEPT ![a] = ReadAdmin(op, u, d)]
      BY <1>1, <2>2 DEF ReadAdmin, BlockInv
    <2>3. CASE /\ adm[a].pc = "read" /\ adm[a].op # "unblock"
               /\ \E to \in {"done", "failed"} : adm' = [adm EXCEPT ![a].pc = to]
      BY <1>1, <2>1, <2>3 DEF AdminStates
    <2>4. CASE adm[a].pc = "new" /\ \E op \in AdminOps : AtOnce(a, op)
      BY <1>1, <2>1, <2>4 DEF AtOnce, AdminStates, BlockInv
    <2> QED BY <2>2, <2>3, <2>4
            DEF AdminStep, GrantRead, GrantCommit, BlockRead, BlockWrite, Unblock, SetConfig,
                Begin, AdminOps
  <1>3. (\A b \in Admins : adm[b].pc = "new" => adm[b].op = "none")'
    BY <1>2 DEF BlockInv
  <1>4. Unblocked => Unblocked'
    BY <1>2 DEF Unblocked
  <1>5. \A u \in Users : balance[u].present => balance'[u].present
    <2>1. CASE UNCHANGED balance
      BY <2>1
    <2>2. CASE GrantCommit(a)
      BY <1>1, <2>2 DEF GrantCommit, BalanceRows
    <2>3. CASE BlockWrite(a)
      <3>1. CASE UNCHANGED balance
        BY <3>1
      <3>2. CASE ~(~adm[a].found /\ balance[adm[a].user].present)
        <4>1. adm[a].user \in Users
          BY <1>1, <2>3 DEF BlockWrite
        <4>2. \A u \in Users : u # adm[a].user => balance'[u] = balance[u]
          BY <1>1, <2>3 DEF BlockWrite
        <4>3. CASE adm[a].found
          <5>1. PICK old \in BalanceRows : old = balance[adm[a].user]
            BY <1>1, <4>1
          <5>2. [old EXCEPT !.date = adm[a].day, !.blocked = TRUE].present = old.present
            BY DEF BalanceRows
          <5>3. \/ UNCHANGED balance
                \/ balance' = [balance EXCEPT ![adm[a].user] =
                                 [old EXCEPT !.date = adm[a].day, !.blocked = TRUE]]
            BY <2>3, <4>3, <5>1 DEF BlockWrite
          <5>4. balance[adm[a].user].present => balance'[adm[a].user].present
            BY <1>1, <4>1, <5>1, <5>2, <5>3
          <5> QED BY <4>2, <5>4
        <4>4. CASE ~adm[a].found
          BY <3>2, <4>2, <4>4
        <4> QED BY <4>3, <4>4
      <3> QED BY <2>3, <3>1, <3>2 DEF BlockWrite
    <2>4. CASE Unblock(a)
      BY <1>1, <2>4 DEF Unblock, BalanceRows
    <2> QED BY <2>1, <2>2, <2>3, <2>4
            DEF AdminStep, GrantRead, BlockRead, SetConfig
  <1>6. (\A b \in Admins : adm[b].pc = "read" /\ adm[b].found => balance[adm[b].user].present)'
    <2>1. ASSUME NEW b \in Admins \ {a}, adm'[b].pc = "read", adm'[b].found
          PROVE  balance'[adm'[b].user].present
      BY <1>2, <1>5, <2>1 DEF TypeOK, BlockInv
    <2>2. ASSUME adm'[a].pc = "read", adm'[a].found
          PROVE  balance'[adm'[a].user].present
      <3>1. CASE \E op \in AdminOps, u \in Users, d \in Deltas \cup {0} :
                   adm' = [adm EXCEPT ![a] = ReadAdmin(op, u, d)]
        BY <1>1, <1>5, <2>2, <3>1 DEF ReadAdmin
      <3>2. CASE \E to \in {"done", "failed"} : adm' = [adm EXCEPT ![a].pc = to]
        BY <1>1, <2>2, <3>2 DEF AdminStates
      <3>3. CASE \E op \in AdminOps : AtOnce(a, op)
        BY <1>1, <2>2, <3>3 DEF AtOnce, AdminStates
      <3> QED BY <3>1, <3>2, <3>3
              DEF AdminStep, GrantRead, GrantCommit, BlockRead, BlockWrite, Unblock, SetConfig,
                  AdminOps
    <2> QED BY <2>1, <2>2
  <1>7. ASSUME ~Unblocked', NEW u \in Users, Blocks(u)'
        PROVE  balance'[u].present /\ balance'[u].blocked
    <2>1. Blocks(u) => balance[u].present /\ balance[u].blocked
      BY <1>4, <1>7 DEF BlockInv
    <2>2. PICK b \in Admins : adm'[b].op = "block" /\ adm'[b].pc = "done" /\ adm'[b].user = u
      BY <1>7 DEF Blocks
    <2>3. b # a => Blocks(u)
      BY <1>2, <2>2 DEF Blocks
    <2>4. CASE BlockWrite(a)
      <3>1. adm[a] \in AdminStates /\ adm[a].user \in Users /\ adm[a].pc = "read"
        BY <1>1, <2>4 DEF BlockWrite
      <3>2. CASE UNCHANGED balance /\ adm' = [adm EXCEPT ![a].pc = "failed"]
        BY <1>1, <2>1, <2>2, <2>3, <3>1, <3>2 DEF AdminStates
      <3>3. CASE adm' = [adm EXCEPT ![a].pc = "done"]
        <4>1. adm'[a].user = adm[a].user
          BY <1>1, <3>1, <3>3 DEF AdminStates
        <4>2. PICK row \in BalanceRows :
                /\ row.present
                /\ balance' = [balance EXCEPT ![adm[a].user] =
                                 [row EXCEPT !.date = adm[a].day, !.blocked = TRUE]]
          <5> DEFINE old == IF adm[a].found THEN balance[adm[a].user] ELSE FreshRow(adm[a].day)
          <5>1. adm'[a].pc = "done"
            BY <1>1, <3>1, <3>3 DEF AdminStates
          <5>2. balance' = [balance EXCEPT ![adm[a].user] =
                              [old EXCEPT !.date = adm[a].day, !.blocked = TRUE]]
            <6>1. ~(adm' = [adm EXCEPT ![a].pc = "failed"])
              BY <1>1, <3>1, <5>1 DEF AdminStates
            <6> QED BY <2>4, <6>1 DEF BlockWrite
          <5>3. FreshRow(adm[a].day) \in BalanceRows /\ FreshRow(adm[a].day).present
            BY <3>1, FreshRowType DEF AdminStates, FreshRow
          <5>4. old \in BalanceRows /\ old.present
            BY <1>1, <3>1, <5>3 DEF BlockInv
          <5> HIDE DEF old
          <5> QED BY <5>2, <5>4
        <4>3. balance'[adm[a].user].present /\ balance'[adm[a].user].blocked
          BY <1>1, <3>1, <4>2 DEF BalanceRows
        <4>4. u # adm[a].user => balance'[u] = balance[u]
          BY <1>1, <4>2
        <4> QED BY <2>1, <2>2, <2>3, <4>1, <4>3, <4>4
      <3> QED BY <2>4, <3>2, <3>3 DEF BlockWrite
    <2>5. CASE GrantCommit(a)
      <3>1. adm[a] \in AdminStates /\ adm[a].op = "grant" /\ adm[a].user \in Users
        BY <1>1, <2>5 DEF GrantCommit
      <3>2. adm'[a].op = "grant"
        BY <1>1, <2>5, <3>1 DEF GrantCommit, AdminStates
      <3>3. balance[u].present /\ balance[u].blocked
        BY <2>1, <2>2, <2>3, <3>2
      <3> QED BY <1>1, <2>5, <3>1, <3>3 DEF GrantCommit, BalanceRows
    <2>6. CASE GrantRead(a) \/ BlockRead(a)
      BY <1>1, <2>1, <2>2, <2>3, <2>6 DEF GrantRead, BlockRead, ReadAdmin
    <2>7. CASE Unblock(a)
      <3>1. adm'[a].op = "unblock"
        BY <1>1, <2>7 DEF Unblock, AtOnce, AdminStates
      <3> QED BY <1>7, <3>1 DEF Unblocked
    <2>8. CASE SetConfig(a)
      <3>1. adm'[a].op = "config" /\ UNCHANGED balance
        BY <1>1, <2>8 DEF SetConfig, AtOnce, AdminStates
      <3> QED BY <2>1, <2>2, <2>3, <3>1
    <2> QED BY <2>4, <2>5, <2>6, <2>7, <2>8 DEF AdminStep
  <1> QED BY <1>3, <1>6, <1>7 DEF BlockInv

LEMMA BlockStep ==
  ASSUME TypeOK, BlockInv, [Next]_vars
  PROVE  BlockInv'
  <1>1. ASSUME NEW r \in Requests, HandlerStep(r)
        PROVE  BlockInv'
    BY <1>1, HandlerRows DEF BlockInv, TypeOK, Unblocked, Blocks
  <1>2. ASSUME NEW a \in Admins, AdminStep(a)
        PROVE  BlockInv'
    BY <1>2, AdminRows
  <1>3. CASE Crash
    <2>1. /\ UNCHANGED balance
          /\ \A a \in Admins : /\ adm'[a].op = adm[a].op
                               /\ adm'[a] = adm[a] \/ adm'[a].pc = "failed"
      BY <1>3 DEF Crash, TypeOK, AdminStates
    <2>2. \A a \in Admins : adm[a].pc # "read" => adm'[a] = adm[a]
      BY <1>3 DEF Crash, TypeOK
    <2>3. Unblocked <=> Unblocked'
      BY <2>1 DEF Unblocked
    <2>4. \A u \in Users : Blocks(u)' => Blocks(u)
      BY <2>1 DEF Blocks
    <2> QED BY <2>1, <2>3, <2>4 DEF BlockInv
  <1>4. CASE UNCHANGED <<balance, adm>>
    BY <1>4 DEF BlockInv, Unblocked, Blocks
  <1> QED BY <1>1, <1>2, <1>3, <1>4 DEF Next, NextDay, Quiescent, vars

\* Once an admin's block is acknowledged no debit of the user takes effect, until
\* an unblock is called (the `NOT blocked` of debit()'s UPDATE).
THEOREM BlocksHold == Spec => BlockedIsNotCharged
  <1>1. Init => BlockInv
    BY DEF Init, BlockInv, IdleAdmin, Blocks
  <1>2. ASSUME TypeOK, BlockInv, [Next]_vars, NEW r \in Requests, req'[r].charged, ~req[r].charged
        PROVE  Unblocked \/ ~Blocks(UserOf[r])
    <2>1. UserOf[r] \in Users /\ req \in [Requests -> RequestStates]
      BY <1>2, CreditsAssumption DEF TypeOK
    <2>2. ApplyDebit(r) /\ req'[r].charged => ~balance[UserOf[r]].blocked
      BY <1>2, <2>1 DEF ApplyDebit, Admits, Goto, RequestStates
    <2>3. ApplyDebit(r)
      <3>1. HandlerStep(r)
        <4>1. ASSUME NEW q \in Requests \ {r}, HandlerStep(q)
              PROVE  req'[r] = req[r]
          BY <1>2, <4>1, HandlerEffect
        <4>2. Crash => req'[r].charged = req[r].charged
          BY <1>2, CrashEffect DEF Keeps
        <4>3. UNCHANGED req \/ Crash \/ \E q \in Requests : HandlerStep(q)
          BY <1>2 DEF Next, AdminStep, GrantRead, GrantCommit, BlockRead, BlockWrite, Unblock,
                      SetConfig, NextDay, Quiescent, vars
        <4> QED BY <1>2, <4>1, <4>2, <4>3
      <3>2. ASSUME NEW from, NEW to, Goto(r, from, to)
            PROVE  req'[r].charged = req[r].charged
        BY <2>1, <3>2 DEF Goto, RequestStates
      <3>3. Arrive(r) \/ Answer(r) \/ StartDebit(r) => req'[r].charged = req[r].charged
        <4>1. Arrive(r) => req'[r].charged = req[r].charged
          BY <2>1 DEF Arrive, RequestStates
        <4>2. Answer(r) => req'[r].charged = req[r].charged
          <5>1. ASSUME NEW c, NEW s, req' = [req EXCEPT ![r].pc = "answered", ![r].cost = c,
                                                        ![r].status = s]
                PROVE  req'[r].charged = req[r].charged
            BY <2>1, <5>1 DEF RequestStates
          <5> QED BY <3>2, <5>1 DEF Answer
        <4>3. StartDebit(r) => req'[r].charged = req[r].charged
          BY <2>1 DEF StartDebit, RequestStates
        <4> QED BY <4>1, <4>2, <4>3
      <3>4. CountDebits(r) \/ EnsureRow(r) \/ ExplainDenial(r) \/ WriteLedger(r) =>
              req'[r].charged = req[r].charged
        BY <3>2 DEF CountDebits, EnsureRow, ExplainDenial, WriteLedger
      <3> QED BY <1>2, <3>1, <3>3, <3>4 DEF HandlerStep
    <2> QED BY <1>2, <2>1, <2>2, <2>3 DEF BlockInv
  <1>3. TypeOK /\ BlockInv /\ [Next]_vars =>
          [\A r \in Requests : req'[r].charged /\ ~req[r].charged =>
             \/ \E a \in Admins : adm[a].op = "unblock"
             \/ ~\E a \in Admins : /\ adm[a].op = "block" /\ adm[a].pc = "done"
                                   /\ adm[a].user = UserOf[r]]_vars
    BY <1>2 DEF Unblocked, Blocks
  <1>4. TypeOK /\ BlockInv /\ [Next]_vars => BlockInv'
    BY BlockStep
  <1> QED BY <1>1, <1>3, <1>4, TypeCorrect, PTL DEF Spec, BlockedIsNotCharged

-----------------------------------------------------------------------------
(***************************************************************************)
(* A late call of a fan-out is free. Holds while no statement fails: a     *)
(* count that fails reads as no debit.                                     *)
(***************************************************************************)
Undecided == {"new", "dispatched", "answered"}
Free(r) ==
  /\ OnRecord(r)
  /\ ~req[r].charged
  /\ req[r].pc \in Undecided \cup {"served", "lost"} \cup Turned

LEMMA OnRecordStands ==
  ASSUME TypeOK, ChargeInv, [Next]_vars, NEW r \in Requests, OnRecord(r)
  PROVE  OnRecord(r)'
  <1>1. PICK s \in Requests : <<r, s>> \in SamePrompt /\ req[s].charged /\ DebitRow(s) \in ledger
    BY DEF OnRecord
  <1>2. ledger \subseteq ledger'
    <2>1. ASSUME NEW q \in Requests, HandlerStep(q)
          PROVE  ledger \subseteq ledger'
      BY <2>1 DEF HandlerStep, Arrive, Answer, CountDebits, EnsureRow, StartDebit, ApplyDebit,
                  ExplainDenial, WriteLedger
    <2>2. ASSUME NEW a \in Admins, AdminStep(a)
          PROVE  ledger \subseteq ledger'
      BY <2>2 DEF AdminStep, GrantRead, GrantCommit, BlockRead, BlockWrite, Unblock, SetConfig
    <2> QED BY <2>1, <2>2 DEF Next, NextDay, Crash, Quiescent, vars
  <1>3. req'[s].charged /\ req'[s].cost = req[s].cost
    <2>1. ASSUME NEW q \in Requests, HandlerStep(q)
          PROVE  req'[s].charged /\ req'[s].cost = req[s].cost
      <3>1. q # s => req'[s] = req[s]
        BY <2>1, HandlerEffect
      <3>2. q = s => ~GoesOn(s)
        BY <1>1 DEF ChargeInv, GoesOn, Before, After, Waiting, Broken
      <3> QED BY <1>1, <2>1, <3>1, <3>2, HandlerEffect
              DEF Ends, Pays, ServesFree, ServesPaid, Keeps
    <2>2. Crash => req'[s].charged /\ req'[s].cost = req[s].cost
      BY <1>1, CrashEffect DEF Keeps
    <2>3. UNCHANGED req \/ Crash \/ \E q \in Requests : HandlerStep(q)
      BY DEF Next, AdminStep, GrantRead, GrantCommit, BlockRead, BlockWrite, Unblock, SetConfig,
             NextDay, Quiescent, vars
    <2> QED BY <1>1, <2>1, <2>2, <2>3
  <1> QED BY <1>1, <1>2, <1>3 DEF OnRecord, DebitRow, SamePrompt

\* The dedup query sees the record.
LEMMA RecordIsSeen ==
  ASSUME NEW r \in Requests, OnRecord(r)
  PROVE  PromptOf[r] # NoPrompt /\ AlreadyDebited(r)
  BY DEF OnRecord, SamePrompt, DebitRow, AlreadyDebited

LEMMA FreeStep ==
  ASSUME ~DbMayFail, TypeOK, ChargeInv, [Next]_vars, NEW r \in Requests, Free(r)
  PROVE  Free(r)'
  <1>1. OnRecord(r)'
    BY OnRecordStands DEF Free
  <1>2. ASSUME NEW q \in Requests, HandlerStep(q)
        PROVE  ~req'[r].charged /\ req'[r].pc \in Undecided \cup {"served", "lost"} \cup Turned
    <2>1. CASE q # r
      BY <1>2, <2>1, HandlerEffect DEF Free
    <2>2. CASE q = r
      <3>1. req[r].pc \in Undecided /\ req[r] \in RequestStates
        BY <1>2, <2>2 DEF TypeOK, Free, HandlerStep, Arrive, Answer, CountDebits, EnsureRow,
                          StartDebit, ApplyDebit, ExplainDenial, WriteLedger, Goto, Turned, Undecided
      <3>2. Arrive(r) \/ Answer(r) \/ CountDebits(r)
        BY <1>2, <2>2, <3>1 DEF HandlerStep, EnsureRow, StartDebit, ApplyDebit, ExplainDenial,
                                WriteLedger, Goto, Undecided
      <3>3. req'[r].pc \in Undecided \cup {"served"} \cup Turned
        <4> USE <3>1 DEF TypeOK, Undecided, Turned, RequestStates
        <4>1. CASE Arrive(r)
          BY <4>1 DEF Arrive
        <4>2. CASE Answer(r)
          <5>1. CASE Goto(r, "dispatched", "unrouted")
            BY <5>1 DEF Goto
          <5>2. ASSUME NEW c, NEW s, req' = [req EXCEPT ![r].pc = "answered", ![r].cost = c,
                                                        ![r].status = s]
                PROVE  req'[r].pc = "answered"
            BY <5>2
          <5> QED BY <4>2, <5>1, <5>2 DEF Answer
        <4>3. CASE CountDebits(r)
          BY <4>3, RecordIsSeen DEF Free, CountDebits, Goto
        <4> QED BY <3>2, <4>1, <4>2, <4>3
      <3>4. ~Pays(r)
        BY <3>3 DEF Pays, Undecided, Turned
      <3>5. ~ServesPaid(r)
        BY <3>1 DEF ServesPaid, Undecided
      <3>6. req'[r].charged = req[r].charged
        BY <1>2, <2>2, <3>4, <3>5, HandlerEffect DEF GoesOn, Ends, ServesFree, Keeps
      <3> QED BY <3>3, <3>6 DEF Free
    <2> QED BY <2>1, <2>2
  <1>3. Crash => ~req'[r].charged /\ req'[r].pc \in Undecided \cup {"served", "lost"} \cup Turned
    BY CrashEffect DEF Free, Keeps
  <1>4. UNCHANGED req \/ Crash \/ \E q \in Requests : HandlerStep(q)
    BY DEF Next, AdminStep, GrantRead, GrantCommit, BlockRead, BlockWrite, Unblock, SetConfig,
           NextDay, Quiescent, vars
  <1> QED BY <1>1, <1>2, <1>3, <1>4 DEF Free

\* Agent fan-out, the sequential case: where no statement fails, a call that has
\* yet to count the debits of a prompt on record is never charged
\* (attemptDispatch's dedup).
THEOREM LateCallsAreFree ==
  ASSUME ~DbMayFail
  PROVE  Spec => LateFanOutIsFree
  <1>1. ASSUME NEW r \in Requests
        PROVE  Spec => []( /\ req[r].pc \in {"new", "dispatched", "answered"}
                           /\ OnRecord(r)
                           => [](~req[r].charged))
    <2>1. TypeOK /\ ChargeInv /\ [Next]_vars => (Free(r) => Free(r)')
      BY FreeStep
    <2>2. ChargeInv /\ req[r].pc \in {"new", "dispatched", "answered"} /\ OnRecord(r) => Free(r)
      BY DEF ChargeInv, Free, After, Broken, Undecided
    <2>3. Free(r) => ~req[r].charged
      BY DEF Free
    <2> QED BY <2>1, <2>2, <2>3, ChargeInvariant, PTL DEF Spec
  <1> QED BY <1>1 DEF LateFanOutIsFree

-----------------------------------------------------------------------------
(***************************************************************************)
(* A step charges one request, whose row and history say what it paid, or  *)
(* it leaves every charge as it was.                                       *)
(***************************************************************************)
Charges(r) ==
  LET u == UserOf[r]
      q == req[r]
  IN
  /\ q.pc = "debiting" /\ ~q.charged /\ balance[u].present
  /\ balance' = [balance EXCEPT ![u] = Charge(balance[u], q.day, q.cap, q.cost)]
  /\ req'[r].charged
  /\ req'[r].cost = q.cost /\ req'[r].day = q.day /\ req'[r].cap = q.cap
  /\ req'[r].free = q.cost - FromPaid(balance[u], q.day, q.cap, q.cost)
  /\ req'[r].pc \in {"paid", "failed"}
  /\ \A s \in Requests \ {r} : req'[s] = req[s]
  /\ UNCHANGED <<today, config, ledger, adm>>
Stands(q) ==
  /\ req'[q].charged = req[q].charged
  /\ req[q].charged => /\ req'[q].cost = req[q].cost /\ req'[q].free = req[q].free
                       /\ req'[q].day = req[q].day

LEMMA ApplyCharges ==
  ASSUME TypeOK, ChargeInv, NEW r \in Requests, ApplyDebit(r)
  PROVE  Charges(r) \/ (UNCHANGED balance /\ \E to \in {"explaining", "failed"} : Goto(r, "debiting", to))
  <1>1. req \in [Requests -> RequestStates] /\ req[r] \in RequestStates
    BY DEF TypeOK
  <1>2. req[r].pc = "debiting" /\ ~req[r].charged /\ UNCHANGED <<today, config, ledger, adm>>
    BY DEF ApplyDebit, ChargeInv, After, Broken
  <1>3. ASSUME NEW to \in {"paid", "failed"}, NEW f,
               req' = [req EXCEPT ![r].pc = to, ![r].charged = TRUE, ![r].free = f]
        PROVE  /\ req'[r].pc = to /\ req'[r].charged /\ req'[r].free = f
               /\ req'[r].cost = req[r].cost /\ req'[r].day = req[r].day /\ req'[r].cap = req[r].cap
               /\ \A s \in Requests \ {r} : req'[s] = req[s]
    BY <1>1, <1>3 DEF RequestStates
  <1> DEFINE admitted == /\ balance[UserOf[r]].present
                         /\ Admits(balance[UserOf[r]], req[r].day, req[r].cap, req[r].cost)
             free == req[r].cost - FromPaid(balance[UserOf[r]], req[r].day, req[r].cap, req[r].cost)
  <1>4. ASSUME NEW to \in {"paid", "failed"}, admitted,
               balance' = [balance EXCEPT ![UserOf[r]] = Charge(@, req[r].day, req[r].cap, req[r].cost)],
               req' = [req EXCEPT ![r].pc = to, ![r].charged = TRUE, ![r].free = free]
        PROVE  Charges(r)
    BY <1>2, <1>3, <1>4 DEF Charges
  <1> HIDE DEF free, admitted
  <1> QED BY <1>4 DEF ApplyDebit, free, admitted

LEMMA ChargeOrStand ==
  ASSUME TypeOK, ChargeInv, [Next]_vars
  PROVE  (\E r \in Requests : Charges(r)) \/ (\A q \in Requests : Stands(q))
  <1>1. req \in [Requests -> RequestStates]
    BY DEF TypeOK
  <1>2. ASSUME NEW r \in Requests, NEW from, NEW to, Goto(r, from, to)
        PROVE  \A q \in Requests : Stands(q)
    BY <1>1, <1>2 DEF Goto, Stands, RequestStates
  <1>3. ASSUME NEW r \in Requests, HandlerStep(r), ~Charges(r)
        PROVE  \A q \in Requests : Stands(q)
    <2>1. CASE Arrive(r)
      BY <1>1, <2>1 DEF Arrive, Stands, RequestStates
    <2>2. CASE Answer(r)
      <3>1. ASSUME NEW c, NEW s, req[r].pc = "dispatched",
                   req' = [req EXCEPT ![r].pc = "answered", ![r].cost = c, ![r].status = s]
            PROVE  \A q \in Requests : Stands(q)
        <4>1. ~req[r].charged
          BY <3>1 DEF ChargeInv, After, Broken
        <4>2. req'[r].charged = req[r].charged
          BY <1>1, <3>1 DEF RequestStates
        <4> QED BY <1>1, <3>1, <4>1, <4>2 DEF Stands
      <3> QED BY <1>2, <2>2, <3>1 DEF Answer
    <2>3. CASE StartDebit(r)
      <3>1. ~req[r].charged
        BY <2>3 DEF StartDebit, ChargeInv, After, Broken
      <3>2. req'[r].charged = req[r].charged
        BY <1>1, <2>3 DEF StartDebit, RequestStates
      <3> QED BY <1>1, <2>3, <3>1, <3>2 DEF StartDebit, Stands
    <2>4. CASE ApplyDebit(r)
      BY <1>2, <1>3, <2>4, ApplyCharges
    <2> QED BY <1>2, <1>3, <2>1, <2>2, <2>3, <2>4
            DEF HandlerStep, CountDebits, EnsureRow, ExplainDenial, WriteLedger
  <1>4. CASE Crash
    BY <1>1, <1>4 DEF Crash, Stands, RequestStates
  <1>5. CASE UNCHANGED req
    BY <1>5 DEF Stands
  <1> QED BY <1>3, <1>4, <1>5
          DEF Next, AdminStep, GrantRead, GrantCommit, BlockRead, BlockWrite, Unblock, SetConfig,
              NextDay, Quiescent, vars

-----------------------------------------------------------------------------
(***************************************************************************)
(* A handler that returns leaves a record of its charge, where no          *)
(* statement fails: the UPDATE goes on to the ledger, and a crash between  *)
(* the two loses the handler.                                              *)
(***************************************************************************)
LEMMA RecordStep ==
  ASSUME ~DbMayFail, TypeOK, ChargeInv, ChargesAreRecorded, [Next]_vars
  PROVE  ChargesAreRecorded'
  <1>1. ledger \subseteq ledger'
    <2>1. ASSUME NEW q \in Requests, HandlerStep(q)
          PROVE  ledger \subseteq ledger'
      BY <2>1 DEF HandlerStep, Arrive, Answer, CountDebits, EnsureRow, StartDebit, ApplyDebit,
                  ExplainDenial, WriteLedger
    <2>2. ASSUME NEW a \in Admins, AdminStep(a)
          PROVE  ledger \subseteq ledger'
      BY <2>2 DEF AdminStep, GrantRead, GrantCommit, BlockRead, BlockWrite, Unblock, SetConfig
    <2> QED BY <2>1, <2>2 DEF Next, NextDay, Crash, Quiescent, vars
  <1>2. ASSUME NEW s \in Requests, Keeps(s), req'[s].charged, req'[s].pc = req[s].pc,
               req'[s].pc \in Ended \ {"lost"}
        PROVE  DebitRow(s)' \in ledger'
    BY <1>1, <1>2 DEF ChargesAreRecorded, DebitRow, Keeps
  <1>3. ASSUME NEW r \in Requests, HandlerStep(r), NEW s \in Requests, req'[s].charged,
               req'[s].pc \in Ended \ {"lost"}
        PROVE  DebitRow(s)' \in ledger'
    <2>1. CASE s # r
      BY <1>2, <1>3, <2>1, HandlerEffect DEF Keeps
    <2>2. CASE s = r
      <3>1. ~GoesOn(r)
        BY <1>3, <2>2 DEF GoesOn, Before, Waiting, Ended, Turned, Broken
      <3>2. ~Ends(r) /\ ~ServesFree(r)
        BY <1>3, <2>2 DEF Ends, ServesFree, Keeps, ChargeInv, Before, Waiting, After, Broken
      <3>3. CASE Pays(r)
        <4>1. req[r].pc \in Before /\ req'[r].pc = "failed" /\ req'[r].charged /\ ~req[r].charged
          BY <1>3, <2>2, <3>3 DEF Pays, Ended, Turned, Broken, ChargeInv, Before, Waiting, After
        <4>2. ASSUME ApplyDebit(r)
              PROVE  FALSE
          <5>1. req \in [Requests -> RequestStates]
            BY DEF TypeOK
          <5>2. ASSUME NEW f, req' = [req EXCEPT ![r].pc = "paid", ![r].charged = TRUE, ![r].free = f]
                PROVE  req'[r].pc = "paid"
            BY <5>1, <5>2
          <5>3. Goto(r, "debiting", "explaining") => req'[r].pc = "explaining"
            BY <5>1 DEF Goto
          <5> QED BY <4>1, <4>2, <5>2, <5>3 DEF ApplyDebit
        <4>3. ~Charges(r)
          <5>1. Charges(r) => ApplyDebit(r)
            BY <1>3 DEF Charges, HandlerStep, Arrive, Answer, CountDebits, EnsureRow, StartDebit,
                        ExplainDenial, WriteLedger, Goto
          <5> QED BY <4>2, <5>1
        <4>4. \A q \in Requests \ {r} : ~Charges(q)
          BY <4>1 DEF Charges
        <4> QED BY <4>1, <4>3, <4>4, ChargeOrStand DEF Stands
      <3>4. CASE ServesPaid(r)
        <4>1. WriteLedger(r)
          BY <1>3, <3>4 DEF ServesPaid, HandlerStep, Arrive, Answer, CountDebits, EnsureRow,
                            StartDebit, ApplyDebit, ExplainDenial, Goto
        <4>2. DebitRow(r) \in ledger' /\ req'[r].cost = req[r].cost
          BY <3>4, <4>1 DEF WriteLedger, ServesPaid, Keeps
        <4> QED BY <2>2, <4>2 DEF DebitRow
      <3> QED BY <1>3, <3>1, <3>2, <3>3, <3>4, HandlerEffect
    <2> QED BY <2>1, <2>2
  <1>4. ASSUME Crash, NEW s \in Requests, req'[s].charged, req'[s].pc \in Ended \ {"lost"}
        PROVE  DebitRow(s)' \in ledger'
    BY <1>2, <1>4, CrashEffect
  <1>5. UNCHANGED req => ChargesAreRecorded'
    BY <1>2 DEF ChargesAreRecorded, Keeps
  <1>6. UNCHANGED req \/ Crash \/ \E q \in Requests : HandlerStep(q)
    BY DEF Next, AdminStep, GrantRead, GrantCommit, BlockRead, BlockWrite, Unblock, SetConfig,
           NextDay, Quiescent, vars
  <1> QED BY <1>3, <1>4, <1>5, <1>6 DEF ChargesAreRecorded

\* Every charge of a handler that returned has its ledger row, where no statement
\* fails, whatever crashes: "so the debit is durable even if the client
\* disconnects mid-stream" (attemptDispatch's ledger insert).
THEOREM ReturnedChargesAreRecorded ==
  ASSUME ~DbMayFail
  PROVE  Spec => []ChargesAreRecorded
  <1>1. Init => ChargesAreRecorded
    BY DEF Init, ChargesAreRecorded, IdleRequest
  <1>2. TypeOK /\ ChargeInv /\ ChargesAreRecorded /\ [Next]_vars => ChargesAreRecorded'
    BY RecordStep
  <1> QED BY <1>1, <1>2, ChargeInvariant, PTL DEF Spec

-----------------------------------------------------------------------------
(***************************************************************************)
(* Accounts. A charge adds one request to its user's charges of its day;   *)
(* every other step leaves all of them.                                    *)
(***************************************************************************)
LEMMA OneOpening ==
  /\ InitialRows = {OpeningRow}
  /\ OpeningRow \in Row /\ OpeningRow.date = 0
  /\ ~OpeningRow.present => OpeningRow = NoRow
  <1>1. PICK row \in InitialRows : InitialRows = {row}
    BY AccountingAssumption
  <1>2. OpeningRow = row
    BY <1>1 DEF OpeningRow
  <1> QED BY <1>1, <1>2, CreditsAssumption

LEMMA ChargesAreFinite ==
  ASSUME NEW u, NEW d
  PROVE  IsFiniteSet(ChargedTo(u)) /\ IsFiniteSet(ChargedOn(u, d))
  <1>1. ChargedTo(u) \subseteq Requests /\ ChargedOn(u, d) \subseteq Requests
    BY DEF ChargedTo, ChargedOn
  <1> QED BY <1>1, AccountingAssumption, FS_Subset

LEMMA TotalsAreNatural ==
  ASSUME TypeOK, NEW S, IsFiniteSet(S), S \subseteq Requests
  PROVE  TotalCost(S) \in Nat
  <1>1. \A r \in S : CostOf[r] \in Nat
    BY DEF CostOf, TypeOK, RequestStates
  <1> QED BY <1>1, SumOfNaturals DEF TotalCost

LEMMA TotalsStand ==
  ASSUME \A q \in Requests : Stands(q), NEW u, NEW d
  PROVE  /\ ChargedTo(u)' = ChargedTo(u) /\ ChargedOn(u, d)' = ChargedOn(u, d)
         /\ TotalCost(ChargedTo(u))' = TotalCost(ChargedTo(u))
         /\ TotalCost(ChargedOn(u, d))' = TotalCost(ChargedOn(u, d))
  <1>1. ChargedTo(u)' = ChargedTo(u)
    BY DEF Stands, ChargedTo
  <1>2. ChargedOn(u, d)' = ChargedOn(u, d)
    BY DEF Stands, ChargedTo, ChargedOn
  <1>3. \A r \in ChargedTo(u) : CostOf'[r] = CostOf[r]
    BY DEF Stands, ChargedTo, CostOf
  <1>4. ChargedOn(u, d) \subseteq ChargedTo(u)
    BY DEF ChargedOn
  <1>5. SumOver(CostOf', ChargedTo(u)) = SumOver(CostOf, ChargedTo(u))
    BY <1>3, ChargesAreFinite, SumOfSame
  <1>6. SumOver(CostOf', ChargedOn(u, d)) = SumOver(CostOf, ChargedOn(u, d))
    BY <1>3, <1>4, ChargesAreFinite, SumOfSame
  <1> QED BY <1>1, <1>2, <1>5, <1>6 DEF TotalCost

LEMMA TotalsGrow ==
  ASSUME TypeOK, NEW r \in Requests, Charges(r), NEW u, NEW d
  PROVE  IF u = UserOf[r]
         THEN /\ ChargedTo(u)' = ChargedTo(u) \cup {r}
              /\ TotalCost(ChargedTo(u))' = req[r].cost + TotalCost(ChargedTo(u))
              /\ IF d = req[r].day
                 THEN /\ ChargedOn(u, d)' = ChargedOn(u, d) \cup {r}
                      /\ TotalCost(ChargedOn(u, d))' = req[r].cost + TotalCost(ChargedOn(u, d))
                 ELSE /\ ChargedOn(u, d)' = ChargedOn(u, d)
                      /\ TotalCost(ChargedOn(u, d))' = TotalCost(ChargedOn(u, d))
         ELSE /\ ChargedTo(u)' = ChargedTo(u) /\ ChargedOn(u, d)' = ChargedOn(u, d)
              /\ TotalCost(ChargedTo(u))' = TotalCost(ChargedTo(u))
              /\ TotalCost(ChargedOn(u, d))' = TotalCost(ChargedOn(u, d))
  <1>1. /\ ~req[r].charged /\ req'[r].charged
        /\ req'[r].cost = req[r].cost /\ req'[r].day = req[r].day
        /\ \A s \in Requests \ {r} : req'[s] = req[s]
        /\ req \in [Requests -> RequestStates]
    BY DEF Charges, TypeOK
  <1>2. ChargedTo(u)' = IF u = UserOf[r] THEN ChargedTo(u) \cup {r} ELSE ChargedTo(u)
    BY <1>1 DEF ChargedTo
  <1>3. ChargedOn(u, d)' = IF u = UserOf[r] /\ d = req[r].day
                           THEN ChargedOn(u, d) \cup {r} ELSE ChargedOn(u, d)
    BY <1>1 DEF ChargedTo, ChargedOn
  <1>4. /\ r \notin ChargedTo(u) /\ r \notin ChargedOn(u, d)
        /\ ChargedTo(u) \subseteq Requests /\ ChargedOn(u, d) \subseteq Requests
    BY <1>1 DEF ChargedTo, ChargedOn
  <1>5. ASSUME NEW S, IsFiniteSet(S), S \subseteq Requests, r \notin S
        PROVE  /\ SumOver(CostOf', S) = SumOver(CostOf, S)
               /\ SumOver(CostOf', S \cup {r}) = req[r].cost + SumOver(CostOf, S)
    <2>1. \A s \in S : CostOf[s] \in Int /\ CostOf'[s] = CostOf[s]
      BY <1>1, <1>5 DEF CostOf, RequestStates
    <2>2. CostOf'[r] = req[r].cost /\ req[r].cost \in Int
      BY <1>1 DEF CostOf, RequestStates
    <2> QED BY <1>5, <2>1, <2>2, SumOfSame, SumGrows
  <1>6. /\ SumOver(CostOf', ChargedTo(u)) = SumOver(CostOf, ChargedTo(u))
        /\ SumOver(CostOf', ChargedTo(u) \cup {r}) = req[r].cost + SumOver(CostOf, ChargedTo(u))
    BY <1>4, <1>5, ChargesAreFinite
  <1>7. /\ SumOver(CostOf', ChargedOn(u, d)) = SumOver(CostOf, ChargedOn(u, d))
        /\ SumOver(CostOf', ChargedOn(u, d) \cup {r})
             = req[r].cost + SumOver(CostOf, ChargedOn(u, d))
    BY <1>4, <1>5, ChargesAreFinite
  <1> QED BY <1>2, <1>3, <1>6, <1>7 DEF TotalCost

(***************************************************************************)
(* Rows. Where no block and no grant is in flight, a step that charges     *)
(* nobody leaves what a row counts, or creates the row.                    *)
(***************************************************************************)
NoReads(ops) == \A a \in Admins : adm[a].pc = "read" => adm[a].op \notin ops

LEMMA ReadsStep ==
  ASSUME TypeOK, NEW ops, ops \cap Endpoints = {}, NoReads(ops), [Next]_vars
  PROVE  NoReads(ops)'
  <1>1. adm \in [Admins -> AdminStates]
    BY DEF TypeOK
  <1>2. ASSUME NEW a \in Admins, NEW op \in Endpoints, NEW u, NEW d,
               adm' = [adm EXCEPT ![a] = ReadAdmin(op, u, d)]
        PROVE  NoReads(ops)'
    BY <1>1, <1>2 DEF NoReads, ReadAdmin
  <1>3. ASSUME NEW a \in Admins, NEW to \in {"done", "failed"}, adm' = [adm EXCEPT ![a].pc = to]
        PROVE  NoReads(ops)'
    BY <1>1, <1>3 DEF NoReads, AdminStates
  <1>4. ASSUME NEW a \in Admins, NEW op \in AdminOps, AtOnce(a, op)
        PROVE  NoReads(ops)'
    BY <1>1, <1>4 DEF NoReads, AtOnce, AdminStates
  <1>5. ASSUME NEW a \in Admins, AdminStep(a)
        PROVE  NoReads(ops)'
    BY <1>2, <1>3, <1>4, <1>5
    DEF AdminStep, GrantRead, GrantCommit, BlockRead, BlockWrite, Unblock, SetConfig, Begin, AdminOps
  <1>6. CASE Crash
    BY <1>1, <1>6 DEF NoReads, Crash, AdminStates
  <1>7. CASE UNCHANGED adm
    BY <1>7 DEF NoReads
  <1>8. ASSUME NEW r \in Requests, HandlerStep(r)
        PROVE  UNCHANGED adm
    BY <1>8, HandlerRows
  <1> QED BY <1>5, <1>6, <1>7, <1>8 DEF Next, NextDay, Quiescent, vars

\* What a step that is no charge may do to a user's row: keep what it counts,
\* create it, or, where grants are in use, set its paid balance.
Counted(u) == /\ balance'[u].used = balance[u].used /\ balance'[u].date = balance[u].date
              /\ balance'[u].present = balance[u].present
Created(u) == /\ ~balance[u].present
              /\ balance'[u].used = 0 /\ balance'[u].date = today /\ balance'[u].present

LEMMA RowsStand ==
  ASSUME TypeOK, ChargeInv, [Next]_vars, NoReads({"block"}), \A r \in Requests : ~Charges(r),
         NEW u \in Users
  PROVE  /\ Counted(u) \/ Created(u)
         /\ NoReads({"grant"}) =>
              \/ Counted(u) /\ balance'[u].paid = balance[u].paid
              \/ Created(u) /\ balance'[u].paid = 0
  <1>1. balance \in [Users -> BalanceRows]
    BY DEF TypeOK
  <1>2. ASSUME NEW r \in Requests, EnsureRow(r)
        PROVE  \/ Counted(u) /\ balance'[u].paid = balance[u].paid
               \/ Created(u) /\ balance'[u].paid = 0
    BY <1>1, <1>2 DEF EnsureRow, FreshRow, Counted, Created
  <1>3. ASSUME NEW r \in Requests, ApplyDebit(r)
        PROVE  UNCHANGED balance
    BY <1>3, ApplyCharges
  <1>4. ASSUME NEW a \in Admins, Unblock(a)
        PROVE  Counted(u) /\ balance'[u].paid = balance[u].paid
    BY <1>1, <1>4 DEF Unblock, Counted, BalanceRows
  <1>5. ASSUME NEW a \in Admins, GrantCommit(a)
        PROVE  /\ Counted(u) \/ Created(u)
               /\ ~NoReads({"grant"})
    <2> DEFINE g == adm[a]
               row == IF g.found THEN balance[g.user] ELSE FreshRow(today)
               new == [row EXCEPT !.paid = GreatestOf(g.paid + g.delta, 0)]
    <2>1. ~NoReads({"grant"})
      BY <1>5 DEF GrantCommit, NoReads
    <2>2. g.user \in Users /\ row \in BalanceRows
      BY <1>1, <1>5, FreshRowType DEF TypeOK, GrantCommit
    <2>3. UNCHANGED balance \/ (/\ ~(~g.found /\ balance[g.user].present)
                                /\ balance' = [balance EXCEPT ![g.user] = new])
      BY <1>5 DEF GrantCommit
    <2>4. new.used = row.used /\ new.date = row.date /\ new.present = row.present
      BY <2>2 DEF BalanceRows
    <2>5. /\ FreshRow(today).used = 0 /\ FreshRow(today).date = today
          /\ FreshRow(today).present
      BY DEF FreshRow
    <2> HIDE DEF new
    <2>6. CASE UNCHANGED balance
      BY <2>6, <2>1 DEF Counted
    <2>7. CASE /\ ~(~g.found /\ balance[g.user].present)
               /\ balance' = [balance EXCEPT ![g.user] = new]
      BY <1>1, <2>1, <2>2, <2>4, <2>5, <2>7 DEF Counted, Created
    <2> QED BY <2>3, <2>6, <2>7
  <1>6. ASSUME NEW a \in Admins
        PROVE  ~BlockWrite(a)
    BY DEF BlockWrite, NoReads
  <1>7. UNCHANGED balance => Counted(u) /\ balance'[u].paid = balance[u].paid
    BY DEF Counted
  <1> QED BY <1>2, <1>3, <1>4, <1>5, <1>6, <1>7
          DEF Next, HandlerStep, Arrive, Answer, CountDebits, StartDebit, ExplainDenial,
              WriteLedger, AdminStep, GrantRead, BlockRead, SetConfig, NextDay, Crash, Quiescent,
              vars

\* A charge moves the row of its user to the day of the UPDATE.
LEMMA ChargedRow ==
  ASSUME TypeOK, NEW r \in Requests, Charges(r), NEW u \in Users
  PROVE  IF u = UserOf[r]
         THEN /\ balance[u].present
              /\ balance'[u] = Charge(balance[u], req[r].day, req[r].cap, req[r].cost)
              /\ balance'[u].present
              /\ balance'[u].date = req[r].day
              /\ balance'[u].used =
                   LeastOf((IF Stale(balance[u], req[r].day) THEN 0 ELSE balance[u].used)
                           + req[r].cost, req[r].cap)
              /\ balance'[u].paid =
                   balance[u].paid - FromPaid(balance[u], req[r].day, req[r].cap, req[r].cost)
         ELSE balance'[u] = balance[u]
  <1>1. /\ balance[u] \in BalanceRow
        /\ req[r].day \in Int /\ req[r].cap \in Int /\ req[r].cost \in Int
    BY CreditsAssumption DEF TypeOK, BalanceRows, BalanceRow, RequestStates
  <1>2. balance'[u] = IF u = UserOf[r]
                      THEN Charge(balance[u], req[r].day, req[r].cap, req[r].cost) ELSE balance[u]
    BY DEF Charges, TypeOK
  <1>3. u = UserOf[r] => balance[u].present
    BY DEF Charges
  <1> QED BY <1>1, <1>2, <1>3, ChargeFields

\* No row and no UPDATE is dated after today.
Dates == /\ \A r \in Requests : req[r].day <= today
         /\ \A u \in Users : balance[u].date <= today

LEMMA DatesStep ==
  ASSUME TypeOK, ChargeInv, NoReads({"block"}), Dates, [Next]_vars
  PROVE  Dates'
  <1>1. today \in Nat /\ (today' = today \/ today' = today + 1)
    <2>1. \A r \in Requests : HandlerStep(r) => today' = today
      BY DEF HandlerStep, Arrive, Answer, CountDebits, EnsureRow, StartDebit, ApplyDebit,
             ExplainDenial, WriteLedger
    <2>2. \A a \in Admins : AdminStep(a) => today' = today
      BY DEF AdminStep, GrantRead, GrantCommit, BlockRead, BlockWrite, Unblock, SetConfig
    <2> QED BY <2>1, <2>2, CreditsAssumption DEF TypeOK, Next, NextDay, Crash, Quiescent, vars
  <1>2. ASSUME NEW s \in Requests
        PROVE  req'[s].day \in {req[s].day, today}
    <2>1. req \in [Requests -> RequestStates]
      BY DEF TypeOK
    <2>2. ASSUME NEW r \in Requests, NEW from, NEW to, Goto(r, from, to)
          PROVE  req'[s].day = req[s].day
      BY <2>1, <2>2 DEF Goto, RequestStates
    <2>3. ASSUME NEW r \in Requests, HandlerStep(r)
          PROVE  req'[s].day \in {req[s].day, today}
      <3>1. CASE Arrive(r)
        BY <2>1, <3>1 DEF Arrive, RequestStates
      <3>2. CASE Answer(r)
        <4>1. ASSUME NEW c, NEW t, req' = [req EXCEPT ![r].pc = "answered", ![r].cost = c, ![r].status = t]
              PROVE  req'[s].day = req[s].day
          BY <2>1, <4>1 DEF RequestStates
        <4> QED BY <2>2, <3>2, <4>1 DEF Answer
      <3>3. CASE StartDebit(r)
        BY <2>1, <3>3 DEF StartDebit, RequestStates
      <3>4. CASE ApplyDebit(r)
        BY <2>2, <3>4, ApplyCharges DEF Charges
      <3> QED BY <2>2, <2>3, <3>1, <3>2, <3>3, <3>4
              DEF HandlerStep, CountDebits, EnsureRow, ExplainDenial, WriteLedger
    <2>4. Crash => req'[s].day = req[s].day
      BY <2>1 DEF Crash, RequestStates
    <2>5. UNCHANGED req \/ Crash \/ \E q \in Requests : HandlerStep(q)
      BY DEF Next, AdminStep, GrantRead, GrantCommit, BlockRead, BlockWrite, Unblock, SetConfig,
             NextDay, Quiescent, vars
    <2> QED BY <2>3, <2>4, <2>5
  <1>3. ASSUME NEW u \in Users
        PROVE  balance'[u].date <= today
    <2>1. CASE \E r \in Requests : Charges(r)
      BY <2>1, ChargedRow DEF Dates
    <2>2. CASE ~\E r \in Requests : Charges(r)
      BY <1>1, <2>2, RowsStand DEF Counted, Created, Dates
    <2> QED BY <2>1, <2>2
  <1>4. /\ \A s \in Requests : req'[s].day <= today /\ req'[s].day \in Int
        /\ \A u \in Users : balance'[u].date \in Int
    <2>1. /\ req' \in [Requests -> RequestStates] /\ balance' \in [Users -> BalanceRows]
          /\ req \in [Requests -> RequestStates] /\ today \in Int
      BY <1>1, NextType DEF TypeOK
    <2>2. \A d \in 0..LastDay : d \in Int
      BY CreditsAssumption
    <2>3. ASSUME NEW s \in Requests
          PROVE  req'[s].day \in Int /\ req[s].day \in Int
      <3>1. req'[s] \in RequestStates /\ req[s] \in RequestStates
        BY <2>1
      <3> QED BY <2>2, <3>1 DEF RequestStates
    <2>4. \A u \in Users : balance'[u].date \in Int
      BY <2>1, <2>2 DEF BalanceRows
    <2> QED BY <1>2, <2>1, <2>3, <2>4 DEF Dates
  <1> QED BY <1>1, <1>3, <1>4 DEF Dates

-----------------------------------------------------------------------------
(***************************************************************************)
(* What the usage endpoint shows. Where no block is in use: a block dates  *)
(* the row today and keeps what an earlier day used.                       *)
(***************************************************************************)
Shown(u, d) == UsageView(balance[u], d)
Opened(d) == IF d = 0 THEN OpeningRow.used ELSE 0
SpentOn(u, d) == TotalCost(ChargedOn(u, d))

LEMMA UsageTypes ==
  ASSUME TypeOK, NEW u \in Users, NEW d \in Nat
  PROVE  SpentOn(u, d) \in Nat /\ Opened(d) \in Nat /\ Shown(u, d) \in Int
  <1>1. ChargedOn(u, d) \subseteq Requests
    BY DEF ChargedOn, ChargedTo
  <1>2. SpentOn(u, d) \in Nat
    BY <1>1, ChargesAreFinite, TotalsAreNatural DEF SpentOn
  <1>3. OpeningRow.used \in Nat
    BY OneOpening, CreditsAssumption DEF Row
  <1>4. balance[u] \in BalanceRows
    BY DEF TypeOK
  <1> QED BY <1>2, <1>3, <1>4 DEF Opened, Shown, UsageView, Stale, BalanceRows

LEMMA UsageStep ==
  ASSUME TypeOK, ChargeInv, NoReads({"block"}), Dates, UsageIsTodaysSpending, [Next]_vars
  PROVE  UsageIsTodaysSpending'
  <1>1. TypeOK' /\ Dates'
    BY NextType, DatesStep
  <1>2. today \in Nat /\ today' \in Nat /\ (today' = today \/ today < today')
    <2>1. \A r \in Requests : HandlerStep(r) => today' = today
      BY DEF HandlerStep, Arrive, Answer, CountDebits, EnsureRow, StartDebit, ApplyDebit,
             ExplainDenial, WriteLedger
    <2>2. \A a \in Admins : AdminStep(a) => today' = today
      BY DEF AdminStep, GrantRead, GrantCommit, BlockRead, BlockWrite, Unblock, SetConfig
    <2> QED BY <2>1, <2>2, CreditsAssumption DEF TypeOK, Next, NextDay, Crash, Quiescent, vars
  <1>3. ASSUME NEW u \in Users
        PROVE  Shown(u, today) <= SpentOn(u, today) + Opened(today)
    BY DEF UsageIsTodaysSpending, Shown, SpentOn, Opened
  <1>4. ASSUME NEW u \in Users
        PROVE  /\ SpentOn(u, today)' \in Nat /\ Opened(today)' \in Nat
               /\ SpentOn(u, today) \in Nat /\ Opened(today) \in Nat
               /\ balance[u] \in BalanceRows /\ balance'[u] \in BalanceRows
    <2>1. ASSUME NEW d
          PROVE  SpentOn(u, d)' \in Nat
      <3>1. ChargedOn(u, d)' \subseteq Requests
        BY DEF ChargedOn, ChargedTo
      <3>2. IsFiniteSet(ChargedOn(u, d)')
        BY <3>1, AccountingAssumption, FS_Subset
      <3>3. \A r \in ChargedOn(u, d)' : CostOf'[r] \in Nat
        BY <1>1, <3>1 DEF CostOf, TypeOK, RequestStates
      <3>4. SumOver(CostOf', ChargedOn(u, d)') \in Nat
        BY <3>2, <3>3, SumOfNaturals
      <3> QED BY <3>4 DEF SpentOn, TotalCost
    <2>2. Opened(today)' \in Nat /\ Opened(today) \in Nat
      BY OneOpening, CreditsAssumption DEF Row, Opened
    <2> QED BY <1>1, <1>2, <2>1, <2>2, UsageTypes DEF TypeOK, SpentOn
  <1>5. ASSUME NEW u \in Users
        PROVE  Shown(u, today)' <= SpentOn(u, today)' + Opened(today)'
    <2>1. balance[u].date <= today
      BY DEF Dates
    <2>2. CASE balance'[u].date < today'
      BY <1>4, <2>2 DEF Shown, UsageView, Stale
    <2>3. CASE ~(balance'[u].date < today') /\ \E r \in Requests : Charges(r)
      <3>1. PICK r \in Requests : Charges(r)
        BY <2>3
      <3>2. today' = today
        BY <3>1 DEF Charges
      <3>3. CASE u # UserOf[r]
        <4>1. balance'[u] = balance[u]
          BY <3>1, <3>3, ChargedRow
        <4>2. SpentOn(u, today)' = SpentOn(u, today)
          BY <3>1, <3>2, <3>3, TotalsGrow DEF SpentOn
        <4> QED BY <1>3, <3>2, <4>1, <4>2 DEF Shown, Opened
      <3>4. CASE u = UserOf[r]
        <4>1. /\ req[r].day \in Int /\ req[r].cost \in Nat /\ req[r].cap \in Int
              /\ req[r].day <= today
          BY CreditsAssumption DEF TypeOK, RequestStates, Dates
        <4>2. /\ balance'[u].date = req[r].day
              /\ balance'[u].used =
                   LeastOf((IF Stale(balance[u], req[r].day) THEN 0 ELSE balance[u].used)
                           + req[r].cost, req[r].cap)
          BY <3>1, <3>4, ChargedRow
        <4>3. req[r].day = today
          BY <1>2, <2>3, <3>2, <4>1, <4>2
        <4>4. balance'[u].used <= Shown(u, today) + req[r].cost
          BY <1>4, <4>1, <4>2, <4>3 DEF Shown, UsageView, LeastOf, Stale, BalanceRows
        <4>5. SpentOn(u, today)' = req[r].cost + SpentOn(u, today)
          BY <3>1, <3>2, <3>4, <4>3, TotalsGrow DEF SpentOn
        <4>6. Shown(u, today)' = balance'[u].used /\ Opened(today)' = Opened(today)
          BY <2>3, <3>2 DEF Shown, Opened, UsageView, Stale
        <4>7. Shown(u, today) \in Int /\ balance'[u].used \in Int
          BY <1>2, <1>4, UsageTypes DEF BalanceRows
        <4> QED BY <1>3, <1>4, <4>1, <4>4, <4>5, <4>6, <4>7
      <3> QED BY <3>3, <3>4
    <2>4. CASE ~(balance'[u].date < today') /\ ~\E r \in Requests : Charges(r)
      <3>1. \A q \in Requests : Stands(q)
        BY <2>4, ChargeOrStand
      <3>2. CASE Created(u)
        BY <1>4, <3>2 DEF Created, Shown, UsageView
      <3>3. CASE Counted(u)
        <4>1. today' = today
          BY <1>2, <1>4, <2>1, <2>4, <3>3, CreditsAssumption DEF Counted, BalanceRows
        <4>2. SpentOn(u, today)' = SpentOn(u, today)
          BY <3>1, <4>1, TotalsStand DEF SpentOn
        <4> QED BY <1>3, <3>3, <4>1, <4>2 DEF Counted, Shown, Opened, UsageView, Stale
      <3> QED BY <2>4, <3>2, <3>3, RowsStand
    <2> QED BY <2>2, <2>3, <2>4
  <1> QED BY <1>5 DEF UsageIsTodaysSpending, Shown, SpentOn, Opened

\* Where no block is in use, the usage endpoint never shows a user more than the
\* user was charged today, however many days pass and whichever UPDATE comes
\* late: "`daily_used` + `daily_date` form a lazy reset".
THEOREM UsageIsSpending ==
  ASSUME "block" \notin Endpoints
  PROVE  Spec => []UsageIsTodaysSpending
  <1>1. ASSUME Init
        PROVE  NoReads({"block"}) /\ Dates /\ UsageIsTodaysSpending
    <2>1. TypeOK /\ \A u \in Users : balance[u] = OpeningRow
      BY <1>1, InitType, OneOpening DEF Init
    <2>2. today = 0 /\ (\A r \in Requests : req[r].day = 0) /\ OpeningRow.date = 0
      BY <1>1, OneOpening DEF Init, IdleRequest
    <2>3. \A u \in Users : SpentOn(u, today) \in Nat /\ Opened(today) \in Nat
      BY <2>1, <2>2, UsageTypes
    <2>4. \A u \in Users : Shown(u, today) = OpeningRow.used /\ Opened(today) = OpeningRow.used
      BY <2>1, <2>2 DEF Shown, Opened, UsageView, Stale
    <2>5. \A u \in Users : Shown(u, today) <= SpentOn(u, today) + Opened(today)
      BY <2>3, <2>4
    <2> QED BY <1>1, <2>1, <2>2, <2>5
            DEF Init, IdleAdmin, NoReads, Dates, UsageIsTodaysSpending, Shown, SpentOn, Opened
  <1>2. TypeOK /\ ChargeInv /\ NoReads({"block"}) /\ [Next]_vars => NoReads({"block"})'
    BY ReadsStep
  <1>3. TypeOK /\ ChargeInv /\ NoReads({"block"}) /\ Dates /\ [Next]_vars => Dates'
    BY DatesStep
  <1>4. /\ TypeOK /\ ChargeInv /\ NoReads({"block"}) /\ Dates /\ UsageIsTodaysSpending
        /\ [Next]_vars
        => UsageIsTodaysSpending'
    BY UsageStep
  <1> QED BY <1>1, <1>2, <1>3, <1>4, ChargeInvariant, PTL DEF Spec

-----------------------------------------------------------------------------
(***************************************************************************)
(* Debits add up. Where no admin call changes a row or the allowance: the  *)
(* row is there before its first charge and counts what it opened with.    *)
(***************************************************************************)
Quiet == {"grant", "block"}

\* The allowance is the default, in the config and in every handler.
SameCap ==
  /\ config.allowance = DefaultAllowance
  /\ \A r \in Requests : req[r].pc \in Waiting \ {"new"} => req[r].cap = DefaultAllowance

\* A user nobody charged still has the opening counts, on some day when there
\* are none; a charged user has a row.
Unspent ==
  /\ \A u \in Users : ChargedTo(u) = {} =>
       /\ balance[u].used = OpeningRow.used /\ balance[u].paid = OpeningRow.paid
       /\ balance[u].date = OpeningRow.date \/ balance[u].used = 0
       /\ ~balance[u].present => OpeningRow = NoRow
  /\ \A u \in Users : ChargedTo(u) # {} => balance[u].present

LEMMA SameCapStep ==
  ASSUME Endpoints \subseteq {"unblock"}, TypeOK, ChargeInv, SameCap, [Next]_vars
  PROVE  SameCap'
  <1>1. req \in [Requests -> RequestStates]
    BY DEF TypeOK
  <1>2. config' = config
    <2>1. \A r \in Requests : HandlerStep(r) => config' = config
      BY DEF HandlerStep, Arrive, Answer, CountDebits, EnsureRow, StartDebit, ApplyDebit,
             ExplainDenial, WriteLedger
    <2>2. \A a \in Admins : AdminStep(a) => config' = config
      BY DEF AdminStep, GrantRead, GrantCommit, BlockRead, BlockWrite, Unblock, SetConfig, Begin
    <2> QED BY <2>1, <2>2 DEF Next, NextDay, Crash, Quiescent, vars
  <1>3. ASSUME NEW r \in Requests, NEW from \in Waiting \ {"new"}, NEW to, Goto(r, from, to)
        PROVE  SameCap'
    BY <1>1, <1>2, <1>3 DEF Goto, SameCap, RequestStates
  <1>4. ASSUME NEW r \in Requests, HandlerStep(r)
        PROVE  SameCap'
    <2>1. CASE Arrive(r)
      BY <1>1, <1>2, <2>1 DEF Arrive, SameCap, RequestStates, Waiting
    <2>2. CASE Answer(r)
      <3>1. ASSUME NEW c, NEW s, req[r].pc = "dispatched",
                   req' = [req EXCEPT ![r].pc = "answered", ![r].cost = c, ![r].status = s]
            PROVE  SameCap'
        <4>1. req'[r].cap = req[r].cap /\ \A q \in Requests \ {r} : req'[q] = req[q]
          BY <1>1, <3>1 DEF RequestStates
        <4> QED BY <1>2, <3>1, <4>1 DEF SameCap, Waiting
      <3> QED BY <1>3, <2>2, <3>1 DEF Answer, Waiting
    <2>3. CASE StartDebit(r)
      BY <1>1, <1>2, <2>3 DEF StartDebit, SameCap, RequestStates, Waiting
    <2>4. CASE Charges(r)
      BY <1>2, <2>4 DEF Charges, SameCap, Waiting
    <2> QED BY <1>3, <1>4, <2>1, <2>2, <2>3, <2>4, ApplyCharges
            DEF HandlerStep, CountDebits, EnsureRow, ExplainDenial, WriteLedger, Waiting
  <1>5. CASE Crash
    BY <1>1, <1>2, <1>5 DEF Crash, SameCap, RequestStates, Waiting
  <1>6. CASE UNCHANGED req
    BY <1>2, <1>6 DEF SameCap
  <1>7. UNCHANGED req \/ Crash \/ \E q \in Requests : HandlerStep(q)
    BY DEF Next, AdminStep, GrantRead, GrantCommit, BlockRead, BlockWrite, Unblock, SetConfig,
           NextDay, Quiescent, vars
  <1> QED BY <1>4, <1>5, <1>6, <1>7

LEMMA UnspentStep ==
  ASSUME TypeOK, ChargeInv, NoReads(Quiet), Unspent, [Next]_vars
  PROVE  Unspent'
  <1>1. NoReads({"block"}) /\ NoReads({"grant"})
    BY DEF NoReads, Quiet
  <1>2. ASSUME NEW r \in Requests, Charges(r), NEW u \in Users
        PROVE  /\ ChargedTo(u)' = {} => ChargedTo(u) = {} /\ balance'[u] = balance[u]
               /\ ChargedTo(u)' # {} /\ ~balance'[u].present =>
                    ChargedTo(u) # {} /\ balance'[u] = balance[u]
    <2>1. CASE u = UserOf[r]
      <3>1. r \in ChargedTo(u)'
        BY <1>2, <2>1, TotalsGrow
      <3>2. balance'[u].present
        BY <1>2, <2>1, ChargedRow
      <3> QED BY <3>1, <3>2
    <2>2. CASE u # UserOf[r]
      <3>1. ChargedTo(u)' = ChargedTo(u) /\ balance'[u] = balance[u]
        BY <1>2, <2>2, TotalsGrow, ChargedRow
      <3> QED BY <3>1
    <2> QED BY <2>1, <2>2
  <1>3. ASSUME \A r \in Requests : ~Charges(r), NEW u \in Users
        PROVE  /\ ChargedTo(u)' = ChargedTo(u)
               /\ \/ Counted(u) /\ balance'[u].paid = balance[u].paid
                  \/ Created(u) /\ balance'[u].paid = 0
    BY <1>1, <1>3, ChargeOrStand, TotalsStand, RowsStand
  <1>4. CASE \E r \in Requests : Charges(r)
    BY <1>2, <1>4 DEF Unspent
  <1>5. CASE \A r \in Requests : ~Charges(r)
    BY <1>3, <1>5 DEF Unspent, Counted, Created, NoRow
  <1> QED BY <1>4, <1>5

\* What a row counts after a debit depends on what it counted before.
LEMMA SameCountsCharge ==
  ASSUME NEW x \in BalanceRow, NEW y \in BalanceRow, NEW d \in Int, NEW a \in Int, NEW c \in Int,
         SameCounts(x, y)
  PROVE  SameCounts(Charge(x, d, a, c), Charge(y, d, a, c))
  <1>1. Stale(x, d) = Stale(y, d) /\ Available(x, d, a) = Available(y, d, a)
    BY DEF SameCounts, Stale, Available
  <1> QED BY <1>1, ChargeFields DEF SameCounts, FromPaid

LEMMA ComposeStep ==
  ASSUME TypeOK, ChargeInv, NoReads(Quiet), SameCap, Unspent, DebitsCompose, [Next]_vars
  PROVE  DebitsCompose'
  <1> DEFINE a == DefaultAllowance
             Sum(u) == TotalCost(ChargedTo(u))
  <1>1. NoReads({"block"}) /\ NoReads({"grant"})
    BY DEF NoReads, Quiet
  <1>2. SUFFICES ASSUME NEW u \in Users, NEW d \in 0..LastDay,
                        ChargedTo(u)' # {}, ChargedTo(u)' = ChargedOn(u, d)'
                 PROVE  SameCounts(balance'[u], Charge(OpeningRow, d, a, Sum(u)'))
    BY DEF DebitsCompose
  <1>3. ASSUME ChargedTo(u) # {}, ChargedTo(u) = ChargedOn(u, d)
        PROVE  SameCounts(balance[u], Charge(OpeningRow, d, a, Sum(u)))
    BY <1>3 DEF DebitsCompose
  <1>4. /\ a \in Nat /\ d \in Int /\ balance[u] \in BalanceRow
        /\ OpeningRow \in BalanceRow /\ Sum(u) \in Nat
    <2>1. ChargedTo(u) \subseteq Requests
      BY DEF ChargedTo
    <2>2. Sum(u) \in Nat
      BY <2>1, ChargesAreFinite, TotalsAreNatural
    <2> QED BY <2>2, OneOpening, CreditsAssumption DEF TypeOK, BalanceRows, BalanceRow, Row
  <1> HIDE DEF a, Sum
  <1>5. ASSUME \A r \in Requests : ~Charges(r)
        PROVE  SameCounts(balance'[u], Charge(OpeningRow, d, a, Sum(u)'))
    <2>1. /\ ChargedTo(u)' = ChargedTo(u) /\ ChargedOn(u, d)' = ChargedOn(u, d)
          /\ Sum(u)' = Sum(u)
      BY <1>5, ChargeOrStand, TotalsStand DEF Sum
    <2>2. SameCounts(balance[u], Charge(OpeningRow, d, a, Sum(u)))
      BY <1>2, <1>3, <2>1
    <2>3. ~Created(u)
      BY <1>2, <2>1 DEF Unspent, Created
    <2>4. Counted(u) /\ balance'[u].paid = balance[u].paid
      BY <1>1, <1>5, <2>3, RowsStand
    <2> QED BY <2>1, <2>2, <2>4 DEF SameCounts, Counted
  <1>6. ASSUME NEW r \in Requests, Charges(r)
        PROVE  SameCounts(balance'[u], Charge(OpeningRow, d, a, Sum(u)'))
    <2> DEFINE c == req[r].cost
    <2>1. CASE u # UserOf[r]
      BY <1>2, <1>3, <1>6, <2>1, TotalsGrow, ChargedRow DEF Sum
    <2>2. CASE u = UserOf[r]
      <3>1. req[r].day = d /\ r \in ChargedTo(u)'
        <4>1. r \in ChargedTo(u)'
          BY <1>6, <2>2, TotalsGrow
        <4> QED BY <1>2, <1>6, <4>1 DEF ChargedOn, Charges
      <3>2. ChargedTo(u) = ChargedOn(u, d)
        <4>1. \A s \in ChargedTo(u) : s # r /\ req'[s] = req[s] /\ s \in ChargedTo(u)'
          BY <1>6, <2>2, TotalsGrow DEF Charges, ChargedTo
        <4> QED BY <1>2, <4>1 DEF ChargedOn
      <3>3. req[r].cap = a /\ c \in Nat
        BY <1>6 DEF SameCap, Charges, Waiting, TypeOK, RequestStates, a
      <3>4. balance'[u] = Charge(balance[u], d, a, c)
        BY <1>6, <2>2, <3>1, <3>3, ChargedRow
      <3>5. Sum(u)' = c + Sum(u)
        BY <1>6, <2>2, TotalsGrow DEF Sum
      <3> HIDE DEF c
      <3>6. CASE ChargedTo(u) # {}
        <4>1. SameCounts(balance[u], Charge(OpeningRow, d, a, Sum(u)))
          BY <1>3, <3>2, <3>6
        <4>2. Charge(OpeningRow, d, a, Sum(u)) \in BalanceRow
          BY <1>4, ChargeType
        <4>3. SameCounts(balance'[u], Charge(Charge(OpeningRow, d, a, Sum(u)), d, a, c))
          BY <1>4, <3>3, <3>4, <4>1, <4>2, SameCountsCharge
        <4>4. Charge(Charge(OpeningRow, d, a, Sum(u)), d, a, c) = Charge(OpeningRow, d, a, Sum(u) + c)
          BY <1>4, <3>3, ChargesCompose
        <4> QED BY <1>4, <3>3, <3>5, <4>3, <4>4
      <3>7. CASE ChargedTo(u) = {}
        <4>1. Sum(u)' = c
          BY <1>4, <3>3, <3>5, <3>7, SumOfNone DEF Sum, TotalCost
        <4>2. /\ balance[u].used = OpeningRow.used /\ balance[u].paid = OpeningRow.paid
              /\ balance[u].date = OpeningRow.date \/ balance[u].used = 0
          BY <3>7 DEF Unspent
        <4>3. CASE balance[u].date = OpeningRow.date
          BY <1>4, <3>3, <3>4, <4>1, <4>2, <4>3, SameCountsCharge DEF SameCounts
        <4>4. CASE balance[u].used = 0
          <5>1. /\ Available(balance[u], d, a) = a /\ Available(OpeningRow, d, a) = a
                /\ (IF Stale(balance[u], d) THEN 0 ELSE balance[u].used) = 0
                /\ (IF Stale(OpeningRow, d) THEN 0 ELSE OpeningRow.used) = 0
            BY <1>4, <4>2, <4>4 DEF Available
          <5>2. FromPaid(balance[u], d, a, c) = FromPaid(OpeningRow, d, a, c)
            BY <5>1 DEF FromPaid
          <5> QED BY <1>4, <3>3, <3>4, <4>1, <4>2, <5>1, <5>2, ChargeFields DEF SameCounts
        <4> QED BY <4>2, <4>3, <4>4
      <3> QED BY <3>6, <3>7
    <2> QED BY <2>1, <2>2
  <1> QED BY <1>5, <1>6

\* The UPDATEs of debit() commute and add up: while a user's charges fall on one
\* day, in whatever order they and the creation of the row come, the row is the
\* one a single debit of the total would leave. Where no admin call sets a row
\* or the allowance.
THEOREM DebitsAddUp ==
  ASSUME Endpoints \subseteq {"unblock"}
  PROVE  Spec => []DebitsCompose
  <1> DEFINE ComposeInv == NoReads(Quiet) /\ SameCap /\ Unspent /\ DebitsCompose
  <1>1. ASSUME Init
        PROVE  ComposeInv
    <2>1. \A u : ChargedTo(u) = {}
      BY <1>1 DEF Init, ChargedTo, IdleRequest
    <2>2. \A u \in Users : balance[u] = OpeningRow
      BY <1>1, OneOpening DEF Init
    <2>3. NoReads(Quiet) /\ SameCap
      BY <1>1 DEF Init, IdleAdmin, IdleRequest, NoReads, SameCap
    <2> QED BY <2>1, <2>2, <2>3, OneOpening DEF Unspent, DebitsCompose
  <1>2. TypeOK /\ ChargeInv /\ NoReads(Quiet) /\ [Next]_vars => NoReads(Quiet)'
    <2>1. Quiet \cap Endpoints = {}
      BY DEF Quiet
    <2> QED BY <2>1, ReadsStep
  <1>3. TypeOK /\ ChargeInv /\ ComposeInv /\ [Next]_vars => ComposeInv'
    BY <1>2, SameCapStep, UnspentStep, ComposeStep
  <1>4. ComposeInv => DebitsCompose
    OBVIOUS
  <1> HIDE DEF ComposeInv
  <1> QED BY <1>1, <1>3, <1>4, ChargeInvariant, PTL DEF Spec

-----------------------------------------------------------------------------
(***************************************************************************)
(* Where the paid balance went. Without grants, whose read and write a     *)
(* debit can come between.                                                 *)
(***************************************************************************)
PaidByUser(u) == TotalCost(ChargedTo(u)) - FromAllowance(ChargedTo(u))

LEMMA PaidByUserType ==
  ASSUME TypeOK, NEW u \in Users
  PROVE  PaidByUser(u) \in Int
  <1>1. /\ IsFiniteSet(ChargedTo(u)) /\ ChargedTo(u) \subseteq Requests
        /\ \A r \in ChargedTo(u) : FreeOf[r] \in Int
    BY ChargesAreFinite DEF ChargedTo, FreeOf, TypeOK, RequestStates
  <1>2. TotalCost(ChargedTo(u)) \in Nat /\ FromAllowance(ChargedTo(u)) \in Int
    BY <1>1, TotalsAreNatural, SumWithout DEF FromAllowance
  <1> QED BY <1>2 DEF PaidByUser

LEMMA PaidTotals ==
  ASSUME TypeOK, ChargeInv, [Next]_vars, NEW u \in Users
  PROVE  /\ (\A q \in Requests : Stands(q)) => PaidByUser(u)' = PaidByUser(u)
         /\ \A r \in Requests : Charges(r) =>
              PaidByUser(u)' = IF u = UserOf[r]
                               THEN PaidByUser(u) + FromPaid(balance[u], req[r].day, req[r].cap, req[r].cost)
                               ELSE PaidByUser(u)
  <1> DEFINE S == ChargedTo(u)
  <1>1. /\ IsFiniteSet(S) /\ S \subseteq Requests
        /\ \A r \in S : FreeOf[r] \in Int
    BY ChargesAreFinite DEF ChargedTo, FreeOf, TypeOK, RequestStates
  <1>2. TotalCost(S) \in Nat /\ FromAllowance(S) \in Int
    BY <1>1, TotalsAreNatural, SumWithout DEF FromAllowance
  <1>3. ASSUME \A q \in Requests : Stands(q)
        PROVE  PaidByUser(u)' = PaidByUser(u)
    <2>1. \A r \in S : FreeOf'[r] = FreeOf[r]
      BY <1>3 DEF Stands, ChargedTo, FreeOf
    <2>2. SumOver(FreeOf', S) = SumOver(FreeOf, S)
      BY <1>1, <2>1, SumOfSame
    <2> QED BY <1>3, <2>2, TotalsStand DEF PaidByUser, FromAllowance
  <1>4. ASSUME NEW r \in Requests, Charges(r)
        PROVE  PaidByUser(u)' = IF u = UserOf[r]
                                THEN PaidByUser(u) + FromPaid(balance[u], req[r].day, req[r].cap, req[r].cost)
                                ELSE PaidByUser(u)
    <2> DEFINE p == FromPaid(balance[u], req[r].day, req[r].cap, req[r].cost)
    <2>1. /\ r \notin S
          /\ \A s \in S : FreeOf'[s] = FreeOf[s]
      BY <1>4 DEF Charges, ChargedTo, FreeOf
    <2>2. CASE u # UserOf[r]
      <3>1. ChargedTo(u)' = S /\ TotalCost(ChargedTo(u))' = TotalCost(S)
        BY <1>4, <2>2, TotalsGrow
      <3>2. SumOver(FreeOf', S) = SumOver(FreeOf, S)
        BY <1>1, <2>1, SumOfSame
      <3> QED BY <2>2, <3>1, <3>2 DEF PaidByUser, FromAllowance
    <2>3. CASE u = UserOf[r]
      <3>1. p \in Int /\ req[r].cost \in Nat
        <4>1. balance[u] \in BalanceRows /\ req[r] \in RequestStates
          BY DEF TypeOK
        <4> QED BY <4>1, CreditsAssumption
                DEF BalanceRows, RequestStates, FromPaid, GreatestOf, Available, Stale
      <3>2. FreeOf'[r] = req[r].cost - p
        BY <1>4, <2>3 DEF Charges, FreeOf
      <3> HIDE DEF p, S
      <3>3. SumOver(FreeOf', S \cup {r}) = req[r].cost - p + SumOver(FreeOf, S)
        <4>1. FreeOf'[r] \in Int
          BY <3>1, <3>2
        <4>2. SumOver(FreeOf', S \cup {r}) = FreeOf'[r] + SumOver(FreeOf, S)
          BY <1>1, <2>1, <4>1, SumGrows
        <4> QED BY <3>2, <4>2
      <3>4. ChargedTo(u)' = S \cup {r} /\ TotalCost(ChargedTo(u))' = req[r].cost + TotalCost(S)
        BY <1>4, <2>3, TotalsGrow DEF S
      <3>5. FromAllowance(ChargedTo(u))' = req[r].cost - p + FromAllowance(S)
        BY <3>3, <3>4 DEF FromAllowance
      <3>6. PaidByUser(u) = TotalCost(S) - FromAllowance(S)
        BY DEF PaidByUser, S
      <3>7. PaidByUser(u)' = PaidByUser(u) + p
        BY <1>2, <3>1, <3>4, <3>5, <3>6 DEF PaidByUser
      <3> QED BY <2>3, <3>7 DEF p
    <2> QED BY <2>2, <2>3
  <1> QED BY <1>3, <1>4

\* No grant is in flight or on record, and a row that is not there holds nothing.
Ungranted ==
  /\ NoReads({"grant"})
  /\ \A row \in ledger : row.kind # "admin_grant"
  /\ \A u \in Users : ~balance[u].present => balance[u].paid = 0

LEMMA UngrantedStep ==
  ASSUME "grant" \notin Endpoints, TypeOK, ChargeInv, Ungranted, [Next]_vars
  PROVE  /\ Ungranted'
         /\ (\A r \in Requests : ~Charges(r)) => \A u \in Users : balance'[u].paid = balance[u].paid
  <1>1. balance \in [Users -> BalanceRows] /\ NoReads({"grant"}) /\ NoReads({"grant"})'
    BY ReadsStep DEF TypeOK, Ungranted
  <1>2. \A a \in Admins : ~GrantCommit(a)
    BY <1>1 DEF GrantCommit, NoReads
  <1>3. \A row \in ledger' : row.kind # "admin_grant"
    <2>1. ASSUME NEW r \in Requests, HandlerStep(r)
          PROVE  ledger' \in {ledger, ledger \cup {DebitRow(r)}} /\ DebitRow(r).kind = "debit_prompt"
      BY <2>1, HandlerEffect DEF GoesOn, Ends, Pays, ServesFree, ServesPaid, DebitRow
    <2>2. ASSUME NEW a \in Admins, AdminStep(a)
          PROVE  UNCHANGED ledger
      BY <1>2, <2>2 DEF AdminStep, GrantRead, BlockRead, BlockWrite, Unblock, SetConfig
    <2> QED BY <2>1, <2>2 DEF Ungranted, Next, NextDay, Crash, Quiescent, vars
  <1>4. ASSUME NEW u \in Users, \A r \in Requests : ~Charges(r)
        PROVE  /\ balance'[u].paid = balance[u].paid
               /\ balance[u].present => balance'[u].present
    <2>1. ASSUME NEW r \in Requests, EnsureRow(r)
          PROVE  /\ balance'[u].paid = balance[u].paid
                 /\ balance[u].present => balance'[u].present
      BY <1>1, <2>1 DEF EnsureRow, FreshRow, Ungranted
    <2>2. ASSUME NEW r \in Requests, ApplyDebit(r)
          PROVE  UNCHANGED balance
      BY <1>4, <2>2, ApplyCharges
    <2>3. ASSUME NEW a \in Admins, Unblock(a)
          PROVE  /\ balance'[u].paid = balance[u].paid
                 /\ balance[u].present => balance'[u].present
      BY <1>1, <2>3 DEF Unblock, BalanceRows
    <2>4. ASSUME NEW a \in Admins, BlockWrite(a)
          PROVE  /\ balance'[u].paid = balance[u].paid
                 /\ balance[u].present => balance'[u].present
      <3> DEFINE b == adm[a]
                 row == IF b.found THEN balance[b.user] ELSE FreshRow(b.day)
                 new == [row EXCEPT !.date = b.day, !.blocked = TRUE]
      <3>1. b.user \in Users /\ row \in BalanceRows
        BY <1>1, <2>4, FreshRowType DEF TypeOK, BlockWrite, AdminStates
      <3>2. UNCHANGED balance \/ (/\ ~(~b.found /\ balance[b.user].present)
                                  /\ balance' = [balance EXCEPT ![b.user] = new])
        BY <2>4 DEF BlockWrite
      <3>3. new.paid = row.paid /\ new.present = row.present
        BY <3>1 DEF BalanceRows
      <3>4. FreshRow(b.day).paid = 0 /\ FreshRow(b.day).present
        BY DEF FreshRow
      <3>5. CASE /\ ~(~b.found /\ balance[b.user].present)
                 /\ balance' = [balance EXCEPT ![b.user] = new]
        <4> HIDE DEF new
        <4>1. balance'[u] = IF u = b.user THEN new ELSE balance[u]
          BY <1>1, <3>5
        <4> QED BY <3>1, <3>3, <3>4, <3>5, <4>1 DEF Ungranted
      <3> QED BY <3>2, <3>5
    <2> QED BY <1>2, <2>1, <2>2, <2>3, <2>4
            DEF Next, HandlerStep, Arrive, Answer, CountDebits, StartDebit, ExplainDenial,
                WriteLedger, AdminStep, GrantRead, BlockRead, SetConfig, NextDay, Crash,
                Quiescent, vars
  <1>5. \A u \in Users : ~balance'[u].present => balance'[u].paid = 0
    <2>1. ASSUME NEW r \in Requests, Charges(r), NEW u \in Users
          PROVE  balance'[u].present \/ balance'[u] = balance[u]
      BY <2>1, ChargedRow
    <2> QED BY <1>4, <2>1 DEF Ungranted
  <1> QED BY <1>1, <1>3, <1>4, <1>5 DEF Ungranted

\* Without grants, paid_balance is what the user opened with, minus what debits
\* took from it, whatever blocks, unblocks and allowance changes come between
\* ("`paid_balance` stores top-ups (never expire)").
THEOREM PaidIsAccounted ==
  ASSUME "grant" \notin Endpoints
  PROVE  Spec => []PaidIsAccountedFor
  <1> DEFINE Paid == \A u \in Users : balance[u].paid = OpeningRow.paid - PaidByUser(u)
  <1>1. ASSUME Init
        PROVE  Ungranted /\ Paid
    <2>1. \A u : ChargedTo(u) = {}
      BY <1>1 DEF Init, ChargedTo, IdleRequest
    <2>2. \A u \in Users : balance[u] = OpeningRow
      BY <1>1, OneOpening DEF Init
    <2>3. OpeningRow.paid \in Nat /\ (~OpeningRow.present => OpeningRow.paid = 0)
      BY OneOpening, CreditsAssumption DEF Row, NoRow
    <2>4. \A u : PaidByUser(u) = 0
      BY <2>1, SumOfNone DEF PaidByUser, TotalCost, FromAllowance
    <2> QED BY <1>1, <2>2, <2>3, <2>4 DEF Init, IdleAdmin, NoReads, Ungranted
  <1>2. ASSUME TypeOK, ChargeInv, Ungranted, Paid, [Next]_vars
        PROVE  Ungranted' /\ Paid'
    <2>1. Ungranted'
      BY <1>2, UngrantedStep
    <2>2. ASSUME NEW u \in Users
          PROVE  balance'[u].paid = OpeningRow.paid - PaidByUser(u)'
      <3>1. /\ balance[u].paid = OpeningRow.paid - PaidByUser(u)
            /\ PaidByUser(u) \in Int /\ OpeningRow.paid \in Int
        BY <1>2, PaidByUserType, OneOpening, CreditsAssumption DEF Row
      <3>2. CASE \A r \in Requests : ~Charges(r)
        BY <1>2, <3>1, <3>2, ChargeOrStand, PaidTotals, UngrantedStep
      <3>3. ASSUME NEW r \in Requests, Charges(r)
            PROVE  balance'[u].paid = OpeningRow.paid - PaidByUser(u)'
        <4>1. FromPaid(balance[u], req[r].day, req[r].cap, req[r].cost) \in Int
          <5>1. balance[u] \in BalanceRows /\ req[r] \in RequestStates
            BY <1>2 DEF TypeOK
          <5> QED BY <5>1, CreditsAssumption
                  DEF BalanceRows, RequestStates, FromPaid, GreatestOf, Available, Stale
        <4>2. CASE u = UserOf[r]
          BY <1>2, <3>1, <3>3, <4>1, <4>2, ChargedRow, PaidTotals
        <4>3. CASE u # UserOf[r]
          BY <1>2, <3>1, <3>3, <4>3, ChargedRow, PaidTotals
        <4> QED BY <4>2, <4>3
      <3> QED BY <3>2, <3>3
    <2> QED BY <2>1, <2>2
  <1>3. ASSUME TypeOK, Ungranted, Paid
        PROVE  PaidIsAccountedFor
    <2>1. \A u : GrantsTo(u) = {}
      BY <1>3 DEF Ungranted, GrantsTo
    <2>2. \A u : TotalDelta(GrantsTo(u)) = 0
      BY <2>1, SumOfNone DEF TotalDelta
    <2>3. OpeningRow.paid \in Int
      BY OneOpening, CreditsAssumption DEF Row
    <2>4. ASSUME NEW u \in Users
          PROVE  balance[u].paid = OpeningRow.paid + TotalDelta(GrantsTo(u)) - PaidByUser(u)
      <3>1. balance[u].paid = OpeningRow.paid - PaidByUser(u)
        BY <1>3
      <3>2. PaidByUser(u) \in Int
        BY <1>3, PaidByUserType
      <3> QED BY <2>2, <2>3, <3>1, <3>2
    <2> QED BY <2>4 DEF PaidIsAccountedFor, PaidByUser
  <1> HIDE DEF Paid
  <1> QED BY <1>1, <1>2, <1>3, ChargeInvariant, PTL DEF Spec
===============================================================================
