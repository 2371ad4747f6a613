------------------------------- MODULE Credits -------------------------------
(***************************************************************************)
(* Charging for chat prompts: the credits_balance and credits_ledger rows, *)
(* the construct_config singleton, and the handlers that touch them.       *)
(*                                                                         *)
(* A request is one POST /api/inference/v1/chat/completions handler; each  *)
(* of its database statements is one action, because the statements run    *)
(* outside any transaction and interleave with those of other handlers and *)
(* of the admin endpoints. Which upstream answers is Dispatch's subject:   *)
(* here Answer gives the request a status below 500 and the cost of the    *)
(* routing target that served it.                                          *)
(***************************************************************************)
EXTENDS DebitArithmetic, FiniteSets

CONSTANTS
  Users,
  Requests,         \* chat calls
  Admins,           \* calls of the admin endpoints
  UserOf,           \* the gateway-asserted user of each request
  PromptOf,         \* its X-Construct-Prompt-Id, or NoPrompt
  NoPrompt,         \* the header is absent or empty
  Endpoints,        \* the admin endpoints in use, a subset of AdminOps
  Statuses,         \* upstream answers below 500
  Costs,            \* values of routing_target.credits_per_prompt
  Deltas,           \* grants an admin may ask for
  AllowanceInputs,  \* daily_allowance values an admin may send
  MaxAllowance,     \* 100000 in the code
  DefaultAllowance, \* 100 in the code
  InitialRows,      \* the credits_balance rows a user may start with
  LastDay,          \* bound: the last UTC day of the model
  DbMayFail         \* whether a statement may return an error

AdminOps == {"grant", "block", "unblock", "config"}

Row == [present : BOOLEAN, used : 0..MaxAllowance, date : 0..LastDay,
        paid : Nat, blocked : BOOLEAN]

\* No row for the user, and the row INSERT ... ON CONFLICT DO NOTHING adds.
NoRow == [present |-> FALSE, used |-> 0, date |-> 0, paid |-> 0, blocked |-> FALSE]
FreshRow(d) == [present |-> TRUE, used |-> 0, date |-> d, paid |-> 0, blocked |-> FALSE]

ASSUME CreditsAssumption ==
  /\ UserOf \in [Requests -> Users]
  /\ DOMAIN PromptOf = Requests
  /\ Endpoints \subseteq AdminOps
  /\ Requests \cap Admins = {}
  /\ Statuses \subseteq 200..499
  /\ Costs \subseteq Nat \ {0}
  /\ Deltas \subseteq Int \ {0}
  /\ AllowanceInputs \subseteq Int
  /\ MaxAllowance \in Nat
  /\ DefaultAllowance \in 0..MaxAllowance
  /\ LastDay \in Nat
  /\ InitialRows \subseteq Row
  /\ \A row \in InitialRows : row.date = 0 /\ (~row.present => row = NoRow)
  /\ DbMayFail \in BOOLEAN

VARIABLES
  today,    \* the UTC day
  config,   \* the construct_config row
  balance,  \* credits_balance, by user
  ledger,   \* credits_ledger, a set of rows
  req,      \* what each request's handler holds
  adm       \* what each admin call's handler holds

vars == <<today, config, balance, ledger, req, adm>>

(***************************************************************************)
(* req[r]: pc; cap, the allowance of the config loaded on arrival; the     *)
(* cost and status of the answer; day, the t.d of the UPDATE. `charged`    *)
(* and `free` are history: the UPDATE took effect, and the part of the     *)
(* cost that the day's allowance covered.                                  *)
(***************************************************************************)
Waiting == {"new", "dispatched", "answered", "unpaid", "ensured", "debiting",
            "explaining", "paid"}
Turned == {"disabled", "unrouted", "forbidden", "refused"}  \* 503 502 403 402
Broken == {"failed", "lost"}                                \* 500, crash
Ended == {"served"} \cup Turned \cup Broken

IdleRequest == [pc |-> "new", cap |-> 0, cost |-> 0, status |-> 0, day |-> 0,
                charged |-> FALSE, free |-> 0]

\* adm[a]: the endpoint called, the user, and what the handler has read.
IdleAdmin == [pc |-> "new", op |-> "none", user |-> NoPrompt, delta |-> 0,
              found |-> FALSE, paid |-> 0, day |-> 0]
ReadAdmin(op, u, d) == [pc |-> "read", op |-> op, user |-> u, delta |-> d,
                        found |-> balance[u].present, paid |-> balance[u].paid,
                        day |-> today]

\* A debit_prompt or admin_grant row. Grants carry no prompt id.
DebitRow(r) == [id |-> r, user |-> UserOf[r], prompt |-> PromptOf[r],
                kind |-> "debit_prompt", delta |-> -req[r].cost]
GrantRow(a) == [id |-> a, user |-> adm[a].user, prompt |-> NoPrompt,
                kind |-> "admin_grant", delta |-> adm[a].delta]

\* The query forgets the user.
SlipOtherUser(r) ==
  \E row \in ledger : row.kind = "debit_prompt" /\ row.prompt = PromptOf[r]

\* The query is keyed by the call instead of its prompt.
SlipOtherKey(r) ==
  \E row \in ledger : row.kind = "debit_prompt" /\ row.id = r

\* The dedup query: some debit_prompt row of this user and prompt.
AlreadyDebited(r) ==
  \E row \in ledger : /\ row.kind = "debit_prompt"
                      /\ row.user = UserOf[r]
                      /\ row.prompt = PromptOf[r]

Init ==
  /\ today = 0
  /\ config = [allowance |-> DefaultAllowance, enabled |-> TRUE]
  /\ balance \in [Users -> InitialRows]
  /\ ledger = {}
  /\ req = [r \in Requests |-> IdleRequest]
  /\ adm = [a \in Admins |-> IdleAdmin]

-----------------------------------------------------------------------------
(* The chat handler.                                                       *)

Goto(r, from, to) == /\ req[r].pc = from
                     /\ req' = [req EXCEPT ![r].pc = to]

\* The admission of ChatConstruct: load the config; a read error leaves the
\* zero config, which is disabled.
Arrive(r) ==
  /\ req[r].pc = "new"
  /\ \/ /\ config.enabled
        /\ req' = [req EXCEPT ![r].pc = "dispatched", ![r].cap = config.allowance]
     \/ /\ ~config.enabled \/ DbMayFail
        /\ req' = [req EXCEPT ![r].pc = "disabled"]
  /\ UNCHANGED <<today, config, balance, ledger, adm>>

\* Some route answered below 500, or none did.
Answer(r) ==
  /\ \/ /\ req[r].pc = "dispatched"
        /\ \E c \in Costs, s \in Statuses :
             req' = [req EXCEPT ![r].pc = "answered", ![r].cost = c, ![r].status = s]
     \/ Goto(r, "dispatched", "unrouted")
  /\ UNCHANGED <<today, config, balance, ledger, adm>>

\* Per-prompt dedup. The error of Count is ignored, so a failed count reads as
\* "not debited yet"; a request without a prompt id is never deduplicated.
CountDebits(r) ==
  /\ \/ /\ PromptOf[r] # NoPrompt
        /\ AlreadyDebited(r)
        /\ Goto(r, "answered", "served")
     \/ /\ PromptOf[r] = NoPrompt \/ ~AlreadyDebited(r) \/ DbMayFail
        /\ Goto(r, "answered", "unpaid")
  /\ UNCHANGED <<today, config, balance, ledger, adm>>

\* ON CONFLICT DO UPDATE: an existing row is overwritten.
SlipEnsureRow(r) ==
  /\ Goto(r, "unpaid", "ensured")
  /\ balance' = [balance EXCEPT ![UserOf[r]] = FreshRow(today)]
  /\ UNCHANGED <<today, config, ledger, adm>>

\* INSERT INTO credits_balance ... ON CONFLICT DO NOTHING.
EnsureRow(r) ==
  LET u == UserOf[r] IN
  /\ \/ /\ Goto(r, "unpaid", "ensured")
        /\ balance' = IF balance[u].present THEN balance
                      ELSE [balance EXCEPT ![u] = FreshRow(today)]
     \/ DbMayFail /\ Goto(r, "unpaid", "failed") /\ UNCHANGED balance
  /\ UNCHANGED <<today, config, ledger, adm>>

\* The UPDATE starts: now() is fixed before the row lock is won.
StartDebit(r) ==
  /\ req[r].pc = "ensured"
  /\ req' = [req EXCEPT ![r].pc = "debiting", ![r].day = today]
  /\ UNCHANGED <<today, config, balance, ledger, adm>>

\* The handler goes on although the UPDATE matched no row.
SlipUnchecked(r) ==
  /\ Goto(r, "debiting", "paid")
  /\ UNCHANGED <<today, config, balance, ledger, adm>>

\* The UPDATE is sent again when its reply was lost.
SlipRetried(r) ==
  LET u == UserOf[r]
      q == req[r]
      admitted == balance[u].present /\ Admits(balance[u], q.day, q.cap, q.cost)
  IN
  /\ q.pc = "debiting"
  /\ \/ /\ admitted
        /\ balance' = [balance EXCEPT ![u] = Charge(@, q.day, q.cap, q.cost)]
        /\ \E to \in {"paid", "ensured"} :
             req' = [req EXCEPT ![r].pc = to, ![r].charged = TRUE]
     \/ ~admitted /\ Goto(r, "debiting", "explaining") /\ UNCHANGED balance
  /\ UNCHANGED <<today, config, ledger, adm>>

\* The UPDATE takes effect on the latest committed row, or matches no row. A
\* lost reply or a cancelled context is an error whether or not it committed.
ApplyDebit(r) ==
  LET u == UserOf[r]
      q == req[r]
      admitted == balance[u].present /\ Admits(balance[u], q.day, q.cap, q.cost)
      Debited(to) ==
        /\ balance' = [balance EXCEPT ![u] = Charge(@, q.day, q.cap, q.cost)]
        /\ req' = [req EXCEPT ![r].pc = to, ![r].charged = TRUE,
                     ![r].free = q.cost - FromPaid(balance[u], q.day, q.cap, q.cost)]
  IN
  /\ q.pc = "debiting"
  /\ \/ admitted /\ Debited("paid")
     \/ admitted /\ DbMayFail /\ Debited("failed")
     \/ ~admitted /\ Goto(r, "debiting", "explaining") /\ UNCHANGED balance
     \/ DbMayFail /\ Goto(r, "debiting", "failed") /\ UNCHANGED balance
  /\ UNCHANGED <<today, config, ledger, adm>>

\* The refusal reads the row again to choose between 403 and 402; an error
\* leaves the zero row, which is not blocked.
ExplainDenial(r) ==
  /\ \/ /\ balance[UserOf[r]].blocked
        /\ Goto(r, "explaining", "forbidden")
     \/ /\ ~balance[UserOf[r]].blocked \/ DbMayFail
        /\ Goto(r, "explaining", "refused")
  /\ UNCHANGED <<today, config, balance, ledger, adm>>

\* The row is written after the stream, which a disconnect ends early.
SlipWriteLedger(r) ==
  /\ Goto(r, "paid", "served")
  /\ ledger' \in {ledger, ledger \cup {DebitRow(r)}}
  /\ UNCHANGED <<today, config, balance, adm>>

\* Headers are out; the ledger row is inserted and its error is ignored.
WriteLedger(r) ==
  /\ Goto(r, "paid", "served")
  /\ \/ ledger' = ledger \cup {DebitRow(r)}
     \/ DbMayFail /\ UNCHANGED ledger
  /\ UNCHANGED <<today, config, balance, adm>>

-----------------------------------------------------------------------------
(* The admin endpoints.                                                    *)

Begin(a, op) == adm[a].pc = "new" /\ op \in Endpoints

\* One statement does it all.
AtOnce(a, op) == adm' = [adm EXCEPT ![a].pc = "done", ![a].op = op]

\* POST .../grant, first statement of the transaction: read without a lock.
GrantRead(a) ==
  /\ Begin(a, "grant")
  /\ \E u \in Users, d \in Deltas :
       adm' = [adm EXCEPT ![a] = ReadAdmin("grant", u, d)]
  /\ UNCHANGED <<today, config, balance, ledger, req>>

\* The rest of the transaction: create the row when none was found (a row that
\* appeared meanwhile is a duplicate key), store the new balance, insert the
\* ledger row, commit.
GrantCommit(a) ==
  LET g == adm[a]
      clash == ~g.found /\ balance[g.user].present
      row == IF g.found THEN balance[g.user] ELSE FreshRow(today)
  IN
  /\ g.pc = "read" /\ g.op = "grant"
  /\ \/ /\ ~clash
        /\ balance' = [balance EXCEPT ![g.user] =
                         [row EXCEPT !.paid = GreatestOf(g.paid + g.delta, 0)]]
        /\ ledger' = ledger \cup {GrantRow(a)}
        /\ adm' = [adm EXCEPT ![a].pc = "done"]
     \/ /\ clash \/ DbMayFail
        /\ adm' = [adm EXCEPT ![a].pc = "failed"]
        /\ UNCHANGED <<balance, ledger>>
  /\ UNCHANGED <<today, config, req>>

\* POST .../block: FirstOrCreate reads the row; the date was taken before.
BlockRead(a) ==
  /\ Begin(a, "block")
  /\ \E u \in Users :
       adm' = [adm EXCEPT ![a] = ReadAdmin("block", u, 0)]
  /\ UNCHANGED <<today, config, balance, ledger, req>>

\* Assign's non-zero fields are stored in the row found: daily_date, not
\* daily_used. A row that appeared since the read is a duplicate key.
BlockWrite(a) ==
  LET b == adm[a]
      clash == ~b.found /\ balance[b.user].present
      row == IF b.found THEN balance[b.user] ELSE FreshRow(b.day)
  IN
  /\ b.pc = "read" /\ b.op = "block"
  /\ \/ /\ ~clash
        /\ balance' = [balance EXCEPT ![b.user] =
                         [row EXCEPT !.date = b.day, !.blocked = TRUE]]
        /\ adm' = [adm EXCEPT ![a].pc = "done"]
     \/ /\ clash \/ DbMayFail
        /\ adm' = [adm EXCEPT ![a].pc = "failed"]
        /\ UNCHANGED balance
  /\ UNCHANGED <<today, config, ledger, req>>

\* POST .../unblock: one UPDATE, of no row when there is none.
Unblock(a) ==
  /\ Begin(a, "unblock")
  /\ \E u \in Users :
       balance' = [balance EXCEPT ![u].blocked = FALSE]
  /\ AtOnce(a, "unblock")
  /\ UNCHANGED <<today, config, ledger, req>>

\* PUT /api/admin/construct/config: each field is optional.
SetConfig(a) ==
  /\ Begin(a, "config")
  /\ \E v \in AllowanceInputs, e \in BOOLEAN :
       config' \in {[config EXCEPT !.enabled = e],
                    [allowance |-> ClampInt(v, 0, MaxAllowance, DefaultAllowance),
                     enabled |-> e]}
  /\ AtOnce(a, "config")
  /\ UNCHANGED <<today, balance, ledger, req>>

-----------------------------------------------------------------------------
(* The environment.                                                        *)

NextDay ==
  /\ today < LastDay
  /\ today' = today + 1
  /\ UNCHANGED <<config, balance, ledger, req, adm>>

\* The process dies: handlers in flight are gone, an open transaction rolls
\* back, committed rows stay.
Crash ==
  /\ \/ \E r \in Requests : req[r].pc \in Waiting \ {"new"}
     \/ \E a \in Admins : adm[a].pc = "read"
  /\ req' = [r \in Requests |->
               IF req[r].pc \in Waiting \ {"new"} THEN [req[r] EXCEPT !.pc = "lost"] ELSE req[r]]
  /\ adm' = [a \in Admins |->
               IF adm[a].pc = "read" THEN [adm[a] EXCEPT !.pc = "failed"] ELSE adm[a]]
  /\ UNCHANGED <<today, config, balance, ledger>>

\* Every call has been answered and the last day is over.
Quiescent ==
  /\ today = LastDay
  /\ \A r \in Requests : req[r].pc \in Ended
  /\ \A a \in Admins : adm[a].pc \in {"new", "done", "failed"}
  /\ UNCHANGED vars

HandlerStep(r) ==
  \/ Arrive(r) \/ Answer(r) \/ CountDebits(r) \/ EnsureRow(r)
  \/ StartDebit(r) \/ ApplyDebit(r) \/ ExplainDenial(r) \/ WriteLedger(r)

AdminStep(a) ==
  \/ GrantRead(a) \/ GrantCommit(a) \/ BlockRead(a) \/ BlockWrite(a)
  \/ Unblock(a) \/ SetConfig(a)

Next ==
  \/ \E r \in Requests : HandlerStep(r)
  \/ \E a \in Admins : AdminStep(a)
  \/ NextDay
  \/ Crash
  \/ Quiescent

Spec == Init /\ [][Next]_vars

\* net/http runs every handler it started: a handler whose next statement can
\* run takes it, unless the process dies first.
FairSpec == Spec /\ \A r \in Requests : WF_vars(HandlerStep(r))

-----------------------------------------------------------------------------
(* Properties.                                                             *)

\* Pairs of requests of one user that carry the same prompt id.
SamePrompt == {p \in Requests \X Requests : /\ UserOf[p[1]] = UserOf[p[2]]
                                           /\ PromptOf[p[1]] = PromptOf[p[2]]
                                           /\ PromptOf[p[1]] # NoPrompt}

\* Types of the stored rows and of the handlers' local state.
BalanceRows == [present : BOOLEAN, used : Int, date : 0..LastDay,
                paid : Int, blocked : BOOLEAN]
LedgerRows == [id : Requests \cup Admins, user : Users,
               prompt : {PromptOf[r] : r \in Requests} \cup {NoPrompt},
               kind : {"debit_prompt", "admin_grant"}, delta : Int]
RequestStates == [pc : Waiting \cup Ended, cap : 0..MaxAllowance, cost : Nat,
                  status : Statuses \cup {0}, day : 0..LastDay,
                  charged : BOOLEAN, free : Int]
AdminStates == [pc : {"new", "read", "done", "failed"}, op : AdminOps \cup {"none"}, user : Users \cup {NoPrompt},
                delta : Int, found : BOOLEAN, paid : Int, day : 0..LastDay]

\* Every row and every handler's local state has its type; an admin call that
\* has read a row knows its user.
TypeOK ==
  /\ today \in 0..LastDay
  /\ config \in [allowance : 0..MaxAllowance, enabled : BOOLEAN]
  /\ balance \in [Users -> BalanceRows]
  /\ ledger \subseteq LedgerRows
  /\ req \in [Requests -> RequestStates]
  /\ adm \in [Admins -> AdminStates]
  /\ \A a \in Admins : adm[a].pc = "read" => adm[a].user \in Users

\* No interleaving of debits, grants and allowance changes takes paid_balance
\* below zero or daily_used out of 0..MaxAllowance: the UPDATE of debit() tests
\* and changes the row in one statement, and a grant is clamped at zero.
BalanceInBounds ==
  \A u \in Users : balance[u].paid >= 0 /\ balance[u].used \in 0..MaxAllowance

\* The ledger holds the charge of a request for r's user and prompt.
OnRecord(r) ==
  \E s \in Requests : /\ <<r, s>> \in SamePrompt
                      /\ req[s].charged
                      /\ DebitRow(s) \in ledger

\* A request whose response started was charged, or a request of the same user
\* and prompt id was, and the ledger says so (attemptDispatch).
ServedIsPaidFor ==
  \A r \in Requests : req[r].pc = "served" => req[r].charged \/ OnRecord(r)

\* A debit row of the ledger is the record of a charge that took effect, once
\* per request, at the cost of the target that served it.
LedgerDebitsAreCharges ==
  \A row \in ledger :
    row.kind = "debit_prompt" =>
      \E r \in Requests : row = DebitRow(r) /\ req[r].charged

\* Once a block has been acknowledged no debit of that user takes effect, not
\* even one whose request passed every earlier step, and no grant or row
\* creation in flight lifts the block; only an unblock call does.
BlockedIsNotCharged ==
  [][\A r \in Requests : req'[r].charged /\ ~req[r].charged =>
       \/ \E a \in Admins : adm[a].op = "unblock"
       \/ ~\E a \in Admins : /\ adm[a].op = "block" /\ adm[a].pc = "done"
                             /\ adm[a].user = UserOf[r]]_vars

\* Agent fan-out, the sequential case: a call that reaches its dedup query after
\* a debit of its prompt was recorded is never charged.
LateFanOutIsFree ==
  \A r \in Requests :
    [](/\ req[r].pc \in {"new", "dispatched", "answered"}
       /\ OnRecord(r)
       => [](~req[r].charged))

\* Every charge has its ledger row once the handler that made it has returned
\* ("so the debit is durable even if the client disconnects mid-stream").
ChargesAreRecorded ==
  \A r \in Requests :
    req[r].charged /\ req[r].pc \in Ended \ {"lost"} => DebitRow(r) \in ledger

\* "Per-prompt dedup so agent fan-out doesn't double-charge": the requests of
\* one user with one prompt id are charged once.
OneChargePerPrompt ==
  \A r, s \in Requests :
    r # s /\ <<r, s>> \in SamePrompt => ~(req[r].charged /\ req[s].charged)

\* "4xx (incl. 429) -> commit to this route, surface as-is" and "2xx -> debit":
\* only a successful answer is charged.
OnlySuccessIsCharged ==
  \A r \in Requests : req[r].charged => req[r].status = 200

\* "`blocked` short-circuits admission": the step that decides to serve a
\* request does not find its user blocked.
BlockShortCircuits ==
  [][\A r \in Requests :
       req[r].pc = "answered" /\ req'[r].pc = "served" => ~balance[UserOf[r]].blocked]_vars

\* "daily-then-paid fallback": paid_balance pays what the allowance does not
\* cover, never more than the cost.
PaidPaysAtMostTheCost ==
  \A r \in Requests : req[r].charged => req[r].free >= 0

\* The promise of Billing, with the ledger's debit rows as its record.
Outcome(r) ==
  CASE req[r].pc = "served" -> "served"
    [] req[r].pc \in Turned -> "turned"
    [] req[r].pc \in Broken -> "broken"
    [] OTHER -> "open"

Bill == INSTANCE Billing WITH
  SamePrompt <- SamePrompt,
  outcome <- [r \in Requests |-> Outcome(r)],
  charged <- {r \in Requests : req[r].charged},
  recorded <- {r \in Requests : DebitRow(r) \in ledger}

\* The handlers' statements, interleaved with each other, with admin calls and
\* with crashes, implement the promise of Billing.
BillingSpec == Bill!Spec
=============================================================================
