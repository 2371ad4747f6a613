# provider-api in TLA+

This directory models `provider-api`, the Go service that serves the provider
catalog, routes Construct chat calls to upstream model providers and charges
credits for them. It holds TLA+ modules translated from the source, TLC
configurations that check them on small instances, and TLAPS proofs of what
should hold for every instance. `PROJECT.json` maps every definition to the
source lines it stands for.

Run from this directory:

    tlc -config credits_core.cfg MCCredits.tla      # a run of PROJECT.json
    tlapm CreditsProofs.tla                         # the proofs of a module

## 1. Inventory

The service is one process (several may run beside a shared PostgreSQL). Each
HTTP call runs in its own goroutine; the handlers share the database, the
in-memory catalog cache and the chat logger, and use almost no transactions:
what can go wrong is what happens between two statements.

| Component | State | Operations | Hard behaviour | Correct when |
|---|---|---|---|---|
| Credits (`construct_chat.go`, `construct_admin.go`) | `credits_balance`, `credits_ledger`, `construct_config` | debit of a chat call, grant, block, unblock, config, usage | statements of concurrent calls interleave; midnight; failing statements; crash between debit and ledger row | balances stay in bounds, nobody is served unpaid, the ledger is true, a block holds, one prompt is charged once |
| Chat dispatch (`construct_chat.go`) | the handler's locals; picker entries, routes, targets and upstreams, which it reads | resolve operator, load chain, walk it, fall back, stream | tables change during a walk; timeouts; the point of no return | one route reaches the caller, primary first, every usable route tried before 502, attempts independent, attempts logged |
| Chat logger (`chatlog.go`) | buffer, size, sequence number, pod id | Log, tick, overflow flush, requeue | uploads overlap and fail, perhaps after the object was stored; crash | no event lost while the process lives, no object overwritten, size exact, events get stored |
| Provider catalog (`providers.go`, `admin_providers.go`) | provider and model rows, the catalog version, the cached snapshot | CRUD, bump, cached list with ETag | bump after write, slow readers, partial failure | an ETag never hides a finished change |
| Model sync (`sync_model.go`) | `locked` and the data of a model row | sync, unlock, admin save | 15 s fetch between check and write | an admin's edit survives syncs until unlocked |
| Source family (`source_family.go`) | `source_family_routes` | upsert, delete, list | concurrent upserts of one operator | an operator's routes are those of one upsert |
| Routing admin (`construct_admin.go`) | upstreams, picker entries, targets | CRUD with reference checks | check, then delete | no dangling references but by a race of the checks |
| Public listings (`construct_public.go`) | the snapshot of picker entries and kill switch | the two listings | two queries, a snapshot of 30 s, slow readers, failed queries | a switched-off provider lists nothing, readers converge |
| Keys, identity, middleware, start-up | none of their own | AES-GCM, header checks | - | - |

Interaction: chat dispatch reads the tables the admin endpoints write, calls the
debit once an upstream has answered, and hands one event per attempt to the
logger. The catalog and the sync share the model rows and the catalog version.
Routing targets, routes and the catalog announce their changes through that one
version. All of it meets in the database, except the logger and the two caches.

## 2. Modules

| Module | What it is |
|---|---|
| `DebitArithmetic` | the SQL expressions of the admission UPDATE, the usage endpoint's reset, `clampInt` |
| `Credits` | the charging path of a chat call, statement by statement, with the admin endpoints, crashes, failures and midnight |
| `Billing` | what charging promises, without statements: the abstract specification |
| `CreditsAccounting` | totals of charges beside `Credits`, and the properties that need them |
| `CreditsProofs` | the arithmetic of a debit; types, bounds and the ledger of `Credits`; that it implements `Billing` |
| `ChargingProofs` | that a block holds, that late fan-out calls are free, that charges are recorded, and the accounts of `CreditsAccounting` |
| `Dispatch` | the walk of one call over the routes of its operator |
| `DispatchProofs` | the theorems about it |
| `ChatLog` | the event buffer and its uploads |
| `ChatLogProofs` | the theorems about it |
| `Catalog` | provider and model rows, version, bumps, model sync, snapshot, ETags, clients |
| `FreshCatalog` | what the catalog promises its clients: the abstract specification |
| `ProviderModes` | the modes of a provider row against the flat fields of old clients, as operators |
| `CatalogProofs` | the theorems about `Catalog` and `ProviderModes`, among them that `Catalog` implements `FreshCatalog` |
| `RoutingAdmin` | upstreams, targets and route rows with the endpoints that write them |
| `RoutingProofs` | the theorems about it |
| `PublicListing` | picker entries, kill switch and the listings' snapshot |
| `ListingProofs` | the theorems about it |
| `Sums`, `Sorting` | sums over a set or along a sequence, and ORDER BY, as operators |
| `CountingTheorems` | theorems about them |
| `MCCredits`, `MCDispatch`, `MCChatLog`, `MCCatalog`, `MCRouting` | constants for TLC; `MCCatalog` joins `Catalog` and `ProviderModes`, `MCRouting` joins `RoutingAdmin` and `PublicListing` |

Definitions whose names begin with `Slip` are not part of the model. Each is the
definition that follows it with a plausible mistake (a dropped guard, a missing
reset); replacing the definition by its slip must make a property fail, which
shows that the property looks at the code.

### Credits

A request is one `ChatConstruct` call. Its `pc` names the next statement:
`Arrive` (config), `Answer` (some upstream answered below 500: `Dispatch`'s
subject), `CountDebits` (dedup), `EnsureRow`, `StartDebit` and `ApplyDebit` (the
UPDATE), `ExplainDenial` (403 or 402), `WriteLedger` (headers and ledger row).
The UPDATE has two steps because PostgreSQL fixes `now()` when it starts and may
then wait for the row lock while the day turns. With `DbMayFail` each statement
may report an error, the UPDATE also after it took effect. An admin call is
`GrantRead`/`GrantCommit`, `BlockRead`/`BlockWrite`, `Unblock` or `SetConfig`.
`Crash` kills every handler in flight. `charged` and `free` are history.

The first creation of the `construct_config` row and the 400-type rejections
before any read are taken as done.

### Billing

Requests are charged, served, turned down or broken off, atomically. A request
is charged at most once; it is served after it was charged or when its prompt is
on record; it is never turned down after it was charged; nothing is recorded
that was not charged. `Credits` maps its `pc` to an outcome and its ledger's debit
rows to the record (`Bill`). `charged` is a set on both sides: that the UPDATE is
not applied twice for one request shows in `DebitsCompose`, which compares the
row with the sum of the charges.

### Dispatch

One action per database read or upstream call of `ChatConstruct` and
`attemptDispatch`. Admin calls are edits that store one row, or one operator's
routes, at any moment; `edited` remembers which rows changed, so that properties
can speak of the rows that stayed. A request's `chain` holds what the second
query returned. `offered` is history: every route set that the request's operator had
stored from the call's resolution until its chain was read, so that a chain can be
compared with whole sets although saves come before, between and after the count
of MoA slots and the query of the routes (`Observe` stands beside every step). The request body is abstracted to the fields that the rewriting
changes; `high` stands for the three effort modes. A picker entry has one
operator per tier here, and only the medium one in `PublicListing`. `Settle` stands for the debit
(Credits models it): it pays or refuses. Calls share only the tables and do not
write them.

### ChatLog

The mutex makes `Log`, the start of `flush` (`Take`) and the requeue (`Fail`)
atomic; the upload is not. `Store` is the bucket accepting the object, `Succeed`
and `Fail` what the caller learns: a failed upload may have been stored.
`Restart` starts a process with a new pod id. `Stop` is not modelled: `main`
defers it and leaves only through `log.Fatal`, which skips deferred calls.

### Catalog, FreshCatalog

One action per statement of the provider and model endpoints, of
`bumpCatalogVersion`, `currentCatalogVersion`, `ListProviders` and `loadCatalog`: no
handler of `admin_providers.go` or `sync_model.go` opens a transaction, so anything
may happen between two of them. `adm[a]` is an admin call: `at = "slug"` before the
sync's read of the provider, `"write"` before its write (for a sync: while
models.dev is asked), `"bump"` and `"insert"` in `bumpCatalogVersion`. `req[c]` is a
`GET /api/providers`: `ReadVersion`, `CreateVersion`, the test of the snapshot (`Hit`),
the two queries, `Store`. `held[c]` is a client's ETag and the catalog it came with;
`Reply` is the 304 or the 200. Every admin write goes through `Wrote`, which looks
at whether the public content (enabled providers and their enabled models) changed.

Abstractions. Two columns of a row are kept: whether it is enabled, and one value
for everything else a client sees. A version token is random in the code; here
`Token` is one that no table, snapshot, request or client remembers, which keeps
the state space finite. A call arrives with its first statement, since nobody
sees it before; one that is refused there changes nothing and is left out. The
read that finds the version row is one step with its update; the read that finds
none is a step of its own, because the insert that follows may clash.
`ChangeRouting` is the bump of the routing endpoints, whose tables the catalog
does not show. The admin reads change nothing and are left out. GORM takes the zero value of a
column that has a default for "not set": `enabled: false` in a create is stored
as TRUE (`admin_providers.go:216`; the same for `construct_admin.go:92` and `:390`), so
the models create enabled rows.

`FreshCatalog` has no versions, snapshots or ETags: a change leaves the catalog
unannounced; a request that begins while it is announced and meets no change ends
with its client holding the catalog. Failed queries count as disturbances (the
code reads them as no rows and caches the result), and no promise is made until
the next announcement. `Catalog` maps `Content` and `held` to it.

### ProviderModes

`normalizeLegacy`, the applying of the two mode bodies and the legacy mirror of
`loadCatalog`, as pure operators: a flat body of an old client, stored, must come
out of the mirror as it went in. Checked over every flat body and every row of
`KnownRows`, in the initial states of `catalog_edits`.

### RoutingAdmin

One action per statement of the upstream, target and source-family endpoints.
The upsert of an operator's routes is the only transaction: `CheckTargets` (before
it), `StartDelete` (the DELETE's snapshot), `LockRows` (it waits for the rows that
another transaction is deleting), `InsertRows` (all rows in one statement; it waits
for another's keys and fails on a taken key of the composite unique index),
`Commit`, `BumpVersion`. This is READ COMMITTED, PostgreSQL's default, which the code
does not change. A deadlock between two transactions is broken by PostgreSQL
with an error in one of them: a `Fails`. The `save` of a row stands for its id and
says which upsert inserted it. Deletes of targets and upstreams count references
first (`CountRoutes`, `CountTargets`; a failed count reads as none) and write in a
second statement. `raced` is history: the ids whose delete and whose use were
both past their checks, or whose count failed.

What an update of an upstream changes (label, URL, key, enabled) is seen by no
other endpoint; `Dispatch` has it as an edit.

### PublicListing

`loadConstructPublic` with its snapshot (`FromCache`, `Miss`, `ReadConfig`,
`CreateConfig`, `ReadEntries`, `Store`, `Expire`) against the picker-entry endpoints and
the kill switch, which do not touch the snapshot. A failed read of the config
leaves the zero value: switched off.

## 3. Runs

Every property of a passing run has a mutant in `PROJECT.json`.

| Run | Instance | Shows |
|---|---|---|
| `credits_core` | 2 users, 3 calls (two of one prompt, one of another user with the same prompt id), 1 admin call of any kind, failures and crashes, one day | type correctness, bounds, paid service, true ledger, blocks hold, `Credits` implements `Billing` |
| `credits_accounts` | 1 user, 3 calls, costs 1 and 2, two days, no failures | rows equal the sum of the charges in any order, usage is today's, charges are recorded, a late fan-out call is free |
| `dispatch` | 1 call, 3 operators (full chain, backup only, MoA), 3 targets, 2 upstreams, 2 edits, any query may fail | one route reaches the caller, a chain is the whole of one save in order, independence, logging, no route left out, every call ends |
| `chatlog` | 3 events of which two fill the buffer, 2 failing uploads, 1 restart | nothing lost, size exact, full buffers flushed, duplicates only by failed uploads, objects final, events reach the bucket |
| `catalog` | 1 provider, 1 model, a client with ETags and one without, 2 admin calls of any kind, 1 failing statement | types, a current ETag names the current catalog, `Catalog` implements `FreshCatalog` (2.1 million states) |
| `catalog_edits` | 1 provider, 1 model, 2 values, 1 client, 3 admin calls of which 2 at once, no failures | hand-tuned data stands, clients converge, flat bodies read back |
| `routing_admin` | routing: 1 upstream, 2 targets, 1 operator, 2 bodies, 3 admin calls of which 2 at once, 1 failing statement; listings: 1 entry, 2 readers, 2 admin calls, 1 failing query | types and keys, dangling only by a race, whole saves, the last save shown and announced; listing types, a switched-off provider lists nothing, listings converge |
| `credits_double_charge` | 2 calls of one prompt | violation of `OneChargePerPrompt` |
| `credits_lost_update` | a call and a grant | violation of `PaidIsAccountedFor` |
| `credits_carry_over` | a call, a block, two days | violation of `UsageIsTodaysSpending` |
| `dispatch_disabled` | a chain with a disabled target | violation of `DisabledTargetsAreRouted` |
| `catalog_sync` | a sync and a save of one model | violation of `SyncSkipsLockedRows` |

Why the bounds are enough. In `Credits` a hazard needs a race of two calls for one
user, a third call to be hurt by it, and at most one admin call; an allowance of
2 and costs of 1 and 2 give the covered, the partly covered, the unpaid and the
exhausted debit. `LastDay = 1` gives a day to come from and one to reset on; later
days repeat. In `Dispatch` calls do not disturb each other, so one is enough; two
edits put one change before and one after each read. In `ChatLog` two events
fill the buffer, so the third is logged during an upload, and two failures
overlap. In `Catalog` two admin calls put one write and one bump on each side of
every statement of a reader, and a reader with ETags beside one without is
enough to store an older snapshot over a newer one; the lock needs three calls
(a sync, a save, a sync or an unlock), which `catalog_edits` gives it with two values to
tell an overwritten row. In `RoutingAdmin` three saves are the least that can
merge two bodies and replace the merged rows; the two bodies clash with
themselves and not with each other, and one has a blank entry. The run's `part` is a disjoint
union: `RoutingAdmin` and `PublicListing` share no table, so each behaviour is about one
of them. Admin calls of `catalog` are symmetric; symmetry is used there only, in a
run without liveness. Counters that grow (the sequence number, failures, edits) are bounded
by these constants and by the finite sets of requests and events.

Fairness. `Credits` is checked for safety only. `Dispatch` assumes weak fairness of each
handler: net/http runs it, and every wait in it has a limit (ten minutes for an
upstream call, the server's write timeout for the caller). `ChatLog` assumes weak
fairness of the ticker, of started goroutines and of uploads, which end within
their thirty-second context; that uploads do not fail for ever is the bound on
failures, and without it events may stay in the buffer, as the code's comment
says. `Catalog` and `RoutingAdmin` assume that the handler of a call that has come in
runs on (weak fairness of `AdminStep`), and nothing of the admins, who need not
call; `Catalog` also that its clients keep polling, as the desktop's loop does that
`GetCatalogVersion` speaks of. `PublicListing` adds that time passes (`Expire`) and that readers
ask again. Failures are not fair: they never have to happen or to stop beyond
their bound.

Deadlock is checked in every run but `routing_admin`. There the system really may stop:
once the admins rest and the handlers have ended, nothing is left to do; and two
transactions that wait for each other's keys stand still where no failing
statement is left to break the tie, as PostgreSQL would.

### Where the code and its documents part

The five violation runs are findings of `PROJECT.json`. `Credits` and
`CreditsAccounting` state four more expectations that the model refutes and that
have no run of their own:

- `OnlySuccessIsCharged`: an upstream 4xx is charged (add 429 to `Statuses`).
- `BlockShortCircuits`: a blocked user is served on the dedup path, which does
  not look at `blocked` (a block before the second call of a recorded prompt).
- `PaidPaysAtMostTheCost`: with an allowance below `daily_used` the UPDATE takes
  more than the cost from `paid_balance` (the config endpoint, `DefaultAllowance`
  lowered between two calls).
- `AllowanceOncePerDay`: an UPDATE that began before midnight and is applied after
  the first one of the new day sets the row back to the old day, and the next
  debit resets it again.

With `DbMayFail`, `ChargesAreRecorded` and `LateFanOutIsFree` fail too: the errors of the
insert and of the count are ignored, and a prompt is then charged again. No property of
a passing run sees these double charges (`ServedIsPaidFor` and `Billing` speak of one request
at a time), nor the row set back by a late UPDATE (`UsageIsTodaysSpending` is an upper bound), nor
spending under an allowance that was lowered meanwhile (`BalanceInBounds` keeps the paid
balance from going below zero, no more). `Billing` ends with the answer and says nothing of a
stream that is lost; that it is not routed again is `OneRouteReachesTheCaller`.

Seen while modelling, without a property:

- An old client that moves a provider from an API key to a monthly plan does not
  see its change: `api_key` stays on and wins in the mirror (`FlatBodiesReadBack`
  makes the exception).
- A flat body with nothing but `docs_url`, `signup_url` or `has_shared_key` is dropped
  (`Silent`; `FlatBodiesReadBack` leaves these bodies out).
- The update of a routing target lacks the upper clamp that its creation has
  (`construct_admin.go:439`).
- A model created while its provider is deleted stays without a provider
  (`CreateModel`): no listing shows it.
- The kill switch and edits of picker entries reach the listings only when
  their snapshot expires: the admin endpoints do not invalidate it.

## 4. Proofs

Every safety property that a passing run checks, as an invariant or over steps,
is stated by a theorem for all values of the constants, but for the hypotheses
named here. What a module's ASSUME asks is what the tables' indexes, the handlers'
range checks or the shape of a run give.

`CountingTheorems` has the lemmas about sums and sorts that several of the proofs
need. Induction theorems with an operator parameter cannot be used here, so it
argues by a least counterexample (`Least`, from the well-foundedness of < on Nat):
a sum over a finite set does not depend on the order in which the fold picks its
elements, it grows by what joins the set; a sum along a sequence follows Append
and concatenation. The library's sorts are defined by CHOOSE over bijections or
by recursion; `Sorting` defines the order by the place of each element, the
number of elements below it, and `SortedSorts` and `SortedAlong` show that this is a
sequence of the set's elements along their ranks.

### Credits

`CreditsProofs` begins with the UPDATE by itself, for all integers of the stated
range: an admitted debit stays in bounds (`ChargeInBounds`: the WHERE clause protects
the SET clause even when the allowance was lowered), takes its cost from
allowance and paid balance together unless the allowance was lowered below what
is used (`ChargeTakesTheCost`), two debits of a day compose (`ChargesCompose`), and the
usage endpoint and the UPDATE agree on the reset (`UsageAgrees`). Then, for every
value of the constants that satisfies `CreditsAssumption`:

- `TypeCorrect` and `BalancesStayInBounds`, which is inductive beside `TypeOK`.
- `ServedArePaidFor` and `LedgerIsTrue`. Neither is inductive: that a request past
  the UPDATE was charged, that one before it was not and that a debit row carries
  the cost and user of a charged request, which no later step changes, have to be
  carried along. That strengthening is `ChargeInv`.
- `CreditsImplementsBilling`: `Spec => BillingSpec`. Under `TypeOK` and `ChargeInv`
  each action maps to a step of `Billing` or leaves its variables alone; a crash
  is `BreakOff`, the dedup is `ServeRecorded`.

`ChargingProofs` builds on these invariants.

- `BlocksHold` (`BlockedIsNotCharged`) needs `BlockInv`: until an unblock is called, an
  acknowledged block is in the row, and no statement in flight replaces a row
  that is there.
- `LateCallsAreFree` (`LateFanOutIsFree`) where no statement fails: a failed count
  reads as no debit. It needs that a record, once made, stays, and that a request
  on record that has not counted yet ends by the dedup (`Free`).
- `ReturnedChargesAreRecorded` (`ChargesAreRecorded`) where no statement fails: the
  code ignores the error of the insert. Crashes and admin calls are allowed.
- `UsageIsSpending` (`UsageIsTodaysSpending`) where no block is called: a block writes
  back a row it read, perhaps on another day (`credits_carry_over` refutes it). It
  needs that no block is between its statements (`NoReads`), and that no row and
  no UPDATE is dated later than today (`Dates`), so that an UPDATE that comes late
  dates its row back rather than adding to today.
- `DebitsAddUp` (`DebitsCompose`) where no admin call but an unblock is made, since
  the others set what a row counts or the allowance. It needs that all handlers
  hold one allowance (`SameCap`) and that a user's row is there before the first
  charge and still counts what it opened with (`Unspent`); the step is
  `ChargesCompose` with the total so far as the first debit.
- `PaidIsAccounted`: without grants, `PaidIsAccountedFor` holds through blocks, unblocks and
  allowance changes, with statements failing and crashes; with grants
  `credits_lost_update` refutes it. This is the half of that property that the
  code keeps, and it is proved where only its violation is run.

In the last three the totals are sums over the charged requests. A step either
charges one request (`Charges`), which joins its user's sets and adds its cost, or
leaves every sum as it was (`Stands`). `AccountingAssumption` asks for a finite set
of requests and for one row that every user opens with.

### Dispatch

`DispatchProofs` rests on `DispatchInv`, which has two halves for each handler. `Walk`
relates what it holds to its chain, its body and its events: attempts follow the
chain, all but an answer failed, none is ahead of the walk, the events number the attempts.
`Seen` relates it to the tables of now: of a row that nobody edited it has read the
truth, and of the routes behind it every one that was usable and read was
tried. From these follow `OneRouteReachesTheCaller`, `AttemptsAreIndependent`,
`CallsAreLogged` and `AllRoutesWereTried` (`i` past the end of the chain at `"exhausted"`).
`TypeOK`, with `offered` in it, and `ChainsAreWhole` (`ChainIsOneSave`) add `ChainInv`: what
a call may read now is among the sets it was offered (`Offers`), and its chain is `ChainOf` one
of them (`Fetched`), edited since or not. That `ChainOf` a set has all of its rows, each
once and in order, comes from `SortedSorts`. `DispatchAssumption` says of stored routes what the unique index on
(operator, slot, position) gives, and that a primary is stored at position 0.

### Chat logger

`ChatLogProofs` rests on `ChatInv`: the shape of uploads in flight, that the key of
every object is one a pod has given out already, each number once, and that no
event is lost and no full buffer unflushed. `EventsStay`, `FullBuffersAreFlushed` and
`ObjectsStay` follow. It assumes distinct pod ids (`ChatLogAssumption`); the code draws
them at random. `BookInv` carries the rest: the bytes of the buffer are counted
(`Book`, hence `TypeCorrect` and `SizeIsExact`); an event is in one place, of the buffer or
of one upload (`Apart`); and its copies in the bucket, with one to come while it
waits, are at most one more than the uploads that failed after their object was
stored (`Copied`, hence `CopiesAreOwed`, which states `NoDuplicates`). A requeue keeps the
balance because the failure it follows is counted in the same step.

### Catalog

`CatalogProofs` has three invariants. `TypeInv` adds to `TypeOK` what a handler holds at each
of its places. `FreshInv` says of a version that is current and announced that
every copy made under it, in the snapshot, at a client or in a request
under way, agrees with the catalog; that a bump's token is known to nobody
(`FreshToken`, by counting) keeps it. `TunedInv` strengthens `TunedDataStands` by "no sync of
the row is in flight", which is what makes it inductive. `CatalogIsFresh` proves
`Spec => FreshCatalogSpec`: a write that changes the content is `Disturb`, a bump `Announce`, the
read of a version `Ask`, a reply `Answer`.

`FlatFieldsReadBack` is about the operators of `ProviderModes`: over any set of values,
every flat body that is not silent comes out of the mirror as it went in, after
a create and after an update of any row, but for the move named in section 3. `LegacyReadsBack`
(`LegacySavesReadBack`) is its instance for the values of the run. The values are a
parameter because no backend knows that a literal is a string.

### Routing admin and listings

`RoutingProofs`: `TypeInv` says that every handler's rows are those of its save, that
transactions under way hold disjoint rows and keys (`Apart`), that the stored rows
are whole and keyed, and that saves are numbered once. `TypeCorrect` and
`SavesStayWhole` follow; no assumption on the number of saves, operators or
failures. `RefsInv` adds for `DanglingOnlyAfterARace` that what each handler has
looked up is still there or raced, and that a delete past its count and a save
past its check of the same id are in `raced`. `LastInv` adds for `LastSaveStands`
(`LastSaveIsShown`) that the rows a transaction is to delete are all of its
operator's, unless another committed in between (`Latest`), and that an operator's rows are those
of its last save, unless two met (`Kept`); that the listing of such rows is
the saved body is `SavedView`, by `SortedAlong`.

`ListingProofs` proves `TypeCorrect` and `OffMeansNothing` (`OffListsNothing`) of `PublicListing` as `MCRouting`
instantiates it. A reader between its queries holds models only if it read the
switch as on, and so do the snapshot and what was shown (`OffIsEmpty`).

### Only model-checked

All liveness is out of the prover's reach: `EveryCallEnds`, `EventsAreStored`,
`ClientsConverge`, `RoutingIsAnnounced`, `ListingsConverge`. The counterexamples of the
violation runs are TLC's, on their instances. That the hypotheses of `ChargingProofs` are
needed is seen there and, for failing statements, in section 3.

## 5. Not modelled, and the plan

1. Composition of `Dispatch` with `Credits` through `Settle`, and with `ChatLog`
   through its events: one call from admission to its events in the bucket. Today
   `Settle` may end either way, which covers every outcome that `Credits` has.
2. Theorems: that `PublicListing`'s readers see snapshots of tables that were
   (a refinement of a listing without a snapshot), and the composition of 1
   against `Billing`.

Left out for good: key encryption, identity headers, middleware, CORS, database
connection and start-up (no state, pure I/O), JSON shapes, token-usage parsing
(`parseUsage` decides the numbers of an event and no branch), the mapping of
models.dev's fields to columns, admin reads, and the seed data.
