------------------------------ MODULE Dispatch ------------------------------
(***************************************************************************)
(* Routing one chat call: ChatConstruct resolves the picker entry and the  *)
(* tier to an operator, loads the operator's chain of routes, and walks it *)
(* with attemptDispatch until an upstream answers below 500. The tables    *)
(* are read row by row, outside any transaction, while admins edit them.   *)
(* How the answer is charged is Credits' subject: here Settle either pays  *)
(* or refuses.                                                             *)
(***************************************************************************)
EXTENDS Integers, Sequences, SequencesExt, FiniteSets, Sorting

CONSTANTS
  Requests, Operators, Targets, Upstreams,
  Unset,            \* an empty operator column, no target
  DefaultOperator,  \* "tank"
  Lenient,          \* the upstreams upstreamAcceptsExtraBody names
  Entries,          \* picker rows an admin may store
  Chains,           \* route sets an admin may store for an operator
  TargetRows,       \* routing targets an admin may store
  UpstreamRows,     \* upstream providers an admin may store
  StartEntry, StartRoutes, StartTargets, StartUpstreams,
  Bodies,           \* the callers' request bodies
  MaxEdits,         \* bound: admin edits
  DbMayFail         \* whether a query may return an error

Tiers == {"large", "medium", "small", "other"}
Slots == {"primary", "backup", "aggregator", "proposer"}
Modes == {"auto", "high", "off"}

RouteRow == [slot : Slots, position : Nat, target : Targets]
\* enabled: the entry exists, it is enabled, and so is Construct itself.
EntryRow == [enabled : BOOLEAN, medium : Operators \cup {Unset},
             large : Operators \cup {Unset}, small : Operators \cup {Unset}]
TargetRow == [present : BOOLEAN, enabled : BOOLEAN, upstream : Upstreams, mode : Modes]
\* keyed: the stored key decrypts and the base URL makes a request.
UpstreamRow == [present : BOOLEAN, enabled : BOOLEAN, keyed : BOOLEAN]
\* The fields of a request body that attemptDispatch rewrites.
Body == [model : Targets \cup {Unset}, effort : {"none", "caller", "high"},
         thinking : {"none", "caller", "enabled", "disabled"}]

ASSUME DispatchAssumption ==
  /\ DefaultOperator \in Operators
  /\ Unset \notin Operators \cup Targets
  /\ Lenient \subseteq Upstreams
  /\ Entries \cup {StartEntry} \subseteq EntryRow
  \* the unique index on (operator, slot, position); a primary is stored at 0
  /\ \A C \in Chains :
       /\ C \subseteq RouteRow /\ IsFiniteSet(C)
       /\ \A x, y \in C : x.slot = y.slot /\ x.position = y.position => x = y
       /\ \A x \in C : x.slot = "primary" => x.position = 0
  /\ StartRoutes \in [Operators -> Chains]
  /\ TargetRows \subseteq TargetRow /\ StartTargets \in [Targets -> TargetRow]
  /\ UpstreamRows \subseteq UpstreamRow /\ StartUpstreams \in [Upstreams -> UpstreamRow]
  /\ Bodies \subseteq Body
  /\ MaxEdits \in Nat
  /\ DbMayFail \in BOOLEAN

VARIABLES
  entry,      \* the picker entry the calls name
  routes,     \* source_family_routes, by operator
  targets,    \* construct_routing_targets
  upstreams,  \* construct_upstream_providers
  edited,     \* history: the rows an admin has changed
  req,        \* what each request's handler holds
  events,     \* history: the attempts of each request that reached the chat log
  offered     \* history: the route sets each request's operator had stored, from
              \* the call's resolution until its chain was read

tables == <<entry, routes, targets, upstreams, edited>>
vars == <<tables, req, events, offered>>

(***************************************************************************)
(* req[r]: the caller's body; op, chain and i, the walk so far; target and *)
(* upstream, the rows loaded for route i; attempts, history of what was    *)
(* sent where and how it ended; unread, history of the routes whose rows a *)
(* query failed to read; charge, the target the caller paid for.           *)
(***************************************************************************)
Idle(body) == [pc |-> "new", body |-> body, op |-> Unset, chain |-> <<>>, i |-> 1,
               target |-> Unset, row |-> Unset, keyed |-> FALSE,
               attempts |-> <<>>, unread |-> {}, charge |-> Unset]

Walking == {"resolved", "single", "walking", "loaded", "ready", "answered", "streaming"}
Ended == {"turned", "moa", "unrouted", "exhausted", "refused", "done"}

Init ==
  /\ entry = StartEntry
  /\ routes = StartRoutes
  /\ targets = StartTargets
  /\ upstreams = StartUpstreams
  /\ edited = {}
  /\ req \in {[r \in Requests |-> Idle(b[r])] : b \in [Requests -> Bodies]}
  /\ events = [r \in Requests |-> <<>>]
  /\ offered = [r \in Requests |-> {}]

-----------------------------------------------------------------------------
(* Pure parts.                                                             *)

\* The operator of a tier: an override that is set wins, an unknown tier is
\* medium, and an unset main operator is "tank".
OperatorFor(e, tier) ==
  LET override == tier \in {"large", "small"} /\ e[tier] # Unset
      op == IF override THEN e[tier] ELSE e.medium
  IN IF op = Unset THEN DefaultOperator ELSE op

IsMoA(rows) == \E row \in rows : row.slot \in {"aggregator", "proposer"}

\* ORDER BY position DESC.
SlipRank(row) == IF row.slot = "primary" THEN 1 ELSE -row.position

\* ORDER BY primary first, then position. There are no ties.
Rank(row) == IF row.slot = "primary" THEN 0 ELSE row.position + 1

\* The rows the second query asks for, and their targets in its order.
SingleTier(rows) == {row \in rows : row.slot \in {"primary", "backup"}}
ChainOf(rows) ==
  LET sorted == Sorted([row \in SingleTier(rows) |-> Rank(row)])
  IN [k \in DOMAIN sorted |-> sorted[k].target]

\* Every mode but auto is sent as the effort.
SlipRewrite(body, t, mode, up) ==
  [model |-> t, effort |-> IF mode = "auto" THEN body.effort ELSE mode,
   thinking |-> body.thinking]

\* The body sent upstream: parsed from the caller's bytes anew for each attempt.
\* "high" stands for low, medium and high, "off" for off and disabled.
Rewrite(body, t, mode, up) ==
  [model |-> t,
   effort |-> IF mode = "high" THEN mode ELSE body.effort,
   thinking |-> CASE mode = "high" /\ up \in Lenient -> "enabled"
                  [] mode = "off" /\ up \in Lenient -> "disabled"
                  [] OTHER -> body.thinking]

-----------------------------------------------------------------------------
(* The handler.                                                            *)

At(r, pc) == req[r].pc = pc
Goto(r, from, to) == At(r, from) /\ req' = [req EXCEPT ![r].pc = to]

\* History, beside every step: what a call that has its operator and not yet its
\* chain could read now.
Observe ==
  offered' = [r \in Requests |->
                IF req'[r].pc \in {"resolved", "single"}
                THEN offered[r] \cup {routes'[req'[r].op]} ELSE offered[r]]

\* A route that cannot be used ends the walk.
SlipSkip(r) == req' = [req EXCEPT ![r].pc = "exhausted"]

\* The same route is tried again.
SlipStay(r) == req' = [req EXCEPT ![r].pc = "walking"]

\* `continue`, or a fall-through from attemptDispatch: on to the next route.
Skip(r) == req' = [req EXCEPT ![r].pc = "walking", ![r].i = @ + 1]

\* A row of route i could not be read: the same.
Unreadable(r) ==
  /\ DbMayFail
  /\ req' = [req EXCEPT ![r].pc = "walking", ![r].i = @ + 1, ![r].unread = @ \cup {req[r].i}]

\* The picker entry and the config admit the call, or 404 / 503. A failed read
\* of either is a refusal too.
Receive(r) ==
  /\ \/ /\ At(r, "new") /\ entry.enabled
        /\ \E tier \in Tiers :
             req' = [req EXCEPT ![r].pc = "resolved", ![r].op = OperatorFor(entry, tier)]
     \/ (~entry.enabled \/ DbMayFail) /\ Goto(r, "new", "turned")
  /\ UNCHANGED <<tables, events>>

\* The count of MoA slots: 501 when there are any. Its error is ignored, and a
\* failed count is zero.
CheckMoA(r) ==
  /\ At(r, "resolved")
  /\ \/ IsMoA(routes[req[r].op]) /\ Goto(r, "resolved", "moa")
     \/ (~IsMoA(routes[req[r].op]) \/ DbMayFail) /\ Goto(r, "resolved", "single")
  /\ UNCHANGED <<tables, events>>

\* A second query, after other handlers may have changed the rows. No rows, and
\* an error, which is ignored, are 502.
LoadChain(r) ==
  /\ At(r, "single")
  /\ LET chain == ChainOf(routes[req[r].op]) IN
     \/ /\ chain # <<>>
        /\ req' = [req EXCEPT ![r].pc = "walking", ![r].chain = chain]
     \/ (chain = <<>> \/ DbMayFail) /\ Goto(r, "single", "unrouted")
  /\ UNCHANGED <<tables, events>>

\* Route i: its target, which may be gone or disabled by now.
LoadTarget(r) ==
  LET q == req[r]
      t == q.chain[q.i]
      usable == targets[t].present /\ targets[t].enabled
  IN
  /\ At(r, "walking") /\ q.i <= Len(q.chain)
  /\ \/ /\ usable
        /\ req' = [req EXCEPT ![r].pc = "loaded", ![r].target = t, ![r].row = targets[t]]
     \/ ~usable /\ Skip(r)
     \/ Unreadable(r)
  /\ UNCHANGED <<tables, events>>

\* The upstream of that target.
LoadUpstream(r) ==
  LET u == upstreams[req[r].row.upstream] IN
  /\ At(r, "loaded")
  /\ \/ /\ u.present /\ u.enabled
        /\ req' = [req EXCEPT ![r].pc = "ready", ![r].keyed = u.keyed]
     \/ ~(u.present /\ u.enabled) /\ Skip(r)
     \/ Unreadable(r)
  /\ UNCHANGED <<tables, events>>

\* No request can be built, for want of a key or an URL: no call, no event.
NoKey(r) ==
  /\ At(r, "ready") /\ ~req[r].keyed /\ Skip(r)
  /\ UNCHANGED <<tables, events>>

\* One body map for all attempts: the rewriting of the last one shows through.
SlipAttempt(r, result) ==
  LET q == req[r]
      base == IF q.attempts = <<>> THEN q.body ELSE Last(q.attempts).body
  IN [route |-> q.i, target |-> q.target, upstream |-> q.row.upstream, mode |-> q.row.mode,
      body |-> Rewrite(base, q.target, q.row.mode, q.row.upstream), result |-> result]

Attempt(r, result) ==
  LET q == req[r] IN
  [route |-> q.i, target |-> q.target, upstream |-> q.row.upstream, mode |-> q.row.mode,
   body |-> Rewrite(q.body, q.target, q.row.mode, q.row.upstream), result |-> result]

\* A network error (a timeout and a caller that has gone included) or a 5xx:
\* logged, and on to the next route.
AttemptFails(r) ==
  LET n == Len(req[r].attempts) + 1 IN
  /\ At(r, "ready") /\ req[r].keyed
  /\ req' = [req EXCEPT ![r].pc = "walking", ![r].i = @ + 1,
                        ![r].attempts = Append(@, Attempt(r, "failed"))]
  /\ events' = [events EXCEPT ![r] = Append(@, n)]
  /\ UNCHANGED tables

\* 5xx is surfaced and the walk goes on all the same.
SlipAnswers(r) ==
  /\ At(r, "ready") /\ req[r].keyed
  /\ \E to \in {"answered", "walking"} :
       req' = [req EXCEPT ![r].pc = to, ![r].i = @ + (IF to = "walking" THEN 1 ELSE 0),
                          ![r].attempts = Append(@, Attempt(r, "answered"))]
  /\ UNCHANGED <<tables, events>>

\* A status below 500: this route is final.
AttemptAnswers(r) ==
  /\ At(r, "ready") /\ req[r].keyed
  /\ req' = [req EXCEPT ![r].pc = "answered",
                        ![r].attempts = Append(@, Attempt(r, "answered"))]
  /\ UNCHANGED <<tables, events>>

\* The debit, or the dedup that replaces it, lets the stream begin; otherwise
\* the caller gets 402, 403 or 500 and the answer is dropped.
Settle(r) ==
  /\ \/ /\ At(r, "answered")
        /\ \E c \in {req[r].target, Unset} :
             req' = [req EXCEPT ![r].pc = "streaming", ![r].charge = c]
     \/ Goto(r, "answered", "refused")
  /\ UNCHANGED <<tables, events>>

\* Only a stream that was read to its end is logged.
SlipFinish(r) ==
  /\ Goto(r, "streaming", "done")
  /\ events' \in {events, [events EXCEPT ![r] = Append(@, Len(req[r].attempts))]}
  /\ UNCHANGED tables

\* The stream ends: end of body, a broken upstream, or a caller that has gone.
Finish(r) ==
  /\ Goto(r, "streaming", "done")
  /\ events' = [events EXCEPT ![r] = Append(@, Len(req[r].attempts))]
  /\ UNCHANGED tables

GiveUp(r) ==
  /\ req[r].i > Len(req[r].chain)
  /\ Goto(r, "walking", "exhausted")
  /\ UNCHANGED <<tables, events>>

-----------------------------------------------------------------------------
(* The admin endpoints, as far as the walk sees them: each stores one row, *)
(* or one operator's routes in a transaction.                              *)

Edit(what) ==
  /\ Cardinality(edited) < MaxEdits
  /\ edited' = edited \cup {what}
  /\ UNCHANGED <<req, events>>
  /\ Observe

EditEntry ==
  /\ entry' \in Entries
  /\ UNCHANGED <<routes, targets, upstreams>>
  /\ Edit("entry")

EditRoutes(op) ==
  /\ \E C \in Chains : routes' = [routes EXCEPT ![op] = C]
  /\ UNCHANGED <<entry, targets, upstreams>>
  /\ Edit(op)

EditTarget(t) ==
  /\ \E row \in TargetRows : targets' = [targets EXCEPT ![t] = row]
  /\ UNCHANGED <<entry, routes, upstreams>>
  /\ Edit(t)

EditUpstream(u) ==
  /\ \E row \in UpstreamRows : upstreams' = [upstreams EXCEPT ![u] = row]
  /\ UNCHANGED <<entry, routes, targets>>
  /\ Edit(u)

Quiescent ==
  /\ \A r \in Requests : req[r].pc \in Ended
  /\ UNCHANGED vars

HandlerStep(r) ==
  /\ \/ Receive(r) \/ CheckMoA(r) \/ LoadChain(r) \/ LoadTarget(r) \/ LoadUpstream(r)
     \/ NoKey(r) \/ AttemptFails(r) \/ AttemptAnswers(r) \/ Settle(r) \/ Finish(r)
     \/ GiveUp(r)
  /\ Observe

Next ==
  \/ \E r \in Requests : HandlerStep(r)
  \/ EditEntry
  \/ \E op \in Operators : EditRoutes(op)
  \/ \E t \in Targets : EditTarget(t)
  \/ \E u \in Upstreams : EditUpstream(u)
  \/ Quiescent

Spec == Init /\ [][Next]_vars

\* net/http runs the handler of every call, and every wait in it has a bound:
\* the client's ten minutes for the upstream, the server's for the caller.
FairSpec == Spec /\ \A r \in Requests : WF_vars(HandlerStep(r))

-----------------------------------------------------------------------------
(* Properties.                                                             *)

AttemptRows == [route : Nat \ {0}, target : Targets, upstream : Upstreams, mode : Modes,
                body : Body, result : {"failed", "answered"}]

\* Types of the tables and of the handlers' local state.
TypeOK ==
  /\ entry \in EntryRow
  /\ routes \in [Operators -> Chains]
  /\ targets \in [Targets -> TargetRow]
  /\ upstreams \in [Upstreams -> UpstreamRow]
  /\ req \in [Requests -> [pc : {"new"} \cup Walking \cup Ended, body : Body,
                           op : Operators \cup {Unset}, chain : Seq(Targets), i : Nat \ {0},
                           target : Targets \cup {Unset}, row : TargetRow \cup {Unset},
                           keyed : BOOLEAN, attempts : Seq(AttemptRows),
                           unread : SUBSET (Nat \ {0}), charge : Targets \cup {Unset}]]
  /\ events \in [Requests -> Seq(Nat \ {0})]
  /\ offered \in [Requests -> SUBSET Chains]

\* "We never half-stream a primary then switch to a backup": every attempt but
\* the last failed before anything was sent, the attempts go through the chain
\* in its order, and a caller that is streamed to, or charged, gets the one
\* route that answered.
OneRouteReachesTheCaller ==
  \A r \in Requests :
    LET tried == req[r].attempts IN
    /\ \A k \in 1..Len(tried) - 1 :
         tried[k].result = "failed" /\ tried[k].route < tried[k + 1].route
    /\ \A k \in 1..Len(tried) : tried[k].target = req[r].chain[tried[k].route]
    /\ req[r].pc \in {"answered", "streaming", "refused", "done"} =>
         tried # <<>> /\ Last(tried).result = "answered"
    /\ req[r].charge # Unset => req[r].charge = Last(tried).target

Precedes(x, y) ==
  \/ x.slot = "primary" /\ y.slot = "backup"
  \/ x.slot = y.slot /\ x.position < y.position

\* "primary first, then backups by position": the chain a call walks is the whole
\* of one route set that its operator had stored between the call's resolution
\* and the reading of the chain, every row of it once, a primary before any
\* backup and backups by position; never a mix of two saves, nor a part of one,
\* whatever is saved before, during and after the two queries.
ChainIsOneSave ==
  \A r \in Requests : req[r].chain # <<>> =>
    \E C \in offered[r] : \E row \in [1..Len(req[r].chain) -> SingleTier(C)] :
      /\ SingleTier(C) = Range(row)
      /\ \A k, l \in DOMAIN row : k < l => Precedes(row[k], row[l])
      /\ \A k \in DOMAIN row : req[r].chain[k] = row[k].target

\* Each attempt's body is the caller's, rewritten for that attempt's target
\* alone: the reasoning settings of a failed primary do not leak into a backup's
\* request, nor reach an upstream that rejects unknown fields.
AttemptsAreIndependent ==
  \A r \in Requests : \A k \in 1..Len(req[r].attempts) :
    LET a == req[r].attempts[k] IN
    /\ a.body.model = a.target
    /\ a.body.effort = "high" => a.mode = "high" \/ req[r].body.effort = "high"
    /\ a.body.thinking # req[r].body.thinking => a.upstream \in Lenient /\ a.mode # "auto"

\* The chat log has one event per upstream call, in order, once the request is
\* over; a call that was answered but not paid for is the exception.
CallsAreLogged ==
  \A r \in Requests :
    /\ req[r].pc \in Ended \ {"refused"} =>
         events[r] = [k \in 1..Len(req[r].attempts) |-> k]
    /\ req[r].pc = "refused" =>
         events[r] = [k \in 1..Len(req[r].attempts) - 1 |-> k]

Routable(t) ==
  LET u == upstreams[targets[t].upstream] IN
  targets[t].present /\ targets[t].enabled /\ u.present /\ u.enabled /\ u.keyed

Steady(t) == t \notin edited /\ targets[t].upstream \notin edited

\* "All routes failed" is true: a caller gets that 502 only after every route of
\* the chain that could be used and read all along was tried.
AllRoutesWereTried ==
  \A r \in Requests : At(r, "exhausted") =>
    \A k \in 1..Len(req[r].chain) :
      Steady(req[r].chain[k]) /\ Routable(req[r].chain[k]) /\ k \notin req[r].unread =>
        \E a \in Range(req[r].attempts) : a.route = k

\* Every call ends, whatever the admins do meanwhile.
EveryCallEnds == \A r \in Requests : <>(req[r].pc \in Ended)

\* "enabled=false hides them from wherever a target list is shown for picking;
\* routing still uses them": a disabled target is tried like any other.
DisabledTargetsAreRouted ==
  \A r \in Requests : At(r, "exhausted") =>
    \A k \in 1..Len(req[r].chain) :
      LET t == req[r].chain[k]
          u == upstreams[targets[t].upstream]
      IN Steady(t) /\ targets[t].present /\ u.present /\ u.enabled /\ u.keyed =>
           \E a \in Range(req[r].attempts) : a.route = k
=============================================================================
