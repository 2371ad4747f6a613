----------------------------- MODULE RoutingAdmin -----------------------------
(***************************************************************************)
(* The admin endpoints of the routing tables: upstream providers, routing  *)
(* targets that name an upstream, and the source-family routes that name a *)
(* target for a slot and position of an operator. The tables have no       *)
(* foreign keys: each endpoint counts or looks up the rows it depends on   *)
(* and then writes, in a statement of its own.                             *)
(*                                                                         *)
(* Only the routes of an operator are replaced in a transaction. It runs   *)
(* under READ COMMITTED: its DELETE sees the rows committed when it began, *)
(* and waits for another transaction that is deleting one of them; its     *)
(* INSERT waits for another that holds one of its keys, and fails on a key *)
(* that is taken.                                                          *)
(***************************************************************************)
EXTENDS Integers, Sequences, FiniteSets, Sorting

CONSTANTS
  UPSTREAMS, TARGETS, OPERATORS,  \* primary keys; an operator is only a name
  Blank,                          \* the empty string
  BODIES,                         \* what an upsert may carry
  ADMINS,                         \* admin calls that may be under way at once
  EDITS,                          \* bound: admin calls
  FAULTS                          \* bound: statements that return an error

Empty == [primary |-> Blank, backups |-> <<>>, aggregator |-> Blank, proposers |-> <<>>]

ASSUME RoutingAssumption ==
  /\ OPERATORS # {}
  /\ Blank \notin TARGETS \cup UPSTREAMS
  /\ BODIES \subseteq [primary : TARGETS \cup {Blank}, backups : Seq(TARGETS \cup {Blank}),
                       aggregator : TARGETS \cup {Blank}, proposers : Seq(TARGETS \cup {Blank})]
  /\ EDITS \in Nat /\ FAULTS \in Nat

VARIABLES
  upstream,     \* construct_upstream_providers: the ids present
  target,       \* construct_routing_targets: id -> upstream_provider_id
  route,        \* source_family_routes: the committed rows
  adm,          \* what each admin call's handler holds
  edits, faults,
  unannounced, raced, last  \* history, see below

tables == <<upstream, target, route>>
vars == <<upstream, target, route, adm, edits, faults, unannounced, raced, last>>

(***************************************************************************)
(* Route rows. `save` stands for the row's own id: the number and the body *)
(* of the upsert that inserted it.                                         *)
(***************************************************************************)
Slots == {"primary", "backup", "aggregator", "proposer"}
InOrder(slot, list) == {<<slot, i - 1, list[i]>> : i \in DOMAIN list}

\* The rows of a body. A blank entry is left out and keeps its position.
Named(body) ==
  {r \in {<<"primary", 0, body.primary>>, <<"aggregator", 0, body.aggregator>>}
           \cup InOrder("backup", body.backups) \cup InOrder("proposer", body.proposers) :
     r[3] # Blank}
RowsOf(o, save) ==
  {[op |-> o, slot |-> r[1], pos |-> r[2], model |-> r[3], save |-> save] : r \in Named(save.body)}
Refs(body) == {r[3] : r \in Named(body)}

Of(o) == {r \in route : r.op = o}
SameKey(r, s) == r.op = s.op /\ r.slot = s.slot /\ r.pos = s.pos
Clash(rows, others) == \E r \in rows, s \in others : SameKey(r, s)

\* Descending.
SlipPlace(r) == -r.pos
\* groupRoutes: the view of one operator's rows.
Place(r) == r.pos
Ordered(rows) == Sorted([r \in rows |-> Place(r)])
Listed(rows, slot) ==
  LET seq == Ordered({r \in rows : r.slot = slot}) IN [i \in DOMAIN seq |-> seq[i].model]
Single(rows, slot) ==
  IF \E r \in rows : r.slot = slot THEN (CHOOSE r \in rows : r.slot = slot).model ELSE Blank
View(rows) ==
  [kind |-> IF \E r \in rows : r.slot \in {"aggregator", "proposer"} THEN "moa" ELSE "single",
   primary |-> Single(rows, "primary"), backups |-> Listed(rows, "backup"),
   aggregator |-> Single(rows, "aggregator"), proposers |-> Listed(rows, "proposer")]

(***************************************************************************)
(* Handlers. An admin call comes in with its first statement; one refused  *)
(* there changes nothing and is left out. `gone` holds the rows its DELETE *)
(* has seen, `new` those it inserted, neither committed. `blind`: its      *)
(* count failed. `crowded`: another save of the operator committed since   *)
(* its DELETE began.                                                       *)
(***************************************************************************)
NoSave == [n |-> 0, body |-> Empty]
NoCall == [kind |-> "none", at |-> "idle", op |-> CHOOSE o \in OPERATORS : TRUE, save |-> NoSave,
           t |-> Blank, u |-> Blank, gone |-> {}, new |-> {}, blind |-> FALSE, crowded |-> FALSE]
OnRoutes(o, body) ==
  [NoCall EXCEPT !.kind = "routes", !.at = "delete", !.op = o,
                 !.save = [n |-> edits + 1, body |-> body]]
OnTarget(kind, at, t, u) ==
  [NoCall EXCEPT !.kind = kind, !.at = at, !.t = t, !.u = u]

Arrive(a, call) ==
  /\ adm[a] = NoCall
  /\ edits < EDITS
  /\ edits' = edits + 1
  /\ adm' = [adm EXCEPT ![a] = call]
At(a, at, kind) == adm[a].at = at /\ adm[a].kind = kind
Goto(a, at) == adm' = [adm EXCEPT ![a].at = at]
Bump(a) == adm' = [adm EXCEPT ![a] = [NoCall EXCEPT !.at = "bump"]]
End(a) == adm' = [adm EXCEPT ![a] = NoCall]
Fault == faults < FAULTS /\ faults' = faults + 1

(***************************************************************************)
(* History. raced: ids whose delete was past its count while a save that   *)
(* names them was past its own check, or whose count failed. last[o]: the  *)
(* last save of operator o to commit, and whether it was alone.            *)
(* unannounced: routing changed since the version was last renewed.        *)
(***************************************************************************)
Doomed == {adm[a].t : a \in {b \in ADMINS : At(b, "write", "deleteTarget")}}
           \cup {adm[a].u : a \in {b \in ADMINS : At(b, "write", "deleteUpstream")}}
Wanted == (UNION {Refs(adm[a].save.body) : a \in {b \in ADMINS : adm[b].kind = "routes"}})
           \cup {adm[a].u : a \in {b \in ADMINS : At(b, "write", "createTarget")
                                                    \/ At(b, "write", "updateTarget")}}
Miscounted == UNION {{adm[a].t, adm[a].u} : a \in {b \in ADMINS : adm[b].blind}}
Watch == raced' = raced \cup (Doomed' \cap Wanted') \cup (Miscounted' \ {Blank})

Init ==
  /\ upstream = UPSTREAMS
  /\ target \in UNION {[ts -> UPSTREAMS] : ts \in SUBSET TARGETS}
  /\ route = {}
  /\ adm = [a \in ADMINS |-> NoCall]
  /\ edits = 0
  /\ faults = 0
  /\ unannounced = FALSE
  /\ raced = {}
  /\ last = [o \in OPERATORS |-> [body |-> Empty, alone |-> TRUE]]

(***************************************************************************)
(* AdminUpsertSourceFamilyOperator and AdminDeleteSourceFamilyOperator.    *)
(***************************************************************************)
\* Every target the body names exists. An empty body asks nothing.
CheckTargets(a) ==
  /\ \E o \in OPERATORS, b \in BODIES :
       /\ Refs(b) \subseteq DOMAIN target
       /\ Arrive(a, OnRoutes(o, b))
  /\ UNCHANGED <<tables, faults, unannounced, last>>

\* The DELETE endpoint runs the upsert's DELETE alone.
WipeRoutes(a) ==
  /\ \E o \in OPERATORS : Arrive(a, OnRoutes(o, Empty))
  /\ UNCHANGED <<tables, faults, unannounced, last>>

\* Rows of targets that are still wanted are kept.
SlipStartDelete(a) ==
  /\ adm[a].at = "delete"
  /\ adm' = [adm EXCEPT ![a].at = "lock",
                        ![a].gone = {r \in Of(adm[a].op) : r.model \notin Refs(adm[a].save.body)}]
  /\ UNCHANGED <<tables, edits, faults, unannounced, last>>

StartDelete(a) ==
  /\ adm[a].at = "delete"
  /\ adm' = [adm EXCEPT ![a].at = "lock", ![a].gone = Of(adm[a].op)]
  /\ UNCHANGED <<tables, edits, faults, unannounced, last>>

\* The transactions that hold locks, on the rows they delete or inserted.
Holders(a) == {b \in ADMINS \ {a} : adm[b].at \in {"insert", "commit"}}
Held(b) == adm[b].gone \cup adm[b].new

LockRows(a) ==
  /\ adm[a].at = "lock"
  /\ \A b \in Holders(a) : adm[a].gone \cap Held(b) = {}
  /\ Goto(a, "insert")
  /\ UNCHANGED <<tables, edits, faults, unannounced, last>>

\* No unique index.
SlipInsertRows(a) ==
  LET rows == RowsOf(adm[a].op, adm[a].save) IN
    /\ adm[a].at = "insert"
    /\ adm' = [adm EXCEPT ![a].at = "commit", ![a].new = rows]
    /\ UNCHANGED <<tables, edits, faults, unannounced, last>>

\* All rows in one statement, none if the body is empty; or the transaction
\* is rolled back on the unique index.
InsertRows(a) ==
  LET rows == RowsOf(adm[a].op, adm[a].save) IN
    /\ adm[a].at = "insert"
    /\ \A b \in Holders(a) : ~Clash(rows, Held(b))
    /\ IF Clash(rows, route \ adm[a].gone)
         THEN End(a)
         ELSE adm' = [adm EXCEPT ![a].at = "commit", ![a].new = rows]
    /\ UNCHANGED <<tables, edits, faults, unannounced, last>>

Commit(a) ==
  LET o == adm[a].op IN
    /\ adm[a].at = "commit"
    /\ route' = (route \ adm[a].gone) \cup adm[a].new
    /\ last' = [last EXCEPT ![o] = [body |-> adm[a].save.body, alone |-> ~adm[a].crowded]]
    /\ adm' = [b \in ADMINS |->
         CASE b = a -> [NoCall EXCEPT !.at = "bump"]
           [] b # a /\ adm[b].op = o /\ adm[b].at \in {"lock", "insert", "commit"} ->
                [adm[b] EXCEPT !.crowded = TRUE]
           [] OTHER -> adm[b]]
    /\ unannounced' = TRUE
    /\ UNCHANGED <<upstream, target, edits, faults>>

(***************************************************************************)
(* Routing targets.                                                        *)
(***************************************************************************)
\* The count of the upstream that a create names.
CountUpstream(a) ==
  /\ \E t \in TARGETS, u \in upstream : Arrive(a, OnTarget("createTarget", "write", t, u))
  /\ UNCHANGED <<tables, faults, unannounced, last>>

\* The id may be taken.
CreateTarget(a) ==
  /\ At(a, "write", "createTarget")
  /\ IF adm[a].t \in DOMAIN target
       THEN End(a) /\ UNCHANGED <<target, unannounced>>
       ELSE /\ Bump(a)
            /\ target' = [t \in DOMAIN target \cup {adm[a].t} |->
                            IF t = adm[a].t THEN adm[a].u ELSE target[t]]
            /\ unannounced' = TRUE
  /\ UNCHANGED <<upstream, route, edits, faults, last>>

\* An update that names no upstream keeps the target's.
FindTarget(a) ==
  /\ \E t \in DOMAIN target :
       \/ \E u \in UPSTREAMS : Arrive(a, OnTarget("updateTarget", "count", t, u))
       \/ Arrive(a, OnTarget("updateTarget", "write", t, Blank))
  /\ UNCHANGED <<tables, faults, unannounced, last>>

CountNewUpstream(a) ==
  /\ adm[a].at = "count"
  /\ IF adm[a].u \in upstream THEN Goto(a, "write") ELSE End(a)
  /\ UNCHANGED <<tables, edits, faults, unannounced, last>>

\* UPDATE ... WHERE id: no effect if the target has gone.
UpdateTarget(a) ==
  /\ At(a, "write", "updateTarget")
  /\ target' = [t \in DOMAIN target |->
                  IF t = adm[a].t /\ adm[a].u # Blank THEN adm[a].u ELSE target[t]]
  /\ unannounced' = TRUE
  /\ Bump(a)
  /\ UNCHANGED <<upstream, route, edits, faults, last>>

\* The delete does not count.
SlipCountRoutes(a) ==
  /\ \E t \in TARGETS : Arrive(a, OnTarget("deleteTarget", "write", t, Blank))
  /\ UNCHANGED <<tables, faults, unannounced, last>>

\* 409 while a committed route names the target; a failed count is no route.
CountRoutes(a) ==
  /\ \E t \in TARGETS :
       LET call == OnTarget("deleteTarget", "write", t, Blank) IN
         \/ /\ \A r \in route : r.model # t
            /\ Arrive(a, call)
            /\ UNCHANGED faults
         \/ /\ Fault
            /\ Arrive(a, [call EXCEPT !.blind = TRUE])
  /\ UNCHANGED <<tables, unannounced, last>>

\* The bump is forgotten.
SlipDeleteTarget(a) ==
  /\ At(a, "write", "deleteTarget")
  /\ target' = [t \in DOMAIN target \ {adm[a].t} |-> target[t]]
  /\ unannounced' = TRUE
  /\ End(a)
  /\ UNCHANGED <<upstream, route, edits, faults, last>>

DeleteTarget(a) ==
  /\ At(a, "write", "deleteTarget")
  /\ target' = [t \in DOMAIN target \ {adm[a].t} |-> target[t]]
  /\ unannounced' = TRUE
  /\ Bump(a)
  /\ UNCHANGED <<upstream, route, edits, faults, last>>

(***************************************************************************)
(* Upstream providers: no bump. Their other columns change freely.         *)
(***************************************************************************)
CreateUpstream(a) ==
  /\ adm[a] = NoCall
  /\ edits < EDITS
  /\ edits' = edits + 1
  /\ \E u \in UPSTREAMS \ upstream : upstream' = upstream \cup {u}
  /\ UNCHANGED <<adm, target, route, faults, unannounced, last>>

CountTargets(a) ==
  /\ \E u \in UPSTREAMS :
       LET call == OnTarget("deleteUpstream", "write", Blank, u) IN
         \/ /\ \A t \in DOMAIN target : target[t] # u
            /\ Arrive(a, call)
            /\ UNCHANGED faults
         \/ /\ Fault
            /\ Arrive(a, [call EXCEPT !.blind = TRUE])
  /\ UNCHANGED <<tables, unannounced, last>>

DeleteUpstream(a) ==
  /\ At(a, "write", "deleteUpstream")
  /\ upstream' = upstream \ {adm[a].u}
  /\ End(a)
  /\ UNCHANGED <<target, route, edits, faults, unannounced, last>>

\* bumpCatalogVersion, whose own statements are Catalog's.
BumpVersion(a) ==
  /\ adm[a].at = "bump"
  /\ unannounced' = FALSE
  /\ End(a)
  /\ UNCHANGED <<tables, edits, faults, last>>

\* A statement of a call under way fails: rolled back if in a transaction,
\* the call ends, and a failed bump goes unnoticed.
Fails(a) ==
  /\ adm[a].at \in {"lock", "insert", "commit", "write", "bump"}
  /\ Fault
  /\ End(a)
  /\ UNCHANGED <<tables, edits, unannounced, last>>

AdminCall(a) ==
  \/ CheckTargets(a) \/ WipeRoutes(a) \/ CountUpstream(a) \/ FindTarget(a) \/ CountRoutes(a)
  \/ CreateUpstream(a) \/ CountTargets(a)

AdminStep(a) ==
  /\ \/ StartDelete(a) \/ LockRows(a) \/ InsertRows(a) \/ Commit(a)
     \/ CreateTarget(a) \/ CountNewUpstream(a) \/ UpdateTarget(a) \/ DeleteTarget(a)
     \/ DeleteUpstream(a) \/ BumpVersion(a)
  /\ Watch

Next ==
  \E a \in ADMINS :
    \/ AdminStep(a)
    \/ AdminCall(a) /\ Watch
    \/ Fails(a) /\ Watch

\* Handlers and the database run on; nobody has to call.
Fairness == \A a \in ADMINS : WF_vars(AdminStep(a))

Spec == Init /\ [][Next]_vars /\ Fairness

-----------------------------------------------------------------------------
\* Every handler holds a legal state, and no two rows share a key of the
\* composite unique index.
TypeOK ==
  /\ upstream \subseteq UPSTREAMS
  /\ target \in UNION {[ts -> UPSTREAMS] : ts \in SUBSET TARGETS}
  /\ \A r \in route : /\ r.op \in OPERATORS /\ r.slot \in Slots /\ r.pos \in Nat
                      /\ r.model \in TARGETS
                      /\ \A s \in route : SameKey(r, s) => r = s
  /\ \A a \in ADMINS :
       /\ adm[a].kind \in {"none", "routes", "createTarget", "updateTarget", "deleteTarget",
                           "deleteUpstream"}
       /\ adm[a].at \in {"idle", "delete", "lock", "insert", "commit", "count", "write", "bump"}
       /\ adm[a].t \in TARGETS \cup {Blank} /\ adm[a].u \in UPSTREAMS \cup {Blank}
  /\ edits \in 0..EDITS /\ faults \in 0..FAULTS
  /\ unannounced \in BOOLEAN /\ raced \subseteq TARGETS \cup UPSTREAMS

\* References hold although no key enforces them: a route names a missing
\* target, or a target a missing upstream, only if the delete and the save
\* that made it were past their checks together, or the delete could not count
\* (AdminDeleteRoutingTarget, AdminDeleteConstructUpstream).
DanglingWasRaced ==
  /\ \A r \in route : r.model \in DOMAIN target \cup raced
  /\ \A t \in DOMAIN target : target[t] \in upstream \cup raced

\* A save stands or falls whole: whatever upserts of one operator overlap, no
\* part of a body's rows is inserted or deleted without the others.
SavesAreWhole ==
  \A r \in route : RowsOf(r.op, r.save) \subseteq route

\* Full replacement: unless another save of the operator committed during it,
\* the last save is what the operator view shows, entry for entry and in order,
\* and every older row has gone, those of merged saves included
\* (AdminUpsertSourceFamilyOperator, groupRoutes).
Filled(list) ==
  LET at == Sorted([i \in {j \in DOMAIN list : list[j] # Blank} |-> i])
  IN [k \in DOMAIN at |-> list[at[k]]]
Posted(body) ==
  LET proposers == Filled(body.proposers) IN
    [kind |-> IF body.aggregator # Blank \/ proposers # <<>> THEN "moa" ELSE "single",
     primary |-> body.primary, backups |-> Filled(body.backups),
     aggregator |-> body.aggregator, proposers |-> proposers]
LastSaveIsShown ==
  \A o \in OPERATORS : last[o].alone => View(Of(o)) = Posted(last[o].body)

\* Every change of targets and routes is announced to the clients that poll
\* the catalog version, also when the change had to wait for another's locks,
\* unless a statement fails.
RoutingIsAnnounced ==
  (unannounced /\ faults = 0) ~> (~unannounced \/ faults > 0)
===============================================================================
