----------------------------- MODULE PublicListing -----------------------------
(***************************************************************************)
(* The model listings of construct_public.go: the picker entries and the   *)
(* config row, their admin endpoints, and the snapshot of both that the    *)
(* process serves for publicStaleAfter. A writer of these tables does not  *)
(* touch the snapshot: only time makes a reader look again. An entry keeps *)
(* the operator of its medium tier; the others may be blank, and Dispatch  *)
(* shows what that means.                                                  *)
(***************************************************************************)
EXTENDS Integers, FiniteSets

CONSTANTS
  ENTRIES,    \* primary keys of construct_picker_entries
  NAMES,      \* operators a route may name, "tank" among them
  Blank,      \* the empty string
  READERS,    \* callers of GET /api/construct/models or /api/inference/v1/models
  EDITS,      \* bound: admin calls
  FAULTS      \* bound: queries that return an error

VARIABLES
  config,  \* construct_config's row: [present, on]
  entry,   \* construct_picker_entries: id -> row
  saving,  \* the update of an entry between its read and its write, or Blank
  cache,   \* publicCache
  req,     \* what each reader's handler holds
  shown,   \* the last listing each reader got
  edits, faults

tables == <<config, entry, saving>>
vars == <<config, entry, saving, cache, req, shown, edits, faults>>

Row == [route : NAMES, on : BOOLEAN]
Listing == [on : BOOLEAN, models : SUBSET ENTRIES]

Enabled == {e \in DOMAIN entry : entry[e].on}
NoListing == [on |-> FALSE, models |-> {}]
NoRequest == [at |-> "idle", on |-> FALSE, models |-> {}]

Edit == edits < EDITS /\ edits' = edits + 1
Fault == faults < FAULTS /\ faults' = faults + 1

Init ==
  /\ config = [present |-> FALSE, on |-> TRUE]
  /\ entry \in {<<>>} \cup
       [ENTRIES -> {[route |-> "tank", on |-> TRUE]}]
  /\ saving = Blank
  /\ cache = [listing |-> NoListing, fresh |-> FALSE]
  /\ req = [c \in READERS |-> NoRequest]
  /\ shown = [c \in READERS |-> NoListing]
  /\ edits = 0
  /\ faults = 0

(***************************************************************************)
(* Picker entries and the kill switch.                                     *)
(***************************************************************************)
Or(value, default) == IF value = Blank THEN default ELSE value

\* The route is stored as it came.
SlipCreateEntry ==
  /\ Edit
  /\ \E e \in ENTRIES \ DOMAIN entry, r \in NAMES \cup {Blank} :
       entry' = [x \in DOMAIN entry \cup {e} |->
                   IF x = e THEN [route |-> r, on |-> TRUE] ELSE entry[x]]
  /\ UNCHANGED <<config, saving, cache, req, shown, faults>>

\* A route left blank is tank's; an entry comes out enabled, since `enabled`
\* has a column default that GORM prefers to FALSE.
CreateEntry ==
  /\ Edit
  /\ \E e \in ENTRIES \ DOMAIN entry, r \in NAMES \cup {Blank} :
       entry' = [x \in DOMAIN entry \cup {e} |->
                   IF x = e THEN [route |-> Or(r, "tank"), on |-> TRUE]
                   ELSE entry[x]]
  /\ UNCHANGED <<config, saving, cache, req, shown, faults>>

FindEntry ==
  /\ saving = Blank
  /\ Edit
  /\ saving' \in DOMAIN entry
  /\ UNCHANGED <<config, entry, cache, req, shown, faults>>

\* A blank route keeps the row's. No effect if the entry has gone.
SaveEntry ==
  /\ saving # Blank
  /\ \E r \in NAMES \cup {Blank}, on \in BOOLEAN :
       entry' = [x \in DOMAIN entry |->
                   IF x = saving
                     THEN [route |-> Or(r, entry[x].route), on |-> on]
                     ELSE entry[x]]
  /\ saving' = Blank
  /\ UNCHANGED <<config, cache, req, shown, edits, faults>>

DeleteEntry ==
  /\ Edit
  /\ \E e \in ENTRIES : entry' = [x \in DOMAIN entry \ {e} |-> entry[x]]
  /\ UNCHANGED <<config, saving, cache, req, shown, faults>>

\* PUT /api/admin/construct/config, which creates the row first if it must.
Switch ==
  /\ Edit
  /\ \E on \in BOOLEAN : config' = [present |-> TRUE, on |-> on]
  /\ UNCHANGED <<entry, saving, cache, req, shown, faults>>

(***************************************************************************)
(* loadConstructPublic.                                                    *)
(***************************************************************************)
Reply(c, listing) ==
  /\ shown' = [shown EXCEPT ![c] = listing]
  /\ req' = [req EXCEPT ![c] = NoRequest]

\* A snapshot with models never gets old.
SlipHit == cache.fresh \/ cache.listing.models # {}
Hit == cache.fresh

FromCache(c) ==
  /\ req[c].at = "idle"
  /\ Hit
  /\ Reply(c, cache.listing)
  /\ UNCHANGED <<tables, cache, edits, faults>>

Miss(c) ==
  /\ req[c].at = "idle"
  /\ ~Hit
  /\ req' = [req EXCEPT ![c].at = "config"]
  /\ UNCHANGED <<tables, cache, shown, edits, faults>>

\* The entries are read in any case.
SlipTold(c, on) == req' = [req EXCEPT ![c].on = on, ![c].at = "entries"]

\* What the handler does once loadOrInitConfig has told it the switch: a
\* disabled provider's entries are not read.
Told(c, on) ==
  req' = [req EXCEPT ![c].on = on, ![c].at = IF on THEN "entries" ELSE "store"]

ReadConfig(c) ==
  /\ req[c].at = "config"
  /\ IF config.present THEN Told(c, config.on) ELSE req' = [req EXCEPT ![c].at = "create"]
  /\ UNCHANGED <<tables, cache, shown, edits, faults>>

\* The row with the defaults; the handler goes on with these even if another
\* inserted the row first.
CreateConfig(c) ==
  /\ req[c].at = "create"
  /\ config' = [config EXCEPT !.present = TRUE]
  /\ Told(c, TRUE)
  /\ UNCHANGED <<entry, saving, cache, shown, edits, faults>>

\* Any other error leaves the zero config: switched off.
ConfigFails(c) ==
  /\ req[c].at = "config"
  /\ Fault
  /\ Told(c, FALSE)
  /\ UNCHANGED <<tables, cache, shown, edits>>

ReadEntries(c) ==
  /\ req[c].at = "entries"
  /\ req' = [req EXCEPT ![c].models = Enabled, ![c].at = "store"]
  /\ UNCHANGED <<tables, cache, shown, edits, faults>>

\* A failed query reads as no entries.
EntriesFail(c) ==
  /\ req[c].at = "entries"
  /\ Fault
  /\ req' = [req EXCEPT ![c].at = "store"]
  /\ UNCHANGED <<tables, cache, shown, edits>>

\* The age of a snapshot counts from here, not from its reads.
Store(c) ==
  LET listing == [on |-> req[c].on, models |-> req[c].models] IN
    /\ req[c].at = "store"
    /\ cache' = [listing |-> listing, fresh |-> TRUE]
    /\ Reply(c, listing)
    /\ UNCHANGED <<tables, edits, faults>>

\* publicStaleAfter passes.
Expire ==
  /\ cache.fresh
  /\ cache' = [cache EXCEPT !.fresh = FALSE]
  /\ UNCHANGED <<tables, req, shown, edits, faults>>

ReaderStep(c) ==
  \/ FromCache(c) \/ Miss(c) \/ ReadConfig(c) \/ CreateConfig(c) \/ ReadEntries(c) \/ Store(c)

Next ==
  \/ CreateEntry \/ FindEntry \/ SaveEntry \/ DeleteEntry \/ Switch
  \/ \E c \in READERS : ReaderStep(c) \/ ConfigFails(c) \/ EntriesFail(c)
  \/ Expire

\* Time passes, handlers run to their end, and readers ask again.
Fairness ==
  /\ WF_vars(Expire) /\ WF_vars(SaveEntry)
  /\ \A c \in READERS : WF_vars(ReaderStep(c))

Spec == Init /\ [][Next]_vars /\ Fairness

-----------------------------------------------------------------------------
\* Rows and snapshots are well formed; an entry has a route of its own,
\* whatever an admin left blank.
TypeOK ==
  /\ config \in [present : BOOLEAN, on : BOOLEAN]
  /\ entry \in UNION {[es -> Row] : es \in SUBSET ENTRIES}
  /\ saving \in ENTRIES \cup {Blank}
  /\ cache \in [listing : Listing, fresh : BOOLEAN]
  /\ req \in [READERS -> [at : {"idle", "config", "create", "entries", "store"}, on : BOOLEAN,
                          models : SUBSET ENTRIES]]
  /\ shown \in [READERS -> Listing]
  /\ edits \in 0..EDITS /\ faults \in 0..FAULTS

\* The kill switch hides the models: no listing says that Construct is off and
\* offers a model, although switch and entries are read by two queries and
\* change in between (loadConstructPublic).
OffListsNothing ==
  \A c \in READERS : ~shown[c].on => shown[c].models = {}

\* Staleness heals itself: whatever a slow reader, a failed query or the
\* creation of the config row left in the snapshot, readers that ask again end
\* with the switch and the entries as the admins left them.
Current == [on |-> config.on, models |-> IF config.on THEN Enabled ELSE {}]
ListingsConverge ==
  \A c \in READERS : <>[](shown[c] = Current)
===============================================================================
