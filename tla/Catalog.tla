------------------------------- MODULE Catalog -------------------------------
(***************************************************************************)
(* The provider catalog: the provider_catalog, provider_catalog_models and *)
(* provider_catalog_version tables, the admin endpoints and the models.dev *)
(* sync that write them, the process's snapshot of the public catalog, and *)
(* the desktop clients that poll it with If-None-Match.                    *)
(*                                                                         *)
(* Every statement is one action: no handler opens a transaction. Whether  *)
(* a row is `enabled` and one `data` value stand for the columns a client  *)
(* can see; a token of newVersionToken is one that nobody remembers.       *)
(***************************************************************************)
EXTENDS Integers, FiniteSets

CONSTANTS
  PROVIDERS, MODELS,  \* primary keys of the two tables
  DATA,               \* what a model row may say
  CLIENTS,            \* callers of GET /api/providers that send If-None-Match
  OTHERS,             \* callers that keep nothing
  ADMINS,             \* admin calls that may be under way at once
  EDITS,              \* bound: admin calls
  FAULTS              \* bound: statements that return an error

ASSUME CatalogAssumption ==
  /\ PROVIDERS # {} /\ MODELS # {} /\ DATA # {}
  /\ CLIENTS \cap OTHERS = {} /\ IsFiniteSet(CLIENTS) /\ IsFiniteSet(OTHERS)
  /\ EDITS \in Nat /\ FAULTS \in Nat

CALLERS == CLIENTS \cup OTHERS

VARIABLES
  provider,  \* provider_catalog: id -> enabled
  model,     \* provider_catalog_models: id -> row
  version,   \* the row of provider_catalog_version, or Absent
  cache,     \* catalogCache
  req,       \* what each caller's handler holds
  held,      \* what each client holds: an ETag and the catalog it came with
  adm,       \* what each admin call's handler holds
  edits, faults,
  unannounced, calm, tuned  \* history, see below

serving == <<cache, req, held>>
tables == <<provider, model>>
vars == <<provider, model, version, cache, req, held, adm, edits, faults,
          unannounced, calm, tuned>>

Row == [of : PROVIDERS, data : DATA, enabled : BOOLEAN, locked : BOOLEAN]

\* Tables as functions on the keys present.
Table(keys, rows) == UNION {[S -> rows] : S \in SUBSET keys}
Put(t, k, row) == [x \in DOMAIN t \cup {k} |-> IF x = k THEN row ELSE t[x]]
Without(t, keys) == [x \in DOMAIN t \ keys |-> t[x]]

(***************************************************************************)
(* Versions. Absent: no row yet. Unread: the "" that a failed read of the  *)
(* row leaves in the handler.                                              *)
(***************************************************************************)
Absent == 0
Unread == 1
Known == {version, cache.ver} \cup {req[c].ver : c \in CALLERS}
           \cup {held[c].etag : c \in CLIENTS}
Tokens == 2..(Cardinality(CALLERS) + Cardinality(CLIENTS) + 4)
Token == CHOOSE t \in Tokens : t \notin Known

(***************************************************************************)
(* The public catalog: the enabled providers, and the enabled models of    *)
(* these. A catalog is read in two queries.                                *)
(***************************************************************************)
Shown == {p \in DOMAIN provider : provider[p]}
ModelsOf(ps) ==
  {<<m, model[m].of, model[m].data>> :
     m \in {x \in DOMAIN model : model[x].enabled /\ model[x].of \in ps}}
Content == [providers |-> Shown, models |-> ModelsOf(Shown)]
Nothing == [providers |-> {}, models |-> {}]
Contents == [providers : SUBSET PROVIDERS, models : SUBSET (MODELS \X PROVIDERS \X DATA)]

(***************************************************************************)
(* unannounced: the catalog changed, or a failed query was taken for an    *)
(* empty answer, since the version was last renewed. calm[c]: c's request  *)
(* began with the catalog announced, and neither happened since.           *)
(* tuned[m]: the data of the last admin save of m if m's row was neither   *)
(* unlocked, deleted nor created since; `alone` if no sync of m was past   *)
(* its test of `locked` at that save.                                      *)
(***************************************************************************)
Nobody == [c \in CLIENTS |-> FALSE]
Untuned == [saved |-> FALSE, data |-> CHOOSE d \in DATA : TRUE, alone |-> FALSE]

Spoiled ==
  /\ unannounced' = TRUE
  /\ calm' = Nobody

\* Every write of a row goes through one of these two.
Wrote ==
  IF Content' = Content THEN UNCHANGED <<unannounced, calm>> ELSE Spoiled
Noted(m, note) ==
  tuned' = IF m \in DOMAIN model THEN [tuned EXCEPT ![m] = note] ELSE tuned

(***************************************************************************)
(* Handlers. adm[a] is an admin call between two of its statements; a call *)
(* comes in with its first statement, since nobody sees it before. One     *)
(* refused there, by a 400, 404 or 409, changes nothing.                   *)
(***************************************************************************)
Kinds == {"updateProvider", "deleteProvider", "createModel", "updateModel", "sync", "unlock"}
NoCall == [kind |-> "none", at |-> "idle", p |-> CHOOSE p \in PROVIDERS : TRUE,
           m |-> CHOOSE m \in MODELS : TRUE]
Bumping == [NoCall EXCEPT !.at = "bump"]
NoSnapshot == [ver |-> Unread, content |-> Nothing, fresh |-> FALSE]
NoRequest == [at |-> "idle", ver |-> Absent, providers |-> {}, models |-> {}]

Arrive(a, call) ==
  /\ adm[a] = NoCall
  /\ edits < EDITS
  /\ edits' = edits + 1
  /\ adm' = [adm EXCEPT ![a] = call]
Call(k, next, q, n) == [kind |-> k, at |-> next, p |-> q, m |-> n]

At(a, at, kind) == adm[a].at = at /\ adm[a].kind = kind
Goto(a, at) == adm' = [adm EXCEPT ![a].at = at]
Bump(a) == adm' = [adm EXCEPT ![a] = Bumping]
End(a) == adm' = [adm EXCEPT ![a] = NoCall]
Fault == faults < FAULTS /\ faults' = faults + 1

Init ==
  /\ provider \in Table(PROVIDERS, {TRUE})
  /\ model \in Table(MODELS, [of : DOMAIN provider, data : DATA, enabled : {TRUE},
                              locked : {FALSE}])
  /\ version = IF provider = <<>> THEN Absent ELSE 2
  /\ cache = NoSnapshot
  /\ req = [c \in CALLERS |-> NoRequest]
  /\ held = [c \in CLIENTS |-> [etag |-> Absent, content |-> Nothing]]
  /\ adm = [a \in ADMINS |-> NoCall]
  /\ edits = 0
  /\ faults = 0
  /\ unannounced = FALSE
  /\ calm = Nobody
  /\ tuned = [m \in MODELS |-> Untuned]

\* First(&p, "id = ?", id) of an update or of a model's creation.
FindProvider(a) ==
  /\ \E p \in DOMAIN provider, m \in MODELS :
       \/ Arrive(a, Call("updateProvider", "write", p, NoCall.m))
       \/ Arrive(a, Call("createModel", "write", p, m))
  /\ UNCHANGED <<tables, version, serving, faults, unannounced, calm, tuned>>

\* A sync does not look at the lock.
SlipFindModel(a) ==
  /\ \E m \in DOMAIN model :
       \/ Arrive(a, Call("updateModel", "write", model[m].of, m))
       \/ Arrive(a, Call("unlock", "write", model[m].of, m))
       \/ Arrive(a, Call("sync", "slug", model[m].of, m))
  /\ UNCHANGED <<tables, version, serving, faults, unannounced, calm, tuned>>

\* Where("provider_id = ? AND id = ?").First; a sync wants it unlocked.
FindModel(a) ==
  /\ \E m \in DOMAIN model :
       \/ Arrive(a, Call("updateModel", "write", model[m].of, m))
       \/ Arrive(a, Call("unlock", "write", model[m].of, m))
       \/ ~model[m].locked /\ Arrive(a, Call("sync", "slug", model[m].of, m))
  /\ UNCHANGED <<tables, version, serving, faults, unannounced, calm, tuned>>

\* The sync's read of the provider, for its slug: 404, or on to models.dev.
ReadSlug(a) ==
  /\ adm[a].at = "slug"
  /\ IF adm[a].p \in DOMAIN provider THEN Goto(a, "write") ELSE End(a)
  /\ UNCHANGED <<tables, version, serving, edits, faults, unannounced, calm, tuned>>

\* models.dev cannot be reached (502), or does not list the model (404).
FetchFails(a) ==
  /\ At(a, "write", "sync")
  /\ End(a)
  /\ UNCHANGED <<tables, version, serving, edits, faults, unannounced, calm, tuned>>

\* The writes. GORM fills the zero value of a column with a default, so a row
\* is created enabled whatever the body says.
CreateProvider(a) ==
  /\ Arrive(a, Bumping)
  /\ \E p \in PROVIDERS \ DOMAIN provider : provider' = Put(provider, p, TRUE)
  /\ UNCHANGED <<model, version, serving, faults, tuned>>
  /\ Wrote

\* UPDATE ... WHERE id: a row deleted since it was read stays deleted.
UpdateProvider(a) ==
  /\ At(a, "write", "updateProvider")
  /\ \E on \in BOOLEAN :
       provider' = IF adm[a].p \in DOMAIN provider
                     THEN Put(provider, adm[a].p, on) ELSE provider
  /\ Bump(a)
  /\ UNCHANGED <<model, version, serving, edits, faults, tuned>>
  /\ Wrote

Deleted(gone) ==
  /\ model' = Without(model, gone)
  /\ tuned' = [m \in MODELS |-> IF m \in gone THEN Untuned ELSE tuned[m]]

\* AdminDeleteProvider deletes the models first, and ignores an error there.
PurgeModels(a) ==
  /\ \E p \in PROVIDERS :
       /\ Arrive(a, Call("deleteProvider", "write", p, NoCall.m))
       /\ \/ Deleted({m \in DOMAIN model : model[m].of = p}) /\ UNCHANGED faults
          \/ Fault /\ UNCHANGED <<model, tuned>>
  /\ UNCHANGED <<provider, version, serving>>
  /\ Wrote

DeleteProvider(a) ==
  /\ At(a, "write", "deleteProvider")
  /\ provider' = Without(provider, {adm[a].p})
  /\ Bump(a)
  /\ UNCHANGED <<model, version, serving, edits, faults, tuned>>
  /\ Wrote

\* The id may be taken (400), and the provider deleted since: no foreign key.
CreateModel(a) ==
  /\ At(a, "write", "createModel")
  /\ \/ /\ adm[a].m \in DOMAIN model
        /\ End(a)
        /\ UNCHANGED model
     \/ /\ adm[a].m \notin DOMAIN model
        /\ \E d \in DATA :
             model' = Put(model, adm[a].m,
                          [of |-> adm[a].p, data |-> d, enabled |-> TRUE, locked |-> FALSE])
        /\ Bump(a)
  /\ UNCHANGED <<provider, version, serving, edits, faults, tuned>>
  /\ Wrote

\* UPDATE ... WHERE id on a model row: no effect if it has gone.
Updated(m, row) == model' = IF m \in DOMAIN model THEN Put(model, m, row) ELSE model

SyncsInFlight(m) == {a \in ADMINS : adm[a].kind = "sync" /\ adm[a].m = m}

\* Any admin save locks the row.
UpdateModel(a) ==
  /\ At(a, "write", "updateModel")
  /\ LET m == adm[a].m IN
       \E d \in DATA, on \in BOOLEAN :
         /\ Updated(m, [model[m] EXCEPT !.data = d, !.enabled = on, !.locked = TRUE])
         /\ Noted(m, [saved |-> TRUE, data |-> d, alone |-> SyncsInFlight(m) = {}])
  /\ Bump(a)
  /\ UNCHANGED <<provider, version, serving, edits, faults>>
  /\ Wrote

\* The bump is forgotten.
SlipDeleteModel(a) ==
  /\ Arrive(a, NoCall)
  /\ \E m \in MODELS, p \in PROVIDERS : Deleted({x \in DOMAIN model : x = m /\ model[x].of = p})
  /\ UNCHANGED <<provider, version, serving, faults>>
  /\ Wrote

\* DELETE ... WHERE provider_id AND id; it succeeds on no row too.
DeleteModel(a) ==
  /\ Arrive(a, Bumping)
  /\ \E m \in MODELS, p \in PROVIDERS : Deleted({x \in DOMAIN model : x = m /\ model[x].of = p})
  /\ UNCHANGED <<provider, version, serving, faults>>
  /\ Wrote

\* The sync's UPDATE does not look at `locked` again and does not set it.
SyncModel(a) ==
  /\ At(a, "write", "sync")
  /\ \E d \in DATA : Updated(adm[a].m, [model[adm[a].m] EXCEPT !.data = d])
  /\ Bump(a)
  /\ UNCHANGED <<provider, version, serving, edits, faults, tuned>>
  /\ Wrote

UnlockModel(a) ==
  /\ At(a, "write", "unlock")
  /\ Updated(adm[a].m, [model[adm[a].m] EXCEPT !.locked = FALSE])
  /\ Noted(adm[a].m, Untuned)
  /\ Bump(a)
  /\ UNCHANGED <<provider, version, serving, edits, faults>>
  /\ Wrote

\* The write returns an error: 400 or 500, and no bump, also after PurgeModels.
WriteFails(a) ==
  /\ adm[a].at = "write"
  /\ Fault
  /\ End(a)
  /\ UNCHANGED <<tables, version, serving, edits, unannounced, calm, tuned>>

\* A change of picker entries, routing targets or routes: only its bump counts.
ChangeRouting(a) ==
  /\ Arrive(a, Bumping)
  /\ UNCHANGED <<tables, version, serving, faults, unannounced, calm, tuned>>

(***************************************************************************)
(* bumpCatalogVersion: FirstOrCreate reads the row, then updates it or     *)
(* inserts it. Nobody looks at its error. A read that finds the row is one *)
(* step with the update, which alone others see.                           *)
(***************************************************************************)
FindNoVersion(a) ==
  /\ adm[a].at = "bump"
  /\ version = Absent
  /\ Goto(a, "insert")
  /\ UNCHANGED <<tables, version, serving, edits, faults, unannounced, calm, tuned>>

RenewVersion(a) ==
  /\ adm[a].at = "bump"
  /\ version # Absent
  /\ version' = Token
  /\ unannounced' = FALSE
  /\ End(a)
  /\ UNCHANGED <<tables, serving, edits, faults, calm, tuned>>

\* The INSERT fails on the row that another handler inserted meanwhile.
InsertVersion(a) ==
  /\ adm[a].at = "insert"
  /\ IF version = Absent THEN version' = Token /\ unannounced' = FALSE
                         ELSE UNCHANGED <<version, unannounced>>
  /\ End(a)
  /\ UNCHANGED <<tables, serving, edits, faults, calm, tuned>>

BumpFails(a) ==
  /\ adm[a].at \in {"bump", "insert"}
  /\ Fault
  /\ End(a)
  /\ UNCHANGED <<tables, version, serving, edits, unannounced, calm, tuned>>

(***************************************************************************)
(* GET /api/providers: ListProviders and loadCatalog.                      *)
(***************************************************************************)
Step(c, at) == req' = [req EXCEPT ![c].at = at]

\* A missing row is not created.
SlipReadVersion(c) ==
  /\ req[c].at = "idle"
  /\ req' = [req EXCEPT ![c].at = "lookup", ![c].ver = version]
  /\ calm' = [d \in CLIENTS |-> IF d = c THEN ~unannounced ELSE calm[d]]
  /\ UNCHANGED <<tables, version, cache, held, adm, edits, faults, unannounced, tuned>>

\* currentCatalogVersion reads the row.
ReadVersion(c) ==
  /\ req[c].at = "idle"
  /\ req' = [req EXCEPT ![c].at = IF version = Absent THEN "create" ELSE "lookup",
                        ![c].ver = version]
  /\ calm' = [d \in CLIENTS |-> IF d = c THEN ~unannounced ELSE calm[d]]
  /\ UNCHANGED <<tables, version, cache, held, adm, edits, faults, unannounced, tuned>>

\* The read fails, and the handler goes on with "".
ReadVersionFails(c) ==
  /\ req[c].at = "idle"
  /\ Fault
  /\ req' = [req EXCEPT ![c].at = "lookup", ![c].ver = Unread]
  /\ UNCHANGED calm
  /\ UNCHANGED <<tables, version, cache, held, adm, edits, unannounced, tuned>>

\* GET /api/providers/catalog/version while there is no row: only inserts it.
PollVersion(c) ==
  /\ req[c].at = "idle"
  /\ version = Absent
  /\ Step(c, "poll")
  /\ UNCHANGED <<tables, version, cache, held, adm, edits, faults, unannounced,
                 calm, tuned>>

\* The INSERT of the missing row; its error is ignored, and the token used.
CreateVersion(c) ==
  /\ req[c].at \in {"create", "poll"}
  /\ IF version = Absent
       THEN version' = Token /\ unannounced' = FALSE
       ELSE UNCHANGED <<version, unannounced>>
  /\ req' = [req EXCEPT ![c] = IF req[c].at = "poll" THEN NoRequest
                               ELSE [@ EXCEPT !.at = "lookup", !.ver = Token]]
  /\ UNCHANGED <<tables, cache, held, adm, edits, faults, calm, tuned>>

\* 304 if the client's ETag is this version, else 200 with version and catalog.
Reply(c, ver, content) ==
  /\ held' = IF c \in OTHERS \/ held[c].etag = ver THEN held
             ELSE [held EXCEPT ![c] = [etag |-> ver, content |-> content]]
  /\ req' = [req EXCEPT ![c] = NoRequest]
  /\ calm' = IF c \in OTHERS THEN calm ELSE [calm EXCEPT ![c] = FALSE]

\* Any fresh snapshot will do.
SlipHit(c) == cache.fresh
Hit(c) == cache.ver = req[c].ver /\ cache.fresh

FromCache(c) ==
  /\ req[c].at = "lookup"
  /\ Hit(c)
  /\ Reply(c, cache.ver, cache.content)
  /\ UNCHANGED <<tables, version, cache, adm, edits, faults, unannounced, tuned>>

Miss(c) ==
  /\ req[c].at = "lookup"
  /\ ~Hit(c)
  /\ Step(c, "providers")
  /\ UNCHANGED <<tables, version, cache, held, adm, edits, faults, unannounced,
                 calm, tuned>>

\* No provider, no second query.
ReadProviders(c) ==
  /\ req[c].at = "providers"
  /\ req' = [req EXCEPT ![c].providers = Shown,
                        ![c].at = IF Shown = {} THEN "store" ELSE "models"]
  /\ UNCHANGED <<tables, version, cache, held, adm, edits, faults, unannounced,
                 calm, tuned>>

ReadModels(c) ==
  /\ req[c].at = "models"
  /\ req' = [req EXCEPT ![c].models = ModelsOf(req[c].providers), ![c].at = "store"]
  /\ UNCHANGED <<tables, version, cache, held, adm, edits, faults, unannounced,
                 calm, tuned>>

\* A failed query reads as no rows.
QueryFails(c) ==
  /\ req[c].at \in {"providers", "models"}
  /\ Fault
  /\ Step(c, "store")
  /\ Spoiled
  /\ UNCHANGED <<tables, version, cache, held, adm, edits, tuned>>

\* The snapshot gets the version of the end of its reads.
SlipStore(c) ==
  /\ req[c].at = "store"
  /\ LET content == [providers |-> req[c].providers, models |-> req[c].models] IN
       /\ cache' = [ver |-> version, content |-> content, fresh |-> TRUE]
       /\ Reply(c, version, content)
  /\ UNCHANGED <<tables, version, adm, edits, faults, unannounced, tuned>>

\* The snapshot replaces whatever is cached, and answers the request.
Store(c) ==
  /\ req[c].at = "store"
  /\ LET content == [providers |-> req[c].providers, models |-> req[c].models] IN
       /\ cache' = [ver |-> req[c].ver, content |-> content, fresh |-> TRUE]
       /\ Reply(c, req[c].ver, content)
  /\ UNCHANGED <<tables, version, adm, edits, faults, unannounced, tuned>>

\* catalogStaleAfter passes: what is left of the snapshot is not read again.
Expire ==
  /\ cache.fresh
  /\ cache' = NoSnapshot
  /\ UNCHANGED <<tables, version, req, held, adm, edits, faults, unannounced, calm,
                 tuned>>

\* The steps of a call that has come in, faults apart.
AdminStep(a) ==
  \/ ReadSlug(a) \/ FetchFails(a) \/ SyncModel(a)
  \/ UpdateProvider(a) \/ DeleteProvider(a) \/ CreateModel(a) \/ UpdateModel(a) \/ UnlockModel(a)
  \/ FindNoVersion(a) \/ RenewVersion(a) \/ InsertVersion(a)

AdminCall(a) ==
  \/ FindProvider(a) \/ FindModel(a) \/ CreateProvider(a) \/ PurgeModels(a)
  \/ DeleteModel(a) \/ ChangeRouting(a)

CallerStep(c) ==
  \/ ReadVersion(c) \/ CreateVersion(c) \/ FromCache(c) \/ Miss(c)
  \/ ReadProviders(c) \/ ReadModels(c) \/ Store(c)

Next ==
  \/ \E a \in ADMINS : AdminCall(a) \/ AdminStep(a) \/ WriteFails(a) \/ BumpFails(a)
  \/ \E c \in CALLERS : CallerStep(c) \/ PollVersion(c) \/ ReadVersionFails(c) \/ QueryFails(c)
  \/ Expire

(***************************************************************************)
(* Handlers run to their end, and clients keep polling: the desktop's loop *)
(* that GetCatalogVersion's comment speaks of.                             *)
(***************************************************************************)
Spec ==
  /\ Init /\ [][Next]_vars
  /\ \A a \in ADMINS : WF_vars(AdminStep(a))
  /\ \A c \in CALLERS : WF_vars(CallerStep(c))

-----------------------------------------------------------------------------
\* Every handler holds a legal state, and no row, snapshot or ETag is of a
\* kind the tables could not have given.
TypeOK ==
  /\ provider \in Table(PROVIDERS, BOOLEAN)
  /\ model \in Table(MODELS, Row)
  /\ version \in {Absent} \cup Tokens
  /\ cache.ver \in {Unread} \cup Tokens /\ cache.content \in Contents /\ cache.fresh \in BOOLEAN
  /\ \A c \in CALLERS :
       /\ req[c].ver \in {Absent, Unread} \cup Tokens
       /\ req[c].at \in {"idle", "create", "poll", "lookup", "providers", "models", "store"}
       /\ req[c].providers \subseteq PROVIDERS
  /\ \A c \in CLIENTS :
       /\ held[c].etag \in {Absent, Unread} \cup Tokens /\ held[c].content \in Contents
  /\ adm \in [ADMINS -> [kind : Kinds \cup {"none"}, p : PROVIDERS, m : MODELS,
                         at : {"idle", "slug", "write", "bump", "insert"}]]
  /\ unannounced \in BOOLEAN /\ calm \in [CLIENTS -> BOOLEAN]
  /\ tuned \in [MODELS -> [saved : BOOLEAN, data : DATA, alone : BOOLEAN]]

\* The detailed catalog keeps FreshCatalog's promise: whatever a lost bump, a
\* slow reader or a failed query left behind, a request that begins announced
\* and meets no change ends, by 200 or by 304, with its client holding the
\* catalog as it is (loadCatalog, ListProviders).
Fresh == INSTANCE FreshCatalog WITH
  catalog <- Content, held <- [c \in CLIENTS |-> held[c].content]
FreshCatalogSpec == Fresh!Spec

\* A current ETag names the current catalog: while the catalog is announced,
\* a snapshot or a client with the version that is stored has its content.
CurrentVersionIsCurrent ==
  version # Absent /\ ~unannounced =>
    /\ cache.ver = version /\ cache.fresh => cache.content = Content
    /\ \A c \in CLIENTS : held[c].etag = version => held[c].content = Content

\* Hand-tuned data stands: what an admin saved while no sync of the row was
\* past its lock test survives every later sync until somebody unlocks it.
TunedDataStands ==
  \A m \in MODELS : tuned[m].saved /\ tuned[m].alone =>
    m \in DOMAIN model /\ model[m].locked /\ model[m].data = tuned[m].data

\* models/provider.go: "the models.dev sync skips locked rows so hand-tuned
\* pricing / request_spec / context isn't clobbered". A sync that tested the
\* lock before the save overwrites it after.
SyncSkipsLockedRows ==
  \A m \in MODELS : tuned[m].saved /\ m \in DOMAIN model => model[m].data = tuned[m].data

\* Where no statement fails, clients converge: once the admins rest, a client
\* that keeps asking ends with the catalog and keeps it, so that every change
\* of the public catalog was announced (each handler's bumpCatalogVersion).
ClientsConverge ==
  FAULTS = 0 => \A c \in CLIENTS : <>[](held[c].content = Content)
===============================================================================
