----------------------------- MODULE CatalogProofs -----------------------------
(***************************************************************************)
(* Theorems about Catalog, for any providers, models, clients, admin calls *)
(* and failing statements: its types, what a current ETag names, that      *)
(* hand-tuned data stands, and that it keeps FreshCatalog's promise. Last, *)
(* that old clients read back the flat fields they save.                   *)
(***************************************************************************)
EXTENDS MCCatalog, FiniteSetTheorems, TLAPS

(***************************************************************************)
(* There is always a token that nobody remembers.                          *)
(***************************************************************************)
LEMMA ImageIsNoLarger ==
  ASSUME NEW S, IsFiniteSet(S), NEW f, DOMAIN f = S
  PROVE  /\ IsFiniteSet({f[x] : x \in S})
         /\ Cardinality({f[x] : x \in S}) \in Nat
         /\ Cardinality({f[x] : x \in S}) <= Cardinality(S)
  <1> DEFINE g == [x \in S |-> f[x]]
             T == {f[x] : x \in S}
  <1>1. g \in Surjection(S, T)
    BY DEF Surjection
  <1>2. IsFiniteSet(T) /\ Cardinality(T) <= Cardinality(S)
    BY <1>1, FS_Surjection
  <1>3. Cardinality(T) \in Nat
    BY <1>2, FS_CardinalityType
  <1> QED BY <1>2, <1>3

LEMMA UnionIsNoLarger ==
  ASSUME NEW S, NEW T, IsFiniteSet(S), IsFiniteSet(T)
  PROVE  /\ IsFiniteSet(S \cup T)
         /\ Cardinality(S) \in Nat /\ Cardinality(T) \in Nat /\ Cardinality(S \cup T) \in Nat
         /\ Cardinality(S \cup T) <= Cardinality(S) + Cardinality(T)
  <1>1. /\ IsFiniteSet(S \cup T)
        /\ Cardinality(S \cup T) = Cardinality(S) + Cardinality(T) - Cardinality(S \cap T)
    BY FS_Union
  <1>2. IsFiniteSet(S \cap T)
    BY FS_Subset
  <1>3. Cardinality(S) \in Nat /\ Cardinality(T) \in Nat /\ Cardinality(S \cup T) \in Nat
        /\ Cardinality(S \cap T) \in Nat
    BY <1>1, <1>2, FS_CardinalityType
  <1> QED BY <1>1, <1>3

LEMMA FreshToken == Token \in Tokens \ Known
  <1> DEFINE n == Cardinality(CALLERS)
             k == Cardinality(CLIENTS)
             R == {req[c].ver : c \in CALLERS}
             H == {held[c].etag : c \in CLIENTS}
             V == {version, cache.ver}
  <1>1. IsFiniteSet(CLIENTS) /\ IsFiniteSet(CALLERS) /\ n \in Nat /\ k \in Nat
    BY CatalogAssumption, UnionIsNoLarger, FS_CardinalityType DEF CALLERS
  <1>2. IsFiniteSet(R) /\ Cardinality(R) \in Nat /\ Cardinality(R) <= n
    <2> DEFINE f == [c \in CALLERS |-> req[c].ver]
    <2>1. R = {f[c] : c \in CALLERS} /\ DOMAIN f = CALLERS
      OBVIOUS
    <2> HIDE DEF f, R, n
    <2> QED BY <1>1, <2>1, ImageIsNoLarger DEF n
  <1>3. IsFiniteSet(H) /\ Cardinality(H) \in Nat /\ Cardinality(H) <= k
    <2> DEFINE f == [c \in CLIENTS |-> held[c].etag]
    <2>1. H = {f[c] : c \in CLIENTS} /\ DOMAIN f = CLIENTS
      OBVIOUS
    <2> HIDE DEF f, H, k
    <2> QED BY <1>1, <2>1, ImageIsNoLarger DEF k
  <1>4. IsFiniteSet(V) /\ Cardinality(V) \in Nat /\ Cardinality(V) <= 2
    <2>1. IsFiniteSet({version}) /\ Cardinality({version}) = 1
      BY FS_Singleton
    <2>2. {version} \cup {cache.ver} = V
      OBVIOUS
    <2>3. IsFiniteSet(V) /\ Cardinality(V) = IF cache.ver \in {version} THEN 1 ELSE 2
      BY <2>1, <2>2, FS_AddElement
    <2> QED BY <2>3
  <1>5. Known = (V \cup R) \cup H
    BY DEF Known
  <1> HIDE DEF R, H, V, n, k
  <1>6. IsFiniteSet(Known) /\ Cardinality(Known) \in Nat /\ Cardinality(Known) <= n + k + 2
    <2>1. IsFiniteSet(V \cup R) /\ Cardinality(V \cup R) \in Nat
          /\ Cardinality(V \cup R) <= Cardinality(V) + Cardinality(R)
      BY <1>2, <1>4, UnionIsNoLarger
    <2>2. IsFiniteSet(Known) /\ Cardinality(Known) \in Nat
          /\ Cardinality(Known) <= Cardinality(V \cup R) + Cardinality(H)
      BY <1>3, <1>5, <2>1, UnionIsNoLarger
    <2> QED BY <1>1, <1>2, <1>3, <1>4, <2>1, <2>2
  <1>7. Cardinality(Tokens) = n + k + 3
    <2>1. Tokens = 2..(n + k + 4)
      BY DEF Tokens, n, k
    <2>2. Cardinality(2..(n + k + 4)) = IF 2 > n + k + 4 THEN 0 ELSE (n + k + 4) - 2 + 1
      BY <1>1, FS_Interval
    <2> QED BY <1>1, <2>1, <2>2
  <1>8. ~(Tokens \subseteq Known)
    <2> SUFFICES ASSUME Tokens \subseteq Known
                 PROVE  FALSE
      OBVIOUS
    <2>1. Cardinality(Tokens) <= Cardinality(Known)
      BY <1>6, FS_Subset
    <2> QED BY <1>1, <1>6, <1>7, <2>1
  <1> QED BY <1>8 DEF Token

(***************************************************************************)
(* Tables.                                                                 *)
(***************************************************************************)
LEMMA InTable ==
  ASSUME NEW K, NEW R, NEW t \in Table(K, R)
  PROVE  /\ DOMAIN t \in SUBSET K
         /\ t \in [DOMAIN t -> R]
  BY DEF Table

LEMMA PutStays ==
  ASSUME NEW K, NEW R, NEW t \in Table(K, R), NEW k \in K, NEW row \in R
  PROVE  /\ Put(t, k, row) \in Table(K, R)
         /\ DOMAIN Put(t, k, row) = DOMAIN t \cup {k}
         /\ Put(t, k, row)[k] = row
         /\ \A x \in DOMAIN t \ {k} : Put(t, k, row)[x] = t[x]
  <1>1. DOMAIN t \in SUBSET K /\ t \in [DOMAIN t -> R]
    BY InTable
  <1>2. Put(t, k, row) \in [DOMAIN t \cup {k} -> R]
    BY <1>1 DEF Put
  <1>3. DOMAIN t \cup {k} \in SUBSET K
    BY <1>1
  <1> QED BY <1>1, <1>2, <1>3 DEF Table, Put

LEMMA RowsMayWiden ==
  ASSUME NEW K, NEW Q, NEW R, Q \in SUBSET R, NEW t \in Table(K, Q)
  PROVE  t \in Table(K, R)
  <1>1. DOMAIN t \in SUBSET K /\ t \in [DOMAIN t -> Q]
    BY InTable
  <1>2. t \in [DOMAIN t -> R]
    BY <1>1
  <1> QED BY <1>1, <1>2 DEF Table

LEMMA WithoutStays ==
  ASSUME NEW K, NEW R, NEW t \in Table(K, R), NEW gone
  PROVE  /\ Without(t, gone) \in Table(K, R)
         /\ DOMAIN Without(t, gone) = DOMAIN t \ gone
         /\ \A x \in DOMAIN t \ gone : Without(t, gone)[x] = t[x]
  <1>1. DOMAIN t \in SUBSET K /\ t \in [DOMAIN t -> R]
    BY InTable
  <1>2. Without(t, gone) \in [DOMAIN t \ gone -> R]
    BY <1>1 DEF Without
  <1>3. DOMAIN t \ gone \in SUBSET K
    BY <1>1
  <1> QED BY <1>2, <1>3 DEF Table, Without

(***************************************************************************)
(* Types. TypeInv says of whole records what TypeOK says of their fields,  *)
(* and of a handler what it does not yet hold: before its request is       *)
(* stored no models, and a version once it serves.                         *)
(***************************************************************************)
Versions == {Absent, Unread} \cup Tokens
Places == {"idle", "create", "poll", "lookup", "providers", "models", "store"}
Serving == {"lookup", "providers", "models", "store"}
ModelRows == SUBSET (MODELS \X PROVIDERS \X DATA)

Requests == [at : Places, ver : Versions, providers : SUBSET PROVIDERS, models : ModelRows]
Snapshots == [ver : {Unread} \cup Tokens, content : Contents, fresh : BOOLEAN]
Copies == [etag : Versions, content : Contents]
Calls == [kind : Kinds \cup {"none"}, p : PROVIDERS, m : MODELS,
          at : {"idle", "slug", "write", "bump", "insert"}]
Notes == [saved : BOOLEAN, data : DATA, alone : BOOLEAN]

TablesTyped == provider \in Table(PROVIDERS, BOOLEAN) /\ model \in Table(MODELS, Row)
VersionTyped == version \in {Absent} \cup Tokens
ServingTyped ==
  /\ cache \in Snapshots
  /\ req \in [CALLERS -> Requests]
  /\ held \in [CLIENTS -> Copies]
AdmTyped == adm \in [ADMINS -> Calls]
MarksTyped == unannounced \in BOOLEAN /\ calm \in [CLIENTS -> BOOLEAN]
NotesTyped == tuned \in [MODELS -> Notes]

Serves ==
  \A c \in CALLERS :
    /\ req[c].at \in Serving => req[c].ver # Absent
    /\ req[c].at # "store" => req[c].models = {}
    /\ c \in CLIENTS /\ calm[c] => req[c].at \in Serving \cup {"create"}

TypeInv ==
  /\ TablesTyped /\ VersionTyped /\ ServingTyped /\ Serves
  /\ AdmTyped /\ MarksTyped /\ NotesTyped

LEMMA TypesFollow == TypeInv => TypeOK
  <1> SUFFICES ASSUME TypeInv
               PROVE  TypeOK
    OBVIOUS
  <1> USE DEF TypeInv, TablesTyped, VersionTyped, ServingTyped, AdmTyped, MarksTyped, NotesTyped
  <1>1. cache.ver \in {Unread} \cup Tokens /\ cache.content \in Contents /\ cache.fresh \in BOOLEAN
    BY DEF Snapshots
  <1>2. ASSUME NEW c \in CALLERS
        PROVE  /\ req[c].ver \in {Absent, Unread} \cup Tokens
               /\ req[c].at \in Places
               /\ req[c].providers \subseteq PROVIDERS
    BY DEF Requests, Versions
  <1>3. ASSUME NEW c \in CLIENTS
        PROVE  held[c].etag \in {Absent, Unread} \cup Tokens /\ held[c].content \in Contents
    BY DEF Copies, Versions
  <1> QED BY <1>1, <1>2, <1>3 DEF TypeOK, Calls, Notes, Places

\* What handlers write into their records.
LEMMA CallsAreTyped ==
  /\ NoCall \in Calls /\ Bumping \in Calls
  /\ \A k \in Kinds, next \in {"slug", "write"}, q \in PROVIDERS, n \in MODELS :
       Call(k, next, q, n) \in Calls
  /\ NoCall.p \in PROVIDERS /\ NoCall.m \in MODELS
  <1>1. (CHOOSE q \in PROVIDERS : TRUE) \in PROVIDERS
        /\ (CHOOSE n \in MODELS : TRUE) \in MODELS
    BY CatalogAssumption
  <1> QED BY <1>1 DEF Calls, NoCall, Bumping, Call

LEMMA AnswersAreTyped ==
  ASSUME TablesTyped
  PROVE  /\ Shown \in SUBSET PROVIDERS
         /\ \A ps : ModelsOf(ps) \in ModelRows
         /\ Content \in Contents
         /\ \A m \in DOMAIN model : model[m] \in Row /\ m \in MODELS
         /\ DOMAIN provider \in SUBSET PROVIDERS
  <1>1. /\ DOMAIN provider \in SUBSET PROVIDERS
        /\ DOMAIN model \in SUBSET MODELS
        /\ \A m \in DOMAIN model : model[m] \in Row
    BY InTable DEF TablesTyped
  <1>2. Shown \in SUBSET PROVIDERS
    BY <1>1 DEF Shown
  <1>3. ASSUME NEW ps
        PROVE  ModelsOf(ps) \in ModelRows
    <2>1. \A m \in DOMAIN model : <<m, model[m].of, model[m].data>> \in MODELS \X PROVIDERS \X DATA
      BY <1>1 DEF Row
    <2> QED BY <2>1 DEF ModelsOf, ModelRows
  <1> QED BY <1>1, <1>2, <1>3 DEF Content, Contents, ModelRows

LEMMA FirstToken == 2 \in Tokens
  <1>1. Cardinality(CALLERS) \in Nat /\ Cardinality(CLIENTS) \in Nat
    BY CatalogAssumption, UnionIsNoLarger DEF CALLERS
  <1> QED BY <1>1 DEF Tokens

LEMMA InitTyped == Init => TypeInv
  <1> SUFFICES ASSUME Init
               PROVE  TypeInv
    OBVIOUS
  <1>1. TablesTyped
    <2>1. provider \in Table(PROVIDERS, BOOLEAN)
      BY RowsMayWiden, {TRUE} \in SUBSET BOOLEAN DEF Init
    <2>2. DOMAIN provider \in SUBSET PROVIDERS
      BY <2>1, InTable
    <2> DEFINE Rows == [of : DOMAIN provider, data : DATA, enabled : {TRUE}, locked : {FALSE}]
    <2>3. Rows \in SUBSET Row
      BY <2>2 DEF Row
    <2>4. model \in Table(MODELS, Rows)
      BY DEF Init
    <2> HIDE DEF Rows
    <2>5. model \in Table(MODELS, Row)
      BY <2>3, <2>4, RowsMayWiden
    <2> QED BY <2>1, <2>5 DEF TablesTyped
  <1>2. VersionTyped
    BY FirstToken DEF Init, VersionTyped
  <1>3. ServingTyped
    <2>1. Nothing \in Contents
      BY DEF Nothing, Contents
    <2>2. NoSnapshot \in Snapshots
      BY <2>1 DEF NoSnapshot, Snapshots
    <2>3. NoRequest \in Requests
      BY DEF NoRequest, Requests, Places, Versions, ModelRows
    <2>4. [etag |-> Absent, content |-> Nothing] \in Copies
      BY <2>1 DEF Copies, Versions
    <2> QED BY <2>2, <2>3, <2>4 DEF Init, ServingTyped
  <1>4. Serves
    BY DEF Init, Serves, NoRequest, Serving, Nobody, CALLERS
  <1>5. AdmTyped
    BY CallsAreTyped DEF Init, AdmTyped
  <1>6. MarksTyped
    BY DEF Init, MarksTyped, Nobody
  <1>7. NotesTyped
    <2>1. Untuned \in Notes
      BY CatalogAssumption DEF Untuned, Notes
    <2> QED BY <2>1 DEF Init, NotesTyped
  <1> QED BY <1>1, <1>2, <1>3, <1>4, <1>5, <1>6, <1>7 DEF TypeInv

LEMMA AdmMoves ==
  ASSUME AdmTyped, NEW a \in ADMINS
  PROVE  /\ \A at \in {"slug", "write", "bump", "insert"} : Goto(a, at) => AdmTyped'
         /\ Bump(a) => AdmTyped'
         /\ End(a) => AdmTyped'
         /\ \A call \in Calls : Arrive(a, call) => AdmTyped'
         /\ adm[a].p \in PROVIDERS /\ adm[a].m \in MODELS
  <1>1. ASSUME NEW at \in {"slug", "write", "bump", "insert"}, Goto(a, at)
        PROVE  AdmTyped'
    BY <1>1 DEF AdmTyped, Goto, Calls
  <1>2. Bump(a) => AdmTyped'
    BY CallsAreTyped DEF AdmTyped, Bump
  <1>3. End(a) => AdmTyped'
    BY CallsAreTyped DEF AdmTyped, End
  <1>4. ASSUME NEW call \in Calls, Arrive(a, call)
        PROVE  AdmTyped'
    BY <1>4 DEF AdmTyped, Arrive
  <1>5. adm[a].p \in PROVIDERS /\ adm[a].m \in MODELS
    BY DEF AdmTyped, Calls
  <1> QED BY <1>1, <1>2, <1>3, <1>4, <1>5

\* What the callers hold stays typed when the marks do.
LEMMA CallersRest ==
  ASSUME TypeInv, UNCHANGED serving, unannounced' \in BOOLEAN, calm' = calm \/ calm' = Nobody
  PROVE  ServingTyped' /\ Serves' /\ MarksTyped'
  <1> USE DEF TypeInv
  <1>1. ServingTyped'
    BY DEF ServingTyped, serving
  <1>2. MarksTyped'
    BY DEF MarksTyped, Nobody
  <1>3. ASSUME NEW c \in CLIENTS
        PROVE  calm'[c] => calm[c]
    BY DEF MarksTyped, Nobody
  <1>4. Serves'
    BY <1>3 DEF Serves, serving
  <1> QED BY <1>1, <1>2, <1>4

LEMMA WritesAreMarked ==
  ASSUME TypeInv, Wrote \/ UNCHANGED <<unannounced, calm>>
  PROVE  unannounced' \in BOOLEAN /\ (calm' = calm \/ calm' = Nobody)
  BY DEF TypeInv, MarksTyped, Wrote, Spoiled

LEMMA DeletesAreTyped ==
  ASSUME TypeInv, NEW gone, Deleted(gone)
  PROVE  model' \in Table(MODELS, Row) /\ NotesTyped'
  <1>1. model' \in Table(MODELS, Row)
    BY WithoutStays DEF TypeInv, TablesTyped, Deleted
  <1>2. Untuned \in Notes
    BY CatalogAssumption DEF Untuned, Notes
  <1>3. NotesTyped'
    BY <1>2 DEF TypeInv, NotesTyped, Deleted
  <1> QED BY <1>1, <1>3

LEMMA UpdatesAreTyped ==
  ASSUME TypeInv, NEW m \in MODELS, NEW row, m \in DOMAIN model => row \in Row, Updated(m, row)
  PROVE  model' \in Table(MODELS, Row)
  BY PutStays DEF TypeInv, TablesTyped, Updated

LEMMA NotesAreTyped ==
  ASSUME TypeInv, NEW m \in MODELS, NEW note \in Notes, Noted(m, note)
  PROVE  NotesTyped'
  BY DEF TypeInv, NotesTyped, Noted

LEMMA AdminCallsKeepTypes ==
  ASSUME TypeInv, NEW a \in ADMINS, AdminCall(a)
  PROVE  TypeInv'
  <1> USE DEF tables
  <1>0. TablesTyped /\ VersionTyped /\ AdmTyped /\ NotesTyped /\ MarksTyped
    BY DEF TypeInv
  <1>1. CASE FindProvider(a)
    <2>1. ASSUME NEW q \in DOMAIN provider, NEW m \in MODELS
          PROVE  /\ Call("updateProvider", "write", q, NoCall.m) \in Calls
                 /\ Call("createModel", "write", q, m) \in Calls
      BY <1>0, AnswersAreTyped, CallsAreTyped DEF Kinds
    <2>2. AdmTyped'
      BY <1>0, <1>1, <2>1, AdmMoves DEF FindProvider
    <2> QED BY <1>0, <1>1, <2>2, CallersRest DEF FindProvider, TypeInv, TablesTyped, VersionTyped, MarksTyped, NotesTyped
  <1>2. CASE FindModel(a)
    <2>1. ASSUME NEW m \in DOMAIN model
          PROVE  /\ Call("updateModel", "write", model[m].of, m) \in Calls
                 /\ Call("unlock", "write", model[m].of, m) \in Calls
                 /\ Call("sync", "slug", model[m].of, m) \in Calls
      <3>1. m \in MODELS /\ model[m].of \in PROVIDERS
        BY <1>0, AnswersAreTyped DEF Row
      <3> QED BY <3>1, CallsAreTyped DEF Kinds
    <2>2. AdmTyped'
      BY <1>0, <1>2, <2>1, AdmMoves DEF FindModel
    <2> QED BY <1>0, <1>2, <2>2, CallersRest DEF FindModel, TypeInv, TablesTyped, VersionTyped, MarksTyped, NotesTyped
  <1>3. CASE CreateProvider(a)
    <2>1. AdmTyped'
      BY <1>0, <1>3, AdmMoves, CallsAreTyped DEF CreateProvider
    <2>2. TablesTyped'
      <3>1. PICK q \in PROVIDERS : provider' = Put(provider, q, TRUE)
        BY <1>3 DEF CreateProvider
      <3>2. Put(provider, q, TRUE) \in Table(PROVIDERS, BOOLEAN)
        <4>1. provider \in Table(PROVIDERS, BOOLEAN) /\ TRUE \in BOOLEAN
          BY <1>0 DEF TablesTyped
        <4> QED BY <4>1, PutStays, Zenon
      <3> QED BY <1>0, <1>3, <3>1, <3>2 DEF CreateProvider, TablesTyped
    <2>3. ServingTyped' /\ Serves' /\ MarksTyped'
      BY <1>3, WritesAreMarked, CallersRest DEF CreateProvider
    <2> QED BY <1>0, <1>3, <2>1, <2>2, <2>3 DEF CreateProvider, TypeInv, VersionTyped, NotesTyped
  <1>4. CASE PurgeModels(a)
    <2>1. AdmTyped'
      <3>1. \A q \in PROVIDERS : Call("deleteProvider", "write", q, NoCall.m) \in Calls
        BY CallsAreTyped DEF Kinds
      <3> QED BY <1>0, <1>4, <3>1, AdmMoves DEF PurgeModels
    <2>2. model' \in Table(MODELS, Row) /\ NotesTyped'
      BY <1>0, <1>4, DeletesAreTyped DEF PurgeModels, TablesTyped, NotesTyped
    <2>3. ServingTyped' /\ Serves' /\ MarksTyped'
      BY <1>4, WritesAreMarked, CallersRest DEF PurgeModels
    <2> QED BY <1>0, <1>4, <2>1, <2>2, <2>3 DEF PurgeModels, TypeInv, TablesTyped, VersionTyped
  <1>5. CASE DeleteModel(a)
    <2>1. AdmTyped'
      BY <1>0, <1>5, AdmMoves, CallsAreTyped DEF DeleteModel
    <2>2. model' \in Table(MODELS, Row) /\ NotesTyped'
      BY <1>5, DeletesAreTyped DEF DeleteModel
    <2>3. ServingTyped' /\ Serves' /\ MarksTyped'
      BY <1>5, WritesAreMarked, CallersRest DEF DeleteModel
    <2> QED BY <1>0, <1>5, <2>1, <2>2, <2>3 DEF DeleteModel, TypeInv, TablesTyped, VersionTyped
  <1>6. CASE ChangeRouting(a)
    <2>1. AdmTyped'
      BY <1>0, <1>6, AdmMoves, CallsAreTyped DEF ChangeRouting
    <2> QED BY <1>0, <1>6, <2>1, CallersRest DEF ChangeRouting, TypeInv, TablesTyped, VersionTyped, MarksTyped, NotesTyped
  <1> QED BY <1>1, <1>2, <1>3, <1>4, <1>5, <1>6 DEF AdminCall

LEMMA AdminStepsKeepTypes ==
  ASSUME TypeInv, NEW a \in ADMINS, AdminStep(a) \/ WriteFails(a) \/ BumpFails(a)
  PROVE  TypeInv'
  <1> USE DEF tables
  <1>0. TablesTyped /\ VersionTyped /\ AdmTyped /\ NotesTyped /\ MarksTyped
        /\ adm[a].p \in PROVIDERS /\ adm[a].m \in MODELS
    BY AdmMoves DEF TypeInv
  <1>1. CASE \/ ReadSlug(a) \/ FetchFails(a) \/ FindNoVersion(a) \/ WriteFails(a) \/ BumpFails(a)
    <2>1. AdmTyped'
      BY <1>0, <1>1, AdmMoves DEF ReadSlug, FetchFails, FindNoVersion, WriteFails, BumpFails
    <2>2. UNCHANGED <<tables, version, serving, unannounced, calm, tuned>>
      BY <1>1 DEF ReadSlug, FetchFails, FindNoVersion, WriteFails, BumpFails
    <2> QED BY <1>0, <2>1, <2>2, CallersRest DEF TypeInv, TablesTyped, VersionTyped, MarksTyped, NotesTyped
  <1>2. CASE UpdateProvider(a)
    <2>1. AdmTyped'
      BY <1>0, <1>2, AdmMoves DEF UpdateProvider
    <2>2. TablesTyped'
      <3>1. PICK on \in BOOLEAN :
              provider' = IF adm[a].p \in DOMAIN provider THEN Put(provider, adm[a].p, on) ELSE provider
        BY <1>2 DEF UpdateProvider
      <3>2. Put(provider, adm[a].p, on) \in Table(PROVIDERS, BOOLEAN)
        <4>1. provider \in Table(PROVIDERS, BOOLEAN)
          BY <1>0 DEF TablesTyped
        <4> QED BY <1>0, <4>1, PutStays, Zenon
      <3> QED BY <1>0, <1>2, <3>1, <3>2 DEF UpdateProvider, TablesTyped
    <2>3. ServingTyped' /\ Serves' /\ MarksTyped'
      BY <1>2, WritesAreMarked, CallersRest DEF UpdateProvider
    <2> QED BY <1>0, <1>2, <2>1, <2>2, <2>3 DEF UpdateProvider, TypeInv, VersionTyped, NotesTyped
  <1>3. CASE DeleteProvider(a)
    <2>1. AdmTyped'
      BY <1>0, <1>3, AdmMoves DEF DeleteProvider
    <2>2. TablesTyped'
      BY <1>0, <1>3, WithoutStays DEF DeleteProvider, TablesTyped
    <2>3. ServingTyped' /\ Serves' /\ MarksTyped'
      BY <1>3, WritesAreMarked, CallersRest DEF DeleteProvider
    <2> QED BY <1>0, <1>3, <2>1, <2>2, <2>3 DEF DeleteProvider, TypeInv, VersionTyped, NotesTyped
  <1>4. CASE CreateModel(a)
    <2>1. AdmTyped'
      BY <1>0, <1>4, AdmMoves DEF CreateModel
    <2>2. TablesTyped'
      <3>1. \A d \in DATA : [of |-> adm[a].p, data |-> d, enabled |-> TRUE, locked |-> FALSE] \in Row
        BY <1>0 DEF Row
      <3>2. CASE UNCHANGED model
        BY <1>0, <1>4, <3>2 DEF CreateModel, TablesTyped
      <3>3. CASE \E d \in DATA :
                   model' = Put(model, adm[a].m,
                                [of |-> adm[a].p, data |-> d, enabled |-> TRUE, locked |-> FALSE])
        <4>1. PICK d \in DATA :
                model' = Put(model, adm[a].m,
                             [of |-> adm[a].p, data |-> d, enabled |-> TRUE, locked |-> FALSE])
          BY <3>3
        <4>2. model' \in Table(MODELS, Row)
          <5> DEFINE row == [of |-> adm[a].p, data |-> d, enabled |-> TRUE, locked |-> FALSE]
          <5>1. row \in Row /\ model \in Table(MODELS, Row) /\ model' = Put(model, adm[a].m, row)
            BY <1>0, <3>1, <4>1 DEF TablesTyped
          <5> HIDE DEF row
          <5>2. Put(model, adm[a].m, row) \in Table(MODELS, Row)
            BY <1>0, <5>1, PutStays
          <5> QED BY <5>1, <5>2
        <4> QED BY <1>0, <1>4, <4>2 DEF CreateModel, TablesTyped
      <3> QED BY <1>4, <3>2, <3>3 DEF CreateModel
    <2>3. ServingTyped' /\ Serves' /\ MarksTyped'
      BY <1>4, WritesAreMarked, CallersRest DEF CreateModel
    <2> QED BY <1>0, <1>4, <2>1, <2>2, <2>3 DEF CreateModel, TypeInv, VersionTyped, NotesTyped
  <1>5. CASE UpdateModel(a)
    <2>1. AdmTyped'
      BY <1>0, <1>5, AdmMoves DEF UpdateModel
    <2>2. PICK d \in DATA, on \in BOOLEAN :
            /\ Updated(adm[a].m, [model[adm[a].m] EXCEPT !.data = d, !.enabled = on, !.locked = TRUE])
            /\ Noted(adm[a].m, [saved |-> TRUE, data |-> d, alone |-> SyncsInFlight(adm[a].m) = {}])
      BY <1>5 DEF UpdateModel
    <2>3. adm[a].m \in DOMAIN model =>
            [model[adm[a].m] EXCEPT !.data = d, !.enabled = on, !.locked = TRUE] \in Row
      BY <1>0, AnswersAreTyped DEF Row
    <2>4. [saved |-> TRUE, data |-> d, alone |-> SyncsInFlight(adm[a].m) = {}] \in Notes
      BY DEF Notes
    <2>5. model' \in Table(MODELS, Row) /\ NotesTyped'
      BY <1>0, <2>2, <2>3, <2>4, UpdatesAreTyped, NotesAreTyped
    <2>6. ServingTyped' /\ Serves' /\ MarksTyped'
      BY <1>5, WritesAreMarked, CallersRest DEF UpdateModel
    <2> QED BY <1>0, <1>5, <2>1, <2>5, <2>6 DEF UpdateModel, TypeInv, TablesTyped, VersionTyped
  <1>6. CASE SyncModel(a)
    <2>1. AdmTyped'
      BY <1>0, <1>6, AdmMoves DEF SyncModel
    <2>2. PICK d \in DATA : Updated(adm[a].m, [model[adm[a].m] EXCEPT !.data = d])
      BY <1>6 DEF SyncModel
    <2>3. adm[a].m \in DOMAIN model => [model[adm[a].m] EXCEPT !.data = d] \in Row
      BY <1>0, AnswersAreTyped DEF Row
    <2>4. model' \in Table(MODELS, Row)
      BY <1>0, <2>2, <2>3, UpdatesAreTyped
    <2>5. ServingTyped' /\ Serves' /\ MarksTyped'
      BY <1>6, WritesAreMarked, CallersRest DEF SyncModel
    <2> QED BY <1>0, <1>6, <2>1, <2>4, <2>5 DEF SyncModel, TypeInv, TablesTyped, VersionTyped, NotesTyped
  <1>7. CASE UnlockModel(a)
    <2>1. AdmTyped'
      BY <1>0, <1>7, AdmMoves DEF UnlockModel
    <2>2. adm[a].m \in DOMAIN model => [model[adm[a].m] EXCEPT !.locked = FALSE] \in Row
      BY <1>0, AnswersAreTyped DEF Row
    <2>3. Untuned \in Notes
      BY CatalogAssumption DEF Untuned, Notes
    <2>4. model' \in Table(MODELS, Row) /\ NotesTyped'
      BY <1>0, <1>7, <2>2, <2>3, UpdatesAreTyped, NotesAreTyped DEF UnlockModel
    <2>5. ServingTyped' /\ Serves' /\ MarksTyped'
      BY <1>7, WritesAreMarked, CallersRest DEF UnlockModel
    <2> QED BY <1>0, <1>7, <2>1, <2>4, <2>5 DEF UnlockModel, TypeInv, TablesTyped, VersionTyped
  <1>8. CASE RenewVersion(a) \/ InsertVersion(a)
    <2>1. AdmTyped'
      BY <1>0, <1>8, AdmMoves DEF RenewVersion, InsertVersion
    <2>2. VersionTyped'
      BY <1>0, <1>8, FreshToken DEF RenewVersion, InsertVersion, VersionTyped
    <2>3. ServingTyped' /\ Serves' /\ MarksTyped'
      BY <1>0, <1>8, CallersRest DEF RenewVersion, InsertVersion, MarksTyped
    <2>4. UNCHANGED <<tables, tuned>>
      BY <1>8 DEF RenewVersion, InsertVersion
    <2> QED BY <1>0, <2>1, <2>2, <2>3, <2>4 DEF TypeInv, TablesTyped, NotesTyped
  <1> QED BY <1>1, <1>2, <1>3, <1>4, <1>5, <1>6, <1>7, <1>8 DEF AdminStep

LEMMA NoRequestIsTyped ==
  /\ NoRequest \in Requests
  /\ NoRequest.at = "idle" /\ NoRequest.models = {}
  BY DEF NoRequest, Requests, Places, Versions, ModelRows

LEMMA RepliesAreTyped ==
  ASSUME TypeInv, NEW c \in CALLERS, NEW ver \in Versions, NEW content \in Contents,
         Reply(c, ver, content)
  PROVE  /\ req' \in [CALLERS -> Requests]
         /\ held' \in [CLIENTS -> Copies]
         /\ calm' \in [CLIENTS -> BOOLEAN]
         /\ Serves'
  <1> USE DEF TypeInv
  <1>1. req' \in [CALLERS -> Requests]
    BY NoRequestIsTyped DEF Reply, ServingTyped
  <1>2. held' \in [CLIENTS -> Copies]
    <2>1. [etag |-> ver, content |-> content] \in Copies
      BY DEF Copies
    <2> QED BY <2>1 DEF Reply, ServingTyped, CALLERS
  <1>3. calm' \in [CLIENTS -> BOOLEAN]
    BY DEF Reply, MarksTyped
  <1>4. ASSUME NEW d \in CLIENTS
        PROVE  /\ calm'[d] => calm[d]
               /\ d = c => ~calm'[d]
    BY CatalogAssumption DEF Reply, MarksTyped
  <1>5. ASSUME NEW d \in CALLERS
        PROVE  req'[d] = IF d = c THEN NoRequest ELSE req[d]
    BY DEF Reply, ServingTyped
  <1>6. Serves'
    BY <1>4, <1>5, NoRequestIsTyped DEF Serves, Serving
  <1> QED BY <1>1, <1>2, <1>3, <1>6

\* The tables and the admin calls are not the callers' to write.
LEMMA CallersKeepTypes ==
  ASSUME TypeInv, NEW c \in CALLERS,
         CallerStep(c) \/ PollVersion(c) \/ ReadVersionFails(c) \/ QueryFails(c)
  PROVE  TypeInv'
  <1> USE DEF tables
  <1>0. /\ TablesTyped /\ VersionTyped /\ AdmTyped /\ NotesTyped /\ MarksTyped
        /\ ServingTyped /\ Serves
        /\ req[c] \in Requests
        /\ Token \in Tokens
    BY FreshToken DEF TypeInv, ServingTyped
  <1>1. TablesTyped' /\ AdmTyped' /\ NotesTyped'
    <2>1. UNCHANGED <<tables, adm, tuned>>
      BY DEF CallerStep, ReadVersion, CreateVersion, FromCache, Miss, ReadProviders, ReadModels,
             Store, PollVersion, ReadVersionFails, QueryFails
    <2> QED BY <1>0, <2>1 DEF TablesTyped, AdmTyped, NotesTyped
  <1>2. CASE ReadVersion(c)
    <2>1. [req[c] EXCEPT !.at = IF version = Absent THEN "create" ELSE "lookup", !.ver = version] \in Requests
      BY <1>0 DEF Requests, Places, Versions, VersionTyped
    <2>2. ServingTyped'
      BY <1>0, <1>2, <2>1 DEF ReadVersion, ServingTyped
    <2>3. MarksTyped'
      BY <1>0, <1>2 DEF ReadVersion, MarksTyped
    <2>4. Serves'
      BY <1>0, <1>2 DEF ReadVersion, Serves, Serving, ServingTyped, Requests
    <2> QED BY <1>0, <1>1, <1>2, <2>2, <2>3, <2>4 DEF ReadVersion, TypeInv, VersionTyped
  <1>3. CASE ReadVersionFails(c)
    <2>1. [req[c] EXCEPT !.at = "lookup", !.ver = Unread] \in Requests
      BY <1>0 DEF Requests, Places, Versions
    <2>2. ServingTyped'
      BY <1>0, <1>3, <2>1 DEF ReadVersionFails, ServingTyped
    <2>3. Serves'
      BY <1>0, <1>3 DEF ReadVersionFails, Serves, Serving, ServingTyped, Requests, Absent, Unread
    <2> QED BY <1>0, <1>1, <1>3, <2>2, <2>3 DEF ReadVersionFails, TypeInv, VersionTyped, MarksTyped
  <1>4. CASE PollVersion(c)
    <2>1. [req[c] EXCEPT !.at = "poll"] \in Requests
      BY <1>0 DEF Requests, Places
    <2>2. ServingTyped'
      BY <1>0, <1>4, <2>1 DEF PollVersion, Step, ServingTyped
    <2>3. Serves'
      BY <1>0, <1>4 DEF PollVersion, Step, Serves, Serving, ServingTyped, Requests
    <2> QED BY <1>0, <1>1, <1>4, <2>2, <2>3 DEF PollVersion, TypeInv, VersionTyped, MarksTyped
  <1>5. CASE CreateVersion(c)
    <2> DEFINE r == IF req[c].at = "poll" THEN NoRequest
                    ELSE [req[c] EXCEPT !.at = "lookup", !.ver = Token]
    <2>1. r \in Requests
      BY <1>0, NoRequestIsTyped DEF Requests, Places, Versions
    <2>2. req' = [req EXCEPT ![c] = r]
      BY <1>5 DEF CreateVersion
    <2>3. ServingTyped'
      BY <1>0, <1>5, <2>1, <2>2 DEF CreateVersion, ServingTyped
    <2>4. Serves'
      <3>1. /\ r.at \in Serving => r.ver # Absent
            /\ r.models = {}
            /\ r.at = "lookup" \/ r.at = "idle"
            /\ c \in CLIENTS /\ calm[c] => r.at = "lookup"
        <4>1. Token # Absent
          BY <1>0, CatalogAssumption, UnionIsNoLarger DEF Tokens, Absent, CALLERS
        <4>2. req[c].models = {} /\ (c \in CLIENTS /\ calm[c] => req[c].at # "poll")
          BY <1>0, <1>5 DEF CreateVersion, Serves, Serving
        <4> QED BY <1>0, <1>5, <4>1, <4>2 DEF CreateVersion, Serving, Requests, NoRequest
      <3>2. \A d \in CALLERS : req'[d] = IF d = c THEN r ELSE req[d]
        BY <1>0, <2>2 DEF ServingTyped
      <3>3. calm' = calm
        BY <1>5 DEF CreateVersion
      <3> HIDE DEF r
      <3> QED BY <1>0, <3>1, <3>2, <3>3 DEF Serves, Serving
    <2>5. VersionTyped' /\ MarksTyped'
      BY <1>0, <1>5 DEF CreateVersion, VersionTyped, MarksTyped
    <2> QED BY <1>1, <2>3, <2>4, <2>5 DEF TypeInv
  <1>6. CASE FromCache(c)
    <2>1. cache.ver \in Versions /\ cache.content \in Contents
      BY <1>0 DEF ServingTyped, Snapshots, Versions
    <2>2. /\ req' \in [CALLERS -> Requests] /\ held' \in [CLIENTS -> Copies]
          /\ calm' \in [CLIENTS -> BOOLEAN] /\ Serves'
      BY <1>6, <2>1, RepliesAreTyped DEF FromCache
    <2> QED BY <1>0, <1>1, <1>6, <2>2 DEF FromCache, TypeInv, VersionTyped, MarksTyped, ServingTyped
  <1>7. CASE Miss(c)
    <2>1. [req[c] EXCEPT !.at = "providers"] \in Requests
      BY <1>0 DEF Requests, Places
    <2>2. ServingTyped'
      BY <1>0, <1>7, <2>1 DEF Miss, Step, ServingTyped
    <2>3. Serves'
      BY <1>0, <1>7 DEF Miss, Step, Serves, Serving, ServingTyped, Requests
    <2> QED BY <1>0, <1>1, <1>7, <2>2, <2>3 DEF Miss, TypeInv, VersionTyped, MarksTyped
  <1>8. CASE ReadProviders(c)
    <2>1. [req[c] EXCEPT !.providers = Shown, !.at = IF Shown = {} THEN "store" ELSE "models"] \in Requests
      BY <1>0, AnswersAreTyped DEF Requests, Places
    <2>2. ServingTyped'
      BY <1>0, <1>8, <2>1 DEF ReadProviders, ServingTyped
    <2>3. Serves'
      BY <1>0, <1>8 DEF ReadProviders, Serves, Serving, ServingTyped, Requests
    <2> QED BY <1>0, <1>1, <1>8, <2>2, <2>3 DEF ReadProviders, TypeInv, VersionTyped, MarksTyped
  <1>9. CASE ReadModels(c)
    <2>1. ModelsOf(req[c].providers) \in ModelRows
      BY <1>0, AnswersAreTyped
    <2>2. [req[c] EXCEPT !.models = ModelsOf(req[c].providers), !.at = "store"] \in Requests
      BY <1>0, <2>1 DEF Requests, Places
    <2>3. ServingTyped'
      BY <1>0, <1>9, <2>2 DEF ReadModels, ServingTyped
    <2>4. Serves'
      BY <1>0, <1>9 DEF ReadModels, Serves, Serving, ServingTyped, Requests
    <2> QED BY <1>0, <1>1, <1>9, <2>3, <2>4 DEF ReadModels, TypeInv, VersionTyped, MarksTyped
  <1>10. CASE QueryFails(c)
    <2>1. [req[c] EXCEPT !.at = "store"] \in Requests
      BY <1>0 DEF Requests, Places
    <2>2. ServingTyped'
      BY <1>0, <1>10, <2>1 DEF QueryFails, Step, ServingTyped
    <2>3. Serves'
      BY <1>0, <1>10 DEF QueryFails, Step, Serves, Serving, ServingTyped, Requests, Spoiled, Nobody
    <2>4. MarksTyped'
      BY <1>10 DEF QueryFails, Spoiled, Nobody, MarksTyped
    <2> QED BY <1>0, <1>1, <1>10, <2>2, <2>3, <2>4 DEF QueryFails, TypeInv, VersionTyped
  <1>11. CASE Store(c)
    <2> DEFINE content == [providers |-> req[c].providers, models |-> req[c].models]
    <2>1. content \in Contents
      BY <1>0 DEF Requests, Contents, ModelRows
    <2>2. req[c].ver \in Versions /\ req[c].ver # Absent
      BY <1>0, <1>11 DEF Store, Serves, Serving, Requests
    <2>3. /\ Reply(c, req[c].ver, content)
          /\ cache' = [ver |-> req[c].ver, content |-> content, fresh |-> TRUE]
      BY <1>11 DEF Store
    <2> HIDE DEF content
    <2>4. /\ req' \in [CALLERS -> Requests] /\ held' \in [CLIENTS -> Copies]
          /\ calm' \in [CLIENTS -> BOOLEAN] /\ Serves'
      BY <2>1, <2>2, <2>3, RepliesAreTyped
    <2>5. cache' \in Snapshots
      BY <2>1, <2>2, <2>3 DEF Snapshots, Versions
    <2> QED BY <1>0, <1>1, <1>11, <2>4, <2>5 DEF Store, TypeInv, VersionTyped, MarksTyped, ServingTyped
  <1> QED BY <1>2, <1>3, <1>4, <1>5, <1>6, <1>7, <1>8, <1>9, <1>10, <1>11 DEF CallerStep

LEMMA TypesAreKept == TypeInv /\ [Next]_vars => TypeInv'
  <1> SUFFICES ASSUME TypeInv, [Next]_vars
               PROVE  TypeInv'
    OBVIOUS
  <1>1. CASE Expire
    <2>1. NoSnapshot \in Snapshots
      BY DEF NoSnapshot, Snapshots, Nothing, Contents
    <2> QED BY <1>1, <2>1 DEF Expire, tables, TypeInv, TablesTyped, VersionTyped, ServingTyped, Serves,
               AdmTyped, MarksTyped, NotesTyped
  <1>2. CASE UNCHANGED vars
    BY <1>2 DEF vars, tables, TypeInv, TablesTyped, VersionTyped, ServingTyped, Serves,
                AdmTyped, MarksTyped, NotesTyped
  <1> QED BY <1>1, <1>2, AdminCallsKeepTypes, AdminStepsKeepTypes, CallersKeepTypes DEF Next

\* The inductive form of the types: the tables, what each handler of
\* AdminUpdateModel, SyncModelFromModelsDev, ListProviders and the others holds
\* between its statements, and what clients were given.
THEOREM TypeInvariant == Spec => []TypeInv
  BY InitTyped, TypesAreKept, PTL DEF Spec

\* Every handler holds a legal state, and no version, snapshot or ETag is of a
\* kind the tables could not have given (currentCatalogVersion, loadCatalog).
THEOREM TypeCorrect == Spec => []TypeOK
  BY TypeInvariant, TypesFollow, PTL

(***************************************************************************)
(* Hand-tuned data. A row whose last save no sync overlapped stays locked, *)
(* so no sync of it comes past the test of `locked`.                       *)
(***************************************************************************)
Stands(m) ==
  /\ m \in DOMAIN model /\ model[m].locked /\ model[m].data = tuned[m].data
  /\ SyncsInFlight(m) = {}

TunedInv == \A m \in MODELS : tuned[m].saved /\ tuned[m].alone => Stands(m)

\* A new sync is of an unlocked row; every other move of a call keeps or ends it.
LEMMA NoNewSync ==
  ASSUME TypeInv, NEW a \in ADMINS, NEW call, adm' = [adm EXCEPT ![a] = call],
         NEW m \in MODELS, SyncsInFlight(m) = {}, call.kind = "sync" => call.m # m
  PROVE  SyncsInFlight(m)' = {}
  BY DEF TypeInv, AdmTyped, SyncsInFlight

LEMMA ArrivalsAreNoSync ==
  ASSUME TypeInv, NEW a \in ADMINS, NEW call, Arrive(a, call),
         NEW m \in MODELS, SyncsInFlight(m) = {}, call.kind = "sync" => call.m # m
  PROVE  SyncsInFlight(m)' = {}
  BY NoNewSync DEF Arrive

LEMMA KindsOfCalls ==
  /\ NoCall.kind # "sync" /\ Bumping.kind # "sync"
  /\ \A k, next, q, n : Call(k, next, q, n).kind = k /\ Call(k, next, q, n).m = n
  BY DEF NoCall, Bumping, Call

LEMMA SyncsStay ==
  ASSUME TypeInv, NEW a \in ADMINS, NEW m \in MODELS, SyncsInFlight(m) = {},
         (\E at : Goto(a, at)) \/ Bump(a) \/ End(a)
  PROVE  SyncsInFlight(m)' = {}
  <1>1. CASE \E at : Goto(a, at)
    BY <1>1 DEF Goto, TypeInv, AdmTyped, Calls, SyncsInFlight
  <1>2. NoCall.kind # "sync" /\ Bumping.kind # "sync"
    BY DEF NoCall, Bumping
  <1>3. CASE Bump(a) \/ End(a)
    BY <1>2, <1>3, NoNewSync DEF Bump, End
  <1> QED BY <1>1, <1>3

LEMMA TunedIsKept == TypeInv /\ TunedInv /\ [Next]_vars => TunedInv'
  <1> SUFFICES ASSUME TypeInv, TunedInv, [Next]_vars, NEW m \in MODELS,
                      (tuned[m].saved /\ tuned[m].alone)'
               PROVE  Stands(m)'
    BY DEF TunedInv
  <1> USE DEF tables
  <1>0. /\ AdmTyped /\ NotesTyped /\ model \in Table(MODELS, Row)
        /\ tuned[m].saved /\ tuned[m].alone => Stands(m)
    BY DEF TypeInv, TablesTyped, TunedInv
  <1>1. ASSUME UNCHANGED <<model, tuned>>, SyncsInFlight(m) = {} => SyncsInFlight(m)' = {}
        PROVE  Stands(m)'
    BY <1>0, <1>1 DEF Stands
  <1>2. CASE \E c \in CALLERS : CallerStep(c) \/ PollVersion(c) \/ ReadVersionFails(c) \/ QueryFails(c)
    <2>1. UNCHANGED <<model, tuned, adm>>
      BY <1>2 DEF CallerStep, ReadVersion, CreateVersion, FromCache, Miss, ReadProviders, ReadModels,
             Store, PollVersion, ReadVersionFails, QueryFails
    <2> QED BY <1>1, <2>1 DEF SyncsInFlight
  <1>3. CASE Expire \/ UNCHANGED vars
    <2>1. UNCHANGED <<model, tuned, adm>>
      BY <1>3 DEF Expire, vars
    <2> QED BY <1>1, <2>1 DEF SyncsInFlight
  <1>4. ASSUME NEW a \in ADMINS, AdminCall(a) \/ AdminStep(a) \/ WriteFails(a) \/ BumpFails(a)
        PROVE  Stands(m)'
    <2>0. adm[a].m \in MODELS
      BY <1>0, AdmMoves
    <2>1. CASE \/ FindProvider(a) \/ CreateProvider(a) \/ ChangeRouting(a)
      <3>1. UNCHANGED <<model, tuned>>
        BY <2>1 DEF FindProvider, CreateProvider, ChangeRouting
      <3>2. SyncsInFlight(m) = {} => SyncsInFlight(m)' = {}
        BY <2>1, ArrivalsAreNoSync, KindsOfCalls DEF FindProvider, CreateProvider, ChangeRouting
      <3> QED BY <1>1, <3>1, <3>2
    <2>2. CASE FindModel(a)
      <3>1. UNCHANGED <<model, tuned>>
        BY <2>2 DEF FindModel
      <3>2. Stands(m)
        BY <1>0, <3>1
      <3>3. PICK n \in DOMAIN model :
              \/ Arrive(a, Call("updateModel", "write", model[n].of, n))
              \/ Arrive(a, Call("unlock", "write", model[n].of, n))
              \/ ~model[n].locked /\ Arrive(a, Call("sync", "slug", model[n].of, n))
        BY <2>2 DEF FindModel
      <3>4. SyncsInFlight(m)' = {}
        BY <3>2, <3>3, ArrivalsAreNoSync, KindsOfCalls DEF Stands
      <3> QED BY <1>1, <3>1, <3>4
    <2>3. CASE PurgeModels(a) \/ DeleteModel(a)
      <3>1. SyncsInFlight(m) = {} => SyncsInFlight(m)' = {}
        BY <2>3, ArrivalsAreNoSync, KindsOfCalls DEF PurgeModels, DeleteModel
      <3>2. CASE UNCHANGED <<model, tuned>>
        BY <1>1, <3>1, <3>2
      <3>3. CASE \E gone : Deleted(gone)
        <4>1. PICK gone : Deleted(gone)
          BY <3>3
        <4>2. m \notin gone /\ tuned'[m] = tuned[m]
          BY <4>1 DEF Deleted, Untuned
        <4>3. Stands(m)
          BY <1>0, <4>2
        <4>4. m \in DOMAIN model' /\ model'[m] = model[m]
          BY <4>1, <4>2, <4>3 DEF Deleted, Without, Stands
        <4> QED BY <3>1, <4>2, <4>3, <4>4 DEF Stands
      <3> QED BY <2>3, <3>2, <3>3 DEF PurgeModels, DeleteModel
    <2>4. CASE \/ ReadSlug(a) \/ FetchFails(a) \/ UpdateProvider(a) \/ DeleteProvider(a)
               \/ FindNoVersion(a) \/ RenewVersion(a) \/ InsertVersion(a) \/ WriteFails(a) \/ BumpFails(a)
      <3>1. UNCHANGED <<model, tuned>>
        BY <2>4 DEF ReadSlug, FetchFails, UpdateProvider, DeleteProvider, FindNoVersion, RenewVersion,
               InsertVersion, WriteFails, BumpFails
      <3>2. (\E at : Goto(a, at)) \/ Bump(a) \/ End(a)
        BY <2>4 DEF ReadSlug, FetchFails, UpdateProvider, DeleteProvider, FindNoVersion, RenewVersion,
               InsertVersion, WriteFails, BumpFails
      <3> QED BY <1>1, <3>1, <3>2, SyncsStay
    <2>5. CASE CreateModel(a)
      <3>1. tuned' = tuned /\ (Bump(a) \/ End(a))
        BY <2>5 DEF CreateModel
      <3>2. Stands(m)
        BY <1>0, <3>1
      <3>3. m \in DOMAIN model' /\ model'[m] = model[m]
        <4>1. CASE UNCHANGED model
          BY <3>2, <4>1 DEF Stands
        <4>2. CASE adm[a].m \notin DOMAIN model /\ \E row : model' = Put(model, adm[a].m, row)
          BY <3>2, <4>2 DEF Stands, Put
        <4> QED BY <2>5, <4>1, <4>2 DEF CreateModel
      <3> QED BY <3>1, <3>2, <3>3, SyncsStay DEF Stands
    <2>6. CASE SyncModel(a)
      <3>1. tuned' = tuned /\ Bump(a)
        BY <2>6 DEF SyncModel
      <3>2. Stands(m)
        BY <1>0, <3>1
      <3>3. adm[a].m # m
        BY <2>6, <3>2 DEF SyncModel, At, Stands, SyncsInFlight
      <3>4. m \in DOMAIN model' /\ model'[m] = model[m]
        BY <2>6, <3>2, <3>3 DEF SyncModel, Updated, Put, Stands
      <3> QED BY <3>1, <3>2, <3>4, SyncsStay DEF Stands
    <2>7. CASE UnlockModel(a)
      <3>1. Bump(a) /\ Updated(adm[a].m, [model[adm[a].m] EXCEPT !.locked = FALSE])
            /\ Noted(adm[a].m, Untuned)
        BY <2>7 DEF UnlockModel
      <3>2. adm[a].m # m \/ m \notin DOMAIN model
        BY <1>0, <3>1 DEF Noted, Untuned, NotesTyped
      <3>3. tuned'[m] = tuned[m]
        BY <1>0, <3>1, <3>2 DEF Noted, NotesTyped
      <3>4. Stands(m)
        BY <1>0, <3>3
      <3>5. m \in DOMAIN model' /\ model'[m] = model[m]
        BY <3>1, <3>2, <3>4 DEF Updated, Put, Stands
      <3> QED BY <3>1, <3>3, <3>4, <3>5, SyncsStay DEF Stands
    <2>8. CASE UpdateModel(a)
      <3>1. PICK d \in DATA, on \in BOOLEAN :
              /\ Updated(adm[a].m, [model[adm[a].m] EXCEPT !.data = d, !.enabled = on, !.locked = TRUE])
              /\ Noted(adm[a].m, [saved |-> TRUE, data |-> d, alone |-> SyncsInFlight(adm[a].m) = {}])
              /\ Bump(a)
        BY <2>8 DEF UpdateModel
      <3>2. CASE adm[a].m # m \/ m \notin DOMAIN model
        <4>1. tuned'[m] = tuned[m]
          BY <1>0, <3>1, <3>2 DEF Noted, NotesTyped
        <4>2. Stands(m)
          BY <1>0, <4>1
        <4>3. m \in DOMAIN model' /\ model'[m] = model[m]
          BY <3>1, <3>2, <4>2 DEF Updated, Put, Stands
        <4> QED BY <3>1, <4>1, <4>2, <4>3, SyncsStay DEF Stands
      <3>3. CASE adm[a].m = m /\ m \in DOMAIN model
        <4>1. tuned'[m] = [saved |-> TRUE, data |-> d, alone |-> SyncsInFlight(m) = {}]
          BY <1>0, <3>1, <3>3 DEF Noted, NotesTyped
        <4>2. SyncsInFlight(m) = {}
          <5> DEFINE alone == SyncsInFlight(m) = {}
          <5>1. tuned'[m] = [saved |-> TRUE, data |-> d, alone |-> alone]
            BY <4>1
          <5> HIDE DEF alone
          <5>2. tuned'[m].alone = alone
            BY <5>1
          <5>3. tuned'[m].alone
            OBVIOUS
          <5>4. alone
            BY <5>2, <5>3
          <5> QED BY <5>4 DEF alone
        <4>3. model[m] \in Row
          BY <1>0, <3>3, InTable
        <4>4. m \in DOMAIN model' /\ model'[m].data = d /\ model'[m].locked
          BY <3>1, <3>3, <4>3 DEF Updated, Put, Row
        <4> QED BY <3>1, <4>1, <4>2, <4>4, SyncsStay DEF Stands
      <3> QED BY <3>2, <3>3
    <2> QED BY <1>4, <2>1, <2>2, <2>3, <2>4, <2>5, <2>6, <2>7, <2>8 DEF AdminCall, AdminStep
  <1> QED BY <1>2, <1>3, <1>4 DEF Next

\* No sync overwrites what an admin saved while none was under way, until
\* somebody unlocks the row (the test of `locked` in SyncModelFromModelsDev
\* and the `locked` that every save sets).
THEOREM TunedStands == Spec => []TunedDataStands
  <1>1. Init => TunedInv
    BY DEF Init, TunedInv, Untuned
  <1>2. TunedInv => TunedDataStands
    BY DEF TunedInv, Stands, TunedDataStands
  <1> QED BY <1>1, <1>2, TypeInvariant, TunedIsKept, PTL DEF Spec

(***************************************************************************)
(* Freshness. A version is current if it is the stored one of an announced *)
(* catalog, or the one a calm request carries: it may have been replaced   *)
(* since, or never have been stored. Whatever bears a current version --   *)
(* the snapshot, a client's copy, a handler's reads -- is the catalog.     *)
(***************************************************************************)
Current(v) ==
  \/ version = v /\ v # Absent /\ ~unannounced
  \/ \E c \in CLIENTS : calm[c] /\ req[c].at \in Serving /\ req[c].ver = v

ReadsAgree(r) ==
  /\ r.at = "models" => r.providers = Content.providers
  /\ r.at = "store" => r.providers = Content.providers /\ r.models = Content.models

Agrees(v) ==
  /\ cache.ver = v /\ cache.fresh => cache.content = Content
  /\ \A c \in CLIENTS : held[c].etag = v => held[c].content = Content
  /\ \A c \in CALLERS : req[c].ver = v => ReadsAgree(req[c])

FreshInv == \A v \in Versions : Current(v) => Agrees(v)

LEMMA InitFresh == Init => FreshInv
  <1> SUFFICES ASSUME Init, NEW v \in Versions, Current(v)
               PROVE  Agrees(v)
    BY DEF FreshInv
  <1>1. version = v /\ v = 2
    BY DEF Init, Current, Nobody
  <1> QED BY <1>1 DEF Init, Agrees, ReadsAgree, NoSnapshot, NoRequest, Absent, Unread

\* After a change nothing is current.
LEMMA SpoiledIsFresh ==
  ASSUME Spoiled
  PROVE  FreshInv'
  BY DEF Spoiled, Nobody, FreshInv, Current

LEMMA QuietIsFresh ==
  ASSUME FreshInv, UNCHANGED <<serving, version, unannounced, calm>>, Content' = Content
  PROVE  FreshInv'
  BY DEF FreshInv, Current, Agrees, ReadsAgree, serving

LEMMA SameTables ==
  ASSUME UNCHANGED tables
  PROVE  Content' = Content
  BY DEF tables, Content, Shown, ModelsOf

LEMMA TokensAreNew ==
  /\ Token \in Versions
  /\ version # Token /\ cache.ver # Token
  /\ \A c \in CALLERS : req[c].ver # Token
  /\ \A c \in CLIENTS : held[c].etag # Token
  BY FreshToken DEF Known, Versions

\* A bump finds nobody with its token.
LEMMA BumpsAreFresh ==
  ASSUME TypeInv, FreshInv, UNCHANGED <<tables, serving, calm>>,
         version' = Token
  PROVE  FreshInv'
  <1> SUFFICES ASSUME NEW v \in Versions, Current(v)'
               PROVE  Agrees(v)'
    BY DEF FreshInv
  <1>1. Content' = Content
    BY SameTables
  <1>2. CASE v = Token
    BY <1>2, TokensAreNew DEF Agrees, serving
  <1>3. CASE v # Token
    <2>1. Current(v)
      BY <1>3 DEF Current, serving
    <2>2. Agrees(v)
      BY <2>1 DEF FreshInv
    <2> QED BY <1>1, <2>2 DEF Agrees, ReadsAgree, serving
  <1> QED BY <1>2, <1>3

LEMMA AdminKeepsFresh ==
  ASSUME TypeInv, FreshInv, NEW a \in ADMINS,
         AdminCall(a) \/ AdminStep(a) \/ WriteFails(a) \/ BumpFails(a)
  PROVE  FreshInv'
  <1>1. CASE \/ FindProvider(a) \/ FindModel(a) \/ ChangeRouting(a) \/ ReadSlug(a) \/ FetchFails(a)
             \/ FindNoVersion(a) \/ WriteFails(a) \/ BumpFails(a)
    <2>1. UNCHANGED <<tables, serving, version, unannounced, calm>>
      BY <1>1 DEF FindProvider, FindModel, ChangeRouting, ReadSlug, FetchFails, FindNoVersion,
             WriteFails, BumpFails
    <2> QED BY <2>1, SameTables, QuietIsFresh
  <1>2. CASE \/ CreateProvider(a) \/ PurgeModels(a) \/ DeleteModel(a) \/ SyncModel(a)
             \/ UpdateProvider(a) \/ DeleteProvider(a) \/ CreateModel(a) \/ UpdateModel(a)
             \/ UnlockModel(a)
    <2>1. UNCHANGED <<serving, version>> /\ Wrote
      BY <1>2 DEF CreateProvider, PurgeModels, DeleteModel, SyncModel, UpdateProvider,
             DeleteProvider, CreateModel, UpdateModel, UnlockModel
    <2> QED BY <2>1, QuietIsFresh, SpoiledIsFresh DEF Wrote
  <1>3. CASE RenewVersion(a) \/ InsertVersion(a)
    <2>1. /\ UNCHANGED <<tables, serving, calm>>
          /\ version' = Token \/ UNCHANGED <<version, unannounced>>
      BY <1>3 DEF RenewVersion, InsertVersion
    <2> QED BY <2>1, BumpsAreFresh, SameTables, QuietIsFresh
  <1> QED BY <1>1, <1>2, <1>3 DEF AdminCall, AdminStep

\* One request moves on: no version becomes current by that.
LEMMA NothingNewIsCurrent ==
  ASSUME TypeInv, NEW c \in CALLERS, NEW r, req' = [req EXCEPT ![c] = r],
         UNCHANGED <<version, unannounced>>,
         \A d \in CLIENTS : calm'[d] => calm[d],
         c \in CLIENTS /\ calm[c] /\ r.at \in Serving => req[c].at \in Serving /\ r.ver = req[c].ver,
         NEW v, Current(v)'
  PROVE  Current(v)
  <1>1. CASE version' = v /\ v # Absent /\ ~unannounced'
    BY <1>1 DEF Current
  <1>2. CASE \E d \in CLIENTS : calm'[d] /\ req'[d].at \in Serving /\ req'[d].ver = v
    <2>1. PICK d \in CLIENTS : calm'[d] /\ req'[d].at \in Serving /\ req'[d].ver = v
      BY <1>2
    <2>2. req'[d] = IF d = c THEN r ELSE req[d]
      BY DEF TypeInv, ServingTyped, CALLERS
    <2>3. calm[d] /\ req[d].at \in Serving /\ req[d].ver = v
      BY <2>1, <2>2
    <2> QED BY <2>3 DEF Current
  <1> QED BY <1>1, <1>2 DEF Current

\* Its own reads, if they bear a current version, are of the catalog.
LEMMA RequestsStayFresh ==
  ASSUME TypeInv, FreshInv, NEW c \in CALLERS, NEW r, req' = [req EXCEPT ![c] = r],
         UNCHANGED <<tables, version, unannounced, cache, held>>,
         \A d \in CLIENTS : calm'[d] => calm[d],
         c \in CLIENTS /\ calm[c] /\ r.at \in Serving => req[c].at \in Serving /\ r.ver = req[c].ver,
         \/ r.at \notin {"models", "store"}
         \/ r.ver = req[c].ver /\ (ReadsAgree(req[c]) => ReadsAgree(r))
  PROVE  FreshInv'
  <1> SUFFICES ASSUME NEW v \in Versions, Current(v)'
               PROVE  Agrees(v)'
    BY DEF FreshInv
  <1>1. Current(v)
    BY NothingNewIsCurrent
  <1>2. Agrees(v)
    BY <1>1 DEF FreshInv
  <1>3. Content' = Content
    BY SameTables
  <1>4. ASSUME NEW d \in CALLERS, req'[d].ver = v
        PROVE  ReadsAgree(req[d])'
    <2>1. req'[d] = IF d = c THEN r ELSE req[d]
      BY DEF TypeInv, ServingTyped
    <2>2. ReadsAgree(req'[d])
      <3>1. r.at \notin {"models", "store"} => ReadsAgree(r)
        BY DEF ReadsAgree
      <3> QED BY <1>2, <1>4, <2>1, <3>1 DEF Agrees
    <2> QED BY <1>3, <2>2 DEF ReadsAgree
  <1> QED BY <1>2, <1>3, <1>4 DEF Agrees

LEMMA CallersKeepFresh ==
  ASSUME TypeInv, FreshInv, NEW c \in CALLERS,
         CallerStep(c) \/ PollVersion(c) \/ ReadVersionFails(c) \/ QueryFails(c)
  PROVE  FreshInv'
  <1>0. req[c] \in Requests /\ req \in [CALLERS -> Requests]
    BY DEF TypeInv, ServingTyped
  <1>1. CASE ReadVersion(c)
    <2> DEFINE r == [req[c] EXCEPT !.at = IF version = Absent THEN "create" ELSE "lookup",
                                   !.ver = version]
    <2>1. r.at \in {"create", "lookup"} /\ r.ver = version /\ (r.at = "lookup" => version # Absent)
      BY <1>0 DEF Requests
    <2>2. req' = [req EXCEPT ![c] = r]
      BY <1>1 DEF ReadVersion
    <2>3. UNCHANGED <<tables, version, cache, held, unannounced>>
      BY <1>1 DEF ReadVersion
    <2> HIDE DEF r
    <2> SUFFICES ASSUME NEW v \in Versions, Current(v)'
                 PROVE  Agrees(v)'
      BY DEF FreshInv
    <2>4. Current(v)
      <3>1. CASE version' = v /\ v # Absent /\ ~unannounced'
        BY <2>3, <3>1 DEF Current
      <3>2. CASE \E d \in CLIENTS : calm'[d] /\ req'[d].at \in Serving /\ req'[d].ver = v
        <4>1. PICK d \in CLIENTS : calm'[d] /\ req'[d].at \in Serving /\ req'[d].ver = v
          BY <3>2
        <4>2. req'[d] = IF d = c THEN r ELSE req[d]
          BY <1>0, <2>2 DEF CALLERS
        <4>3. calm'[d] = IF d = c THEN ~unannounced ELSE calm[d]
          BY <1>1 DEF ReadVersion
        <4>4. CASE d = c
          <5>1. r.at \in Serving /\ r.ver = v
            BY <4>1, <4>2, <4>4
          <5>2. version = v /\ version # Absent
            BY <2>1, <5>1 DEF Serving
          <5>3. ~unannounced
            BY <4>1, <4>3, <4>4
          <5> QED BY <5>2, <5>3 DEF Current
        <4>5. CASE d # c
          BY <4>1, <4>2, <4>3, <4>5 DEF Current
        <4> QED BY <4>4, <4>5
      <3> QED BY <3>1, <3>2 DEF Current
    <2>5. Agrees(v)
      BY <2>4 DEF FreshInv
    <2>6. ASSUME NEW d \in CALLERS, req'[d].ver = v
          PROVE  ReadsAgree(req[d])'
      <3>1. req'[d] = IF d = c THEN r ELSE req[d]
        BY <1>0, <2>2
      <3>2. Content' = Content
        BY <2>3, SameTables
      <3> QED BY <2>1, <2>5, <2>6, <3>1, <3>2 DEF Agrees, ReadsAgree
    <2>7. Content' = Content
      BY <2>3, SameTables
    <2> QED BY <2>3, <2>5, <2>6, <2>7 DEF Agrees
  <1>2. CASE ReadVersionFails(c)
    <2> DEFINE r == [req[c] EXCEPT !.at = "lookup", !.ver = Unread]
    <2>1. r.at \notin {"models", "store"}
      BY <1>0 DEF Requests
    <2>2. c \in CLIENTS => ~calm[c]
      BY <1>2 DEF ReadVersionFails, TypeInv, Serves, Serving
    <2>3. req' = [req EXCEPT ![c] = r] /\ UNCHANGED <<tables, version, unannounced, cache, held, calm>>
      BY <1>2 DEF ReadVersionFails
    <2> HIDE DEF r
    <2> QED BY <2>1, <2>2, <2>3, RequestsStayFresh
  <1>3. CASE PollVersion(c)
    <2> DEFINE r == [req[c] EXCEPT !.at = "poll"]
    <2>1. r.at = "poll"
      BY <1>0 DEF Requests
    <2>2. req' = [req EXCEPT ![c] = r] /\ UNCHANGED <<tables, version, unannounced, cache, held, calm>>
      BY <1>3 DEF PollVersion, Step
    <2> HIDE DEF r
    <2> QED BY <2>1, <2>2, RequestsStayFresh DEF Serving
  <1>4. CASE CreateVersion(c)
    <2> DEFINE r == IF req[c].at = "poll" THEN NoRequest
                    ELSE [req[c] EXCEPT !.at = "lookup", !.ver = Token]
    <2>1. r.at \in {"idle", "lookup"} /\ (r.at = "lookup" => r.ver = Token)
      BY <1>0 DEF Requests, NoRequest
    <2>2. /\ req' = [req EXCEPT ![c] = r] /\ UNCHANGED <<tables, cache, held, calm>>
          /\ version' = Token \/ UNCHANGED <<version, unannounced>>
      BY <1>4 DEF CreateVersion
    <2> HIDE DEF r
    <2> SUFFICES ASSUME NEW v \in Versions, Current(v)'
                 PROVE  Agrees(v)'
      BY DEF FreshInv
    <2>3. \A d \in CALLERS : req'[d] = IF d = c THEN r ELSE req[d]
      BY <1>0, <2>2
    <2>4. Content' = Content
      BY <2>2, SameTables
    <2>5. CASE v = Token
      <3>1. ASSUME NEW d \in CALLERS, req'[d].ver = v
            PROVE  ReadsAgree(req[d])'
        BY <2>1, <2>3, <2>5, <3>1, TokensAreNew DEF ReadsAgree
      <3> QED BY <2>2, <2>5, <3>1, TokensAreNew DEF Agrees
    <2>6. CASE v # Token
      <3>1. Current(v)
        <4>1. CASE version' = v /\ v # Absent /\ ~unannounced'
          BY <2>2, <2>6, <4>1 DEF Current
        <4>2. CASE \E d \in CLIENTS : calm'[d] /\ req'[d].at \in Serving /\ req'[d].ver = v
          <5>1. PICK d \in CLIENTS : calm'[d] /\ req'[d].at \in Serving /\ req'[d].ver = v
            BY <4>2
          <5>2. d # c
            BY <2>1, <2>3, <2>6, <5>1 DEF Serving
          <5> QED BY <2>2, <2>3, <5>1, <5>2 DEF Current, CALLERS
        <4> QED BY <4>1, <4>2 DEF Current
      <3>2. Agrees(v)
        BY <3>1 DEF FreshInv
      <3>3. ASSUME NEW d \in CALLERS, req'[d].ver = v
            PROVE  ReadsAgree(req[d])'
        BY <2>1, <2>3, <2>4, <3>2, <3>3 DEF Agrees, ReadsAgree
      <3> QED BY <2>2, <2>4, <3>2, <3>3 DEF Agrees
    <2> QED BY <2>5, <2>6
  <1>5. CASE Miss(c)
    <2> DEFINE r == [req[c] EXCEPT !.at = "providers"]
    <2>1. r.at = "providers" /\ r.ver = req[c].ver
      BY <1>0 DEF Requests
    <2>2. req[c].at \in Serving
      BY <1>5 DEF Miss, Serving
    <2>3. req' = [req EXCEPT ![c] = r] /\ UNCHANGED <<tables, version, unannounced, cache, held, calm>>
      BY <1>5 DEF Miss, Step
    <2> HIDE DEF r
    <2> QED BY <2>1, <2>2, <2>3, RequestsStayFresh
  <1>6. CASE ReadProviders(c)
    <2> DEFINE r == [req[c] EXCEPT !.providers = Shown, !.at = IF Shown = {} THEN "store" ELSE "models"]
    <2>1. r.ver = req[c].ver /\ r.providers = Shown /\ r.models = req[c].models
          /\ r.at = IF Shown = {} THEN "store" ELSE "models"
      BY <1>0 DEF Requests
    <2>2. req[c].at \in Serving /\ req[c].models = {}
      BY <1>6 DEF ReadProviders, Serving, TypeInv, Serves
    <2>3. req' = [req EXCEPT ![c] = r] /\ UNCHANGED <<tables, version, unannounced, cache, held, calm>>
      BY <1>6 DEF ReadProviders
    <2>4. ReadsAgree(r)
      <3>1. Shown = {} => ModelsOf(Shown) = {}
        BY DEF ModelsOf
      <3> HIDE DEF r
      <3> QED BY <2>1, <2>2, <3>1 DEF ReadsAgree, Content
    <2> HIDE DEF r
    <2> QED BY <2>1, <2>2, <2>3, <2>4, RequestsStayFresh
  <1>7. CASE ReadModels(c)
    <2> DEFINE r == [req[c] EXCEPT !.models = ModelsOf(req[c].providers), !.at = "store"]
    <2>1. r.ver = req[c].ver /\ r.providers = req[c].providers /\ r.models = ModelsOf(req[c].providers)
          /\ r.at = "store"
      BY <1>0 DEF Requests
    <2>2. req[c].at \in Serving /\ req[c].at = "models"
      BY <1>7 DEF ReadModels, Serving
    <2>3. req' = [req EXCEPT ![c] = r] /\ UNCHANGED <<tables, version, unannounced, cache, held, calm>>
      BY <1>7 DEF ReadModels
    <2>4. ReadsAgree(req[c]) => ReadsAgree(r)
      BY <2>1, <2>2 DEF ReadsAgree, Content
    <2> HIDE DEF r
    <2> QED BY <2>1, <2>2, <2>3, <2>4, RequestsStayFresh
  <1>8. CASE QueryFails(c)
    BY <1>8, SpoiledIsFresh DEF QueryFails
  <1>9. CASE FromCache(c) \/ Store(c)
    <2>1. PICK ver, content :
            /\ Reply(c, ver, content)
            /\ \/ UNCHANGED cache /\ cache.fresh /\ ver = cache.ver /\ content = cache.content
               \/ /\ cache' = [ver |-> ver, content |-> content, fresh |-> TRUE]
                  /\ req[c].at = "store" /\ ver = req[c].ver
                  /\ content = [providers |-> req[c].providers, models |-> req[c].models]
      BY <1>9 DEF FromCache, Store, Hit
    <2>2. UNCHANGED <<tables, version, unannounced>> /\ req' = [req EXCEPT ![c] = NoRequest]
      BY <1>9 DEF FromCache, Store, Reply
    <2>3. \A d \in CLIENTS : calm'[d] => calm[d]
      BY <2>1 DEF Reply, TypeInv, MarksTyped
    <2>4. NoRequest.at = "idle"
      BY DEF NoRequest
    <2> SUFFICES ASSUME NEW v \in Versions, Current(v)'
                 PROVE  Agrees(v)'
      BY DEF FreshInv
    <2>5. Current(v)
      BY <2>2, <2>3, <2>4, NothingNewIsCurrent DEF Serving
    <2>6. Agrees(v)
      BY <2>5 DEF FreshInv
    <2>7. Content' = Content
      BY <2>2, SameTables
    <2>8. ver = v => content = Content
      BY <2>1, <2>6 DEF Agrees, ReadsAgree, Content
    <2>9. ASSUME NEW d \in CALLERS, req'[d].ver = v
          PROVE  ReadsAgree(req[d])'
      <3>1. req'[d] = IF d = c THEN NoRequest ELSE req[d]
        BY <1>0, <2>2
      <3> QED BY <2>4, <2>6, <2>7, <2>9, <3>1 DEF Agrees, ReadsAgree
    <2>10. cache'.ver = v /\ cache'.fresh => cache'.content = Content
      BY <2>1, <2>6, <2>8 DEF Agrees
    <2>11. ASSUME NEW d \in CLIENTS, held'[d].etag = v
           PROVE  held'[d].content = Content
      BY <2>1, <2>6, <2>8, <2>11 DEF Agrees, Reply, TypeInv, ServingTyped
    <2> QED BY <2>7, <2>9, <2>10, <2>11 DEF Agrees
  <1> QED BY <1>1, <1>2, <1>3, <1>4, <1>5, <1>6, <1>7, <1>8, <1>9 DEF CallerStep

LEMMA FreshIsKept == TypeInv /\ FreshInv /\ [Next]_vars => FreshInv'
  <1> SUFFICES ASSUME TypeInv, FreshInv, [Next]_vars
               PROVE  FreshInv'
    OBVIOUS
  <1>1. CASE Expire
    <2>1. Content' = Content
      BY <1>1, SameTables DEF Expire
    <2> QED BY <1>1, <2>1 DEF Expire, NoSnapshot, FreshInv, Current, Agrees, ReadsAgree
  <1>2. CASE UNCHANGED vars
    <2>1. UNCHANGED <<tables, serving, version, unannounced, calm>>
      BY <1>2 DEF vars, tables, serving
    <2> QED BY <2>1, SameTables, QuietIsFresh
  <1> QED BY <1>1, <1>2, AdminKeepsFresh, CallersKeepFresh DEF Next

\* While the catalog is announced, the snapshot and the clients' copies with
\* the stored version hold it: the ETag of ListProviders hides no change that
\* bumpCatalogVersion announced.
THEOREM CurrentIsCurrent == Spec => []CurrentVersionIsCurrent
  <1>1. TypeInv /\ FreshInv => CurrentVersionIsCurrent
    <2> SUFFICES ASSUME TypeInv, FreshInv, version # Absent, ~unannounced
                 PROVE  Agrees(version)
      BY DEF Agrees, CurrentVersionIsCurrent
    <2>1. version \in Versions /\ Current(version)
      BY DEF TypeInv, VersionTyped, Versions, Current
    <2> QED BY <2>1 DEF FreshInv
  <1> QED BY <1>1, TypeInvariant, InitFresh, FreshIsKept, PTL DEF Spec

(***************************************************************************)
(* Refinement. A calm request's version is current, so what answers it --  *)
(* the snapshot, its own reads, or the copy that a 304 confirms -- is the  *)
(* catalog.                                                                *)
(***************************************************************************)
HeldContents == [c \in CLIENTS |-> held[c].content]

LEMMA InitFollows == Init => Fresh!Init
  BY DEF Init, Fresh!Init, Nobody, Fresh!Nobody

\* The promise keeps quiet about what changes only the serving side.
Stutters == UNCHANGED <<unannounced, calm, HeldContents>> /\ Content' = Content

LEMMA WritesFollow ==
  ASSUME Wrote, UNCHANGED serving
  PROVE  Stutters \/ Fresh!Disturb
  BY DEF Wrote, Spoiled, serving, Stutters, HeldContents, Fresh!Disturb, Nobody, Fresh!Nobody

LEMMA BumpsFollow ==
  ASSUME TypeInv, UNCHANGED <<tables, held, calm>>, unannounced' = FALSE \/ UNCHANGED unannounced
  PROVE  Stutters \/ Fresh!Announce
  BY SameTables DEF Stutters, HeldContents, Fresh!Announce

LEMMA AdminFollows ==
  ASSUME TypeInv, NEW a \in ADMINS,
         AdminCall(a) \/ AdminStep(a) \/ WriteFails(a) \/ BumpFails(a)
  PROVE  Stutters \/ Fresh!Next
  <1>1. CASE \/ FindProvider(a) \/ FindModel(a) \/ ChangeRouting(a) \/ ReadSlug(a) \/ FetchFails(a)
             \/ FindNoVersion(a) \/ WriteFails(a) \/ BumpFails(a)
    <2>1. UNCHANGED <<tables, serving, unannounced, calm>>
      BY <1>1 DEF FindProvider, FindModel, ChangeRouting, ReadSlug, FetchFails, FindNoVersion,
             WriteFails, BumpFails
    <2> QED BY <2>1, SameTables DEF Stutters, HeldContents, serving
  <1>2. CASE \/ CreateProvider(a) \/ PurgeModels(a) \/ DeleteModel(a) \/ SyncModel(a)
             \/ UpdateProvider(a) \/ DeleteProvider(a) \/ CreateModel(a) \/ UpdateModel(a)
             \/ UnlockModel(a)
    <2>1. UNCHANGED serving /\ Wrote
      BY <1>2 DEF CreateProvider, PurgeModels, DeleteModel, SyncModel, UpdateProvider,
             DeleteProvider, CreateModel, UpdateModel, UnlockModel
    <2> QED BY <2>1, WritesFollow DEF Fresh!Next
  <1>3. CASE RenewVersion(a) \/ InsertVersion(a)
    <2>1. UNCHANGED <<tables, held, calm>> /\ (unannounced' = FALSE \/ UNCHANGED unannounced)
      BY <1>3 DEF RenewVersion, InsertVersion, serving
    <2> QED BY <2>1, BumpsFollow DEF Fresh!Next
  <1> QED BY <1>1, <1>2, <1>3 DEF AdminCall, AdminStep

LEMMA RepliesFollow ==
  ASSUME TypeInv, NEW c \in CALLERS, NEW ver, NEW content, Reply(c, ver, content),
         UNCHANGED <<tables, unannounced>>,
         c \in CLIENTS /\ calm[c] =>
           content = Content /\ (held[c].etag = ver => held[c].content = Content)
  PROVE  Stutters \/ Fresh!Next
  <1>0. Content' = Content
    BY SameTables
  <1>1. CASE c \in OTHERS
    BY <1>0, <1>1 DEF Reply, Stutters, HeldContents
  <1>2. CASE c \in CLIENTS
    <2>1. c \notin OTHERS /\ held \in [CLIENTS -> Copies]
      BY <1>2, CatalogAssumption DEF TypeInv, ServingTyped
    <2>2. HeldContents' = [HeldContents EXCEPT ![c] = HeldContents'[c]]
      BY <1>2, <2>1 DEF Reply, HeldContents
    <2>3. calm[c] => HeldContents'[c] = Content
      BY <1>2, <2>1 DEF Reply, HeldContents
    <2>4. calm' = [calm EXCEPT ![c] = FALSE]
      BY <2>1 DEF Reply
    <2>5. Fresh!Answer(c)
      BY <1>0, <2>2, <2>3, <2>4 DEF Fresh!Answer, HeldContents
    <2> QED BY <1>2, <2>5 DEF Fresh!Next
  <1> QED BY <1>1, <1>2 DEF CALLERS

LEMMA CallersFollow ==
  ASSUME TypeInv, FreshInv, NEW c \in CALLERS,
         CallerStep(c) \/ PollVersion(c) \/ ReadVersionFails(c) \/ QueryFails(c)
  PROVE  Stutters \/ Fresh!Next
  <1>1. CASE ReadVersion(c)
    <2>1. UNCHANGED <<tables, held, unannounced>> /\ calm \in [CLIENTS -> BOOLEAN]
      BY <1>1 DEF ReadVersion, TypeInv, MarksTyped
    <2>2. calm' = [d \in CLIENTS |-> IF d = c THEN ~unannounced ELSE calm[d]]
      BY <1>1 DEF ReadVersion
    <2>3. CASE c \in CLIENTS
      <3>1. calm' = [calm EXCEPT ![c] = ~unannounced]
        BY <2>1, <2>2
      <3> QED BY <2>1, <2>3, <3>1, SameTables DEF Fresh!Next, Fresh!Ask
    <2>4. CASE c \notin CLIENTS
      <3>1. calm' = calm
        BY <2>1, <2>2, <2>4
      <3> QED BY <2>1, <3>1, SameTables DEF Stutters, HeldContents
    <2> QED BY <2>3, <2>4
  <1>2. CASE \/ ReadVersionFails(c) \/ PollVersion(c) \/ Miss(c) \/ ReadProviders(c) \/ ReadModels(c)
    <2>1. UNCHANGED <<tables, held, unannounced, calm>>
      BY <1>2 DEF ReadVersionFails, PollVersion, Miss, ReadProviders, ReadModels
    <2> QED BY <2>1, SameTables DEF Stutters, HeldContents
  <1>3. CASE CreateVersion(c)
    <2>1. UNCHANGED <<tables, held, calm>> /\ (unannounced' = FALSE \/ UNCHANGED unannounced)
      BY <1>3 DEF CreateVersion
    <2> QED BY <2>1, BumpsFollow DEF Fresh!Next
  <1>4. CASE QueryFails(c)
    BY <1>4 DEF QueryFails, Spoiled, Nobody, Fresh!Next, Fresh!Disturb, Fresh!Nobody
  <1>5. CASE FromCache(c) \/ Store(c)
    <2>1. PICK ver, content :
            /\ Reply(c, ver, content)
            /\ ver = req[c].ver /\ req[c].at \in Serving
            /\ \/ cache.fresh /\ ver = cache.ver /\ content = cache.content
               \/ /\ req[c].at = "store"
                  /\ content = [providers |-> req[c].providers, models |-> req[c].models]
      BY <1>5 DEF FromCache, Store, Hit, Serving
    <2>2. UNCHANGED <<tables, unannounced>>
      BY <1>5 DEF FromCache, Store
    <2>3. ASSUME c \in CLIENTS, calm[c]
          PROVE  content = Content /\ (held[c].etag = ver => held[c].content = Content)
      <3>1. ver \in Versions /\ Current(ver)
        BY <2>1, <2>3 DEF Current, TypeInv, ServingTyped, Requests
      <3>2. Agrees(ver)
        BY <3>1 DEF FreshInv
      <3> QED BY <2>1, <2>3, <3>2 DEF Agrees, ReadsAgree, Content
    <2> QED BY <2>1, <2>2, <2>3, RepliesFollow
  <1> QED BY <1>1, <1>2, <1>3, <1>4, <1>5 DEF CallerStep

LEMMA StepsFollow ==
  TypeInv /\ FreshInv /\ [Next]_vars => Stutters \/ Fresh!Next
  <1> SUFFICES ASSUME TypeInv, FreshInv, [Next]_vars
               PROVE  Stutters \/ Fresh!Next
    OBVIOUS
  <1>1. CASE Expire \/ UNCHANGED vars
    <2>1. UNCHANGED <<tables, held, unannounced, calm>>
      BY <1>1 DEF Expire, vars, tables
    <2> QED BY <2>1, SameTables DEF Stutters, HeldContents
  <1> QED BY <1>1, AdminFollows, CallersFollow DEF Next

\* The tables, bumps, snapshot and ETags together keep FreshCatalog's promise,
\* with any statement failing: a request that begins with the catalog announced
\* and meets no change ends with its client holding the catalog.
THEOREM CatalogIsFresh == Spec => FreshCatalogSpec
  <1>1. TypeInv /\ FreshInv /\ [Next]_vars => [Fresh!Next]_(Fresh!vars)
    BY StepsFollow DEF Stutters, Fresh!vars, HeldContents
  <1> QED BY <1>1, InitFollows, TypeInvariant, InitFresh, FreshIsKept, PTL
      DEF Spec, FreshCatalogSpec, Fresh!Spec

-----------------------------------------------------------------------------
(***************************************************************************)
(* The modes of a provider row. For flat fields and stored rows with       *)
(* members of any set V in them; "nil" stands for what is absent.          *)
(***************************************************************************)
AnyFlatBody(V) ==
  [auth : V \ {Nil}, url : V \ {Nil}, docs : V \ {Nil}, oauth : V, keys : V,
   shared : {Nil, Yes, No}]
AnyRow(V) ==
  [apiOn : {Yes, No}, apiUrl : V, apiDocs : V, apiKeys : V, apiShared : {Yes, No},
   monthlyOn : {Yes, No}, monthlyAuth : V, monthlyUrl : V, monthlyDocs : V, monthlyOauth : V]

\* What the row says after a flat body of an API-key provider.
LEMMA ApiFieldsApplied ==
  ASSUME NEW V, NEW b \in AnyFlatBody(V), ~Silent(b), ~IsMonthly(b.auth), NEW row
  PROVE  LET new == Apply(row, NormalizeLegacy(b, NoMode, NoMode)) IN
         /\ new.apiOn = Yes
         /\ b.url # Blank => new.apiUrl = b.url
         /\ b.docs # Blank => new.apiDocs = b.docs
         /\ b.keys # Nil => new.apiKeys = Encoded(b.keys)
         /\ b.shared # Nil => new.apiShared = b.shared
         /\ new.monthlyOn = row.monthlyOn
  <1> DEFINE a == [Flat(b, NoMode) EXCEPT !.keys = Or(b.keys, Nil, @), !.shared = Or(b.shared, Nil, @)]
             modes == NormalizeLegacy(b, NoMode, NoMode)
             new == Apply(row, modes)
  <1>1. modes = [api |-> a, monthly |-> NoMode]
    BY DEF NormalizeLegacy
  <1>2. /\ a.on = Yes /\ a.url = Or(b.url, Blank, Nil) /\ a.docs = Or(b.docs, Blank, Nil)
        /\ a.keys = Or(b.keys, Nil, Nil) /\ a.shared = Or(b.shared, Nil, Nil)
    BY DEF Flat, NoMode
  <1>3. modes.api = a /\ modes.monthly.on = Nil
    BY <1>1 DEF NoMode
  <1> HIDE DEF a, modes
  <1>4. /\ new.apiOn = Or(a.on, Nil, row.apiOn) /\ new.apiUrl = Or(a.url, Nil, row.apiUrl)
        /\ new.apiDocs = Or(a.docs, Nil, row.apiDocs)
        /\ new.apiKeys = (IF a.keys = Nil THEN row.apiKeys ELSE Encoded(a.keys))
        /\ new.apiShared = Or(a.shared, Nil, row.apiShared)
        /\ new.monthlyOn = Or(modes.monthly.on, Nil, row.monthlyOn)
    BY <1>3 DEF Apply
  <1> HIDE DEF new
  <1>5. b.url # Nil /\ b.docs # Nil /\ Yes # Nil
    BY DEF AnyFlatBody, Yes, Nil
  <1> QED BY <1>2, <1>3, <1>4, <1>5 DEF Or, modes, new

\* And after one of a monthly plan.
LEMMA MonthlyFieldsApplied ==
  ASSUME NEW V, NEW b \in AnyFlatBody(V), ~Silent(b), IsMonthly(b.auth), NEW row
  PROVE  LET new == Apply(row, NormalizeLegacy(b, NoMode, NoMode)) IN
         /\ new.monthlyOn = Yes /\ new.monthlyAuth = b.auth
         /\ b.url # Blank => new.monthlyUrl = b.url
         /\ b.docs # Blank => new.monthlyDocs = b.docs
         /\ b.oauth # Nil => new.monthlyOauth = b.oauth
         /\ new.apiOn = row.apiOn
  <1> DEFINE m == [Flat(b, NoMode) EXCEPT !.auth = b.auth, !.oauth = Or(b.oauth, Nil, @)]
             modes == NormalizeLegacy(b, NoMode, NoMode)
             new == Apply(row, modes)
  <1>1. modes = [api |-> NoMode, monthly |-> m]
    BY DEF NormalizeLegacy
  <1>2. /\ m.on = Yes /\ m.url = Or(b.url, Blank, Nil) /\ m.docs = Or(b.docs, Blank, Nil)
        /\ m.auth = b.auth /\ m.oauth = Or(b.oauth, Nil, Nil)
    BY DEF Flat, NoMode
  <1>3. modes.monthly = m /\ modes.api.on = Nil
    BY <1>1 DEF NoMode
  <1> HIDE DEF m, modes
  <1>4. /\ new.monthlyOn = Or(m.on, Nil, row.monthlyOn) /\ new.monthlyAuth = Or(m.auth, Nil, row.monthlyAuth)
        /\ new.monthlyUrl = Or(m.url, Nil, row.monthlyUrl)
        /\ new.monthlyDocs = Or(m.docs, Nil, row.monthlyDocs)
        /\ new.monthlyOauth = Or(m.oauth, Nil, row.monthlyOauth)
        /\ new.apiOn = Or(modes.api.on, Nil, row.apiOn)
    BY <1>3 DEF Apply
  <1> HIDE DEF new
  <1>5. b.url # Nil /\ b.docs # Nil /\ b.auth # Nil /\ Yes # Nil
    BY DEF AnyFlatBody, Yes, Nil
  <1> QED BY <1>2, <1>3, <1>4, <1>5 DEF Or, modes, new

LEMMA MirrorOfApi ==
  ASSUME NEW row, row.apiOn = Yes
  PROVE  /\ Mirror(row).auth = "api_key" /\ Mirror(row).url = row.apiUrl
         /\ Mirror(row).docs = row.apiDocs /\ Mirror(row).keys = row.apiKeys
         /\ Mirror(row).shared = row.apiShared
  <1>1. Mirror(row) = [NoMirror EXCEPT !.auth = "api_key", !.url = row.apiUrl, !.docs = row.apiDocs,
                                       !.keys = row.apiKeys, !.shared = row.apiShared]
    BY DEF Mirror, Yes, No
  <1> QED BY <1>1 DEF NoMirror

LEMMA MirrorOfMonthly ==
  ASSUME NEW row, row.apiOn = No, row.monthlyOn = Yes
  PROVE  /\ Mirror(row).auth = row.monthlyAuth /\ Mirror(row).url = row.monthlyUrl
         /\ Mirror(row).docs = row.monthlyDocs /\ Mirror(row).oauth = row.monthlyOauth
  <1>1. Mirror(row) = [NoMirror EXCEPT !.auth = row.monthlyAuth, !.url = row.monthlyUrl,
                                       !.docs = row.monthlyDocs, !.oauth = row.monthlyOauth]
    BY DEF Mirror, Yes, No
  <1> QED BY <1>1 DEF NoMirror

\* What an old client saves in flat fields, whatever they hold, it reads back
\* from the legacy mirror, after a create and after an update of any row, but
\* for a move to a monthly plan while the API-key mode is on (normalizeLegacy,
\* loadCatalog).
THEOREM FlatFieldsReadBack ==
  ASSUME NEW V, NEW b \in AnyFlatBody(V), ~Silent(b)
  PROVE  LET modes == NormalizeLegacy(b, NoMode, NoMode) IN
         /\ ReadsBack(b, Created(modes))
         /\ \A row \in AnyRow(V) :
              (IsMonthly(b.auth) /\ row.apiOn = Yes) \/ ReadsBack(b, Apply(row, modes))
  <1> DEFINE modes == NormalizeLegacy(b, NoMode, NoMode)
             new == Apply(NewRow, modes)
  <1>1. CASE ~IsMonthly(b.auth)
    <2>1. ASSUME NEW row
          PROVE  ReadsBack(b, Apply(row, modes))
      <3> DEFINE next == Apply(row, modes)
      <3>1. /\ next.apiOn = Yes
            /\ b.url # Blank => next.apiUrl = b.url
            /\ b.docs # Blank => next.apiDocs = b.docs
            /\ b.keys # Nil => next.apiKeys = Encoded(b.keys)
            /\ b.shared # Nil => next.apiShared = b.shared
        BY <1>1, ApiFieldsApplied
      <3> HIDE DEF next
      <3> QED BY <1>1, <3>1, MirrorOfApi DEF ReadsBack, next
    <2>2. new.monthlyOn # Yes /\ new.apiOn = Yes
      BY <1>1, ApiFieldsApplied DEF NewRow, No, Yes
    <2>3. Created(modes) = new
      <3>1. Created(modes) = [new EXCEPT !.apiOn = Yes]
        BY <2>2 DEF Created
      <3>2. [new EXCEPT !.apiOn = Yes] = new
        BY <2>2 DEF Apply
      <3> QED BY <3>1, <3>2
    <2> QED BY <2>1, <2>3
  <1>2. CASE IsMonthly(b.auth)
    <2>1. ASSUME NEW row, row.apiOn = No
          PROVE  ReadsBack(b, Apply(row, modes))
      <3> DEFINE next == Apply(row, modes)
      <3>1. /\ next.apiOn = No /\ next.monthlyOn = Yes /\ next.monthlyAuth = b.auth
            /\ b.url # Blank => next.monthlyUrl = b.url
            /\ b.docs # Blank => next.monthlyDocs = b.docs
            /\ b.oauth # Nil => next.monthlyOauth = b.oauth
        BY <1>2, <2>1, MonthlyFieldsApplied
      <3> HIDE DEF next
      <3> QED BY <1>2, <3>1, MirrorOfMonthly DEF ReadsBack, next
    <2>2. NewRow.apiOn = No
      BY DEF NewRow
    <2>3. new.monthlyOn = Yes
      BY <1>2, MonthlyFieldsApplied
    <2>4. Created(modes) = new
      BY <2>3 DEF Created
    <2>5. \A row \in AnyRow(V) : row.apiOn = Yes \/ row.apiOn = No
      BY DEF AnyRow
    <2> QED BY <1>2, <2>1, <2>2, <2>4, <2>5
  <1> QED BY <1>1, <1>2

\* The bodies and rows of the runs are among those.
THEOREM LegacyReadsBack == Spec => []LegacySavesReadBack
  <1> DEFINE V == ApiAuths \cup MonthlyAuths \cup URLs \cup {"config", "keys", EmptyList, Nil}
                    \cup {"https://old", "old", "anthropic_oauth"}
  <1>1. FlatBodies \subseteq AnyFlatBody(V)
    <2> DEFINE Auths == ApiAuths \cup MonthlyAuths
    <2>1. Auths \subseteq V \ {Nil} /\ URLs \subseteq V \ {Nil}
      BY DEF ApiAuths, MonthlyAuths, URLs, Nil, Blank
    <2>2. {Nil, "config"} \subseteq V /\ {Nil, EmptyList, "keys"} \subseteq V
      OBVIOUS
    <2>3. FlatBodies = [auth : Auths, url : URLs, docs : URLs, oauth : {Nil, "config"},
                        keys : {Nil, EmptyList, "keys"}, shared : {Nil, Yes, No}]
      BY DEF FlatBodies
    <2> HIDE DEF Auths, V
    <2> QED BY <2>1, <2>2, <2>3 DEF AnyFlatBody
  <1>2. KnownRows \subseteq AnyRow(V)
    <2>1. /\ {Blank, "https://old"} \subseteq V /\ {Blank} \subseteq V
          /\ {Nil, "old"} \subseteq V /\ {Blank, "anthropic_oauth"} \subseteq V
      BY DEF URLs
    <2> HIDE DEF V
    <2> QED BY <2>1 DEF KnownRows, AnyRow
  <1> HIDE DEF V
  <1>3. FlatBodiesReadBack
    BY <1>1, <1>2, FlatFieldsReadBack DEF FlatBodiesReadBack
  <1>4. LegacySavesReadBack
    BY <1>3 DEF LegacySavesReadBack
  <1> QED BY <1>4, PTL
===============================================================================
