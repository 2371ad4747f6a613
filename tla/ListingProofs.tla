----------------------------- MODULE ListingProofs -----------------------------
(***************************************************************************)
(* Theorems about PublicListing as MCRouting instantiates it, for any      *)
(* entries, operators and readers, and any number of admin calls, failing  *)
(* queries and expired snapshots.                                          *)
(***************************************************************************)
EXTENDS MCRouting, TLAPS

EntryTables == UNION {[es -> Lists!Row] : es \in SUBSET ENTRIES}
Asking == [at : {"idle", "config", "create", "entries", "store"}, on : BOOLEAN,
           models : SUBSET ENTRIES]

ListingTypes ==
  /\ config \in [present : BOOLEAN, on : BOOLEAN]
  /\ entry \in EntryTables
  /\ saving \in ENTRIES \cup {Blank}
  /\ cache \in [listing : Lists!Listing, fresh : BOOLEAN]
  /\ req \in [READERS -> Asking]
  /\ shown \in [READERS -> Lists!Listing]

\* The counters are shared with the routing tables, which have their own bound.
Bounds == part = "listing" => edits \in 0..CHANGES /\ faults \in 0..FAULTS

\* What a handler holds says: models are held only by one that read the switch
\* as on, so neither the snapshot nor a reply has models under a switch that is
\* off.
Honest(listing) == ~listing.on => listing.models = {}
OffIsEmpty ==
  /\ Honest(cache.listing)
  /\ \A c \in READERS : Honest(shown[c]) /\ Honest(req[c])
  /\ \A c \in READERS :
       /\ req[c].at = "entries" => req[c].on
       /\ req[c].at # "store" => req[c].models = {}

ListingInv == ListingTypes /\ Bounds /\ OffIsEmpty

-----------------------------------------------------------------------------
LEMMA InitListing == MCInit => ListingInv
  <1> SUFFICES ASSUME MCInit
               PROVE  ListingInv
    OBVIOUS
  <1>1. Lists!Init
    BY DEF MCInit
  <1>2. entry \in EntryTables
    <2>1. CASE entry = <<>>
      <3>1. entry \in [{} -> Lists!Row]
        BY <2>1
      <3> QED BY <3>1 DEF EntryTables
    <2>2. CASE entry \in [ENTRIES -> {[route |-> "tank", on |-> TRUE]}]
      <3> DEFINE row == [route |-> "tank", on |-> TRUE]
      <3>1. row \in Lists!Row
        BY ListingAssumption DEF Lists!Row
      <3>2. entry \in [ENTRIES -> {row}]
        BY <2>2
      <3> HIDE DEF row
      <3>3. entry \in [ENTRIES -> Lists!Row]
        BY <3>1, <3>2
      <3> QED BY <3>3 DEF EntryTables
    <2> QED BY <1>1, <2>1, <2>2 DEF Lists!Init
  <1>3. Lists!NoListing \in Lists!Listing /\ Lists!NoRequest \in Asking
    BY DEF Lists!NoListing, Lists!NoRequest, Lists!Listing, Asking
  <1>4. ListingTypes
    BY <1>1, <1>2, <1>3 DEF Lists!Init, ListingTypes
  <1>5. Bounds
    BY <1>1, ListingAssumption, RoutingAssumption DEF Lists!Init, Bounds
  <1>6. OffIsEmpty
    BY <1>1 DEF Lists!Init, OffIsEmpty, Honest, Lists!NoListing, Lists!NoRequest
  <1> QED BY <1>4, <1>5, <1>6 DEF ListingInv

\* What the admin endpoints and the clock leave alone.
LEMMA TablesChange ==
  ASSUME ListingInv, part = "listing", part' = part,
         config' \in [present : BOOLEAN, on : BOOLEAN], entry' \in EntryTables,
         saving' \in ENTRIES \cup {Blank}, Lists!Edit \/ edits' = edits,
         UNCHANGED <<cache, req, shown, faults>>
  PROVE  ListingInv'
  <1>1. ListingTypes' /\ OffIsEmpty'
    BY DEF ListingInv, ListingTypes, OffIsEmpty, Honest
  <1>2. Bounds'
    BY ListingAssumption DEF ListingInv, Bounds, Lists!Edit
  <1> QED BY <1>1, <1>2 DEF ListingInv

LEMMA AdminsKeepListing ==
  ASSUME ListingInv, part = "listing", part' = part,
         Lists!CreateEntry \/ Lists!FindEntry \/ Lists!SaveEntry \/ Lists!DeleteEntry \/ Lists!Switch
  PROVE  ListingInv'
  <1>0. PICK es \in SUBSET ENTRIES : entry \in [es -> Lists!Row]
    BY DEF ListingInv, ListingTypes, EntryTables
  <1>t. /\ config \in [present : BOOLEAN, on : BOOLEAN] /\ entry \in EntryTables
        /\ saving \in ENTRIES \cup {Blank}
    BY DEF ListingInv, ListingTypes
  <1>1. CASE Lists!CreateEntry
    <2>1. PICK e \in ENTRIES : \E r \in NAMES \cup {Blank} :
            entry' = [x \in DOMAIN entry \cup {e} |->
                        IF x = e THEN [route |-> Lists!Or(r, "tank"), on |-> TRUE] ELSE entry[x]]
      BY <1>1 DEF Lists!CreateEntry
    <2>2. PICK r \in NAMES \cup {Blank} :
            entry' = [x \in DOMAIN entry \cup {e} |->
                        IF x = e THEN [route |-> Lists!Or(r, "tank"), on |-> TRUE] ELSE entry[x]]
      BY <2>1
    <2>3. [route |-> Lists!Or(r, "tank"), on |-> TRUE] \in Lists!Row
      BY ListingAssumption DEF Lists!Row, Lists!Or
    <2>4. entry' \in [es \cup {e} -> Lists!Row]
      BY <1>0, <2>2, <2>3
    <2>5. entry' \in EntryTables
      BY <2>4 DEF EntryTables
    <2> QED BY <1>1, <1>t, <2>5, TablesChange DEF Lists!CreateEntry
  <1>2. CASE Lists!FindEntry
    <2>1. saving' \in ENTRIES
      BY <1>0, <1>2 DEF Lists!FindEntry
    <2> QED BY <1>2, <1>t, <2>1, TablesChange DEF Lists!FindEntry
  <1>3. CASE Lists!SaveEntry
    <2>1. PICK r \in NAMES \cup {Blank} : \E on \in BOOLEAN :
            entry' = [x \in DOMAIN entry |->
                        IF x = saving THEN [route |-> Lists!Or(r, entry[x].route), on |-> on]
                        ELSE entry[x]]
      BY <1>3 DEF Lists!SaveEntry
    <2>2. PICK on \in BOOLEAN :
            entry' = [x \in DOMAIN entry |->
                        IF x = saving THEN [route |-> Lists!Or(r, entry[x].route), on |-> on]
                        ELSE entry[x]]
      BY <2>1
    <2>3. \A x \in es : [route |-> Lists!Or(r, entry[x].route), on |-> on] \in Lists!Row
      BY <1>0 DEF Lists!Row, Lists!Or
    <2>4. entry' \in [es -> Lists!Row]
      BY <1>0, <2>2, <2>3
    <2>5. entry' \in EntryTables
      BY <2>4 DEF EntryTables
    <2> QED BY <1>3, <1>t, <2>5, TablesChange DEF Lists!SaveEntry
  <1>4. CASE Lists!DeleteEntry
    <2>1. PICK e \in ENTRIES : entry' = [x \in DOMAIN entry \ {e} |-> entry[x]]
      BY <1>4 DEF Lists!DeleteEntry
    <2>2. entry' \in [es \ {e} -> Lists!Row]
      BY <1>0, <2>1
    <2>3. entry' \in EntryTables
      BY <2>2 DEF EntryTables
    <2> QED BY <1>4, <1>t, <2>3, TablesChange DEF Lists!DeleteEntry
  <1>5. CASE Lists!Switch
    <2>1. config' \in [present : BOOLEAN, on : BOOLEAN]
      BY <1>5 DEF Lists!Switch
    <2> QED BY <1>5, <1>t, <2>1, TablesChange DEF Lists!Switch
  <1> QED BY <1>1, <1>2, <1>3, <1>4, <1>5

\* A handler moves on: what it holds, shows and stores is typed and honest.
LEMMA ReadersMove ==
  ASSUME ListingInv, part = "listing", part' = part, NEW c \in READERS,
         NEW asking \in Asking, NEW listing \in Lists!Listing, NEW snapshot \in Lists!Listing,
         NEW fresh \in BOOLEAN, NEW conf \in [present : BOOLEAN, on : BOOLEAN],
         Honest(asking), Honest(listing), Honest(snapshot),
         asking.at = "entries" => asking.on, asking.at # "store" => asking.models = {},
         req' = [req EXCEPT ![c] = asking], shown' = [shown EXCEPT ![c] = listing],
         cache' = [listing |-> snapshot, fresh |-> fresh], config' = conf,
         Lists!Fault \/ faults' = faults, UNCHANGED <<entry, saving, edits>>
  PROVE  ListingInv'
  <1>1. ListingTypes'
    BY DEF ListingInv, ListingTypes
  <1>2. Bounds'
    BY RoutingAssumption DEF ListingInv, Bounds, Lists!Fault
  <1>3. \A d \in READERS : req'[d] = (IF d = c THEN asking ELSE req[d])
                           /\ shown'[d] = (IF d = c THEN listing ELSE shown[d])
    BY DEF ListingInv, ListingTypes
  <1>4. cache'.listing = snapshot
    OBVIOUS
  <1>5. OffIsEmpty'
    <2>1. \A d \in READERS : Honest(shown[d])' /\ Honest(req[d])'
      BY <1>3 DEF ListingInv, OffIsEmpty, Honest
    <2>2. \A d \in READERS : /\ req'[d].at = "entries" => req'[d].on
                             /\ req'[d].at # "store" => req'[d].models = {}
      BY <1>3 DEF ListingInv, OffIsEmpty
    <2> QED BY <1>4, <2>1, <2>2 DEF OffIsEmpty, Honest
  <1> QED BY <1>1, <1>2, <1>5 DEF ListingInv

LEMMA ReadersKeepListing ==
  ASSUME ListingInv, part = "listing", part' = part, NEW c \in READERS,
         Lists!ReaderStep(c) \/ Lists!ConfigFails(c) \/ Lists!EntriesFail(c)
  PROVE  ListingInv'
  <1>t. /\ req \in [READERS -> Asking] /\ req[c] \in Asking /\ shown \in [READERS -> Lists!Listing]
        /\ shown[c] \in Lists!Listing /\ cache \in [listing : Lists!Listing, fresh : BOOLEAN]
        /\ cache = [listing |-> cache.listing, fresh |-> cache.fresh]
        /\ cache.listing \in Lists!Listing /\ cache.fresh \in BOOLEAN
        /\ config \in [present : BOOLEAN, on : BOOLEAN]
        /\ Lists!NoRequest \in Asking
    BY DEF ListingInv, ListingTypes, Lists!NoRequest, Asking
  <1>h. /\ Honest(shown[c]) /\ Honest(req[c]) /\ Honest(cache.listing) /\ Honest(Lists!NoRequest)
        /\ Lists!NoRequest.at # "entries" /\ Lists!NoRequest.models = {}
        /\ req[c].at = "entries" => req[c].on
        /\ req[c].at # "store" => req[c].models = {}
    BY DEF ListingInv, OffIsEmpty, Honest, Lists!NoRequest
  <1>s. shown = [shown EXCEPT ![c] = shown[c]] /\ req = [req EXCEPT ![c] = req[c]]
    BY <1>t
  <1>k. ASSUME NEW on \in BOOLEAN, Lists!Told(c, on), req[c].at # "store",
               NEW conf \in [present : BOOLEAN, on : BOOLEAN], config' = conf,
               Lists!Fault \/ faults' = faults, UNCHANGED <<entry, saving, edits, cache, shown>>
        PROVE  ListingInv'
    <2> DEFINE asking == [req[c] EXCEPT !.on = on, !.at = IF on THEN "entries" ELSE "store"]
    <2>1. req' = [req EXCEPT ![c] = asking]
      BY <1>k, <1>t DEF Lists!Told
    <2>2. /\ asking \in Asking /\ asking.models = req[c].models
          /\ asking.at = "entries" => asking.on
      BY <1>t DEF Asking
    <2> HIDE DEF asking
    <2>3. asking.models = {} /\ Honest(asking)
      BY <1>h, <1>k, <2>2 DEF Honest
    <2> QED BY <1>k, <1>t, <1>h, <1>s, <2>1, <2>2, <2>3, ReadersMove
  <1>1. CASE Lists!FromCache(c)
    BY <1>1, <1>t, <1>h, ReadersMove DEF Lists!FromCache, Lists!Reply, Lists!tables
  <1>2. CASE Lists!Miss(c)
    <2> DEFINE asking == [req[c] EXCEPT !.at = "config"]
    <2>1. req' = [req EXCEPT ![c] = asking] /\ req[c].at = "idle"
      BY <1>2, <1>t DEF Lists!Miss
    <2>2. /\ asking \in Asking /\ asking.models = req[c].models /\ asking.at = "config"
      BY <1>t DEF Asking
    <2> HIDE DEF asking
    <2>3. asking.models = {} /\ Honest(asking)
      BY <1>h, <2>1, <2>2 DEF Honest
    <2> QED BY <1>2, <1>t, <1>h, <1>s, <2>1, <2>2, <2>3, ReadersMove DEF Lists!Miss, Lists!tables
  <1>3. CASE Lists!ReadConfig(c)
    <2>1. CASE config.present
      BY <1>3, <1>t, <1>k, <2>1 DEF Lists!ReadConfig, Lists!tables
    <2>2. CASE ~config.present
      <3> DEFINE asking == [req[c] EXCEPT !.at = "create"]
      <3>1. req' = [req EXCEPT ![c] = asking] /\ req[c].at = "config"
        BY <1>3, <1>t, <2>2 DEF Lists!ReadConfig
      <3>2. /\ asking \in Asking /\ asking.models = req[c].models /\ asking.at = "create"
        BY <1>t DEF Asking
      <3> HIDE DEF asking
      <3>3. asking.models = {} /\ Honest(asking)
        BY <1>h, <3>1, <3>2 DEF Honest
      <3> QED BY <1>3, <1>t, <1>h, <1>s, <3>1, <3>2, <3>3, ReadersMove
              DEF Lists!ReadConfig, Lists!tables
    <2> QED BY <2>1, <2>2
  <1>4. CASE Lists!CreateConfig(c)
    <2>1. [config EXCEPT !.present = TRUE] \in [present : BOOLEAN, on : BOOLEAN]
      BY <1>t
    <2> QED BY <1>4, <1>k, <2>1 DEF Lists!CreateConfig
  <1>5. CASE Lists!ReadEntries(c)
    <2> DEFINE asking == [req[c] EXCEPT !.models = Lists!Enabled, !.at = "store"]
    <2>1. req' = [req EXCEPT ![c] = asking] /\ req[c].at = "entries"
      BY <1>5, <1>t DEF Lists!ReadEntries
    <2>2. Lists!Enabled \in SUBSET ENTRIES
      BY DEF ListingInv, ListingTypes, EntryTables, Lists!Enabled
    <2>3. asking \in Asking /\ asking.on = req[c].on /\ asking.at = "store"
      BY <1>t, <2>2 DEF Asking
    <2> HIDE DEF asking
    <2>4. Honest(asking)
      BY <1>h, <2>1, <2>3 DEF Honest
    <2> QED BY <1>5, <1>t, <1>h, <1>s, <2>1, <2>3, <2>4, ReadersMove
            DEF Lists!ReadEntries, Lists!tables
  <1>6. CASE Lists!Store(c)
    <2> DEFINE listing == [on |-> req[c].on, models |-> req[c].models]
    <2>1. /\ cache' = [listing |-> listing, fresh |-> TRUE]
          /\ shown' = [shown EXCEPT ![c] = listing] /\ req' = [req EXCEPT ![c] = Lists!NoRequest]
          /\ UNCHANGED <<config, entry, saving, edits, faults>>
      BY <1>6 DEF Lists!Store, Lists!Reply, Lists!tables
    <2>2. listing \in Lists!Listing /\ listing.on = req[c].on /\ listing.models = req[c].models
      BY <1>t DEF Asking, Lists!Listing
    <2> HIDE DEF listing
    <2>3. Honest(listing)
      BY <1>h, <2>2 DEF Honest
    <2> QED BY <1>t, <1>h, <2>1, <2>2, <2>3, ReadersMove
  <1>7. CASE Lists!ConfigFails(c)
    BY <1>7, <1>t, <1>k DEF Lists!ConfigFails, Lists!tables
  <1>8. CASE Lists!EntriesFail(c)
    <2> DEFINE asking == [req[c] EXCEPT !.at = "store"]
    <2>1. req' = [req EXCEPT ![c] = asking] /\ req[c].at = "entries"
      BY <1>8, <1>t DEF Lists!EntriesFail
    <2>2. /\ asking \in Asking /\ asking.models = req[c].models /\ asking.at = "store"
      BY <1>t DEF Asking
    <2> HIDE DEF asking
    <2>3. asking.models = {} /\ Honest(asking)
      BY <1>h, <2>1, <2>2 DEF Honest
    <2> QED BY <1>8, <1>t, <1>h, <1>s, <2>1, <2>2, <2>3, ReadersMove
            DEF Lists!EntriesFail, Lists!tables
  <1> QED BY <1>1, <1>2, <1>3, <1>4, <1>5, <1>6, <1>7, <1>8 DEF Lists!ReaderStep

LEMMA ListingIsKept ==
  ASSUME ListingInv, [MCNext]_all
  PROVE  ListingInv'
  <1>1. CASE OnListing(Lists!Next)
    <2>1. part = "listing" /\ part' = part /\ Lists!Next
      BY <1>1 DEF OnListing
    <2>2. CASE Lists!Expire
      <3>1. cache' \in [listing : Lists!Listing, fresh : BOOLEAN] /\ cache'.listing = cache.listing
        BY <2>2 DEF Lists!Expire, ListingInv, ListingTypes
      <3> QED BY <2>1, <2>2, <3>1 DEF Lists!Expire, Lists!tables, ListingInv, ListingTypes, Bounds,
                 OffIsEmpty, Honest
    <2> QED BY <2>1, <2>2, AdminsKeepListing, ReadersKeepListing DEF Lists!Next
  <1>2. CASE OnRouting(Next)
    BY <1>2 DEF OnRouting, listingVars, ListingInv, ListingTypes, Bounds, OffIsEmpty, Honest
  <1>3. CASE UNCHANGED all
    BY <1>3 DEF all, vars, listingVars, ListingInv, ListingTypes, Bounds, OffIsEmpty, Honest
  <1> QED BY <1>1, <1>2, <1>3 DEF MCNext

LEMMA ListingInvariant == MCSpec => []ListingInv
  <1>1. ListingInv /\ [MCNext]_all => ListingInv'
    BY ListingIsKept
  <1> QED BY <1>1, InitListing, PTL DEF MCSpec

\* Rows, snapshot and handlers are well formed; an entry keeps a route of its
\* own through creates and updates that leave it blank (AdminCreatePickerEntry
\* and AdminUpdatePickerEntry).
THEOREM TypeCorrect == MCSpec => []ListingTypeOK
  <1>1. ListingInv => ListingTypeOK
    BY DEF ListingInv, ListingTypes, Bounds, ListingTypeOK, Lists!TypeOK, EntryTables, Asking
  <1> QED BY <1>1, ListingInvariant, PTL

\* No listing says that Construct is off and offers a model, whatever queries
\* fail and whoever else fills the snapshot (loadConstructPublic).
THEOREM OffMeansNothing == MCSpec => []OffListsNothing
  <1>1. ListingInv => OffListsNothing
    BY DEF ListingInv, OffIsEmpty, Honest, OffListsNothing, Lists!OffListsNothing
  <1> QED BY <1>1, ListingInvariant, PTL
===============================================================================
