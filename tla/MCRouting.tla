------------------------------ MODULE MCRouting ------------------------------
(***************************************************************************)
(* One run for two components that share no table: the routing tables, and *)
(* the picker entries with the listings read from them. `part` says which  *)
(* of the two a behaviour is about; the other stands still, since nothing  *)
(* in one can depend on the other.                                         *)
(***************************************************************************)
EXTENDS RoutingAdmin

CONSTANTS t1, t2, ENTRIES, NAMES, READERS, CHANGES

ASSUME ListingAssumption ==
  /\ "tank" \in NAMES
  /\ Blank \notin ENTRIES \cup NAMES
  /\ CHANGES \in Nat

VARIABLES part, config, entry, saving, cache, req, shown

listingVars == <<config, entry, saving, cache, req, shown>>
routingVars == <<upstream, target, route, adm, unannounced, raced, last>>
all == <<vars, listingVars, part>>

Lists == INSTANCE PublicListing WITH EDITS <- CHANGES

\* A chain with a gap, and an MoA operator: two saves of the first clash on
\* their keys, one of each can merge.
MCBodies ==
  {[Empty EXCEPT !.primary = t1, !.backups = <<t2, Blank, t1>>],
   [Empty EXCEPT !.aggregator = t2, !.proposers = <<t2>>]}

OnRouting(step) == part = "routing" /\ step /\ UNCHANGED <<part, listingVars>>
OnListing(step) == part = "listing" /\ step /\ UNCHANGED <<part, routingVars>>

MCInit == Init /\ Lists!Init /\ part \in {"routing", "listing"}
MCNext == OnRouting(Next) \/ OnListing(Lists!Next)
MCSpec ==
  /\ MCInit /\ [][MCNext]_all
  /\ \A a \in ADMINS : WF_all(OnRouting(AdminStep(a)))
  /\ WF_all(OnListing(Lists!Expire)) /\ WF_all(OnListing(Lists!SaveEntry))
  /\ \A c \in READERS : WF_all(OnListing(Lists!ReaderStep(c)))

\* PublicListing's properties, under names of their own.
\* Rows and snapshots are well formed; an entry has a route of its own.
ListingTypeOK == part = "listing" => Lists!TypeOK
\* No listing says that Construct is off and offers a model.
OffListsNothing == Lists!OffListsNothing
\* Readers that ask again end with what the admins left.
ListingsConverge == \A c \in READERS : <>[](part = "listing" => shown[c] = Lists!Current)
===============================================================================
