----------------------------- MODULE FreshCatalog -----------------------------
(***************************************************************************)
(* What GET /api/providers promises, without versions, caches or ETags: a  *)
(* request that no change overlaps leaves its client holding the catalog.  *)
(*                                                                         *)
(* A change leaves the catalog `unannounced`: until an announcement,       *)
(* requests may be answered with anything that was once current. calm[c]   *)
(* says that c has asked, that the catalog was announced when it did, and  *)
(* that nothing changed since.                                             *)
(***************************************************************************)
CONSTANT CLIENTS

VARIABLES catalog, unannounced, calm, held

vars == <<catalog, unannounced, calm, held>>

Nobody == [c \in CLIENTS |-> FALSE]

Init ==
  /\ unannounced = FALSE
  /\ calm = Nobody
  /\ DOMAIN held = CLIENTS

\* An administrator's change, or a failure that spoils what is being served.
Disturb ==
  /\ unannounced' = TRUE
  /\ calm' = Nobody
  /\ UNCHANGED held

Announce ==
  /\ unannounced' = FALSE
  /\ UNCHANGED <<catalog, calm, held>>

\* The promise is not made while the catalog is unannounced, and may also be
\* withheld because the request's own reads fail.
Ask(c) ==
  /\ calm' \in {[calm EXCEPT ![c] = ~unannounced], [calm EXCEPT ![c] = FALSE]}
  /\ UNCHANGED <<catalog, unannounced, held>>

Answer(c) ==
  /\ held' = [held EXCEPT ![c] = held'[c]]
  /\ calm[c] => held'[c] = catalog
  /\ calm' = [calm EXCEPT ![c] = FALSE]
  /\ UNCHANGED <<catalog, unannounced>>

\* A first request for the version may store it: that announces the catalog.
Next ==
  \/ Disturb
  \/ Announce
  \/ \E c \in CLIENTS : Ask(c) \/ Answer(c)

Spec == Init /\ [][Next]_vars
===============================================================================
