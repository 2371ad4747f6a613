------------------------------- MODULE Billing -------------------------------
(***************************************************************************)
(* What charging promises a user, whatever statements and handlers it is   *)
(* made of. A request is charged at most once; it is served only after it  *)
(* was charged or after a request for the same user and prompt was charged *)
(* and recorded; it is turned down only if it was not charged; and nothing *)
(* is recorded that was not charged. A request that breaks off may have    *)
(* been charged without being served: nothing is refunded.                 *)
(***************************************************************************)
CONSTANTS
  Requests,
  SamePrompt  \* the pairs of requests of one user that carry the same prompt id

VARIABLES outcome, charged, recorded

billing == <<outcome, charged, recorded>>

Init ==
  /\ outcome = [r \in Requests |-> "open"]
  /\ charged = {}
  /\ recorded = {}

Open(r) == outcome[r] = "open"
Conclude(r, o) == Open(r) /\ outcome' = [outcome EXCEPT ![r] = o]

\* The balance pays for r; the reply may still be lost.
Charge(r) ==
  /\ Open(r)
  /\ r \notin charged
  /\ charged' = charged \cup {r}
  /\ outcome' \in {outcome, [outcome EXCEPT ![r] = "broken"]}
  /\ UNCHANGED recorded

\* r is served at the price it was charged; recording it is attempted.
ServeCharged(r) ==
  /\ r \in charged
  /\ Conclude(r, "served")
  /\ recorded' \in {recorded, recorded \cup {r}}
  /\ UNCHANGED charged

\* r is served for free: its prompt is on record.
ServeRecorded(r) ==
  /\ \E s \in recorded : <<r, s>> \in SamePrompt
  /\ Conclude(r, "served")
  /\ UNCHANGED <<charged, recorded>>

TurnDown(r) ==
  /\ r \notin charged
  /\ Conclude(r, "turned")
  /\ UNCHANGED <<charged, recorded>>

\* Some open requests break off, all at once when the process dies.
BreakOff ==
  /\ \E S \in SUBSET {r \in Requests : Open(r)} :
       outcome' = [r \in Requests |-> IF r \in S THEN "broken" ELSE outcome[r]]
  /\ UNCHANGED <<charged, recorded>>

Next ==
  \/ \E r \in Requests : \/ Charge(r) \/ ServeCharged(r)
                         \/ ServeRecorded(r) \/ TurnDown(r)
  \/ BreakOff

Spec == Init /\ [][Next]_billing
=============================================================================
