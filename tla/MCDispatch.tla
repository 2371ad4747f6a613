----------------------------- MODULE MCDispatch -----------------------------
(***************************************************************************)
(* A small routing table: one operator with a primary and two backups, one *)
(* with a backup only, and one that is MoA-shaped; two upstreams, of which *)
(* one accepts extra_body. Calls share nothing but the tables, which they  *)
(* only read, so one call with several edits shows what many calls would.  *)
(***************************************************************************)
EXTENDS Dispatch

CONSTANTS q1, tank, apoc, morpheus, t1, t2, t3, lenient, strict

On(up, mode) == [present |-> TRUE, enabled |-> TRUE, upstream |-> up, mode |-> mode]
Off(up, mode) == [On(up, mode) EXCEPT !.enabled = FALSE]
Gone(up, mode) == [On(up, mode) EXCEPT !.present = FALSE]
Live == [present |-> TRUE, enabled |-> TRUE, keyed |-> TRUE]

Route(slot, position, t) == [slot |-> slot, position |-> position, target |-> t]

Full == {Route("primary", 0, t1), Route("backup", 0, t2), Route("backup", 1, t3)}
Short == {Route("backup", 0, t3)}
MoA == {Route("aggregator", 0, t1), Route("proposer", 0, t2)}

MCChains == {Full, Short, MoA, {}}
MCRoutes == [op \in Operators |-> CASE op = tank -> Full
                                    [] op = apoc -> Short
                                    [] OTHER -> MoA]

Entry(medium, large) == [enabled |-> TRUE, medium |-> medium, large |-> large, small |-> Unset]
MCEntry == Entry(Unset, morpheus)
MCEntries == {Entry(apoc, tank), [MCEntry EXCEPT !.enabled = FALSE]}

MCTargetRows == {On(strict, "auto"), Off(lenient, "high"), Gone(lenient, "high")}
MCTargets == [t \in Targets |-> CASE t = t1 -> On(lenient, "high")
                                  [] t = t2 -> On(strict, "auto")
                                  [] OTHER -> On(lenient, "off")]
\* The first backup is disabled.
MCTargetsOneOff == [MCTargets EXCEPT ![t2] = Off(strict, "auto")]

MCUpstreamRows == {[Live EXCEPT !.present = FALSE], [Live EXCEPT !.enabled = FALSE],
                   [Live EXCEPT !.keyed = FALSE]}
MCUpstreams == [u \in Upstreams |-> Live]

MCBodies == {[model |-> Unset, effort |-> e, thinking |-> "none"] : e \in {"none", "caller"}}
=============================================================================
