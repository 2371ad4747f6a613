---------------------------- MODULE DispatchProofs ----------------------------
(***************************************************************************)
(* Theorems about Dispatch, for any requests, operators, chains, tables    *)
(* and number of edits.                                                    *)
(***************************************************************************)
EXTENDS Dispatch, CountingTheorems, TLAPS

(***************************************************************************)
(* The invariant. Walk: what a handler holds, against its chain, its body  *)
(* and its events. Seen: what it holds, against the tables of now; of rows *)
(* that nobody edited it has read the truth, and of the routes behind it   *)
(* every one that could be used and read was tried.                        *)
(***************************************************************************)
Handlers ==
  [pc : {"new"} \cup Walking \cup Ended, body : Body,
   op : Operators \cup {Unset}, chain : Seq(Targets), i : Nat \ {0},
   target : Targets \cup {Unset}, row : TargetRow \cup {Unset},
   keyed : BOOLEAN, attempts : Seq(AttemptRows),
   unread : SUBSET (Nat \ {0}), charge : Targets \cup {Unset}]

TablesTyped ==
  /\ entry \in EntryRow
  /\ routes \in [Operators -> Chains]
  /\ targets \in [Targets -> TargetRow]
  /\ upstreams \in [Upstreams -> UpstreamRow]

Early == {"new", "resolved", "single", "turned", "moa", "unrouted"}
Seeking == {"walking", "loaded", "ready", "exhausted"}
Answered == {"answered", "streaming", "refused", "done"}
Unlogged == {"answered", "streaming", "refused"}

Numbers(n) == [k \in 1..n |-> k]

Own(a, body) ==
  /\ a.body.model = a.target
  /\ a.body.effort = "high" => a.mode = "high" \/ body.effort = "high"
  /\ a.body.thinking # body.thinking => a.upstream \in Lenient /\ a.mode # "auto"

\* The attempts made so far: in the order of the chain, all but an answer failed.
Tried(q) ==
  /\ \A k \in DOMAIN q.attempts :
       /\ q.attempts[k].target = q.chain[q.attempts[k].route]
       /\ Own(q.attempts[k], q.body)
  /\ \A k \in DOMAIN q.attempts : k + 1 \in DOMAIN q.attempts =>
       q.attempts[k].result = "failed" /\ q.attempts[k].route < q.attempts[k + 1].route
  /\ q.pc \in Early => q.attempts = <<>> /\ q.i = 1
  /\ q.pc \in Seeking => \A k \in DOMAIN q.attempts :
       q.attempts[k].result = "failed" /\ q.attempts[k].route < q.i
  /\ q.pc = "exhausted" => Len(q.chain) < q.i
  /\ q.pc \in Answered =>
       /\ q.attempts # <<>>
       /\ q.attempts[Len(q.attempts)].result = "answered"
       /\ q.attempts[Len(q.attempts)].target = q.target

Walk(q, ev) ==
  /\ Tried(q)
  /\ q.pc \in {"resolved", "single"} => q.op \in Operators
  /\ q.pc \in {"loaded", "ready"} =>
       q.i <= Len(q.chain) /\ q.target = q.chain[q.i] /\ q.row \in TargetRow
  /\ q.charge # Unset => q.pc \in {"streaming", "done"} /\ q.charge = q.target
  /\ ev = Numbers(IF q.pc \in Unlogged THEN Len(q.attempts) - 1 ELSE Len(q.attempts))

Seen(q) ==
  /\ q.pc \in {"loaded", "ready"} /\ q.target \notin edited =>
       q.row = targets[q.target] /\ q.row.present /\ q.row.enabled
  /\ q.pc = "ready" /\ Steady(q.target) =>
       LET u == upstreams[targets[q.target].upstream] IN
       u.present /\ u.enabled /\ (u.keyed => q.keyed)
  /\ \A k \in 1..Len(q.chain) :
       k < q.i /\ Steady(q.chain[k]) /\ Routable(q.chain[k]) /\ k \notin q.unread =>
         \E a \in Range(q.attempts) : a.route = k

DispatchInv ==
  /\ TablesTyped
  /\ req \in [Requests -> Handlers]
  /\ events \in [Requests -> Seq(Nat \ {0})]
  /\ \A r \in Requests : Walk(req[r], events[r]) /\ Seen(req[r])

LEMMA Appended ==
  ASSUME NEW S, NEW s \in Seq(S), NEW e \in S
  PROVE  /\ Append(s, e) \in Seq(S) /\ Len(s) \in Nat /\ DOMAIN s = 1..Len(s)
         /\ DOMAIN Append(s, e) = 1..(Len(s) + 1) /\ Len(Append(s, e)) = Len(s) + 1
         /\ \A k \in 1..Len(s) : Append(s, e)[k] = s[k]
         /\ Append(s, e)[Len(s) + 1] = e
  OBVIOUS

LEMMA InitWalks == Init => DispatchInv
  <1> SUFFICES ASSUME Init
               PROVE  DispatchInv
    OBVIOUS
  <1>1. TablesTyped
    BY DispatchAssumption DEF Init, TablesTyped
  <1>2. PICK b \in [Requests -> Bodies] : req = [r \in Requests |-> Idle(b[r])]
    BY DEF Init
  <1>3. ASSUME NEW r \in Requests
        PROVE  /\ req[r] \in Handlers
               /\ req[r].pc = "new" /\ req[r].i = 1 /\ req[r].attempts = <<>>
               /\ req[r].chain = <<>> /\ req[r].charge = Unset
    <2>1. b[r] \in Body
      BY DispatchAssumption
    <2>2. req[r] = Idle(b[r])
      BY <1>2
    <2> QED BY <2>1, <2>2 DEF Idle, Handlers, Body
  <1>4. req \in [Requests -> Handlers]
    BY <1>2, <1>3
  <1>5. ASSUME NEW r \in Requests
        PROVE  Walk(req[r], events[r]) /\ Seen(req[r])
    <2>1. Tried(req[r])
      BY <1>3 DEF Tried, Early, Seeking, Answered
    <2>2. events[r] = Numbers(0)
      <3>1. events[r] = <<>>
        BY DEF Init
      <3> QED BY <3>1 DEF Numbers
    <2>3. Walk(req[r], events[r])
      BY <1>3, <2>1, <2>2 DEF Walk, Unlogged
    <2> QED BY <1>3, <2>3 DEF Seen
  <1> QED BY <1>1, <1>4, <1>5 DEF Init, DispatchInv

(***************************************************************************)
(* Steps of handlers: one handler's record and events change, no table.    *)
(***************************************************************************)
LEMMA HandlerMoves ==
  ASSUME DispatchInv, NEW r \in Requests, NEW q \in Handlers, NEW ev \in Seq(Nat \ {0}),
         req' = [req EXCEPT ![r] = q], events' = [events EXCEPT ![r] = ev],
         UNCHANGED tables, Walk(q, ev), Seen(q)
  PROVE  DispatchInv'
  <1>1. TablesTyped' /\ req' \in [Requests -> Handlers] /\ events' \in [Requests -> Seq(Nat \ {0})]
    BY DEF DispatchInv, TablesTyped, tables
  <1>2. ASSUME NEW s \in Requests
        PROVE  (Walk(req[s], events[s]) /\ Seen(req[s]))'
    <2>1. req'[s] = (IF s = r THEN q ELSE req[s]) /\ events'[s] = (IF s = r THEN ev ELSE events[s])
      BY DEF DispatchInv
    <2>2. Walk(req'[s], events'[s]) /\ Seen(req'[s])
      BY <2>1 DEF DispatchInv
    <2>3. Walk(req[s], events[s])'
      BY <2>2
    <2>4. Seen(req[s])'
      BY <2>2 DEF Seen, Steady, Routable, tables
    <2> QED BY <2>3, <2>4
  <1> QED BY <1>1, <1>2 DEF DispatchInv

\* A step that tries nothing and loads nothing.
LEMMA QuietMoves ==
  ASSUME DispatchInv, NEW r \in Requests, NEW to,
         req' = [req EXCEPT ![r].pc = to], UNCHANGED <<tables, events>>,
         to \in {"resolved", "single"} => req[r].op \in Operators,
         to = "exhausted" => Len(req[r].chain) < req[r].i,
         \/ req[r].pc \in Early /\ to \in Early
         \/ req[r].pc = "walking" /\ to = "exhausted"
         \/ req[r].pc = "answered" /\ to = "refused"
  PROVE  DispatchInv'
  <1> DEFINE q == [req[r] EXCEPT !.pc = to]
  <1>1. /\ req[r] \in Handlers /\ Walk(req[r], events[r]) /\ Seen(req[r])
        /\ to \in Early \cup Ended
    BY DEF DispatchInv, Ended
  <1>2. q \in Handlers
    BY <1>1 DEF Handlers, Walking, Ended, Early
  <1>3. /\ q.pc = to /\ q.body = req[r].body /\ q.chain = req[r].chain /\ q.i = req[r].i
        /\ q.target = req[r].target /\ q.attempts = req[r].attempts
        /\ q.unread = req[r].unread /\ q.charge = req[r].charge /\ q.op = req[r].op
    BY <1>1 DEF Handlers
  <1>4. /\ req' = [req EXCEPT ![r] = q] /\ events' = [events EXCEPT ![r] = events[r]]
        /\ events[r] \in Seq(Nat \ {0})
    BY DEF DispatchInv
  <1> HIDE DEF q
  <1>5. Tried(q)
    BY <1>1, <1>3 DEF Walk, Tried, Early, Seeking, Answered
  <1>6. Walk(q, events[r])
    BY <1>1, <1>3, <1>5 DEF Walk, Early, Unlogged
  <1>7. Seen(q)
    BY <1>1, <1>3 DEF Seen, Early
  <1> QED BY <1>2, <1>4, <1>6, <1>7, HandlerMoves

LEMMA SkipMoves ==
  ASSUME DispatchInv, NEW r \in Requests, NEW U \in SUBSET (Nat \ {0}), req[r].unread \subseteq U,
         req' = [req EXCEPT ![r].pc = "walking", ![r].i = @ + 1, ![r].unread = U],
         UNCHANGED <<tables, events>>, req[r].pc \in {"walking", "loaded", "ready"},
         Steady(req[r].chain[req[r].i]) /\ Routable(req[r].chain[req[r].i]) => req[r].i \in U
  PROVE  DispatchInv'
  <1> DEFINE q == [req[r] EXCEPT !.pc = "walking", !.i = @ + 1, !.unread = U]
  <1>1. req[r] \in Handlers /\ Walk(req[r], events[r]) /\ Seen(req[r])
    BY DEF DispatchInv
  <1>2. q \in Handlers
    <2>1. req[r].i + 1 \in Nat \ {0}
      BY <1>1 DEF Handlers
    <2> QED BY <1>1, <2>1 DEF Handlers, Walking
  <1>3. /\ q.pc = "walking" /\ q.body = req[r].body /\ q.chain = req[r].chain /\ q.i = req[r].i + 1
        /\ q.attempts = req[r].attempts /\ q.unread = U /\ q.charge = req[r].charge
        /\ req[r].i \in Nat
    BY <1>1 DEF Handlers
  <1>4. /\ req' = [req EXCEPT ![r] = q] /\ events' = [events EXCEPT ![r] = events[r]]
        /\ events[r] \in Seq(Nat \ {0})
    BY DEF DispatchInv
  <1> HIDE DEF q
  <1>5. Tried(q)
    <2>1. \A k \in DOMAIN q.attempts : q.attempts[k].result = "failed" /\ q.attempts[k].route < q.i
      <3>1. ASSUME NEW k \in DOMAIN q.attempts
            PROVE  q.attempts[k].result = "failed" /\ q.attempts[k].route < req[r].i
                   /\ q.attempts[k].route \in Nat
        <4>1. req[r].attempts \in Seq(AttemptRows)
          BY <1>1 DEF Handlers
        <4>2. req[r].attempts[k] \in AttemptRows
          BY <1>3, <3>1, <4>1
        <4>3. k \in DOMAIN req[r].attempts /\ req[r].pc \in Seeking
          BY <1>3, <3>1 DEF Seeking
        <4> QED BY <1>1, <1>3, <4>2, <4>3 DEF Walk, Tried, AttemptRows
      <3> QED BY <1>3, <3>1
    <2> QED BY <1>1, <1>3, <2>1 DEF Walk, Tried, Early, Answered
  <1>6. Walk(q, events[r])
    BY <1>1, <1>3, <1>5 DEF Walk, Unlogged
  <1>7. Seen(q)
    <2>1. ASSUME NEW k \in 1..Len(q.chain), k < q.i, Steady(q.chain[k]), Routable(q.chain[k]),
                 k \notin q.unread
          PROVE  \E a \in Range(q.attempts) : a.route = k
      <3>1. k # req[r].i
        BY <1>3, <2>1
      <3>2. k \in Nat
        BY <1>2 DEF Handlers
      <3>3. k < req[r].i
        BY <1>3, <2>1, <3>1, <3>2
      <3> QED BY <1>1, <1>3, <2>1, <3>3 DEF Seen
    <2> QED BY <1>3, <2>1 DEF Seen
  <1> QED BY <1>2, <1>4, <1>6, <1>7, HandlerMoves

LEMMA SkipsWithoutMark ==
  ASSUME DispatchInv, NEW r \in Requests, Skip(r)
  PROVE  req' = [req EXCEPT ![r].pc = "walking", ![r].i = @ + 1, ![r].unread = req[r].unread]
  BY DEF DispatchInv, Handlers, Skip

LEMMA ReceiveKeeps ==
  ASSUME DispatchInv, NEW r \in Requests, Receive(r)
  PROVE  DispatchInv'
  <1>1. CASE Goto(r, "new", "turned")
    BY <1>1, QuietMoves DEF Receive, Goto, At, Early
  <1>2. CASE \E tier \in Tiers :
               /\ At(r, "new")
               /\ req' = [req EXCEPT ![r].pc = "resolved", ![r].op = OperatorFor(entry, tier)]
    <2>1. PICK tier \in Tiers :
            /\ At(r, "new")
            /\ req' = [req EXCEPT ![r].pc = "resolved", ![r].op = OperatorFor(entry, tier)]
      BY <1>2
    <2>2. OperatorFor(entry, tier) \in Operators
      BY DispatchAssumption DEF OperatorFor, DispatchInv, TablesTyped, EntryRow, Tiers
    <2> DEFINE q == [req[r] EXCEPT !.pc = "resolved", !.op = OperatorFor(entry, tier)]
    <2>3. req[r] \in Handlers /\ Walk(req[r], events[r]) /\ Seen(req[r]) /\ req[r].pc = "new"
      BY <2>1 DEF DispatchInv, At
    <2>4. q \in Handlers
      BY <2>2, <2>3 DEF Handlers, Walking
    <2>5. /\ q.pc = "resolved" /\ q.body = req[r].body /\ q.chain = req[r].chain /\ q.i = req[r].i
          /\ q.attempts = req[r].attempts /\ q.unread = req[r].unread /\ q.charge = req[r].charge
          /\ q.op \in Operators
      BY <2>2, <2>3 DEF Handlers
    <2>6. /\ req' = [req EXCEPT ![r] = q] /\ events' = [events EXCEPT ![r] = events[r]]
          /\ events[r] \in Seq(Nat \ {0}) /\ UNCHANGED tables
      BY <2>1 DEF DispatchInv, Receive
    <2> HIDE DEF q
    <2>7. Walk(q, events[r])
      BY <2>3, <2>5 DEF Walk, Tried, Early, Seeking, Answered, Unlogged
    <2>8. Seen(q)
      BY <2>3, <2>5 DEF Seen
    <2> QED BY <2>4, <2>6, <2>7, <2>8, HandlerMoves
  <1> QED BY <1>1, <1>2 DEF Receive

\* The chain of stored rows has all of them once, in the order of the query, and
\* every entry of it names a target.
LEMMA ChainSorts ==
  ASSUME NEW rows \in Chains
  PROVE  /\ ChainOf(rows) \in Seq(Targets)
         /\ \E row \in [1..Len(ChainOf(rows)) -> SingleTier(rows)] :
              /\ SingleTier(rows) = Range(row)
              /\ \A k, l \in DOMAIN row : k < l => Precedes(row[k], row[l])
              /\ \A k \in DOMAIN row : ChainOf(rows)[k] = row[k].target
  <1> DEFINE chain == SingleTier(rows)
             rank == [row \in chain |-> Rank(row)]
             s == Sorted(rank)
  <1>1. /\ \A x \in chain : x \in RouteRow /\ x.position \in Nat /\ x.target \in Targets
        /\ \A x, y \in chain : x.slot = y.slot /\ x.position = y.position => x = y
        /\ \A x \in chain : x.slot = "primary" => x.position = 0
        /\ IsFiniteSet(rows)
    BY DispatchAssumption DEF RouteRow, SingleTier
  <1>2. IsFiniteSet(chain)
    BY <1>1, FS_Subset DEF SingleTier
  <1>3. \A x \in chain : x.slot \in {"primary", "backup"}
    BY DEF SingleTier
  <1>4. rank \in [chain -> Int] /\ \A x, y \in chain : rank[x] = rank[y] => x = y
    BY <1>1, <1>3 DEF Rank
  <1>5. \A x \in chain : rank[x] = Rank(x)
    OBVIOUS
  <1>6. ChainOf(rows) = [k \in DOMAIN s |-> s[k].target]
    BY DEF ChainOf
  <1> HIDE DEF chain, rank
  <1>7. /\ s \in Seq(chain)
        /\ \A k, l \in 1..Len(s) : k < l => rank[s[k]] < rank[s[l]]
        /\ \A x \in chain : \E k \in 1..Len(s) : s[k] = x
    BY <1>2, <1>4, SortedSorts
  <1> HIDE DEF s
  <1>8. /\ DOMAIN s = 1..Len(s) /\ Len(s) \in Nat
        /\ s \in [1..Len(s) -> chain] /\ \A k \in 1..Len(s) : s[k] \in chain
    BY <1>7
  <1>9. ChainOf(rows) \in Seq(Targets) /\ Len(ChainOf(rows)) = Len(s)
    BY <1>1, <1>6, <1>8
  <1>10. chain = Range(s)
    BY <1>7, <1>8 DEF Range
  <1>11. ASSUME NEW k \in 1..Len(s), NEW l \in 1..Len(s), k < l
         PROVE  Precedes(s[k], s[l])
    <2>1. s[k] \in chain /\ s[l] \in chain /\ rank[s[k]] < rank[s[l]]
      BY <1>7, <1>8, <1>11
    <2>2. Rank(s[k]) < Rank(s[l])
      BY <1>5, <2>1
    <2> QED BY <1>1, <1>3, <2>1, <2>2 DEF Rank, Precedes
  <1>12. \A k \in DOMAIN s : ChainOf(rows)[k] = s[k].target
    BY <1>6
  <1>13. s \in [1..Len(ChainOf(rows)) -> chain]
    BY <1>8, <1>9
  <1>14. \A k, l \in DOMAIN s : k < l => Precedes(s[k], s[l])
    BY <1>8, <1>11
  <1> QED BY <1>9, <1>10, <1>12, <1>13, <1>14 DEF chain

LEMMA LoadChainKeeps ==
  ASSUME DispatchInv, NEW r \in Requests, LoadChain(r)
  PROVE  DispatchInv'
  <1>1. CASE Goto(r, "single", "unrouted")
    BY <1>1, QuietMoves DEF LoadChain, Goto, At, Early
  <1>2. CASE ~Goto(r, "single", "unrouted")
    <2> DEFINE c == ChainOf(routes[req[r].op])
               q == [req[r] EXCEPT !.pc = "walking", !.chain = c]
    <2>1. req[r] \in Handlers /\ Walk(req[r], events[r]) /\ Seen(req[r]) /\ req[r].pc = "single"
      BY DEF DispatchInv, LoadChain, At
    <2>2. c \in Seq(Targets)
      <3>1. routes[req[r].op] \in Chains
        BY <2>1 DEF DispatchInv, TablesTyped, Walk
      <3> QED BY <3>1, ChainSorts
    <2>3. /\ req' = [req EXCEPT ![r] = q] /\ events' = [events EXCEPT ![r] = events[r]]
          /\ events[r] \in Seq(Nat \ {0}) /\ UNCHANGED tables
      BY <1>2 DEF DispatchInv, LoadChain
    <2> HIDE DEF c
    <2>4. q \in Handlers
      BY <2>1, <2>2 DEF Handlers, Walking
    <2>5. /\ q.pc = "walking" /\ q.body = req[r].body /\ q.chain = c /\ q.i = req[r].i
          /\ q.attempts = req[r].attempts /\ q.unread = req[r].unread /\ q.charge = req[r].charge
      BY <2>1, <2>2 DEF Handlers
    <2> HIDE DEF q
    <2>6. q.attempts = <<>> /\ q.i = 1
      BY <2>1, <2>5 DEF Walk, Tried, Early
    <2>7. Walk(q, events[r])
      BY <2>1, <2>5, <2>6 DEF Walk, Tried, Early, Seeking, Answered, Unlogged
    <2>8. Seen(q)
      <3>1. \A k \in 1..Len(q.chain) : ~(k < 1)
        BY <2>2, <2>5
      <3> QED BY <2>5, <2>6, <3>1 DEF Seen
    <2> QED BY <2>3, <2>4, <2>7, <2>8, HandlerMoves
  <1> QED BY <1>1, <1>2

LEMMA LoadTargetKeeps ==
  ASSUME DispatchInv, NEW r \in Requests, LoadTarget(r)
  PROVE  DispatchInv'
  <1> DEFINE t == req[r].chain[req[r].i]
  <1>1. /\ req[r] \in Handlers /\ Walk(req[r], events[r]) /\ Seen(req[r]) /\ req[r].pc = "walking"
        /\ req[r].i \in Nat \ {0} /\ req[r].chain \in Seq(Targets) /\ req[r].i <= Len(req[r].chain)
        /\ req[r].unread \in SUBSET (Nat \ {0})
        /\ UNCHANGED <<tables, events>>
    BY DEF DispatchInv, LoadTarget, At, Handlers
  <1>2. t \in Targets
    BY <1>1
  <1>3. targets[t] \in TargetRow
    BY <1>2 DEF DispatchInv, TablesTyped
  <1>4. CASE ~(targets[t].present /\ targets[t].enabled) /\ Skip(r)
    <2>1. ~Routable(t)
      BY <1>4 DEF Routable
    <2> QED BY <1>1, <1>4, <2>1, SkipsWithoutMark, SkipMoves
  <1>5. CASE Unreadable(r)
    <2> DEFINE U == req[r].unread \cup {req[r].i}
    <2>1. req' = [req EXCEPT ![r].pc = "walking", ![r].i = @ + 1, ![r].unread = U]
      BY <1>5 DEF Unreadable
    <2>2. U \in SUBSET (Nat \ {0}) /\ req[r].unread \subseteq U /\ req[r].i \in U
      BY <1>1
    <2> HIDE DEF U
    <2> QED BY <1>1, <2>1, <2>2, SkipMoves
  <1>6. CASE /\ targets[t].present /\ targets[t].enabled
             /\ req' = [req EXCEPT ![r].pc = "loaded", ![r].target = t, ![r].row = targets[t]]
    <2> DEFINE q == [req[r] EXCEPT !.pc = "loaded", !.target = t, !.row = targets[t]]
    <2> HIDE DEF t
    <2>1. q \in Handlers
      BY <1>1, <1>2, <1>3 DEF Handlers, Walking
    <2>2. /\ q.pc = "loaded" /\ q.body = req[r].body /\ q.chain = req[r].chain /\ q.i = req[r].i
          /\ q.attempts = req[r].attempts /\ q.unread = req[r].unread /\ q.charge = req[r].charge
          /\ q.target = t /\ q.row = targets[t]
      BY <1>1 DEF Handlers
    <2>3. /\ req' = [req EXCEPT ![r] = q] /\ events' = [events EXCEPT ![r] = events[r]]
          /\ events[r] \in Seq(Nat \ {0})
      BY <1>1, <1>6 DEF DispatchInv
    <2> HIDE DEF q
    <2>4. Tried(q)
      BY <1>1, <2>2 DEF Walk, Tried, Early, Seeking, Answered
    <2>5. Walk(q, events[r])
      BY <1>1, <1>3, <2>2, <2>4 DEF Walk, Unlogged, t
    <2>6. Seen(q)
      BY <1>1, <1>6, <2>2 DEF Seen
    <2> QED BY <1>1, <2>1, <2>3, <2>5, <2>6, HandlerMoves
  <1> QED BY <1>4, <1>5, <1>6 DEF LoadTarget

LEMMA LoadUpstreamKeeps ==
  ASSUME DispatchInv, NEW r \in Requests, LoadUpstream(r)
  PROVE  DispatchInv'
  <1> DEFINE u == upstreams[req[r].row.upstream]
             t == req[r].target
  <1>1. /\ req[r] \in Handlers /\ Walk(req[r], events[r]) /\ Seen(req[r]) /\ req[r].pc = "loaded"
        /\ req[r].i \in Nat \ {0} /\ req[r].unread \in SUBSET (Nat \ {0})
        /\ UNCHANGED <<tables, events>>
    BY DEF DispatchInv, LoadUpstream, At, Handlers
  <1>2. /\ req[r].row \in TargetRow /\ t = req[r].chain[req[r].i]
        /\ t \notin edited => req[r].row = targets[t]
    BY <1>1 DEF Walk, Seen
  <1>3. u \in UpstreamRow
    BY <1>2 DEF DispatchInv, TablesTyped, TargetRow
  <1>4. CASE ~(u.present /\ u.enabled) /\ Skip(r)
    <2>1. Steady(t) => ~Routable(t)
      BY <1>2, <1>4 DEF Routable, Steady
    <2> QED BY <1>1, <1>2, <1>4, <2>1, SkipsWithoutMark, SkipMoves
  <1>5. CASE Unreadable(r)
    <2> DEFINE U == req[r].unread \cup {req[r].i}
    <2>1. req' = [req EXCEPT ![r].pc = "walking", ![r].i = @ + 1, ![r].unread = U]
      BY <1>5 DEF Unreadable
    <2>2. U \in SUBSET (Nat \ {0}) /\ req[r].unread \subseteq U /\ req[r].i \in U
      BY <1>1
    <2> HIDE DEF U
    <2> QED BY <1>1, <2>1, <2>2, SkipMoves
  <1>6. CASE /\ u.present /\ u.enabled
             /\ req' = [req EXCEPT ![r].pc = "ready", ![r].keyed = u.keyed]
    <2> DEFINE q == [req[r] EXCEPT !.pc = "ready", !.keyed = u.keyed]
    <2>0. u.keyed \in BOOLEAN
      BY <1>3 DEF UpstreamRow
    <2>1. q \in Handlers
      BY <1>1, <2>0 DEF Handlers, Walking
    <2>2. /\ q.pc = "ready" /\ q.body = req[r].body /\ q.chain = req[r].chain /\ q.i = req[r].i
          /\ q.attempts = req[r].attempts /\ q.unread = req[r].unread /\ q.charge = req[r].charge
          /\ q.target = t /\ q.row = req[r].row /\ q.keyed = u.keyed
      BY <1>1 DEF Handlers
    <2>3. /\ req' = [req EXCEPT ![r] = q] /\ events' = [events EXCEPT ![r] = events[r]]
          /\ events[r] \in Seq(Nat \ {0})
      BY <1>1, <1>6 DEF DispatchInv
    <2> HIDE DEF q
    <2>4. Tried(q)
      BY <1>1, <2>2 DEF Walk, Tried, Early, Seeking, Answered
    <2>5. Walk(q, events[r])
      BY <1>1, <2>2, <2>4 DEF Walk, Unlogged
    <2>6. Seen(q)
      <3>1. q.target \notin edited => q.row = targets[q.target] /\ q.row.present /\ q.row.enabled
        BY <1>1, <2>2 DEF Seen
      <3>2. Steady(q.target) => upstreams[targets[q.target].upstream] = u
        BY <2>2, <3>1 DEF Steady
      <3>3. \A k \in 1..Len(q.chain) :
              k < q.i /\ Steady(q.chain[k]) /\ Routable(q.chain[k]) /\ k \notin q.unread =>
                \E a \in Range(q.attempts) : a.route = k
        BY <1>1, <2>2 DEF Seen
      <3> HIDE DEF u
      <3>4. Steady(q.target) =>
              /\ upstreams[targets[q.target].upstream].present
              /\ upstreams[targets[q.target].upstream].enabled
              /\ upstreams[targets[q.target].upstream].keyed => q.keyed
        BY <1>6, <2>2, <3>2
      <3> QED BY <3>1, <3>3, <3>4 DEF Seen
    <2> QED BY <1>1, <2>1, <2>3, <2>5, <2>6, HandlerMoves
  <1> QED BY <1>4, <1>5, <1>6 DEF LoadUpstream

LEMMA NoKeyKeeps ==
  ASSUME DispatchInv, NEW r \in Requests, NoKey(r)
  PROVE  DispatchInv'
  <1>1. /\ Walk(req[r], events[r]) /\ Seen(req[r]) /\ req[r].pc = "ready" /\ ~req[r].keyed
        /\ req[r].unread \in SUBSET (Nat \ {0})
        /\ Skip(r) /\ UNCHANGED <<tables, events>>
    BY DEF DispatchInv, NoKey, At, Handlers
  <1>2. Steady(req[r].target) => ~Routable(req[r].target)
    BY <1>1 DEF Seen, Routable
  <1>3. req[r].target = req[r].chain[req[r].i]
    BY <1>1 DEF Walk
  <1> QED BY <1>1, <1>2, <1>3, SkipsWithoutMark, SkipMoves

LEMMA AttemptIsOwn ==
  ASSUME DispatchInv, NEW r \in Requests, req[r].pc = "ready", NEW result \in {"failed", "answered"}
  PROVE  LET a == Attempt(r, result) IN
         /\ a \in AttemptRows
         /\ a.route = req[r].i /\ a.target = req[r].target /\ a.result = result
         /\ a.target = req[r].chain[a.route]
         /\ Own(a, req[r].body)
  <1> DEFINE a == Attempt(r, result)
             b == Rewrite(req[r].body, req[r].target, req[r].row.mode, req[r].row.upstream)
  <1>1. req[r] \in Handlers /\ Walk(req[r], events[r])
    BY DEF DispatchInv
  <1>2. /\ req[r].row \in TargetRow /\ req[r].i <= Len(req[r].chain)
        /\ req[r].target = req[r].chain[req[r].i]
    BY <1>1 DEF Walk
  <1>3. /\ req[r].i \in Nat \ {0} /\ req[r].chain \in Seq(Targets) /\ req[r].body \in Body
    BY <1>1 DEF Handlers
  <1>4. req[r].target \in Targets
    BY <1>2, <1>3
  <1>5. /\ b \in Body /\ b.model = req[r].target
        /\ b.effort = "high" => req[r].row.mode = "high" \/ req[r].body.effort = "high"
        /\ b.thinking # req[r].body.thinking =>
             req[r].row.upstream \in Lenient /\ req[r].row.mode # "auto"
    <2>1. req[r].row.mode \in Modes /\ req[r].row.upstream \in Upstreams
      BY <1>2 DEF TargetRow
    <2>2. /\ b.model = req[r].target
          /\ b.effort = IF req[r].row.mode = "high" THEN req[r].row.mode ELSE req[r].body.effort
          /\ b.thinking = CASE req[r].row.mode = "high" /\ req[r].row.upstream \in Lenient -> "enabled"
                            [] req[r].row.mode = "off" /\ req[r].row.upstream \in Lenient -> "disabled"
                            [] OTHER -> req[r].body.thinking
          /\ b = [model |-> b.model, effort |-> b.effort, thinking |-> b.thinking]
      BY DEF Rewrite
    <2>3. b.effort \in {"none", "caller", "high"} /\ b.thinking \in {"none", "caller", "enabled", "disabled"}
      BY <1>3, <2>2 DEF Body
    <2> HIDE DEF b
    <2> QED BY <1>4, <2>1, <2>2, <2>3 DEF Body
  <1>6. a = [route |-> req[r].i, target |-> req[r].target, upstream |-> req[r].row.upstream,
             mode |-> req[r].row.mode, body |-> b, result |-> result]
    BY DEF Attempt
  <1> HIDE DEF a, b
  <1>7. a \in AttemptRows
    BY <1>2, <1>3, <1>4, <1>5, <1>6 DEF AttemptRows, TargetRow
  <1>8. Own(a, req[r].body)
    BY <1>5, <1>6 DEF Own
  <1> QED BY <1>2, <1>6, <1>7, <1>8 DEF a

\* One more attempt, that of route i, follows those of the routes before it.
Follows(s, q, a) ==
  /\ s \in Seq(AttemptRows) /\ s # <<>> /\ Len(s) = Len(q.attempts) + 1 /\ Len(q.attempts) \in Nat
  /\ s[Len(s)] = a
  /\ \A k \in DOMAIN s : s[k].target = q.chain[s[k].route] /\ Own(s[k], q.body)
  /\ \A k \in DOMAIN s : k + 1 \in DOMAIN s =>
       s[k].result = "failed" /\ s[k].route < s[k + 1].route
  /\ \A k \in DOMAIN s : k # Len(s) => s[k].result = "failed" /\ s[k].route < q.i
  /\ \A k \in DOMAIN s : s[k].route \in Nat
  /\ Range(s) = Range(q.attempts) \cup {a}

LEMMA AttemptFollows ==
  ASSUME NEW q \in Handlers, Tried(q), q.pc = "ready", NEW a \in AttemptRows,
         a.route = q.i, a.target = q.chain[a.route], Own(a, q.body), NEW s, s = Append(q.attempts, a)
  PROVE  Follows(s, q, a)
  <1> DEFINE n == Len(q.attempts)
  <1>1. q.attempts \in Seq(AttemptRows) /\ q.i \in Nat \ {0}
    BY DEF Handlers
  <1>2. /\ s \in Seq(AttemptRows) /\ n \in Nat /\ DOMAIN q.attempts = 1..n
        /\ DOMAIN s = 1..(n + 1) /\ Len(s) = n + 1
        /\ (\A k \in 1..n : s[k] = q.attempts[k]) /\ s[n + 1] = a
    BY <1>1, Appended
  <1>3. ASSUME NEW k \in 1..n
        PROVE  /\ q.attempts[k].target = q.chain[q.attempts[k].route] /\ Own(q.attempts[k], q.body)
               /\ q.attempts[k].result = "failed" /\ q.attempts[k].route < q.i
               /\ k + 1 \in 1..n => q.attempts[k].route < q.attempts[k + 1].route
    BY <1>2 DEF Tried, Seeking
  <1> HIDE DEF n
  <1>4. ASSUME NEW k \in DOMAIN s
        PROVE  k = n + 1 \/ k \in 1..n
    BY <1>2
  <1>5. \A k \in DOMAIN s : s[k].target = q.chain[s[k].route] /\ Own(s[k], q.body)
    BY <1>2, <1>3, <1>4
  <1>6. \A k \in DOMAIN s : k # n + 1 => s[k].result = "failed" /\ s[k].route < q.i
    BY <1>2, <1>3, <1>4
  <1>7. ASSUME NEW k \in DOMAIN s, k + 1 \in DOMAIN s
        PROVE  s[k].result = "failed" /\ s[k].route < s[k + 1].route
    <2>1. k \in 1..n /\ (k + 1 \in 1..n \/ k + 1 = n + 1)
      BY <1>2, <1>7
    <2> QED BY <1>2, <1>3, <2>1
  <1>8. \A k \in DOMAIN s : s[k] \in AttemptRows
    BY <1>2
  <1>9. Range(s) = Range(q.attempts) \cup {a}
    <2>1. \A k \in 1..n : k \in 1..(n + 1)
      BY <1>2
    <2>2. n + 1 \in 1..(n + 1)
      BY <1>2
    <2> QED BY <1>2, <1>4, <2>1, <2>2 DEF Range
  <1> QED BY <1>2, <1>5, <1>6, <1>7, <1>8, <1>9 DEF AttemptRows, Follows, n

LEMMA NumbersGrow ==
  ASSUME NEW n \in Nat
  PROVE  /\ Numbers(n) \in Seq(Nat \ {0})
         /\ Append(Numbers(n), n + 1) = Numbers(n + 1)
  <1>1. Numbers(n) \in Seq(Nat \ {0}) /\ Len(Numbers(n)) = n
    BY DEF Numbers
  <1>2. Numbers(n + 1) \in Seq(Nat \ {0}) /\ Len(Numbers(n + 1)) = n + 1
    BY DEF Numbers
  <1>3. n + 1 \in Nat \ {0}
    OBVIOUS
  <1>4. \A k \in 1..(n + 1) : Append(Numbers(n), n + 1)[k] = Numbers(n + 1)[k]
    BY <1>1, <1>3, Appended DEF Numbers
  <1>5. /\ Append(Numbers(n), n + 1) \in Seq(Nat \ {0})
        /\ Len(Append(Numbers(n), n + 1)) = n + 1
    BY <1>1, <1>3, Appended
  <1> QED BY <1>1, <1>2, <1>4, <1>5

LEMMA AttemptFailsKeeps ==
  ASSUME DispatchInv, NEW r \in Requests, AttemptFails(r)
  PROVE  DispatchInv'
  <1> DEFINE a == Attempt(r, "failed")
             s == Append(req[r].attempts, a)
             q == [req[r] EXCEPT !.pc = "walking", !.i = @ + 1, !.attempts = s]
             n == Len(req[r].attempts)
  <1>1. /\ req[r] \in Handlers /\ Walk(req[r], events[r]) /\ Seen(req[r]) /\ req[r].pc = "ready"
        /\ UNCHANGED tables
    BY DEF DispatchInv, AttemptFails, At
  <1>2. /\ a \in AttemptRows /\ a.route = req[r].i /\ a.result = "failed"
        /\ a.target = req[r].chain[a.route] /\ Own(a, req[r].body)
    BY <1>1, AttemptIsOwn
  <1>3. req' = [req EXCEPT ![r] = q] /\ events' = [events EXCEPT ![r] = Append(events[r], n + 1)]
    BY DEF AttemptFails
  <1> HIDE DEF a
  <1>4. /\ s \in Seq(AttemptRows) /\ s # <<>> /\ Len(s) = n + 1 /\ n \in Nat
        /\ s[Len(s)] = a
        /\ \A k \in DOMAIN s : s[k].target = req[r].chain[s[k].route] /\ Own(s[k], req[r].body)
        /\ \A k \in DOMAIN s : k + 1 \in DOMAIN s =>
             s[k].result = "failed" /\ s[k].route < s[k + 1].route
        /\ \A k \in DOMAIN s : k # Len(s) => s[k].result = "failed" /\ s[k].route < req[r].i
        /\ \A k \in DOMAIN s : s[k].route \in Nat
        /\ Range(s) = Range(req[r].attempts) \cup {a}
    <2>1. Tried(req[r]) /\ req[r].attempts \in Seq(AttemptRows)
      BY <1>1 DEF Walk, Handlers
    <2>2. s = Append(req[r].attempts, a)
      OBVIOUS
    <2> HIDE DEF s
    <2>3. Follows(s, req[r], a)
      BY <1>1, <1>2, <2>1, <2>2, AttemptFollows
    <2> QED BY <2>3 DEF Follows
  <1> HIDE DEF s
  <1>5. req[r].i \in Nat /\ req[r].i + 1 \in Nat \ {0}
    BY <1>1 DEF Handlers
  <1>6. q \in Handlers
    BY <1>1, <1>4, <1>5 DEF Handlers, Walking
  <1>7. /\ q.pc = "walking" /\ q.body = req[r].body /\ q.chain = req[r].chain /\ q.i = req[r].i + 1
        /\ q.attempts = s /\ q.unread = req[r].unread /\ q.charge = req[r].charge
    BY <1>1 DEF Handlers
  <1>8. Append(events[r], n + 1) \in Seq(Nat \ {0}) /\ Append(events[r], n + 1) = Numbers(n + 1)
    <2>1. events[r] = Numbers(n)
      BY <1>1 DEF Walk, Unlogged
    <2>2. n + 1 \in Nat
      BY <1>4
    <2> HIDE DEF n
    <2> QED BY <1>4, <2>1, <2>2, NumbersGrow
  <1> HIDE DEF q
  <1>9. Tried(q)
    <2>1. \A k \in DOMAIN s : s[k].result = "failed" /\ s[k].route < req[r].i + 1
      BY <1>2, <1>4, <1>5
    <2> QED BY <1>4, <1>7, <2>1 DEF Tried, Early, Seeking, Answered
  <1>10. Walk(q, Numbers(n + 1))
    BY <1>1, <1>4, <1>7, <1>9 DEF Walk, Unlogged
  <1>11. Seen(q)
    <2>1. ASSUME NEW k \in 1..Len(q.chain), k < q.i, Steady(q.chain[k]), Routable(q.chain[k]),
                 k \notin q.unread
          PROVE  \E b \in Range(q.attempts) : b.route = k
      <3>1. CASE k = req[r].i
        BY <1>2, <1>4, <1>7, <3>1
      <3>2. CASE k # req[r].i
        <4>1. k < req[r].i
          BY <1>5, <1>7, <2>1, <3>2
        <4> QED BY <1>1, <1>4, <1>7, <2>1, <4>1 DEF Seen
      <3> QED BY <3>1, <3>2
    <2> QED BY <1>7, <2>1 DEF Seen
  <1> HIDE DEF n
  <1> QED BY <1>1, <1>3, <1>6, <1>8, <1>10, <1>11, HandlerMoves

LEMMA AttemptAnswersKeeps ==
  ASSUME DispatchInv, NEW r \in Requests, AttemptAnswers(r)
  PROVE  DispatchInv'
  <1> DEFINE a == Attempt(r, "answered")
             s == Append(req[r].attempts, a)
             q == [req[r] EXCEPT !.pc = "answered", !.attempts = s]
             n == Len(req[r].attempts)
  <1>1. /\ req[r] \in Handlers /\ Walk(req[r], events[r]) /\ Seen(req[r]) /\ req[r].pc = "ready"
        /\ UNCHANGED tables /\ events[r] \in Seq(Nat \ {0})
    BY DEF DispatchInv, AttemptAnswers, At
  <1>2. /\ a \in AttemptRows /\ a.route = req[r].i /\ a.result = "answered"
        /\ a.target = req[r].chain[a.route] /\ Own(a, req[r].body) /\ a.target = req[r].target
    BY <1>1, AttemptIsOwn
  <1>3. req' = [req EXCEPT ![r] = q] /\ events' = [events EXCEPT ![r] = events[r]]
    BY DEF AttemptAnswers, DispatchInv
  <1> HIDE DEF a
  <1>4. /\ s \in Seq(AttemptRows) /\ s # <<>> /\ Len(s) = n + 1 /\ n \in Nat
        /\ s[Len(s)] = a
        /\ \A k \in DOMAIN s : s[k].target = req[r].chain[s[k].route] /\ Own(s[k], req[r].body)
        /\ \A k \in DOMAIN s : k + 1 \in DOMAIN s =>
             s[k].result = "failed" /\ s[k].route < s[k + 1].route
        /\ Range(s) = Range(req[r].attempts) \cup {a}
    <2>1. Tried(req[r]) /\ req[r].attempts \in Seq(AttemptRows)
      BY <1>1 DEF Walk, Handlers
    <2>2. s = Append(req[r].attempts, a)
      OBVIOUS
    <2> HIDE DEF s
    <2>3. Follows(s, req[r], a)
      BY <1>1, <1>2, <2>1, <2>2, AttemptFollows
    <2> QED BY <2>3 DEF Follows
  <1> HIDE DEF s
  <1>5. q \in Handlers
    BY <1>1, <1>4 DEF Handlers, Walking
  <1>6. /\ q.pc = "answered" /\ q.body = req[r].body /\ q.chain = req[r].chain /\ q.i = req[r].i
        /\ q.attempts = s /\ q.unread = req[r].unread /\ q.charge = req[r].charge
        /\ q.target = req[r].target
    BY <1>1 DEF Handlers
  <1> HIDE DEF q
  <1>7. Tried(q)
    BY <1>2, <1>4, <1>6 DEF Tried, Early, Seeking, Answered
  <1>8. Walk(q, events[r])
    <2>1. (n + 1) - 1 = n
      BY <1>4
    <2>2. events[r] = Numbers(n) /\ req[r].charge = Unset
      BY <1>1 DEF Walk, Unlogged
    <2> HIDE DEF n
    <2> QED BY <1>4, <1>6, <1>7, <2>1, <2>2 DEF Walk, Unlogged
  <1>9. Seen(q)
    <2>1. \A k \in 1..Len(q.chain) :
            k < q.i /\ Steady(q.chain[k]) /\ Routable(q.chain[k]) /\ k \notin q.unread =>
              \E b \in Range(req[r].attempts) : b.route = k
      BY <1>1, <1>6 DEF Seen
    <2>2. Range(req[r].attempts) \subseteq Range(q.attempts)
      BY <1>4, <1>6
    <2> QED BY <1>6, <2>1, <2>2 DEF Seen
  <1> QED BY <1>1, <1>3, <1>5, <1>8, <1>9, HandlerMoves

LEMMA SettleKeeps ==
  ASSUME DispatchInv, NEW r \in Requests, Settle(r)
  PROVE  DispatchInv'
  <1>1. CASE Goto(r, "answered", "refused")
    BY <1>1, QuietMoves DEF Settle, Goto, At
  <1>2. CASE ~Goto(r, "answered", "refused")
    <2>1. PICK c \in {req[r].target, Unset} :
            /\ At(r, "answered")
            /\ req' = [req EXCEPT ![r].pc = "streaming", ![r].charge = c]
      BY <1>2 DEF Settle
    <2> DEFINE q == [req[r] EXCEPT !.pc = "streaming", !.charge = c]
    <2>2. req[r] \in Handlers /\ Walk(req[r], events[r]) /\ Seen(req[r]) /\ req[r].pc = "answered"
          /\ events[r] \in Seq(Nat \ {0}) /\ UNCHANGED tables
      BY <2>1 DEF DispatchInv, At, Settle
    <2>3. c \in Targets \cup {Unset}
      BY <2>2 DEF Handlers
    <2>4. q \in Handlers
      BY <2>2, <2>3 DEF Handlers, Walking
    <2>5. /\ q.pc = "streaming" /\ q.body = req[r].body /\ q.chain = req[r].chain /\ q.i = req[r].i
          /\ q.attempts = req[r].attempts /\ q.unread = req[r].unread /\ q.charge = c
          /\ q.target = req[r].target
      BY <2>2 DEF Handlers
    <2>6. req' = [req EXCEPT ![r] = q] /\ events' = [events EXCEPT ![r] = events[r]]
      BY <2>1 DEF DispatchInv, Settle
    <2> HIDE DEF q
    <2>7. Tried(q)
      BY <2>2, <2>5 DEF Walk, Tried, Early, Seeking, Answered
    <2>8. Walk(q, events[r])
      BY <2>2, <2>5, <2>7 DEF Walk, Unlogged
    <2>9. Seen(q)
      BY <2>2, <2>5 DEF Seen
    <2> QED BY <2>2, <2>4, <2>6, <2>8, <2>9, HandlerMoves
  <1> QED BY <1>1, <1>2

LEMMA FinishKeeps ==
  ASSUME DispatchInv, NEW r \in Requests, Finish(r)
  PROVE  DispatchInv'
  <1> DEFINE q == [req[r] EXCEPT !.pc = "done"]
             n == Len(req[r].attempts)
  <1>1. /\ req[r] \in Handlers /\ Walk(req[r], events[r]) /\ Seen(req[r]) /\ req[r].pc = "streaming"
        /\ UNCHANGED tables
    BY DEF DispatchInv, Finish, Goto, At
  <1>2. q \in Handlers
    BY <1>1 DEF Handlers, Ended
  <1>3. /\ q.pc = "done" /\ q.body = req[r].body /\ q.chain = req[r].chain /\ q.i = req[r].i
        /\ q.attempts = req[r].attempts /\ q.unread = req[r].unread /\ q.charge = req[r].charge
        /\ q.target = req[r].target
    BY <1>1 DEF Handlers
  <1>4. req' = [req EXCEPT ![r] = q] /\ events' = [events EXCEPT ![r] = Append(events[r], n)]
    BY DEF Finish, Goto
  <1> HIDE DEF q
  <1>5. n \in Nat \ {0}
    <2>1. req[r].attempts \in Seq(AttemptRows) /\ req[r].attempts # <<>>
      BY <1>1 DEF Handlers, Walk, Tried, Answered
    <2> QED BY <2>1
  <1>6. events[r] = Numbers(n - 1)
    BY <1>1 DEF Walk, Unlogged
  <1> HIDE DEF n
  <1>7. Append(events[r], n) = Numbers(n) /\ Numbers(n) \in Seq(Nat \ {0})
    <2>1. n - 1 \in Nat /\ (n - 1) + 1 = n
      BY <1>5
    <2>2. Append(Numbers(n - 1), (n - 1) + 1) = Numbers((n - 1) + 1)
      BY <2>1, NumbersGrow
    <2> QED BY <1>5, <1>6, <2>1, <2>2, NumbersGrow
  <1>8. Tried(q)
    BY <1>1, <1>3 DEF Walk, Tried, Early, Seeking, Answered
  <1>9. Walk(q, Numbers(n))
    BY <1>1, <1>3, <1>8 DEF Walk, Unlogged, n
  <1>10. Seen(q)
    BY <1>1, <1>3 DEF Seen
  <1> QED BY <1>1, <1>2, <1>4, <1>7, <1>9, <1>10, HandlerMoves

(***************************************************************************)
(* Edits. A row that is not edited after the step was not before, and is   *)
(* the same.                                                               *)
(***************************************************************************)
LEMMA EditsKeep ==
  ASSUME DispatchInv,
         EditEntry \/ (\E op \in Operators : EditRoutes(op)) \/ (\E t \in Targets : EditTarget(t))
           \/ (\E u \in Upstreams : EditUpstream(u))
  PROVE  DispatchInv'
  <1>1. TablesTyped
    BY DEF DispatchInv
  <1>2. UNCHANGED <<req, events>> /\ edited \subseteq edited'
    BY DEF EditEntry, EditRoutes, EditTarget, EditUpstream, Edit
  <1>3. TablesTyped'
    <2>1. CASE EditEntry
      BY <1>1, <2>1, DispatchAssumption DEF EditEntry, TablesTyped
    <2>2. CASE \E op \in Operators : EditRoutes(op)
      BY <1>1, <2>2, DispatchAssumption DEF EditRoutes, TablesTyped
    <2>3. CASE \E t \in Targets : EditTarget(t)
      BY <1>1, <2>3, DispatchAssumption DEF EditTarget, TablesTyped
    <2>4. CASE \E u \in Upstreams : EditUpstream(u)
      BY <1>1, <2>4, DispatchAssumption DEF EditUpstream, TablesTyped
    <2> QED BY <2>1, <2>2, <2>3, <2>4
  <1>4. \A t \in Targets : t \notin edited' => targets'[t] = targets[t]
    BY <1>1 DEF EditEntry, EditRoutes, EditTarget, EditUpstream, Edit, TablesTyped
  <1>5. \A u \in Upstreams : u \notin edited' => upstreams'[u] = upstreams[u]
    BY <1>1 DEF EditEntry, EditRoutes, EditTarget, EditUpstream, Edit, TablesTyped
  <1>6. ASSUME NEW t \in Targets, Steady(t)'
        PROVE  /\ Steady(t) /\ targets'[t] = targets[t]
               /\ upstreams'[targets[t].upstream] = upstreams[targets[t].upstream]
    <2>1. t \notin edited' /\ targets'[t].upstream \notin edited' /\ targets'[t] = targets[t]
      BY <1>4, <1>6 DEF Steady
    <2>2. targets[t].upstream \in Upstreams
      BY <1>1 DEF TablesTyped, TargetRow
    <2> QED BY <1>2, <1>5, <2>1, <2>2 DEF Steady
  <1>7. ASSUME NEW q \in Handlers, NEW ev, Walk(q, ev), Seen(q)
        PROVE  Seen(q)'
    <2>1. q.pc \in {"loaded", "ready"} => q.target \in Targets
      BY <1>7 DEF Walk, Handlers
    <2>2. q.pc \in {"loaded", "ready"} /\ q.target \notin edited' =>
            q.row = targets'[q.target] /\ q.row.present /\ q.row.enabled
      BY <1>2, <1>4, <1>7, <2>1 DEF Seen
    <2>3. q.pc = "ready" /\ Steady(q.target)' =>
            LET u == upstreams'[targets'[q.target].upstream] IN
            u.present /\ u.enabled /\ (u.keyed => q.keyed)
      BY <1>6, <1>7, <2>1 DEF Seen
    <2>4. ASSUME NEW k \in 1..Len(q.chain), k < q.i, Steady(q.chain[k])', Routable(q.chain[k])',
                 k \notin q.unread
          PROVE  \E a \in Range(q.attempts) : a.route = k
      <3>1. q.chain[k] \in Targets
        BY <2>4 DEF Handlers
      <3>2. Steady(q.chain[k]) /\ Routable(q.chain[k])
        BY <1>6, <2>4, <3>1 DEF Routable
      <3> QED BY <1>7, <2>4, <3>2 DEF Seen
    <2> QED BY <2>2, <2>3, <2>4 DEF Seen
  <1>8. ASSUME NEW r \in Requests
        PROVE  (Walk(req[r], events[r]) /\ Seen(req[r]))'
    <2>1. PICK q, ev : q = req[r] /\ ev = events[r]
      OBVIOUS
    <2>2. q \in Handlers /\ Walk(q, ev) /\ Seen(q)
      BY <2>1 DEF DispatchInv
    <2>3. Seen(q)'
      BY <1>7, <2>2
    <2>4. req'[r] = q /\ events'[r] = ev
      BY <1>2, <2>1
    <2>5. Seen(req[r])'
      BY <2>3, <2>4 DEF Seen, Steady, Routable
    <2> QED BY <2>2, <2>4, <2>5
  <1> QED BY <1>2, <1>3, <1>8 DEF DispatchInv

LEMMA DispatchIsKept == DispatchInv /\ [Next]_vars => DispatchInv'
  <1> SUFFICES ASSUME DispatchInv, [Next]_vars
               PROVE  DispatchInv'
    OBVIOUS
  <1>1. ASSUME NEW r \in Requests, CheckMoA(r)
        PROVE  DispatchInv'
    <2>1. req[r].pc = "resolved" /\ req[r].op \in Operators
      BY <1>1 DEF CheckMoA, At, DispatchInv, Walk
    <2> QED BY <1>1, <2>1, QuietMoves DEF CheckMoA, Goto, Early
  <1>2. ASSUME NEW r \in Requests, GiveUp(r)
        PROVE  DispatchInv'
    <2>1. Len(req[r].chain) \in Nat /\ req[r].i \in Nat
      BY DEF DispatchInv, Handlers
    <2>2. Len(req[r].chain) < req[r].i
      BY <1>2, <2>1 DEF GiveUp
    <2> QED BY <1>2, <2>2, QuietMoves DEF GiveUp, Goto, At
  <1>3. CASE \E r \in Requests : HandlerStep(r)
    BY <1>1, <1>2, <1>3, ReceiveKeeps, LoadChainKeeps, LoadTargetKeeps, LoadUpstreamKeeps, NoKeyKeeps,
       AttemptFailsKeeps, AttemptAnswersKeeps, SettleKeeps, FinishKeeps DEF HandlerStep
  <1>4. CASE Quiescent \/ UNCHANGED vars
    <2>1. UNCHANGED <<entry, routes, targets, upstreams, edited, req, events>>
      BY <1>4 DEF Quiescent, vars, tables
    <2>2. TablesTyped'
      BY <2>1 DEF DispatchInv, TablesTyped
    <2>3. ASSUME NEW r \in Requests
          PROVE  (Walk(req[r], events[r]) /\ Seen(req[r]))'
      <3>1. Walk(req[r], events[r]) /\ Seen(req[r])
        BY DEF DispatchInv
      <3>2. Seen(req[r])'
        BY <2>1, <3>1 DEF Seen, Steady, Routable
      <3> QED BY <2>1, <3>1, <3>2
    <2> QED BY <2>1, <2>2, <2>3 DEF DispatchInv
  <1> QED BY <1>3, <1>4, EditsKeep DEF Next

LEMMA DispatchInvariant == Spec => []DispatchInv
  BY InitWalks, DispatchIsKept, PTL DEF Spec

\* Whoever is streamed to, or charged, gets the one route that answered; the
\* others failed before anything was sent, in the order of the chain (the walk
\* of ChatConstruct: "We never half-stream a primary then switch to a backup").
THEOREM OneRouteOnly == Spec => []OneRouteReachesTheCaller
  <1>1. DispatchInv => OneRouteReachesTheCaller
    <2> SUFFICES ASSUME DispatchInv, NEW r \in Requests
                 PROVE  LET tried == req[r].attempts IN
                        /\ \A k \in 1..Len(tried) - 1 :
                             tried[k].result = "failed" /\ tried[k].route < tried[k + 1].route
                        /\ \A k \in 1..Len(tried) : tried[k].target = req[r].chain[tried[k].route]
                        /\ req[r].pc \in {"answered", "streaming", "refused", "done"} =>
                             tried # <<>> /\ Last(tried).result = "answered"
                        /\ req[r].charge # Unset => req[r].charge = Last(tried).target
      BY DEF OneRouteReachesTheCaller
    <2>1. Walk(req[r], events[r]) /\ req[r].attempts \in Seq(AttemptRows)
      BY DEF DispatchInv, Handlers
    <2>2. DOMAIN req[r].attempts = 1..Len(req[r].attempts) /\ Len(req[r].attempts) \in Nat
      BY <2>1
    <2>3. \A k \in 1..Len(req[r].attempts) - 1 : k \in 1..Len(req[r].attempts) /\ k + 1 \in 1..Len(req[r].attempts)
      BY <2>2
    <2> QED BY <2>1, <2>2, <2>3 DEF Walk, Tried, Answered, Last
  <1> QED BY <1>1, DispatchInvariant, PTL

\* The reasoning settings of one attempt do not leak into the next
\* (attemptDispatch parses the caller's body anew).
THEOREM BodiesAreTheirOwn == Spec => []AttemptsAreIndependent
  <1>1. DispatchInv => AttemptsAreIndependent
    <2> SUFFICES ASSUME DispatchInv, NEW r \in Requests, NEW k \in 1..Len(req[r].attempts)
                 PROVE  Own(req[r].attempts[k], req[r].body)
      BY DEF AttemptsAreIndependent, Own
    <2>1. Walk(req[r], events[r]) /\ req[r].attempts \in Seq(AttemptRows)
      BY DEF DispatchInv, Handlers
    <2> QED BY <2>1 DEF Walk, Tried
  <1> QED BY <1>1, DispatchInvariant, PTL

\* Every upstream call of an ended request has its event in the chat log, but
\* for an answer that was not paid for (the Log calls of ChatConstruct and
\* attemptDispatch).
THEOREM CallsLeaveEvents == Spec => []CallsAreLogged
  <1>1. DispatchInv => CallsAreLogged
    <2> SUFFICES ASSUME DispatchInv, NEW r \in Requests
                 PROVE  /\ req[r].pc \in Ended \ {"refused"} =>
                             events[r] = [k \in 1..Len(req[r].attempts) |-> k]
                        /\ req[r].pc = "refused" =>
                             events[r] = [k \in 1..Len(req[r].attempts) - 1 |-> k]
      BY DEF CallsAreLogged
    <2>1. Walk(req[r], events[r])
      BY DEF DispatchInv
    <2> QED BY <2>1 DEF Walk, Unlogged, Numbers, Ended
  <1> QED BY <1>1, DispatchInvariant, PTL

\* "All routes failed" is said only when every route that could be used and
\* read all along was tried, whatever edits fell between the queries.
THEOREM NoRouteIsLeftOut == Spec => []AllRoutesWereTried
  <1>1. DispatchInv => AllRoutesWereTried
    <2> SUFFICES ASSUME DispatchInv, NEW r \in Requests, At(r, "exhausted"),
                        NEW k \in 1..Len(req[r].chain), Steady(req[r].chain[k]),
                        Routable(req[r].chain[k]), k \notin req[r].unread
                 PROVE  \E a \in Range(req[r].attempts) : a.route = k
      BY DEF AllRoutesWereTried
    <2>1. Seen(req[r]) /\ req[r].pc = "exhausted"
      BY DEF DispatchInv, At
    <2>2. k < req[r].i
      <3>1. Len(req[r].chain) < req[r].i
        BY <2>1 DEF DispatchInv, Walk, Tried
      <3>2. Len(req[r].chain) \in Nat /\ req[r].i \in Nat /\ k \in Nat
        BY DEF DispatchInv, Handlers
      <3> QED BY <3>1, <3>2
    <2> QED BY <2>1, <2>2 DEF Seen
  <1> QED BY <1>1, DispatchInvariant, PTL

-----------------------------------------------------------------------------
(***************************************************************************)
(* The chain. Offers: what a call may read now is among what it was        *)
(* offered. Fetched: its chain is the sorted rows of a set it was offered. *)
(***************************************************************************)
Offers ==
  /\ offered \in [Requests -> SUBSET Chains]
  /\ \A r \in Requests :
       req[r].pc \in {"resolved", "single"} => routes[req[r].op] \in offered[r]

Fetched(q, sets) ==
  /\ q.pc \in Early => q.chain = <<>>
  /\ q.chain # <<>> => \E C \in sets : q.chain = ChainOf(C)

ChainInv == Offers /\ \A r \in Requests : Fetched(req[r], offered[r])

\* What Observe keeps, of any step between two states of DispatchInv.
LEMMA ObserveKeeps ==
  ASSUME DispatchInv', Offers, Observe
  PROVE  Offers' /\ \A r \in Requests : offered[r] \subseteq offered'[r]
  <1>1. ASSUME NEW r \in Requests, req'[r].pc \in {"resolved", "single"}
        PROVE  routes'[req'[r].op] \in Chains
    <2>1. Walk(req[r], events[r])'
      BY DEF DispatchInv
    <2>2. req'[r].op \in Operators
      BY <1>1, <2>1 DEF Walk
    <2> QED BY <2>2 DEF DispatchInv, TablesTyped
  <1>2. ASSUME NEW r \in Requests
        PROVE  /\ offered'[r] \subseteq Chains /\ offered[r] \subseteq offered'[r]
               /\ req'[r].pc \in {"resolved", "single"} => routes'[req'[r].op] \in offered'[r]
    BY <1>1 DEF Observe, Offers
  <1>3. offered' \in [Requests -> SUBSET Chains]
    BY <1>2 DEF Observe
  <1> QED BY <1>2, <1>3 DEF Offers

LEMMA FetchStep ==
  ASSUME DispatchInv, DispatchInv', ChainInv, NEW r \in Requests, HandlerStep(r)
  PROVE  ChainInv'
  <1>1. req[r] \in Handlers /\ req \in [Requests -> Handlers] /\ Fetched(req[r], offered[r])
    BY DEF DispatchInv, ChainInv
  <1>2. Offers' /\ \A s \in Requests : offered[s] \subseteq offered'[s]
    BY ObserveKeeps DEF HandlerStep, ChainInv
  <1>3. ASSUME NEW q, req' = [req EXCEPT ![r] = q], q.chain = req[r].chain,
               q.pc \in Early => req[r].pc \in Early
        PROVE  ChainInv'
    <2>1. \A s \in Requests : req'[s] = IF s = r THEN q ELSE req[s]
      BY <1>1, <1>3
    <2> QED BY <1>1, <1>2, <1>3, <2>1 DEF ChainInv, Fetched
  <1>4. ASSUME NEW q, req' = [req EXCEPT ![r] = q], req[r].pc = "single",
               q.chain = ChainOf(routes[req[r].op]), q.pc \notin Early
        PROVE  ChainInv'
    <2>1. \A s \in Requests : req'[s] = IF s = r THEN q ELSE req[s]
      BY <1>1, <1>4
    <2>2. routes[req[r].op] \in offered'[r]
      BY <1>2, <1>4 DEF ChainInv, Offers
    <2> QED BY <1>2, <1>4, <2>1, <2>2 DEF ChainInv, Fetched
  <1>5. ASSUME NEW q, req' = [req EXCEPT ![r] = q], q.chain = <<>>
        PROVE  ChainInv'
    <2>1. \A s \in Requests : req'[s] = IF s = r THEN q ELSE req[s]
      BY <1>1, <1>5
    <2> QED BY <1>2, <1>5, <2>1 DEF ChainInv, Fetched
  <1>6. ASSUME NEW from, NEW to, Goto(r, from, to), to \in Early => from \in Early
        PROVE  ChainInv'
    <2>1. req' = [req EXCEPT ![r] = [req[r] EXCEPT !.pc = to]] /\ req[r].pc = from
      BY <1>6 DEF Goto, At
    <2>2. LET q == [req[r] EXCEPT !.pc = to] IN
          q.chain = req[r].chain /\ q.pc = to
      BY <1>1 DEF Handlers
    <2> QED BY <1>3, <1>6, <2>1, <2>2
  <1>7. CASE Receive(r)
    <2>1. ASSUME NEW tier, req[r].pc = "new",
                 req' = [req EXCEPT ![r].pc = "resolved", ![r].op = OperatorFor(entry, tier)]
          PROVE  ChainInv'
      <3> DEFINE q == [req[r] EXCEPT !.pc = "resolved", !.op = OperatorFor(entry, tier)]
      <3>1. req' = [req EXCEPT ![r] = q] /\ q.chain = req[r].chain
        BY <1>1, <2>1 DEF Handlers
      <3>2. req[r].chain = <<>>
        BY <1>1, <2>1 DEF Fetched, Early
      <3> HIDE DEF q
      <3> QED BY <1>5, <3>1, <3>2
    <2> QED BY <1>6, <1>7, <2>1 DEF Receive, At, Early
  <1>8. CASE LoadChain(r)
    <2>1. ASSUME req[r].pc = "single",
                 req' = [req EXCEPT ![r].pc = "walking", ![r].chain = ChainOf(routes[req[r].op])]
          PROVE  ChainInv'
      <3> DEFINE q == [req[r] EXCEPT !.pc = "walking", !.chain = ChainOf(routes[req[r].op])]
      <3>1. /\ req' = [req EXCEPT ![r] = q] /\ q.pc = "walking"
            /\ q.chain = ChainOf(routes[req[r].op])
        BY <1>1, <2>1 DEF Handlers
      <3> HIDE DEF q
      <3> QED BY <1>4, <2>1, <3>1 DEF Early
    <2> QED BY <1>6, <1>8, <2>1 DEF LoadChain, At, Early
  <1>9. CASE Skip(r)
    <2>1. req' = [req EXCEPT ![r] = [req[r] EXCEPT !.pc = "walking", !.i = @ + 1]]
      BY <1>9 DEF Skip
    <2>2. LET q == [req[r] EXCEPT !.pc = "walking", !.i = @ + 1] IN
          q.chain = req[r].chain /\ q.pc = "walking"
      BY <1>1 DEF Handlers
    <2> QED BY <1>3, <2>1, <2>2 DEF Early
  <1>10. CASE Unreadable(r)
    <2> DEFINE q == [req[r] EXCEPT !.pc = "walking", !.i = @ + 1, !.unread = @ \cup {req[r].i}]
    <2>1. req' = [req EXCEPT ![r] = q]
      BY <1>10 DEF Unreadable
    <2>2. q.chain = req[r].chain /\ q.pc = "walking"
      BY <1>1 DEF Handlers
    <2> HIDE DEF q
    <2> QED BY <1>3, <2>1, <2>2 DEF Early
  <1>11. ASSUME NEW t, NEW row,
                req' = [req EXCEPT ![r].pc = "loaded", ![r].target = t, ![r].row = row]
         PROVE  ChainInv'
    <2> DEFINE q == [req[r] EXCEPT !.pc = "loaded", !.target = t, !.row = row]
    <2>1. /\ req' = [req EXCEPT ![r] = q]
          /\ q.chain = req[r].chain /\ q.pc = "loaded"
      BY <1>1, <1>11 DEF Handlers
    <2> HIDE DEF q
    <2> QED BY <1>3, <2>1 DEF Early
  <1>12. ASSUME NEW keyed, req' = [req EXCEPT ![r].pc = "ready", ![r].keyed = keyed]
         PROVE  ChainInv'
    <2> DEFINE q == [req[r] EXCEPT !.pc = "ready", !.keyed = keyed]
    <2>1. /\ req' = [req EXCEPT ![r] = q]
          /\ q.chain = req[r].chain /\ q.pc = "ready"
      BY <1>1, <1>12 DEF Handlers
    <2> HIDE DEF q
    <2> QED BY <1>3, <2>1 DEF Early
  <1>13. CASE AttemptFails(r)
    <2> DEFINE q == [req[r] EXCEPT !.pc = "walking", !.i = @ + 1,
                                   !.attempts = Append(@, Attempt(r, "failed"))]
    <2>1. req' = [req EXCEPT ![r] = q]
      BY <1>13 DEF AttemptFails
    <2>2. q.chain = req[r].chain /\ q.pc = "walking"
      BY <1>1 DEF Handlers
    <2> HIDE DEF q
    <2> QED BY <1>3, <2>1, <2>2 DEF Early
  <1>14. CASE AttemptAnswers(r)
    <2> DEFINE q == [req[r] EXCEPT !.pc = "answered", !.attempts = Append(@, Attempt(r, "answered"))]
    <2>1. req' = [req EXCEPT ![r] = q]
      BY <1>14 DEF AttemptAnswers
    <2>2. q.chain = req[r].chain /\ q.pc = "answered"
      BY <1>1 DEF Handlers
    <2> HIDE DEF q
    <2> QED BY <1>3, <2>1, <2>2 DEF Early
  <1>15. ASSUME NEW c, req' = [req EXCEPT ![r].pc = "streaming", ![r].charge = c]
         PROVE  ChainInv'
    <2> DEFINE q == [req[r] EXCEPT !.pc = "streaming", !.charge = c]
    <2>1. /\ req' = [req EXCEPT ![r] = q]
          /\ q.chain = req[r].chain /\ q.pc = "streaming"
      BY <1>1, <1>15 DEF Handlers
    <2> HIDE DEF q
    <2> QED BY <1>3, <2>1 DEF Early
  <1>16. CASE CheckMoA(r) \/ GiveUp(r) \/ Finish(r)
    BY <1>6, <1>16 DEF CheckMoA, GiveUp, Finish, At, Early
  <1>17. CASE LoadTarget(r) \/ LoadUpstream(r) \/ NoKey(r) \/ Settle(r)
    BY <1>6, <1>9, <1>10, <1>11, <1>12, <1>15, <1>17
    DEF LoadTarget, LoadUpstream, NoKey, Settle, Early
  <1> QED BY <1>7, <1>8, <1>13, <1>14, <1>16, <1>17 DEF HandlerStep

LEMMA ChainInvariant == Spec => []ChainInv
  <1>1. Init => ChainInv
    BY DEF Init, Idle, ChainInv, Fetched, Offers
  <1>2. ASSUME DispatchInv, DispatchInv', ChainInv, [Next]_vars
        PROVE  ChainInv'
    <2>1. CASE \E r \in Requests : HandlerStep(r)
      BY <1>2, <2>1, FetchStep
    <2>2. CASE EditEntry \/ (\E op \in Operators : EditRoutes(op))
                 \/ (\E t \in Targets : EditTarget(t)) \/ (\E u \in Upstreams : EditUpstream(u))
      <3>1. UNCHANGED req /\ Observe
        BY <2>2 DEF EditEntry, EditRoutes, EditTarget, EditUpstream, Edit
      <3>2. Offers' /\ \A r \in Requests : offered[r] \subseteq offered'[r]
        BY <1>2, <3>1, ObserveKeeps DEF ChainInv
      <3> QED BY <1>2, <3>1, <3>2 DEF ChainInv, Fetched
    <2>3. CASE UNCHANGED vars
      BY <1>2, <2>3 DEF vars, tables, ChainInv, Fetched, Offers
    <2> QED BY <1>2, <2>1, <2>2, <2>3 DEF Next, Quiescent
  <1> QED BY <1>1, <1>2, DispatchInvariant, PTL DEF Spec

\* Types of the tables and of the handlers' state, whatever admins edit
\* between the queries of ChatConstruct and attemptDispatch.
THEOREM TypeCorrect == Spec => []TypeOK
  <1>1. DispatchInv /\ ChainInv => TypeOK
    BY DEF DispatchInv, TablesTyped, Handlers, TypeOK, ChainInv, Offers
  <1> QED BY <1>1, DispatchInvariant, ChainInvariant, PTL

\* A call walks the whole chain of one route set that its operator had stored
\* while the call looked for it: the primary first, then backups by position,
\* each row once (the second query of ChatConstruct and its ORDER BY).
THEOREM ChainsAreWhole == Spec => []ChainIsOneSave
  <1>1. ASSUME ChainInv
        PROVE  ChainIsOneSave
    <2> SUFFICES ASSUME NEW r \in Requests, req[r].chain # <<>>
                 PROVE  \E C \in offered[r] : \E row \in [1..Len(req[r].chain) -> SingleTier(C)] :
                          /\ SingleTier(C) = Range(row)
                          /\ \A k, l \in DOMAIN row : k < l => Precedes(row[k], row[l])
                          /\ \A k \in DOMAIN row : req[r].chain[k] = row[k].target
      BY DEF ChainIsOneSave
    <2>1. PICK C \in offered[r] : req[r].chain = ChainOf(C)
      BY <1>1 DEF ChainInv, Fetched
    <2>2. C \in Chains
      BY <1>1, <2>1 DEF ChainInv, Offers
    <2> QED BY <2>1, <2>2, ChainSorts
  <1> QED BY <1>1, ChainInvariant, PTL
===============================================================================
