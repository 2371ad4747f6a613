----------------------------- MODULE RoutingProofs -----------------------------
(***************************************************************************)
(* Theorems about RoutingAdmin, for any upstreams, targets, operators,     *)
(* bodies and admin calls, with or without failing statements: the types   *)
(* and keys of the tables, whole saves, references that dangle only after  *)
(* a race, and the listing of a last save.                                 *)
(***************************************************************************)
EXTENDS RoutingAdmin, CountingTheorems, TLAPS

Bodies == BODIES \cup {Empty}
Saves == [n : Nat, body : Bodies]
Rows == [op : OPERATORS, slot : Slots, pos : Nat, model : TARGETS, save : Saves]

Kinds == {"none", "routes", "createTarget", "updateTarget", "deleteTarget", "deleteUpstream"}
Places == {"idle", "delete", "lock", "insert", "commit", "count", "write", "bump"}
Calls == [kind : Kinds, at : Places, op : OPERATORS, save : Saves, t : TARGETS \cup {Blank},
          u : UPSTREAMS \cup {Blank}, gone : SUBSET Rows, new : SUBSET Rows, blind : BOOLEAN,
          crowded : BOOLEAN]

Tables == UNION {[ts -> UPSTREAMS] : ts \in SUBSET TARGETS}

\* Rows that came together are together; and no two rows share a key.
Whole(rows) == \A r \in rows : r \in RowsOf(r.op, r.save) /\ RowsOf(r.op, r.save) \subseteq rows
Keyed(rows) == \A r, s \in rows : SameKey(r, s) => r = s

-----------------------------------------------------------------------------
(***************************************************************************)
(* The rows of a body.                                                     *)
(***************************************************************************)
\* A list's entries have one slot, and the position tells which.
Entries(es, slot) ==
  /\ \A r \in es : r[1] = slot /\ r[2] \in Nat /\ r[3] \in TARGETS \cup {Blank}
  /\ \A r, s \in es : r[2] = s[2] => r[3] = s[3]

LEMMA ListEntries ==
  ASSUME NEW list \in Seq(TARGETS \cup {Blank}), NEW slot
  PROVE  Entries(InOrder(slot, list), slot)
  <1>1. \A i \in DOMAIN list : i - 1 \in Nat /\ i \in Int /\ list[i] \in TARGETS \cup {Blank}
    OBVIOUS
  <1>2. \A r \in InOrder(slot, list) :
          \E i \in DOMAIN list : r[1] = slot /\ r[2] = i - 1 /\ r[3] = list[i]
    BY DEF InOrder
  <1>3. \A r, s \in InOrder(slot, list) : r[2] = s[2] => r[3] = s[3]
    <2> SUFFICES ASSUME NEW r \in InOrder(slot, list), NEW s \in InOrder(slot, list),
                        r[2] = s[2]
                 PROVE  r[3] = s[3]
      OBVIOUS
    <2>1. PICK i \in DOMAIN list : r[2] = i - 1 /\ r[3] = list[i]
      BY <1>2
    <2>2. PICK j \in DOMAIN list : s[2] = j - 1 /\ s[3] = list[j]
      BY <1>2
    <2>3. i = j
      <3>1. i \in Int /\ j \in Int /\ i - 1 = j - 1
        BY <1>1, <2>1, <2>2
      <3> QED BY ONLY <3>1
    <2> QED BY <2>1, <2>2, <2>3
  <1> QED BY <1>1, <1>2, <1>3 DEF Entries

LEMMA BodyFields ==
  ASSUME NEW body \in Bodies
  PROVE  /\ body.primary \in TARGETS \cup {Blank} /\ body.aggregator \in TARGETS \cup {Blank}
         /\ body.backups \in Seq(TARGETS \cup {Blank})
         /\ body.proposers \in Seq(TARGETS \cup {Blank})
  <1>1. <<>> \in Seq(TARGETS \cup {Blank})
    OBVIOUS
  <1>2. CASE body = Empty
    BY <1>1, <1>2 DEF Empty
  <1>3. CASE body \in BODIES
    BY <1>3, RoutingAssumption
  <1> QED BY <1>2, <1>3 DEF Bodies

\* An entry of a body has a slot, a position and a target, and slot and
\* position tell which.
LEMMA NamedEntries ==
  ASSUME NEW body \in Bodies
  PROVE  /\ \A r \in Named(body) : r[1] \in Slots /\ r[2] \in Nat /\ r[3] \in TARGETS
         /\ \A r, s \in Named(body) : r[1] = s[1] /\ r[2] = s[2] => r[3] = s[3]
  <1>1. /\ body.primary \in TARGETS \cup {Blank} /\ body.aggregator \in TARGETS \cup {Blank}
        /\ body.backups \in Seq(TARGETS \cup {Blank})
        /\ body.proposers \in Seq(TARGETS \cup {Blank})
    BY BodyFields
  <1> DEFINE P == <<"primary", 0, body.primary>>
             A == <<"aggregator", 0, body.aggregator>>
             B == InOrder("backup", body.backups)
             Q == InOrder("proposer", body.proposers)
  <1>3. \A r \in Named(body) : r[3] # Blank /\ (r = P \/ r = A \/ r \in B \/ r \in Q)
    BY DEF Named
  <1>4. /\ P[1] = "primary" /\ P[2] = 0 /\ P[3] = body.primary
        /\ A[1] = "aggregator" /\ A[2] = 0 /\ A[3] = body.aggregator
    OBVIOUS
  <1>5. Entries(B, "backup") /\ Entries(Q, "proposer")
    BY <1>1, ListEntries
  <1> HIDE DEF P, A, B, Q
  <1> QED BY <1>1, <1>3, <1>4, <1>5 DEF Slots, Entries

LEMMA RowFields ==
  ASSUME NEW o, NEW save, NEW r \in RowsOf(o, save)
  PROVE  r.op = o /\ r.save = save /\ r.model \in Refs(save.body)
  BY DEF RowsOf, Refs

LEMMA RowsOfType ==
  ASSUME NEW o \in OPERATORS, NEW save \in Saves
  PROVE  /\ RowsOf(o, save) \in SUBSET Rows
         /\ Keyed(RowsOf(o, save))
         /\ Whole(RowsOf(o, save))
  <1>1. save.body \in Bodies
    BY DEF Saves
  <1>2. \A r \in RowsOf(o, save) : \E e \in Named(save.body) :
          r = [op |-> o, slot |-> e[1], pos |-> e[2], model |-> e[3], save |-> save]
    BY DEF RowsOf
  <1>3. RowsOf(o, save) \in SUBSET Rows
    BY <1>1, <1>2, NamedEntries DEF Rows
  <1>4. Keyed(RowsOf(o, save))
    <2> SUFFICES ASSUME NEW r \in RowsOf(o, save), NEW s \in RowsOf(o, save), SameKey(r, s)
                 PROVE  r = s
      BY DEF Keyed
    <2>1. PICK e \in Named(save.body) :
            r = [op |-> o, slot |-> e[1], pos |-> e[2], model |-> e[3], save |-> save]
      BY <1>2
    <2>2. PICK f \in Named(save.body) :
            s = [op |-> o, slot |-> f[1], pos |-> f[2], model |-> f[3], save |-> save]
      BY <1>2
    <2>3. e[1] = f[1] /\ e[2] = f[2]
      BY <2>1, <2>2 DEF SameKey
    <2>4. e[3] = f[3]
      BY <1>1, <2>3, NamedEntries
    <2> QED BY <2>1, <2>2, <2>3, <2>4
  <1>5. Whole(RowsOf(o, save))
    BY RowFields DEF Whole
  <1> QED BY <1>3, <1>4, <1>5

\* Taking whole saves away leaves whole saves, and adding some keeps them.
LEMMA WholeWithout ==
  ASSUME NEW A, NEW B, Whole(A), Whole(B)
  PROVE  Whole(A \ B)
  <1> SUFFICES ASSUME NEW r \in A \ B, NEW s \in RowsOf(r.op, r.save), s \in B
               PROVE  FALSE
    BY DEF Whole
  <1>1. s.op = r.op /\ s.save = r.save
    BY RowFields
  <1>2. r \in RowsOf(s.op, s.save)
    BY <1>1 DEF Whole
  <1> QED BY <1>2 DEF Whole

LEMMA WholeWith ==
  ASSUME NEW A, NEW B, Whole(A), Whole(B)
  PROVE  Whole(A \cup B)
  BY DEF Whole

-----------------------------------------------------------------------------
(***************************************************************************)
(* What a handler holds, whatever the tables say.                          *)
(***************************************************************************)
Shape(c) ==
  /\ c.at \in {"delete", "lock", "insert", "commit"} => c.kind = "routes"
  /\ c.at = "count" => c.kind = "updateTarget"
  /\ c.kind = "createTarget" => c.t \in TARGETS /\ c.u \in UPSTREAMS
  /\ c.kind = "deleteTarget" => c.t \in TARGETS
  /\ c.kind = "deleteUpstream" => c.u \in UPSTREAMS
  /\ c.at = "commit" => c.new = RowsOf(c.op, c.save)
  /\ Whole(c.gone)

Handlers == adm \in [ADMINS -> Calls] /\ \A a \in ADMINS : Shape(adm[a])

\* Rows about to be committed clash with nothing that stays.
Apart ==
  \A a \in {x \in ADMINS : adm[x].at = "commit"} :
    /\ ~Clash(adm[a].new, route \ adm[a].gone)
    /\ \A b \in {x \in ADMINS : adm[x].at = "commit"} \ {a} : ~Clash(adm[a].new, adm[b].new)

Stored ==
  /\ upstream \subseteq UPSTREAMS
  /\ target \in Tables
  /\ route \in SUBSET Rows /\ Keyed(route) /\ Whole(route)

Counted ==
  /\ edits \in 0..EDITS /\ faults \in 0..FAULTS
  /\ unannounced \in BOOLEAN /\ raced \subseteq TARGETS \cup UPSTREAMS

TypeInv == Handlers /\ Apart /\ Stored /\ Counted

(***************************************************************************)
(* What the tables and the races owe to each handler.                      *)
(***************************************************************************)
Sound(c) ==
  /\ c.kind = "routes" => Refs(c.save.body) \subseteq DOMAIN target \cup raced
  /\ c.at = "write" /\ c.kind \in {"createTarget", "updateTarget"} /\ c.u # Blank =>
       c.u \in upstream \cup raced
  /\ c.at = "write" /\ c.kind = "deleteTarget" => c.t \in raced \/ \A r \in route : r.model # c.t
  /\ c.at = "write" /\ c.kind = "deleteUpstream" =>
       c.u \in raced \/ \A t \in DOMAIN target : target[t] # c.u

RefsInv ==
  /\ DanglingWasRaced
  /\ \A a \in ADMINS : Sound(adm[a])
  /\ Doomed \cap Wanted \subseteq raced

-----------------------------------------------------------------------------
(***************************************************************************)
(* Every action but Commit and InsertRows gives one handler a record that  *)
(* commits nothing.                                                        *)
(***************************************************************************)
Turn(a, c) ==
  /\ c \in Calls /\ Shape(c) /\ c.at # "commit"
  /\ adm' = [adm EXCEPT ![a] = c]

LEMMA NoCallFacts ==
  /\ NoCall \in Calls
  /\ NoCall.kind = "none" /\ NoCall.at = "idle" /\ NoCall.gone = {}
  <1>1. (CHOOSE o \in OPERATORS : TRUE) \in OPERATORS
    BY RoutingAssumption
  <1>2. NoSave \in Saves
    BY DEF NoSave, Saves, Bodies
  <1> QED BY <1>1, <1>2 DEF NoCall, Calls, Kinds, Places

LEMMA EndTurns ==
  ASSUME NEW a \in ADMINS, End(a)
  PROVE  Turn(a, NoCall)
  BY NoCallFacts DEF End, Turn, Shape, Whole

LEMMA BumpTurns ==
  ASSUME NEW a \in ADMINS, Bump(a)
  PROVE  Turn(a, [NoCall EXCEPT !.at = "bump"])
  <1> DEFINE c == [NoCall EXCEPT !.at = "bump"]
  <1>1. c \in Calls /\ c.at = "bump" /\ c.kind = "none" /\ c.gone = {}
    BY NoCallFacts DEF Calls, Places
  <1>2. adm' = [adm EXCEPT ![a] = c]
    BY DEF Bump
  <1>3. Turn(a, c)
    <2> HIDE DEF c
    <2> QED BY <1>1, <1>2 DEF Turn, Shape, Whole
  <1> QED BY <1>3

\* A handler that goes on in its own call, short of the commit.
LEMMA GotoTurns ==
  ASSUME Handlers, NEW a \in ADMINS, NEW at \in Places \ {"count", "commit"}, Goto(a, at),
         at \in {"delete", "lock", "insert"} => adm[a].kind = "routes"
  PROVE  Turn(a, [adm[a] EXCEPT !.at = at])
  <1> DEFINE c == [adm[a] EXCEPT !.at = at]
  <1>1. adm[a] \in Calls /\ Shape(adm[a])
    BY DEF Handlers
  <1>2. /\ c \in Calls /\ c.at = at /\ c.kind = adm[a].kind /\ c.gone = adm[a].gone
        /\ c.t = adm[a].t /\ c.u = adm[a].u
    BY <1>1 DEF Calls
  <1>3. adm' = [adm EXCEPT ![a] = c]
    BY DEF Goto
  <1>4. Turn(a, c)
    <2> HIDE DEF c
    <2> QED BY <1>1, <1>2, <1>3 DEF Turn, Shape
  <1> QED BY <1>4

LEMMA RoutesTurns ==
  ASSUME TypeInv, NEW a \in ADMINS, NEW o \in OPERATORS, NEW b \in Bodies,
         Arrive(a, OnRoutes(o, b))
  PROVE  Turn(a, OnRoutes(o, b))
  <1> DEFINE c == OnRoutes(o, b)
  <1>1. edits + 1 \in Nat
    BY RoutingAssumption DEF TypeInv, Counted
  <1>2. [n |-> edits + 1, body |-> b] \in Saves
    BY <1>1 DEF Saves
  <1>3. c \in Calls /\ c.at = "delete" /\ c.kind = "routes" /\ c.gone = {}
    BY <1>2, NoCallFacts DEF OnRoutes, Calls, Kinds, Places
  <1>4. adm' = [adm EXCEPT ![a] = c]
    BY DEF Arrive
  <1>5. Turn(a, c)
    <2> HIDE DEF c
    <2> QED BY <1>3, <1>4 DEF Turn, Shape, Whole
  <1> QED BY <1>5

LEMMA OnTargetFacts ==
  ASSUME NEW kind \in Kinds, NEW at \in {"count", "write"}, NEW t \in TARGETS \cup {Blank},
         NEW u \in UPSTREAMS \cup {Blank}
  PROVE  /\ OnTarget(kind, at, t, u) \in Calls
         /\ OnTarget(kind, at, t, u).kind = kind /\ OnTarget(kind, at, t, u).at = at
         /\ OnTarget(kind, at, t, u).t = t /\ OnTarget(kind, at, t, u).u = u
         /\ OnTarget(kind, at, t, u).gone = {}
  BY NoCallFacts DEF OnTarget, Calls, Places

\* A call on targets or upstreams, that counted or that could not.
LEMMA TargetTurns ==
  ASSUME NEW a \in ADMINS, NEW kind \in {"createTarget", "updateTarget", "deleteTarget",
                                         "deleteUpstream"},
         NEW at \in {"count", "write"}, NEW t \in TARGETS \cup {Blank},
         NEW u \in UPSTREAMS \cup {Blank}, at = "count" => kind = "updateTarget",
         kind = "createTarget" => t \in TARGETS /\ u \in UPSTREAMS,
         kind = "deleteTarget" => t \in TARGETS,
         kind = "deleteUpstream" => u \in UPSTREAMS,
         NEW c, c \in {OnTarget(kind, at, t, u), [OnTarget(kind, at, t, u) EXCEPT !.blind = TRUE]},
         Arrive(a, c)
  PROVE  Turn(a, c) /\ c.kind = kind /\ c.at = at /\ c.t = t /\ c.u = u
  <1> DEFINE k == OnTarget(kind, at, t, u)
  <1>1. k \in Calls /\ k.kind = kind /\ k.at = at /\ k.t = t /\ k.u = u /\ k.gone = {}
    BY OnTargetFacts DEF Kinds
  <1>2. c \in {k, [k EXCEPT !.blind = TRUE]}
    OBVIOUS
  <1> HIDE DEF k
  <1>3. c \in Calls /\ c.kind = kind /\ c.at = at /\ c.t = t /\ c.u = u /\ c.gone = {}
    BY <1>1, <1>2 DEF Calls
  <1> QED BY <1>3 DEF Turn, Shape, Whole, Arrive

\* The actions that leave the tables alone: what their handler then holds is
\* sound if what the handlers held was.
Quiet(a) ==
  \E c : /\ Turn(a, c)
         /\ (\A b \in ADMINS : Sound(adm[b])) => Sound(c)'

LEMMA NoneIsSound ==
  ASSUME NEW c, c.kind = "none"
  PROVE  Sound(c)'
  <1>1. ~(c.kind \in {"createTarget", "updateTarget"})
    OBVIOUS
  <1> QED BY <1>1 DEF Sound

LEMMA EndIsQuiet ==
  ASSUME NEW a \in ADMINS, End(a)
  PROVE  Quiet(a)
  BY EndTurns, NoCallFacts, NoneIsSound DEF Quiet

LEMMA CheckIsQuiet ==
  ASSUME TypeInv, NEW a \in ADMINS, CheckTargets(a) \/ WipeRoutes(a)
  PROVE  Quiet(a)
  <1>1. PICK o \in OPERATORS, b \in Bodies :
          Refs(b) \subseteq DOMAIN target /\ Arrive(a, OnRoutes(o, b)) /\ UNCHANGED tables
    <2>1. CASE CheckTargets(a)
      BY <2>1 DEF CheckTargets, Bodies
    <2>2. CASE WipeRoutes(a)
      <3>1. Refs(Empty) = {}
        BY DEF Refs, Named, InOrder, Empty
      <3> QED BY <2>2, <3>1 DEF WipeRoutes, Bodies
    <2> QED BY <2>1, <2>2
  <1>2. PICK c : c = OnRoutes(o, b)
    OBVIOUS
  <1>3. Turn(a, c)
    BY <1>1, <1>2, RoutesTurns
  <1>4. c.kind = "routes" /\ c.at = "delete" /\ c.save.body = b
    BY <1>2, NoCallFacts DEF OnRoutes, Calls
  <1>5. Sound(c)'
    BY <1>1, <1>4 DEF Sound, tables
  <1> QED BY <1>3, <1>5 DEF Quiet

LEMMA CountIsQuiet ==
  ASSUME TypeInv, NEW a \in ADMINS, Watch,
         CountUpstream(a) \/ FindTarget(a) \/ CountRoutes(a) \/ CountTargets(a)
  PROVE  Quiet(a)
  <1>1. target \in [DOMAIN target -> UPSTREAMS] /\ DOMAIN target \subseteq TARGETS
        /\ upstream \subseteq UPSTREAMS /\ adm \in [ADMINS -> Calls]
    BY DEF TypeInv, Stored, Tables, Handlers
  <1>2. CASE CountUpstream(a)
    <2>1. PICK t \in TARGETS, u \in upstream : Arrive(a, OnTarget("createTarget", "write", t, u))
      BY <1>2 DEF CountUpstream
    <2>2. PICK c : c = OnTarget("createTarget", "write", t, u)
      OBVIOUS
    <2>3. Turn(a, c) /\ c.kind = "createTarget" /\ c.u = u
      BY <1>1, <2>1, <2>2, TargetTurns
    <2>4. Sound(c)'
      BY <1>2, <2>3 DEF Sound, CountUpstream, tables
    <2> QED BY <2>3, <2>4 DEF Quiet
  <1>3. CASE FindTarget(a)
    <2>1. PICK t \in DOMAIN target, u \in UPSTREAMS \cup {Blank}, at \in {"count", "write"} :
            /\ Arrive(a, OnTarget("updateTarget", at, t, u))
            /\ at = "write" => u = Blank
      BY <1>3 DEF FindTarget
    <2>2. PICK c : c = OnTarget("updateTarget", at, t, u)
      OBVIOUS
    <2>3. Turn(a, c) /\ c.kind = "updateTarget" /\ c.at = at /\ c.u = u
      BY <1>1, <2>1, <2>2, TargetTurns
    <2>4. Sound(c)'
      BY <2>1, <2>3 DEF Sound
    <2> QED BY <2>3, <2>4 DEF Quiet
  <1>4. CASE CountRoutes(a)
    <2>0. PICK t \in TARGETS : \E c :
            /\ c \in {OnTarget("deleteTarget", "write", t, Blank),
                      [OnTarget("deleteTarget", "write", t, Blank) EXCEPT !.blind = TRUE]}
            /\ Arrive(a, c)
            /\ c.blind \/ \A r \in route : r.model # t
      BY <1>4, OnTargetFacts DEF CountRoutes, Calls, Kinds
    <2>1. PICK c :
            /\ c \in {OnTarget("deleteTarget", "write", t, Blank),
                      [OnTarget("deleteTarget", "write", t, Blank) EXCEPT !.blind = TRUE]}
            /\ Arrive(a, c)
            /\ c.blind \/ \A r \in route : r.model # t
      BY <2>0
    <2>2. Turn(a, c) /\ c.kind = "deleteTarget" /\ c.t = t
      BY <2>1, TargetTurns
    <2>3. c.blind => t \in raced'
      BY <1>1, <2>1, <2>2, RoutingAssumption DEF Watch, Miscounted, Turn
    <2>4. Sound(c)'
      BY <1>4, <2>1, <2>2, <2>3 DEF Sound, CountRoutes, tables
    <2> QED BY <2>2, <2>4 DEF Quiet
  <1>5. CASE CountTargets(a)
    <2>0. PICK u \in UPSTREAMS : \E c :
            /\ c \in {OnTarget("deleteUpstream", "write", Blank, u),
                      [OnTarget("deleteUpstream", "write", Blank, u) EXCEPT !.blind = TRUE]}
            /\ Arrive(a, c)
            /\ c.blind \/ \A t \in DOMAIN target : target[t] # u
      BY <1>5, OnTargetFacts DEF CountTargets, Calls, Kinds
    <2>1. PICK c :
            /\ c \in {OnTarget("deleteUpstream", "write", Blank, u),
                      [OnTarget("deleteUpstream", "write", Blank, u) EXCEPT !.blind = TRUE]}
            /\ Arrive(a, c)
            /\ c.blind \/ \A t \in DOMAIN target : target[t] # u
      BY <2>0
    <2>2. Turn(a, c) /\ c.kind = "deleteUpstream" /\ c.u = u
      BY <2>1, TargetTurns
    <2>3. c.blind => u \in raced'
      BY <1>1, <2>1, <2>2, RoutingAssumption DEF Watch, Miscounted, Turn
    <2>4. Sound(c)'
      BY <1>5, <2>1, <2>2, <2>3 DEF Sound, CountTargets, tables
    <2> QED BY <2>2, <2>4 DEF Quiet
  <1> QED BY <1>2, <1>3, <1>4, <1>5

LEMMA StepIsQuiet ==
  ASSUME TypeInv, NEW a \in ADMINS, Watch,
         StartDelete(a) \/ LockRows(a) \/ CountNewUpstream(a) \/ BumpVersion(a) \/ Fails(a)
  PROVE  Quiet(a)
  <1>1. adm[a] \in Calls /\ Shape(adm[a])
    BY DEF TypeInv, Handlers
  <1>2. raced \subseteq raced'
    BY DEF Watch
  <1>3. CASE StartDelete(a)
    <2>1. PICK c : c = [adm[a] EXCEPT !.at = "lock", !.gone = Of(adm[a].op)]
      OBVIOUS
    <2>2. Of(adm[a].op) \in SUBSET Rows /\ Whole(Of(adm[a].op))
      <3> SUFFICES ASSUME NEW r \in route, r.op = adm[a].op, NEW s \in RowsOf(r.op, r.save)
                   PROVE  s \in Of(adm[a].op)
        BY DEF TypeInv, Stored, Of, Whole
      <3> QED BY RowFields DEF TypeInv, Stored, Of, Whole
    <2>3. /\ c \in Calls /\ c.at = "lock" /\ c.kind = adm[a].kind /\ c.save = adm[a].save
          /\ c.gone = Of(adm[a].op)
      BY <1>1, <2>1, <2>2 DEF Calls, Places
    <2>4. adm[a].kind = "routes" /\ adm' = [adm EXCEPT ![a] = c]
      BY <1>1, <1>3, <2>1 DEF StartDelete, Shape
    <2>5. Turn(a, c)
      BY <2>2, <2>3, <2>4 DEF Turn, Shape
    <2>6. Sound(adm[a]) => Sound(c)'
      BY <1>2, <1>3, <2>3, <2>4 DEF Sound, StartDelete, tables
    <2> QED BY <2>5, <2>6 DEF Quiet
  <1>4. CASE LockRows(a)
    <2>1. PICK c : c = [adm[a] EXCEPT !.at = "insert"]
      OBVIOUS
    <2>2. c.at = "insert" /\ c.kind = adm[a].kind /\ c.save = adm[a].save
      BY <1>1, <2>1 DEF Calls
    <2>3. adm[a].kind = "routes"
      BY <1>1, <1>4 DEF LockRows, Shape
    <2>4. Turn(a, c)
      BY <1>4, <2>1, <2>3, GotoTurns DEF LockRows, Places, TypeInv
    <2>5. Sound(adm[a]) => Sound(c)'
      BY <1>2, <1>4, <2>2, <2>3 DEF Sound, LockRows, tables
    <2> QED BY <2>4, <2>5 DEF Quiet
  <1>5. CASE CountNewUpstream(a)
    <2>1. CASE adm[a].u \notin upstream
      BY <1>5, <2>1, EndIsQuiet DEF CountNewUpstream
    <2>2. CASE adm[a].u \in upstream
      <3>1. PICK c : c = [adm[a] EXCEPT !.at = "write"]
        OBVIOUS
      <3>2. c.at = "write" /\ c.kind = adm[a].kind /\ c.u = adm[a].u
        BY <1>1, <3>1 DEF Calls
      <3>3. adm[a].kind = "updateTarget"
        BY <1>1, <1>5 DEF CountNewUpstream, Shape
      <3>4. Turn(a, c)
        BY <1>5, <2>2, <3>1, GotoTurns DEF CountNewUpstream, Places, TypeInv
      <3>5. Sound(c)'
        BY <1>5, <2>2, <3>2, <3>3 DEF Sound, CountNewUpstream, tables
      <3> QED BY <3>4, <3>5 DEF Quiet
    <2> QED BY <2>1, <2>2
  <1>6. CASE BumpVersion(a)
    BY <1>6, EndIsQuiet DEF BumpVersion
  <1>7. CASE Fails(a)
    BY <1>7, EndIsQuiet DEF Fails
  <1> QED BY <1>3, <1>4, <1>5, <1>6, <1>7

\* The writes outside a transaction end the call or go on to the bump.
LEMMA WriteTurns ==
  ASSUME NEW a \in ADMINS,
         CreateTarget(a) \/ UpdateTarget(a) \/ DeleteTarget(a) \/ DeleteUpstream(a)
  PROVE  \E c : Turn(a, c) /\ c.kind = "none"
  <1>1. End(a) \/ Bump(a)
    BY DEF CreateTarget, UpdateTarget, DeleteTarget, DeleteUpstream
  <1>2. [NoCall EXCEPT !.at = "bump"].kind = "none"
    BY NoCallFacts DEF Calls
  <1> QED BY <1>1, <1>2, EndTurns, BumpTurns, NoCallFacts

-----------------------------------------------------------------------------
(***************************************************************************)
(* Types, keys and whole saves.                                            *)
(***************************************************************************)
LEMMA TurnType ==
  ASSUME Handlers, Apart, NEW a \in ADMINS, NEW c, Turn(a, c), UNCHANGED route
  PROVE  Handlers' /\ Apart'
  <1>1. adm' \in [ADMINS -> Calls] /\ \A b \in ADMINS : adm'[b] = IF b = a THEN c ELSE adm[b]
    BY DEF Handlers, Turn
  <1>2. \A b \in ADMINS : Shape(adm'[b])
    BY <1>1 DEF Handlers, Turn
  <1>3. \A b \in ADMINS : adm'[b].at = "commit" => b # a /\ adm'[b] = adm[b]
    BY <1>1 DEF Turn
  <1>4. Apart'
    BY <1>3 DEF Apart
  <1> QED BY <1>1, <1>2, <1>4 DEF Handlers

LEMMA InsertType ==
  ASSUME TypeInv, NEW a \in ADMINS, InsertRows(a)
  PROVE  Handlers' /\ Apart' /\ UNCHANGED tables
  <1> DEFINE rows == RowsOf(adm[a].op, adm[a].save)
             c == [adm[a] EXCEPT !.at = "commit", !.new = rows]
  <1>1. CASE End(a)
    BY <1>1, EndTurns, TurnType DEF InsertRows, TypeInv, tables
  <1>2. CASE adm' = [adm EXCEPT ![a].at = "commit", ![a].new = rows]
             /\ ~Clash(rows, route \ adm[a].gone)
    <2>1. adm[a] \in Calls /\ Shape(adm[a]) /\ adm \in [ADMINS -> Calls] /\ adm[a].at = "insert"
      BY DEF TypeInv, Handlers, InsertRows
    <2>2. rows \in SUBSET Rows
      BY <2>1, RowsOfType DEF Calls
    <2>3. /\ c \in Calls /\ c.at = "commit" /\ c.new = rows /\ c.gone = adm[a].gone
          /\ c.kind = adm[a].kind /\ c.op = adm[a].op /\ c.save = adm[a].save
      BY <2>1, <2>2 DEF Calls, Places
    <2>4. adm' \in [ADMINS -> Calls] /\ \A b \in ADMINS : adm'[b] = IF b = a THEN c ELSE adm[b]
      BY <1>2, <2>1, <2>3
    <2>5. Shape(c)
      <3> HIDE DEF c
      <3> QED BY <2>1, <2>3 DEF Shape
    <2>6. Handlers'
      BY <2>4, <2>5 DEF TypeInv, Handlers
    <2>7. \A b \in ADMINS \ {a} : adm[b].at = "commit" => ~Clash(rows, adm[b].new)
      BY DEF InsertRows, Holders, Held, Clash
    <2>8. \A b \in ADMINS \ {a} : adm[b].at = "commit" => ~Clash(adm[b].new, rows)
      BY <2>7 DEF Clash, SameKey
    <2>9. Apart'
      <3> HIDE DEF c, rows
      <3>1. route' = route
        BY DEF InsertRows, tables
      <3> QED BY <1>2, <2>3, <2>4, <2>7, <2>8, <3>1 DEF Apart, TypeInv
    <2> QED BY <2>6, <2>9 DEF InsertRows
  <1> QED BY <1>1, <1>2 DEF InsertRows

LEMMA CrowdedFacts ==
  ASSUME NEW c \in Calls, NEW d \in {c, [c EXCEPT !.crowded = TRUE]}
  PROVE  /\ d \in Calls
         /\ d.kind = c.kind /\ d.at = c.at /\ d.op = c.op /\ d.save = c.save
         /\ d.t = c.t /\ d.u = c.u /\ d.gone = c.gone /\ d.new = c.new
  BY DEF Calls

\* A commit ends its own call, and tells the others of the operator.
LEMMA CommitTurns ==
  ASSUME Handlers, NEW a \in ADMINS, Commit(a)
  PROVE  /\ adm' \in [ADMINS -> Calls]
         /\ adm'[a].kind = "none" /\ adm'[a].at = "bump" /\ Shape(adm'[a])
         /\ \A b \in ADMINS \ {a} :
              /\ adm'[b] \in {adm[b], [adm[b] EXCEPT !.crowded = TRUE]}
              /\ adm'[b].kind = adm[b].kind /\ adm'[b].at = adm[b].at
              /\ adm'[b].op = adm[b].op /\ adm'[b].save = adm[b].save
              /\ adm'[b].t = adm[b].t /\ adm'[b].u = adm[b].u
              /\ adm'[b].gone = adm[b].gone /\ adm'[b].new = adm[b].new
  <1> DEFINE e == [NoCall EXCEPT !.at = "bump"]
  <1>1. e \in Calls /\ e.kind = "none" /\ e.at = "bump" /\ e.gone = {}
    BY NoCallFacts DEF Calls, Places
  <1>2. Shape(e)
    <2> HIDE DEF e
    <2> QED BY <1>1 DEF Shape, Whole
  <1> DEFINE F(b) == CASE b = a -> e
                       [] b # a /\ adm[b].op = adm[a].op
                            /\ adm[b].at \in {"lock", "insert", "commit"} ->
                            [adm[b] EXCEPT !.crowded = TRUE]
                       [] OTHER -> adm[b]
  <1>3. /\ DOMAIN adm' = ADMINS
        /\ adm' = [b \in ADMINS |-> adm'[b]]
        /\ adm'[a] = e
        /\ \A b \in ADMINS \ {a} : adm'[b] \in {adm[b], [adm[b] EXCEPT !.crowded = TRUE]}
    <2>1. adm' = [b \in ADMINS |-> F(b)]
      BY DEF Commit
    <2>2. F(a) = e
      OBVIOUS
    <2>3. ASSUME NEW b \in ADMINS \ {a}
          PROVE  F(b) \in {adm[b], [adm[b] EXCEPT !.crowded = TRUE]}
      <3>1. CASE adm[b].op = adm[a].op /\ adm[b].at \in {"lock", "insert", "commit"}
        BY <3>1
      <3>2. CASE ~(adm[b].op = adm[a].op /\ adm[b].at \in {"lock", "insert", "commit"})
        BY <3>2
      <3> QED BY <3>1, <3>2
    <2> HIDE DEF F
    <2> QED BY <2>1, <2>2, <2>3
  <1>4. \A b \in ADMINS \ {a} : adm[b] \in Calls
    BY DEF Handlers
  <1>5. \A b \in ADMINS \ {a} :
          /\ adm'[b] \in Calls
          /\ adm'[b].kind = adm[b].kind /\ adm'[b].at = adm[b].at
          /\ adm'[b].op = adm[b].op /\ adm'[b].save = adm[b].save
          /\ adm'[b].t = adm[b].t /\ adm'[b].u = adm[b].u
          /\ adm'[b].gone = adm[b].gone /\ adm'[b].new = adm[b].new
    <2> SUFFICES ASSUME NEW b \in ADMINS \ {a}
                 PROVE  /\ adm'[b] \in Calls
                        /\ adm'[b].kind = adm[b].kind /\ adm'[b].at = adm[b].at
                        /\ adm'[b].op = adm[b].op /\ adm'[b].save = adm[b].save
                        /\ adm'[b].t = adm[b].t /\ adm'[b].u = adm[b].u
                        /\ adm'[b].gone = adm[b].gone /\ adm'[b].new = adm[b].new
      OBVIOUS
    <2>0. PICK c \in Calls : c = adm[b]
      BY ONLY <1>4
    <2>1. PICK d : d = adm'[b] /\ d \in {c, [c EXCEPT !.crowded = TRUE]}
      BY ONLY <1>3, <2>0
    <2> QED BY <2>0, <2>1, CrowdedFacts
  <1> HIDE DEF e
  <1> QED BY <1>1, <1>2, <1>3, <1>5

LEMMA CommitType ==
  ASSUME TypeInv, NEW a \in ADMINS, Commit(a)
  PROVE  Handlers' /\ Apart' /\ Stored'
  <1> DEFINE gone == adm[a].gone
             new == adm[a].new
  <1>1. /\ adm[a] \in Calls /\ Shape(adm[a]) /\ adm[a].at = "commit"
        /\ new = RowsOf(adm[a].op, adm[a].save)
    BY DEF TypeInv, Handlers, Shape, Commit
  <1>2. new \in SUBSET Rows /\ Keyed(new) /\ Whole(new) /\ Whole(gone)
    BY <1>1, RowsOfType DEF Calls, Shape
  <1>3. route' = (route \ gone) \cup new
    BY DEF Commit
  <1>4. Handlers'
    <2>1. \A b \in ADMINS \ {a} : Shape(adm'[b])
      BY CommitTurns DEF TypeInv, Handlers, Shape
    <2> QED BY <2>1, CommitTurns DEF TypeInv, Handlers
  <1>5. ~Clash(new, route \ gone)
    BY <1>1 DEF TypeInv, Apart
  <1> HIDE DEF gone, new
  <1>6. Apart'
    <2> SUFFICES ASSUME NEW b \in ADMINS, adm'[b].at = "commit"
                 PROVE  /\ ~Clash(adm'[b].new, route' \ adm'[b].gone)
                        /\ \A d \in ADMINS \ {b} :
                             adm'[d].at = "commit" => ~Clash(adm'[b].new, adm'[d].new)
      BY DEF Apart
    <2>1. b # a /\ adm[b].at = "commit" /\ adm'[b].new = adm[b].new /\ adm'[b].gone = adm[b].gone
      BY CommitTurns DEF TypeInv
    <2>2. ~Clash(adm[b].new, route \ adm[b].gone) /\ ~Clash(adm[b].new, new)
      BY <1>1, <2>1 DEF TypeInv, Apart, new
    <2>3. ~Clash(adm'[b].new, route' \ adm'[b].gone)
      BY <1>3, <2>1, <2>2 DEF Clash
    <2>4. ASSUME NEW d \in ADMINS \ {b}, adm'[d].at = "commit"
          PROVE  ~Clash(adm'[b].new, adm'[d].new)
      <3>1. d # a /\ adm[d].at = "commit" /\ adm'[d].new = adm[d].new
        BY <2>4, CommitTurns DEF TypeInv
      <3> QED BY <2>1, <3>1 DEF TypeInv, Apart
    <2> QED BY <2>3, <2>4
  <1>7. Keyed(route')
    <2>1. Keyed(route)
      BY DEF TypeInv, Stored
    <2> SUFFICES ASSUME NEW r \in route', NEW s \in route', SameKey(r, s)
                 PROVE  r = s
      BY DEF Keyed
    <2>2. SameKey(s, r)
      BY DEF SameKey
    <2> QED BY <1>2, <1>3, <1>5, <2>1, <2>2 DEF Keyed, Clash
  <1>8. Whole(route')
    <2>1. Whole(route \ gone)
      BY <1>2, WholeWithout DEF TypeInv, Stored
    <2> QED BY <1>2, <1>3, <2>1, WholeWith
  <1>9. Stored'
    BY <1>2, <1>3, <1>7, <1>8 DEF TypeInv, Stored, Commit
  <1> QED BY <1>4, <1>6, <1>9

\* A target gets an upstream, or goes.
LEMMA TargetTables ==
  ASSUME TypeInv, NEW a \in ADMINS,
         CreateTarget(a) \/ UpdateTarget(a) \/ DeleteTarget(a)
  PROVE  target' \in Tables
  <1>1. target \in [DOMAIN target -> UPSTREAMS] /\ DOMAIN target \in SUBSET TARGETS
    BY DEF TypeInv, Stored, Tables
  <1>2. adm[a] \in Calls /\ Shape(adm[a])
    BY DEF TypeInv, Handlers
  <1>3. CASE CreateTarget(a)
    <2>1. adm[a].t \in TARGETS /\ adm[a].u \in UPSTREAMS
      BY <1>2, <1>3 DEF CreateTarget, At, Shape
    <2>2. CASE UNCHANGED target
      BY <2>2 DEF TypeInv, Stored
    <2>3. CASE target' = [t \in DOMAIN target \cup {adm[a].t} |->
                            IF t = adm[a].t THEN adm[a].u ELSE target[t]]
      <3>1. target' \in [DOMAIN target \cup {adm[a].t} -> UPSTREAMS]
        BY <1>1, <2>1, <2>3
      <3>2. DOMAIN target \cup {adm[a].t} \in SUBSET TARGETS
        BY <1>1, <2>1
      <3> QED BY <3>1, <3>2 DEF Tables
    <2> QED BY <1>3, <2>2, <2>3 DEF CreateTarget
  <1>4. CASE UpdateTarget(a)
    <2>1. target' \in [DOMAIN target -> UPSTREAMS]
      BY <1>1, <1>2, <1>4 DEF UpdateTarget, Calls
    <2> QED BY <1>1, <2>1 DEF Tables
  <1>5. CASE DeleteTarget(a)
    <2>1. target' \in [DOMAIN target \ {adm[a].t} -> UPSTREAMS]
      BY <1>1, <1>5 DEF DeleteTarget
    <2>2. DOMAIN target \ {adm[a].t} \in SUBSET TARGETS
      BY <1>1
    <2> QED BY <2>1, <2>2 DEF Tables
  <1> QED BY <1>3, <1>4, <1>5

LEMMA InitType == Init => TypeInv
  <1> SUFFICES ASSUME Init
               PROVE  TypeInv
    OBVIOUS
  <1>1. adm \in [ADMINS -> Calls] /\ \A a \in ADMINS : adm[a] = NoCall
    BY NoCallFacts DEF Init
  <1>2. Shape(NoCall)
    BY NoCallFacts DEF Shape, Whole
  <1>3. Handlers /\ Apart
    BY <1>1, <1>2, NoCallFacts DEF Handlers, Apart
  <1>4. Stored
    BY DEF Init, Stored, Tables, Keyed, Whole
  <1>5. Counted
    <2>1. edits \in 0..EDITS /\ faults \in 0..FAULTS
      BY RoutingAssumption DEF Init
    <2>2. unannounced \in BOOLEAN /\ raced \subseteq TARGETS \cup UPSTREAMS
      BY DEF Init
    <2> QED BY <2>1, <2>2 DEF Counted
  <1> QED BY <1>3, <1>4, <1>5 DEF TypeInv

\* Ids that are doomed or miscounted are ids of the two tables.
LEMMA RacedType ==
  ASSUME Counted, Handlers', Watch
  PROVE  raced' \subseteq TARGETS \cup UPSTREAMS
  <1>1. Doomed' \subseteq TARGETS \cup UPSTREAMS
    BY DEF Doomed, At, Handlers, Shape
  <1>2. Miscounted' \subseteq TARGETS \cup UPSTREAMS \cup {Blank}
    BY DEF Miscounted, Handlers, Calls
  <1> QED BY <1>1, <1>2 DEF Counted, Watch

LEMMA CountersType ==
  ASSUME TypeInv, NEW a \in ADMINS, AdminStep(a) \/ AdminCall(a) \/ Fails(a)
  PROVE  edits' \in 0..EDITS /\ faults' \in 0..FAULTS /\ unannounced' \in BOOLEAN
  <1>1. edits \in 0..EDITS /\ faults \in 0..FAULTS /\ unannounced \in BOOLEAN
    BY DEF TypeInv, Counted
  <1>2. CASE AdminStep(a)
    BY <1>1, <1>2
    DEF AdminStep, StartDelete, LockRows, InsertRows, Commit, CreateTarget, CountNewUpstream,
        UpdateTarget, DeleteTarget, DeleteUpstream, BumpVersion
  <1>3. CASE AdminCall(a)
    <2>1. UNCHANGED unannounced /\ (UNCHANGED faults \/ Fault) /\ edits < EDITS /\ edits' = edits + 1
      BY <1>3 DEF AdminCall, CheckTargets, WipeRoutes, CountUpstream, FindTarget, CountRoutes,
                  CreateUpstream, CountTargets, Arrive
    <2> QED BY <1>1, <2>1, RoutingAssumption DEF Fault
  <1>4. CASE Fails(a)
    BY <1>1, <1>4, RoutingAssumption DEF Fails, Fault
  <1> QED BY <1>2, <1>3, <1>4

\* The quiet actions of all three parts of Next.
QuietStep(a) ==
  \/ CheckTargets(a) \/ WipeRoutes(a) \/ CountUpstream(a) \/ FindTarget(a) \/ CountRoutes(a)
  \/ CountTargets(a)
  \/ StartDelete(a) \/ LockRows(a) \/ CountNewUpstream(a) \/ BumpVersion(a) \/ Fails(a)

LEMMA QuietSteps ==
  ASSUME TypeInv, NEW a \in ADMINS, Watch, QuietStep(a)
  PROVE  Quiet(a) /\ UNCHANGED tables
  <1>1. Quiet(a)
    BY CheckIsQuiet, CountIsQuiet, StepIsQuiet DEF QuietStep
  <1>2. UNCHANGED tables
    BY DEF QuietStep, CheckTargets, WipeRoutes, CountUpstream, FindTarget, CountRoutes,
           CountTargets, StartDelete, LockRows, CountNewUpstream, BumpVersion, Fails
  <1> QED BY <1>1, <1>2

LEMMA NextCases ==
  ASSUME Next
  PROVE  \E a \in ADMINS :
           /\ Watch
           /\ AdminStep(a) \/ AdminCall(a) \/ Fails(a)
           /\ \/ QuietStep(a) \/ InsertRows(a) \/ Commit(a)
              \/ CreateTarget(a) \/ UpdateTarget(a) \/ DeleteTarget(a)
              \/ CreateUpstream(a) \/ DeleteUpstream(a)
  BY DEF Next, AdminStep, AdminCall, QuietStep

LEMMA StepType ==
  ASSUME TypeInv, Next
  PROVE  TypeInv'
  <1>1. PICK a \in ADMINS :
          /\ Watch
          /\ AdminStep(a) \/ AdminCall(a) \/ Fails(a)
          /\ \/ QuietStep(a) \/ InsertRows(a) \/ Commit(a)
             \/ CreateTarget(a) \/ UpdateTarget(a) \/ DeleteTarget(a)
             \/ CreateUpstream(a) \/ DeleteUpstream(a)
    BY NextCases
  <1>2. Handlers' /\ Apart' /\ Stored'
    <2>1. CASE QuietStep(a)
      <3>1. PICK c : Turn(a, c)
        BY <1>1, <2>1, QuietSteps DEF Quiet
      <3>2. UNCHANGED tables
        BY <1>1, <2>1, QuietSteps
      <3> QED BY <3>1, <3>2, TurnType DEF TypeInv, Stored, tables
    <2>2. CASE InsertRows(a)
      BY <2>2, InsertType DEF TypeInv, Stored, tables
    <2>3. CASE Commit(a)
      BY <2>3, CommitType
    <2>4. CASE CreateTarget(a) \/ UpdateTarget(a) \/ DeleteTarget(a)
      <3>1. PICK c : Turn(a, c)
        BY <2>4, WriteTurns
      <3>2. UNCHANGED <<upstream, route>>
        BY <2>4 DEF CreateTarget, UpdateTarget, DeleteTarget
      <3>3. target' \in Tables
        BY <2>4, TargetTables
      <3> QED BY <3>1, <3>2, <3>3, TurnType DEF TypeInv, Stored
    <2>5. CASE CreateUpstream(a)
      BY <2>5 DEF CreateUpstream, TypeInv, Handlers, Apart, Stored
    <2>6. CASE DeleteUpstream(a)
      <3>1. PICK c : Turn(a, c)
        BY <2>6, WriteTurns
      <3>2. UNCHANGED <<target, route>> /\ upstream' = upstream \ {adm[a].u}
        BY <2>6 DEF DeleteUpstream
      <3> QED BY <3>1, <3>2, TurnType DEF TypeInv, Stored
    <2> QED BY <1>1, <2>1, <2>2, <2>3, <2>4, <2>5, <2>6
  <1>3. Counted'
    BY <1>1, <1>2, CountersType, RacedType DEF TypeInv, Counted
  <1> QED BY <1>2, <1>3 DEF TypeInv

LEMMA IdleType == TypeInv /\ UNCHANGED vars => TypeInv'
  BY DEF vars, TypeInv, Handlers, Apart, Stored, Counted

\* The inductive form of the types: no statement of the routing endpoints, nor
\* two transactions at once, makes a malformed table, a clash of keys or a
\* handler whose rows are not those of its save.
THEOREM TypeInvariant == Spec => []TypeInv
  <1>1. TypeInv /\ [Next]_vars => TypeInv'
    BY StepType, IdleType
  <1> QED BY InitType, <1>1, PTL DEF Spec

\* The tables are well formed, every handler holds a legal state, and no two
\* rows of source_family_routes share a key.
THEOREM TypeCorrect == Spec => []TypeOK
  <1>1. TypeInv => TypeOK
    BY DEF TypeInv, Handlers, Stored, Counted, Keyed, Tables, TypeOK, Rows, Calls, Kinds, Places
  <1> QED BY <1>1, TypeInvariant, PTL

\* Whatever upserts of one operator overlap, none leaves a part of its rows, nor
\* loses a part (AdminUpsertSourceFamilyOperator's transaction).
THEOREM SavesStayWhole == Spec => []SavesAreWhole
  <1>1. TypeInv => SavesAreWhole
    BY DEF TypeInv, Stored, Whole, SavesAreWhole
  <1> QED BY <1>1, TypeInvariant, PTL

-----------------------------------------------------------------------------
(***************************************************************************)
(* References.                                                             *)
(***************************************************************************)
LEMMA InitRefs == Init => RefsInv
  <1> SUFFICES ASSUME Init
               PROVE  RefsInv
    OBVIOUS
  <1>1. \A a \in ADMINS : adm[a] = NoCall
    BY DEF Init
  <1>2. DanglingWasRaced
    BY DEF Init, DanglingWasRaced
  <1>3. \A a \in ADMINS : Sound(adm[a])
    BY <1>1, NoCallFacts DEF Sound
  <1>4. Doomed = {}
    BY <1>1, NoCallFacts DEF Doomed, At
  <1> QED BY <1>2, <1>3, <1>4 DEF RefsInv

\* A doomed id that a handler wants has raced.
LEMMA WantedRoutes ==
  ASSUME RefsInv, NEW a \in ADMINS, NEW b \in ADMINS, adm[b].kind = "routes",
         adm[a].at = "write"
  PROVE  /\ adm[a].kind = "deleteTarget" /\ adm[a].t \in Refs(adm[b].save.body) =>
              adm[a].t \in raced
         /\ adm[a].kind = "deleteUpstream" /\ adm[a].u \in Refs(adm[b].save.body) =>
              adm[a].u \in raced
  BY DEF RefsInv, Doomed, Wanted, At

LEMMA WantedUpstream ==
  ASSUME RefsInv, NEW a \in ADMINS, NEW b \in ADMINS, adm[a].at = "write",
         adm[a].kind = "deleteUpstream", adm[b].at = "write",
         adm[b].kind \in {"createTarget", "updateTarget"}, adm[b].u = adm[a].u
  PROVE  adm[a].u \in raced
  BY DEF RefsInv, Doomed, Wanted, At


\* What the writes leave of the handlers: their own has ended.
LEMMA OtherHandlers ==
  ASSUME TypeInv, NEW a \in ADMINS,
         \/ Commit(a) \/ CreateTarget(a) \/ UpdateTarget(a) \/ DeleteTarget(a)
         \/ DeleteUpstream(a)
  PROVE  /\ adm'[a].kind = "none"
         /\ \A b \in ADMINS \ {a} :
              /\ adm'[b].kind = adm[b].kind /\ adm'[b].at = adm[b].at
              /\ adm'[b].save = adm[b].save /\ adm'[b].t = adm[b].t /\ adm'[b].u = adm[b].u
  <1>1. CASE Commit(a)
    BY <1>1, CommitTurns DEF TypeInv
  <1>2. CASE CreateTarget(a) \/ UpdateTarget(a) \/ DeleteTarget(a) \/ DeleteUpstream(a)
    <2>1. PICK c : Turn(a, c) /\ c.kind = "none"
      BY <1>2, WriteTurns
    <2> QED BY <2>1 DEF Turn, TypeInv, Handlers
  <1> QED BY <1>1, <1>2

LEMMA InsertRefs ==
  ASSUME TypeInv, RefsInv, NEW a \in ADMINS, InsertRows(a), raced \subseteq raced'
  PROVE  DanglingWasRaced' /\ \A b \in ADMINS : Sound(adm[b])'
  <1>1. UNCHANGED tables
    BY InsertType
  <1>2. adm[a] \in Calls /\ adm[a].kind = "routes" /\ adm \in [ADMINS -> Calls]
    BY DEF TypeInv, Handlers, Shape, InsertRows
  <1>3. /\ adm'[a].kind \in {"none", "routes"}
        /\ adm'[a].kind = "routes" => adm'[a].save = adm[a].save
        /\ \A b \in ADMINS \ {a} : adm'[b] = adm[b]
    <2>1. CASE End(a)
      BY <1>2, <2>1, NoCallFacts DEF End
    <2>2. CASE adm' = [adm EXCEPT ![a].at = "commit", ![a].new = RowsOf(adm[a].op, adm[a].save)]
      BY <1>2, <2>2 DEF Calls
    <2> QED BY <2>1, <2>2 DEF InsertRows
  <1>4. \A b \in ADMINS : Sound(adm[b])'
    <2>1. \A b \in ADMINS \ {a} : Sound(adm[b])'
      BY <1>1, <1>3 DEF RefsInv, Sound, tables
    <2>2. Sound(adm[a])
      BY DEF RefsInv
    <2>3. Sound(adm[a])'
      BY <1>1, <1>2, <1>3, <2>2 DEF Sound, tables
    <2> QED BY <2>1, <2>3
  <1>5. DanglingWasRaced'
    BY <1>1 DEF RefsInv, DanglingWasRaced, tables
  <1> QED BY <1>4, <1>5

LEMMA CommitRefs ==
  ASSUME TypeInv, RefsInv, NEW a \in ADMINS, Commit(a), raced \subseteq raced'
  PROVE  DanglingWasRaced' /\ \A b \in ADMINS : Sound(adm[b])'
  <1>1. /\ adm[a].kind = "routes" /\ adm[a].new = RowsOf(adm[a].op, adm[a].save)
        /\ Sound(adm[a]) /\ DanglingWasRaced
    BY DEF TypeInv, Handlers, Shape, Commit, RefsInv
  <1>2. \A r \in route' : r \in route \/ r.model \in Refs(adm[a].save.body)
    BY <1>1, RowFields DEF Commit
  <1>3. UNCHANGED <<upstream, target>>
    BY DEF Commit
  <1>4. DanglingWasRaced'
    BY <1>1, <1>2, <1>3 DEF DanglingWasRaced, Sound
  <1>5. ASSUME NEW b \in ADMINS \ {a}
        PROVE  Sound(adm[b])'
    <2>1. Sound(adm[b])
      BY DEF RefsInv
    <2>2. adm[b].at = "write" /\ adm[b].kind = "deleteTarget" =>
            adm[b].t \in raced \/ \A r \in route' : r.model # adm[b].t
      BY <1>1, <1>2, <2>1, WantedRoutes DEF Sound
    <2> QED BY <1>3, <2>1, <2>2, OtherHandlers DEF Sound
  <1>6. Sound(adm[a])'
    BY OtherHandlers DEF Sound
  <1> QED BY <1>4, <1>5, <1>6

\* A target gets an upstream, which the handler found or somebody deleted since.
LEMMA TargetRefs ==
  ASSUME TypeInv, RefsInv, NEW a \in ADMINS, CreateTarget(a) \/ UpdateTarget(a),
         raced \subseteq raced'
  PROVE  DanglingWasRaced' /\ \A b \in ADMINS : Sound(adm[b])'
  <1>1. /\ Sound(adm[a]) /\ DanglingWasRaced /\ Shape(adm[a])
        /\ adm[a].at = "write" /\ adm[a].kind \in {"createTarget", "updateTarget"}
    BY DEF TypeInv, Handlers, RefsInv, CreateTarget, UpdateTarget, At
  <1>2. /\ DOMAIN target \subseteq DOMAIN target'
        /\ \A t \in DOMAIN target' : \/ t \in DOMAIN target /\ target'[t] = target[t]
                                     \/ adm[a].u # Blank /\ target'[t] = adm[a].u
    <2>1. CASE CreateTarget(a)
      <3>1. adm[a].u # Blank
        BY <1>1, <2>1, RoutingAssumption DEF CreateTarget, At, Shape
      <3> QED BY <2>1, <3>1 DEF CreateTarget
    <2>2. CASE UpdateTarget(a)
      BY <2>2 DEF UpdateTarget
    <2> QED BY <2>1, <2>2
  <1>3. UNCHANGED <<upstream, route>>
    BY DEF CreateTarget, UpdateTarget
  <1>4. DanglingWasRaced'
    BY <1>1, <1>2, <1>3 DEF DanglingWasRaced, Sound
  <1>5. ASSUME NEW b \in ADMINS \ {a}
        PROVE  Sound(adm[b])'
    <2>1. Sound(adm[b])
      BY DEF RefsInv
    <2>2. adm[b].at = "write" /\ adm[b].kind = "deleteUpstream" =>
            adm[b].u \in raced \/ \A t \in DOMAIN target' : target'[t] # adm[b].u
      BY <1>1, <1>2, <2>1, WantedUpstream DEF Sound
    <2> QED BY <1>2, <1>3, <2>1, <2>2, OtherHandlers DEF Sound
  <1>6. Sound(adm[a])'
    BY OtherHandlers DEF Sound
  <1> QED BY <1>4, <1>5, <1>6

LEMMA DeleteRefs ==
  ASSUME TypeInv, RefsInv, NEW a \in ADMINS, DeleteTarget(a) \/ DeleteUpstream(a),
         raced \subseteq raced'
  PROVE  DanglingWasRaced' /\ \A b \in ADMINS : Sound(adm[b])'
  <1>1. Sound(adm[a]) /\ DanglingWasRaced
    BY DEF RefsInv
  <1>2. Sound(adm[a])'
    BY OtherHandlers DEF Sound
  <1>3. CASE DeleteTarget(a)
    <2>1. /\ adm[a].at = "write" /\ adm[a].kind = "deleteTarget" /\ UNCHANGED <<upstream, route>>
          /\ DOMAIN target' = DOMAIN target \ {adm[a].t}
          /\ \A t \in DOMAIN target' : target'[t] = target[t]
      BY <1>3 DEF DeleteTarget, At
    <2>2. DanglingWasRaced'
      BY <1>1, <2>1 DEF DanglingWasRaced, Sound
    <2>3. ASSUME NEW b \in ADMINS \ {a}
          PROVE  Sound(adm[b])'
      <3>1. Sound(adm[b])
        BY DEF RefsInv
      <3>2. adm[b].kind = "routes" => Refs(adm[b].save.body) \subseteq DOMAIN target' \cup raced
        BY <2>1, <3>1, WantedRoutes DEF Sound
      <3> QED BY <1>3, <2>1, <3>1, <3>2, OtherHandlers DEF Sound
    <2> QED BY <1>2, <2>2, <2>3
  <1>4. CASE DeleteUpstream(a)
    <2>1. /\ adm[a].at = "write" /\ adm[a].kind = "deleteUpstream" /\ UNCHANGED <<target, route>>
          /\ upstream' = upstream \ {adm[a].u}
      BY <1>4 DEF DeleteUpstream, At
    <2>2. DanglingWasRaced'
      BY <1>1, <2>1 DEF DanglingWasRaced, Sound
    <2>3. ASSUME NEW b \in ADMINS \ {a}
          PROVE  Sound(adm[b])'
      <3>1. Sound(adm[b])
        BY DEF RefsInv
      <3>2. adm[b].at = "write" /\ adm[b].kind \in {"createTarget", "updateTarget"}
              /\ adm[b].u # Blank => adm[b].u \in upstream' \cup raced
        BY <2>1, <3>1, WantedUpstream DEF Sound
      <3> QED BY <1>4, <2>1, <3>1, <3>2, OtherHandlers DEF Sound
    <2> QED BY <1>2, <2>2, <2>3
  <1> QED BY <1>3, <1>4

LEMMA RefsStep ==
  ASSUME TypeInv, RefsInv, Next
  PROVE  RefsInv'
  <1>1. PICK a \in ADMINS :
          /\ Watch
          /\ AdminStep(a) \/ AdminCall(a) \/ Fails(a)
          /\ \/ QuietStep(a) \/ InsertRows(a) \/ Commit(a)
             \/ CreateTarget(a) \/ UpdateTarget(a) \/ DeleteTarget(a)
             \/ CreateUpstream(a) \/ DeleteUpstream(a)
    BY NextCases
  <1>2. raced \subseteq raced' /\ (Doomed \cap Wanted \subseteq raced)'
    BY <1>1 DEF Watch
  <1>3. /\ adm \in [ADMINS -> Calls] /\ Shape(adm[a])
        /\ \A b \in ADMINS : adm[b] \in Calls /\ Sound(adm[b])
        /\ DanglingWasRaced
    BY DEF TypeInv, Handlers, RefsInv
  <1>4. SUFFICES DanglingWasRaced' /\ \A b \in ADMINS : Sound(adm[b])'
    BY <1>2 DEF RefsInv
  <1>5. CASE QuietStep(a)
    <2>1. UNCHANGED tables
      BY <1>1, <1>5, QuietSteps
    <2>2. PICK c : Turn(a, c) /\ Sound(c)'
      BY <1>1, <1>3, <1>5, QuietSteps DEF Quiet
    <2>3. \A b \in ADMINS : adm'[b] = IF b = a THEN c ELSE adm[b]
      BY <1>3, <2>2 DEF Turn
    <2>4. \A b \in ADMINS : Sound(adm[b])'
      BY <1>2, <1>3, <2>1, <2>2, <2>3 DEF Sound, tables
    <2> QED BY <1>2, <1>3, <2>1, <2>4 DEF DanglingWasRaced, tables
  <1>6. CASE InsertRows(a)
    BY <1>2, <1>6, InsertRefs
  <1>7. CASE Commit(a)
    BY <1>2, <1>7, CommitRefs
  <1>8. CASE CreateTarget(a) \/ UpdateTarget(a)
    BY <1>2, <1>8, TargetRefs
  <1>9. CASE DeleteTarget(a) \/ DeleteUpstream(a)
    BY <1>2, <1>9, DeleteRefs
  <1>10. CASE CreateUpstream(a)
    BY <1>2, <1>3, <1>10 DEF CreateUpstream, Sound, DanglingWasRaced
  <1> QED BY <1>1, <1>5, <1>6, <1>7, <1>8, <1>9, <1>10

LEMMA RefsIdle == RefsInv /\ UNCHANGED vars => RefsInv'
  BY DEF vars, RefsInv, DanglingWasRaced, Sound, Doomed, Wanted, At

\* A route names a missing target, or a target a missing upstream, only after a
\* race of the delete with the save, or a count that failed
\* (AdminDeleteRoutingTarget, AdminDeleteConstructUpstream, validateTargets).
THEOREM DanglingOnlyAfterARace == Spec => []DanglingWasRaced
  <1>1. Init => TypeInv /\ RefsInv
    BY InitType, InitRefs
  <1>2. (TypeInv /\ RefsInv) /\ [Next]_vars => (TypeInv /\ RefsInv)'
    BY StepType, IdleType, RefsStep, RefsIdle
  <1>3. RefsInv => DanglingWasRaced
    BY DEF RefsInv
  <1> QED BY <1>1, <1>2, <1>3, PTL DEF Spec

-----------------------------------------------------------------------------
(***************************************************************************)
(* The last save is the whole of its operator's rows.                      *)
(***************************************************************************)
Open(c) == c.at \in {"lock", "insert", "commit"}
Latest(c) ==
  Open(c) => /\ \A r \in c.gone : r.op = c.op
             /\ ~c.crowded => c.gone = Of(c.op)
Kept(o) ==
  last[o].alone => \E n \in Nat : Of(o) = RowsOf(o, [n |-> n, body |-> last[o].body])
LastInv ==
  /\ last \in [OPERATORS -> [body : Bodies, alone : BOOLEAN]]
  /\ \A a \in ADMINS : Latest(adm[a])
  /\ \A o \in OPERATORS : Kept(o)

LEMMA NoRows ==
  ASSUME NEW o, NEW save, save.body = Empty
  PROVE  RowsOf(o, save) = {}
  <1>1. Named(Empty) = {}
    BY DEF Named, InOrder, Empty
  <1> QED BY <1>1 DEF RowsOf

LEMMA InitLast == Init => LastInv
  <1> SUFFICES ASSUME Init
               PROVE  LastInv
    OBVIOUS
  <1>1. last \in [OPERATORS -> [body : Bodies, alone : BOOLEAN]]
    BY DEF Init, Bodies
  <1>2. \A a \in ADMINS : Latest(adm[a])
    BY NoCallFacts DEF Init, Latest, Open
  <1>3. ASSUME NEW o \in OPERATORS
        PROVE  Kept(o)
    <2>1. last[o].body = Empty /\ Of(o) = {}
      BY DEF Init, Of
    <2>2. RowsOf(o, [n |-> 0, body |-> Empty]) = {}
      BY NoRows
    <2> QED BY <2>1, <2>2 DEF Kept
  <1> QED BY <1>1, <1>2, <1>3 DEF LastInv

\* A handler goes on in its transaction with the rows its DELETE saw, opens one
\* with its operator's rows, or is in none.
Follows(c, d) ==
  \/ ~Open(d)
  \/ Open(c) /\ d.op = c.op /\ d.gone = c.gone /\ d.crowded = c.crowded
  \/ d.gone = Of(d.op)

LEMMA CallsOpenNothing ==
  ASSUME TypeInv, NEW a \in ADMINS, AdminCall(a)
  PROVE  \A b \in ADMINS : adm'[b] = adm[b] \/ ~Open(adm'[b])
  <1>1. adm \in [ADMINS -> Calls]
    BY DEF TypeInv, Handlers
  <1>2. NoCall \in Calls
    BY NoCallFacts
  <1>3. \A o, b : OnRoutes(o, b).at = "delete"
    BY <1>2 DEF OnRoutes, Calls
  <1>4. \A kind, at, t, u :
          /\ OnTarget(kind, at, t, u).at = at
          /\ [OnTarget(kind, at, t, u) EXCEPT !.blind = TRUE].at = at
    BY <1>2 DEF OnTarget, Calls
  <1>5. CASE CreateUpstream(a)
    BY <1>5 DEF CreateUpstream
  <1>6. CASE ~CreateUpstream(a)
    <2>1. \E c : Arrive(a, c) /\ c.at \in {"delete", "count", "write"}
      <3>1. CASE CheckTargets(a) \/ WipeRoutes(a)
        BY <1>3, <3>1 DEF CheckTargets, WipeRoutes
      <3>2. CASE CountUpstream(a) \/ FindTarget(a)
        BY <1>4, <3>2 DEF CountUpstream, FindTarget
      <3>3. CASE CountRoutes(a)
        <4>1. PICK t \in TARGETS :
                \/ Arrive(a, OnTarget("deleteTarget", "write", t, Blank))
                \/ Arrive(a, [OnTarget("deleteTarget", "write", t, Blank) EXCEPT !.blind = TRUE])
          BY <3>3 DEF CountRoutes
        <4>2. OnTarget("deleteTarget", "write", t, Blank).at = "write"
              /\ [OnTarget("deleteTarget", "write", t, Blank) EXCEPT !.blind = TRUE].at = "write"
          BY <1>4
        <4> QED BY <4>1, <4>2
      <3>4. CASE CountTargets(a)
        <4>1. PICK u \in UPSTREAMS :
                \/ Arrive(a, OnTarget("deleteUpstream", "write", Blank, u))
                \/ Arrive(a, [OnTarget("deleteUpstream", "write", Blank, u) EXCEPT !.blind = TRUE])
          BY <3>4 DEF CountTargets
        <4>2. OnTarget("deleteUpstream", "write", Blank, u).at = "write"
              /\ [OnTarget("deleteUpstream", "write", Blank, u) EXCEPT !.blind = TRUE].at = "write"
          BY <1>4
        <4> QED BY <4>1, <4>2
      <3> QED BY <1>6, <3>1, <3>2, <3>3, <3>4 DEF AdminCall
    <2> QED BY <1>1, <2>1 DEF Arrive, Open
  <1> QED BY <1>5, <1>6

LEMMA OthersFollow ==
  ASSUME TypeInv, NEW a \in ADMINS, AdminStep(a) \/ AdminCall(a) \/ Fails(a), ~Commit(a)
  PROVE  UNCHANGED <<route, last>> /\ \A b \in ADMINS : adm'[b] = adm[b] \/ Follows(adm[b], adm'[b])
  <1>1. adm \in [ADMINS -> Calls]
    BY DEF TypeInv, Handlers
  <1>2. NoCall \in Calls /\ NoCall.at = "idle" /\ [NoCall EXCEPT !.at = "bump"].at = "bump"
    BY NoCallFacts DEF Calls
  <1>3. ASSUME End(a) \/ Bump(a)
        PROVE  \A b \in ADMINS : adm'[b] = adm[b] \/ ~Open(adm'[b])
    BY <1>1, <1>2, <1>3 DEF End, Bump, Open
  <1>4. UNCHANGED <<route, last>>
    BY DEF AdminStep, AdminCall, Fails, CheckTargets, WipeRoutes, CountUpstream, FindTarget,
           CountRoutes, CreateUpstream, CountTargets, StartDelete, LockRows, InsertRows,
           CreateTarget, CountNewUpstream, UpdateTarget, DeleteTarget, DeleteUpstream,
           BumpVersion, tables
  <1>5. CASE AdminCall(a)
    BY <1>4, <1>5, CallsOpenNothing DEF Follows
  <1>6. CASE StartDelete(a)
    BY <1>1, <1>4, <1>6 DEF StartDelete, Follows, Calls
  <1>7. CASE LockRows(a)
    BY <1>1, <1>4, <1>7 DEF LockRows, Goto, Follows, Open, Calls
  <1>8. CASE InsertRows(a)
    <2>1. CASE End(a)
      BY <1>3, <1>4, <2>1 DEF Follows
    <2>2. CASE ~End(a)
      <3> DEFINE rows == RowsOf(adm[a].op, adm[a].save)
      <3>1. adm' = [adm EXCEPT ![a].at = "commit", ![a].new = rows] /\ adm[a].at = "insert"
        BY <1>8, <2>2 DEF InsertRows
      <3> HIDE DEF rows
      <3> QED BY <1>1, <1>4, <3>1 DEF Follows, Open, Calls
    <2> QED BY <2>1, <2>2
  <1>9. CASE CountNewUpstream(a)
    <2>1. CASE End(a)
      BY <1>3, <1>4, <2>1 DEF Follows
    <2>2. CASE ~End(a)
      <3>1. adm' = [adm EXCEPT ![a].at = "write"]
        BY <1>9, <2>2 DEF CountNewUpstream, Goto
      <3> QED BY <1>1, <1>4, <3>1 DEF Follows, Open, Calls
    <2> QED BY <2>1, <2>2
  <1>10. CASE CreateTarget(a) \/ UpdateTarget(a) \/ DeleteTarget(a) \/ DeleteUpstream(a)
              \/ BumpVersion(a) \/ Fails(a)
    <2>1. End(a) \/ Bump(a)
      BY <1>10 DEF CreateTarget, UpdateTarget, DeleteTarget, DeleteUpstream, BumpVersion, Fails
    <2> QED BY <1>3, <1>4, <2>1 DEF Follows
  <1> QED BY <1>5, <1>6, <1>7, <1>8, <1>9, <1>10 DEF AdminStep

LEMMA CommitLast ==
  ASSUME TypeInv, LastInv, NEW a \in ADMINS, Commit(a)
  PROVE  LastInv'
  <1> DEFINE o == adm[a].op
             gone == adm[a].gone
             new == adm[a].new
             save == adm[a].save
  <1>1. /\ adm[a] \in Calls /\ Shape(adm[a]) /\ adm[a].at = "commit" /\ Latest(adm[a])
        /\ adm \in [ADMINS -> Calls]
    BY DEF TypeInv, Handlers, Commit, LastInv
  <1>2. o \in OPERATORS /\ save.n \in Nat /\ save.body \in Bodies
        /\ save = [n |-> save.n, body |-> save.body]
    BY <1>1 DEF Calls, Saves
  <1>3. new = RowsOf(o, save) /\ \A r \in new : r.op = o
    BY <1>1, RowFields DEF Shape
  <1>4. (\A r \in gone : r.op = o) /\ (~adm[a].crowded => gone = Of(o))
    BY <1>1 DEF Latest, Open
  <1>5. route' = (route \ gone) \cup new
    BY DEF Commit
  <1>6. \A p \in OPERATORS : p # o => Of(p)' = Of(p)
    BY <1>3, <1>4, <1>5 DEF Of
  <1>7. \A p : p = o /\ ~adm[a].crowded => Of(p)' = RowsOf(p, save)
    <2> HIDE DEF new
    <2> QED BY <1>3, <1>4, <1>5 DEF Of
  <1>8. last' = [last EXCEPT ![o] = [body |-> save.body, alone |-> ~adm[a].crowded]]
    BY DEF Commit
  <1>9. adm[a].crowded \in BOOLEAN
    BY <1>1 DEF Calls
  <1>10. last' \in [OPERATORS -> [body : Bodies, alone : BOOLEAN]]
    <2> HIDE DEF o, save
    <2> QED BY <1>2, <1>8, <1>9 DEF LastInv
  <1>11. ASSUME NEW p \in OPERATORS
         PROVE  Kept(p)'
    <2>1. CASE p = o
      <3>1. last'[p].body = save.body /\ (last'[p].alone <=> ~adm[a].crowded)
        BY <1>2, <1>8, <2>1 DEF LastInv
      <3>2. adm[a].crowded \/ Of(p)' = RowsOf(p, [n |-> save.n, body |-> last'[p].body])
        BY <1>2, <1>7, <2>1, <3>1
      <3> HIDE DEF o, save
      <3> QED BY <1>2, <3>1, <3>2 DEF Kept
    <2>2. CASE p # o
      <3>1. last'[p] = last[p] /\ Of(p)' = Of(p)
        BY <1>6, <1>8, <2>2 DEF LastInv
      <3> QED BY <3>1 DEF Kept, LastInv
    <2> QED BY <2>1, <2>2
  <1>12. ASSUME NEW b \in ADMINS
         PROVE  Latest(adm[b])'
    <2>1. CASE b = a
      BY <2>1, CommitTurns DEF Latest, Open, TypeInv
    <2>2. CASE b # a
      <3>1. /\ adm'[b].at = adm[b].at /\ adm'[b].op = adm[b].op /\ adm'[b].gone = adm[b].gone
        BY <2>2, CommitTurns DEF TypeInv
      <3>2. Latest(adm[b]) /\ adm[b].op \in OPERATORS
        BY <1>1 DEF LastInv, Calls
      <3>3. adm[b].op = o /\ Open(adm[b]) => adm'[b].crowded
        BY <1>1, <2>2 DEF Commit, Open, Calls
      <3>4. adm[b].op # o => adm'[b] = adm[b]
        BY <1>1, <2>2 DEF Commit
      <3> QED BY <1>6, <3>1, <3>2, <3>3, <3>4 DEF Latest, Open
    <2> QED BY <2>1, <2>2
  <1> QED BY <1>10, <1>11, <1>12 DEF LastInv

LEMMA LastStep ==
  ASSUME TypeInv, LastInv, Next
  PROVE  LastInv'
  <1>1. PICK a \in ADMINS : AdminStep(a) \/ AdminCall(a) \/ Fails(a)
    BY NextCases
  <1>2. CASE Commit(a)
    BY <1>2, CommitLast
  <1>3. CASE ~Commit(a)
    <2>1. /\ UNCHANGED <<route, last>>
          /\ \A b \in ADMINS : adm'[b] = adm[b] \/ Follows(adm[b], adm'[b])
      BY <1>1, <1>3, OthersFollow
    <2>2. \A p : Of(p)' = Of(p)
      BY <2>1 DEF Of
    <2>3. \A p \in OPERATORS : Kept(p)'
      BY <2>1, <2>2 DEF LastInv, Kept
    <2>4. \A p : \A r \in Of(p) : r.op = p
      BY DEF Of
    <2>5. \A b \in ADMINS : Latest(adm[b])'
      BY <2>1, <2>2, <2>4 DEF LastInv, Latest, Follows, Open
    <2> QED BY <2>1, <2>3, <2>5 DEF LastInv
  <1> QED BY <1>2, <1>3

LEMMA LastIdle == LastInv /\ UNCHANGED vars => LastInv'
  BY DEF vars, LastInv, Latest, Open, Kept, Of

(***************************************************************************)
(* The view of the rows of a body is the body, its blanks left out.        *)
(***************************************************************************)
Row(o, slot, pos, m, save) == [op |-> o, slot |-> slot, pos |-> pos, model |-> m, save |-> save]
NamedAt(list) == {i \in DOMAIN list : list[i] # Blank}

RowsAt(o, slot, list, save) == {Row(o, slot, i - 1, list[i], save) : i \in NamedAt(list)}
Models(rows) == LET seq == Ordered(rows) IN [i \in DOMAIN seq |-> seq[i].model]

\* What Filled makes of a list.
LEMMA FilledList ==
  ASSUME NEW list \in Seq(TARGETS \cup {Blank})
  PROVE  LET D == NamedAt(list)
             at == Sorted([i \in D |-> i])
         IN /\ IsFiniteSet(D) /\ Cardinality(D) \in Nat /\ D \subseteq Int
            /\ DOMAIN at = 1..Cardinality(D)
            /\ \A k \in 1..Cardinality(D) : at[k] \in D
            /\ Filled(list) = [k \in 1..Cardinality(D) |-> list[at[k]]]
            /\ Filled(list) # <<>> <=> D # {}
  <1> DEFINE D == NamedAt(list)
             rank == [i \in D |-> i]
             at == Sorted(rank)
             n == Cardinality(D)
  <1>1. IsFiniteSet(D) /\ D \subseteq Int
    <2>1. IsFiniteSet(1..Len(list))
      BY FS_Interval
    <2>2. D \subseteq 1..Len(list)
      BY DEF NamedAt
    <2> QED BY <2>1, <2>2, FS_Subset
  <1>2. n \in Nat /\ (n = 0 <=> D = {})
    BY <1>1, FS_CardinalityType, FS_EmptySet
  <1>3. DOMAIN at = 1..n
    BY DEF Sorted
  <1>4. rank \in [D -> Int] /\ \A x, y \in D : rank[x] = rank[y] => x = y
    BY <1>1
  <1> HIDE DEF D, rank
  <1>5. \A k \in 1..n : at[k] \in D
    <2>1. \A k \in 1..Cardinality(D) : Sorted(rank)[k] \in D
      BY <1>1, <1>4, PlacesCount
    <2> QED BY <2>1
  <1> HIDE DEF at, n
  <1>6. Filled(list) = [k \in DOMAIN at |-> list[at[k]]]
    BY DEF Filled, at, rank, D, NamedAt
  <1>7. Filled(list) = [k \in 1..n |-> list[at[k]]]
    BY <1>3, <1>6
  <1>8. Filled(list) = <<>> <=> n = 0
    <2>1. CASE n = 0
      <3>1. 1..n = {}
        BY <2>1
      <3> QED BY <1>7, <2>1, <3>1
    <2>2. CASE n # 0
      <3>1. 1 \in DOMAIN Filled(list)
        BY <1>2, <1>7, <2>2
      <3>2. DOMAIN <<>> = {}
        OBVIOUS
      <3> QED BY <2>2, <3>1, <3>2
    <2> QED BY <2>1, <2>2
  <1> QED BY <1>1, <1>2, <1>3, <1>5, <1>7, <1>8 DEF at, n, rank, D

\* groupRoutes lists the rows of a list as the list has them.
LEMMA ListedRows ==
  ASSUME NEW list, list \in Seq(TARGETS \cup {Blank}), NEW o, NEW save, NEW slot
  PROVE  Models(RowsAt(o, slot, list, save)) = Filled(list)
  <1> DEFINE D == NamedAt(list)
             rank == [i \in D |-> i]
             at == Sorted(rank)
             n == Cardinality(D)
             E == RowsAt(o, slot, list, save)
             g == [i \in D |-> Row(o, slot, i - 1, list[i], save)]
             seq == Ordered(E)
  <1>1. /\ IsFiniteSet(D) /\ D \subseteq Int
        /\ \A k \in 1..n : at[k] \in D
        /\ Filled(list) = [k \in 1..n |-> list[at[k]]]
    BY FilledList
  <1>2. g \in [D -> E] /\ Onto(D, E, g)
    BY DEF RowsAt, Onto
  <1>3. \A x \in D : g[x].pos = x - 1 /\ g[x].model = list[x]
    BY <1>1 DEF Row
  <1>4. DOMAIN seq = 1..n /\ \A k \in 1..n : seq[k] = g[at[k]]
    <2> DEFINE other == [r \in E |-> Place(r)]
    <2> HIDE DEF D, E, g
    <2>0. D \subseteq Int
      BY <1>1
    <2>1. IsFiniteSet(D)
      BY <1>1
    <2>2. rank \in [D -> Int] /\ Tieless(D, rank)
      BY <2>0 DEF Tieless
    <2>3. \A x \in D : other[g[x]] = x - 1
      BY <1>2, <1>3 DEF Place
    <2>4. other \in [E -> Int]
      <3>1. \A r \in E : Place(r) \in Int
        BY <1>2, <1>3, <2>0 DEF Place, Onto
      <3> QED BY <3>1
    <2>5. seq = Sorted(other)
      BY DEF Ordered
    <2>6. Alike(D, rank, other, g)
      <3> SUFFICES ASSUME NEW x \in D, NEW y \in D
                   PROVE  rank[x] < rank[y] <=> other[g[x]] < other[g[y]]
        BY DEF Alike
      <3>1. x \in Int /\ y \in Int /\ rank[x] = x /\ rank[y] = y
        BY <2>0
      <3> QED BY <2>3, <3>1
    <2> HIDE DEF rank, other
    <2>7. /\ DOMAIN Sorted(other) = 1..Cardinality(D)
          /\ \A k \in 1..Cardinality(D) : Sorted(other)[k] = g[Sorted(rank)[k]]
      BY ONLY <1>2, <2>1, <2>2, <2>4, <2>6, SortedAlong
    <2> QED BY <2>5, <2>7
  <1> HIDE DEF D, E, g, n, at, seq
  <1>5. \A k \in 1..n : seq[k].model = list[at[k]]
    BY <1>1, <1>3, <1>4
  <1>6. [k \in DOMAIN seq |-> seq[k].model] = [k \in 1..n |-> list[at[k]]]
    BY <1>4, <1>5
  <1> QED BY <1>1, <1>6 DEF Models, seq, E

LEMMA SavedView ==
  ASSUME NEW body \in Bodies, NEW o, NEW save, save.body = body
  PROVE  View(RowsOf(o, save)) = Posted(body)
  <1> DEFINE R == RowsOf(o, save)
             P == <<"primary", 0, body.primary>>
             A == <<"aggregator", 0, body.aggregator>>
             In(slot) == {r \in R : r.slot = slot}
  <1>1. /\ body.primary \in TARGETS \cup {Blank} /\ body.aggregator \in TARGETS \cup {Blank}
        /\ body.backups \in Seq(TARGETS \cup {Blank})
        /\ body.proposers \in Seq(TARGETS \cup {Blank})
    BY BodyFields
  <1>2. \A r : r \in R <=>
          \E e \in {P, A} \cup InOrder("backup", body.backups) \cup InOrder("proposer", body.proposers) :
            e[3] # Blank /\ r = Row(o, e[1], e[2], e[3], save)
    BY DEF RowsOf, Named, Row
  <1>3. \A slot, list : \A e \in InOrder(slot, list) :
          \E i \in DOMAIN list : e[1] = slot /\ e[2] = i - 1 /\ e[3] = list[i]
    BY DEF InOrder
  <1>4. \A slot, list : \A i \in DOMAIN list :
          \E e \in InOrder(slot, list) : e[1] = slot /\ e[2] = i - 1 /\ e[3] = list[i]
    <2> SUFFICES ASSUME NEW slot, NEW list, NEW i \in DOMAIN list
                 PROVE  \E e \in InOrder(slot, list) : e[1] = slot /\ e[2] = i - 1 /\ e[3] = list[i]
      OBVIOUS
    <2>1. <<slot, i - 1, list[i]>> \in InOrder(slot, list)
      BY DEF InOrder
    <2> QED BY <2>1
  <1>5. /\ P[1] = "primary" /\ P[2] = 0 /\ P[3] = body.primary
        /\ A[1] = "aggregator" /\ A[2] = 0 /\ A[3] = body.aggregator
    OBVIOUS
  <1>6. \A slot, pos, m : /\ Row(o, slot, pos, m, save).slot = slot
                          /\ Row(o, slot, pos, m, save).model = m
    BY DEF Row
  <1> HIDE DEF R, P, A
  <1>7. In("primary") = IF body.primary = Blank THEN {}
                        ELSE {Row(o, "primary", 0, body.primary, save)}
    BY <1>2, <1>3, <1>5, <1>6
  <1>8. In("aggregator") = IF body.aggregator = Blank THEN {}
                           ELSE {Row(o, "aggregator", 0, body.aggregator, save)}
    BY <1>2, <1>3, <1>5, <1>6
  <1>9. In("backup") = RowsAt(o, "backup", body.backups, save)
    BY <1>2, <1>3, <1>4, <1>5, <1>6 DEF NamedAt, RowsAt
  <1>10. In("proposer") = RowsAt(o, "proposer", body.proposers, save)
    BY <1>2, <1>3, <1>4, <1>5, <1>6 DEF NamedAt, RowsAt
  <1>11. Single(R, "primary") = body.primary
    BY <1>6, <1>7 DEF Single
  <1>12. Single(R, "aggregator") = body.aggregator
    BY <1>6, <1>8 DEF Single
  <1>13. Listed(R, "backup") = Filled(body.backups)
    <2>1. Listed(R, "backup") = Models(In("backup"))
      BY DEF Listed, Models
    <2> HIDE DEF In
    <2> QED BY <1>1, <1>9, <2>1, ListedRows
  <1>14. Listed(R, "proposer") = Filled(body.proposers)
    <2>1. Listed(R, "proposer") = Models(In("proposer"))
      BY DEF Listed, Models
    <2> HIDE DEF In
    <2> QED BY <1>1, <1>10, <2>1, ListedRows
  <1>15. (\E r \in R : r.slot \in {"aggregator", "proposer"}) <=>
           body.aggregator # Blank \/ Filled(body.proposers) # <<>>
    <2>1. (\E r \in R : r.slot \in {"aggregator", "proposer"}) <=>
            In("aggregator") # {} \/ In("proposer") # {}
      OBVIOUS
    <2>2. In("proposer") # {} <=> NamedAt(body.proposers) # {}
      BY <1>10 DEF RowsAt
    <2>3. NamedAt(body.proposers) # {} <=> Filled(body.proposers) # <<>>
      BY <1>1, FilledList
    <2> QED BY <1>8, <2>1, <2>2, <2>3
  <1> QED BY <1>11, <1>12, <1>13, <1>14, <1>15 DEF View, Posted, R

\* Unless another save of the operator was committed during it, the operator
\* view shows the last save, entry for entry and in order, and no older row,
\* whatever saves overlapped before (AdminUpsertSourceFamilyOperator,
\* groupRoutes).
THEOREM LastSaveStands == Spec => []LastSaveIsShown
  <1>1. Init => TypeInv /\ LastInv
    BY InitType, InitLast
  <1>2. (TypeInv /\ LastInv) /\ [Next]_vars => (TypeInv /\ LastInv)'
    BY StepType, IdleType, LastStep, LastIdle
  <1>3. LastInv => LastSaveIsShown
    <2> SUFFICES ASSUME LastInv, NEW o \in OPERATORS, last[o].alone
                 PROVE  View(Of(o)) = Posted(last[o].body)
      BY DEF LastSaveIsShown
    <2>1. PICK n \in Nat : Of(o) = RowsOf(o, [n |-> n, body |-> last[o].body])
      BY DEF LastInv, Kept
    <2>2. last[o].body \in Bodies
      BY DEF LastInv
    <2> QED BY <2>1, <2>2, SavedView
  <1> QED BY <1>1, <1>2, <1>3, PTL DEF Spec
===============================================================================
