---------------------------- MODULE ChatLogProofs ----------------------------
(***************************************************************************)
(* Theorems about ChatLog, for any events, sizes, limit, number of         *)
(* restarts and number of failing uploads.                                 *)
(***************************************************************************)
EXTENDS ChatLog, CountingTheorems

(***************************************************************************)
(* The elements of sequences.                                              *)
(***************************************************************************)
LEMMA RangeOfAppend ==
  ASSUME NEW S, NEW s \in Seq(S), NEW e \in S
  PROVE  Range(Append(s, e)) = Range(s) \cup {e}
  <1>1. /\ DOMAIN s = 1..Len(s) /\ Len(s) \in Nat
        /\ DOMAIN Append(s, e) = 1..(Len(s) + 1)
        /\ \A i \in 1..Len(s) : Append(s, e)[i] = s[i]
        /\ Append(s, e)[Len(s) + 1] = e
    OBVIOUS
  <1>2. ASSUME NEW i \in 1..(Len(s) + 1)
        PROVE  Append(s, e)[i] \in Range(s) \cup {e}
    <2>1. CASE i = Len(s) + 1
      BY <1>1, <2>1
    <2>2. CASE i \in 1..Len(s)
      BY <1>1, <2>2 DEF Range
    <2> QED BY <1>1, <2>1, <2>2
  <1>3. Len(s) + 1 \in 1..(Len(s) + 1) /\ 1..Len(s) \subseteq 1..(Len(s) + 1)
    BY <1>1
  <1> QED BY <1>1, <1>2, <1>3 DEF Range

LEMMA RangeOfConcat ==
  ASSUME NEW S, NEW s \in Seq(S), NEW t \in Seq(S)
  PROVE  Range(s \o t) = Range(s) \cup Range(t)
  <1>1. /\ DOMAIN s = 1..Len(s) /\ DOMAIN t = 1..Len(t) /\ Len(s) \in Nat /\ Len(t) \in Nat
        /\ DOMAIN (s \o t) = 1..(Len(s) + Len(t))
        /\ \A i \in 1..Len(s) : (s \o t)[i] = s[i]
        /\ \A i \in 1..Len(t) : (s \o t)[Len(s) + i] = t[i]
    OBVIOUS
  <1>2. ASSUME NEW i \in 1..(Len(s) + Len(t))
        PROVE  (s \o t)[i] \in Range(s) \cup Range(t)
    <2>1. CASE i \in 1..Len(s)
      BY <1>1, <2>1 DEF Range
    <2>2. CASE i \notin 1..Len(s)
      <3>1. i - Len(s) \in 1..Len(t) /\ i = Len(s) + (i - Len(s))
        BY <1>1, <2>2
      <3> QED BY <1>1, <3>1 DEF Range
    <2> QED BY <2>1, <2>2
  <1>3. ASSUME NEW i \in 1..Len(s)
        PROVE  s[i] \in Range(s \o t)
    <2>1. i \in 1..(Len(s) + Len(t))
      BY <1>1
    <2> QED BY <1>1, <2>1 DEF Range
  <1>4. ASSUME NEW i \in 1..Len(t)
        PROVE  t[i] \in Range(s \o t)
    <2>1. Len(s) + i \in 1..(Len(s) + Len(t))
      BY <1>1
    <2> QED BY <1>1, <2>1 DEF Range
  <1> QED BY <1>1, <1>2, <1>3, <1>4 DEF Range

(***************************************************************************)
(* The invariant. Keys: every stored object has its own process and        *)
(* number, and an upload is marked as stored just when its object is in    *)
(* the bucket. Kept: EventsAreKept.                                        *)
(***************************************************************************)
Shape ==
  /\ boot \in 1..Len(Pods)
  /\ buf \in Seq(Events) /\ seq \in Nat /\ spawned \in Nat
  /\ flights \subseteq Flight
  /\ \A f \in flights : f.events # <<>>
  /\ buf = <<>> => bufSize = 0

Keys ==
  /\ \A k \in DOMAIN objects : \E b \in 1..boot, n \in Nat :
       k = <<Pods[b], n>> /\ (b = boot => n <= seq)
  /\ \A f \in flights :
       /\ f.seq <= seq
       /\ f.stored <=> Key(f) \in DOMAIN objects
       /\ f.stored => objects[Key(f)] = f.events
  /\ \A f, g \in flights : f.seq = g.seq => f = g

ChatInv == Shape /\ Keys /\ EventsAreKept /\ FullBufferIsFlushed

LEMMA InitChat == Init => ChatInv
  <1> SUFFICES ASSUME Init
               PROVE  ChatInv
    OBVIOUS
  <1>1. Shape
    BY ChatLogAssumption DEF Init, Shape
  <1>2. Keys
    BY DEF Init, Keys
  <1>3. EventsAreKept /\ FullBufferIsFlushed
    BY ChatLogAssumption DEF Init, EventsAreKept, FullBufferIsFlushed
  <1> QED BY <1>1, <1>2, <1>3 DEF ChatInv

\* Numbers are used once: what is named next is not in the bucket.
LEMMA NextKeyIsNew ==
  ASSUME Shape, Keys
  PROVE  <<Pods[boot], seq + 1>> \notin DOMAIN objects
  <1> SUFFICES ASSUME <<Pods[boot], seq + 1>> \in DOMAIN objects
               PROVE  FALSE
    OBVIOUS
  <1>1. PICK b \in 1..boot, n \in Nat :
          <<Pods[boot], seq + 1>> = <<Pods[b], n>> /\ (b = boot => n <= seq)
    BY DEF Keys
  <1>2. DOMAIN Pods = 1..Len(Pods) /\ Len(Pods) \in Nat
    BY ChatLogAssumption
  <1>3. b \in DOMAIN Pods /\ boot \in DOMAIN Pods
    BY <1>1, <1>2 DEF Shape
  <1>4. b = boot
    BY <1>1, <1>3, ChatLogAssumption DEF IsInjective
  <1> QED BY <1>1, <1>4 DEF Shape

LEMMA TakesAreKept ==
  ASSUME ChatInv, NEW by \in {"loop", "log"}, Take(by), UNCHANGED <<boot, objects, logged, lost>>
  PROVE  /\ flights' \subseteq Flight /\ (\A f \in flights' : f.events # <<>>)
         /\ buf' = <<>> /\ bufSize' = 0 /\ seq' \in Nat
         /\ Keys' /\ EventsAreKept'
  <1> USE DEF ChatInv
  <1>1. CASE buf = <<>>
    BY <1>1 DEF Take, Shape, Keys, Key, EventsAreKept, InFlight, StoredEvents
  <1>2. CASE buf # <<>>
    <2> DEFINE new == [by |-> by, seq |-> seq + 1, events |-> buf, stored |-> FALSE]
    <2>1. flights' = flights \cup {new} /\ seq' = seq + 1 /\ buf' = <<>> /\ bufSize' = 0
      BY <1>2 DEF Take
    <2>2. new \in Flight /\ new.seq = seq + 1 /\ new.events = buf /\ ~new.stored
      BY DEF Flight, Shape
    <2>3. \A f : Key(f)' = Key(f) /\ Key(f) = <<Pods[boot], f.seq>>
      BY DEF Key
    <2> HIDE DEF new
    <2>4. \A f \in flights : f.seq \in Nat /\ f.seq <= seq
      BY DEF Keys, Shape, Flight
    <2>5. Keys'
      <3>1. \A k \in DOMAIN objects' : \E b \in 1..boot', n \in Nat :
              k = <<Pods[b], n>> /\ (b = boot' => n <= seq')
        BY <2>1 DEF Keys, Shape
      <3>2. ASSUME NEW f \in flights'
            PROVE  /\ f.seq <= seq'
                   /\ f.stored <=> Key(f)' \in DOMAIN objects'
                   /\ f.stored => objects'[Key(f)'] = f.events
        <4>1. CASE f = new
          <5>1. f.seq = seq + 1 /\ ~f.stored
            BY <2>2, <4>1
          <5>2. Key(f)' = <<Pods[boot], seq + 1>>
            BY <2>3, <5>1
          <5>3. Key(f)' \notin DOMAIN objects'
            BY <5>2, NextKeyIsNew
          <5>4. f.seq <= seq'
            BY <2>1, <5>1 DEF Shape
          <5> QED BY <5>1, <5>3, <5>4
        <4>2. CASE f \in flights
          BY <2>1, <2>3, <2>4, <4>2 DEF Keys, Shape
        <4> QED BY <2>1, <4>1, <4>2
      <3>3. \A f, g \in flights' : f.seq = g.seq => f = g
        BY <2>1, <2>2, <2>4 DEF Keys, Shape
      <3> QED BY <3>1, <3>2, <3>3 DEF Keys, Key
    <2>6. EventsAreKept'
      <3>1. InFlight' = InFlight \cup Range(buf)
        BY <2>1, <2>2 DEF InFlight
      <3> QED BY <3>1 DEF EventsAreKept, StoredEvents
    <2> QED BY <1>2, <2>1, <2>2, <2>5, <2>6 DEF Shape
  <1> QED BY <1>1, <1>2

LEMMA StoresAreKept ==
  ASSUME ChatInv, NEW f \in flights, Store(f)
  PROVE  /\ ChatInv'
         /\ \A k \in DOMAIN objects : k \in DOMAIN objects' /\ objects'[k] = objects[k]
  <1> USE DEF ChatInv
  <1> DEFINE done == [f EXCEPT !.stored = TRUE]
  <1>1. /\ done \in Flight /\ done.seq = f.seq /\ done.events = f.events /\ done.stored
        /\ f \in Flight
    BY DEF Shape, Flight
  <1>2. /\ ~f.stored /\ flights' = (flights \ {f}) \cup {done}
        /\ UNCHANGED <<boot, buf, bufSize, seq, spawned, logged, lost, requeued>>
    BY DEF Store
  <1> HIDE DEF done
  <1>3. Key(f) \notin DOMAIN objects
    BY <1>2 DEF Keys
  <1>4. /\ DOMAIN objects' = DOMAIN objects \cup {Key(f)}
        /\ objects'[Key(f)] = f.events
        /\ \A k \in DOMAIN objects : objects'[k] = objects[k]
    BY <1>3 DEF Store
  <1>5. Shape'
    BY <1>1, <1>2 DEF Shape
  <1>6. \A g : Key(g)' = Key(g) /\ Key(g) = <<Pods[boot], g.seq>>
    BY <1>2 DEF Key
  <1>7. Keys'
    <2>1. ASSUME NEW k \in DOMAIN objects'
          PROVE  \E b \in 1..boot', n \in Nat : k = <<Pods[b], n>> /\ (b = boot' => n <= seq')
      <3>1. CASE k = Key(f)
        BY <1>1, <1>2, <1>6, <3>1 DEF Keys, Shape, Flight
      <3>2. CASE k \in DOMAIN objects
        BY <1>2, <3>2 DEF Keys
      <3> QED BY <1>4, <3>1, <3>2
    <2>2. ASSUME NEW g \in flights'
          PROVE  /\ g.seq <= seq'
                 /\ g.stored <=> Key(g)' \in DOMAIN objects'
                 /\ g.stored => objects'[Key(g)'] = g.events
      <3>1. CASE g = done
        BY <1>1, <1>2, <1>4, <1>6, <3>1 DEF Keys
      <3>2. CASE g \in flights \ {f}
        <4>1. g.seq # f.seq
          BY <3>2 DEF Keys
        <4>2. Key(g) # Key(f)
          BY <1>6, <4>1
        <4> QED BY <1>2, <1>4, <1>6, <3>2, <4>2 DEF Keys
      <3> QED BY <1>2, <3>1, <3>2
    <2>3. \A g, h \in flights' : g.seq = h.seq => g = h
      BY <1>1, <1>2 DEF Keys
    <2> QED BY <2>1, <2>2, <2>3 DEF Keys
  <1>8. EventsAreKept'
    <2>1. Range(f.events) \subseteq StoredEvents'
      BY <1>4 DEF StoredEvents
    <2>2. StoredEvents \subseteq StoredEvents'
      BY <1>4 DEF StoredEvents
    <2>3. InFlight \subseteq InFlight' \cup Range(f.events)
      BY <1>2 DEF InFlight
    <2> QED BY <1>2, <2>1, <2>2, <2>3 DEF EventsAreKept
  <1>9. FullBufferIsFlushed'
    BY <1>2 DEF FullBufferIsFlushed
  <1> QED BY <1>4, <1>5, <1>7, <1>8, <1>9

\* An upload that leaves takes nothing with it: its events are stored, or back.
LEMMA UploadsEndKept ==
  ASSUME ChatInv, NEW f \in flights, Succeed(f) \/ Fail(f)
  PROVE  ChatInv'
  <1> USE DEF ChatInv
  <1>1. /\ flights' = flights \ {f}
        /\ UNCHANGED <<boot, seq, spawned, objects, logged, lost>>
    BY DEF Succeed, Fail, Failed
  <1>2. Keys'
    BY <1>1 DEF Keys, Key
  <1>3. CASE Succeed(f)
    <2>1. UNCHANGED <<buf, bufSize, requeued>> /\ f.stored
      BY <1>3 DEF Succeed
    <2>2. Range(f.events) \subseteq StoredEvents
      BY <2>1 DEF Keys, StoredEvents
    <2>3. InFlight \subseteq InFlight' \cup Range(f.events)
      BY <1>1 DEF InFlight
    <2>4. EventsAreKept'
      BY <1>1, <2>1, <2>2, <2>3 DEF EventsAreKept, StoredEvents
    <2> QED BY <1>1, <1>2, <2>1, <2>4 DEF Shape, FullBufferIsFlushed
  <1>4. CASE Fail(f)
    <2>1. buf' = f.events \o buf /\ requeued' = requeued \cup Range(f.events)
      BY <1>4 DEF Fail, Failed
    <2>2. f.events \in Seq(Events) /\ f.events # <<>> /\ buf \in Seq(Events)
      BY DEF Shape, Flight
    <2>3. buf' \in Seq(Events) /\ Range(buf') = Range(f.events) \cup Range(buf)
      BY <2>1, <2>2, RangeOfConcat
    <2>4. Range(f.events) # {}
      <3>1. 1 \in DOMAIN f.events
        BY <2>2
      <3> QED BY <3>1 DEF Range
    <2>5. buf' # <<>>
      BY <2>3, <2>4 DEF Range
    <2>6. InFlight \subseteq InFlight' \cup Range(f.events)
      BY <1>1 DEF InFlight
    <2>7. EventsAreKept'
      BY <1>1, <2>3, <2>6 DEF EventsAreKept, StoredEvents
    <2>8. FullBufferIsFlushed'
      BY <2>1, <2>3, <2>4 DEF FullBufferIsFlushed
    <2> QED BY <1>1, <1>2, <2>3, <2>5, <2>7, <2>8 DEF Shape
  <1> QED BY <1>3, <1>4

LEMMA LogsAreKept ==
  ASSUME ChatInv, NEW e \in Events, Log(e)
  PROVE  ChatInv'
  <1> USE DEF ChatInv
  <1>1. UNCHANGED <<boot, seq, flights, objects, lost, requeued>> /\ logged' = logged \cup {e}
    BY DEF Log
  <1>2. buf' \in Seq(Events) /\ Range(buf') = Range(buf) \cup {e} /\ buf' # <<>>
    BY RangeOfAppend DEF Log, Shape
  <1>3. spawned' \in Nat /\ (bufSize' >= FlushBytes => spawned' > 0)
    BY DEF Log, Shape
  <1>4. Shape'
    BY <1>1, <1>2, <1>3 DEF Shape
  <1>5. Keys'
    BY <1>1 DEF Keys, Key
  <1>6. EventsAreKept'
    BY <1>1, <1>2 DEF EventsAreKept, InFlight, StoredEvents
  <1>7. FullBufferIsFlushed'
    BY <1>3 DEF FullBufferIsFlushed
  <1> QED BY <1>4, <1>5, <1>6, <1>7

LEMMA RestartsAreKept ==
  ASSUME ChatInv, Restart
  PROVE  ChatInv'
  <1> USE DEF ChatInv, Restart
  <1>1. Shape'
    BY ChatLogAssumption DEF Shape
  <1>2. Keys'
    <2>1. ASSUME NEW k \in DOMAIN objects'
          PROVE  \E b \in 1..boot', n \in Nat : k = <<Pods[b], n>> /\ (b = boot' => n <= seq')
      <3>1. PICK b \in 1..boot, n \in Nat : k = <<Pods[b], n>>
        BY DEF Keys
      <3>2. b \in 1..boot' /\ b # boot'
        BY DEF Shape
      <3> QED BY <3>1, <3>2
    <2> QED BY <2>1 DEF Keys
  <1>3. EventsAreKept'
    <2>1. ASSUME NEW f \in flights, f.stored
          PROVE  Range(f.events) \subseteq StoredEvents
      BY <2>1 DEF Keys, StoredEvents
    <2>2. InFlight \subseteq StoredEvents \cup UNION {Range(f.events) : f \in {g \in flights : ~g.stored}}
      BY <2>1 DEF InFlight
    <2> QED BY <2>2 DEF EventsAreKept, StoredEvents
  <1>4. FullBufferIsFlushed'
    BY ChatLogAssumption DEF FullBufferIsFlushed
  <1> QED BY <1>1, <1>2, <1>3, <1>4

LEMMA ChatIsKept ==
  ASSUME ChatInv, [Next]_vars
  PROVE  /\ ChatInv'
         /\ \A k \in DOMAIN objects : k \in DOMAIN objects' /\ objects'[k] = objects[k]
  <1>1. CASE \E e \in Events : Log(e)
    BY <1>1, LogsAreKept DEF Log
  <1>2. CASE Tick \/ Overflow
    <2>1. PICK by \in {"loop", "log"} : Take(by)
      BY <1>2 DEF Tick, Overflow
    <2>2. UNCHANGED <<boot, objects, logged, lost>> /\ (spawned' = spawned \/ (spawned > 0 /\ spawned' = spawned - 1))
      BY <1>2 DEF Tick, Overflow
    <2>3. /\ flights' \subseteq Flight /\ (\A f \in flights' : f.events # <<>>)
          /\ buf' = <<>> /\ bufSize' = 0 /\ seq' \in Nat
          /\ Keys' /\ EventsAreKept'
      BY <2>1, <2>2, TakesAreKept
    <2>4. Shape'
      BY <2>2, <2>3 DEF ChatInv, Shape
    <2>5. FullBufferIsFlushed'
      BY <2>3, ChatLogAssumption DEF FullBufferIsFlushed
    <2> QED BY <2>2, <2>3, <2>4, <2>5 DEF ChatInv
  <1>3. CASE \E f \in flights : Upload(f)
    BY <1>3, StoresAreKept, UploadsEndKept DEF Upload, Succeed, Fail, Failed
  <1>4. CASE Restart
    BY <1>4, RestartsAreKept DEF Restart
  <1>5. CASE Quiescent \/ UNCHANGED vars
    BY <1>5 DEF Quiescent, vars, ChatInv, Shape, Keys, Key, EventsAreKept, InFlight, StoredEvents,
           FullBufferIsFlushed
  <1> QED BY <1>1, <1>2, <1>3, <1>4, <1>5 DEF Next

LEMMA ChatInvariant == Spec => []ChatInv
  <1>1. ChatInv /\ [Next]_vars => ChatInv'
    BY ChatIsKept
  <1> QED BY <1>1, InitChat, PTL DEF Spec

\* No event is lost while its process lives, whatever uploads fail and however
\* they overlap (flush's requeue: "Don't drop events on failure").
THEOREM EventsStay == Spec => []EventsAreKept
  BY ChatInvariant, PTL DEF ChatInv

\* A full buffer has a flush on its way, or was filled by a requeue (Log's
\* size trigger against the flushes that empty the buffer before it runs).
THEOREM FullBuffersAreFlushed == Spec => []FullBufferIsFlushed
  BY ChatInvariant, PTL DEF ChatInv

\* No object is ever overwritten, over any number of restarts (the key of an
\* object: podID and seq).
THEOREM ObjectsStay == Spec => ObjectsAreFinal
  <1>1. ChatInv /\ [Next]_vars =>
          [\A k \in DOMAIN objects : k \in DOMAIN objects' /\ objects'[k] = objects[k]]_vars
    BY ChatIsKept
  <1> QED BY <1>1, ChatInvariant, PTL DEF Spec, ObjectsAreFinal

-----------------------------------------------------------------------------
(***************************************************************************)
(* Bytes and copies. Book: the buffer's bytes are counted. Apart: an event *)
(* is in one place of the buffer or of one upload. Copied: each copy in    *)
(* the bucket beyond the first, and one on its way to be stored, is owed   *)
(* to an upload that failed after it was stored.                           *)
(***************************************************************************)
Book ==
  /\ BufSizeIsExact
  /\ objects \in [DOMAIN objects -> Seq(Events)]
  /\ logged \cup lost \cup requeued \subseteq Events
  /\ \A f, g \in flights : f.by = "loop" /\ g.by = "loop" => f = g

Apart ==
  /\ IsInjective(buf) /\ Range(buf) \subseteq logged
  /\ \A f \in flights :
       /\ IsInjective(f.events) /\ Range(f.events) \subseteq logged
       /\ Range(f.events) \cap Range(buf) = {}
  /\ \A f, g \in flights : f # g => Range(f.events) \cap Range(g.events) = {}

CopiesOf(e) == {k \in DOMAIN objects : e \in Range(objects[k])}
Waits(e) == e \in Range(buf) \/ \E f \in flights : ~f.stored /\ e \in Range(f.events)
Owed(e) == IF Waits(e) THEN 1 ELSE 0
Copied ==
  /\ IsFiniteSet(DOMAIN objects) /\ StoredEvents \subseteq logged
  /\ failures.stored \in Nat
  /\ \A e \in Events : Cardinality(CopiesOf(e)) + Owed(e) <= 1 + failures.stored

BookInv == Book /\ Apart /\ Copied

LEMMA InjectiveAppend ==
  ASSUME NEW S, NEW s \in Seq(S), NEW e \in S, IsInjective(s), e \notin Range(s)
  PROVE  IsInjective(Append(s, e))
  <1>1. /\ DOMAIN s = 1..Len(s) /\ Len(s) \in Nat
        /\ DOMAIN Append(s, e) = 1..(Len(s) + 1)
        /\ \A i \in 1..Len(s) : Append(s, e)[i] = s[i]
        /\ Append(s, e)[Len(s) + 1] = e
    OBVIOUS
  <1>2. \A i \in 1..Len(s) : s[i] # e
    BY <1>1 DEF Range
  <1>3. \A i \in 1..(Len(s) + 1) : i = Len(s) + 1 \/ i \in 1..Len(s)
    BY <1>1
  <1> QED BY <1>1, <1>2, <1>3 DEF IsInjective

LEMMA InjectiveConcat ==
  ASSUME NEW S, NEW s \in Seq(S), NEW t \in Seq(S), IsInjective(s), IsInjective(t),
         Range(s) \cap Range(t) = {}
  PROVE  IsInjective(s \o t)
  <1>1. /\ DOMAIN s = 1..Len(s) /\ DOMAIN t = 1..Len(t) /\ Len(s) \in Nat /\ Len(t) \in Nat
        /\ DOMAIN (s \o t) = 1..(Len(s) + Len(t))
        /\ \A i \in 1..Len(s) : (s \o t)[i] = s[i]
        /\ \A i \in 1..Len(t) : (s \o t)[Len(s) + i] = t[i]
    OBVIOUS
  <1>2. \A i \in 1..Len(s), j \in 1..Len(t) : s[i] # t[j]
    BY <1>1 DEF Range
  <1>3. \A i \in 1..(Len(s) + Len(t)) :
          i \in 1..Len(s) \/ (i - Len(s) \in 1..Len(t) /\ i = Len(s) + (i - Len(s)))
    BY <1>1
  <1>4. ASSUME NEW i \in 1..(Len(s) + Len(t)), NEW j \in 1..(Len(s) + Len(t)),
               (s \o t)[i] = (s \o t)[j]
        PROVE  i = j
    <2>1. CASE i \in 1..Len(s) /\ j \in 1..Len(s)
      BY <1>1, <1>4, <2>1 DEF IsInjective
    <2>2. CASE i \in 1..Len(s) /\ j - Len(s) \in 1..Len(t)
      BY <1>1, <1>2, <1>3, <1>4, <2>2
    <2>3. CASE i - Len(s) \in 1..Len(t) /\ j \in 1..Len(s)
      BY <1>1, <1>2, <1>3, <1>4, <2>3
    <2>4. CASE i - Len(s) \in 1..Len(t) /\ j - Len(s) \in 1..Len(t)
      <3>1. (s \o t)[i] = t[i - Len(s)] /\ (s \o t)[j] = t[j - Len(s)]
        BY <1>1, <2>4
      <3>2. i - Len(s) = j - Len(s)
        BY <1>1, <1>4, <2>4, <3>1 DEF IsInjective
      <3> QED BY <1>1, <3>2
    <2> QED BY <1>3, <2>1, <2>2, <2>3, <2>4
  <1> QED BY <1>1, <1>4 DEF IsInjective

LEMMA RangeOfEvents ==
  ASSUME NEW s \in Seq(Events)
  PROVE  Range(s) \subseteq Events /\ SizeOfAll(s) \in Nat
  <1>1. SizeOf \in [Events -> Nat]
    BY ChatLogAssumption
  <1> QED BY <1>1, AlongType DEF Range, SizeOfAll

\* The bucket's share of Copied, when the bucket stays.
LEMMA CopiesStay ==
  ASSUME Copied, UNCHANGED objects, logged \subseteq logged',
         failures'.stored \in Nat,
         \A e \in Events :
           \/ Owed(e)' - Owed(e) <= failures'.stored - failures.stored
           \/ e \notin StoredEvents /\ failures'.stored = failures.stored
  PROVE  Copied'
  <1>1. ASSUME NEW e \in Events
        PROVE  Cardinality(CopiesOf(e)') + Owed(e)' <= 1 + failures'.stored
    <2>1. CopiesOf(e)' = CopiesOf(e)
      BY DEF CopiesOf
    <2>2. IsFiniteSet(CopiesOf(e))
      BY FS_Subset DEF Copied, CopiesOf
    <2>3. Cardinality(CopiesOf(e)) \in Nat /\ failures.stored \in Nat
      BY <2>2, FS_CardinalityType DEF Copied
    <2>4. Owed(e) \in {0, 1} /\ Owed(e)' \in {0, 1}
      BY DEF Owed
    <2>5. Cardinality(CopiesOf(e)) + Owed(e) <= 1 + failures.stored
      BY DEF Copied
    <2>6. CASE Owed(e)' - Owed(e) <= failures'.stored - failures.stored
      BY <2>1, <2>3, <2>4, <2>5, <2>6
    <2>7. CASE e \notin StoredEvents /\ failures'.stored = failures.stored
      <3>1. CopiesOf(e) = {}
        BY <2>7 DEF CopiesOf, StoredEvents
      <3>2. Cardinality(CopiesOf(e)) = 0
        BY <3>1, FS_EmptySet
      <3> QED BY <2>1, <2>3, <2>4, <2>7, <3>2
    <2> QED BY <2>6, <2>7
  <1> QED BY <1>1 DEF Copied, StoredEvents

LEMMA InitBook == Init => BookInv
  <1> SUFFICES ASSUME Init
               PROVE  BookInv
    OBVIOUS
  <1>1. Book
    BY AlongNone DEF Init, Book, BufSizeIsExact, SizeOfAll
  <1>2. Apart
    BY DEF Init, Apart, IsInjective, Range
  <1>3. Copied
    <2>1. DOMAIN objects = {} /\ Range(buf) = {} /\ flights = {} /\ failures.stored = 0
      BY DEF Init, Range
    <2>2. \A e : CopiesOf(e) = {} /\ Owed(e) = 0
      BY <2>1 DEF CopiesOf, Owed, Waits
    <2>3. \A e : Cardinality(CopiesOf(e)) + Owed(e) = 0
      BY <2>2, FS_EmptySet
    <2> QED BY <2>1, <2>3, FS_EmptySet DEF Copied, StoredEvents
  <1> QED BY <1>1, <1>2, <1>3 DEF BookInv

LEMMA LogsAreBooked ==
  ASSUME Shape, BookInv, NEW e \in Events, Log(e)
  PROVE  BookInv'
  <1> USE DEF BookInv
  <1>1. /\ UNCHANGED <<flights, objects, lost, requeued, failures>> /\ logged' = logged \cup {e}
        /\ e \notin logged /\ buf' = Append(buf, e) /\ bufSize' = bufSize + SizeOf[e]
        /\ buf \in Seq(Events)
    BY DEF Log, Shape
  <1>2. Range(buf') = Range(buf) \cup {e}
    BY <1>1, RangeOfAppend
  <1>3. Book'
    <2>1. SizeOfAll(buf') = SizeOfAll(buf) + SizeOf[e]
      <3>1. SizeOf \in [Events -> Nat]
        BY ChatLogAssumption
      <3> QED BY <1>1, <3>1, AlongAppend DEF SizeOfAll
    <2> QED BY <1>1, <2>1 DEF Book, BufSizeIsExact
  <1>4. Apart'
    <2>1. IsInjective(buf')
      BY <1>1, InjectiveAppend DEF Apart
    <2> QED BY <1>1, <1>2, <2>1 DEF Apart
  <1>5. Copied'
    <2>1. \A x \in Events \ {e} : Owed(x)' = Owed(x)
      BY <1>1, <1>2 DEF Owed, Waits
    <2>2. e \notin StoredEvents
      BY <1>1 DEF Copied
    <2>3. \A x \in Events : Owed(x) \in Int
      BY DEF Owed
    <2>4. failures.stored \in Nat
      BY DEF Copied
    <2> QED BY <1>1, <2>1, <2>2, <2>3, <2>4, CopiesStay
  <1> QED BY <1>3, <1>4, <1>5

LEMMA TakesAreBooked ==
  ASSUME Shape, BookInv, NEW by \in {"loop", "log"}, Take(by),
         by = "loop" => ~\E f \in flights : f.by = "loop",
         UNCHANGED <<objects, logged, lost, requeued, failures>>
  PROVE  BookInv'
  <1> USE DEF BookInv
  <1>1. CASE buf = <<>>
    BY <1>1 DEF Take, Book, BufSizeIsExact, Apart, Copied, CopiesOf, Owed, Waits, StoredEvents
  <1>2. CASE buf # <<>>
    <2> DEFINE new == [by |-> by, seq |-> seq + 1, events |-> buf, stored |-> FALSE]
    <2>1. flights' = flights \cup {new} /\ buf' = <<>> /\ bufSize' = 0
      BY <1>2 DEF Take
    <2>2. new.by = by /\ new.events = buf /\ ~new.stored
      OBVIOUS
    <2> HIDE DEF new
    <2>3. Range(buf') = {} /\ IsInjective(buf')
      BY <2>1 DEF Range, IsInjective
    <2>4. Book'
      BY <2>1, <2>2, AlongNone DEF Book, BufSizeIsExact, SizeOfAll
    <2>5. Apart'
      BY <2>1, <2>2, <2>3 DEF Apart
    <2>6. Copied'
      <3>1. \A x \in Events : Owed(x)' = Owed(x) /\ Owed(x) \in Int
        BY <2>1, <2>2, <2>3 DEF Owed, Waits
      <3>2. failures.stored \in Nat
        BY DEF Copied
      <3> QED BY <3>1, <3>2, CopiesStay
    <2> QED BY <2>4, <2>5, <2>6
  <1> QED BY <1>1, <1>2

LEMMA StoresAreBooked ==
  ASSUME Shape, Keys, BookInv, NEW f \in flights, Store(f)
  PROVE  BookInv'
  <1> USE DEF BookInv
  <1> DEFINE done == [f EXCEPT !.stored = TRUE]
  <1>1. /\ done.by = f.by /\ done.events = f.events /\ done.stored
        /\ f.events \in Seq(Events)
    BY DEF Shape, Flight
  <1>2. /\ ~f.stored /\ flights' = (flights \ {f}) \cup {done}
        /\ UNCHANGED <<buf, bufSize, logged, lost, requeued, failures>>
    BY DEF Store
  <1> HIDE DEF done
  <1>3. Key(f) \notin DOMAIN objects
    BY <1>2 DEF Keys
  <1>4. /\ DOMAIN objects' = DOMAIN objects \cup {Key(f)}
        /\ objects'[Key(f)] = f.events
        /\ \A k \in DOMAIN objects : objects'[k] = objects[k]
        /\ objects' = [k \in DOMAIN objects' |-> objects'[k]]
    BY <1>3 DEF Store
  <1>5. Book'
    <2>1. objects' \in [DOMAIN objects' -> Seq(Events)]
      BY <1>1, <1>4 DEF Book
    <2> QED BY <1>1, <1>2, <2>1 DEF Book, BufSizeIsExact
  <1>6. Apart'
    BY <1>1, <1>2 DEF Apart
  <1>7. Copied'
    <2>1. IsFiniteSet(DOMAIN objects')
      BY <1>4, FS_AddElement DEF Copied
    <2>2. StoredEvents' \subseteq logged'
      <3>1. StoredEvents' = StoredEvents \cup Range(f.events)
        BY <1>3, <1>4 DEF StoredEvents
      <3> QED BY <1>2, <3>1 DEF Copied, Apart
    <2>3. ASSUME NEW e \in Events
          PROVE  Cardinality(CopiesOf(e)') + Owed(e)' <= 1 + failures'.stored
      <3>1. IsFiniteSet(CopiesOf(e))
        BY FS_Subset DEF Copied, CopiesOf
      <3>2. Cardinality(CopiesOf(e)) \in Nat /\ failures.stored \in Nat
        BY <3>1, FS_CardinalityType DEF Copied
      <3>3. Cardinality(CopiesOf(e)) + Owed(e) <= 1 + failures.stored
        BY DEF Copied
      <3>4. CASE e \in Range(f.events)
        <4>1. CopiesOf(e)' = CopiesOf(e) \cup {Key(f)} /\ Key(f) \notin CopiesOf(e)
          BY <1>3, <1>4, <3>4 DEF CopiesOf
        <4>2. Cardinality(CopiesOf(e)') = Cardinality(CopiesOf(e)) + 1
          BY <3>1, <4>1, FS_AddElement
        <4>3. Owed(e) = 1
          BY <1>2, <3>4 DEF Owed, Waits
        <4>4. Owed(e)' = 0
          BY <1>1, <1>2, <3>4 DEF Owed, Waits, Apart
        <4> QED BY <1>2, <3>2, <3>3, <4>2, <4>3, <4>4
      <3>5. CASE e \notin Range(f.events)
        <4>1. CopiesOf(e)' = CopiesOf(e)
          BY <1>3, <1>4, <3>5 DEF CopiesOf
        <4>2. Owed(e)' = Owed(e)
          BY <1>1, <1>2, <3>5 DEF Owed, Waits
        <4> QED BY <1>2, <3>3, <4>1, <4>2
      <3> QED BY <3>4, <3>5
    <2> QED BY <1>2, <2>1, <2>2, <2>3 DEF Copied
  <1> QED BY <1>5, <1>6, <1>7

LEMMA UploadsEndBooked ==
  ASSUME Shape, BookInv, NEW f \in flights, Succeed(f) \/ Fail(f)
  PROVE  BookInv'
  <1> USE DEF BookInv
  <1>1. /\ flights' = flights \ {f} /\ UNCHANGED <<objects, logged, lost>>
        /\ failures.stored \in Nat
    BY DEF Succeed, Fail, Failed, Copied
  <1>2. CASE Succeed(f)
    <2>1. UNCHANGED <<buf, bufSize, requeued, failures>> /\ f.stored
      BY <1>2 DEF Succeed
    <2>2. Book' /\ Apart'
      BY <1>1, <2>1 DEF Book, BufSizeIsExact, Apart
    <2>3. \A e \in Events : Owed(e)' = Owed(e) /\ Owed(e) \in Int
      BY <1>1, <2>1 DEF Owed, Waits
    <2> QED BY <1>1, <2>1, <2>2, <2>3, CopiesStay
  <1>3. CASE Fail(f)
    <2>1. /\ buf' = f.events \o buf /\ requeued' = requeued \cup Range(f.events)
          /\ bufSize' = bufSize + SizeOfAll(f.events)
          /\ failures'.stored = failures.stored + IF f.stored THEN 1 ELSE 0
      BY <1>3 DEF Fail, Failed
    <2>2. f.events \in Seq(Events) /\ buf \in Seq(Events)
      BY DEF Shape, Flight
    <2>3. Range(buf') = Range(f.events) \cup Range(buf) /\ Range(f.events) \subseteq Events
      BY <2>1, <2>2, RangeOfConcat, RangeOfEvents
    <2>4. Book'
      <3>1. SizeOfAll(buf') = SizeOfAll(f.events) + SizeOfAll(buf)
        <4>1. SizeOf \in [Events -> Nat]
          BY ChatLogAssumption
        <4> QED BY <2>1, <2>2, <4>1, AlongConcat DEF SizeOfAll
      <3>2. SizeOfAll(f.events) \in Nat /\ SizeOfAll(buf) \in Nat
        BY <2>2, RangeOfEvents
      <3>3. bufSize' = SizeOfAll(buf')
        BY <2>1, <3>1, <3>2 DEF Book, BufSizeIsExact
      <3> QED BY <1>1, <2>1, <2>3, <3>3 DEF Book, BufSizeIsExact
    <2>5. Apart'
      <3>1. IsInjective(buf')
        BY <2>1, <2>2, InjectiveConcat DEF Apart
      <3> QED BY <1>1, <2>3, <3>1 DEF Apart
    <2>6. Copied'
      <3>1. ASSUME NEW e \in Events
            PROVE  Owed(e)' - Owed(e) <= failures'.stored - failures.stored
        <4>1. Owed(e) \in {0, 1} /\ Owed(e)' \in {0, 1}
          BY DEF Owed
        <4>2. CASE e \in Range(f.events) /\ ~f.stored
          <5>1. Owed(e) = 1
            BY <4>2 DEF Owed, Waits
          <5> QED BY <1>1, <2>1, <4>1, <4>2, <5>1
        <4>3. CASE f.stored
          BY <1>1, <2>1, <4>1, <4>3
        <4>4. CASE e \notin Range(f.events) /\ ~f.stored
          <5>1. Owed(e)' = Owed(e)
            BY <1>1, <2>3, <4>4 DEF Owed, Waits
          <5> QED BY <1>1, <2>1, <4>1, <4>4, <5>1
        <4> QED BY <4>2, <4>3, <4>4
      <3>2. failures'.stored \in Nat
        BY <1>1, <2>1
      <3>3. Copied /\ UNCHANGED objects /\ logged \subseteq logged'
        BY <1>1
      <3> QED BY <3>1, <3>2, <3>3, CopiesStay
    <2> QED BY <2>4, <2>5, <2>6
  <1> QED BY <1>2, <1>3

LEMMA RestartsAreBooked ==
  ASSUME Shape, BookInv, Restart
  PROVE  BookInv'
  <1> USE DEF BookInv
  <1>1. /\ buf' = <<>> /\ bufSize' = 0 /\ flights' = {}
        /\ UNCHANGED <<objects, logged, requeued, failures>>
        /\ lost' = lost \cup Range(buf) \cup UNION {Range(f.events) : f \in {g \in flights : ~g.stored}}
    BY DEF Restart
  <1>2. Range(buf') = {} /\ IsInjective(buf')
    BY <1>1 DEF Range, IsInjective
  <1>3. Book'
    <2>1. lost' \subseteq lost \cup logged
      BY <1>1 DEF Apart
    <2> QED BY <1>1, <2>1, AlongNone DEF Book, BufSizeIsExact, SizeOfAll
  <1>4. Apart'
    BY <1>1, <1>2 DEF Apart
  <1>5. Copied'
    <2>1. \A e \in Events : Owed(e)' = 0 /\ Owed(e) \in {0, 1}
      BY <1>1, <1>2 DEF Owed, Waits
    <2>2. failures.stored \in Nat
      BY DEF Copied
    <2> QED BY <1>1, <2>1, <2>2, CopiesStay
  <1> QED BY <1>3, <1>4, <1>5

LEMMA BookIsKept ==
  ASSUME ChatInv, BookInv, [Next]_vars
  PROVE  BookInv'
  <1>1. Shape /\ Keys
    BY DEF ChatInv
  <1>2. CASE Tick
    BY <1>1, <1>2, TakesAreBooked DEF Tick
  <1>3. CASE Overflow
    BY <1>1, <1>3, TakesAreBooked DEF Overflow
  <1>4. CASE Quiescent \/ UNCHANGED vars
    BY <1>4 DEF Quiescent, vars, BookInv, Book, BufSizeIsExact, Apart, Copied, CopiesOf, Owed, Waits,
           StoredEvents
  <1> QED BY <1>1, <1>2, <1>3, <1>4, LogsAreBooked, StoresAreBooked, UploadsEndBooked,
             RestartsAreBooked DEF Next, Upload

LEMMA BookInvariant == Spec => [](ChatInv /\ BookInv)
  <1>1. ChatInv /\ BookInv /\ [Next]_vars => BookInv'
    BY BookIsKept
  <1> QED BY <1>1, ChatInvariant, InitBook, PTL DEF Spec

\* The buffer, the uploads and the bucket are well typed, and the ticker's
\* goroutine is in one flush at most.
THEOREM TypeCorrect == Spec => []TypeOK
  <1>1. ChatInv /\ BookInv => TypeOK
    <2> SUFFICES ASSUME ChatInv, BookInv
                 PROVE  TypeOK
      OBVIOUS
    <2>1. Shape /\ Book
      BY DEF ChatInv, BookInv
    <2>2. bufSize \in Nat
      BY <2>1, RangeOfEvents DEF Shape, Book, BufSizeIsExact
    <2>3. boot \in DOMAIN Pods
      BY <2>1, ChatLogAssumption DEF Shape
    <2> QED BY <2>1, <2>2, <2>3 DEF TypeOK, Shape, Book
  <1> QED BY <1>1, BookInvariant, PTL

\* bufSize is the size of what the buffer holds, through every append, take and
\* requeue (Log and flush), for any sizes and any number of overlapping flushes.
THEOREM SizeIsExact == Spec => []BufSizeIsExact
  BY BookInvariant, PTL DEF BookInv, Book

\* At most one element: the places of an event in a sequence that repeats none.
LEMMA AtMostOne ==
  ASSUME NEW S, \A x, y \in S : x = y
  PROVE  IsFiniteSet(S) /\ Cardinality(S) = IF S = {} THEN 0 ELSE 1
  <1>1. CASE S = {}
    BY <1>1, FS_EmptySet
  <1>2. CASE S # {}
    <2>1. PICK x \in S : S = {x}
      BY <1>2
    <2> QED BY <1>2, <2>1, FS_Singleton
  <1> QED BY <1>1, <1>2

\* No event is uploaded twice because flushes overlap: each further copy is owed
\* to an upload reported failed after it was stored (flush's take and requeue).
THEOREM CopiesAreOwed == Spec => []NoDuplicates
  <1>1. ChatInv /\ BookInv => NoDuplicates
    <2> SUFFICES ASSUME ChatInv, BookInv, NEW e \in logged
                 PROVE  Cardinality({k \in DOMAIN objects : e \in Range(objects[k])})
                          + (Cardinality({f \in flights : ~f.stored /\ e \in Range(f.events)})
                              + Cardinality({i \in DOMAIN buf : buf[i] = e}))
                          <= 1 + failures.stored
      BY DEF NoDuplicates
    <2> DEFINE F == {f \in flights : ~f.stored /\ e \in Range(f.events)}
               B == {i \in DOMAIN buf : buf[i] = e}
    <2>1. Apart /\ Copied /\ e \in Events
      BY DEF BookInv, Book
    <2>2. Cardinality(F) = IF F = {} THEN 0 ELSE 1
      <3>1. \A f, g \in F : f = g
        BY <2>1 DEF Apart
      <3> QED BY <3>1, AtMostOne
    <2>3. Cardinality(B) = IF B = {} THEN 0 ELSE 1
      <3>1. \A i, j \in B : i = j
        BY <2>1 DEF Apart, IsInjective
      <3> QED BY <3>1, AtMostOne
    <2>4. B # {} <=> e \in Range(buf)
      BY DEF Range
    <2>5. F = {} \/ B = {}
      BY <2>1, <2>4 DEF Apart
    <2>6. Owed(e) = IF F = {} /\ B = {} THEN 0 ELSE 1
      BY <2>4 DEF Owed, Waits
    <2>7. Cardinality(CopiesOf(e)) + Owed(e) <= 1 + failures.stored
      BY <2>1 DEF Copied
    <2>8. Cardinality(F) + Cardinality(B) = Owed(e)
      BY <2>2, <2>3, <2>5, <2>6
    <2> QED BY <2>7, <2>8 DEF CopiesOf
  <1> QED BY <1>1, BookInvariant, PTL
===============================================================================
