------------------------------ MODULE ChatLog ------------------------------
(***************************************************************************)
(* The chat-event logger of internal/chatlog: chat handlers append events  *)
(* to a buffer; the ticker's goroutine, and one more goroutine each time   *)
(* the buffer is full, take the buffer and upload it as one object. An     *)
(* upload that fails puts its events back. The mutex makes each of Log,    *)
(* the start of flush and the requeue one step; the upload runs unlocked.  *)
(*                                                                         *)
(* Encoding and gzip write to memory and cannot fail. Stop is not an       *)
(* action: main defers it, and leaves only through log.Fatal, which skips  *)
(* deferred calls.                                                         *)
(***************************************************************************)
EXTENDS Integers, Sequences, FiniteSets, Functions, Sums

CONSTANTS
  Events,
  SizeOf,       \* the bytes an event counts for
  FlushBytes,   \* 5 MB in the code
  Pods,         \* the random pod ids, in the order the restarts draw them
  MaxFailures   \* bound: uploads that report an error

ASSUME ChatLogAssumption ==
  /\ SizeOf \in [Events -> Nat \ {0}]
  /\ FlushBytes \in Nat \ {0}
  /\ Pods \in Seq(Range(Pods)) /\ Len(Pods) > 0 /\ IsInjective(Pods)
  /\ MaxFailures \in Nat

VARIABLES
  boot,      \* which process is running: podID is Pods[boot]
  buf,       \* l.buf
  bufSize,   \* l.bufSize
  seq,       \* l.seq
  spawned,   \* goroutines of Log that have not started their flush
  flights,   \* the uploads under way
  objects,   \* the bucket: events by key
  logged,    \* history: the events Log was called with
  lost,      \* history: the events that died with a process
  requeued,  \* history: the events of failed uploads
  failures   \* history: failed uploads, and how many of them had been stored

vars == <<boot, buf, bufSize, seq, spawned, flights, objects, logged, lost, requeued, failures>>

\* A flush past its first critical section: by the ticker's goroutine or by one
\* that Log started, with its copy of seq and whether the object is stored.
Flight == [by : {"loop", "log"}, seq : Nat, events : Seq(Events), stored : BOOLEAN]

SizeOfAll(s) == SumAlong(SizeOf, s)

Init ==
  /\ boot = 1
  /\ buf = <<>> /\ bufSize = 0 /\ seq = 0 /\ spawned = 0 /\ flights = {}
  /\ objects = <<>>
  /\ logged = {} /\ lost = {} /\ requeued = {}
  /\ failures = [all |-> 0, stored |-> 0]

-----------------------------------------------------------------------------

\* A flush is started only by the event that crosses the limit by itself.
SlipLog(e) ==
  /\ e \notin logged
  /\ buf' = Append(buf, e)
  /\ bufSize' = bufSize + SizeOf[e]
  /\ spawned' = IF SizeOf[e] >= FlushBytes THEN spawned + 1 ELSE spawned
  /\ logged' = logged \cup {e}
  /\ UNCHANGED <<boot, seq, flights, objects, lost, requeued, failures>>

\* Log: append, and start a flush when the buffer is full.
Log(e) ==
  /\ e \notin logged
  /\ buf' = Append(buf, e)
  /\ bufSize' = bufSize + SizeOf[e]
  /\ spawned' = IF bufSize' >= FlushBytes THEN spawned + 1 ELSE spawned
  /\ logged' = logged \cup {e}
  /\ UNCHANGED <<boot, seq, flights, objects, lost, requeued, failures>>

\* The buffer is emptied when the upload is done, not when it is taken.
SlipTake(by) ==
  /\ flights' = flights \cup {[by |-> by, seq |-> seq + 1, events |-> buf, stored |-> FALSE]}
  /\ seq' = seq + 1
  /\ UNCHANGED <<buf, bufSize>>

\* flush, first critical section: take the buffer and number the object. An
\* empty buffer is left alone.
Take(by) ==
  IF buf = <<>> THEN UNCHANGED <<buf, bufSize, seq, flights>>
  ELSE /\ flights' = flights \cup {[by |-> by, seq |-> seq + 1, events |-> buf, stored |-> FALSE]}
       /\ seq' = seq + 1
       /\ buf' = <<>> /\ bufSize' = 0

\* The ticker starts a goroutine for each flush.
SlipTick ==
  /\ buf # <<>>
  /\ Take("loop")
  /\ UNCHANGED <<boot, spawned, objects, logged, lost, requeued, failures>>

\* The ticker fires; its goroutine is not in an earlier flush.
Tick ==
  /\ buf # <<>>
  /\ ~\E f \in flights : f.by = "loop"
  /\ Take("loop")
  /\ UNCHANGED <<boot, spawned, objects, logged, lost, requeued, failures>>

\* A goroutine that Log started runs.
Overflow ==
  /\ spawned > 0
  /\ Take("log")
  /\ spawned' = spawned - 1
  /\ UNCHANGED <<boot, objects, logged, lost, requeued, failures>>

\* The counter is read when the object is named, after the mutex is released.
SlipKey(f) == <<Pods[boot], seq>>

\* The object's key. Its date adds nothing that podID and seq do not tell apart.
Key(f) == <<Pods[boot], f.seq>>

\* The bucket stores the object; the caller does not know yet.
Store(f) ==
  /\ ~f.stored
  /\ objects' = [k \in DOMAIN objects \cup {Key(f)} |->
                   IF k = Key(f) THEN f.events ELSE objects[k]]
  /\ flights' = (flights \ {f}) \cup {[f EXCEPT !.stored = TRUE]}
  /\ UNCHANGED <<boot, buf, bufSize, seq, spawned, logged, lost, requeued, failures>>

\* PutObject returns nil.
Succeed(f) ==
  /\ f.stored
  /\ flights' = flights \ {f}
  /\ UNCHANGED <<boot, buf, bufSize, seq, spawned, objects, logged, lost, requeued, failures>>

\* What the requeue and its bookkeeping have in common.
Failed(f) ==
  /\ failures.all < MaxFailures
  /\ flights' = flights \ {f}
  /\ requeued' = requeued \cup Range(f.events)
  /\ failures' = [all |-> failures.all + 1,
                  stored |-> failures.stored + IF f.stored THEN 1 ELSE 0]
  /\ UNCHANGED <<boot, seq, spawned, objects, logged, lost>>

\* The requeue overwrites what was logged during the upload.
SlipOverwrite(f) ==
  /\ Failed(f)
  /\ buf' = f.events /\ bufSize' = SizeOfAll(f.events)

\* The requeue does not count the events' bytes again.
SlipUncounted(f) ==
  /\ Failed(f)
  /\ buf' = f.events \o buf
  /\ UNCHANGED bufSize

\* A failed upload is dropped.
SlipDrop(f) ==
  /\ Failed(f)
  /\ UNCHANGED <<buf, bufSize>>

\* PutObject returns an error, or its thirty seconds are over: the events go
\* back to the head of the buffer. The object may have been stored all the same.
Fail(f) ==
  /\ Failed(f)
  /\ buf' = f.events \o buf
  /\ bufSize' = bufSize + SizeOfAll(f.events)

\* The process dies and the next one starts with a new pod id: what was not
\* stored is gone.
Restart ==
  /\ boot < Len(Pods)
  /\ boot' = boot + 1
  /\ lost' = lost \cup Range(buf) \cup UNION {Range(f.events) : f \in {g \in flights : ~g.stored}}
  /\ buf' = <<>> /\ bufSize' = 0 /\ seq' = 0 /\ spawned' = 0 /\ flights' = {}
  /\ UNCHANGED <<objects, logged, requeued, failures>>

\* Nothing left to log or to upload.
Quiescent ==
  /\ logged = Events /\ buf = <<>> /\ flights = {} /\ spawned = 0
  /\ UNCHANGED vars

Upload(f) == Store(f) \/ Succeed(f) \/ Fail(f)

Next ==
  \/ \E e \in Events : Log(e)
  \/ Tick \/ Overflow
  \/ \E f \in flights : Upload(f)
  \/ Restart \/ Quiescent

Spec == Init /\ [][Next]_vars

\* The ticker fires again and again, started goroutines run, and every upload
\* ends: its context has a thirty-second timeout.
FairSpec ==
  /\ Spec
  /\ WF_vars(Tick) /\ WF_vars(Overflow)
  /\ WF_vars(\E f \in flights : Upload(f))

-----------------------------------------------------------------------------
(* Properties.                                                             *)

StoredEvents == UNION {Range(objects[k]) : k \in DOMAIN objects}
InFlight == UNION {Range(f.events) : f \in flights}

\* Types, and one flush at a time by the ticker's goroutine.
TypeOK ==
  /\ boot \in DOMAIN Pods
  /\ buf \in Seq(Events) /\ bufSize \in Nat /\ seq \in Nat /\ spawned \in Nat
  /\ flights \subseteq Flight
  /\ objects \in [DOMAIN objects -> Seq(Events)]
  /\ logged \cup lost \cup requeued \subseteq Events
  /\ \A f, g \in flights : f.by = "loop" /\ g.by = "loop" => f = g

\* "Don't drop events on failure": as long as its process lives a logged event is
\* in the buffer, in an upload or in the bucket, whatever fails and however the
\* flushes interleave with Log.
EventsAreKept ==
  logged \subseteq Range(buf) \cup InFlight \cup StoredEvents \cup lost

\* bufSize, which Log adds to, flush resets and the requeue adds to, is the size
\* of what the buffer holds: the 5 MB trigger neither drifts nor goes deaf.
BufSizeIsExact == bufSize = SizeOfAll(buf)

\* "or 5MB": a full buffer has a flush on its way, unless it was filled by the
\* requeue of a failed upload, which waits for the next event or tick.
FullBufferIsFlushed ==
  bufSize >= FlushBytes => spawned > 0 \/ Range(buf) \cap requeued # {}

\* Each further copy of an event, in the bucket or on its way there, is owed to an
\* upload that was reported failed after it was stored: no event is uploaded
\* twice because two flushes overlap.
NoDuplicates ==
  LET CopiesInObjects(e) == Cardinality({k \in DOMAIN objects : e \in Range(objects[k])})
      Pending(e) == Cardinality({f \in flights : ~f.stored /\ e \in Range(f.events)})
                      + Cardinality({i \in DOMAIN buf : buf[i] = e})
  IN \A e \in logged : CopiesInObjects(e) + Pending(e) <= 1 + failures.stored

\* No upload overwrites the object of another, in this process or an earlier one:
\* a stored object never changes.
ObjectsAreFinal ==
  [][\A k \in DOMAIN objects : k \in DOMAIN objects' /\ objects'[k] = objects[k]]_vars

\* A logged event reaches the bucket, unless its process dies: no interleaving of
\* ticks, overflows and failures leaves it behind.
EventsAreStored ==
  \A e \in Events : e \in logged ~> (e \in StoredEvents \/ e \in lost)
=============================================================================
