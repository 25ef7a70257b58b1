--------------------------- MODULE RequestWindow ---------------------------
(***************************************************************************)
(* The Python file streamer: a ring of slots kept full of submissions      *)
(* (slot_pool.py, requests_iterator.py), the generator that turns the      *)
(* library's answers back into tensors in file order (file_streamer.py,    *)
(* yield_order.py), and the ways a consumer may leave it.                  *)
(*                                                                         *)
(* Python runs on one thread.  What runs beside it is the library, which   *)
(* fills and answers the ranges of every submission in any order, and, for *)
(* a ring in device memory, the streams the clones out of the ring are     *)
(* enqueued on.  A slot has a cell for every range of a request; mem says  *)
(* whose bytes a cell holds.  Ring kinds: "owned" gives its slots away     *)
(* with the tensors, "reused" lends a slot until the generator is resumed, *)
(* "device" clones out of it.                                              *)
(***************************************************************************)
EXTENDS Naturals, Sequences, SequencesExt, FiniteSets, FiniteSetsExt

CONSTANTS Ranges,      \* a stream's ranges, file after file: the order requests are packed in
          BufferSize, Depth,
          Modes,       \* the ring kinds and yield orders: [kind, ordered]
          MaxStreams, MaxSessions,
          MaxBuffers,  \* the memory the rings are cut from
          Faults,      \* "read", "unknown", "request"; "late" is an UnknownError the drain consumes
          Habits       \* what the consumer may do: "close", "exit" (leave the context with the
                       \* generator paused), "elsewhere" (iterate on another stream than
                       \* stream_files ran on), "move" (change streams part way)

\* One range of one file: which one it is, and its size.
FileRange == [file : Nat, index : Nat, size : Nat]

N == Len(Ranges)
Buffers == 1..MaxBuffers
Cells == 0..(N - 1)
Streams == {1, 2}

\* file_to_assigned_ranges once the first `at` ranges have been assigned.
Assigned(f, at) == Cardinality({i \in 1..at : Ranges[i].file = f})

\* What n ranges take in a buffer.
Bytes(at, n) == FoldSeq(LAMBDA r, t : r.size + t, 0, SubSeq(Ranges, at + 1, at + n))

\* The files in their order, the ranges of each in theirs; a buffer holds any one.
ASSUME RangesAssumption ==
  /\ Ranges \in Seq(FileRange)
  /\ \A i, j \in 1..N : i < j => Ranges[i].file <= Ranges[j].file
  /\ \A i \in 1..N : Ranges[i].index = Assigned(Ranges[i].file, i - 1)
  /\ \A at \in 0..(N - 1) : Bytes(at, 1) <= BufferSize

ASSUME WindowAssumption ==
  /\ Depth \in Nat \ {0} /\ MaxBuffers \in Nat
  /\ Modes \subseteq [kind : {"owned", "reused", "device"}, ordered : BOOLEAN]

NoBytes == [stream |-> 0, ord |-> 0]
NoRing == [kind |-> "none", home |-> 0, at |-> N, slots |-> <<>>, free |-> <<>>, pending |-> <<>>]
NoOrder == [on |-> FALSE, next |-> 1, parked |-> {}]
NoGenerator == [at |-> "none", ready |-> <<>>, device |-> FALSE]

VARIABLES
  mode,         \* what this process asks for, which never changes
  handle,       \* self.streamer: the session it belongs to, or 0
  sessions,     \* how many contexts have been entered
  number,       \* how many streams have been started
  unsettled,    \* a stream has been started while an earlier read, answered UnknownError, may still write
  ring,         \* self.requests_iterator and its SlotPool
  live,         \* live_requests
  left,         \* ranges_not_yielded
  reported,     \* reported_done
  outstanding,
  order,        \* self.yield_order
  gen,          \* the generator: where it is, and the locals that outlive a yield
  cloneEvent, cloneStream,
  owed,         \* the library: ranges submitted and not answered
  stray,        \* the library: ranges answered UnknownError that it may still write
  mem, held,    \* memory; the tensors the consumer holds as views
  copies,       \* per stream: clones and events enqueued and not run
  current,      \* the consumer's current stream
  astray,       \* the consumer has changed streams part way, or cloned after its context ended
  yielded, how  \* what this stream has handed over; how its last generator ended

python == <<mode, unsettled, handle, sessions, number, ring, live, left, reported, outstanding, order, gen,
            cloneEvent, cloneStream>>
library == <<owed, stray, mem>>
consumer == <<held, current, astray, yielded, how>>
vars == <<python, library, copies, consumer>>

Init ==
  /\ mode \in Modes
  /\ handle = 1 /\ sessions = 1 /\ number = 0 /\ unsettled = FALSE
  /\ ring = NoRing /\ live = {} /\ left = <<>> /\ reported = {} /\ outstanding = 0
  /\ order = NoOrder /\ gen = NoGenerator
  /\ cloneEvent = 0 /\ cloneStream = 0
  /\ owed = {} /\ stray = {}
  /\ mem = [b \in Buffers |-> [c \in Cells |-> NoBytes]]
  /\ held = {} /\ copies = [s \in Streams |-> <<>>] /\ current = 1 /\ astray = FALSE
  /\ yielded = <<>> /\ how = "none"

At(a) == gen.at = a
Goes(a) == gen' = [gen EXCEPT !.at = a]
MayFail(f) == f \in Faults
MayDo(h) == h \in Habits

-----------------------------------------------------------------------------
(* Requests: FilesRequestsIterator.                                         *)

\* Files are taken in list order, and a request takes ranges while they fit.
NextSpan(at) == Max({n \in 0..(N - at) : Bytes(at, n) <= BufferSize})

\* The files n ranges are of, and the place of one of them among a request's.
FilesOf(at, n) == {Ranges[i].file : i \in (at + 1)..(at + n)}
Place(fs, f) == Cardinality({g \in fs : g <= f})

\* The files of a request, and for each its first GLOBAL range index and its
\* first flat position, frozen when the request is built.
NewRequest(id, at, slot, buf) ==
  LET end == at + NextSpan(at)
      set == FilesOf(at, NextSpan(at))
      fs == [k \in 1..Cardinality(set) |-> CHOOSE f \in set : Place(set, f) = k]
  IN  [id |-> id, slot |-> slot, buf |-> buf, files |-> fs, num |-> end - at,
       rangeBase |-> [k \in DOMAIN fs |-> Assigned(fs[k], at)],
       fileBase |-> [k \in DOMAIN fs |->
          Cardinality({i \in (at + 1)..end : Ranges[i].file < fs[k]})]]

\* The ranges of a request as the library sees them: indexes relative to the
\* submission, and one destination each.
Submitted(q, at) ==
  {[id |-> q.id, file |-> Place(FilesOf(at, q.num), Ranges[i].file),
    index |-> Ranges[i].index - Assigned(Ranges[i].file, at),
    buf |-> q.buf, cell |-> i - 1 - at, tag |-> [stream |-> number, ord |-> i]] :
      i \in (at + 1)..(at + q.num)}

\* get_global_file_and_range(): answered from the request alone.
Resolve(q, w) == [file |-> q.files[w.file], index |-> q.rangeBase[w.file] + w.index]

\* The view of that range inside its slot.
CellOf(q, w) == q.fileBase[w.file] + w.index

-----------------------------------------------------------------------------
(* SlotPool.  An event is named by the slot it was recorded for: a slot has *)
(* at most one that has not completed.                                      *)

Clone(p) == [op |-> "clone", of |-> p]
Event(slot) == [op |-> "event", of |-> slot]

EventDone(slot) == \A s \in Streams : ~Contains(copies[s], Event(slot))

\* _sweep_pending(): oldest first, stopping at the first still running.
Swept(r) ==
  LET n == Max({k \in 0..Len(r.pending) : \A i \in 1..k : EventDone(r.pending[i])})
  IN  [r EXCEPT !.free = @ \o SubSeq(r.pending, 1, n), !.pending = SubSeq(@, n + 1, Len(@))]

\* An owned slot's memory goes with the caller's views; a device slot is
\* pending until the clones out of it have run.
ReleaseSlot(r, slot, device) ==
  [r EXCEPT !.slots[slot] = IF r.kind = "owned" THEN 0 ELSE @,
            !.free = IF device THEN @ ELSE Append(@, slot),
            !.pending = IF device THEN Append(@, slot) ELSE @]

Views == held \cup order.parked \cup Range(gen.ready)

\* Memory nothing in Python refers to may be given out again.
Referenced(b) == (\E i \in DOMAIN ring.slots : ring.slots[i] = b) \/ (\E v \in Views : v.buf = b)
FreshBuffer == CHOOSE b \in Buffers : ~Referenced(b)

\* The bound on memory: there is some for the slot take() gives out.
RoomFor(r) == r.slots[Head(r.free)] # 0 \/ \E b \in Buffers : ~Referenced(b)

\* take(): a slot that was given away gets fresh memory.
Taken(r) ==
  LET slot == Head(r.free)
      buf == IF r.slots[slot] = 0 THEN FreshBuffer ELSE r.slots[slot]
  IN  [r EXCEPT !.free = Tail(@), !.slots[slot] = buf]

-----------------------------------------------------------------------------
(* YieldOrder and UnorderedYield.                                           *)

FirstOrdinal(f) == Cardinality({i \in 1..N : Ranges[i].file < f})
Ordinal(g) == FirstOrdinal(g.file) + g.index + 1

\* The run of parked payloads that starts at the next ordinal.
Run(o) ==
  LET n == Max({k \in 0..N : \A i \in o.next..(o.next + k - 1) : \E p \in o.parked : p.tag.ord = i})
  IN  [i \in 1..n |-> CHOOSE p \in o.parked : p.tag.ord = o.next + i - 1]

\* arrived(): what may be handed over now, and what stays parked.
Ready(o, p) == IF o.on THEN Run([o EXCEPT !.parked = @ \cup {p}]) ELSE <<p>>
Arrived(o, p) ==
  IF o.on THEN [o EXCEPT !.parked = (@ \cup {p}) \ Range(Ready(o, p)), !.next = @ + Len(Ready(o, p))]
  ELSE o
Discarded(o) == [o EXCEPT !.parked = {}]

-----------------------------------------------------------------------------
(* stream_files() and _submit_while_buffers_free().                         *)

\* _wait_for_copies_out_of_the_ring(), before the ring is dropped.
CopiesWaited ==
  IF cloneEvent # 0 /\ live = {} THEN EventDone(cloneEvent)
  ELSE cloneStream # 0 => copies[cloneStream] = <<>>

\* The memory a new ring may be given: a buffer each, that no tensor is a view of.
NewSlots == {s \in [1..Depth -> {b \in Buffers : \A v \in Views : v.buf # b}] : IsInjective(s)}

\* A new ring: every slot is allocated at once, after the old ring is dropped.
\* A device ring waits for the stream whose cached blocks it may have been given.
\* It asks what is live and what is outstanding; a read that was answered
\* UnknownError is neither.
StreamFiles ==
  /\ At("none") /\ handle # 0 /\ number < MaxStreams
  /\ live = {} /\ outstanding = 0
  /\ CopiesWaited
  /\ mode.kind = "device" => copies[current] = <<>>
  /\ NewSlots # {}
  /\ ring' = [kind |-> mode.kind, home |-> current, at |-> 0, free |-> [i \in 1..Depth |-> i], pending |-> <<>>,
              slots |-> CHOOSE s \in NewSlots : TRUE]
  /\ order' = [NoOrder EXCEPT !.on = mode.ordered]
  /\ number' = number + 1 /\ unsettled' = (unsettled \/ stray # {}) /\ left' = <<>> /\ reported' = {} /\ yielded' = <<>> /\ how' = "fresh"
  /\ cloneEvent' = 0 /\ cloneStream' = 0
  /\ Goes("fill")
  /\ UNCHANGED <<mode, handle, sessions, live, outstanding, library, copies, held, current, astray>>

Filling == At("fill") \/ At("refill")
Returns == Goes(IF At("fill") THEN "none" ELSE "hand")

\* Fault: it gives up although nothing is in flight that could free a slot
FilledIdle == Swept(ring).free = <<>> \/ ring.at = N

\* Nothing is free and an answer will free a slot, or there is no data left.
Filled == \/ Swept(ring).free = <<>> /\ outstanding > 0
          \/ Swept(ring).free # <<>> /\ ring.at = N

EndFill ==
  /\ Filling /\ Filled
  /\ ring' = Swept(ring)
  /\ Returns
  /\ UNCHANGED <<mode, unsettled, handle, sessions, number, live, left, reported, outstanding, order, cloneEvent, cloneStream,
                 library, copies, consumer>>

\* The next request takes a slot and is submitted.  With nothing free and
\* nothing in flight, wait_for_free() blocks until the oldest event completes.
Submit ==
  /\ Filling /\ ring.at < N /\ Swept(ring).free # <<>> /\ RoomFor(Swept(ring))
  /\ LET r == Taken(Swept(ring))
         slot == Head(Swept(ring).free)
         q == NewRequest(Len(left) + 1, ring.at, slot, r.slots[slot])
     IN  /\ ring' = [r EXCEPT !.at = @ + q.num]
         /\ live' = live \cup {q}
         /\ left' = Append(left, q.num)
         /\ outstanding' = outstanding + q.num
         /\ owed' = owed \cup Submitted(q, ring.at)
  /\ UNCHANGED <<mode, unsettled, handle, sessions, number, reported, order, gen, cloneEvent, cloneStream, stray, mem, copies, consumer>>

\* runai_request refuses: the slot stays taken and the ranges are not asked
\* for again.  Inside get_chunks the generator ends; stream_files just raises.
SubmitRefused ==
  /\ MayFail("request")
  /\ Filling /\ ring.at < N /\ Swept(ring).free # <<>> /\ RoomFor(Swept(ring))
  /\ ring' = [Taken(Swept(ring)) EXCEPT !.at = @ + NextSpan(ring.at)]
  /\ Goes(IF At("fill") THEN "none" ELSE "drain") /\ how' = IF At("fill") THEN "refused" ELSE "raised"
  /\ UNCHANGED <<mode, unsettled, handle, sessions, number, live, left, reported, outstanding, order, cloneEvent, cloneStream,
                 library, copies, held, current, astray, yielded>>

-----------------------------------------------------------------------------
(* get_chunks().                                                            *)

\* A stream that stream_files did not refuse.  One whose context has ended has no
\* ring to ask: in the next context the generator raises at once.
Start ==
  /\ At("none") /\ handle # 0 /\ how = "fresh"
  /\ LET device == live # {} /\ ring.kind = "device"
         raises == live # {} /\ ring = NoRing
     IN  /\ gen' = [NoGenerator EXCEPT !.at = IF raises THEN "drain" ELSE "hand", !.device = device]
         /\ cloneStream' = IF device THEN current ELSE cloneStream
         /\ how' = IF raises THEN "raised" ELSE "none"
  /\ UNCHANGED <<mode, unsettled, handle, sessions, number, ring, live, left, reported, outstanding, order, cloneEvent,
                 library, copies, held, current, astray, yielded>>

RequestOf(id) == CHOOSE q \in live : q.id = id
IsLast(w) == \A o \in owed : o.id = w.id => o = w

\* The run has been handed over: wait for the next response, or the stream is
\* over and the finally runs.
Await ==
  /\ At("hand") /\ gen.ready = <<>>
  /\ Goes(IF live # {} THEN "wait" ELSE "drain")
  /\ how' = IF live # {} THEN how ELSE IF ring = NoRing THEN "outlived" ELSE "clean"
  /\ UNCHANGED <<mode, unsettled, handle, sessions, number, ring, live, left, reported, outstanding, order, cloneEvent, cloneStream,
                 library, copies, held, current, astray, yielded>>

Counts(w) ==
  /\ owed' = owed \ {w} /\ outstanding' = outstanding - 1
  /\ reported' = IF IsLast(w) THEN reported \cup {w.id} ELSE reported

\* A range has been filled: park it, or take back the run it completes.
Receive(w) ==
  /\ At("wait") /\ handle # 0
  /\ Counts(w)
  /\ mem' = [mem EXCEPT ![w.buf][w.cell] = w.tag]
  /\ LET q == RequestOf(w.id)
         p == [id |-> w.id, slot |-> q.slot, buf |-> q.buf, cell |-> CellOf(q, w), owned |-> ring.kind = "owned",
               home |-> ring.home,
               tag |-> [stream |-> number, ord |-> Ordinal(Resolve(q, w))]]
     IN  /\ gen' = [gen EXCEPT !.at = "hand", !.ready = Ready(order, p)]
         /\ order' = Arrived(order, p)
  /\ UNCHANGED <<mode, unsettled, handle, sessions, number, ring, live, left, cloneEvent, cloneStream, stray, copies, consumer>>

\* A range has failed, which fails the stream.  UnknownError may leave its
\* write outstanding.
ReceiveError(w) ==
  /\ At("wait") /\ handle # 0
  /\ Counts(w)
  /\ \/ MayFail("read") /\ UNCHANGED stray
     \/ MayFail("unknown") /\ stray' = stray \cup {w}
  /\ Goes("drain") /\ how' = "raised"
  /\ UNCHANGED <<mode, unsettled, handle, sessions, number, ring, live, left, order, cloneEvent, cloneStream, mem, copies,
                 held, current, astray, yielded>>

\* The context has gone: the null handle answers no submission of this stream.
ReceiveNothing ==
  /\ At("wait") /\ handle = 0
  /\ outstanding' = outstanding - (IF outstanding > 0 THEN 1 ELSE 0)
  /\ Goes("drain") /\ how' = "raised"
  /\ UNCHANGED <<mode, unsettled, handle, sessions, number, ring, live, left, reported, order, cloneEvent, cloneStream, library,
                 copies, held, current, astray, yielded>>

\* The next tensor of the run: a device ring is cloned on the caller's stream.
Yield ==
  /\ At("hand") /\ gen.ready # <<>>
  /\ LET p == Head(gen.ready)
     IN  /\ yielded' = Append(yielded, p.tag.ord)
         /\ held' = IF gen.device THEN held ELSE held \cup {p}
         /\ copies' = IF gen.device THEN [copies EXCEPT ![current] = Append(@, Clone(p))] ELSE copies
  /\ astray' = (astray \/ ring = NoRing)
  /\ Goes("paused")
  /\ UNCHANGED <<mode, unsettled, handle, sessions, number, ring, live, left, reported, outstanding, order, cloneEvent, cloneStream,
                 library, current, how>>

Handed == Head(gen.ready)

\* A tensor lent out of a reused ring is the consumer's only until it resumes.
HeldAfter(p) == IF p.owned THEN held ELSE held \ {p}

\* Fault: the slot goes back with the last response, parked views or not
SlotDrainedByAnswers(p) == \A w \in owed : w.id # p.id

\* The last range of the slot has been handed over.
SlotDrained(p) == left[p.id] = 1

\* Resumed past the yield, with more of the slot to hand over.
Resume ==
  /\ At("paused") /\ ~SlotDrained(Handed)
  /\ left' = [left EXCEPT ![Handed.id] = @ - 1]
  /\ held' = HeldAfter(Handed)
  /\ gen' = [gen EXCEPT !.at = "hand", !.ready = Tail(@)]
  /\ UNCHANGED <<mode, unsettled, handle, sessions, number, ring, live, reported, outstanding, order, cloneEvent, cloneStream, library,
                 copies, current, astray, yielded, how>>

Retires(p) ==
  /\ p.id \in reported /\ reported' = reported \ {p.id}
  /\ left' = [left EXCEPT ![p.id] = @ - 1]
  /\ live' = {q \in live : q.id # p.id}
  /\ held' = HeldAfter(p)

\* Resumed past the last range of its slot: the submission is retired, the slot
\* released, with an event behind its clones, and the ring refilled.
ResumeRetires ==
  /\ At("paused") /\ SlotDrained(Handed)
  /\ gen.device => current = cloneStream
  /\ Retires(Handed)
  /\ copies' = IF gen.device THEN [copies EXCEPT ![current] = Append(@, Event(Handed.slot))] ELSE copies
  /\ cloneEvent' = IF gen.device THEN Handed.slot ELSE cloneEvent
  /\ ring' = IF ring = NoRing THEN ring ELSE ReleaseSlot(ring, Handed.slot, gen.device)
  /\ gen' = [gen EXCEPT !.at = IF ring = NoRing THEN "hand" ELSE "refill", !.ready = Tail(@)]
  /\ UNCHANGED <<mode, unsettled, handle, sessions, number, outstanding, order, cloneStream, library, current, astray, yielded, how>>

\* The consumer has moved to another stream: refused, the submission retired.
ResumeMoved ==
  /\ At("paused") /\ SlotDrained(Handed)
  /\ gen.device /\ current # cloneStream
  /\ Retires(Handed)
  /\ gen' = [gen EXCEPT !.at = "drain", !.ready = Tail(@)] /\ how' = "raised"
  /\ UNCHANGED <<mode, unsettled, handle, sessions, number, ring, outstanding, order, cloneEvent, cloneStream, library, copies,
                 current, astray, yielded>>

\* The consumer abandons the generator.
Close ==
  /\ MayDo("close") /\ At("paused")
  /\ Goes("drain") /\ how' = "closed"
  /\ UNCHANGED <<mode, unsettled, handle, sessions, number, ring, live, left, reported, outstanding, order, cloneEvent, cloneStream,
                 library, copies, held, current, astray, yielded>>

-----------------------------------------------------------------------------
(* drain_live_submissions().                                                *)

\* Fault: an abandoned generator does not wait for what is in flight
DrainOwesNothing == FALSE

DrainOwes == handle # 0 /\ outstanding > 0

\* One more response is consumed, whatever it says.
DrainOne(w) ==
  /\ At("drain") /\ DrainOwes
  /\ owed' = owed \ {w} /\ outstanding' = outstanding - 1
  /\ \/ mem' = [mem EXCEPT ![w.buf][w.cell] = w.tag] /\ UNCHANGED stray
     \/ MayFail("late") /\ stray' = stray \cup {w} /\ UNCHANGED mem
  /\ UNCHANGED <<mode, unsettled, handle, sessions, number, ring, live, left, reported, order, gen, cloneEvent, cloneStream, copies, consumer>>

EndDrain ==
  /\ At("drain") /\ ~DrainOwes
  /\ outstanding' = 0
  /\ cloneEvent' = IF live # {} THEN 0 ELSE cloneEvent
  /\ live' = {} /\ left' = <<>> /\ reported' = {}
  /\ order' = Discarded(order)
  /\ gen' = NoGenerator
  /\ held' = {v \in held : v.owned}
  /\ UNCHANGED <<mode, unsettled, handle, sessions, number, ring, cloneStream, library, copies, current, astray, yielded, how>>

-----------------------------------------------------------------------------
(* The context.                                                             *)

\* __exit__: runai_end joins the workers, then the ring is dropped.
Exit ==
  /\ handle # 0
  /\ At("none") \/ (At("paused") /\ MayDo("exit"))
  /\ CopiesWaited
  /\ handle' = 0 /\ owed' = {} /\ stray' = {}
  /\ cloneEvent' = 0 /\ cloneStream' = 0
  /\ ring' = NoRing /\ order' = Discarded(order)
  /\ UNCHANGED <<mode, unsettled, sessions, number, live, left, reported, outstanding, gen, mem, copies, consumer>>

\* __enter__, whatever a generator of an earlier context has left: it may be
\* paused still, or never have been started.
Enter ==
  /\ handle = 0 /\ sessions < MaxSessions
  /\ At("none") \/ At("paused")
  /\ sessions' = sessions + 1 /\ handle' = sessions + 1
  /\ UNCHANGED <<mode, unsettled, number, ring, live, left, reported, outstanding, order, gen, cloneEvent, cloneStream, library,
                 copies, consumer>>

\* The consumer makes another stream current.
Move ==
  /\ mode.kind = "device"
  /\ \/ MayDo("elsewhere") /\ At("none") /\ how = "fresh" /\ UNCHANGED astray
     \/ MayDo("move") /\ At("paused") /\ astray' = TRUE
  /\ current = 1 /\ current' = 2
  /\ UNCHANGED <<python, library, copies, held, yielded, how>>

\* A device stream runs what is enqueued on it in order.
CopyRuns(s) ==
  /\ copies[s] # <<>>
  /\ copies' = [copies EXCEPT ![s] = Tail(@)]
  /\ UNCHANGED <<python, library, consumer>>

StrayLands(w) ==
  /\ mem' = [mem EXCEPT ![w.buf][w.cell] = w.tag]
  /\ stray' = stray \ {w}
  /\ UNCHANGED <<python, owed, copies, consumer>>

Over == handle = 0 /\ At("none")

\* A generator of an earlier context asks the handle of a later one, which has
\* nothing of it to answer, and runai_response blocks.
Hung == ring = NoRing /\ handle # 0 /\ (At("wait") \/ (At("drain") /\ outstanding > 0))

Generator == EndFill \/ Submit \/ SubmitRefused \/ Await \/ ReceiveNothing \/ Yield \/ EndDrain
             \/ \E w \in owed : Receive(w) \/ ReceiveError(w) \/ DrainOne(w)
Resumed == Resume \/ ResumeRetires \/ ResumeMoved
Consumer == \/ StreamFiles \/ Start \/ Resumed \/ Close \/ Exit \/ Enter \/ Move

Next ==
  \/ Generator \/ Consumer
  \/ \E s \in Streams : CopyRuns(s)
  \/ \E w \in stray : StrayLands(w)
  \/ (Over \/ Hung) /\ UNCHANGED vars

Spec == Init /\ [][Next]_vars

-----------------------------------------------------------------------------
ClonesOn(s) == {e.of : e \in {x \in Range(copies[s]) : x.op = "clone"}}

\* A slot that is dropped goes back to the allocator of the stream it was
\* allocated on, which orders it after that stream's own work and no other.
Kept(s, c) == Referenced(c.buf) \/ s = c.home

(* What the consumer holds, what is parked or about to be handed over, and  *)
(* what a clone has still to read has the bytes of its own range: the slot  *)
(* behind it has not been filled again or given to anyone else, although    *)
(* slots go back while responses, parked views and clones of other ranges   *)
(* are still about (the release in get_chunks; SlotPool.release).  Clones   *)
(* are covered for a consumer that stays on one stream and inside its       *)
(* context, as get_chunks asks.  Nothing is promised once a stream has been *)
(* started over a read that was answered UnknownError and may still write,  *)
(* which runai_request forbids and stream_files does not look for (see      *)
(* DestinationsSettled).                                                    *)
TensorsIntact ==
  ~unsettled =>
    /\ \A v \in Views : mem[v.buf][v.cell] = v.tag
    /\ ~astray => \A s \in Streams : \A c \in ClonesOn(s) : mem[c.buf][c.cell] = c.tag /\ Kept(s, c)

(* Each range is handed over once, as the file and index the caller asked   *)
(* for, in file order when that is on; and a stream that ends cleanly       *)
(* inside its context has handed over all of them (yield_order.py; the      *)
(* frozen bases of FilesRequest).                                           *)
YieldedOnce ==
  /\ IF order.on THEN \A i \in DOMAIN yielded : yielded[i] = i ELSE IsInjective(yielded)
  /\ how = "clean" => Range(yielded) = 1..N

\* The ranges answered UnknownError, unless a stream has been started over one.
Strays == IF unsettled THEN {} ELSE stray

(* A generator that blocks in runai_response inside the context it was made *)
(* in is owed a response, and no write of the library is aimed at memory    *)
(* Python has dropped or is reading: nothing hangs and nothing is written   *)
(* after free (drain_live_submissions and the guard of stream_files).  A    *)
(* generator that has outlived its context has no ring; WaitIsAnswered is   *)
(* about it.                                                                *)
WaitIsOwed ==
  /\ At("wait") /\ ring # NoRing => owed # {}
  /\ At("drain") /\ ring # NoRing /\ outstanding > 0 => owed # {}
  /\ \A w \in owed \cup Strays : Referenced(w.buf) /\ ~\E v \in Views : v.buf = w.buf /\ v.cell = w.cell


(* What drain_live_submissions says of itself: it waits for a response only *)
(* where one is to come, also when the generator it ends is of an earlier   *)
(* context.                                                                 *)
WaitIsAnswered == At("drain") /\ DrainOwes => owed # {}
=============================================================================
