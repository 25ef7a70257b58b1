----------------------------- MODULE DevicePath -----------------------------
(***************************************************************************)
(* The device copy path of the synchronous reader: the threads of the      *)
(* filesystem pool read blocks into their own staging buffers              *)
(* (batch.cc, read_to_device; staging_pool.cc), one lane thread per device *)
(* enqueues the copies for all of them (device_issuer.cc,                  *)
(* device_writer_client.cc, device_writer.cc, event_pool.cc) and one       *)
(* waiter thread per device reports each copy once its event fires         *)
(* (stream_waiter.cc).  Both threads are DrainingWorkers.                  *)
(*                                                                         *)
(* One device.  A batch is a number of blocks, each ends one task; the     *)
(* buffer slab of this reader holds one buffer.  A driver call may be      *)
(* refused on its own, and the context may break for good: from then on    *)
(* every driver call fails and nothing says whether the copies still on    *)
(* the stream end.  StagingPool::stop has no caller outside the tests.     *)
(***************************************************************************)
EXTENDS Naturals, Sequences, SequencesExt, FiniteSets, FiniteSetsExt

CONSTANTS Readers,     \* the threads of the filesystem pool
          Loads,       \* the work they may have: for each reader, the blocks of each batch
          MaxBuffers,  \* BuffersPerThread
          MaxEvents,   \* MaxCopiesInFlight
          Faults,      \* what may fail: "open", "alloc", "read", "event", "copy", "record", "break"
          Stops        \* whether the pool may be stopped

ASSUME DeviceAssumption ==
  /\ Loads \subseteq [Readers -> Seq(Nat \ {0})] /\ MaxBuffers \in Nat \ {0}
  /\ MaxEvents >= MaxBuffers * Cardinality(Readers) /\ Stops \in BOOLEAN

Success == "Success"
Driver == "DeviceDriverError"
Transfer == "DeviceTransferError"
NoBuffer == 0
Sentinel == [last |-> TRUE]
NoBytes == [block |-> 0]
Idle == [doing |-> "idle"]

VARIABLES
  pool,     \* per reader: StagingPool, and whether it has been freed
  reader,   \* per reader: the thread and the locals of read_to_device
  told,     \* per reader and batch: the code each block's task was answered with
  filled,   \* per reader: the block each staging buffer holds the bytes of
  dest,     \* per reader and batch: whose bytes are at each block's destination
  opened,   \* Channels::_targets holds the device
  lane, laneAt, laneBound,       \* the lane's queue, the request in its hands, its context
  stream,                        \* the copies enqueued and not finished, in order
  waiter, waiterAt, waiterBound, \* the waiter's queue, the copy it waits for, its context
  events,                        \* events in flight
  broken, stopped                \* the context; the pool's stop flag

vars == <<pool, reader, told, filled, dest, opened, lane, laneAt, laneBound, stream,
          waiter, waiterAt, waiterBound, events, broken, stopped>>

laneVars == <<lane, laneAt, laneBound>>
waiterVars == <<waiter, waiterAt, waiterBound>>
deviceVars == <<stream, events, broken, dest>>

NoPool == [made |-> 0, free |-> <<>>, retired |-> {}, code |-> Success, parked |-> FALSE, freed |-> FALSE]
NoBatch == [at |-> "next", batch |-> 0, block |-> 0, buffer |-> NoBuffer, submitted |-> 0,
            landed |-> 0, failure |-> Success, posts |-> 0, thrown |-> Success]

Init ==
  /\ pool = [r \in Readers |-> NoPool]
  /\ reader = [r \in Readers |-> NoBatch]
  /\ told \in {[r \in Readers |-> [b \in DOMAIN load[r] |-> [k \in 1..load[r][b] |-> "none"]]] :
                load \in Loads}
  /\ filled = [r \in Readers |-> [i \in 1..MaxBuffers |-> NoBytes]]
  /\ dest = [r \in Readers |-> [b \in DOMAIN told[r] |-> [k \in DOMAIN told[r][b] |-> NoBytes]]]
  /\ opened = FALSE
  /\ lane = <<>> /\ laneAt = Idle /\ laneBound = FALSE
  /\ stream = <<>> /\ events = 0 /\ broken = FALSE
  /\ waiter = <<>> /\ waiterAt = Idle /\ waiterBound = FALSE
  /\ stopped = FALSE

MayFail(f) == f \in Faults

-----------------------------------------------------------------------------
(* StagingPool.                                                             *)

\* The buffer goes to the end of _free and a parked acquire() is woken.
Release(p, i) == [p EXCEPT !.free = Append(@, i), !.parked = FALSE]

\* The buffer never comes back; every parked acquire() is woken.
Retire(p, i) ==
  [p EXCEPT !.retired = @ \cup {i}, !.parked = FALSE,
            !.code = IF @ = Success THEN Driver ELSE @]

HasFree(p) == p.free # <<>>
HasRoom(p) == p.made < MaxBuffers

\* Fault: acquire() waits although every buffer is retired
AllRetiredIgnored(p) == FALSE

AllRetired(p) == Cardinality(p.retired) >= p.made

-----------------------------------------------------------------------------
(* The completion handed to submit().  The load of failure and the count    *)
(* are two atomic operations; only a later block can fail between them, and *)
(* that order is the one in which the count comes first.                    *)

\* Fault: a copy that failed is counted like one that landed
OnDoneCountsAll(d, code) ==
  [d EXCEPT !.failure = IF @ = Success THEN code ELSE @,
            !.landed = @ + 1, !.posts = @ + 1]

OnDone(d, code) ==
  [d EXCEPT !.failure = IF @ = Success THEN code ELSE @,
            !.landed = IF code = Success /\ d.failure = Success THEN @ + 1 ELSE @,
            !.posts = @ + 1]

Reports(copy, code) == reader' = [reader EXCEPT ![copy.block.reader] = OnDone(@, code)]
GivesBack(copy) == pool' = [pool EXCEPT ![copy.block.reader] = Release(@, copy.buffer)]
Retires(copy) == pool' = [pool EXCEPT ![copy.block.reader] = Retire(@, copy.buffer)]

-----------------------------------------------------------------------------
(* The reading thread.                                                      *)

At(r, at) == reader[r].at = at
Blocks(r) == Len(told[r][reader[r].batch])  \* of the current batch
Goes(r, at) == reader' = [reader EXCEPT ![r].at = at]

\* finished_until: the tasks that end at or before block k are answered.
AnswersTo(r, k, code) ==
  told' = [told EXCEPT ![r][reader[r].batch] =
             [j \in DOMAIN @ |-> IF j <= k /\ @[j] = "none" THEN code ELSE @[j]]]

Throws(r, code) == reader' = [reader EXCEPT ![r].at = "drain", ![r].thrown = code, ![r].buffer = NoBuffer]

\* Channels::open(): the device is open, or its driver can still be reached.
CanOpen == opened \/ ~broken

\* execute() and staging_for(): the device is opened and bound before the first
\* batch of this thread, and its pool is built.
BeginBatch(r) ==
  /\ At(r, "next") /\ reader[r].batch < Len(told[r])
  /\ CanOpen /\ (~broken \/ pool[r].made > 0)
  /\ opened' = TRUE
  /\ reader' = [reader EXCEPT ![r] = [NoBatch EXCEPT !.at = "loop", !.batch = reader[r].batch + 1]]
  /\ UNCHANGED <<pool, told, filled, laneVars, waiterVars, deviceVars, stopped>>

\* The device cannot be opened, or its context cannot be bound: the workload is
\* failed and its thread takes the next one.
RefuseBatch(r) ==
  /\ At(r, "next") /\ reader[r].batch < Len(told[r]) /\ pool[r].made = 0
  /\ broken \/ (MayFail("open") /\ ~opened)
  /\ reader' = [reader EXCEPT ![r].batch = @ + 1]
  /\ told' = [told EXCEPT ![r][reader[r].batch + 1] =
                [k \in DOMAIN @ |-> IF opened THEN Driver ELSE "DeviceUnavailable"]]
  /\ UNCHANGED <<pool, filled, opened, laneVars, waiterVars, deviceVars, stopped>>

MoreToRead(r) == At(r, "loop") /\ reader[r].block < Blocks(r) /\ ~stopped

\* acquire(): a buffer that is free.
TakeBuffer(r) ==
  /\ MoreToRead(r) /\ ~pool[r].parked /\ HasFree(pool[r])
  /\ pool' = [pool EXCEPT ![r].free = Tail(@)]
  /\ reader' = [reader EXCEPT ![r].at = "read", ![r].buffer = Head(pool[r].free)]
  /\ UNCHANGED <<told, filled, opened, laneVars, waiterVars, deviceVars, stopped>>

\* acquire(): none is free and the ceiling allows another slab, which is pinned.
GrowPool(r) ==
  /\ MoreToRead(r) /\ ~pool[r].parked /\ ~HasFree(pool[r]) /\ HasRoom(pool[r])
  /\ ~broken
  /\ pool' = [pool EXCEPT ![r].made = @ + 1]
  /\ reader' = [reader EXCEPT ![r].at = "read", ![r].buffer = pool[r].made + 1]
  /\ UNCHANGED <<told, filled, opened, laneVars, waiterVars, deviceVars, stopped>>

\* host_alloc refuses.
RefuseSlab(r) ==
  /\ MoreToRead(r) /\ ~pool[r].parked /\ ~HasFree(pool[r]) /\ HasRoom(pool[r])
  /\ broken \/ MayFail("alloc")
  /\ Throws(r, IF broken THEN Driver ELSE "DeviceOutOfMemory")
  /\ UNCHANGED <<pool, told, filled, opened, laneVars, waiterVars, deviceVars, stopped>>

\* acquire(): every buffer has been retired, so none can come back.
PoolGone(r) ==
  /\ MoreToRead(r) /\ ~pool[r].parked /\ ~HasFree(pool[r]) /\ ~HasRoom(pool[r])
  /\ AllRetired(pool[r])
  /\ Throws(r, pool[r].code)
  /\ UNCHANGED <<pool, told, filled, opened, laneVars, waiterVars, deviceVars, stopped>>

\* acquire(): everything is in flight.
Park(r) ==
  /\ MoreToRead(r) /\ ~pool[r].parked /\ ~HasFree(pool[r]) /\ ~HasRoom(pool[r])
  /\ ~AllRetired(pool[r])
  /\ pool' = [pool EXCEPT ![r].parked = TRUE]
  /\ UNCHANGED <<reader, told, filled, opened, laneVars, waiterVars, deviceVars, stopped>>

Current(r) == [reader |-> r, batch |-> reader[r].batch, block |-> reader[r].block + 1]

\* _reader->read into the buffer.
ReadBlock(r) ==
  /\ At(r, "read")
  /\ filled' = [filled EXCEPT ![r][reader[r].buffer] = Current(r)]
  /\ Goes(r, "submit")
  /\ UNCHANGED <<pool, told, opened, laneVars, waiterVars, deviceVars, stopped>>

\* It throws: the guard gives the buffer back.
ReadThrows(r) ==
  /\ At(r, "read") /\ MayFail("read")
  /\ pool' = [pool EXCEPT ![r] = Release(@, reader[r].buffer)]
  /\ Throws(r, "FileAccessError")
  /\ UNCHANGED <<told, filled, opened, laneVars, waiterVars, deviceVars, stopped>>

\* submit(): the channel is open by now, so the lane exists; the guard is
\* cancelled.
Submit(r) ==
  /\ At(r, "submit")
  /\ lane' = Append(lane, [block |-> Current(r), buffer |-> reader[r].buffer])
  /\ reader' = [reader EXCEPT ![r].at = "answer", ![r].buffer = NoBuffer,
                              ![r].submitted = @ + 1, ![r].block = @ + 1]
  /\ UNCHANGED <<pool, told, filled, opened, laneAt, laneBound, waiterVars, deviceVars, stopped>>

\* What has reached the device is answered, without waiting.
AnswerLanded(r) ==
  /\ At(r, "answer")
  /\ AnswersTo(r, reader[r].landed, Success)
  /\ Goes(r, "loop")
  /\ UNCHANGED <<pool, filled, opened, laneVars, waiterVars, deviceVars, stopped>>

LeaveLoop(r) ==
  /\ At(r, "loop") /\ ~pool[r].parked
  /\ reader[r].block = Blocks(r) \/ stopped
  /\ Goes(r, "drain")
  /\ UNCHANGED <<pool, told, filled, opened, laneVars, waiterVars, deviceVars, stopped>>

Verdict(d) ==
  IF d.thrown # Success THEN d.thrown
  ELSE IF d.failure # Success THEN d.failure
  ELSE IF stopped THEN "FinishedError" ELSE Success

\* The drain guard.
Drained(d) == d.posts >= d.submitted

\* Every completion has fired: the rest of the batch is answered with one code.
EndBatch(r) ==
  /\ At(r, "drain") /\ Drained(reader[r])
  /\ AnswersTo(r, Blocks(r), Verdict(reader[r]))
  /\ Goes(r, "next")
  /\ UNCHANGED <<pool, filled, opened, laneVars, waiterVars, deviceVars, stopped>>

\* The thread of a pool that is being destroyed, or that has no more work,
\* ends; its worker's buffers are freed but for those of leaked slabs.
ExitReader(r) ==
  /\ At(r, "next")
  /\ reader[r].batch = Len(told[r]) \/ stopped
  /\ Goes(r, "gone")
  /\ pool' = [pool EXCEPT ![r].freed = TRUE]
  /\ UNCHANGED <<told, filled, opened, laneVars, waiterVars, deviceVars, stopped>>

-----------------------------------------------------------------------------
(* The lane: client.write() and DeviceWriter::write().                      *)

\* The request cannot be enqueued: its buffer goes back before the report.
Refused(copy, code) ==
  /\ GivesBack(copy)
  /\ laneAt' = [doing |-> "report", copy |-> copy, code |-> code]

\* client.bind(): the first request binds the context, the later ones find it bound.
CanBind == laneBound \/ ~broken

\* EventPool: an event is free or may be created; and one is given back.
EventFree == events < MaxEvents
EventBack == events' = events - 1

LaneTakes ==
  /\ laneAt = Idle /\ lane # <<>> /\ Head(lane) # Sentinel
  /\ laneAt' = [doing |-> "bind", copy |-> Head(lane)]
  /\ lane' = Tail(lane)
  /\ UNCHANGED <<pool, reader, told, filled, opened, laneBound, waiterVars, deviceVars, stopped>>

LaneBinds ==
  /\ laneAt.doing = "bind"
  /\ \/ /\ CanBind /\ EventFree
        /\ laneBound' = TRUE /\ events' = events + 1
        /\ laneAt' = [laneAt EXCEPT !.doing = "copy"]
        /\ UNCHANGED pool
     \/ /\ ~CanBind
        /\ Refused(laneAt.copy, Driver)
        /\ UNCHANGED <<laneBound, events>>
     \/ /\ CanBind /\ MayFail("event")
        /\ laneBound' = TRUE
        /\ Refused(laneAt.copy, Transfer)
        /\ UNCHANGED events
  /\ UNCHANGED <<reader, told, filled, dest, opened, lane, waiterVars, stream, broken, stopped>>

\* memcpy_h2d_async
LaneCopies ==
  /\ laneAt.doing = "copy"
  /\ \/ /\ ~broken
        /\ stream' = Append(stream, laneAt.copy)
        /\ laneAt' = [laneAt EXCEPT !.doing = "record"]
        /\ UNCHANGED <<pool, events>>
     \/ /\ broken \/ MayFail("copy")
        /\ Refused(laneAt.copy, Transfer)
        /\ EventBack
        /\ UNCHANGED stream
  /\ UNCHANGED <<reader, told, filled, dest, opened, lane, laneBound, waiterVars, broken, stopped>>

\* event_record; from a success on, the buffer and the event are the waiter's.
LaneRecords ==
  /\ laneAt.doing = "record"
  /\ \/ /\ ~broken
        /\ waiter' = Append(waiter, laneAt.copy)
        /\ laneAt' = Idle
     \/ /\ broken \/ MayFail("record")
        /\ laneAt' = [laneAt EXCEPT !.doing = "sync"]
        /\ UNCHANGED waiter
  /\ UNCHANGED <<pool, reader, told, filled, opened, lane, laneBound, waiterAt, waiterBound, deviceVars, stopped>>

\* Fault: the buffer goes back while its unmarked copy is still on the stream
LaneSyncsNot ==
  /\ laneAt.doing = "sync" /\ Refused(laneAt.copy, Transfer) /\ EventBack
  /\ UNCHANGED <<reader, told, filled, dest, opened, lane, laneBound, waiterVars, stream, broken, stopped>>

\* The copy is on the stream and nothing marks its end: stream_synchronize.
LaneSyncs ==
  /\ laneAt.doing = "sync"
  /\ \/ /\ ~broken /\ stream = <<>>
        /\ Refused(laneAt.copy, Transfer)
     \/ /\ broken
        /\ Retires(laneAt.copy)
        /\ laneAt' = [doing |-> "report", copy |-> laneAt.copy, code |-> Driver]
  /\ EventBack
  /\ UNCHANGED <<reader, told, filled, dest, opened, lane, laneBound, waiterVars, stream, broken, stopped>>

\* issue(): nobody is left to read the code that write() returned.
LaneReports ==
  /\ laneAt.doing = "report"
  /\ Reports(laneAt.copy, laneAt.code)
  /\ laneAt' = Idle
  /\ UNCHANGED <<pool, told, filled, opened, lane, laneBound, waiterVars, deviceVars, stopped>>

-----------------------------------------------------------------------------
(* The waiter.                                                              *)

WaiterTakes ==
  /\ waiterAt = Idle /\ waiter # <<>> /\ Head(waiter) # Sentinel
  /\ waiterAt' = [doing |-> "wait", copy |-> Head(waiter)]
  /\ waiter' = Tail(waiter)
  /\ UNCHANGED <<pool, reader, told, filled, opened, laneVars, waiterBound, deviceVars, stopped>>

OnStream(copy) == \E i \in DOMAIN stream : stream[i] = copy

\* event_synchronize succeeds: the event and the buffer are back before the
\* report.
WaiterReturns ==
  /\ waiterAt.doing = "wait"
  /\ ~broken /\ waiterBound' = TRUE
  /\ ~OnStream(waiterAt.copy)
  /\ EventBack
  /\ GivesBack(waiterAt.copy)
  /\ waiterAt' = [doing |-> "report", copy |-> waiterAt.copy, code |-> Success]
  /\ UNCHANGED <<reader, told, filled, dest, opened, laneVars, waiter, stream, broken, stopped>>

\* The bind or the wait fails: nothing says the copy stopped.
WaiterRetires ==
  /\ waiterAt.doing = "wait"
  /\ broken
  /\ EventBack
  /\ Retires(waiterAt.copy)
  /\ waiterAt' = [doing |-> "report", copy |-> waiterAt.copy, code |-> Driver]
  /\ UNCHANGED <<reader, told, filled, dest, opened, laneVars, waiter, waiterBound, stream, broken, stopped>>

WaiterReports ==
  /\ waiterAt.doing = "report"
  /\ Reports(waiterAt.copy, waiterAt.code)
  /\ waiterAt' = Idle
  /\ UNCHANGED <<pool, told, filled, opened, laneVars, waiter, waiterBound, deviceVars, stopped>>

-----------------------------------------------------------------------------
(* The device and the teardown.                                             *)

\* The stream runs its copies in order.
CopyLands ==
  /\ stream # <<>>
  /\ LET c == Head(stream)
         b == c.block
     IN  dest' = [dest EXCEPT ![b.reader][b.batch][b.block] = filled[b.reader][c.buffer]]
  /\ stream' = Tail(stream)
  /\ UNCHANGED <<pool, reader, told, filled, opened, laneVars, waiterVars, events, broken, stopped>>

ContextBreaks ==
  /\ MayFail("break") /\ opened /\ ~broken
  /\ broken' = TRUE
  /\ UNCHANGED <<pool, reader, told, filled, dest, opened, laneVars, waiterVars, stream, events, stopped>>

Stop ==
  /\ Stops /\ ~stopped
  /\ stopped' = TRUE
  /\ UNCHANGED <<pool, reader, told, filled, opened, laneVars, waiterVars, deviceVars>>

AllGone == \A r \in Readers : At(r, "gone")

\* ~DeviceIssuer: the lane finishes what is queued before its sentinel.
StopLane ==
  /\ AllGone /\ Sentinel \notin Range(lane)
  /\ lane' = Append(lane, Sentinel)
  /\ UNCHANGED <<pool, reader, told, filled, opened, laneAt, laneBound, waiterVars, deviceVars, stopped>>

LaneJoins ==
  /\ laneAt = Idle /\ lane # <<>> /\ Head(lane) = Sentinel
  /\ laneAt' = [doing |-> "joined"]
  /\ UNCHANGED <<pool, reader, told, filled, opened, lane, laneBound, waiterVars, deviceVars, stopped>>

\* ~Channels: then the waiter does.
StopWaiter ==
  /\ laneAt.doing = "joined" /\ Sentinel \notin Range(waiter)
  /\ waiter' = Append(waiter, Sentinel)
  /\ UNCHANGED <<pool, reader, told, filled, opened, laneVars, waiterAt, waiterBound, deviceVars, stopped>>

WaiterJoins ==
  /\ waiterAt = Idle /\ waiter # <<>> /\ Head(waiter) = Sentinel
  /\ waiterAt' = [doing |-> "joined"]
  /\ UNCHANGED <<pool, reader, told, filled, opened, laneVars, waiter, waiterBound, deviceVars, stopped>>

Ended == waiterAt.doing = "joined"

-----------------------------------------------------------------------------
ReadStep(r) ==
  \/ BeginBatch(r) \/ RefuseBatch(r) \/ TakeBuffer(r) \/ GrowPool(r) \/ RefuseSlab(r)
  \/ PoolGone(r) \/ Park(r) \/ ReadBlock(r) \/ ReadThrows(r) \/ Submit(r)
  \/ AnswerLanded(r) \/ LeaveLoop(r) \/ EndBatch(r) \/ ExitReader(r)

LaneStep == LaneTakes \/ LaneBinds \/ LaneCopies \/ LaneRecords \/ LaneSyncs \/ LaneReports \/ LaneJoins
WaiterStep == WaiterTakes \/ WaiterReturns \/ WaiterRetires \/ WaiterReports \/ WaiterJoins
Teardown == StopLane \/ StopWaiter

Next ==
  \/ \E r \in Readers : ReadStep(r)
  \/ LaneStep \/ WaiterStep \/ Teardown
  \/ CopyLands \/ ContextBreaks \/ Stop
  \/ Ended /\ UNCHANGED vars

Spec == Init /\ [][Next]_vars

\* Each thread runs when it can; the device finishes its copies while its
\* context is whole.
FairSpec ==
  /\ Spec
  /\ \A r \in Readers : WF_vars(ReadStep(r))
  /\ WF_vars(LaneStep) /\ WF_vars(WaiterStep) /\ WF_vars(Teardown)
  /\ WF_vars(~broken /\ CopyLands)

-----------------------------------------------------------------------------
(* The copies with the lane and with the waiter: queued or in its hands.    *)
Queued(q) == {c \in Range(q) : c # Sentinel}
InHands(at) == IF at.doing \in {"idle", "joined"} THEN {} ELSE {at.copy}
InLane == Queued(lane) \cup InHands(laneAt)
InWaiter == Queued(waiter) \cup InHands(waiterAt)

(* A task of a device batch that has been answered with success has its own *)
(* bytes at its destination: batch.cc answers from `landed`, which must be a *)
(* prefix of the batch although the lane and the waiter both report, and the *)
(* buffer a copy reads from must not have been read into again meanwhile.   *)
AnsweredOnDevice ==
  \A r \in Readers : \A b \in DOMAIN told[r] : \A k \in DOMAIN told[r][b] :
    told[r][b][k] = Success => dest[r][b][k] = [reader |-> r, batch |-> b, block |-> k]

(* The staging memory a live copy reads is nobody else's: its buffer still  *)
(* holds its block, and is neither free nor freed (staging_pool.h: freeing  *)
(* it is undefined); and when a batch has been answered none of its copies  *)
(* is with the lane or the waiter, whose completions hold its locals.       *)
MemoryOwned ==
  /\ \A c \in Range(stream) :
       LET p == pool[c.block.reader] IN
       /\ filled[c.block.reader][c.buffer] = c.block
       /\ ~Contains(p.free, c.buffer)
       /\ p.freed => c.buffer \in p.retired
  /\ \A c \in InLane \cup InWaiter :
       /\ c.block.batch = reader[c.block.reader].batch
       /\ reader[c.block.reader].at \notin {"next", "gone"}

(* Every batch is answered and every thread ends, whatever fails: no reader *)
(* waits for a buffer or a completion that cannot come (device_issuer.h:     *)
(* on_done "is ALWAYS called").                                              *)
EndsAnswered ==
  <>(Ended /\ (stopped \/ \A r \in Readers : \A b \in DOMAIN told[r] : \A k \in DOMAIN told[r][b] : told[r][b][k] # "none"))
=============================================================================
