---------------------------- MODULE AsyncIoWorker ----------------------------
(***************************************************************************)
(* One AsyncIoWorker (src/cpp/streamer/impl/async_io/async_io_worker): the *)
(* thread that reads the files of one mount through an IoEngine.  It       *)
(* stages the chunks of its workloads, bounces the ragged ends of direct   *)
(* reads through scratch, falls back to buffered reads when the kernel     *)
(* refuses its alignment, re-stages short and interrupted reads, hands     *)
(* device chunks to the copy path, and on an engine failure or a stop      *)
(* waits for what the kernel holds before it answers.  CapacityWorker,     *)
(* CapacityQueue, InflightChunks, ScratchPool and the completion mapper    *)
(* are part of it.                                                         *)
(*                                                                         *)
(* A chunk <<w, i>> is chunk i of workload w, and <<w, 0>> a zero-sized     *)
(* range of its file 1.  A chunk is Units units long; a bounced pass wants *)
(* one of them.  Where chunks begin and end is Cutting's subject.          *)
(***************************************************************************)
EXTENDS IoEngine

CONSTANTS Work,         \* the workloads: [chunks |-> <<[dev, file, ragged]>>, zero |-> BOOLEAN]
          Units,        \* the length of a chunk
          CopyDepth,    \* _copy_depth: staging buffers beyond the window
          IsDirectIO,   \* is_direct(_strategy)
          MaxTransient, \* MaxTransientRetries
          MaxStalls,    \* MaxStalledFlushes
          MaxRefusals,  \* bound: direct reads refused for their alignment
          MaxFaults,    \* bound: other failures
          Teardown      \* whether the pool is stopped

ASSUME WorkAssumption ==
  Work \in Seq([chunks : Seq([dev : BOOLEAN, file : Nat, ragged : BOOLEAN]), zero : BOOLEAN])
ASSUME BoundsAssumption ==
  /\ Units \in Nat \ {0} /\ CopyDepth \in Nat /\ MaxTransient \in Nat /\ MaxStalls \in Nat
  /\ MaxRefusals \in Nat /\ MaxFaults \in Nat
  /\ IsDirectIO \in BOOLEAN /\ Teardown \in BOOLEAN

None == "none"
Chunks == UNION {{<<w, i>> : i \in DOMAIN Work[w].chunks} : w \in DOMAIN Work}
Zeros == {<<w, 0>> : w \in {v \in DOMAIN Work : Work[v].zero}}
Ranges == Chunks \cup Zeros
File(c) == IF c[2] = 0 THEN 1 ELSE Work[c[1]].chunks[c[2]].file
Files == {File(c) : c \in Ranges}
IsDevice(c) == Work[c[1]].chunks[c[2]].dev
Ragged(c) == Work[c[1]].chunks[c[2]].ragged
Of(w) == {c \in Ranges : c[1] = w}

VARIABLES
  \* CapacityQueue
  up, pending, credit,
  \* _inflight: workloads in it, chunks they wait for, errors and descriptors
  \* of their files ("unopened", "direct", "buffered", "error", "closed")
  live, remaining, ferr, fds,
  \* InflightChunks: the ids in it, what is owed, retries, and the chunks that
  \* hold a scratch or a staging buffer; ScratchPool and StagingPool
  tracked, left, tries, bounce, holds, scratch, buffers,
  \* parked for a staging buffer; copies: counted, running, reported
  waiting, copiesIssued, copying, copyDone,
  \* _issued, _stalled_flushes, _direct_refused, _engine_dead, _engine_error
  issued, stalls, directRefused, dead, engineError,
  answer,     \* what each range has been answered
  \* the thread: where it is, whom drain_batch (ret) and stage_pending (back)
  \* return to, the chunk being staged, the completions in hand, parked chunks
  \* still to resume, and abort_all's code
  pc, ret, back, cur, harvest, quota, code,
  taken, stopped, faults, refusals,
  landed,     \* chunks whose bytes are in the caller's memory
  late        \* files demoted while direct reads of theirs were at the kernel

queue == <<up, pending, credit>>
table == <<live, remaining, ferr, answer>>
record == <<tracked, left, tries, bounce, scratch>>
staging == <<holds, buffers, copiesIssued, copying>>
flags == <<stalls, directRefused, dead, engineError>>
control == <<pc, ret, back, cur, harvest, quota, code>>
world == <<taken, stopped, faults, refusals>>
vars == <<engine, queue, table, fds, record, staging, copyDone, waiting, issued, flags, control,
          world, landed, late>>

Init ==
  /\ EngineInit
  /\ up = FALSE /\ pending = <<>> /\ credit = 0
  /\ live = {} /\ remaining = [w \in DOMAIN Work |-> 0]
  /\ ferr = [w \in DOMAIN Work |-> [f \in Files |-> None]]
  /\ fds = [w \in DOMAIN Work |-> [f \in Files |-> "unopened"]]
  /\ tracked = {} /\ left = [c \in Chunks |-> Units] /\ tries = [c \in Chunks |-> 0]
  /\ bounce = {} /\ scratch = Depth /\ holds = {} /\ buffers = Depth + CopyDepth
  /\ waiting = <<>> /\ copiesIssued = 0 /\ copying = {} /\ copyDone = <<>>
  /\ issued = 0 /\ stalls = 0 /\ directRefused = FALSE /\ dead = FALSE /\ engineError = None
  /\ answer = [c \in Ranges |-> None]
  /\ pc = "idle" /\ ret = "loop" /\ back = "pump" /\ cur = <<0, 0>> /\ harvest = <<>>
  /\ quota = 0 /\ code = None
  /\ taken = 0 /\ stopped = FALSE /\ faults = 0 /\ refusals = 0
  /\ landed = {} /\ late = {}

Fault == faults < MaxFaults /\ faults' = faults + 1 /\ UNCHANGED <<taken, stopped, refusals>>

-----------------------------------------------------------------------------
(* CapacityQueue and CapacityWorker.                                        *)
Full == credit # 0 /\ credit + 1 > Depth
Complete == credit' = IF credit > 0 THEN credit - 1 ELSE 0
(* Fault: copies the device still runs do not keep the thread from parking. *)
IdleWithCopies == ~up \/ (pending = <<>> /\ credit = 0 /\ waiting = <<>>)

Idle == ~up \/ (pending = <<>> /\ credit = 0 /\ copiesIssued = 0 /\ waiting = <<>>)
Caller == [loop |-> "loop", tail |-> "idle", drain |-> "pump"][ret]

(* report_workload: the ranges not answered yet get the given code, or what *)
(* their file met, or Success.                                              *)
Report(w, errs, ans, how) ==
  [c \in Ranges |->
     IF c \notin Of(w) \/ ans[c] # None THEN ans[c]
     ELSE IF how # "Success" THEN how
     ELSE IF errs[File(c)] # None THEN errs[File(c)] ELSE "Success"]

(* finalize closes the files of a workload.                                 *)
Closed == [f \in Files |-> "closed"]

(* account_chunk, for a chunk that ends with code r; its slot comes back    *)
(* unless a copy gave it back before.  opened is what became of the         *)
(* descriptors so far.                                                      *)
EndChunk(c, r, freeSlot, opened) ==
  LET w == c[1]
      errs == IF r = "Success" \/ ferr[w][File(c)] # None THEN ferr[w]
              ELSE [ferr[w] EXCEPT ![File(c)] = r]
      ans == IF r = "Success" THEN [answer EXCEPT ![c] = r] ELSE answer
      last == remaining[w] = 1
  IN  /\ tracked' = tracked \ {c}
      /\ IF freeSlot THEN Complete ELSE UNCHANGED credit
      /\ ferr' = [ferr EXCEPT ![w] = errs]
      /\ remaining' = [remaining EXCEPT ![w] = @ - 1]
      /\ answer' = IF last THEN Report(w, errs, ans, "Success") ELSE ans
      /\ live' = IF last THEN live \ {w} ELSE live
      /\ fds' = IF last THEN [opened EXCEPT ![w] = Closed] ELSE opened

(* Fault: the buffer of a failed read is forgotten.                         *)
GiveBufferForgets(c) == holds' = holds \ {c} /\ buffers' = buffers

(* account_chunk returns the staging buffer no copy took.                   *)
GiveBuffer(c) ==
  /\ holds' = holds \ {c}
  /\ buffers' = IF c \in holds THEN buffers + 1 ELSE buffers

(* A read that failed is the end of its chunk.                              *)
FailChunk(c, r) == EndChunk(c, r, TRUE, fds) /\ GiveBuffer(c) /\ UNCHANGED <<copying, copiesIssued>>

(* complete_chunk(Success): a host chunk is done; a device chunk goes to    *)
(* the copy path, and its slot and its buffer with it, or fails if write()  *)
(* does not take it.                                                        *)
LandChunk(c) ==
  \/ /\ ~IsDevice(c)
     /\ EndChunk(c, "Success", TRUE, fds)
     /\ UNCHANGED <<staging, world>>
  \/ /\ IsDevice(c)
     /\ copying' = copying \cup {c} /\ copiesIssued' = copiesIssued + 1
     /\ holds' = holds \ {c}
     /\ Complete
     /\ UNCHANGED <<buffers, tracked, ferr, remaining, answer, live, fds, world>>
  \/ /\ IsDevice(c) /\ Fault
     /\ FailChunk(c, "DeviceTransferError")

-----------------------------------------------------------------------------
(* CapacityWorker::execute on the next workload.                            *)

(* capacity() cannot build the engine or its scratch: the engine is dead,   *)
(* and discard answers.                                                     *)
Discard ==
  /\ pc = "idle" /\ ~stopped /\ taken < Len(Work) /\ ~up
  /\ faults < MaxFaults /\ faults' = faults + 1
  /\ taken' = taken + 1
  /\ dead' = TRUE
  /\ engineError' = IF dead THEN engineError ELSE "FsAsyncEngineError"
  /\ answer' = Report(taken', ferr[taken'], answer, "FsAsyncEngineError")
  /\ UNCHANGED <<engine, queue, live, remaining, ferr, fds, record, staging, copyDone, waiting,
                 issued, stalls, directRefused, control, stopped, refusals, landed, late>>

(* enqueue on a dead engine: reported, never read.                          *)
EnqueueDead ==
  /\ pc = "idle" /\ ~stopped /\ taken < Len(Work) /\ dead
  /\ taken' = taken + 1
  /\ up' = TRUE
  /\ answer' = Report(taken', ferr[taken'], answer, engineError)
  /\ pc' = "loop"
  /\ UNCHANGED <<engine, pending, credit, live, remaining, ferr, fds, record, staging, copyDone,
                 waiting, issued, flags, ret, back, cur, harvest, quota, code, stopped, faults,
                 refusals, landed, late>>

(* enqueue: zero-sized ranges are answered once their file could be opened  *)
(* (probe_open), the chunks are queued, and a workload without chunks is    *)
(* finalized at once.                                                       *)
Enqueue ==
  /\ pc = "idle" /\ ~stopped /\ taken < Len(Work) /\ ~dead
  /\ LET w == taken + 1
         ids == [i \in DOMAIN Work[w].chunks |-> <<w, i>>]
         empty == ids = <<>>
     IN  /\ taken' = w
         /\ up' = TRUE
         /\ \E opened \in IF Work[w].zero /\ faults < MaxFaults THEN BOOLEAN ELSE {TRUE} :
              LET ans == IF opened /\ Work[w].zero THEN [answer EXCEPT ![<<w, 0>>] = "Success"]
                         ELSE answer
                  errs == IF opened THEN ferr[w] ELSE [ferr[w] EXCEPT ![1] = "FileAccessError"]
              IN  /\ faults' = IF opened THEN faults ELSE faults + 1
                  /\ ferr' = [ferr EXCEPT ![w] = errs]
                  /\ answer' = IF empty THEN Report(w, errs, ans, "Success") ELSE ans
         /\ pending' = pending \o ids
         /\ tracked' = tracked \cup {<<w, i>> : i \in DOMAIN ids}
         /\ remaining' = [remaining EXCEPT ![w] = Len(ids)]
         /\ live' = IF empty THEN live ELSE live \cup {w}
         /\ fds' = IF empty THEN [fds EXCEPT ![w] = Closed] ELSE fds
  /\ pc' = "loop"
  /\ UNCHANGED <<engine, credit, left, tries, bounce, scratch, staging, copyDone, waiting, issued,
                 flags, ret, back, cur, harvest, quota, code, stopped, refusals, landed, late>>

(* execute's loop: pump while chunks are pending, and one more drain_batch  *)
(* if the window is left full.                                              *)
Loop ==
  /\ pc = "loop"
  /\ \/ /\ pending # <<>>
        /\ ret' = "loop" /\ pc' = "pump"
     \/ /\ pending = <<>> /\ credit >= Depth
        /\ ret' = "tail" /\ pc' = "turn"
     \/ /\ pending = <<>> /\ credit < Depth
        /\ pc' = "idle" /\ UNCHANGED ret
  /\ UNCHANGED <<engine, queue, table, fds, record, staging, copyDone, waiting, issued, flags,
                 back, cur, harvest, quota, code, world, landed, late>>

Drain ==
  /\ pc = "idle" /\ ~Idle
  /\ ret' = "drain" /\ pc' = "turn"
  /\ UNCHANGED <<engine, queue, table, fds, record, staging, copyDone, waiting, issued, flags,
                 back, cur, harvest, quota, code, world, landed, late>>

Pump ==
  /\ pc = "pump"
  /\ \/ /\ pending # <<>> /\ ~Full
        /\ cur' = Head(pending) /\ pending' = Tail(pending) /\ credit' = credit + 1
        /\ back' = "pump" /\ pc' = "stage"
     \/ /\ pending = <<>> \/ Full
        /\ pc' = IF ret = "drain" THEN "idle"
                 ELSE IF pending = <<>> THEN "loop" ELSE "turn"
        /\ UNCHANGED <<cur, pending, credit, back>>
  /\ UNCHANGED <<engine, up, table, fds, record, staging, copyDone, waiting, issued, flags,
                 ret, harvest, quota, code, world, landed, late>>

-----------------------------------------------------------------------------
(* stage_pending(cur).                                                      *)
Fd == fds[cur[1]][File(cur)]
NeedsBuffer == IsDevice(cur) /\ cur \notin holds

(* Every staging buffer is out: the chunk is parked with its slot.          *)
StageParks ==
  /\ pc = "stage" /\ NeedsBuffer /\ buffers = 0
  /\ waiting' = Append(waiting, cur)
  /\ pc' = back
  /\ UNCHANGED <<engine, queue, table, fds, record, staging, copyDone, issued, flags,
                 ret, back, cur, harvest, quota, code, world, landed, late>>

(* The device gives no buffer, or the file cannot be opened: that error     *)
(* stays with the file, and its other chunks fail without another try.      *)
StageFails ==
  /\ pc = "stage"
  /\ \/ /\ NeedsBuffer /\ buffers > 0 /\ Fault
        /\ FailChunk(cur, "DeviceDriverError")
     \/ /\ NeedsBuffer => buffers > 0
        /\ \/ Fd = "error" /\ UNCHANGED world
           \/ Fd = "unopened" /\ Fault
        /\ EndChunk(cur, "FileAccessError", TRUE, [fds EXCEPT ![cur[1]][File(cur)] = "error"])
        /\ GiveBuffer(cur) /\ UNCHANGED <<copying, copiesIssued>>
  /\ pc' = back
  /\ UNCHANGED <<engine, up, pending, left, tries, bounce, scratch, copyDone, waiting, issued,
                 flags, ret, back, cur, harvest, quota, code, landed, late>>

(* The strategy is direct and the mount has refused no aligned read yet;    *)
(* the congruence of offset and destination is a choice of OpenAs.          *)
WantsDirect == IsDirectIO /\ ~directRefused

(* fd_for: a file that wants O_DIRECT is still opened buffered if it is not *)
(* congruent or the open is refused.                                        *)
OpenAs ==
  IF Fd # "unopened" THEN {Fd}
  ELSE IF WantsDirect THEN {"direct", "buffered"} ELSE {"buffered"}

(* plan_direct_pass: a ragged direct read into the caller's memory bounces. *)
Bounces(mode) == mode = "direct" /\ ~IsDevice(cur) /\ Ragged(cur)

(* The read is prepared in the engine.                                      *)
StageRead ==
  /\ pc = "stage" /\ (NeedsBuffer => buffers > 0) /\ Fd # "error"
  /\ Room
  /\ \E mode \in OpenAs :
       /\ Bounces(mode) => scratch > 0
       /\ fds' = [fds EXCEPT ![cur[1]][File(cur)] = mode]
       /\ Stage(cur, mode = "direct")
       /\ bounce' = IF Bounces(mode) THEN bounce \cup {cur} ELSE bounce
       /\ scratch' = IF Bounces(mode) THEN scratch - 1 ELSE scratch
  /\ holds' = IF IsDevice(cur) THEN holds \cup {cur} ELSE holds
  /\ buffers' = IF NeedsBuffer THEN buffers - 1 ELSE buffers
  /\ pc' = back
  /\ UNCHANGED <<kernel, ring, refused, broken, queue, table, tracked, left, tries, copiesIssued,
                 copying, copyDone, waiting, issued, flags, ret, back, cur, harvest, quota, code,
                 world, landed, late>>

-----------------------------------------------------------------------------
(* drain_batch.                                                             *)
Turn ==
  /\ pc = "turn"
  /\ \/ stopped /\ code' = "FinishedError" /\ pc' = "abort"
     \/ ~stopped /\ pc' = "copies" /\ UNCHANGED code
  /\ UNCHANGED <<engine, queue, table, fds, record, staging, copyDone, waiting, issued, flags,
                 ret, back, cur, harvest, quota, world, landed, late>>

(* drain_copies, here and in quiesce: one report, one chunk over.           *)
DrainCopy ==
  /\ pc \in {"copies", "quiesceCopies"} /\ copyDone # <<>>
  /\ EndChunk(Head(copyDone).id, Head(copyDone).ret, FALSE, fds)
  /\ copyDone' = Tail(copyDone)
  /\ copiesIssued' = copiesIssued - 1
  /\ UNCHANGED <<engine, up, pending, left, tries, bounce, scratch, holds, buffers, copying,
                 waiting, issued, flags, control, world, landed, late>>

(* It blocks for a copy only while no read is out.                          *)
EndCopies ==
  /\ pc = "copies" /\ (copiesIssued = 0 \/ (copyDone = <<>> /\ issued > 0))
  /\ quota' = Len(waiting) /\ pc' = "resume"
  /\ UNCHANGED <<engine, queue, table, fds, record, staging, copyDone, waiting, issued, flags,
                 ret, back, cur, harvest, code, world, landed, late>>

(* resume_waiting: one pass over what is parked now.                        *)
Resume ==
  /\ pc = "resume"
  /\ \/ /\ quota > 0
        /\ cur' = Head(waiting) /\ waiting' = Tail(waiting) /\ quota' = quota - 1
        /\ back' = "resume" /\ pc' = "stage"
     \/ /\ quota = 0
        /\ pc' = "flush" /\ UNCHANGED <<cur, waiting, quota, back>>
  /\ UNCHANGED <<engine, queue, table, fds, record, staging, copyDone, issued, flags,
                 ret, harvest, code, world, landed, late>>

(* Fault: what the number referred to when the read was staged.             *)
DescriptorAsStaged(s) == s.direct

(* The descriptor number in a staged entry, as the kernel will find it:     *)
(* dup2 has pointed it at the buffered open of a demoted file.              *)
Descriptor(s) == fds[s.id[1]][File(s.id)] = "direct"

(* Fault: progress does not reset the count of stalled flushes.             *)
CountStallsForever(n, deferred) ==
  stalls' = IF deferred /\ n = 0 /\ issued = 0 THEN stalls + 1 ELSE stalls

(* A deferral nothing can clear is counted; any progress resets the count.  *)
CountStalls(n, deferred) ==
  stalls' = IF deferred /\ n = 0 /\ issued = 0 THEN stalls + 1 ELSE 0

(* Past the ceiling the engine is given up, with the count reset.           *)
Flushed(n, deferred) ==
  LET stuck == deferred /\ n = 0 /\ issued = 0 /\ stalls >= MaxStalls
  IN  /\ \/ stuck /\ stalls' = 0 /\ code' = "FsAsyncEngineError" /\ pc' = "abort"
         \/ ~stuck /\ CountStalls(n, deferred) /\ pc' = "wait" /\ UNCHANGED code
      /\ issued' = issued + n

Flush ==
  /\ pc = "flush"
  /\ LET resolved == [i \in DOMAIN staged |-> Descriptor(staged[i])]
     IN  \/ \E n \in 0..Len(staged) :
              /\ FlushIssues(n, resolved)
              /\ Flushed(n, n < Len(staged))
              /\ UNCHANGED world
         \/ \E n \in 0..Len(staged), err \in {"einval", "error"} :
              /\ FlushRefuses(n, err, resolved)
              /\ Flushed(RefusedCounted(n), FALSE)
              /\ \/ err = "error" /\ Fault
                 \/ /\ err = "einval" /\ refusals < MaxRefusals /\ refusals' = refusals + 1
                    /\ UNCHANGED <<taken, stopped, faults>>
         \/ /\ FlushFails /\ Fault
            /\ code' = "FsAsyncEngineError" /\ pc' = "abort"
            /\ UNCHANGED <<stalls, issued>>
  /\ UNCHANGED <<queue, table, fds, record, staging, copyDone, waiting, directRefused, dead,
                 engineError, ret, back, cur, harvest, quota, landed, late>>

(* wait_for_completions.                                                    *)
Wait ==
  /\ pc = "wait"
  /\ \/ /\ Reap
        /\ harvest' = Reaped /\ pc' = "harvest" /\ UNCHANGED code
     \/ /\ ReapFails
        /\ code' = "FsAsyncEngineError" /\ pc' = "abort" /\ UNCHANGED harvest
  /\ UNCHANGED <<queue, table, fds, record, staging, copyDone, waiting, issued, flags,
                 ret, back, cur, quota, world, landed, late>>

(* One completion of the harvest, whatever becomes of it.                   *)
Done == Head(harvest)
Consume == harvest' = Tail(harvest) /\ issued' = issued - 1

(* clear_bounce, on success and on failure alike.                           *)
ScratchBack(c) ==
  /\ bounce' = bounce \ {c}
  /\ scratch' = IF c \in bounce THEN scratch + 1 ELSE scratch

(* The chunk goes through stage_pending again, holding its slot and its id. *)
Restage(c) == cur' = c /\ back' = "harvest" /\ pc' = "stage"

(* A read that transferred: complete, end of file, or a short read whose    *)
(* rest is staged.                                                          *)
HarvestRead ==
  /\ pc = "harvest" /\ harvest # <<>> /\ Done.err = "none"
  /\ Consume
  /\ LET c == Done.id IN
       /\ ScratchBack(c)
       /\ left' = [left EXCEPT ![c] = @ - Done.got]
       /\ \/ /\ Done.got = left[c]
             /\ LandChunk(c)
             /\ landed' = IF IsDevice(c) THEN landed ELSE landed \cup {c}
             /\ UNCHANGED <<pc, cur, back>>
          \/ /\ Done.got = 0
             /\ FailChunk(c, "EofError")
             /\ UNCHANGED <<pc, cur, back, landed, world>>
          \/ /\ Done.got \in 1..(left[c] - 1)
             /\ Restage(c)
             /\ UNCHANGED <<tracked, credit, table, fds, staging, landed, world>>
  /\ UNCHANGED <<engine, up, pending, tries, copyDone, waiting, flags, ret, quota, code, late>>

(* An interrupted read is issued again while it has attempts left.          *)
HarvestTransient ==
  /\ pc = "harvest" /\ harvest # <<>> /\ Done.err = "eintr" /\ tries[Done.id] < MaxTransient
  /\ Consume /\ ScratchBack(Done.id) /\ Restage(Done.id)
  /\ tries' = [tries EXCEPT ![Done.id] = @ + 1]
  /\ UNCHANGED <<engine, queue, table, fds, tracked, left, staging, copyDone, waiting, flags,
                 ret, quota, code, world, landed, late>>

(* Direct reads of a file that are beyond recall.                           *)
AtKernel(b) ==
  \/ \E rd \in kernel : rd.direct /\ <<rd.id[1], File(rd.id)>> = b
  \/ \E s \in {ring, Tail(harvest), refused} : \E i \in DOMAIN s :
        s[i].err = "einval" /\ <<s[i].id[1], File(s[i].id)>> = b

(* demote_to_buffered: the file is reopened under the same number, and the  *)
(* chunk staged again; or it cannot be, and the chunk fails with its file.  *)
HarvestRefused ==
  /\ pc = "harvest" /\ harvest # <<>> /\ Done.err = "einval"
  /\ fds[Done.id[1]][File(Done.id)] = "direct"
  /\ Consume /\ ScratchBack(Done.id)
  /\ LET c == Done.id
         b == <<c[1], File(c)>>
     IN  \/ /\ fds' = [fds EXCEPT ![c[1]][File(c)] = "buffered"]
            /\ directRefused' = TRUE
            /\ late' = IF AtKernel(b) THEN late \cup {b} ELSE late
            /\ Restage(c)
            /\ UNCHANGED <<tracked, credit, table, staging, world>>
         \/ /\ Fault
            /\ FailChunk(c, "FileAccessError")
            /\ UNCHANGED <<pc, cur, back, directRefused, late>>
  /\ UNCHANGED <<engine, up, pending, left, tries, copyDone, waiting, stalls, dead, engineError,
                 ret, quota, code, landed>>

(* Every other errno is the file's failure (map_completion): out of         *)
(* attempts, refused on a file already demoted, or an error of the storage. *)
HarvestFailed ==
  /\ pc = "harvest" /\ harvest # <<>>
  /\ \/ Done.err = "error"
     \/ Done.err = "eintr" /\ tries[Done.id] >= MaxTransient
     \/ Done.err = "einval" /\ fds[Done.id[1]][File(Done.id)] # "direct"
  /\ Consume /\ ScratchBack(Done.id)
  /\ FailChunk(Done.id, "FileAccessError")
  /\ UNCHANGED <<engine, up, pending, left, tries, copyDone, waiting, flags, pc, ret, back, cur,
                 quota, code, world, landed, late>>

EndHarvest ==
  /\ pc = "harvest" /\ harvest = <<>>
  /\ pc' = Caller
  /\ UNCHANGED <<engine, queue, table, fds, record, staging, copyDone, waiting, issued, flags,
                 ret, back, cur, harvest, quota, code, world, landed, late>>

-----------------------------------------------------------------------------
(* abort_all(code).                                                         *)

(* Any code but FinishedError ends the engine for good; the queue is        *)
(* emptied first, so that nothing is staged while the worker waits.         *)
Abort ==
  /\ pc = "abort"
  /\ dead' = (dead \/ code # "FinishedError")
  /\ engineError' = IF code # "FinishedError" /\ ~dead THEN code ELSE engineError
  /\ pending' = <<>> /\ credit' = 0
  /\ pc' = "quiesceCopies"
  /\ UNCHANGED <<engine, up, table, fds, record, staging, copyDone, waiting, issued, stalls,
                 directRefused, ret, back, cur, harvest, quota, code, world, landed, late>>

(* Fault: the copies are not waited for.                                    *)
QuiesceSkipsCopies ==
  /\ pc = "quiesceCopies"
  /\ pc' = "quiesceReads"
  /\ UNCHANGED <<engine, queue, table, fds, record, staging, copyDone, waiting, issued, flags,
                 ret, back, cur, harvest, quota, code, world, landed, late>>

(* quiesce: first every copy, ...                                           *)
CopiesQuiet ==
  /\ pc = "quiesceCopies" /\ copiesIssued = 0
  /\ pc' = "quiesceReads"
  /\ UNCHANGED <<engine, queue, table, fds, record, staging, copyDone, waiting, issued, flags,
                 ret, back, cur, harvest, quota, code, world, landed, late>>

(* Fault: the reads reaped here are not counted off.                        *)
NothingQuieted == 0

Quieted == Len(Reaped)

(* ... then every read the kernel holds, reaped and not routed.             *)
QuiesceReads ==
  /\ pc = "quiesceReads" /\ issued > 0 /\ Reap
  /\ issued' = issued - Quieted
  /\ UNCHANGED <<queue, table, fds, record, staging, copyDone, waiting, flags, control, world,
                 landed, late>>

(* The wait is over when nothing is out, or the engine cannot tell.         *)
ReadsQuiet == issued = 0 \/ broken

(* Then every workload is answered, and every buffer, record and parked     *)
(* chunk given up.                                                          *)
FinishAbort ==
  /\ pc = "quiesceReads" /\ ReadsQuiet
  /\ answer' = [c \in Ranges |-> IF c[1] \in live /\ answer[c] = None THEN code ELSE answer[c]]
  /\ fds' = [w \in DOMAIN Work |-> IF w \in live THEN Closed ELSE fds[w]]
  /\ live' = {}
  /\ scratch' = scratch + Cardinality(bounce) /\ bounce' = {}
  /\ buffers' = buffers + Cardinality(holds) /\ holds' = {}
  /\ tracked' = {} /\ waiting' = <<>> /\ issued' = 0 /\ harvest' = <<>>
  /\ pc' = Caller
  /\ UNCHANGED <<engine, queue, remaining, ferr, left, tries, copiesIssued, copying, copyDone,
                 flags, ret, back, cur, quota, code, world, landed, late>>

(* worker_routine ends, and the destructor has seen every copy report.      *)
Exit ==
  /\ pc = "idle" /\ stopped /\ Idle
  /\ pc' = "exit"
  /\ UNCHANGED <<engine, queue, table, fds, record, staging, copyDone, waiting, issued, flags,
                 ret, back, cur, harvest, quota, code, world, landed, late>>

worker ==
  \/ Discard \/ EnqueueDead \/ Enqueue \/ Loop \/ Drain \/ Pump
  \/ StageParks \/ StageFails \/ StageRead
  \/ Turn \/ DrainCopy \/ EndCopies \/ Resume \/ Flush \/ Wait
  \/ HarvestRead \/ HarvestTransient \/ HarvestRefused \/ HarvestFailed \/ EndHarvest
  \/ Abort \/ CopiesQuiet \/ QuiesceReads \/ FinishAbort \/ Exit

-----------------------------------------------------------------------------
(* The environment.                                                         *)

(* What a pass asked for.                                                   *)
Wanted(c) == IF c \in bounce THEN 1 ELSE left[c]

(* The kernel ends a read: all or part of what was asked, nothing at the    *)
(* end of a file, a signal, an alignment it does not serve, or an error.    *)
ReadEnds(rd) ==
  /\ \/ \E n \in 1..Wanted(rd.id) : Post(rd, Result(rd.id, n)) /\ UNCHANGED world
     \/ Post(rd, Result(rd.id, 0)) /\ Fault
     \/ Post(rd, Failure(rd.id, "error")) /\ Fault
     \/ /\ Post(rd, Failure(rd.id, "eintr"))
        /\ \/ tries[rd.id] < MaxTransient /\ UNCHANGED world
           \/ tries[rd.id] >= MaxTransient /\ Fault
     \/ /\ rd.direct /\ refusals < MaxRefusals /\ refusals' = refusals + 1
        /\ Post(rd, Failure(rd.id, "einval"))
        /\ UNCHANGED <<taken, stopped, faults>>
  /\ UNCHANGED <<queue, table, fds, record, staging, copyDone, waiting, issued, flags, control,
                 landed, late>>

(* A copy ends: its buffer is back in the pool, then it is reported.        *)
CopyEnds(c) ==
  /\ c \in copying
  /\ copying' = copying \ {c} /\ buffers' = buffers + 1
  /\ \/ /\ copyDone' = Append(copyDone, [id |-> c, ret |-> "Success"])
        /\ landed' = landed \cup {c} /\ UNCHANGED world
     \/ /\ copyDone' = Append(copyDone, [id |-> c, ret |-> "DeviceDriverError"])
        /\ Fault /\ UNCHANGED landed
  /\ UNCHANGED <<engine, queue, table, fds, record, holds, copiesIssued, waiting, issued, flags,
                 control, late>>

EngineBreaks ==
  /\ Break /\ Fault
  /\ UNCHANGED <<queue, table, fds, record, staging, copyDone, waiting, issued, flags, control,
                 landed, late>>

Stop ==
  /\ Teardown /\ ~stopped
  /\ stopped' = TRUE
  /\ UNCHANGED <<engine, queue, table, fds, record, staging, copyDone, waiting, issued, flags,
                 control, taken, faults, refusals, landed, late>>

(* The thread is parked in the pool's queue, or has left.                   *)
Rest == (pc = "exit" \/ (pc = "idle" /\ Idle)) /\ UNCHANGED vars

Next ==
  \/ worker
  \/ \E rd \in kernel : ReadEnds(rd)
  \/ \E c \in copying : CopyEnds(c)
  \/ EngineBreaks \/ Stop \/ Rest

Spec == Init /\ [][Next]_vars

(* The thread runs, and the kernel and the device end what they were given. *)
(* A kernel that is offered reads may go on deferring them.                 *)
Fairness ==
  /\ WF_vars(worker)
  /\ \A c \in Chunks : WF_vars(\E rd \in kernel : rd.id = c /\ ReadEnds(rd))
  /\ \A c \in Chunks : WF_vars(CopyEnds(c))

FairSpec == Spec /\ Fairness

-----------------------------------------------------------------------------
(* Deferrals are counted towards the ceiling that ends the engine only      *)
(* while nothing at all is in flight.                                       *)
StallIsReal == stalls > 0 => issued = 0 /\ Owed = 0

(* The chunks that hold a slot: past the queue, and no copy has theirs.     *)
Slots ==
  {c \in tracked : /\ c \notin copying
                   /\ \A i \in DOMAIN pending : pending[i] # c
                   /\ \A i \in DOMAIN copyDone : copyDone[i].id # c}

(* Every slot, scratch buffer and staging buffer is accounted for: credit   *)
(* is the chunks past the queue whose slot no copy gave back, and nothing   *)
(* is lost or returned twice on any path of short reads, retries, fallbacks *)
(* and failures; the count quiesce waits on is what the engine still owes;  *)
(* stage_pending finds an entry, a record and a scratch buffer free; and a  *)
(* slow mount that lets reads through now and then is never declared dead.  *)
LedgersExact ==
  /\ pc \notin {"quiesceCopies", "quiesceReads"} => credit = Cardinality(Slots)
  /\ scratch + Cardinality(bounce) = Depth
  /\ buffers + Cardinality(holds) + Cardinality(copying) = Depth + CopyDepth
  /\ ~broken => issued = Owed + Len(harvest)
  /\ pc = "stage" => Room /\ cur \in tracked /\ cur[1] \in live /\ scratch > 0
  /\ \A i \in DOMAIN harvest : harvest[i].id \in tracked
  /\ StallIsReal

(* A file is not failed because its direct reads were refused, except for   *)
(* reads that were already at the kernel when it was demoted: a read only   *)
(* staged by then runs buffered and lands.                                  *)
RefusalForgiven ==
  \A c \in Chunks : answer[c] = "FileAccessError" => faults > 0 \/ <<c[1], File(c)>> \in late

(* "A response promises that nothing will write to that range again"        *)
(* (async_io_worker.cc:1493), unless the engine itself can no longer tell;  *)
(* an answer of Success has its bytes in the caller's memory, and a refused *)
(* direct read is retried and not reported; and every workload the worker   *)
(* has let go of is answered whole.                                         *)
AnswersHonest ==
  /\ \A c \in Chunks : answer[c] # None =>
       /\ c \notin copying
       /\ ~broken => \A rd \in kernel : rd.id # c
  /\ \A c \in Chunks : answer[c] = "Success" => c \in landed
  /\ RefusalForgiven
  /\ \A c \in Ranges : c[1] <= taken /\ c[1] \notin live => answer[c] # None

(* Both at once: every slot, buffer and attempt accounted for, and every    *)
(* answer true.                                                             *)
Sound == LedgersExact /\ AnswersHonest

(* Every range the worker took is answered, however the kernel defers,      *)
(* shortens, interrupts or refuses its reads.                               *)
AllAnswered == \A c \in Ranges : c[1] <= taken ~> answer[c] # None

(* A stopped worker answers everything and leaves.                          *)
StopEnds == stopped ~> pc = "exit"
=============================================================================
