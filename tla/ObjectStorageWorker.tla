------------------------- MODULE ObjectStorageWorker -------------------------
(***************************************************************************)
(* One ObjectStorageWorker                                                 *)
(* (src/cpp/streamer/impl/object_storage_worker): a thread of the object-  *)
(* storage pool that keeps a window of chunk reads in flight at a plugin   *)
(* client, stages the chunks bound for a device in pinned buffers, hands   *)
(* each landed one to the copy path, retries what the plugin calls         *)
(* retryable, and answers a workload's ranges when its chunks are done.    *)
(* CapacityWorker's execute / drain / idle and CapacityQueue are part of   *)
(* it; the plugin client, the staging pool and the device copy path are    *)
(* the environment it meets through their calls and completions.           *)
(*                                                                         *)
(* A chunk <<w, i>> is chunk i of workload w.  Handle blocks come from a    *)
(* counter that only grows, so locate() finds a chunk exactly when its     *)
(* workload is still in _inflight.  Time is abstract: a deadline that runs *)
(* may expire at any moment, a delayed retry may be due at any moment.     *)
(***************************************************************************)
EXTENDS Naturals, Sequences, FiniteSets

CONSTANTS Work,       \* the workloads, in dispatch order: each a sequence of
                      \* chunks [dev |-> BOOLEAN, file |-> file index]
          Window,     \* _window_chunks
          CopyDepth,  \* staging buffers beyond the window
          Buffers,    \* the buffers the pool may pin
          MaxRetries, \* bound: retryable failures per chunk
          MaxFaults,  \* bound: other failures
          Teardown    \* whether the client is stopped and the pool joined

None == "none"

ASSUME WorkAssumption == Work \in Seq(Seq([dev : BOOLEAN, file : Nat]))
ASSUME WindowAssumption == Window \in Nat \ {0} /\ CopyDepth \in Nat
ASSUME BuffersAssumption ==
  IsFiniteSet(Buffers) /\ Cardinality(Buffers) = Window + CopyDepth /\ None \notin Buffers
ASSUME LimitAssumption == MaxRetries \in Nat /\ MaxFaults \in Nat /\ Teardown \in BOOLEAN

Chunks == UNION {{<<w, i>> : i \in DOMAIN Work[w]} : w \in DOMAIN Work}
Of(w) == {c \in Chunks : c[1] = w}
IsDevice(c) == Work[c[1]][c[2]].dev
File(c) == Work[c[1]][c[2]].file
Files == {File(c) : c \in Chunks}

VARIABLES
  \* CapacityQueue
  up,            \* the window exists: capacity() has succeeded
  pending,       \* _pending
  inflight,      \* _inflight: credit taken
  \* _inflight, the table of workloads
  live,          \* the workloads in it
  remaining,     \* Inflight::remaining_chunks
  ferr,          \* Inflight::error_by_file_index
  failed,        \* the chunks whose TaskState::error is set
  staging,       \* ChunkState::staging
  answer,        \* what the ranges of each chunk have been answered
  \* ObjectStorageRetry
  attempts,      \* State::_retry_count
  deadline,      \* State::_deadline: "unset", "running" or "expired"
  delayed,       \* _delayed
  waiting, waitingRetries,  \* chunks parked for a staging buffer
  \* copies
  copiesIssued,  \* _copies_issued
  copyDone,      \* _copies: completions for the worker to drain
  copying,       \* copies writing to the device
  reporting,     \* copies whose buffer is back, not yet reported
  \* StagingPool
  free, retired,
  \* the plugin client: reads it is writing, completions it has queued,
  \* the two steps of its stop(), and whether it can report no more
  reads, events, cflag, cstopped, cbroken,
  \* where the thread is: pc; whom drain_batch (ret) and submit (back) return
  \* to; the chunk being submitted; chunks left to resume; abort_all's two
  \* arguments, and what quiesce_reads answered it
  pc, ret, back, cur, quota, code, continues, drained,
  \* the pool: workloads taken, ThreadPool::stopped; faults so far; and the
  \* chunks whose bytes have reached the caller's memory
  taken, stopped, faults, landed

window == <<up, pending, inflight>>
table == <<live, remaining, ferr, failed, staging, answer>>
retry == <<attempts, deadline, delayed>>
parked == <<waiting, waitingRetries>>
copies == <<copiesIssued, copyDone, copying, reporting>>
pool == <<free, retired>>
client == <<reads, events, cflag, cstopped, cbroken>>
control == <<pc, ret, back, cur, quota, code, continues, drained>>
world == <<taken, stopped, faults, landed>>
vars == <<window, table, retry, parked, copies, pool, client, control, world>>

Init ==
  /\ up = FALSE /\ pending = <<>> /\ inflight = 0
  /\ live = {}
  /\ remaining = [w \in DOMAIN Work |-> 0]
  /\ ferr = [w \in DOMAIN Work |-> [f \in Files |-> None]]
  /\ failed = {}
  /\ staging = [c \in Chunks |-> None]
  /\ answer = [c \in Chunks |-> None]
  /\ attempts = [c \in Chunks |-> 0]
  /\ deadline = [c \in Chunks |-> "unset"]
  /\ delayed = {} /\ waiting = <<>> /\ waitingRetries = <<>>
  /\ copiesIssued = 0 /\ copyDone = <<>> /\ copying = {} /\ reporting = {}
  /\ free = Buffers /\ retired = {}
  /\ reads = {} /\ events = <<>> /\ cflag = FALSE /\ cstopped = FALSE /\ cbroken = FALSE
  /\ pc = "idle" /\ ret = "loop" /\ back = "pump" /\ cur = <<0, 0>>
  /\ quota = [retries |-> 0, fresh |-> 0] /\ code = "Success"
  /\ continues = TRUE /\ drained = TRUE
  /\ taken = 0 /\ stopped = FALSE /\ faults = 0 /\ landed = {}

(* One of the bounded failures of the environment.                          *)
Fault == faults < MaxFaults /\ faults' = faults + 1

-----------------------------------------------------------------------------
(* CapacityQueue.                                                           *)
Full == inflight # 0 /\ inflight + 1 > Window
Complete(n) == inflight' = IF inflight >= n THEN inflight - n ELSE 0

(* Fault: a drained responder is always taken for a stopped one.            *)
HoldingNothing == FALSE

(* ObjectStorageWorker::holding_work.                                       *)
HoldingWork == waiting # <<>> \/ waitingRetries # <<>> \/ copiesIssued > 0

(* Fault: the thread rests while copies are out or chunks are parked.       *)
DeferredRetriesOnly == delayed # {}

(* ObjectStorageWorker::has_deferred_work, CapacityWorker::idle.            *)
DeferredWork == delayed # {} \/ HoldingWork
Idle == ~up \/ (pending = <<>> /\ inflight = 0 /\ ~DeferredWork)

(* Task::finished_request answers a range once.                             *)
Answered(ans, S, r) == [c \in Chunks |-> IF c \in S /\ ans[c] = None THEN r ELSE ans[c]]

(* finalize with Success: the unanswered chunks of a file with an error.    *)
Failed(w, errs, ans) ==
  [c \in Chunks |-> IF c \in Of(w) /\ ans[c] = None /\ errs[File(c)] # None
                    THEN errs[File(c)] ELSE ans[c]]

(* complete_chunk's free_slot: a copy gave the slot back before.            *)
SlotBack(freeSlot) == IF freeSlot THEN Complete(1) ELSE inflight' = inflight

(* StagingPool::release of the buffer a chunk still has.                    *)
Release(c) ==
  /\ free' = free \cup ({staging[c]} \ {None})
  /\ staging' = [staging EXCEPT ![c] = None]

(* complete_chunk, the chunk being over: the buffer it still has goes back, *)
(* its slot too unless a copy gave it back before; the last chunk of a      *)
(* workload finalizes it.                                                   *)
EndChunk(c, r, freeSlot) ==
  LET w == c[1]
      errs == IF r = "Success" \/ ferr[w][File(c)] # None THEN ferr[w]
              ELSE [ferr[w] EXCEPT ![File(c)] = r]
      ans == IF r = "Success" THEN Answered(answer, {c}, r) ELSE answer
  IN  /\ Release(c)
      /\ SlotBack(freeSlot)
      /\ ferr' = [ferr EXCEPT ![w] = errs]
      /\ failed' = IF r = "Success" THEN failed \ {c} ELSE failed \cup {c}
      /\ remaining' = [remaining EXCEPT ![w] = @ - 1]
      /\ answer' = IF remaining[w] = 1 THEN Failed(w, errs, ans) ELSE ans
      /\ live' = IF remaining[w] = 1 THEN live \ {w} ELSE live

(* Fault: a copy nobody counts.                                             *)
IssueCopyUncounted(c) ==
  /\ Complete(1)
  /\ staging' = [staging EXCEPT ![c] = None]
  /\ copying' = copying \cup {[chunk |-> c, buf |-> staging[c]]}
  /\ copiesIssued' = copiesIssued

(* issue_copy: the slot goes back now, the buffer belongs to the issuer.    *)
IssueCopy(c) ==
  /\ Complete(1)
  /\ staging' = [staging EXCEPT ![c] = None]
  /\ copying' = copying \cup {[chunk |-> c, buf |-> staging[c]]}
  /\ copiesIssued' = copiesIssued + 1

(* complete_chunk for a read that has ended.                                *)
CompleteRead(c, r) ==
  \/ /\ r = "Success" /\ staging[c] # None
     /\ IssueCopy(c)
     /\ UNCHANGED <<live, remaining, ferr, failed, answer, free>>
  \/ /\ ~(r = "Success" /\ staging[c] # None)
     /\ EndChunk(c, r, TRUE)
     /\ UNCHANGED <<copying, copiesIssued>>

(* Where drain_batch returns to in CapacityWorker: execute's loop, the end  *)
(* of execute, or the pump of drain.                                        *)
Caller == [loop |-> "loop", tail |-> "idle", drain |-> "prepump"][ret]

-----------------------------------------------------------------------------
(* CapacityWorker::execute, on the next workload the pool hands over.       *)

(* The window cannot be brought up: discard answers the workload.           *)
Discard ==
  /\ pc = "idle" /\ ~stopped /\ taken < Len(Work)
  /\ ~up /\ Fault
  /\ taken' = taken + 1
  /\ answer' = Answered(answer, Of(taken'), "UnknownError")
  /\ UNCHANGED <<live, remaining, ferr, failed, staging, stopped, landed,
                 window, retry, parked, copies, pool, client, control>>

(* The chunks that must end before the workload is finalized.               *)
ChunkCount(w) == Len(Work[w])

(* enqueue: the workload is registered and its chunks are queued.  One      *)
(* without chunks has been answered inline.                                 *)
Enqueue ==
  /\ pc = "idle" /\ ~stopped /\ taken < Len(Work)
  /\ taken' = taken + 1
  /\ up' = TRUE
  /\ pending' = pending \o [i \in DOMAIN Work[taken'] |-> <<taken', i>>]
  /\ remaining' = [remaining EXCEPT ![taken'] = ChunkCount(taken')]
  /\ live' = IF Work[taken'] = <<>> THEN live ELSE live \cup {taken'}
  /\ pc' = "loop"
  /\ UNCHANGED <<inflight, ferr, failed, staging, answer, ret, back, cur, quota, code, continues,
                 drained, stopped, faults, landed, retry, parked, copies, pool, client>>

(* An allocation fails after the workload was moved into the table.         *)
EnqueueThrows ==
  /\ pc = "idle" /\ ~stopped /\ taken < Len(Work) /\ Work[taken + 1] # <<>>
  /\ Fault
  /\ taken' = taken + 1
  /\ up' = TRUE
  /\ \E n \in 0..Len(Work[taken']) :
        pending' = pending \o [i \in 1..n |-> <<taken', i>>]
  /\ live' = live \cup {taken'}
  /\ code' = "UnknownError" /\ continues' = TRUE /\ ret' = "loop" /\ pc' = "abort"
  /\ UNCHANGED <<inflight, remaining, ferr, failed, staging, answer, back, cur, quota,
                 drained, stopped, landed, retry, parked, copies, pool, client>>

(* The loop of execute: pump while chunks are pending, and one more         *)
(* drain_batch if the window is left full.                                  *)
Loop ==
  /\ pc = "loop"
  /\ \/ /\ pending # <<>>
        /\ ret' = "loop" /\ pc' = "prepump"
     \/ /\ pending = <<>> /\ inflight >= Window
        /\ ret' = "tail" /\ pc' = "turn"
     \/ /\ pending = <<>> /\ inflight < Window
        /\ pc' = "idle" /\ UNCHANGED ret
  /\ UNCHANGED <<back, cur, quota, code, continues, drained,
                 window, table, retry, parked, copies, pool, client, world>>

(* CapacityWorker::drain, called while the worker is not idle.              *)
Drain ==
  /\ pc = "idle" /\ ~Idle
  /\ ret' = "drain" /\ pc' = "turn"
  /\ UNCHANGED <<back, cur, quota, code, continues, drained,
                 window, table, retry, parked, copies, pool, client, world>>

(* promote_due_retries: a retry whose delay has elapsed goes to the front.  *)
Promote(c) ==
  /\ pc = "prepump" /\ c \in delayed
  /\ delayed' = delayed \ {c}
  /\ pending' = <<c>> \o pending
  /\ UNCHANGED <<up, inflight, attempts, deadline,
                 table, parked, copies, pool, client, control, world>>

EndPrePump ==
  /\ pc = "prepump"
  /\ pc' = "pump"
  /\ UNCHANGED <<ret, back, cur, quota, code, continues, drained,
                 window, table, retry, parked, copies, pool, client, world>>

(* pump: try_take and submit until the window is full or nothing is left.   *)
Pump ==
  /\ pc = "pump"
  /\ \/ /\ pending # <<>> /\ ~Full
        /\ cur' = Head(pending) /\ pending' = Tail(pending)
        /\ inflight' = inflight + 1
        /\ back' = "pump" /\ pc' = "submit"
     \/ /\ pending = <<>> \/ Full
        /\ pc' = IF ret = "drain" THEN "idle"
                 ELSE IF pending = <<>> THEN "loop" ELSE "turn"
        /\ UNCHANGED <<cur, pending, inflight, back>>
  /\ UNCHANGED <<up, ret, quota, code, continues, drained,
                 table, retry, parked, copies, pool, client, world>>

-----------------------------------------------------------------------------
(* submit(cur), one disjunct of the code per action.                        *)

(* submit's ASSERTs: the workload is in the table, its tasks have no error. *)
Known(c) == c[1] \in live /\ c \notin failed

(* An ASSERT throws, and worker_routine goes on with the slot still taken.  *)
SubmitThrows ==
  /\ pc = "submit" /\ ~Known(cur)
  /\ pc' = "idle"
  /\ UNCHANGED <<ret, back, cur, quota, code, continues, drained,
                 window, table, retry, parked, copies, pool, client, world>>

Expired(c) == attempts[c] > 0 /\ deadline[c] = "expired"

(* No staging buffer can be had: the device cannot be opened, pinning       *)
(* fails, or every buffer is retired.                                       *)
SubmitUnstaged ==
  /\ pc = "submit" /\ Known(cur) /\ IsDevice(cur)
  /\ \/ Fault
     \/ retired = Buffers /\ UNCHANGED faults
  /\ EndChunk(cur, "UnknownError", TRUE)
  /\ pc' = back
  /\ UNCHANGED <<up, pending, ret, back, cur, quota, code, continues, drained, taken,
                 stopped, landed, retired, retry, parked, copies, client>>

(* Every buffer is out: the chunk waits, keeping its slot.                  *)
SubmitParks ==
  /\ pc = "submit" /\ Known(cur) /\ IsDevice(cur) /\ free = {} /\ retired # Buffers
  /\ \/ /\ attempts[cur] > 0
        /\ waitingRetries' = Append(waitingRetries, cur)
        /\ UNCHANGED waiting
     \/ /\ attempts[cur] = 0
        /\ waiting' = Append(waiting, cur)
        /\ UNCHANGED waitingRetries
  /\ pc' = back
  /\ UNCHANGED <<ret, back, cur, quota, code, continues, drained,
                 window, table, retry, copies, pool, client, world>>

(* The retry came too late, or the client refuses the read: the buffer just *)
(* taken is given back.                                                     *)
SubmitRefused ==
  /\ pc = "submit" /\ Known(cur) /\ (IsDevice(cur) => free # {})
  /\ \/ Expired(cur) /\ EndChunk(cur, "FileAccessError", TRUE)
     \/ ~Expired(cur) /\ cflag /\ EndChunk(cur, "FinishedError", TRUE)
  /\ deadline' = [deadline EXCEPT ![cur] = IF @ = "unset" THEN "running" ELSE @]
  /\ pc' = back
  /\ UNCHANGED <<up, pending, ret, back, cur, quota, code, continues, drained,
                 retired, attempts, delayed, parked, copies, client, world>>

(* async_read: the client expects one more completion and is writing.       *)
SubmitRead ==
  /\ pc = "submit" /\ Known(cur) /\ ~Expired(cur) /\ ~cflag
  /\ \E b \in IF IsDevice(cur) THEN free ELSE {None} :
        /\ reads' = reads \cup {[chunk |-> cur, buf |-> b]}
        /\ staging' = [staging EXCEPT ![cur] = b]
        /\ free' = free \ {b}
  /\ deadline' = [deadline EXCEPT ![cur] = IF @ = "unset" THEN "running" ELSE @]
  /\ pc' = "issued"
  /\ UNCHANGED <<live, remaining, ferr, failed, answer, attempts, delayed, retired,
                 ret, back, cur, quota, code, continues, drained,
                 events, cflag, cstopped, cbroken, window, parked, copies, world>>

(* async_read returns: an error if the client was stopped in the meantime,  *)
(* although the read is on its way.                                         *)
ReadIssued ==
  /\ pc = "issued"
  /\ \/ cflag /\ EndChunk(cur, "FinishedError", TRUE)
     \/ ~cflag /\ UNCHANGED <<table, inflight, free>>
  /\ pc' = back
  /\ UNCHANGED <<up, pending, ret, back, cur, quota, code, continues, drained,
                 retired, retry, parked, copies, client, world>>

-----------------------------------------------------------------------------
(* drain_batch.                                                             *)

Turn ==
  /\ pc = "turn"
  /\ \/ /\ stopped
        /\ code' = "FinishedError" /\ continues' = FALSE /\ pc' = "abort"
     \/ /\ ~stopped
        /\ pc' = "copies" /\ UNCHANGED <<code, continues>>
  /\ UNCHANGED <<ret, back, cur, quota, drained,
                 window, table, retry, parked, copies, pool, client, world>>

(* drain_copies, one completion at a time.                                  *)
DrainCopy ==
  /\ pc = "copies" /\ copiesIssued > 0 /\ copyDone # <<>>
  /\ LET d == Head(copyDone)
     IN  \/ d.chunk[1] \in live /\ EndChunk(d.chunk, d.ret, FALSE)
         \/ d.chunk[1] \notin live /\ UNCHANGED <<table, inflight, free>>
  /\ copyDone' = Tail(copyDone)
  /\ copiesIssued' = copiesIssued - 1
  /\ UNCHANGED <<up, pending, copying, reporting, retired,
                 retry, parked, client, control, world>>

EndCopies ==
  /\ pc = "copies" /\ (copiesIssued = 0 \/ copyDone = <<>>)
  /\ quota' = [retries |-> Len(waitingRetries), fresh |-> Len(waiting)]
  /\ pc' = "resume"
  /\ UNCHANGED <<ret, back, cur, code, continues, drained,
                 window, table, retry, parked, copies, pool, client, world>>

(* resume_waiting: one pass over the parked retries, then over the rest.  A *)
(* chunk whose workload is gone is dropped.                                 *)
ResumeNext ==
  /\ pc = "resume"
  /\ \/ /\ quota.retries > 0
        /\ cur' = Head(waitingRetries) /\ waitingRetries' = Tail(waitingRetries)
        /\ quota' = [quota EXCEPT !.retries = @ - 1]
        /\ UNCHANGED waiting
     \/ /\ quota.retries = 0 /\ quota.fresh > 0
        /\ cur' = Head(waiting) /\ waiting' = Tail(waiting)
        /\ quota' = [quota EXCEPT !.fresh = @ - 1]
        /\ UNCHANGED waitingRetries
  /\ \/ cur'[1] \in live /\ back' = "resume" /\ pc' = "submit"
     \/ cur'[1] \notin live /\ UNCHANGED <<back, pc>>
  /\ UNCHANGED <<ret, code, continues, drained,
                 window, table, retry, copies, pool, client, world>>

(* With nothing in flight there is no completion to wait for.               *)
EndResume ==
  /\ pc = "resume" /\ quota.retries = 0 /\ quota.fresh = 0
  /\ pc' = IF inflight = 0 THEN Caller ELSE "wait"
  /\ UNCHANGED <<ret, back, cur, quota, code, continues, drained,
                 window, table, retry, parked, copies, pool, client, world>>

(* What async_response can give: a completion; the FinishedError marker of  *)
(* a responder that is stopped or has nothing expected; or an error.        *)
Completion == ~cbroken /\ ~cstopped /\ events # <<>>
Marker == ~cbroken /\ (cstopped \/ (reads = {} /\ events = <<>>))

(* Fault: the failed attempt keeps its slot through the backoff.            *)
RescheduleKeepsSlot(c) ==
  /\ deadline[c] = "running"
  /\ delayed' = delayed \cup {c}
  /\ attempts' = [attempts EXCEPT ![c] = @ + 1]
  /\ Release(c)
  /\ UNCHANGED <<inflight, deadline, live, remaining, ferr, failed, answer, copying, copiesIssued>>

(* ObjectStorageRetry::schedule accepts a failed chunk.                     *)
Reschedule(c) ==
  /\ deadline[c] = "running"
  /\ delayed' = delayed \cup {c}
  /\ attempts' = [attempts EXCEPT ![c] = @ + 1]
  /\ Release(c)
  /\ Complete(1)
  /\ UNCHANGED <<deadline, live, remaining, ferr, failed, answer, copying, copiesIssued>>

(* A completion is routed: dropped when late, retried, or the chunk's end.  *)
HandleCompletion ==
  /\ pc = "wait" /\ Completion
  /\ LET e == Head(events)
         c == e.chunk
     IN  \/ /\ c[1] \notin live
            /\ UNCHANGED <<table, inflight, retry, free, copying, copiesIssued>>
         \/ /\ c[1] \in live /\ e.ret = "RetryableFileAccessError"
            /\ \/ Reschedule(c)
               \/ CompleteRead(c, "FileAccessError") /\ UNCHANGED retry
         \/ /\ c[1] \in live /\ e.ret # "RetryableFileAccessError"
            /\ CompleteRead(c, e.ret) /\ UNCHANGED retry
  /\ events' = Tail(events)
  /\ pc' = Caller
  /\ UNCHANGED <<up, pending, copyDone, reporting, retired, reads, cflag, cstopped, cbroken,
                 ret, back, cur, quota, code, continues, drained, parked, world>>

(* The responder has nothing to give.  That is an end only if this worker   *)
(* is not itself what everything is waiting for.                            *)
HandleMarker ==
  /\ pc = "wait" /\ Marker
  /\ \/ /\ HoldingWork
        /\ pc' = Caller /\ UNCHANGED <<code, continues>>
     \/ /\ ~HoldingWork
        /\ code' = "FinishedError" /\ continues' = TRUE /\ pc' = "abort"
  /\ UNCHANGED <<ret, back, cur, quota, drained,
                 window, table, retry, parked, copies, pool, client, world>>

HandleBroken ==
  /\ pc = "wait" /\ cbroken
  /\ code' = "UnknownError" /\ continues' = TRUE /\ pc' = "abort"
  /\ UNCHANGED <<ret, back, cur, quota, drained,
                 window, table, retry, parked, copies, pool, client, world>>

-----------------------------------------------------------------------------
(* abort_all(code, continues).                                              *)

(* The slots of the parked chunks.                                          *)
ParkedCredit == Len(waiting) + Len(waitingRetries)

(* Fault: the parked chunks outlive their workload.                         *)
KeepParked == UNCHANGED parked

(* The queues of parked chunks are emptied.                                 *)
DropParked == waiting' = <<>> /\ waitingRetries' = <<>>

(* Drop what never reached the backend, and the credit of what is parked.   *)
Abort ==
  /\ pc = "abort"
  /\ delayed' = {} /\ pending' = <<>>
  /\ Complete(ParkedCredit)
  /\ DropParked
  /\ pc' = "quiesceReads"
  /\ UNCHANGED <<up, attempts, deadline, ret, back, cur, quota, code, continues, drained,
                 table, copies, pool, client, world>>

(* quiesce_reads: a completion gives its credit back and is not routed.     *)
QuiesceRead ==
  /\ pc = "quiesceReads" /\ inflight > 0 /\ Completion
  /\ events' = Tail(events)
  /\ Complete(1)
  /\ UNCHANGED <<up, pending, reads, cflag, cstopped, cbroken,
                 table, retry, parked, copies, pool, control, world>>

(* Fault: quiesce_reads waits for the credit whatever the plugin says.      *)
NothingToGiveNever == FALSE

(* The plugin cannot tell any more.                                         *)
NothingToGive == Marker \/ cbroken

EndQuiesceReads ==
  /\ pc = "quiesceReads"
  /\ \/ inflight = 0 /\ drained' = TRUE
     \/ inflight > 0 /\ NothingToGive /\ drained' = FALSE
  /\ pc' = "quiesceCopies"
  /\ UNCHANGED <<ret, back, cur, quota, code, continues,
                 window, table, retry, parked, copies, pool, client, world>>

QuiesceCopy ==
  /\ pc = "quiesceCopies" /\ copiesIssued > 0 /\ copyDone # <<>>
  /\ copyDone' = Tail(copyDone)
  /\ copiesIssued' = copiesIssued - 1
  /\ UNCHANGED <<copying, reporting,
                 window, table, retry, parked, pool, client, control, world>>

(* Fault: quiesce_copies is left out.                                       *)
CopiesUnwaited == TRUE

(* quiesce_copies is done.                                                  *)
CopiesQuiet == copiesIssued = 0

(* The buffers still held go back, or are retired when a read that never    *)
(* reported may still be writing.                                           *)
GiveBack(S) ==
  \/ /\ drained \/ ~continues
     /\ free' = free \cup S /\ UNCHANGED retired
  \/ /\ ~drained /\ continues
     /\ retired' = retired \cup S /\ UNCHANGED free

(* Then every workload is failed, and the window zeroed.                    *)
FinishAbort ==
  /\ pc = "quiesceCopies" /\ CopiesQuiet
  /\ GiveBack({staging[c] : c \in {d \in Chunks : d[1] \in live}} \ {None})
  /\ staging' = [c \in Chunks |-> IF c[1] \in live THEN None ELSE staging[c]]
  /\ answer' = Answered(answer, {c \in Chunks : c[1] \in live}, code)
  /\ live' = {}
  /\ pending' = <<>> /\ inflight' = 0
  /\ pc' = Caller
  /\ UNCHANGED <<up, remaining, ferr, failed, ret, back, cur, quota, code, continues, drained,
                 retry, parked, copies, client, world>>

(* The pool is stopped and the worker idle: worker_routine ends, and the    *)
(* worker is destroyed once its destructor has seen every copy report.      *)
Exit ==
  /\ pc = "idle" /\ stopped /\ Idle /\ copiesIssued = 0
  /\ pc' = "exit"
  /\ UNCHANGED <<ret, back, cur, quota, code, continues, drained,
                 window, table, retry, parked, copies, pool, client, world>>

worker ==
  \/ Discard \/ Enqueue \/ EnqueueThrows \/ Loop \/ Drain
  \/ (\E c \in Chunks : Promote(c)) \/ EndPrePump \/ Pump
  \/ SubmitThrows \/ SubmitUnstaged \/ SubmitParks \/ SubmitRefused \/ SubmitRead \/ ReadIssued
  \/ Turn \/ DrainCopy \/ EndCopies \/ ResumeNext \/ EndResume
  \/ HandleCompletion \/ HandleMarker \/ HandleBroken
  \/ Abort \/ QuiesceRead \/ EndQuiesceReads \/ QuiesceCopy \/ FinishAbort \/ Exit

-----------------------------------------------------------------------------
(* The environment.                                                         *)

(* A read ends: the plugin queues one completion, unless it was stopped.    *)
ReadLands(rd, r) ==
  /\ rd \in reads
  /\ \/ r = "Success" /\ UNCHANGED faults
     \/ r = "RetryableFileAccessError" /\ attempts[rd.chunk] < MaxRetries /\ UNCHANGED faults
     \/ r = "FileAccessError" /\ Fault
  /\ reads' = reads \ {rd}
  /\ events' = IF cstopped THEN events ELSE Append(events, [chunk |-> rd.chunk, ret |-> r])
  /\ landed' = IF r = "Success" /\ rd.buf = None THEN landed \cup {rd.chunk} ELSE landed
  /\ UNCHANGED <<cflag, cstopped, cbroken, taken, stopped,
                 window, table, retry, parked, copies, pool, control>>

(* A copy ends: its buffer goes back to the pool, or is retired when the    *)
(* device cannot say that it is done with it ...                            *)
CopyLands(cp, r) ==
  /\ cp \in copying
  /\ \/ /\ r = "Success"
        /\ free' = free \cup {cp.buf} /\ UNCHANGED <<retired, faults>>
     \/ /\ r = "DeviceDriverError" /\ Fault
        /\ \/ free' = free \cup {cp.buf} /\ UNCHANGED retired
           \/ retired' = retired \cup {cp.buf} /\ UNCHANGED free
  /\ copying' = copying \ {cp}
  /\ reporting' = reporting \cup {[chunk |-> cp.chunk, ret |-> r]}
  /\ landed' = IF r = "Success" THEN landed \cup {cp.chunk} ELSE landed
  /\ UNCHANGED <<copiesIssued, copyDone, taken, stopped,
                 window, table, retry, parked, client, control>>

(* ... and then it is reported to the worker that issued it.                *)
CopyReports(d) ==
  /\ d \in reporting
  /\ reporting' = reporting \ {d}
  /\ copyDone' = Append(copyDone, d)
  /\ UNCHANGED <<copiesIssued, copying,
                 window, table, retry, parked, pool, client, control, world>>

(* A chunk's retry deadline passes (nobody looks if nothing is retried).    *)
Expire(c) ==
  /\ deadline[c] = "running" /\ MaxRetries > 0
  /\ deadline' = [deadline EXCEPT ![c] = "expired"]
  /\ UNCHANGED <<attempts, delayed, window, table, parked, copies, pool, client, control, world>>

(* The plugin fails and can report nothing more.                            *)
BreakClient ==
  /\ ~cbroken /\ Fault
  /\ cbroken' = TRUE
  /\ UNCHANGED <<reads, events, cflag, cstopped, taken, stopped, landed,
                 window, table, retry, parked, copies, pool, control>>

(* Teardown: the client's flag, its responder, and then the worker's pool.  *)
StopClient ==
  /\ Teardown /\ ~cflag
  /\ cflag' = TRUE
  /\ UNCHANGED <<reads, events, cstopped, cbroken,
                 window, table, retry, parked, copies, pool, control, world>>

StopResponder ==
  /\ cflag /\ ~cstopped
  /\ cstopped' = TRUE
  /\ UNCHANGED <<reads, events, cflag, cbroken,
                 window, table, retry, parked, copies, pool, control, world>>

StopPool ==
  /\ cstopped /\ ~stopped
  /\ stopped' = TRUE
  /\ UNCHANGED <<taken, faults, landed,
                 window, table, retry, parked, copies, pool, client, control>>

(* The thread is parked in the pool's queue, or has left.                   *)
Rest ==
  /\ pc = "exit" \/ (pc = "idle" /\ Idle)
  /\ UNCHANGED vars

ReadCodes == {"Success", "RetryableFileAccessError", "FileAccessError"}
CopyCodes == {"Success", "DeviceDriverError"}

Next ==
  \/ worker
  \/ \E rd \in reads, r \in ReadCodes : ReadLands(rd, r)
  \/ \E cp \in copying, r \in CopyCodes : CopyLands(cp, r)
  \/ \E d \in reporting : CopyReports(d)
  \/ \E c \in Chunks : Expire(c)
  \/ BreakClient \/ StopClient \/ StopResponder \/ StopPool \/ Rest

Spec == Init /\ [][Next]_vars

(* The thread runs, a delay elapses, the plugin completes every read and    *)
(* the issuer every copy, and a teardown once begun goes on.                *)
Fairness ==
  /\ WF_vars(worker)
  /\ SF_vars(\E c \in Chunks : Promote(c))
  /\ WF_vars(\E rd \in reads, r \in ReadCodes : ReadLands(rd, r))
  /\ WF_vars(\E cp \in copying, r \in CopyCodes : CopyLands(cp, r))
  /\ WF_vars(\E d \in reporting : CopyReports(d))
  /\ WF_vars(StopResponder) /\ WF_vars(StopPool)

FairSpec == Spec /\ Fairness

-----------------------------------------------------------------------------
CreditExact ==
  ~cflag /\ ~cbroken =>
    inflight = Cardinality(reads) + Len(events) + Len(waiting) + Len(waitingRetries)
               + (IF pc = "submit" THEN 1 ELSE 0)

(* Where each staging buffer is: never in two places, never lost.           *)
Holders(b) ==
  {c \in Chunks : staging[c] = b} \cup {cp.chunk : cp \in {x \in copying : x.buf = b}}
BuffersConserved ==
  ~cflag => \A b \in Buffers :
    /\ (b \in free) # (b \in retired \/ Holders(b) # {})
    /\ ~(b \in retired /\ Holders(b) # {})
    /\ Cardinality(Holders(b)) <= 1

NoWriteIntoFree ==
  ~cflag => \A rd \in reads : rd.buf # None =>
    rd.buf \notin free /\ \A c \in Chunks : staging[c] = rd.buf => c = rd.chunk

(* CapacityQueue's credit is exactly the reads the plugin has not given     *)
(* back, the chunks parked with their slot, and the chunk being submitted:  *)
(* no path of submit, retry, copy or failure frees a slot twice or never.   *)
(* Likewise each staging buffer is in one place, and none the plugin may    *)
(* still write into is handed to another chunk, even after an abort that    *)
(* could not wait for the plugin.                                           *)
LedgersExact == CreditExact /\ BuffersConserved /\ NoWriteIntoFree

AnswerIsQuiet ==
  ~cflag /\ ~cbroken => \A c \in Chunks : answer[c] # None =>
    /\ \A rd \in reads : rd.chunk # c
    /\ \A cp \in copying : cp.chunk # c

SuccessIsLanded ==
  ~cflag => \A c \in Chunks : answer[c] = "Success" => c \in landed

NoneUnanswered ==
  ~cflag => \A c \in Chunks :
    (c[1] <= taken /\ c[1] \notin live) => answer[c] # None

(* An answer promises that neither the plugin nor a copy writes into the    *)
(* range any more; Success that its bytes are in the caller's memory, for a *)
(* device chunk not when its read landed but when its copy did; and every   *)
(* workload that has left the table has been answered whole.                *)
AnswersHonest == AnswerIsQuiet /\ SuccessIsLanded /\ NoneUnanswered

(* A drained responder is taken for a stopped one only when the client is   *)
(* being stopped: a load is never failed because its copies are slower than *)
(* its reads.                                                               *)
AbortIsReal ==
  pc = "abort" /\ code = "FinishedError" => cflag

(* A parked, delayed or queued chunk belongs to a workload in the table,    *)
(* so no ASSERT on an unknown handle can fire, and its tasks have no error. *)
QueuedIsLive ==
  ~cflag => \A c \in Chunks :
    \/ pc = "submit" /\ cur = c
    \/ c \in delayed
    \/ \E i \in DOMAIN pending : pending[i] = c
    \/ \E i \in DOMAIN waiting : waiting[i] = c
    \/ \E i \in DOMAIN waitingRetries : waitingRetries[i] = c
    => Known(c) /\ answer[c] = None

(* What is held is live, and what is aborted was stopped.                   *)
WorkIsLive == QueuedIsLive /\ AbortIsReal

(* The callback of a copy holds the worker: none is left when it is gone.   *)
ExitsQuiet == pc = "exit" => copying = {} /\ reporting = {} /\ copyDone = <<>>

(* Every chunk of a workload the worker took is answered in the end.        *)
AllAnswered ==
  \A c \in Chunks : c[1] <= taken ~> answer[c] # None \/ cflag

(* Once stopped, the worker empties its window and the pool can join.       *)
StopEnds == stopped ~> pc = "exit"

(* What submit asserts, whatever the client is doing: "submitting a chunk   *)
(* with unknown handle" and "task already failed before its only chunk was  *)
(* submitted" never happen.                                                 *)
SubmitsKnown == pc = "submit" => Known(cur)
=============================================================================
