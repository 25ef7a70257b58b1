------------------------------ MODULE Streamer ------------------------------
(***************************************************************************)
(* The submission and response core of the streamer: Streamer::async_request*)
(* and Streamer::response (src/cpp/streamer/impl/streamer/streamer.cc), the *)
(* SubmissionsMgr registry, the PERSISTENT SharedQueue responder, the       *)
(* Request and Task counters, and the synchronous filesystem pool whose     *)
(* threads run Workload::execute and Batch::read.                           *)
(*                                                                         *)
(* A request is a shape: how many ranges it has, and how Assigner and       *)
(* Batches cut it - a sequence of workloads, each a sequence of batches,    *)
(* each a sequence of tasks [range, end] in file order, `end` counted in    *)
(* bytes from the start of the batch.  A range cut over several workloads   *)
(* is finished by whichever thread takes its task counter to zero.          *)
(***************************************************************************)
EXTENDS Naturals, Sequences, FiniteSets

CONSTANTS Submitters,      \* threads that call async_request
          Workers,         \* threads of the filesystem pool
          Plans,           \* the requests each caller will submit, in order
          MaxRanges,       \* the most ranges a request has
          MaxSubmissions,  \* bound: ids handed out
          MaxThrows,       \* bound: dispatches that throw
          MaxLost,         \* bound: responses lost by the best-effort drain
          BlockBytes       \* Config::fs_sync_read_block_bytesize

Ids == 1..MaxSubmissions
Threads == Submitters \cup Workers
NoShape == [ranges |-> 0, work |-> <<>>]

(* What a request may be cut into: no batch is empty, and a task belongs to *)
(* one of the request's ranges.                                             *)
Shapes ==
  {sh \in [ranges : 0..MaxRanges, work : Seq(Seq(Seq([range : Nat, end : Nat]) \ {<<>>}))] :
     \A w \in DOMAIN sh.work : \A b \in DOMAIN sh.work[w] : \A i \in DOMAIN sh.work[w][b] :
       sh.work[w][b][i].range \in 1..sh.ranges}

ASSUME BlockAssumption == BlockBytes \in Nat \ {0}
ASSUME ThreadAssumption ==
  Submitters \cap Workers = {} /\ IsFiniteSet(Submitters) /\ IsFiniteSet(Workers)
ASSUME BoundAssumption ==
  MaxRanges \in Nat /\ MaxSubmissions \in Nat /\ MaxThrows \in Nat /\ MaxLost \in Nat
ASSUME PlanAssumption == Plans \subseteq [Submitters -> Seq(Shapes)]

VARIABLES
  \* SubmissionsMgr
  nextId,     \* _next_id
  shape,      \* what each submission asked for (its request, as cut)
  live,       \* ids in _submissions
  remaining,  \* Submission::remaining
  \* SharedQueue (the responder)
  running,    \* _running
  responses,  \* _responses
  ready,      \* _ready
  rstopped,   \* _stopped
  stopPost,   \* stop() has set the flag and not posted yet
  unexpected, \* _unexpected_push_error
  \* Request and Task
  left,       \* Request::_tasks, per submission and range
  ret,        \* Request::_ret
  finished,   \* tasks whose _finished is set
  \* async_request, per calling thread
  plan,       \* the requests still to be submitted
  pc, sub, next, throws, lost,
  \* finishing tasks, per thread: the tasks still to go through, their code,
  \* and how far finished_request and push have got with the first of them
  todo, code, step,
  \* the filesystem pool: its queue and flag; per thread, what it executes
  deque, stopped, wpc, work,
  batch,      \* the batch each thread executes, or drains next
  unfinished, \* Batch::_unfinished: the tasks finished_until has gone through
  offset,
  landed,     \* history: the tasks whose bytes have been read into place
  \* the consumer of responses, and what it has been told
  cpc, popped, delivered, done

registry == <<nextId, shape, live, remaining>>
queue == <<running, responses, ready, rstopped, stopPost, unexpected>>
requests == <<left, ret, finished>>
caller == <<plan, pc, sub, next, throws, lost>>
finishing == <<todo, code, step>>
pool == <<deque, stopped, wpc, work, batch, unfinished, offset, landed>>
consumer == <<cpc, popped, delivered, done>>
vars == <<registry, queue, requests, caller, finishing, pool, consumer>>

-----------------------------------------------------------------------------
(* The tasks of batch b of workload w of submission id, by position.        *)
Tasks(id, w, b) == shape[id].work[w][b]
BatchTasks(id, w, b) == [i \in DOMAIN Tasks(id, w, b) |-> <<id, w, b, i>>]
BatchEnd(id, w, b) == Tasks(id, w, b)[Len(Tasks(id, w, b))].end

TaskRange(t) == Tasks(t[1], t[2], t[3])[t[4]].range
TaskEnd(t) == Tasks(t[1], t[2], t[3])[t[4]].end

(* All tasks of a submission, and how many of them a range has.             *)
TasksOf(id) ==
  UNION {UNION {{<<id, w, b, i>> : i \in DOMAIN shape[id].work[w][b]} :
                   b \in DOMAIN shape[id].work[w]} : w \in DOMAIN shape[id].work}
TaskCount(id, r) == Cardinality({t \in TasksOf(id) : TaskRange(t) = r})

Init ==
  /\ nextId = 1
  /\ shape = [id \in Ids |-> NoShape]
  /\ live = {}
  /\ remaining = [id \in Ids |-> 0]
  /\ running = 0 /\ responses = <<>> /\ ready = 0
  /\ rstopped = FALSE /\ stopPost = FALSE /\ unexpected = FALSE
  /\ left = [id \in Ids |-> [r \in 1..MaxRanges |-> 0]]
  /\ ret = [id \in Ids |-> [r \in 1..MaxRanges |-> "Success"]]
  /\ finished = {}
  /\ plan \in Plans
  /\ pc = [p \in Submitters |-> "idle"]
  /\ sub = [p \in Submitters |-> 0]
  /\ next = [p \in Submitters |-> 1]
  /\ throws = 0 /\ lost = 0
  /\ todo = [t \in Threads |-> <<>>]
  /\ code = [t \in Threads |-> "Success"]
  /\ step = [t \in Threads |-> "mark"]
  /\ deque = <<>> /\ stopped = FALSE
  /\ wpc = [w \in Workers |-> "idle"]
  /\ work = [w \in Workers |-> <<0, 0>>]
  /\ batch = [t \in Threads |-> 1]
  /\ unfinished = [w \in Workers |-> 0]
  /\ offset = [w \in Workers |-> 0]
  /\ landed = {}
  /\ cpc = "idle" /\ popped = <<>> /\ delivered = <<>> /\ done = {}

-----------------------------------------------------------------------------
(* async_request, in the order of the code.  The refusals before an id is   *)
(* minted (verify_requests, the plugin lock, the range count, the strategy) *)
(* change nothing and are not actions.                                      *)

(* Fault: an id is handed out without being used up.                        *)
GenerateStale(p) ==
  /\ pc[p] = "idle" /\ plan[p] # <<>> /\ ~rstopped /\ nextId \in Ids
  /\ plan' = [plan EXCEPT ![p] = Tail(@)]
  /\ sub' = [sub EXCEPT ![p] = nextId]
  /\ shape' = [shape EXCEPT ![nextId] = Head(plan[p])]
  /\ pc' = [pc EXCEPT ![p] = IF Head(plan[p]).ranges = 0 THEN "idle" ELSE "build"]
  /\ UNCHANGED <<nextId, live, remaining, next, throws, lost,
                 queue, requests, finishing, pool, consumer>>

(* SubmissionsMgr::generate; a request without ranges returns here, and is  *)
(* not registered.                                                          *)
Generate(p) ==
  /\ pc[p] = "idle" /\ plan[p] # <<>> /\ ~rstopped /\ nextId \in Ids
  /\ plan' = [plan EXCEPT ![p] = Tail(@)]
  /\ nextId' = nextId + 1
  /\ sub' = [sub EXCEPT ![p] = nextId]
  /\ shape' = [shape EXCEPT ![nextId] = Head(plan[p])]
  /\ pc' = [pc EXCEPT ![p] = IF Head(plan[p]).ranges = 0 THEN "idle" ELSE "build"]
  /\ UNCHANGED <<live, remaining, next, throws, lost,
                 queue, requests, finishing, pool, consumer>>

(* Assigner, Batches and Workload::add_batch: each range's Request counts   *)
(* its tasks.  A failure returns with nothing committed.                    *)
Build(p) ==
  /\ pc[p] = "build"
  /\ left' = [left EXCEPT ![sub[p]] =
                [r \in 1..MaxRanges |-> TaskCount(sub[p], r)]]
  /\ pc' = [pc EXCEPT ![p] = "add"]
  /\ UNCHANGED <<ret, finished, plan, sub, next, throws, lost,
                 registry, queue, finishing, pool, consumer>>

BuildFails(p) ==
  /\ pc[p] = "build"
  /\ pc' = [pc EXCEPT ![p] = "idle"]
  /\ UNCHANGED <<plan, sub, next, throws, lost,
                 registry, queue, requests, finishing, pool, consumer>>

(* Fault: the responder is not told of the new submission.                  *)
AddWithoutIncrement(p) ==
  /\ pc[p] = "add"
  /\ live' = live \cup {sub[p]}
  /\ remaining' = [remaining EXCEPT ![sub[p]] = shape[sub[p]].ranges]
  /\ pc' = [pc EXCEPT ![p] = "dispatch"]
  /\ next' = [next EXCEPT ![p] = 1]
  /\ UNCHANGED <<nextId, shape, plan, sub, throws, lost,
                 queue, requests, finishing, pool, consumer>>

(* SubmissionsMgr::add, then SharedQueue::increment.                        *)
Add(p) ==
  /\ pc[p] = "add"
  /\ live' = live \cup {sub[p]}
  /\ remaining' = [remaining EXCEPT ![sub[p]] = shape[sub[p]].ranges]
  /\ pc' = [pc EXCEPT ![p] = "increment"]
  /\ UNCHANGED <<nextId, shape, plan, sub, next, throws, lost,
                 queue, requests, finishing, pool, consumer>>

Increment(p) ==
  /\ pc[p] = "increment"
  /\ running' = running + shape[sub[p]].ranges
  /\ pc' = [pc EXCEPT ![p] = "dispatch"]
  /\ next' = [next EXCEPT ![p] = 1]
  /\ UNCHANGED <<responses, ready, rstopped, stopPost, unexpected,
                 plan, sub, throws, lost, registry, requests, finishing, pool, consumer>>

(* One turn of the dispatch loop: an empty workload is skipped.             *)
Dispatch(p) ==
  /\ pc[p] = "dispatch"
  /\ next[p] <= Len(shape[sub[p]].work)
  /\ deque' = IF shape[sub[p]].work[next[p]] = <<>> THEN deque
              ELSE Append(deque, <<sub[p], next[p]>>)
  /\ next' = [next EXCEPT ![p] = @ + 1]
  /\ UNCHANGED <<plan, pc, sub, throws, lost, stopped, wpc, work, batch, unfinished, offset, landed,
                 registry, queue, requests, finishing, consumer>>

(* Fault: the loop counter has already moved past the workload that threw.  *)
DispatchThrowsPast(p) ==
  /\ pc[p] = "dispatch" /\ throws < MaxThrows
  /\ next[p] <= Len(shape[sub[p]].work)
  /\ shape[sub[p]].work[next[p]] # <<>>
  /\ throws' = throws + 1
  /\ next' = [next EXCEPT ![p] = @ + 1]
  /\ pc' = [pc EXCEPT ![p] = "drain"]
  /\ UNCHANGED <<plan, sub, lost, registry, queue, requests, finishing, pool, consumer>>

(* A push into the pool throws: the workload stays with the caller, and the *)
(* drain guard runs on unwind.                                              *)
DispatchThrows(p) ==
  /\ pc[p] = "dispatch" /\ throws < MaxThrows
  /\ next[p] <= Len(shape[sub[p]].work)
  /\ shape[sub[p]].work[next[p]] # <<>>
  /\ throws' = throws + 1
  /\ pc' = [pc EXCEPT ![p] = "drain"]
  /\ UNCHANGED <<plan, sub, next, lost, registry, queue, requests, finishing, pool, consumer>>

(* drain_undispatched: Workload::fail(UnknownError) of one workload after   *)
(* another, which is handle_error of one batch after another.               *)
DrainUndispatched(p) ==
  LET batches == shape[sub[p]].work[next[p]]
      last == batch[p] >= Len(batches)
  IN  /\ pc[p] = "drain" /\ todo[p] = <<>>
      /\ next[p] <= Len(shape[sub[p]].work)
      /\ todo' = [todo EXCEPT ![p] = IF batches = <<>> THEN <<>>
                                     ELSE BatchTasks(sub[p], next[p], batch[p])]
      /\ code' = [code EXCEPT ![p] = "UnknownError"]
      /\ next' = [next EXCEPT ![p] = IF last THEN @ + 1 ELSE @]
      /\ batch' = [batch EXCEPT ![p] = IF last THEN 1 ELSE @ + 1]
      /\ UNCHANGED <<step, plan, pc, sub, throws, lost, deque, stopped, wpc, work, unfinished,
                     offset, landed, registry, queue, requests, consumer>>

(* The drain is best effort: a push that fails to allocate abandons the     *)
(* rest of its workload.                                                    *)
DrainLoses(p) ==
  /\ pc[p] = "drain" /\ step[p] = "push" /\ lost < MaxLost /\ ~rstopped
  /\ lost' = lost + 1
  /\ todo' = [todo EXCEPT ![p] = <<>>]
  /\ step' = [step EXCEPT ![p] = "mark"]
  /\ next' = [next EXCEPT ![p] = IF batch[p] = 1 THEN @ ELSE @ + 1]
  /\ batch' = [batch EXCEPT ![p] = 1]
  /\ UNCHANGED <<code, plan, pc, sub, throws, deque, stopped, wpc, work, unfinished, offset,
                 landed, registry, queue, requests, consumer>>

(* The call returns: dispatched to the end, or drained to the end.          *)
Return(p) ==
  /\ pc[p] \in {"dispatch", "drain"} /\ todo[p] = <<>>
  /\ next[p] > Len(shape[sub[p]].work)
  /\ pc' = [pc EXCEPT ![p] = "idle"]
  /\ UNCHANGED <<plan, sub, next, throws, lost,
                 registry, queue, requests, finishing, pool, consumer>>

-----------------------------------------------------------------------------
(* Batch::handle_error and Batch::finished_until on thread t: for each task *)
(* of `todo`, Task::finished_request, and the response of a request whose   *)
(* last task this was.                                                      *)

First(t) == Head(todo[t])
FirstId(t) == First(t)[1]
FirstRange(t) == TaskRange(First(t))

(* Drop the first task: the loop goes to the next one.                      *)
Advance(t) ==
  /\ todo' = [todo EXCEPT ![t] = Tail(@)]
  /\ step' = [step EXCEPT ![t] = "mark"]
  /\ UNCHANGED code

(* Fault: the last task to finish decides the result of its range.          *)
MarkTaskOverwrites(t) ==
  /\ todo[t] # <<>> /\ step[t] = "mark"
  /\ \/ /\ First(t) \in finished
        /\ Advance(t)
        /\ UNCHANGED requests
     \/ /\ First(t) \notin finished
        /\ finished' = finished \cup {First(t)}
        /\ ret' = [ret EXCEPT ![FirstId(t)][FirstRange(t)] = code[t]]
        /\ step' = [step EXCEPT ![t] = "count"]
        /\ UNCHANGED <<left, todo, code>>
  /\ UNCHANGED <<registry, queue, caller, pool, consumer>>

(* Task::_finished, and Request::finished storing an error ...              *)
MarkTask(t) ==
  /\ todo[t] # <<>> /\ step[t] = "mark"
  /\ \/ /\ First(t) \in finished
        /\ Advance(t)
        /\ UNCHANGED requests
     \/ /\ First(t) \notin finished
        /\ finished' = finished \cup {First(t)}
        /\ ret' = IF code[t] = "Success" THEN ret
                  ELSE [ret EXCEPT ![FirstId(t)][FirstRange(t)] = code[t]]
        /\ step' = [step EXCEPT ![t] = "count"]
        /\ UNCHANGED <<left, todo, code>>
  /\ UNCHANGED <<registry, queue, caller, pool, consumer>>

(* ... then the atomic decrement that elects the thread that answers.       *)
CountTask(t) ==
  /\ todo[t] # <<>> /\ step[t] = "count"
  /\ left' = [left EXCEPT ![FirstId(t)][FirstRange(t)] = @ - 1]
  /\ \/ /\ left[FirstId(t)][FirstRange(t)] = 1
        /\ step' = [step EXCEPT ![t] = "push"]
        /\ UNCHANGED <<todo, code>>
     \/ /\ left[FirstId(t)][FirstRange(t)] # 1
        /\ Advance(t)
  /\ UNCHANGED <<ret, finished, registry, queue, caller, pool, consumer>>

(* SharedQueue::push under its mutex.  Ignored once stopped; an error when  *)
(* nothing is expected; otherwise the semaphore is posted afterwards.       *)
Push(t) ==
  /\ todo[t] # <<>> /\ step[t] = "push"
  /\ \/ /\ rstopped
        /\ Advance(t)
        /\ UNCHANGED <<running, responses, unexpected>>
     \/ /\ ~rstopped /\ running > 0
        /\ responses' = Append(responses,
              [id |-> FirstId(t), range |-> FirstRange(t),
               ret |-> ret[FirstId(t)][FirstRange(t)]])
        /\ running' = running - 1
        /\ step' = [step EXCEPT ![t] = "post"]
        /\ UNCHANGED <<unexpected, todo, code>>
     \/ /\ ~rstopped /\ running = 0
        /\ unexpected' = TRUE
        /\ Advance(t)
        /\ UNCHANGED <<running, responses>>
  /\ UNCHANGED <<ready, rstopped, stopPost, registry, requests, caller, pool, consumer>>

Post(t) ==
  /\ todo[t] # <<>> /\ step[t] = "post"
  /\ ready' = ready + 1
  /\ Advance(t)
  /\ UNCHANGED <<running, responses, rstopped, stopPost, unexpected,
                 registry, requests, caller, pool, consumer>>

Finish(t) == MarkTask(t) \/ CountTask(t) \/ Push(t) \/ Post(t)

-----------------------------------------------------------------------------
(* The filesystem pool.  Its queue is a plain FIFO here; ThreadPool.tla     *)
(* shows that the semaphore and the deque behave as one.                    *)

CurId(w) == work[w][1]
CurTasks(w) == BatchTasks(CurId(w), work[w][2], batch[w])
CurEnd(w) == BatchEnd(CurId(w), work[w][2], batch[w])

PopWorkload(w) ==
  /\ wpc[w] = "idle" /\ ~stopped /\ deque # <<>>
  /\ work' = [work EXCEPT ![w] = Head(deque)]
  /\ deque' = Tail(deque)
  /\ batch' = [batch EXCEPT ![w] = 1]
  /\ unfinished' = [unfinished EXCEPT ![w] = 0]
  /\ wpc' = [wpc EXCEPT ![w] = "open"]
  /\ UNCHANGED <<stopped, offset, landed, registry, queue, requests, caller, finishing, consumer>>

(* Batch::handle_error with code c: every task of the batch, the finished   *)
(* ones being skipped by Task::finished_request.                            *)
FailBatch(w, c) ==
  /\ todo' = [todo EXCEPT ![w] = CurTasks(w)]
  /\ code' = [code EXCEPT ![w] = c]
  /\ wpc' = [wpc EXCEPT ![w] = "next"]
  /\ UNCHANGED <<step, deque, stopped, work, batch, unfinished, offset, landed>>

(* Batch::finished_until: from _unfinished on, up to the first task that    *)
(* ends after `upto`.                                                       *)
Reached(w, upto) ==
  Cardinality({i \in DOMAIN CurTasks(w) : \A j \in 1..i : TaskEnd(CurTasks(w)[j]) <= upto})
FinishUntil(w, upto) ==
  /\ todo' = [todo EXCEPT ![w] = SubSeq(CurTasks(w), unfinished[w] + 1, Reached(w, upto))]
  /\ unfinished' = [unfinished EXCEPT ![w] = Reached(w, upto)]
  /\ code' = [code EXCEPT ![w] = "Success"]
  /\ UNCHANGED step

(* Batch::execute opens the file.                                           *)
OpenFile(w) ==
  /\ wpc[w] = "open"
  /\ \/ /\ wpc' = [wpc EXCEPT ![w] = "read"]
        /\ offset' = [offset EXCEPT ![w] = 0]
        /\ UNCHANGED <<finishing, deque, stopped, work, batch, unfinished, landed>>
     \/ FailBatch(w, "FileAccessError")
  /\ UNCHANGED <<registry, queue, requests, caller, consumer>>

(* Batch::read, one block: read it and answer what it completed, or fail.   *)
ReadBlock(w) ==
  /\ wpc[w] = "read" /\ todo[w] = <<>>
  /\ offset[w] < CurEnd(w) /\ ~stopped
  /\ LET upto == IF offset[w] + BlockBytes < CurEnd(w)
                 THEN offset[w] + BlockBytes ELSE CurEnd(w)
     IN  \/ /\ offset' = [offset EXCEPT ![w] = upto]
            /\ FinishUntil(w, upto)
            /\ landed' = landed \cup {CurTasks(w)[i] : i \in
                  {j \in DOMAIN CurTasks(w) : TaskEnd(CurTasks(w)[j]) <= upto}}
            /\ UNCHANGED <<deque, stopped, wpc, work, batch>>
         \/ FailBatch(w, "FileAccessError")
  /\ UNCHANGED <<registry, queue, requests, caller, consumer>>

(* The loops are over: the finished_until that answers empty ranges, unless *)
(* the pool is stopping ...                                                 *)
EndRead(w) ==
  /\ wpc[w] = "read" /\ todo[w] = <<>>
  /\ offset[w] = CurEnd(w) \/ stopped
  /\ wpc' = [wpc EXCEPT ![w] = "ended"]
  /\ \/ stopped /\ UNCHANGED <<finishing, unfinished>>
     \/ ~stopped /\ FinishUntil(w, CurEnd(w))
  /\ UNCHANGED <<deque, stopped, work, batch, offset, landed,
                 registry, queue, requests, caller, consumer>>

(* ... and the last look at the flag: a stopped read ends as FinishedError. *)
EndBatch(w) ==
  /\ wpc[w] = "ended" /\ todo[w] = <<>>
  /\ \/ /\ stopped
        /\ FailBatch(w, "FinishedError")
     \/ /\ ~stopped
        /\ wpc' = [wpc EXCEPT ![w] = "next"]
        /\ UNCHANGED <<finishing, deque, stopped, work, batch, unfinished, offset, landed>>
  /\ UNCHANGED <<registry, queue, requests, caller, consumer>>

(* Workload::execute goes to the next batch.                                *)
NextBatch(w) ==
  /\ wpc[w] = "next" /\ todo[w] = <<>>
  /\ \/ /\ batch[w] < Len(shape[CurId(w)].work[work[w][2]])
        /\ batch' = [batch EXCEPT ![w] = @ + 1]
        /\ unfinished' = [unfinished EXCEPT ![w] = 0]
        /\ wpc' = [wpc EXCEPT ![w] = "open"]
     \/ /\ batch[w] = Len(shape[CurId(w)].work[work[w][2]])
        /\ wpc' = [wpc EXCEPT ![w] = "idle"]
        /\ UNCHANGED <<batch, unfinished>>
  /\ UNCHANGED <<deque, stopped, work, offset, landed,
                 registry, queue, requests, caller, finishing, consumer>>

ExitWorker(w) ==
  /\ wpc[w] = "idle" /\ stopped
  /\ wpc' = [wpc EXCEPT ![w] = "exit"]
  /\ UNCHANGED <<deque, stopped, work, batch, unfinished, offset, landed,
                 registry, queue, requests, caller, finishing, consumer>>

execute(w) ==
  \/ PopWorkload(w) \/ OpenFile(w) \/ ReadBlock(w) \/ EndRead(w)
  \/ EndBatch(w) \/ NextBatch(w) \/ ExitWorker(w)

-----------------------------------------------------------------------------
(* Streamer::response, called in a loop by the one consumer.                *)

Call ==
  /\ cpc = "idle"
  /\ \/ rstopped /\ cpc' = "finished"
     \/ ~rstopped /\ cpc' \in {"wait", "timedWait"}
  /\ UNCHANGED <<popped, delivered, done, registry, queue, requests, caller, finishing, pool>>

Wait ==
  /\ cpc \in {"wait", "timedWait"} /\ ready > 0
  /\ ready' = ready - 1
  /\ cpc' = "lock"
  /\ UNCHANGED <<running, responses, rstopped, stopPost, unexpected, popped, delivered, done,
                 registry, requests, caller, finishing, pool>>

(* A timed wait that elapses: TimedOut, and nothing consumed.               *)
TimeOut ==
  /\ cpc = "timedWait" /\ ready = 0
  /\ cpc' = "idle"
  /\ UNCHANGED <<popped, delivered, done, registry, queue, requests, caller, finishing, pool>>

(* The critical section of SharedQueue::pop.                                *)
Pop ==
  /\ cpc = "lock"
  /\ \/ /\ rstopped
        /\ cpc' = "finished"
        /\ UNCHANGED <<popped, responses>>
     \/ /\ ~rstopped
        /\ popped' = <<Head(responses)>>
        /\ responses' = Tail(responses)
        /\ cpc' = "consume"
  /\ UNCHANGED <<running, ready, rstopped, stopPost, unexpected, delivered, done,
                 registry, requests, caller, finishing, pool>>

(* Fault: completion is looked for before the response is counted.          *)
ConsumeLate ==
  /\ cpc = "consume"
  /\ LET id == popped[1].id
     IN  /\ remaining' = [remaining EXCEPT ![id] = @ - 1]
         /\ live' = IF remaining[id] = 0 THEN live \ {id} ELSE live
         /\ done' = IF remaining[id] = 0 THEN done \cup {id} ELSE done
  /\ delivered' = Append(delivered, popped[1])
  /\ popped' = <<>>
  /\ cpc' = "idle"
  /\ UNCHANGED <<nextId, shape, queue, requests, caller, finishing, pool>>

(* SubmissionsMgr::consume: the last response erases the submission and is  *)
(* reported as submission_done.                                             *)
Consume ==
  /\ cpc = "consume"
  /\ LET id == popped[1].id
     IN  /\ remaining' = [remaining EXCEPT ![id] = @ - 1]
         /\ live' = IF remaining[id] = 1 THEN live \ {id} ELSE live
         /\ done' = IF remaining[id] = 1 THEN done \cup {id} ELSE done
  /\ delivered' = Append(delivered, popped[1])
  /\ popped' = <<>>
  /\ cpc' = "idle"
  /\ UNCHANGED <<nextId, shape, queue, requests, caller, finishing, pool>>

response == Call \/ Wait \/ TimeOut \/ Pop \/ Consume

-----------------------------------------------------------------------------
(* ~Streamer, with no async_request under way: the responder is stopped     *)
(* (flag, then post), then the pool, whose queued workloads are dropped.    *)
(* Fault: the flag is set and nobody is woken.                              *)
StopResponderSilent ==
  /\ ~rstopped /\ \A p \in Submitters : pc[p] = "idle"
  /\ rstopped' = TRUE
  /\ UNCHANGED <<running, responses, ready, stopPost, unexpected,
                 registry, requests, caller, finishing, pool, consumer>>

StopResponder ==
  /\ ~rstopped /\ \A p \in Submitters : pc[p] = "idle"
  /\ rstopped' = TRUE
  /\ stopPost' = TRUE
  /\ UNCHANGED <<running, responses, ready, unexpected,
                 registry, requests, caller, finishing, pool, consumer>>

StopPost ==
  /\ stopPost
  /\ stopPost' = FALSE
  /\ ready' = ready + 1
  /\ UNCHANGED <<running, responses, rstopped, unexpected,
                 registry, requests, caller, finishing, pool, consumer>>

StopPools ==
  /\ rstopped /\ ~stopPost /\ ~stopped
  /\ stopped' = TRUE
  /\ deque' = <<>>
  /\ UNCHANGED <<wpc, work, batch, unfinished, offset, landed,
                 registry, queue, requests, caller, finishing, consumer>>

(* Torn down: the pool is joined and the consumer has been told.            *)
Destroyed ==
  /\ cpc = "finished" /\ \A w \in Workers : wpc[w] = "exit"
  /\ UNCHANGED vars

async_request(p) ==
  \/ Generate(p) \/ Build(p) \/ BuildFails(p) \/ Add(p) \/ Increment(p) \/ Dispatch(p)
  \/ DispatchThrows(p) \/ DrainUndispatched(p) \/ DrainLoses(p) \/ Return(p)

Next ==
  \/ \E p \in Submitters : async_request(p)
  \/ \E t \in Threads : Finish(t)
  \/ \E w \in Workers : execute(w)
  \/ response
  \/ StopResponder \/ StopPost \/ StopPools \/ Destroyed

Spec == Init /\ [][Next]_vars

(* A call under way returns, a pool thread keeps running, the consumer      *)
(* keeps asking, and a destructor once entered goes on.  Nobody is obliged  *)
(* to submit or to destroy.                                                 *)
Fairness ==
  /\ \A p \in Submitters : WF_vars(pc[p] # "idle" /\ async_request(p))
  /\ \A t \in Threads : WF_vars(Finish(t))
  /\ \A w \in Workers : WF_vars(execute(w))
  /\ WF_vars(response)
  /\ WF_vars(StopPost) /\ WF_vars(StopPools)

FairSpec == Spec /\ Fairness

-----------------------------------------------------------------------------
TaskIds == UNION {TasksOf(id) : id \in Ids}

(* Everything pushed into the responder so far, oldest first.               *)
Pushed == delivered \o popped \o responses

(* The ranges the responder has been told to expect.                        *)
Expected ==
  {x \in Ids \X (1..MaxRanges) :
     /\ x[1] \in live \cup done
     /\ x[2] <= shape[x[1]].ranges
     /\ ~ \E p \in Submitters : sub[p] = x[1] /\ pc[p] = "increment"}

(* SharedQueue::_running counts exactly the expected ranges not pushed yet, *)
(* so push never takes its "unexpected response" branch (valid() stays      *)
(* Success), whichever threads push and submit at the same time.            *)
RunningIsOwed ==
  /\ ~unexpected
  /\ ~rstopped => running + Len(Pushed) = Cardinality(Expected)

(* The three ASSERTs of the response path never fire: a wake-up finds a     *)
(* response (SharedQueue::pop), a response finds its submission registered  *)
(* (SubmissionsMgr::consume), and an id is registered once (add).           *)
AssertsHold ==
  /\ (cpc = "lock" /\ ~rstopped) => responses # <<>>
  /\ cpc = "consume" => popped[1].id \in live /\ remaining[popped[1].id] > 0
  /\ \A p \in Submitters : pc[p] = "add" => sub[p] \notin live \cup done

TaskStart(t) ==
  IF t[4] = 1 THEN 0 ELSE TaskEnd(<<t[1], t[2], t[3], t[4] - 1>>)

SuccessMeansRead ==
  \A i \in 1..Len(Pushed) : Pushed[i].ret = "Success" =>
    \A t \in TaskIds : t[1] = Pushed[i].id /\ TaskRange(t) = Pushed[i].range =>
       t \in landed \/ TaskStart(t) = TaskEnd(t)

DoneIsQuiet ==
  \A id \in done :
    /\ \A i \in 1..Len(deque) : deque[i][1] # id
    /\ \A w \in Workers : wpc[w] \in {"open", "read"} /\ CurId(w) = id =>
          wpc[w] = "read" /\ offset[w] = CurEnd(w)

(* A range is answered Success only if every byte of it has been read: no   *)
(* error of another task, thread or drain is overwritten by a success.  And *)
(* once a submission is reported done its buffers may be freed: nothing is  *)
(* queued or being read for it any more.                                    *)
AnswersHonest == SuccessMeansRead /\ DoneIsQuiet

(* The detailed machine implements the promise of ResponseContract.         *)
Contract == INSTANCE ResponseContract WITH
  Ids <- Ids,
  Ranges <- 1..MaxRanges,
  owed <- [id \in Ids |-> IF id \in live
             THEN {r \in 1..shape[id].ranges : \A i \in 1..Len(delivered) :
                      ~(delivered[i].id = id /\ delivered[i].range = r)}
             ELSE {}],
  opened <- live \cup done,
  done <- done,
  closed <- rstopped

(* One response per range, the last of them reported as completion, nothing *)
(* after it: every step of the code is a step of the contract.              *)
KeepsContract == Contract!Spec

(* Every committed submission is eventually reported done, also when its    *)
(* dispatch threw half way, unless the streamer is destroyed first or the   *)
(* best-effort drain itself ran out of memory.                              *)
Completes == \A id \in Ids : id \in live ~> (id \in done \/ rstopped \/ lost > 0)

(* ~Streamer releases a consumer parked in response() and joins the pool.   *)
TeardownEnds == rstopped ~> (cpc = "finished" /\ \A w \in Workers : wpc[w] = "exit")
=============================================================================
