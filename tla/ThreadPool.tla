----------------------------- MODULE ThreadPool -----------------------------
(***************************************************************************)
(* utils::ThreadPool in per-worker mode over utils::Deque                  *)
(* (src/cpp/utils/threadpool/threadpool.h, src/cpp/utils/deque/deque.h).   *)
(*                                                                         *)
(* A fixed set of worker threads shares one FIFO.  The FIFO is a deque     *)
(* under a mutex plus a counting semaphore that is posted after the mutex  *)
(* is released, so a message and its token become visible in two steps,    *)
(* and a consumer takes the token before the message.  Teardown sets the   *)
(* pool's `stopped` flag, then the deque's, then posts one token per       *)
(* thread.                                                                 *)
(*                                                                         *)
(* The Worker behind the pool is abstract: it holds the requests that are  *)
(* in flight, `execute` adds one, and `execute` and `drain` complete any   *)
(* of them.  With `stopped` set it aborts everything it holds, which is    *)
(* what every worker of the streamer does.                                 *)
(***************************************************************************)
EXTENDS Naturals, Sequences, FiniteSets

CONSTANTS Threads,   \* the pool's threads, each with a worker of its own
          Requests   \* the requests callers push, each at most once

ASSUME ThreadsAssumption == IsFiniteSet(Threads) /\ Threads # {}
ASSUME RequestsAssumption == IsFiniteSet(Requests)

None == "none"
ASSUME NoneAssumption == None \notin Requests

VARIABLES
  deque,     \* Deque::_deque
  sem,       \* Deque::_sem
  dstopped,  \* Deque::_stopped
  stopped,   \* ThreadPool::stopped
  tokens,    \* posts Deque::stop has still to make
  pushing,   \* requests in the deque whose Deque::push has not posted yet
  pc,        \* where each thread is in worker_routine
  hand,      \* the request each thread has popped and not yet given away
  held,      \* the requests each thread's worker has in flight
  fate       \* what became of each request

vars == <<deque, sem, dstopped, stopped, tokens, pushing, pc, hand, held, fate>>

Fates == {"unsent", "pool", "done", "aborted", "dropped"}

(* "try"/"tryLock": inside try_pop, before and after its try_wait;          *)
(* "wait"/"popLock": inside pop, before and after its wait;                 *)
(* "check": a request is in hand, `stopped` is read next.                   *)
Places == {"try", "tryLock", "wait", "popLock", "check", "exec", "drain", "exit"}

Init ==
  /\ deque = <<>>
  /\ sem = 0
  /\ dstopped = FALSE
  /\ stopped = FALSE
  /\ tokens = 0
  /\ pushing = {}
  /\ pc = [t \in Threads |-> "try"]
  /\ hand = [t \in Threads |-> None]
  /\ held = [t \in Threads |-> {}]
  /\ fate = [r \in Requests |-> "unsent"]

-----------------------------------------------------------------------------
(* Deque::push: the message under the mutex, the token after it.  Callers   *)
(* do not push into a pool being destroyed (the ASSERT on _stopped).        *)
PushMessage(r) ==
  /\ fate[r] = "unsent"
  /\ ~stopped
  /\ deque' = Append(deque, r)
  /\ pushing' = pushing \cup {r}
  /\ fate' = [fate EXCEPT ![r] = "pool"]
  /\ UNCHANGED <<sem, dstopped, stopped, tokens, pc, hand, held>>

(* Fault: the post is skipped when the semaphore is already raised.         *)
PushTokenOnce(r) ==
  /\ r \in pushing
  /\ pushing' = pushing \ {r}
  /\ sem' = IF sem = 0 THEN 1 ELSE sem
  /\ UNCHANGED <<deque, dstopped, stopped, tokens, pc, hand, held, fate>>

PushToken(r) ==
  /\ r \in pushing
  /\ pushing' = pushing \ {r}
  /\ sem' = sem + 1
  /\ UNCHANGED <<deque, dstopped, stopped, tokens, pc, hand, held, fate>>

(* ~ThreadPool: the flag first; then Deque::stop, whose posts come one by   *)
(* one after its mutex is released.  No push is under way (see above).      *)
StopPool ==
  /\ ~stopped
  /\ pushing = {}
  /\ stopped' = TRUE
  /\ UNCHANGED <<deque, sem, dstopped, tokens, pushing, pc, hand, held, fate>>

(* Fault: one token for the whole pool.                                     *)
StopDequeOneToken ==
  /\ stopped
  /\ ~dstopped
  /\ dstopped' = TRUE
  /\ tokens' = 1
  /\ UNCHANGED <<deque, sem, stopped, pushing, pc, hand, held, fate>>

StopDeque ==
  /\ stopped
  /\ ~dstopped
  /\ dstopped' = TRUE
  /\ tokens' = Cardinality(Threads)
  /\ UNCHANGED <<deque, sem, stopped, pushing, pc, hand, held, fate>>

StopToken ==
  /\ tokens > 0
  /\ tokens' = tokens - 1
  /\ sem' = sem + 1
  /\ UNCHANGED <<deque, dstopped, stopped, pushing, pc, hand, held, fate>>

-----------------------------------------------------------------------------
(* Where worker_routine goes when try_pop gave nothing: drain the worker's  *)
(* tail, or park when the worker is idle.                                   *)
NothingPopped(t) == IF held[t] # {} THEN "drain" ELSE "wait"

(* Deque::try_pop, first half: a token, or nothing to do.                   *)
TryWait(t) ==
  /\ pc[t] = "try"
  /\ \/ /\ sem > 0
        /\ sem' = sem - 1
        /\ pc' = [pc EXCEPT ![t] = "tryLock"]
     \/ /\ sem = 0
        /\ sem' = sem
        /\ pc' = [pc EXCEPT ![t] = NothingPopped(t)]
  /\ UNCHANGED <<deque, dstopped, stopped, tokens, pushing, hand, held, fate>>

(* Fault: the front is read and not popped.                                 *)
TakeFrontOnly(t) ==
  /\ hand' = [hand EXCEPT ![t] = Head(deque)]
  /\ deque' = deque
  /\ pc' = [pc EXCEPT ![t] = "check"]

(* The critical section of a pop that holds a token: the front message.     *)
TakeFront(t) ==
  /\ hand' = [hand EXCEPT ![t] = Head(deque)]
  /\ deque' = Tail(deque)
  /\ pc' = [pc EXCEPT ![t] = "check"]

(* Fault: try_pop keeps the stop token it took.                             *)
TryLockKeeps(t) ==
  /\ pc[t] = "tryLock"
  /\ \/ /\ dstopped
        /\ pc' = [pc EXCEPT ![t] = NothingPopped(t)]
        /\ UNCHANGED <<deque, hand>>
     \/ /\ ~dstopped
        /\ TakeFront(t)
  /\ UNCHANGED <<sem, dstopped, stopped, tokens, pushing, held, fate>>

(* Deque::try_pop, second half: a stop token goes back for a blocking pop.  *)
TryLock(t) ==
  /\ pc[t] = "tryLock"
  /\ \/ /\ dstopped
        /\ sem' = sem + 1
        /\ pc' = [pc EXCEPT ![t] = NothingPopped(t)]
        /\ UNCHANGED <<deque, hand>>
     \/ /\ ~dstopped
        /\ TakeFront(t)
        /\ sem' = sem
  /\ UNCHANGED <<dstopped, stopped, tokens, pushing, held, fate>>

(* Fault: an interrupted wait returns as if it had the token.               *)
PopWaitInterrupted(t) ==
  /\ pc[t] = "wait"
  /\ pc' = [pc EXCEPT ![t] = "popLock"]
  /\ UNCHANGED <<deque, sem, dstopped, stopped, tokens, pushing, hand, held, fate>>

(* Deque::pop: the blocking wait, then the critical section.                *)
PopWait(t) ==
  /\ pc[t] = "wait"
  /\ sem > 0
  /\ sem' = sem - 1
  /\ pc' = [pc EXCEPT ![t] = "popLock"]
  /\ UNCHANGED <<deque, dstopped, stopped, tokens, pushing, hand, held, fate>>

PopLock(t) ==
  /\ pc[t] = "popLock"
  /\ \/ /\ dstopped
        /\ pc' = [pc EXCEPT ![t] = "exit"]
        /\ UNCHANGED <<deque, hand>>
     \/ /\ ~dstopped
        /\ TakeFront(t)
  /\ UNCHANGED <<sem, dstopped, stopped, tokens, pushing, held, fate>>

(* worker_routine reads `stopped` once for a popped request: drop or run.   *)
CheckStopped(t) ==
  /\ pc[t] = "check"
  /\ \/ /\ stopped
        /\ hand' = [hand EXCEPT ![t] = None]
        /\ fate' = [fate EXCEPT ![hand[t]] = "dropped"]
        /\ pc' = [pc EXCEPT ![t] = "try"]
     \/ /\ ~stopped
        /\ pc' = [pc EXCEPT ![t] = "exec"]
        /\ UNCHANGED <<hand, fate>>
  /\ UNCHANGED <<deque, sem, dstopped, stopped, tokens, pushing, held>>

(* The worker finishes the requests in S, as aborted when it saw the flag.  *)
Settle(t, all, S, how) ==
  /\ held' = [held EXCEPT ![t] = all \ S]
  /\ fate' = [r \in Requests |-> IF r \in S THEN how ELSE fate[r]]
  /\ pc' = [pc EXCEPT ![t] = "try"]

(* Worker::execute takes the request; a synchronous worker completes it     *)
(* here, an asynchronous one may keep it, and complete others.              *)
Execute(t) ==
  /\ pc[t] = "exec"
  /\ hand' = [hand EXCEPT ![t] = None]
  /\ LET all == held[t] \cup {hand[t]}
     IN  \/ \E S \in SUBSET all : Settle(t, all, S, "done")
         \/ stopped /\ Settle(t, all, all, "aborted")
  /\ UNCHANGED <<deque, sem, dstopped, stopped, tokens, pushing>>

(* Worker::drain: one batch of completions, or the abort path.              *)
Drain(t) ==
  /\ pc[t] = "drain"
  /\ \/ /\ ~stopped
        /\ \E S \in SUBSET held[t] : Settle(t, held[t], S, "done")
     \/ /\ stopped
        /\ Settle(t, held[t], held[t], "aborted")
  /\ UNCHANGED <<deque, sem, dstopped, stopped, tokens, pushing, hand>>

(* Every thread has left: ~ThreadPool's join returns and the pool is gone.  *)
Joined ==
  /\ tokens = 0
  /\ \A t \in Threads : pc[t] = "exit"
  /\ UNCHANGED vars

worker_routine(t) ==
  \/ TryWait(t) \/ TryLock(t) \/ PopWait(t) \/ PopLock(t)
  \/ CheckStopped(t) \/ Execute(t) \/ Drain(t)

Next ==
  \/ \E r \in Requests : PushMessage(r) \/ PushToken(r)
  \/ StopPool \/ StopDeque \/ StopToken
  \/ \E t \in Threads : worker_routine(t)
  \/ Joined

Spec == Init /\ [][Next]_vars

(* A thread keeps running, a push or a stop under way finishes, and a       *)
(* backend eventually completes what a worker holds: a drain that could     *)
(* complete everything cannot be put off for ever.                          *)
Fairness ==
  /\ \A t \in Threads : WF_vars(worker_routine(t))
  /\ \A t \in Threads : SF_vars(Drain(t) /\ held'[t] = {})
  /\ \A r \in Requests : WF_vars(PushToken(r))
  /\ WF_vars(StopDeque) /\ WF_vars(StopToken)

FairSpec == Spec /\ Fairness

-----------------------------------------------------------------------------
(* Type correctness of the pool's state.                                    *)
TypeOK ==
  /\ deque \in Seq(Requests)
  /\ sem \in Nat /\ tokens \in Nat
  /\ dstopped \in BOOLEAN /\ stopped \in BOOLEAN
  /\ pushing \in SUBSET Requests
  /\ pc \in [Threads -> Places]
  /\ hand \in [Threads -> Requests \cup {None}]
  /\ held \in [Threads -> SUBSET Requests]
  /\ fate \in [Requests -> Fates]

(* The threads that have taken a token and not yet entered the critical     *)
(* section it admits them to.                                               *)
Admitted == {t \in Threads : pc[t] \in {"tryLock", "popLock"}}

(* While the deque is open, tokens and messages agree: every message is     *)
(* covered by a token in the semaphore, a token some thread has taken, or a *)
(* post its pusher still owes.                                              *)
TokensMatch ==
  ~dstopped => sem + Cardinality(Admitted) + Cardinality(pushing) = Len(deque)

(* Deque::pop and try_pop call front() on the deque without looking: a      *)
(* thread they admit always finds a message, whoever else is popping.       *)
NeverPopEmpty == (~dstopped /\ Admitted # {}) => deque # <<>>

(* The requests a thread is answerable for.                                 *)
Carried(t) == held[t] \cup ({hand[t]} \ {None})

(* Every request is in one place: queued once, or with one thread, and      *)
(* `fate` says "pool" for exactly those.  No request is run twice or lost   *)
(* while the pool is open.                                                  *)
OnePlace ==
  /\ \A i, j \in 1..Len(deque) : deque[i] = deque[j] => i = j
  /\ \A t, u \in Threads : t # u => Carried(t) \cap Carried(u) = {}
  /\ \A t \in Threads : hand[t] \notin held[t]
  /\ \A t \in Threads : \A i \in 1..Len(deque) : deque[i] \notin Carried(t)
  /\ \A r \in Requests : fate[r] = "pool" <=>
        (\E i \in 1..Len(deque) : deque[i] = r) \/ (\E t \in Threads : r \in Carried(t))

(* A thread leaves only with nothing in flight: whatever its worker held    *)
(* when the pool stopped was aborted (and so answered) first.               *)
ExitsIdle == \A t \in Threads : pc[t] \in {"wait", "popLock", "exit"} => held[t] = {}

(* Enough tokens are left, or still to be posted, to wake every thread that *)
(* has not exited: no thread is parked for ever.                            *)
WakesEveryone ==
  dstopped => sem + tokens + Cardinality(Admitted)
                >= Cardinality({t \in Threads : pc[t] # "exit"})

(* ~ThreadPool returns: once the pool is stopped every thread exits.        *)
StopJoins == stopped ~> \A t \in Threads : pc[t] = "exit"

(* An accepted request is completed, unless the pool is stopped first.      *)
PushedIsRun == \A r \in Requests : fate[r] = "pool" ~> (fate[r] = "done" \/ stopped)

(* What is dropped or aborted is dropped or aborted because of teardown,    *)
(* and a settled request is never touched again.                            *)
FateIsFinal ==
  [][\A r \in Requests :
        /\ fate[r] \in {"done", "aborted", "dropped"} => fate'[r] = fate[r]
        /\ fate'[r] \in {"aborted", "dropped"} /\ fate'[r] # fate[r] => stopped]_vars
=============================================================================
