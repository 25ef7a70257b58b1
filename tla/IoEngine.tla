------------------------------ MODULE IoEngine ------------------------------
(***************************************************************************)
(* posix_io::IoEngine, the submission and completion queues an             *)
(* AsyncIoWorker drives (src/cpp/posix_io): io_uring or libaio.  The       *)
(* module holds the engine's state and the calls it serves; the worker     *)
(* that makes them is AsyncIoWorker, which extends it.  Reads are issued   *)
(* in the order they were staged, what the kernel does not take stays      *)
(* staged, and a read the kernel refuses at the call is a completion like  *)
(* any other.  A descriptor number means what it refers to when the kernel *)
(* takes the read, not when the read was staged.                           *)
(***************************************************************************)
EXTENDS Naturals, Sequences, FiniteSets

CONSTANTS Engine,   \* "io_uring" or "libaio"
          Depth     \* depth(): what the ring or the context really holds

ASSUME EngineAssumption == Engine \in {"io_uring", "libaio"}
ASSUME DepthAssumption == Depth \in Nat \ {0}

VARIABLES
  staged,     \* entries prepared and not issued: [id, direct]
  kernel,     \* reads the kernel is doing: [id, direct]
  ring,       \* completions it has posted: [id, err, got]
  refused,    \* LibaioEngine::_submit_failures
  broken      \* no call on the ring or the context succeeds any more

engine == <<staged, kernel, ring, refused, broken>>

EngineInit == staged = <<>> /\ kernel = {} /\ ring = <<>> /\ refused = <<>> /\ broken = FALSE

(* A completion: an errno, or the units that were read.                     *)
Failure(id, err) == [id |-> id, err |-> err, got |-> 0]
Result(id, n) == [id |-> id, err |-> "none", got |-> n]

(* Room for one more entry: a free submission entry, or a free iocb, which  *)
(* comes back only when its completion is reaped.                           *)
Room ==
  \/ Engine = "io_uring" /\ Len(staged) < Depth
  \/ Engine = "libaio" /\ Len(staged) + Cardinality(kernel) + Len(ring) < Depth

(* stage(): no system call.                                                 *)
Stage(id, direct) == staged' = Append(staged, [id |-> id, direct |-> direct])

(* The first n staged entries leave, and the kernel resolves their          *)
(* descriptors now: direct says what each of them turns out to be.          *)
Take(n, direct) ==
  kernel' = kernel \cup {[id |-> staged[i].id, direct |-> direct[i]] : i \in 1..n}

(* flush() that issues n entries and leaves the rest staged.  io_uring      *)
(* reports a rest as deferred; libaio defers when io_submit refuses with    *)
(* backpressure or a signal.                                                *)
FlushIssues(n, direct) ==
  /\ n \in 0..Len(staged)
  /\ Take(n, direct)
  /\ staged' = SubSeq(staged, n + 1, Len(staged))
  /\ UNCHANGED <<ring, refused, broken>>

(* The reads a completion will arrive for: the refused one too.             *)
RefusedCounted(n) == n + 1

(* LibaioEngine::flush when io_submit refuses the head outright: that read  *)
(* is taken out and answered as a completion, the rest waits.               *)
FlushRefuses(n, err, direct) ==
  /\ Engine = "libaio" /\ n < Len(staged)
  /\ err = "einval" => direct[n + 1]
  /\ Take(n, direct)
  /\ refused' = Append(refused, Failure(staged[n + 1].id, err))
  /\ staged' = SubSeq(staged, n + 2, Len(staged))
  /\ UNCHANGED <<ring, broken>>

(* IoUringEngine::flush when io_uring_submit fails for good.                *)
FlushFails ==
  /\ Engine = "io_uring" /\ staged # <<>>
  /\ UNCHANGED engine

(* wait_for_completions: what was refused at submission first, otherwise    *)
(* everything the kernel has posted - or nothing, when a wait times out.    *)
Reaped == IF refused # <<>> THEN refused ELSE ring
Reap ==
  /\ ~broken
  /\ refused' = <<>>
  /\ ring' = IF refused # <<>> THEN ring ELSE <<>>
  /\ UNCHANGED <<staged, kernel, broken>>

(* io_uring_wait_cqe or io_getevents fails for good.                        *)
ReapFails == broken /\ UNCHANGED engine

(* The kernel ends a read.                                                  *)
Post(rd, completion) ==
  /\ rd \in kernel
  /\ kernel' = kernel \ {rd}
  /\ ring' = Append(ring, completion)
  /\ UNCHANGED <<staged, refused, broken>>

(* The ring or the context is lost.                                         *)
Break == ~broken /\ broken' = TRUE /\ UNCHANGED <<staged, kernel, ring, refused>>

(* What flush() promises its caller: it may add up what flush() reported,   *)
(* take one off per completion reaped, and so know how many are to come.    *)
Owed == Cardinality(kernel) + Len(ring) + Len(refused)
=============================================================================
