--------------------------- MODULE StreamerProofs ---------------------------
(***************************************************************************)
(* Proofs about Streamer, for any number of callers, pool threads, ranges  *)
(* and submissions, however the requests are cut.                          *)
(***************************************************************************)
EXTENDS Streamer, FiniteSetTheorems, SequenceTheorems, NaturalsInduction, WellFoundedInduction,
        TLAPS

Pcs == {"idle", "build", "add", "increment", "dispatch", "drain"}
Steps == {"mark", "count", "push", "post"}
Codes == {"Success", "UnknownError", "FileAccessError", "FinishedError"}
Wpcs == {"idle", "open", "read", "ended", "next", "exit"}
Cpcs == {"idle", "wait", "timedWait", "lock", "consume", "finished"}
RangeNo == 1..MaxRanges
TaskId == Nat \X Nat \X Nat \X Nat
Response == [id : Ids, range : RangeNo, ret : Codes]

RegistryType ==
  /\ nextId \in Nat \ {0} /\ shape \in [Ids -> Shapes]
  /\ live \subseteq Ids /\ remaining \in [Ids -> Nat]
QueueType ==
  /\ running \in Nat /\ responses \in Seq(Response) /\ ready \in Nat
  /\ rstopped \in BOOLEAN /\ stopPost \in BOOLEAN /\ unexpected \in BOOLEAN
RequestsType ==
  /\ left \in [Ids -> [RangeNo -> Nat]] /\ ret \in [Ids -> [RangeNo -> Codes]]
  /\ finished \subseteq TaskId
CallerType ==
  /\ plan \in [Submitters -> Seq(Shapes)] /\ pc \in [Submitters -> Pcs]
  /\ sub \in [Submitters -> Nat] /\ next \in [Submitters -> Nat \ {0}]
  /\ throws \in Nat /\ lost \in Nat
FinishingType ==
  /\ todo \in [Threads -> Seq(TaskId)] /\ code \in [Threads -> Codes] /\ step \in [Threads -> Steps]
PoolType ==
  /\ deque \in Seq(Nat \X Nat) /\ stopped \in BOOLEAN
  /\ wpc \in [Workers -> Wpcs] /\ work \in [Workers -> Nat \X Nat]
  /\ batch \in [Threads -> Nat \ {0}] /\ unfinished \in [Workers -> Nat]
  /\ offset \in [Workers -> Nat] /\ landed \subseteq TaskId
ConsumerType ==
  /\ cpc \in Cpcs /\ popped \in Seq(Response) /\ delivered \in Seq(Response) /\ done \subseteq Ids

(* The state keeps its type.                                               *)
TypeOK ==
  /\ RegistryType /\ QueueType /\ RequestsType /\ CallerType /\ FinishingType /\ PoolType
  /\ ConsumerType

Opened == live \cup done
Started(id) == id \in Opened /\ \A p \in Submitters : pc[p] = "increment" => sub[p] # id

(* An id is handed out once, belongs to one call at a time, and is         *)
(* registered by it between add and increment; a drain that is in the      *)
(* middle of a workload is at one of its batches.                          *)
CallerSane(p) ==
  /\ pc[p] # "idle" => sub[p] \in Ids /\ sub[p] < nextId /\ shape[sub[p]].ranges > 0 /\ ~rstopped
  /\ pc[p] \in {"build", "add"} => sub[p] \notin Opened
  /\ pc[p] \in {"increment", "dispatch", "drain"} => sub[p] \in Opened
  /\ \/ batch[p] = 1
     \/ /\ pc[p] = "drain" /\ next[p] \in DOMAIN shape[sub[p]].work
        /\ batch[p] \in DOMAIN shape[sub[p]].work[next[p]]
Callers ==
  /\ \A id \in Opened : id < nextId
  /\ \A p \in Submitters : CallerSane(p)
  /\ \A p, q \in Submitters : p # q /\ pc[p] # "idle" /\ pc[q] # "idle" => sub[p] # sub[q]

(* Whatever is queued, executed or finished belongs to a submission the    *)
(* responder has been told of.                                             *)
Known(t) == Started(t[1]) /\ t \in TasksOf(t[1])
Queued(x) == /\ Started(x[1]) /\ x[2] \in DOMAIN shape[x[1]].work
             /\ shape[x[1]].work[x[2]] # <<>>
Works ==
  /\ \A t \in Threads : \A i \in 1..Len(todo[t]) : Known(todo[t][i])
  /\ \A t \in Threads : step[t] # "mark" => todo[t] # <<>>
  /\ \A w \in Workers : wpc[w] \in {"idle", "open", "exit"} => todo[w] = <<>>
  /\ \A t \in finished : Known(t)
  /\ \A i \in 1..Len(deque) : Queued(deque[i])
  /\ \A w \in Workers : wpc[w] \notin {"idle", "exit"} =>
       /\ Queued(work[w]) /\ batch[w] \in DOMAIN shape[work[w][1]].work[work[w][2]]
       /\ unfinished[w] <= Len(CurTasks(w))

(* A range's counter is the number of its tasks that are still to be       *)
(* marked, and of threads that have marked one and not counted it yet.     *)
Unfinished(id, r) == {t \in TasksOf(id) : TaskRange(t) = r /\ t \notin finished}
AtStep(s, id, r) == {t \in Threads : step[t] = s /\ FirstId(t) = id /\ FirstRange(t) = r}
Built(id) == id \in Opened \/ \E p \in Submitters : pc[p] = "add" /\ sub[p] = id
Counted ==
  \A id \in Ids, r \in RangeNo :
    Built(id) => left[id][r] = Cardinality(Unfinished(id, r)) + Cardinality(AtStep("count", id, r))

(* A range is pushed once: whoever is about to push has it to itself.      *)
Answers(id, r) == {i \in 1..Len(Pushed) : Pushed[i].id = id /\ Pushed[i].range = r}
PushedOnce ==
  /\ \A t \in Threads : step[t] = "push" =>
       left[FirstId(t)][FirstRange(t)] = 0 /\ Answers(FirstId(t), FirstRange(t)) = {}
  /\ \A t, u \in Threads : step[t] = "push" /\ step[u] = "push" /\ FirstId(t) = FirstId(u)
       /\ FirstRange(t) = FirstRange(u) => t = u
  /\ \A i \in 1..Len(Pushed) :
       /\ Started(Pushed[i].id) /\ Pushed[i].range \in 1..shape[Pushed[i].id].ranges
       /\ left[Pushed[i].id][Pushed[i].range] = 0
  /\ \A i, j \in 1..Len(Pushed) :
       Pushed[i].id = Pushed[j].id /\ Pushed[i].range = Pushed[j].range => i = j

(* The responder's count.                                                  *)
Owing == ~unexpected /\ running + Len(Pushed) = Cardinality(Expected)

(* The semaphore counts the responses, but for those being handed over.    *)
Posting == {t \in Threads : step[t] = "post"}
Waking ==
  /\ ~rstopped => Len(responses) = ready + Cardinality(Posting) + (IF cpc = "lock" THEN 1 ELSE 0)
  /\ Len(popped) = (IF cpc = "consume" THEN 1 ELSE 0)

(* The registry counts the ranges that were not delivered.                 *)
Owed(id) == {r \in 1..shape[id].ranges : \A i \in 1..Len(delivered) :
               ~(delivered[i].id = id /\ delivered[i].range = r)}
Remaining ==
  /\ \A id \in live : remaining[id] = Cardinality(Owed(id)) /\ remaining[id] > 0
  /\ \A id \in done : Owed(id) = {}

(* The destructor sets the flag before it posts.                           *)
Stopping == stopPost => rstopped

(* The inductive invariant.                                                *)
Inv ==
  /\ TypeOK /\ Callers /\ Works /\ Counted /\ PushedOnce /\ Owing /\ Waking /\ Remaining /\ Stopping
-----------------------------------------------------------------------------
(* The tasks of a submission, one by one.                                  *)
LEMMA TaskIn ==
  ASSUME NEW id, NEW t
  PROVE  t \in TasksOf(id) <=>
           \E w \in DOMAIN shape[id].work : \E b \in DOMAIN shape[id].work[w] :
             \E i \in DOMAIN shape[id].work[w][b] : t = <<id, w, b, i>>
BY DEF TasksOf

(* What a sequence is.                                                     *)
LEMMA SeqFacts ==
  ASSUME NEW S, NEW s \in Seq(S)
  PROVE  /\ Len(s) \in Nat /\ DOMAIN s = 1..Len(s) /\ IsFiniteSet(DOMAIN s)
         /\ \A i \in DOMAIN s : i \in Nat \ {0} /\ s[i] \in S
<1>1. Len(s) \in Nat /\ s \in [1..Len(s) -> S] /\ DOMAIN s = 1..Len(s)
  BY LenProperties
<1>2. IsFiniteSet(DOMAIN s)
  BY <1>1, FS_Interval
<1> QED BY <1>1, <1>2

TaskShape == [range : Nat, end : Nat]
BatchShape == Seq(TaskShape) \ {<<>>}

(* A shape is made of sequences, and its tasks are of its ranges.          *)
LEMMA ShapeType ==
  ASSUME NEW sh \in Shapes
  PROVE  /\ sh.ranges \in 0..MaxRanges /\ sh.ranges \in Nat
         /\ sh.work \in Seq(Seq(BatchShape))
         /\ \A w \in DOMAIN sh.work : w \in Nat \ {0} /\ sh.work[w] \in Seq(BatchShape)
         /\ \A w \in DOMAIN sh.work : \A b \in DOMAIN sh.work[w] :
              b \in Nat \ {0} /\ sh.work[w][b] \in Seq(TaskShape) /\ sh.work[w][b] # <<>>
         /\ \A w \in DOMAIN sh.work : \A b \in DOMAIN sh.work[w] : \A i \in DOMAIN sh.work[w][b] :
              /\ i \in Nat \ {0} /\ sh.work[w][b][i].range \in 1..sh.ranges
              /\ sh.work[w][b][i].end \in Nat
<1>1. /\ sh.ranges \in 0..MaxRanges
      /\ sh.work \in Seq(Seq(BatchShape))
      /\ \A w \in DOMAIN sh.work : \A b \in DOMAIN sh.work[w] : \A i \in DOMAIN sh.work[w][b] :
           sh.work[w][b][i].range \in 1..sh.ranges
  BY DEF Shapes, BatchShape, TaskShape
<1>2. ASSUME NEW w \in DOMAIN sh.work
      PROVE  w \in Nat \ {0} /\ sh.work[w] \in Seq(BatchShape)
  BY <1>1, SeqFacts
<1>3. ASSUME NEW w \in DOMAIN sh.work, NEW b \in DOMAIN sh.work[w]
      PROVE  b \in Nat \ {0} /\ sh.work[w][b] \in Seq(TaskShape) /\ sh.work[w][b] # <<>>
  <2>1. b \in Nat \ {0} /\ sh.work[w][b] \in BatchShape
    BY <1>2, SeqFacts
  <2> QED BY <2>1 DEF BatchShape
<1>4. ASSUME NEW w \in DOMAIN sh.work, NEW b \in DOMAIN sh.work[w], NEW i \in DOMAIN sh.work[w][b]
      PROVE  i \in Nat \ {0} /\ sh.work[w][b][i].end \in Nat
  <2>1. sh.work[w][b] \in Seq(TaskShape)
    BY <1>3
  <2>2. i \in Nat \ {0} /\ sh.work[w][b][i] \in TaskShape
    BY <2>1, SeqFacts
  <2> QED BY <2>2 DEF TaskShape
<1> QED BY <1>1, <1>2, <1>3, <1>4, BoundAssumption

(* The image of a finite set is finite.                                    *)
LEMMA FiniteImage ==
  ASSUME NEW S, IsFiniteSet(S), NEW f
  PROVE  IsFiniteSet({f[x] : x \in S})
<1> DEFINE T == {f[x] : x \in S}
           g == [x \in S |-> f[x]]
<1>1. g \in Surjection(S, T)
  BY DEF Surjection
<1> QED BY <1>1, FS_Surjection

(* Shapes are finite.                                                      *)
LEMMA TasksFinite ==
  ASSUME RegistryType, NEW id \in Ids
  PROVE  IsFiniteSet(TasksOf(id))
<1> DEFINE sh == shape[id]
           OfBatch(w, b) == {<<id, w, b, i>> : i \in DOMAIN sh.work[w][b]}
           OfWork(w) == UNION {OfBatch(w, b) : b \in DOMAIN sh.work[w]}
<1>1. sh \in Shapes
  BY DEF RegistryType
<1>2. sh.work \in Seq(Seq(BatchShape))
  BY <1>1, ShapeType
<1>3. ASSUME NEW w \in DOMAIN sh.work, NEW b \in DOMAIN sh.work[w]
      PROVE  IsFiniteSet(OfBatch(w, b))
  <2>1. sh.work[w][b] \in Seq(TaskShape)
    BY <1>1, <1>3, ShapeType
  <2>2. IsFiniteSet(DOMAIN sh.work[w][b])
    BY <2>1, SeqFacts
  <2> DEFINE D == DOMAIN sh.work[w][b]
             f == [i \in D |-> <<id, w, b, i>>]
  <2>3. IsFiniteSet({f[i] : i \in D})
    <3> HIDE DEF f
    <3> QED BY <2>2, FiniteImage
  <2>4. OfBatch(w, b) = {f[i] : i \in D}
    BY Zenon
  <2> QED BY <2>3, <2>4
<1>4. ASSUME NEW w \in DOMAIN sh.work PROVE IsFiniteSet(OfWork(w))
  <2>1. sh.work[w] \in Seq(BatchShape)
    BY <1>2, SeqFacts
  <2>2. IsFiniteSet(DOMAIN sh.work[w])
    BY <2>1, SeqFacts
  <2> DEFINE D == DOMAIN sh.work[w]
             f == [b \in D |-> OfBatch(w, b)]
  <2>3. IsFiniteSet({f[b] : b \in D})
    <3> HIDE DEF f
    <3> QED BY <2>2, FiniteImage
  <2>4. {f[b] : b \in D} = {OfBatch(w, b) : b \in D}
    BY Zenon
  <2>5. \A T \in {OfBatch(w, b) : b \in D} : IsFiniteSet(T)
    BY <1>3
  <2> HIDE DEF sh, OfBatch, f, D
  <2>6. IsFiniteSet(UNION {OfBatch(w, b) : b \in D})
    BY <2>3, <2>4, <2>5, FS_UNION
  <2> USE DEF sh, OfBatch, D
  <2> QED BY <2>6
<1>5. IsFiniteSet(DOMAIN sh.work)
  BY <1>2, SeqFacts
<1> DEFINE E == DOMAIN sh.work
           g == [w \in E |-> OfWork(w)]
<1>6. TasksOf(id) = UNION {OfWork(w) : w \in E}
  BY DEF TasksOf
<1>7. IsFiniteSet({g[w] : w \in E})
  <2> HIDE DEF g
  <2> QED BY <1>5, FiniteImage
<1>8. {g[w] : w \in E} = {OfWork(w) : w \in E}
  <2> HIDE DEF OfWork
  <2> QED BY Zenon
<1>9. \A T \in {OfWork(w) : w \in E} : IsFiniteSet(T)
  BY <1>4
<1> HIDE DEF sh, OfWork, g, E
<1> QED BY <1>6, <1>7, <1>8, <1>9, FS_UNION

(* What a task is.                                                         *)
LEMMA TaskType ==
  ASSUME RegistryType, NEW id \in Ids, NEW t \in TasksOf(id)
  PROVE  /\ t \in TaskId /\ t[1] = id /\ TaskEnd(t) \in Nat
         /\ TaskRange(t) \in 1..shape[id].ranges /\ TaskRange(t) \in RangeNo
<1>0. shape[id] \in Shapes /\ MaxRanges \in Nat /\ id \in Nat
  BY BoundAssumption DEF RegistryType, Ids
<1>a. PICK w \in DOMAIN shape[id].work : \E b \in DOMAIN shape[id].work[w] :
        \E i \in DOMAIN shape[id].work[w][b] : t = <<id, w, b, i>>
  BY TaskIn
<1>b. PICK b \in DOMAIN shape[id].work[w] :
        \E i \in DOMAIN shape[id].work[w][b] : t = <<id, w, b, i>>
  BY <1>a
<1>1. PICK i \in DOMAIN shape[id].work[w][b] : t = <<id, w, b, i>>
  BY <1>b
<1>2. /\ w \in Nat /\ b \in Nat /\ i \in Nat
      /\ shape[id].work[w][b][i].range \in 1..shape[id].ranges
      /\ shape[id].work[w][b][i].end \in Nat
      /\ shape[id].ranges \in 0..MaxRanges
  BY <1>0, ShapeType
<1>3. /\ t[1] = id /\ TaskRange(t) = shape[id].work[w][b][i].range
      /\ TaskEnd(t) = shape[id].work[w][b][i].end
  BY <1>1 DEF TaskRange, TaskEnd, Tasks
<1>4. t \in TaskId
  BY <1>0, <1>1, <1>2 DEF TaskId
<1> QED BY <1>0, <1>2, <1>3, <1>4 DEF RangeNo

(* A batch is a sequence of tasks of its submission.                       *)
LEMMA BatchTasksIn ==
  ASSUME RegistryType, NEW id \in Ids, NEW w \in DOMAIN shape[id].work,
         NEW b \in DOMAIN shape[id].work[w]
  PROVE  /\ BatchTasks(id, w, b) \in Seq(TaskId) /\ Len(BatchTasks(id, w, b)) = Len(Tasks(id, w, b))
         /\ Len(BatchTasks(id, w, b)) \in Nat \ {0} /\ BatchEnd(id, w, b) \in Nat
         /\ \A i \in 1..Len(BatchTasks(id, w, b)) : BatchTasks(id, w, b)[i] \in TasksOf(id)
<1>0. shape[id] \in Shapes
  BY DEF RegistryType
<1>1. Tasks(id, w, b) \in Seq(TaskShape) /\ Tasks(id, w, b) # <<>>
  BY <1>0, ShapeType DEF Tasks
<1>2. Len(Tasks(id, w, b)) \in Nat \ {0} /\ DOMAIN Tasks(id, w, b) = 1..Len(Tasks(id, w, b))
  BY <1>1, SeqFacts, EmptySeq
<1>3. ASSUME NEW i \in 1..Len(Tasks(id, w, b)) PROVE <<id, w, b, i>> \in TasksOf(id)
  BY <1>2, TaskIn DEF Tasks
<1>4. \A i \in 1..Len(Tasks(id, w, b)) : <<id, w, b, i>> \in TaskId
  BY <1>3, TaskType
<1>5. BatchTasks(id, w, b) = [i \in 1..Len(Tasks(id, w, b)) |-> <<id, w, b, i>>]
  BY <1>2 DEF BatchTasks
<1>6. BatchTasks(id, w, b) \in Seq(TaskId) /\ Len(BatchTasks(id, w, b)) = Len(Tasks(id, w, b))
  BY <1>2, <1>4, <1>5
<1>7. Tasks(id, w, b)[Len(Tasks(id, w, b))] \in TaskShape
  BY <1>1, <1>2, SeqFacts
<1>8. BatchEnd(id, w, b) \in Nat
  BY <1>7 DEF BatchEnd, TaskShape
<1> QED BY <1>2, <1>3, <1>5, <1>6, <1>8

(* What has been pushed, in its three parts.                               *)
LEMMA PushedParts ==
  ASSUME QueueType, ConsumerType
  PROVE  /\ Pushed \in Seq(Response) /\ Len(Pushed) = Len(delivered) + Len(popped) + Len(responses)
         /\ Len(delivered) \in Nat /\ Len(popped) \in Nat /\ Len(responses) \in Nat
         /\ \A i \in 1..Len(Pushed) : Pushed[i] \in Response /\ Pushed[i].id \in Ids
              /\ Pushed[i].range \in RangeNo /\ Pushed[i].ret \in Codes
         /\ \A i \in 1..Len(delivered) : Pushed[i] = delivered[i]
         /\ \A i \in 1..Len(popped) : Pushed[Len(delivered) + i] = popped[i]
         /\ \A i \in 1..Len(responses) : Pushed[Len(delivered) + Len(popped) + i] = responses[i]
<1> DEFINE two == delivered \o popped
<1>1. /\ delivered \in Seq(Response) /\ popped \in Seq(Response) /\ responses \in Seq(Response)
      /\ Len(delivered) \in Nat /\ Len(popped) \in Nat /\ Len(responses) \in Nat
  BY DEF QueueType, ConsumerType
<1>2. /\ two \in Seq(Response) /\ Len(two) = Len(delivered) + Len(popped)
      /\ \A i \in 1..Len(two) :
           two[i] = IF i <= Len(delivered) THEN delivered[i] ELSE popped[i - Len(delivered)]
  BY <1>1, ConcatProperties
<1>3. Pushed = two \o responses
  BY DEF Pushed
<1> HIDE DEF two
<1>4. /\ Pushed \in Seq(Response) /\ Len(Pushed) = Len(two) + Len(responses)
      /\ \A i \in 1..Len(Pushed) :
           Pushed[i] = IF i <= Len(two) THEN two[i] ELSE responses[i - Len(two)]
  <2>1. /\ two \o responses \in Seq(Response) /\ Len(two \o responses) = Len(two) + Len(responses)
        /\ \A i \in 1..Len(two) + Len(responses) :
             (two \o responses)[i] = IF i <= Len(two) THEN two[i] ELSE responses[i - Len(two)]
    <3>1. two \in Seq(Response) /\ responses \in Seq(Response)
      BY <1>1, <1>2
    <3> QED BY <3>1, ConcatProperties
  <2> QED BY <2>1, <1>3
<1>5. \A i \in 1..Len(Pushed) : Pushed[i] \in Response
  BY <1>4, ElementOfSeq
<1>6. \A i \in 1..Len(Pushed) : Pushed[i].id \in Ids
              /\ Pushed[i].range \in RangeNo /\ Pushed[i].ret \in Codes
  BY <1>5 DEF Response
<1>7. \A i \in 1..Len(delivered) : Pushed[i] = delivered[i]
  BY <1>1, <1>2, <1>4
<1>8. \A i \in 1..Len(popped) : Pushed[Len(delivered) + i] = popped[i]
  <2> SUFFICES ASSUME NEW i \in 1..Len(popped) PROVE Pushed[Len(delivered) + i] = popped[i]
    OBVIOUS
  <2>1. Len(delivered) + i \in 1..Len(two) /\ (Len(delivered) + i) - Len(delivered) = i
        /\ ~(Len(delivered) + i <= Len(delivered))
    BY <1>1, <1>2
  <2> QED BY <1>1, <1>2, <1>4, <2>1
<1>9. \A i \in 1..Len(responses) : Pushed[Len(delivered) + Len(popped) + i] = responses[i]
  <2> SUFFICES ASSUME NEW i \in 1..Len(responses) PROVE Pushed[Len(two) + i] = responses[i]
    BY <1>2
  <2>1. Len(two) + i \in 1..Len(Pushed) /\ (Len(two) + i) - Len(two) = i /\ ~(Len(two) + i <= Len(two))
    BY <1>1, <1>2, <1>4
  <2> QED BY <1>1, <1>2, <1>4, <2>1
<1> QED BY <1>1, <1>2, <1>4, <1>5, <1>6, <1>7, <1>8, <1>9

(* The response the consumer holds is owed by a live submission.           *)
LEMMA PoppedIsOwed ==
  ASSUME TypeOK, PushedOnce, Waking, Remaining, cpc = "consume"
  PROVE  LET id == popped[1].id
             r == popped[1].range
         IN  /\ id \in Ids /\ r \in RangeNo /\ popped[1] \in Response
             /\ Started(id) /\ id \in live /\ id \notin done /\ r \in Owed(id)
             /\ remaining[id] = Cardinality(Owed(id)) /\ remaining[id] > 0
             /\ r \in 1..shape[id].ranges
<1> DEFINE id == popped[1].id
           r == popped[1].range
           n == Len(delivered) + 1
<1>0. QueueType /\ ConsumerType
  BY DEF TypeOK
<1>1. Len(popped) = 1
  BY DEF Waking
<1>2. n \in 1..Len(Pushed) /\ Pushed[n] = popped[1] /\ Len(delivered) \in Nat
  BY <1>0, <1>1, PushedParts
<1>3. /\ id \in Ids /\ r \in RangeNo /\ popped[1] \in Response /\ Started(id)
      /\ r \in 1..shape[id].ranges
  BY <1>0, <1>2, PushedParts DEF PushedOnce
<1>4. ASSUME NEW i \in 1..Len(delivered), delivered[i].id = id, delivered[i].range = r PROVE FALSE
  <2>1. i \in 1..Len(Pushed) /\ Pushed[i] = delivered[i] /\ i # n
    BY <1>0, <1>2, PushedParts
  <2> QED BY <1>2, <1>4, <2>1 DEF PushedOnce
<1>5. r \in Owed(id)
  BY <1>3, <1>4 DEF Owed
<1>6. id \in live /\ id \notin done
  BY <1>3, <1>5 DEF Started, Opened, Remaining
<1> QED BY <1>3, <1>5, <1>6 DEF Remaining
-----------------------------------------------------------------------------
(* Which steps touch what.                                                 *)

(* A pool thread leaves the registry, the responder, the requests, the     *)
(* callers and the consumer alone.                                         *)
LEMMA ExecuteFrame ==
  ASSUME NEW w \in Workers, execute(w)
  PROVE  UNCHANGED <<registry, queue, requests, caller, consumer>>
<1>1. CASE PopWorkload(w) \/ NextBatch(w) \/ ExitWorker(w)
  BY <1>1 DEF PopWorkload, NextBatch, ExitWorker
<1>2. CASE OpenFile(w) \/ EndBatch(w)
  BY <1>2 DEF OpenFile, EndBatch
<1>3. CASE ReadBlock(w) \/ EndRead(w)
  BY <1>3 DEF ReadBlock, EndRead
<1> QED BY <1>1, <1>2, <1>3 DEF execute

(* A thread that finishes tasks leaves the registry, the callers, the pool *)
(* and the consumer alone.                                                 *)
LEMMA FinishFrame ==
  ASSUME NEW t \in Threads, Finish(t)
  PROVE  UNCHANGED <<registry, caller, pool, consumer>>
BY DEF Finish, MarkTask, CountTask, Push, Post

(* The consumer leaves the requests, the callers, the finishing threads    *)
(* and the pool alone; so does a destructor, but for the pool's queue.     *)
LEMMA ResponseFrame ==
  ASSUME response \/ StopResponder \/ StopPost
  PROVE  /\ UNCHANGED <<requests, caller, finishing, pool>>
         /\ nextId' = nextId /\ shape' = shape
BY DEF response, Call, Wait, TimeOut, Pop, Consume, StopResponder, StopPost, registry, consumer

(* The consumer closes no submission but the one it reports done.          *)
LEMMA ConsumeOpened ==
  ASSUME TypeOK, PushedOnce, Waking, Remaining, Consume
  PROVE  Opened' = Opened
<1>1. cpc = "consume"
  BY DEF Consume
<1>2. \/ live' = live \ {popped[1].id} /\ done' = done \cup {popped[1].id}
      \/ live' = live /\ done' = done
  BY DEF Consume
<1> QED BY <1>1, <1>2, PoppedIsOwed DEF Opened

(* A submission once started stays started and keeps its shape; increment  *)
(* is what starts it, and build what gives it its counters.                *)
LEMMA StableWorld ==
  ASSUME Inv, Next \/ UNCHANGED vars, NEW id \in Ids
  PROVE  /\ Opened \subseteq Opened'
         /\ id \in Opened => shape'[id] = shape[id]
         /\ Started(id) => Started(id)'
         /\ Started(id)' => Started(id) \/ \E p \in Submitters : Increment(p) /\ sub[p] = id
         /\ Built(id)' => \/ Built(id) /\ shape'[id] = shape[id]
                          \/ \E p \in Submitters : Build(p) /\ sub[p] = id
<1>0. TypeOK /\ Callers /\ PushedOnce /\ Waking /\ Remaining
  BY DEF Inv
<1>a. /\ pc \in [Submitters -> Pcs] /\ sub \in [Submitters -> Nat] /\ shape \in [Ids -> Shapes]
      /\ nextId \in Nat
  BY <1>0 DEF TypeOK, CallerType, RegistryType
<1>1. CASE UNCHANGED <<shape, pc, sub>> /\ Opened' = Opened
  BY <1>1 DEF Started, Built
<1>2. CASE \E p \in Submitters : async_request(p)
  <2>1. PICK p \in Submitters : async_request(p)
    BY <1>2
  <2>2. CASE Generate(p)
    <3>1. /\ pc[p] = "idle" /\ shape' = [shape EXCEPT ![nextId] = Head(plan[p])]
          /\ pc' = [pc EXCEPT ![p] = IF Head(plan[p]).ranges = 0 THEN "idle" ELSE "build"]
          /\ sub' = [sub EXCEPT ![p] = nextId] /\ Opened' = Opened
      BY <2>2 DEF Generate, Opened, consumer
    <3>2. nextId \notin Opened /\ \A q \in Submitters : pc[q] = "add" => sub[q] # nextId
      BY <1>0, <1>a DEF Callers, CallerSane
    <3>3. ~Built(nextId) /\ ~Started(nextId)
      BY <3>2 DEF Built, Started
    <3>4. /\ \A q \in Submitters : pc'[q] = "add" <=> pc[q] = "add"
          /\ \A q \in Submitters : pc'[q] = "increment" <=> pc[q] = "increment"
          /\ \A q \in Submitters : pc[q] \in {"add", "increment"} => sub'[q] = sub[q]
      BY <1>a, <3>1
    <3>5. (Started(id)' <=> Started(id)) /\ (Built(id)' <=> Built(id))
      BY <3>1, <3>4 DEF Started, Built
    <3>6. id # nextId => shape'[id] = shape[id]
      BY <3>1, <1>a
    <3> QED BY <3>1, <3>2, <3>3, <3>5, <3>6
  <2>3. CASE Build(p)
    <3>1. pc' = [pc EXCEPT ![p] = "add"] /\ UNCHANGED <<sub, shape, live, done>> /\ pc[p] = "build"
      BY <2>3 DEF Build, registry, consumer
    <3>2. /\ \A q \in Submitters : pc'[q] = "add" <=> pc[q] = "add" \/ q = p
          /\ \A q \in Submitters : pc'[q] = "increment" <=> pc[q] = "increment"
      BY <1>a, <3>1
    <3> QED BY <2>3, <3>1, <3>2 DEF Started, Built, Opened
  <2>4. CASE Add(p)
    <3>1. /\ pc' = [pc EXCEPT ![p] = "increment"] /\ UNCHANGED <<sub, shape, done>> /\ pc[p] = "add"
          /\ live' = live \cup {sub[p]}
      BY <2>4 DEF Add, consumer
    <3>2. /\ \A q \in Submitters : pc'[q] = "add" <=> pc[q] = "add" /\ q # p
          /\ \A q \in Submitters : pc'[q] = "increment" <=> pc[q] = "increment" \/ q = p
      BY <1>a, <3>1
    <3>3. sub[p] \notin Opened
      BY <1>0, <3>1 DEF Callers, CallerSane
    <3>4. Started(id)' <=> Started(id)
      BY <3>1, <3>2, <3>3 DEF Started, Opened
    <3>5. Built(id)' => Built(id)
      BY <3>1, <3>2 DEF Built, Opened
    <3> QED BY <3>1, <3>4, <3>5 DEF Opened
  <2>5. CASE Increment(p)
    <3>1. pc' = [pc EXCEPT ![p] = "dispatch"] /\ UNCHANGED <<sub, shape, live, done>> /\ pc[p] = "increment"
      BY <2>5 DEF Increment, registry, consumer
    <3>2. /\ \A q \in Submitters : pc'[q] = "add" <=> pc[q] = "add"
          /\ \A q \in Submitters : pc'[q] = "increment" <=> pc[q] = "increment" /\ q # p
      BY <1>a, <3>1
    <3> QED BY <2>5, <3>1, <3>2 DEF Started, Built, Opened
  <2>6. CASE BuildFails(p) \/ DispatchThrows(p) \/ Return(p)
    <3>1. /\ pc' \in {[pc EXCEPT ![p] = "idle"], [pc EXCEPT ![p] = "drain"]}
          /\ UNCHANGED <<sub, shape, live, done>>
          /\ pc[p] \notin {"increment", "add"}
      BY <2>6 DEF BuildFails, DispatchThrows, Return, registry, consumer
    <3>2. /\ \A q \in Submitters : pc'[q] = "add" <=> pc[q] = "add"
          /\ \A q \in Submitters : pc'[q] = "increment" <=> pc[q] = "increment"
      BY <1>a, <3>1
    <3> QED BY <3>1, <3>2 DEF Started, Built, Opened
  <2>7. CASE Dispatch(p) \/ DrainUndispatched(p) \/ DrainLoses(p)
    <3>1. UNCHANGED <<shape, pc, sub>> /\ Opened' = Opened
      BY <2>7 DEF Dispatch, DrainUndispatched, DrainLoses, registry, consumer, Opened
    <3> QED BY <1>1, <3>1
  <2> QED BY <2>1, <2>2, <2>3, <2>4, <2>5, <2>6, <2>7 DEF async_request
<1>3. CASE \E t \in Threads : Finish(t)
  BY <1>1, <1>3, FinishFrame DEF registry, caller, consumer, Opened
<1>4. CASE \E w \in Workers : execute(w)
  BY <1>1, <1>4, ExecuteFrame DEF registry, caller, consumer, Opened
<1>5. CASE response \/ StopResponder \/ StopPost
  <2>1. UNCHANGED <<shape, pc, sub>>
    BY <1>5, ResponseFrame DEF caller
  <2>2. Opened' = Opened
    <3>1. CASE Consume
      BY <1>0, <3>1, ConsumeOpened
    <3>2. CASE ~Consume
      BY <1>5, <3>2 DEF Opened, response, Call, Wait, TimeOut, Pop, StopResponder, StopPost,
         consumer, registry
    <3> QED BY <3>1, <3>2
  <2> QED BY <1>1, <2>1, <2>2
<1>6. CASE StopPools \/ Destroyed \/ UNCHANGED vars
  BY <1>1, <1>6 DEF StopPools, Destroyed, vars, registry, caller, consumer, Opened
<1> QED BY <1>2, <1>3, <1>4, <1>5, <1>6 DEF Next
-----------------------------------------------------------------------------
(* The task a finishing thread is at.                                      *)
LEMMA FirstFacts ==
  ASSUME TypeOK, Works, NEW t \in Threads, todo[t] # <<>>
  PROVE  /\ First(t) = todo[t][1] /\ First(t) \in TaskId /\ First(t) \in TasksOf(FirstId(t))
         /\ FirstId(t) \in Ids /\ Started(FirstId(t))
         /\ FirstRange(t) \in 1..shape[FirstId(t)].ranges /\ FirstRange(t) \in RangeNo
         /\ Len(todo[t]) \in Nat \ {0}
         /\ Tail(todo[t]) \in Seq(TaskId) /\ Len(Tail(todo[t])) = Len(todo[t]) - 1
         /\ \A i \in 1..Len(Tail(todo[t])) : i + 1 \in 1..Len(todo[t]) /\ Tail(todo[t])[i] = todo[t][i + 1]
<1>1. todo[t] \in Seq(TaskId) /\ RegistryType /\ ConsumerType
  BY DEF TypeOK, FinishingType
<1>2. /\ First(t) = todo[t][1] /\ First(t) \in TaskId /\ Len(todo[t]) \in Nat \ {0}
  BY <1>1, HeadTailProperties, EmptySeq DEF First
<1>3. /\ Tail(todo[t]) \in Seq(TaskId) /\ Len(Tail(todo[t])) = Len(todo[t]) - 1
      /\ \A i \in 1..Len(Tail(todo[t])) : Tail(todo[t])[i] = todo[t][i + 1]
  BY <1>1, HeadTailProperties
<1>4. \A i \in 1..Len(Tail(todo[t])) : i + 1 \in 1..Len(todo[t])
  BY <1>2, <1>3
<1>5. Known(First(t))
  BY <1>2 DEF Works
<1>6. Started(FirstId(t)) /\ First(t) \in TasksOf(FirstId(t))
  BY <1>5 DEF Known, FirstId
<1>7. FirstId(t) \in Ids
  BY <1>1, <1>6 DEF Started, Opened, RegistryType, ConsumerType
<1>8. FirstRange(t) \in 1..shape[FirstId(t)].ranges /\ FirstRange(t) \in RangeNo
  BY <1>1, <1>6, <1>7, TaskType DEF FirstRange
<1> QED BY <1>2, <1>3, <1>4, <1>6, <1>7, <1>8

(* The tasks of a range that are not finished, and the threads at a step   *)
(* of finishing one, are finitely many.                                    *)
LEMMA CountsFinite ==
  ASSUME TypeOK, NEW id \in Ids, NEW r, NEW s
  PROVE  /\ IsFiniteSet(Unfinished(id, r)) /\ Cardinality(Unfinished(id, r)) \in Nat
         /\ IsFiniteSet(AtStep(s, id, r)) /\ Cardinality(AtStep(s, id, r)) \in Nat
         /\ IsFiniteSet(Threads)
<1>1. IsFiniteSet(TasksOf(id))
  BY TasksFinite DEF TypeOK
<1>2. IsFiniteSet(Unfinished(id, r))
  BY <1>1, FS_Subset DEF Unfinished
<1>3. IsFiniteSet(Threads)
  BY ThreadAssumption, FS_Union DEF Threads
<1>4. IsFiniteSet(AtStep(s, id, r))
  BY <1>3, FS_Subset DEF AtStep
<1> QED BY <1>2, <1>3, <1>4, FS_CardinalityType

(* A thread that counts a task finds a counter that is not zero.           *)
LEMMA CountPositive ==
  ASSUME TypeOK, Works, Counted, NEW t \in Threads, step[t] = "count"
  PROVE  left[FirstId(t)][FirstRange(t)] > 0 /\ left[FirstId(t)][FirstRange(t)] \in Nat
<1> DEFINE id == FirstId(t)
           r == FirstRange(t)
<1>1. todo[t] # <<>>
  BY DEF Works
<1>2. id \in Ids /\ r \in RangeNo /\ Started(id)
  BY <1>1, FirstFacts
<1>3. left[id][r] = Cardinality(Unfinished(id, r)) + Cardinality(AtStep("count", id, r))
  BY <1>2 DEF Counted, Built, Started
<1>4. t \in AtStep("count", id, r)
  BY DEF AtStep
<1> HIDE DEF id, r
<1>5. /\ IsFiniteSet(AtStep("count", id, r)) /\ Cardinality(AtStep("count", id, r)) \in Nat
      /\ Cardinality(Unfinished(id, r)) \in Nat
  BY <1>2, CountsFinite
<1>6. Cardinality(AtStep("count", id, r)) # 0
  BY <1>4, <1>5, FS_EmptySet
<1> QED BY <1>3, <1>5, <1>6 DEF id, r

(* The batch a pool thread is at.                                          *)
LEMMA CurFacts ==
  ASSUME TypeOK, Works, NEW w \in Workers, wpc[w] \notin {"idle", "exit"}
  PROVE  /\ CurId(w) \in Ids /\ Started(CurId(w))
         /\ work[w][2] \in DOMAIN shape[CurId(w)].work
         /\ batch[w] \in DOMAIN shape[CurId(w)].work[work[w][2]]
         /\ CurTasks(w) \in Seq(TaskId) /\ Len(CurTasks(w)) \in Nat \ {0}
         /\ Len(CurTasks(w)) = Len(Tasks(CurId(w), work[w][2], batch[w]))
         /\ DOMAIN CurTasks(w) = 1..Len(CurTasks(w))
         /\ \A i \in 1..Len(CurTasks(w)) : /\ CurTasks(w)[i] = <<CurId(w), work[w][2], batch[w], i>>
                                           /\ CurTasks(w)[i] \in TasksOf(CurId(w))
                                           /\ CurTasks(w)[i] \in TaskId /\ Known(CurTasks(w)[i])
         /\ CurEnd(w) \in Nat
<1>0. RegistryType /\ ConsumerType /\ Queued(work[w])
      /\ batch[w] \in DOMAIN shape[work[w][1]].work[work[w][2]]
  BY DEF TypeOK, Works
<1>1. Started(CurId(w)) /\ work[w][2] \in DOMAIN shape[CurId(w)].work
      /\ batch[w] \in DOMAIN shape[CurId(w)].work[work[w][2]]
  BY <1>0 DEF Queued, CurId
<1>2. CurId(w) \in Ids
  BY <1>0, <1>1 DEF Started, Opened, RegistryType, ConsumerType
<1>3. /\ CurTasks(w) \in Seq(TaskId) /\ Len(CurTasks(w)) \in Nat \ {0}
      /\ Len(CurTasks(w)) = Len(Tasks(CurId(w), work[w][2], batch[w]))
      /\ \A i \in 1..Len(CurTasks(w)) : CurTasks(w)[i] \in TasksOf(CurId(w))
      /\ CurEnd(w) \in Nat
  BY <1>0, <1>1, <1>2, BatchTasksIn DEF CurTasks, CurEnd
<1>4. DOMAIN CurTasks(w) = 1..Len(CurTasks(w))
      /\ \A i \in 1..Len(CurTasks(w)) : CurTasks(w)[i] \in TaskId
  BY <1>3, SeqFacts
<1>5. \A i \in 1..Len(CurTasks(w)) : CurTasks(w)[i] = <<CurId(w), work[w][2], batch[w], i>>
  BY <1>4 DEF CurTasks, BatchTasks
<1>6. ASSUME NEW i \in 1..Len(CurTasks(w)) PROVE Known(CurTasks(w)[i])
  <2>1. CurTasks(w)[i][1] = CurId(w)
    BY <1>5
  <2> QED BY <1>1, <1>3, <2>1 DEF Known
<1> QED BY <1>1, <1>2, <1>3, <1>4, <1>5, <1>6

(* finished_until stops inside the batch.                                  *)
LEMMA ReachedFacts ==
  ASSUME TypeOK, Works, NEW w \in Workers, wpc[w] \notin {"idle", "exit"}, NEW upto
  PROVE  Reached(w, upto) \in 0..Len(CurTasks(w)) /\ Reached(w, upto) \in Nat
<1> DEFINE n == Len(CurTasks(w))
           R == {i \in DOMAIN CurTasks(w) : \A j \in 1..i : TaskEnd(CurTasks(w)[j]) <= upto}
<1>1. n \in Nat /\ DOMAIN CurTasks(w) = 1..n
  BY CurFacts
<1> HIDE DEF n
<1>2. IsFiniteSet(1..n) /\ Cardinality(1..n) = n
  BY <1>1, FS_Interval
<1>3. R \in SUBSET (1..n)
  BY <1>1
<1> HIDE DEF R
<1>4. IsFiniteSet(R) /\ Cardinality(R) <= n
  BY <1>2, <1>3, FS_Subset
<1>5. Cardinality(R) \in Nat
  BY <1>4, FS_CardinalityType
<1>6. Reached(w, upto) = Cardinality(R)
  BY DEF Reached, R
<1> QED BY <1>1, <1>4, <1>5, <1>6 DEF n

(* The batch a draining caller is at.                                      *)
LEMMA DrainFacts ==
  ASSUME TypeOK, Callers, NEW p \in Submitters, pc[p] \in {"dispatch", "drain"},
         next[p] <= Len(shape[sub[p]].work)
  PROVE  LET batches == shape[sub[p]].work[next[p]]
         IN  /\ sub[p] \in Ids /\ sub[p] \in Opened /\ next[p] \in DOMAIN shape[sub[p]].work
             /\ Len(batches) \in Nat /\ DOMAIN batches = 1..Len(batches)
             /\ batches # <<>> => /\ batch[p] \in DOMAIN batches
                                  /\ BatchTasks(sub[p], next[p], batch[p]) \in Seq(TaskId)
                                  /\ \A i \in 1..Len(BatchTasks(sub[p], next[p], batch[p])) :
                                       BatchTasks(sub[p], next[p], batch[p])[i] \in TasksOf(sub[p])
<1> DEFINE batches == shape[sub[p]].work[next[p]]
<1>0. RegistryType /\ CallerType
  BY DEF TypeOK
<1>1. sub[p] \in Ids /\ sub[p] \in Opened
  BY DEF Callers, CallerSane
<1>2. shape[sub[p]] \in Shapes
  BY <1>0, <1>1 DEF RegistryType
<1>3. shape[sub[p]].work \in Seq(Seq(BatchShape))
  BY <1>2, ShapeType
<1>4. Len(shape[sub[p]].work) \in Nat /\ DOMAIN shape[sub[p]].work = 1..Len(shape[sub[p]].work)
  BY <1>3, SeqFacts
<1>5. next[p] \in DOMAIN shape[sub[p]].work
  BY <1>0, <1>4 DEF CallerType
<1>6. batches \in Seq(BatchShape)
  BY <1>2, <1>5, ShapeType
<1>7. Len(batches) \in Nat /\ DOMAIN batches = 1..Len(batches) /\ (batches # <<>> => Len(batches) > 0)
  <2> HIDE DEF batches
  <2> QED BY <1>6, SeqFacts, EmptySeq
<1>8. ASSUME batches # <<>> PROVE batch[p] \in DOMAIN batches
  <2>1. \/ batch[p] = 1
        \/ batch[p] \in DOMAIN batches
    BY DEF Callers, CallerSane
  <2> QED BY <1>7, <1>8, <2>1
<1> QED BY <1>0, <1>1, <1>5, <1>7, <1>8, BatchTasksIn

(* The counters build stores.                                              *)
LEMMA TaskCountType ==
  ASSUME RegistryType, NEW id \in Ids, NEW r
  PROVE  TaskCount(id, r) \in Nat
<1>1. IsFiniteSet(TasksOf(id))
  BY TasksFinite
<1>2. IsFiniteSet({t \in TasksOf(id) : TaskRange(t) = r})
  BY <1>1, FS_Subset
<1> QED BY <1>2, FS_CardinalityType DEF TaskCount

(* async_request keeps the types.                                          *)
LEMMA TypeCaller ==
  ASSUME Inv, NEW p \in Submitters, async_request(p)
  PROVE  TypeOK'
<1>0. TypeOK /\ Callers
  BY DEF Inv
<1>1. /\ RegistryType /\ QueueType /\ RequestsType /\ CallerType /\ FinishingType /\ PoolType
      /\ ConsumerType
  BY <1>0 DEF TypeOK
<1>2. CASE Generate(p)
  <2>1. UNCHANGED <<queue, requests, finishing, pool, consumer, live, remaining, next, throws, lost>>
    BY <1>2 DEF Generate
  <2>2. plan[p] \in Seq(Shapes) /\ plan[p] # <<>>
    BY <1>1, <1>2 DEF Generate, CallerType
  <2>3. Head(plan[p]) \in Shapes /\ Tail(plan[p]) \in Seq(Shapes)
    BY <2>2, HeadTailProperties
  <2>4. RegistryType'
    BY <1>1, <1>2, <2>1, <2>3 DEF Generate, RegistryType, Ids
  <2>5. /\ plan' = [plan EXCEPT ![p] = Tail(plan[p])] /\ sub' = [sub EXCEPT ![p] = nextId]
        /\ pc' \in {[pc EXCEPT ![p] = "idle"], [pc EXCEPT ![p] = "build"]}
    BY <1>2 DEF Generate
  <2>6. CallerType'
    <3>1. plan' \in [Submitters -> Seq(Shapes)]
      BY <1>1, <2>3, <2>5 DEF CallerType
    <3>2. pc' \in [Submitters -> Pcs] /\ sub' \in [Submitters -> Nat]
      BY <1>1, <2>5 DEF CallerType, RegistryType, Pcs
    <3> QED BY <1>1, <2>1, <3>1, <3>2 DEF CallerType
  <2> QED BY <1>1, <2>1, <2>4, <2>6 DEF TypeOK, QueueType, RequestsType, FinishingType, PoolType,
             ConsumerType, queue, requests, finishing, pool, consumer
<1>3. CASE Build(p)
  <2>1. UNCHANGED <<registry, queue, finishing, pool, consumer, ret, finished, plan, sub, next, throws, lost>>
        /\ pc[p] = "build" /\ pc' = [pc EXCEPT ![p] = "add"]
    BY <1>3 DEF Build
  <2>2. sub[p] \in Ids
    BY <1>0, <2>1 DEF Callers, CallerSane
  <2> DEFINE c == [r \in 1..MaxRanges |-> TaskCount(sub[p], r)]
  <2>3. c \in [RangeNo -> Nat]
    BY <1>1, <2>2, TaskCountType DEF RangeNo
  <2>4. left' = [left EXCEPT ![sub[p]] = c]
    BY <1>3 DEF Build
  <2> HIDE DEF c
  <2>5. RequestsType'
    BY <1>1, <2>1, <2>3, <2>4 DEF RequestsType
  <2>6. CallerType'
    BY <1>1, <2>1 DEF CallerType, Pcs
  <2> QED BY <1>1, <2>1, <2>5, <2>6 DEF TypeOK, RegistryType, QueueType, FinishingType, PoolType,
             ConsumerType, registry, queue, finishing, pool, consumer
<1>4. CASE BuildFails(p) \/ DispatchThrows(p) \/ Return(p)
  <2>1. /\ UNCHANGED <<registry, queue, requests, finishing, pool, consumer, plan, sub, next, lost>>
        /\ pc' \in {[pc EXCEPT ![p] = "idle"], [pc EXCEPT ![p] = "drain"]}
        /\ throws' \in {throws, throws + 1}
    BY <1>4 DEF BuildFails, DispatchThrows, Return
  <2>2. CallerType'
    <3>1. pc' \in [Submitters -> Pcs]
      BY <1>1, <2>1 DEF CallerType, Pcs
    <3> QED BY <1>1, <2>1, <3>1 DEF CallerType
  <2> QED BY <1>1, <2>1, <2>2 DEF TypeOK, RegistryType, QueueType, RequestsType, FinishingType, PoolType,
             ConsumerType, registry, queue, requests, finishing, pool, consumer
<1>5. CASE Add(p)
  <2>1. /\ UNCHANGED <<queue, requests, finishing, pool, consumer, nextId, shape, plan, sub, next, throws, lost>>
        /\ pc[p] = "add" /\ pc' = [pc EXCEPT ![p] = "increment"]
        /\ live' = live \cup {sub[p]} /\ remaining' = [remaining EXCEPT ![sub[p]] = shape[sub[p]].ranges]
    BY <1>5 DEF Add
  <2>2. sub[p] \in Ids
    BY <1>0, <2>1 DEF Callers, CallerSane
  <2>3. shape[sub[p]].ranges \in Nat
    BY <1>1, <2>2, ShapeType DEF RegistryType
  <2>4. RegistryType'
    BY <1>1, <2>1, <2>2, <2>3 DEF RegistryType
  <2>5. CallerType'
    BY <1>1, <2>1 DEF CallerType, Pcs
  <2> QED BY <1>1, <2>1, <2>4, <2>5 DEF TypeOK, QueueType, RequestsType, FinishingType, PoolType,
             ConsumerType, queue, requests, finishing, pool, consumer
<1>6. CASE Increment(p)
  <2>1. /\ UNCHANGED <<responses, ready, rstopped, stopPost, unexpected, plan, sub, throws, lost,
                       registry, requests, finishing, pool, consumer>>
        /\ pc[p] = "increment" /\ pc' = [pc EXCEPT ![p] = "dispatch"]
        /\ running' = running + shape[sub[p]].ranges /\ next' = [next EXCEPT ![p] = 1]
    BY <1>6 DEF Increment
  <2>2. sub[p] \in Ids
    BY <1>0, <2>1 DEF Callers, CallerSane
  <2>3. shape[sub[p]].ranges \in Nat
    BY <1>1, <2>2, ShapeType DEF RegistryType
  <2>4. QueueType'
    BY <1>1, <2>1, <2>3 DEF QueueType
  <2>5. CallerType'
    BY <1>1, <2>1 DEF CallerType, Pcs
  <2> QED BY <1>1, <2>1, <2>4, <2>5 DEF TypeOK, RegistryType, RequestsType, FinishingType, PoolType,
             ConsumerType, registry, requests, finishing, pool, consumer
<1>7. CASE Dispatch(p)
  <2>1. /\ UNCHANGED <<plan, pc, sub, throws, lost, stopped, wpc, work, batch, unfinished, offset, landed,
                       registry, queue, requests, finishing, consumer>>
        /\ deque' \in {deque, Append(deque, <<sub[p], next[p]>>)}
        /\ next' = [next EXCEPT ![p] = next[p] + 1]
    BY <1>7 DEF Dispatch
  <2>2. <<sub[p], next[p]>> \in Nat \X Nat
    BY <1>1 DEF CallerType
  <2>3. PoolType'
    <3>1. Append(deque, <<sub[p], next[p]>>) \in Seq(Nat \X Nat)
      BY <1>1, <2>2, AppendProperties DEF PoolType
    <3>2. deque' \in Seq(Nat \X Nat)
      BY <1>1, <2>1, <3>1 DEF PoolType
    <3> QED BY <1>1, <2>1, <3>2 DEF PoolType
  <2>4. CallerType'
    BY <1>1, <2>1 DEF CallerType
  <2> QED BY <1>1, <2>1, <2>3, <2>4 DEF TypeOK, RegistryType, QueueType, RequestsType, FinishingType,
             ConsumerType, registry, queue, requests, finishing, consumer
<1>8. CASE DrainUndispatched(p)
  <2>1. /\ UNCHANGED <<step, plan, pc, sub, throws, lost, deque, stopped, wpc, work, unfinished,
                       offset, landed, registry, queue, requests, consumer>>
        /\ pc[p] = "drain" /\ next[p] <= Len(shape[sub[p]].work)
        /\ todo' = [todo EXCEPT ![p] = IF shape[sub[p]].work[next[p]] = <<>> THEN <<>>
                                       ELSE BatchTasks(sub[p], next[p], batch[p])]
        /\ code' = [code EXCEPT ![p] = "UnknownError"]
        /\ next' \in {[next EXCEPT ![p] = next[p] + 1], next}
        /\ batch' \in {[batch EXCEPT ![p] = 1], [batch EXCEPT ![p] = batch[p] + 1]}
    <3>1. next' = [next EXCEPT ![p] = next[p]] => next' = next
      BY <1>1 DEF CallerType
    <3> QED BY <1>8, <3>1 DEF DrainUndispatched
  <2> DEFINE x == IF shape[sub[p]].work[next[p]] = <<>> THEN <<>>
                  ELSE BatchTasks(sub[p], next[p], batch[p])
  <2>2. x \in Seq(TaskId)
    BY <1>0, <2>1, DrainFacts
  <2>3. todo' = [todo EXCEPT ![p] = x]
    BY <2>1
  <2> HIDE DEF x
  <2>4. FinishingType'
    BY <1>1, <2>1, <2>2, <2>3 DEF FinishingType, Codes, Threads
  <2>5. PoolType' /\ CallerType'
    <3>0. p \in Threads /\ batch \in [Threads -> Nat \ {0}] /\ batch[p] + 1 \in Nat \ {0} /\ 1 \in Nat \ {0}
      BY <1>1 DEF PoolType, Threads
    <3>1. batch' \in [Threads -> Nat \ {0}]
      BY <2>1, <3>0
    <3>2. next' \in [Submitters -> Nat \ {0}]
      BY <1>1, <2>1 DEF CallerType
    <3> QED BY <1>1, <2>1, <3>1, <3>2 DEF PoolType, CallerType
  <2> QED BY <1>1, <2>1, <2>4, <2>5 DEF TypeOK, RegistryType, QueueType, RequestsType,
             ConsumerType, registry, queue, requests, consumer
<1>9. CASE DrainLoses(p)
  <2>1. /\ UNCHANGED <<code, plan, pc, sub, throws, deque, stopped, wpc, work, unfinished, offset,
                       landed, registry, queue, requests, consumer>>
        /\ lost' = lost + 1
        /\ todo' = [todo EXCEPT ![p] = <<>>]
        /\ step' = [step EXCEPT ![p] = "mark"]
        /\ next' \in {[next EXCEPT ![p] = next[p] + 1], next}
        /\ batch' = [batch EXCEPT ![p] = 1]
    <3>1. next' = [next EXCEPT ![p] = next[p]] => next' = next
      BY <1>1 DEF CallerType
    <3> QED BY <1>9, <3>1 DEF DrainLoses
  <2>2. FinishingType'
    BY <1>1, <2>1 DEF FinishingType, Steps, Threads
  <2>3. PoolType' /\ CallerType'
    BY <1>1, <2>1, SMTT(30) DEF PoolType, CallerType, Threads
  <2> QED BY <1>1, <2>1, <2>2, <2>3 DEF TypeOK, RegistryType, QueueType, RequestsType,
             ConsumerType, registry, queue, requests, consumer
<1> QED BY <1>2, <1>3, <1>4, <1>5, <1>6, <1>7, <1>8, <1>9 DEF async_request

(* Finishing tasks keeps the types.                                        *)
LEMMA TypeFinish ==
  ASSUME Inv, NEW t \in Threads, Finish(t)
  PROVE  TypeOK'
<1>0. TypeOK /\ Works /\ Counted
  BY DEF Inv
<1>1. /\ RegistryType /\ QueueType /\ RequestsType /\ CallerType /\ FinishingType /\ PoolType
      /\ ConsumerType
  BY <1>0 DEF TypeOK
<1>2. RegistryType' /\ CallerType' /\ PoolType' /\ ConsumerType'
  BY <1>1, FinishFrame DEF RegistryType, CallerType, PoolType, ConsumerType, registry, caller, pool, consumer
<1>3. todo[t] # <<>>
  BY DEF Finish, MarkTask, CountTask, Push, Post
<1>4. /\ First(t) \in TaskId /\ FirstId(t) \in Ids /\ FirstRange(t) \in RangeNo
      /\ Tail(todo[t]) \in Seq(TaskId)
  BY <1>0, <1>3, FirstFacts
<1>5. Advance(t) => FinishingType'
  BY <1>1, <1>4 DEF Advance, FinishingType, Steps
<1>6. ASSUME NEW s \in Steps, step' = [step EXCEPT ![t] = s], UNCHANGED <<todo, code>>
      PROVE  FinishingType'
  BY <1>1, <1>6 DEF FinishingType
<1>7. CASE MarkTask(t)
  <2>1. FinishingType'
    BY <1>5, <1>6, <1>7 DEF MarkTask, Steps
  <2>2. QueueType'
    BY <1>1, <1>7 DEF MarkTask, QueueType, queue
  <2>3. left' = left /\ finished' \subseteq TaskId
    BY <1>1, <1>4, <1>7 DEF MarkTask, RequestsType, requests
  <2>4. ret' \in {ret, [ret EXCEPT ![FirstId(t)][FirstRange(t)] = code[t]]}
    BY <1>7 DEF MarkTask, requests
  <2>5. code[t] \in Codes
    BY <1>1 DEF FinishingType
  <2>a. [ret EXCEPT ![FirstId(t)][FirstRange(t)] = code[t]] \in [Ids -> [RangeNo -> Codes]]
    BY <1>1, <1>4, <2>5 DEF RequestsType
  <2>6. ret' \in [Ids -> [RangeNo -> Codes]]
    BY <1>1, <2>4, <2>a DEF RequestsType
  <2>7. RequestsType'
    BY <1>1, <2>3, <2>6 DEF RequestsType
  <2> QED BY <1>2, <2>1, <2>2, <2>7 DEF TypeOK
<1>8. CASE CountTask(t)
  <2>1. FinishingType'
    BY <1>5, <1>6, <1>8 DEF CountTask, Steps
  <2>2. QueueType' /\ ret' = ret /\ finished' = finished
    BY <1>1, <1>8 DEF CountTask, QueueType, queue
  <2>3. left[FirstId(t)][FirstRange(t)] - 1 \in Nat
    BY <1>0, <1>8, CountPositive DEF CountTask
  <2>4. left' = [left EXCEPT ![FirstId(t)][FirstRange(t)] = left[FirstId(t)][FirstRange(t)] - 1]
    BY <1>8 DEF CountTask
  <2>5. left' \in [Ids -> [RangeNo -> Nat]]
    BY <1>1, <1>4, <2>3, <2>4 DEF RequestsType
  <2>6. RequestsType'
    BY <1>1, <2>2, <2>5 DEF RequestsType
  <2> QED BY <1>2, <2>1, <2>2, <2>6 DEF TypeOK
<1>9. CASE Push(t)
  <2>1. FinishingType'
    BY <1>5, <1>6, <1>9 DEF Push, Steps
  <2>2. RequestsType' /\ UNCHANGED <<ready, rstopped, stopPost>>
    BY <1>1, <1>9 DEF Push, RequestsType, requests
  <2> DEFINE m == [id |-> FirstId(t), range |-> FirstRange(t), ret |-> ret[FirstId(t)][FirstRange(t)]]
  <2>3. m \in Response
    BY <1>1, <1>4 DEF RequestsType, Response
  <2>4. Append(responses, m) \in Seq(Response)
    BY <1>1, <2>3, AppendProperties DEF QueueType
  <2>5. responses' \in {responses, Append(responses, m)}
    BY <1>9 DEF Push
  <2>6. responses' \in Seq(Response)
    BY <1>1, <2>4, <2>5 DEF QueueType
  <2>a. \/ running' = running - 1 /\ running > 0
        \/ running' = running
    BY <1>9 DEF Push
  <2>b. unexpected' \in {unexpected, TRUE}
    BY <1>9 DEF Push
  <2>7. running' \in Nat /\ unexpected' \in BOOLEAN
    <3>1. running' \in Nat
      BY <1>1, <2>a DEF QueueType
    <3>2. unexpected' \in BOOLEAN
      BY <1>1, <2>b, Zenon DEF QueueType
    <3> QED BY <3>1, <3>2
  <2>8. QueueType'
    BY <1>1, <2>2, <2>6, <2>7 DEF QueueType
  <2> QED BY <1>2, <2>1, <2>2, <2>8 DEF TypeOK
<1>10. CASE Post(t)
  <2>1. FinishingType'
    BY <1>5, <1>10 DEF Post
  <2>2. RequestsType' /\ QueueType'
    BY <1>1, <1>10 DEF Post, RequestsType, QueueType, requests
  <2> QED BY <1>2, <2>1, <2>2 DEF TypeOK
<1> QED BY <1>7, <1>8, <1>9, <1>10 DEF Finish

(* The list finished_until hands to the finishing steps.                   *)
LEMMA FinishUntilFacts ==
  ASSUME TypeOK, Works, NEW w \in Workers, wpc[w] \notin {"idle", "exit"}, NEW upto
  PROVE  LET s == SubSeq(CurTasks(w), unfinished[w] + 1, Reached(w, upto))
         IN  /\ s \in Seq(TaskId)
             /\ \A i \in 1..Len(s) : /\ unfinished[w] + i \in 1..Reached(w, upto)
                                     /\ s[i] = CurTasks(w)[unfinished[w] + i]
<1> DEFINE n == Len(CurTasks(w))
           m == Reached(w, upto)
           u == unfinished[w]
           s == SubSeq(CurTasks(w), u + 1, m)
<1>1. n \in Nat /\ m \in 0..n /\ m \in Nat /\ u \in Nat
  BY CurFacts, ReachedFacts DEF TypeOK, PoolType
<1>2. \A i \in u + 1..m : CurTasks(w)[i] \in TaskId
  BY <1>1, CurFacts
<1> HIDE DEF n, m, u
<1>3. /\ s \in Seq(TaskId) /\ Len(s) = IF u + 1 <= m THEN m - (u + 1) + 1 ELSE 0
      /\ \A i \in 1..m - (u + 1) + 1 : s[i] = CurTasks(w)[u + 1 + i - 1]
  <2>1. u + 1 \in Int /\ m \in Int
    BY <1>1
  <2> QED BY <1>2, <2>1, SubSeqProperties
<1>4. ASSUME NEW i \in 1..Len(s) PROVE u + i \in 1..m /\ s[i] = CurTasks(w)[u + i]
  <2>1. u + 1 <= m /\ Len(s) = m - (u + 1) + 1
    BY <1>1, <1>3
  <2>2. i \in 1..m - (u + 1) + 1 /\ u + 1 + i - 1 = u + i /\ u + i \in 1..m
    BY <1>1, <2>1
  <2> QED BY <1>3, <2>2
<1> QED BY <1>3, <1>4 DEF m, u

(* Executing workloads keeps the types.                                    *)
LEMMA TypeExecute ==
  ASSUME Inv, NEW w \in Workers, execute(w)
  PROVE  TypeOK'
<1>0. TypeOK /\ Works /\ w \in Threads
  BY DEF Inv, Threads
<1>1. /\ RegistryType /\ QueueType /\ RequestsType /\ CallerType /\ FinishingType /\ PoolType
      /\ ConsumerType
  BY <1>0 DEF TypeOK
<1>2. RegistryType' /\ QueueType' /\ RequestsType' /\ CallerType' /\ ConsumerType'
  BY <1>1, ExecuteFrame DEF RegistryType, QueueType, RequestsType, CallerType, ConsumerType,
     registry, queue, requests, caller, consumer
<1>3. SUFFICES FinishingType' /\ PoolType'
  BY <1>2 DEF TypeOK
<1>4. wpc[w] \notin {"idle", "exit"} => CurTasks(w) \in Seq(TaskId)
  BY <1>0, CurFacts
<1>5. ASSUME NEW c \in Codes, FailBatch(w, c), wpc[w] \notin {"idle", "exit"}
      PROVE  FinishingType' /\ PoolType'
  BY <1>0, <1>1, <1>4, <1>5 DEF FailBatch, FinishingType, PoolType, Wpcs
<1>6. ASSUME NEW upto, FinishUntil(w, upto), wpc[w] \notin {"idle", "exit"}
      PROVE  FinishingType' /\ unfinished' \in [Workers -> Nat]
  <2> DEFINE s == SubSeq(CurTasks(w), unfinished[w] + 1, Reached(w, upto))
  <2>1. s \in Seq(TaskId)
    BY <1>0, <1>6, FinishUntilFacts
  <2>2. Reached(w, upto) \in Nat
    BY <1>0, <1>6, ReachedFacts
  <2>3. /\ todo' = [todo EXCEPT ![w] = s] /\ code' = [code EXCEPT ![w] = "Success"]
        /\ UNCHANGED step /\ unfinished' = [unfinished EXCEPT ![w] = Reached(w, upto)]
    BY <1>6 DEF FinishUntil
  <2> HIDE DEF s
  <2> QED BY <1>0, <1>1, <2>1, <2>2, <2>3 DEF FinishingType, PoolType, Codes
<1>7. CASE PopWorkload(w)
  <2>1. Head(deque) \in Nat \X Nat /\ Tail(deque) \in Seq(Nat \X Nat)
    BY <1>1, <1>7, HeadTailProperties DEF PopWorkload, PoolType
  <2>2. FinishingType'
    BY <1>1, <1>7 DEF PopWorkload, FinishingType, finishing
  <2>3. PoolType'
    <3>1. /\ work' = [work EXCEPT ![w] = Head(deque)] /\ deque' = Tail(deque)
          /\ batch' = [batch EXCEPT ![w] = 1] /\ unfinished' = [unfinished EXCEPT ![w] = 0]
          /\ wpc' = [wpc EXCEPT ![w] = "open"] /\ UNCHANGED <<stopped, offset, landed>>
      BY <1>7 DEF PopWorkload
    <3>2. work' \in [Workers -> Nat \X Nat]
      BY <1>1, <2>1, <3>1 DEF PoolType
    <3>3. /\ batch' \in [Threads -> Nat \ {0}] /\ unfinished' \in [Workers -> Nat]
          /\ wpc' \in [Workers -> Wpcs]
      BY <1>0, <1>1, <3>1 DEF PoolType, Wpcs
    <3> QED BY <1>1, <2>1, <3>1, <3>2, <3>3 DEF PoolType
  <2> QED BY <2>2, <2>3
<1>8. CASE OpenFile(w)
  <2>1. CASE FailBatch(w, "FileAccessError")
    BY <1>5, <1>8, <2>1 DEF OpenFile, Codes
  <2>2. CASE ~FailBatch(w, "FileAccessError")
    <3>1. /\ wpc' = [wpc EXCEPT ![w] = "read"] /\ offset' = [offset EXCEPT ![w] = 0]
          /\ UNCHANGED <<todo, code, step, deque, stopped, work, batch, unfinished, landed>>
      BY <1>8, <2>2 DEF OpenFile, finishing
    <3> QED BY <1>1, <3>1 DEF FinishingType, PoolType, Wpcs
  <2> QED BY <2>1, <2>2
<1>9. CASE ReadBlock(w)
  <2>1. CASE FailBatch(w, "FileAccessError")
    BY <1>5, <1>9, <2>1 DEF ReadBlock, Codes
  <2>2. CASE ~FailBatch(w, "FileAccessError")
    <3> DEFINE upto == IF offset[w] + BlockBytes < CurEnd(w) THEN offset[w] + BlockBytes ELSE CurEnd(w)
               new == {CurTasks(w)[i] : i \in {j \in DOMAIN CurTasks(w) : TaskEnd(CurTasks(w)[j]) <= upto}}
    <3>1. /\ wpc[w] = "read" /\ offset' = [offset EXCEPT ![w] = upto] /\ FinishUntil(w, upto)
          /\ landed' = landed \cup new
          /\ UNCHANGED <<deque, stopped, wpc, work, batch>>
      BY <1>9, <2>2 DEF ReadBlock
    <3>2. upto \in Nat /\ new \subseteq TaskId
      <4>1. CurEnd(w) \in Nat /\ DOMAIN CurTasks(w) = 1..Len(CurTasks(w))
            /\ \A i \in 1..Len(CurTasks(w)) : CurTasks(w)[i] \in TaskId
        BY <1>0, <3>1, CurFacts
      <4>2. offset[w] \in Nat /\ BlockBytes \in Nat
        BY <1>1, BlockAssumption DEF PoolType
      <4>3. upto \in Nat
        BY <4>1, <4>2
      <4> HIDE DEF upto
      <4> QED BY <4>1, <4>3
    <3> HIDE DEF upto, new
    <3>3. FinishingType' /\ unfinished' \in [Workers -> Nat]
      BY <1>6, <3>1
    <3> QED BY <1>1, <3>1, <3>2, <3>3 DEF PoolType
  <2> QED BY <2>1, <2>2
<1>10. CASE EndRead(w)
  <2>1. /\ wpc' = [wpc EXCEPT ![w] = "ended"] /\ UNCHANGED <<deque, stopped, work, batch, offset, landed>>
        /\ wpc[w] = "read"
    BY <1>10 DEF EndRead
  <2>2. FinishingType' /\ unfinished' \in [Workers -> Nat]
    <3>1. CASE FinishUntil(w, CurEnd(w))
      BY <1>6, <2>1, <3>1
    <3>2. CASE UNCHANGED <<finishing, unfinished>>
      BY <1>1, <3>2 DEF FinishingType, PoolType, finishing
    <3> QED BY <1>10, <3>1, <3>2 DEF EndRead
  <2> QED BY <1>1, <2>1, <2>2 DEF PoolType, Wpcs
<1>11. CASE EndBatch(w)
  <2>1. CASE FailBatch(w, "FinishedError")
    BY <1>5, <1>11, <2>1 DEF EndBatch, Codes
  <2>2. CASE ~FailBatch(w, "FinishedError")
    BY <1>1, <1>11, <2>2 DEF EndBatch, FinishingType, PoolType, Wpcs, finishing
  <2> QED BY <2>1, <2>2
<1>12. CASE NextBatch(w) \/ ExitWorker(w)
  <2>1. /\ UNCHANGED <<finishing, deque, stopped, work, offset, landed>>
        /\ \E s \in {"open", "idle", "exit"} : wpc' = [wpc EXCEPT ![w] = s]
        /\ unfinished' \in {unfinished, [unfinished EXCEPT ![w] = 0]}
        /\ batch' \in {batch, [batch EXCEPT ![w] = batch[w] + 1]}
    BY <1>12 DEF NextBatch, ExitWorker
  <2>2. FinishingType'
    BY <1>1, <2>1 DEF FinishingType, finishing
  <2>3. wpc' \in [Workers -> Wpcs]
    BY <1>1, <2>1 DEF PoolType, Wpcs
  <2>a. batch \in [Threads -> Nat \ {0}] /\ batch[w] + 1 \in Nat \ {0} /\ unfinished \in [Workers -> Nat]
    BY <1>0, <1>1 DEF PoolType
  <2>b. [batch EXCEPT ![w] = batch[w] + 1] \in [Threads -> Nat \ {0}]
    BY <2>a
  <2>4. batch' \in [Threads -> Nat \ {0}] /\ unfinished' \in [Workers -> Nat]
    BY <2>1, <2>a, <2>b
  <2> QED BY <1>1, <2>1, <2>2, <2>3, <2>4 DEF PoolType
<1> QED BY <1>7, <1>8, <1>9, <1>10, <1>11, <1>12 DEF execute

(* Responses and the destructor keep the types.                            *)
LEMMA TypeResponse ==
  ASSUME Inv, response \/ StopResponder \/ StopPost \/ StopPools \/ Destroyed \/ UNCHANGED vars
  PROVE  TypeOK'
<1>0. TypeOK /\ PushedOnce /\ Waking /\ Remaining
  BY DEF Inv
<1>1. /\ RegistryType /\ QueueType /\ RequestsType /\ CallerType /\ FinishingType /\ PoolType
      /\ ConsumerType
  BY <1>0 DEF TypeOK
<1>2. CASE response \/ StopResponder \/ StopPost
  <2>1. RequestsType' /\ CallerType' /\ FinishingType' /\ PoolType'
    BY <1>1, <1>2, ResponseFrame DEF RequestsType, CallerType, FinishingType, PoolType,
       requests, caller, finishing, pool
  <2>2. CASE Call \/ TimeOut
    <3>1. UNCHANGED <<registry, queue, popped, delivered, done>> /\ cpc' \in Cpcs
      BY <2>2 DEF Call, TimeOut, Cpcs
    <3> QED BY <1>1, <2>1, <3>1 DEF TypeOK, RegistryType, QueueType, ConsumerType, registry, queue
  <2>3. CASE Wait
    BY <1>1, <2>1, <2>3 DEF Wait, TypeOK, RegistryType, QueueType, ConsumerType, registry, Cpcs
  <2>4. CASE Pop
    <3>1. CASE rstopped
      BY <1>1, <2>1, <2>4, <3>1 DEF Pop, TypeOK, RegistryType, QueueType, ConsumerType, registry, Cpcs
    <3>2. CASE ~rstopped
      <4>1. /\ popped' = <<Head(responses)>> /\ responses' = Tail(responses) /\ cpc' = "consume"
            /\ UNCHANGED <<running, ready, rstopped, stopPost, unexpected, delivered, done, registry>>
            /\ cpc = "lock"
        BY <2>4, <3>2 DEF Pop
      <4>2. Len(responses) = ready + Cardinality(Posting) + 1
        BY <1>0, <3>2, <4>1 DEF Waking
      <4>3. IsFiniteSet(Threads)
        BY ThreadAssumption, FS_Union DEF Threads
      <4>4. IsFiniteSet(Posting)
        BY <4>3, FS_Subset DEF Posting
      <4>5. Cardinality(Posting) \in Nat
        BY <4>4, FS_CardinalityType
      <4>6. responses # <<>>
        BY <1>1, <4>2, <4>5 DEF QueueType
      <4>7. Head(responses) \in Response /\ Tail(responses) \in Seq(Response)
        BY <1>1, <4>6, HeadTailProperties DEF QueueType
      <4> QED BY <1>1, <2>1, <4>1, <4>7 DEF TypeOK, RegistryType, QueueType, ConsumerType, registry, Cpcs
    <3> QED BY <3>1, <3>2
  <2>5. CASE Consume
    <3> DEFINE id == popped[1].id
    <3>1. /\ cpc = "consume" /\ nextId' = nextId /\ shape' = shape /\ cpc' = "idle" /\ popped' = <<>>
          /\ delivered' = Append(delivered, popped[1]) /\ UNCHANGED queue
          /\ remaining' = [remaining EXCEPT ![id] = remaining[id] - 1]
          /\ live' \subseteq live /\ done' \subseteq done \cup {id}
      BY <2>5 DEF Consume
    <3>2. id \in Ids /\ popped[1] \in Response /\ remaining[id] > 0
      BY <1>0, <3>1, PoppedIsOwed
    <3> HIDE DEF id
    <3>3. RegistryType' /\ QueueType'
      BY <1>1, <3>1, <3>2 DEF RegistryType, QueueType, queue
    <3>4. delivered' \in Seq(Response)
      BY <1>1, <3>1, <3>2, AppendProperties DEF ConsumerType
    <3>5. ConsumerType'
      BY <1>1, <3>1, <3>2, <3>4 DEF ConsumerType, Cpcs
    <3> QED BY <2>1, <3>3, <3>5 DEF TypeOK
  <2>6. CASE StopResponder
    BY <1>1, <2>1, <2>6 DEF StopResponder, TypeOK, RegistryType, QueueType, ConsumerType, registry, consumer
  <2>7. CASE StopPost
    <3>1. /\ UNCHANGED <<running, responses, rstopped, unexpected, registry, consumer>>
          /\ stopPost' = FALSE /\ ready' = ready + 1
      BY <2>7 DEF StopPost
    <3>2. ready' \in Nat
      BY <1>1, <3>1 DEF QueueType
    <3>3. RegistryType' /\ ConsumerType'
      BY <1>1, <3>1 DEF RegistryType, ConsumerType, registry, consumer
    <3>4. QueueType'
      BY <1>1, <3>1, <3>2 DEF QueueType
    <3> QED BY <2>1, <3>3, <3>4 DEF TypeOK
  <2> QED BY <1>2, <2>2, <2>3, <2>4, <2>5, <2>6, <2>7 DEF response
<1>3. CASE StopPools
  <2>1. UNCHANGED <<wpc, work, batch, unfinished, offset, landed,
                    registry, queue, requests, caller, finishing, consumer>>
        /\ stopped' = TRUE /\ deque' = <<>>
    BY <1>3 DEF StopPools
  <2> QED BY <1>1, <2>1 DEF TypeOK, RegistryType, QueueType, RequestsType, CallerType, FinishingType,
             PoolType, ConsumerType, registry, queue, requests, caller, finishing, consumer
<1>4. CASE Destroyed \/ UNCHANGED vars
  BY <1>1, <1>4 DEF Destroyed, TypeOK, RegistryType, QueueType, RequestsType, CallerType,
     FinishingType, PoolType, ConsumerType, vars, registry, queue, requests, caller, finishing, pool, consumer
<1> QED BY <1>2, <1>3, <1>4

(* Every step keeps the types.                                             *)
LEMMA TypeStep ==
  ASSUME Inv, Next \/ UNCHANGED vars
  PROVE  TypeOK'
BY TypeCaller, TypeFinish, TypeExecute, TypeResponse DEF Next
-----------------------------------------------------------------------------
(* A caller that is not touched stays sane.                                *)
LEMMA CallerFrame ==
  ASSUME Callers, NEW q \in Submitters, pc'[q] = pc[q], sub'[q] = sub[q], next'[q] = next[q],
         batch'[q] = batch[q], nextId \in Nat, nextId' \in {nextId, nextId + 1}, sub[q] \in Nat,
         rstopped' = rstopped \/ pc[q] = "idle",
         pc[q] # "idle" => shape'[sub[q]] = shape[sub[q]] /\ (sub[q] \in Opened' <=> sub[q] \in Opened)
  PROVE  CallerSane(q)'
<1>1. CallerSane(q)
  BY DEF Callers
<1>2. pc[q] # "idle" => sub[q] < nextId'
  BY <1>1 DEF CallerSane
<1> QED BY <1>1, <1>2 DEF CallerSane

(* async_request keeps the callers sane.                                   *)
LEMMA CallersCaller ==
  ASSUME Inv, NEW p \in Submitters, async_request(p)
  PROVE  Callers'
<1>0. TypeOK /\ Callers
  BY DEF Inv
<1>1. /\ pc \in [Submitters -> Pcs] /\ sub \in [Submitters -> Nat] /\ shape \in [Ids -> Shapes]
      /\ nextId \in Nat \ {0} /\ next \in [Submitters -> Nat \ {0}] /\ batch \in [Threads -> Nat \ {0}]
      /\ Submitters \subseteq Threads /\ live \subseteq Ids /\ done \subseteq Ids
  BY <1>0 DEF TypeOK, CallerType, RegistryType, PoolType, ConsumerType, Threads
<1>2. \A id \in Opened : id < nextId
  BY <1>0 DEF Callers
<1>3. \A q \in Submitters : CallerSane(q)
  BY <1>0 DEF Callers
<1>4. \A q, z \in Submitters : q # z /\ pc[q] # "idle" /\ pc[z] # "idle" => sub[q] # sub[z]
  BY <1>0 DEF Callers
<1>5. CASE Generate(p)
  <2>1. /\ pc[p] = "idle" /\ ~rstopped /\ nextId \in Ids /\ plan[p] # <<>>
        /\ nextId' = nextId + 1 /\ sub' = [sub EXCEPT ![p] = nextId]
        /\ shape' = [shape EXCEPT ![nextId] = Head(plan[p])]
        /\ pc' = [pc EXCEPT ![p] = IF Head(plan[p]).ranges = 0 THEN "idle" ELSE "build"]
        /\ UNCHANGED <<live, done, next, batch, rstopped>>
    BY <1>5 DEF Generate, queue, pool, consumer
  <2>2. Opened' = Opened
    BY <2>1 DEF Opened
  <2>3. Head(plan[p]) \in Shapes
    BY <1>0, <2>1, HeadTailProperties DEF TypeOK, CallerType
  <2>4. Head(plan[p]).ranges \in Nat
    BY <2>3, ShapeType
  <2>5. \A id \in Opened' : id < nextId'
    BY <1>1, <1>2, <2>1, <2>2 DEF Opened, Ids
  <2>6. CallerSane(p)'
    <3>1. /\ sub'[p] = nextId /\ shape'[nextId] = Head(plan[p]) /\ nextId \notin Opened
          /\ pc'[p] \in {"idle", "build"} /\ (pc'[p] = "build" => Head(plan[p]).ranges > 0)
      BY <1>1, <1>2, <2>1, <2>4
    <3>2. batch[p] = 1
      BY <1>3, <2>1 DEF CallerSane
    <3> QED BY <1>1, <2>1, <2>2, <3>1, <3>2 DEF CallerSane
  <2>7. ASSUME NEW q \in Submitters, q # p PROVE CallerSane(q)'
    <3>1. pc'[q] = pc[q] /\ sub'[q] = sub[q] /\ (pc[q] # "idle" => sub[q] # nextId /\ sub[q] \in Ids)
      BY <1>1, <1>3, <2>1, <2>7 DEF CallerSane
    <3>2. pc[q] # "idle" => shape'[sub[q]] = shape[sub[q]]
      BY <1>1, <2>1, <3>1
    <3> QED BY <1>0, <1>1, <2>1, <2>2, <3>1, <3>2, CallerFrame
  <2>8. ASSUME NEW q \in Submitters, NEW z \in Submitters, q # z, pc'[q] # "idle", pc'[z] # "idle"
        PROVE  sub'[q] # sub'[z]
    <3>1. \A y \in Submitters : y # p => pc'[y] = pc[y] /\ sub'[y] = sub[y] /\ (pc[y] # "idle" => sub[y] < nextId)
      BY <1>1, <1>3, <2>1 DEF CallerSane
    <3>2. sub'[p] = nextId
      BY <1>1, <2>1
    <3> QED BY <1>1, <1>4, <2>8, <3>1, <3>2
  <2> QED BY <2>5, <2>6, <2>7, <2>8 DEF Callers
<1>6. CASE Add(p)
  <2>1. /\ pc[p] = "add" /\ pc' = [pc EXCEPT ![p] = "increment"] /\ live' = live \cup {sub[p]}
        /\ UNCHANGED <<nextId, sub, shape, done, next, batch, rstopped>>
    BY <1>6 DEF Add, queue, pool, consumer
  <2>2. Opened' = Opened \cup {sub[p]} /\ sub[p] \in Ids /\ sub[p] < nextId
    BY <1>3, <2>1 DEF Opened, CallerSane
  <2>3. CallerSane(p)'
    BY <1>1, <1>3, <2>1, <2>2 DEF CallerSane
  <2>4. ASSUME NEW q \in Submitters, q # p PROVE CallerSane(q)'
    <3>1. pc'[q] = pc[q] /\ (pc[q] # "idle" => sub[q] # sub[p])
      BY <1>1, <1>4, <2>1, <2>4
    <3> QED BY <1>0, <1>1, <2>1, <2>2, <3>1, CallerFrame
  <2>5. \A q, z \in Submitters : q # z /\ pc'[q] # "idle" /\ pc'[z] # "idle" => sub'[q] # sub'[z]
    BY <1>1, <1>4, <2>1
  <2> QED BY <1>2, <2>1, <2>2, <2>3, <2>4, <2>5 DEF Callers
<1>7. CASE ~Generate(p) /\ ~Add(p)
  <2>1. /\ UNCHANGED <<nextId, sub, shape, live, done, rstopped>>
        /\ \E s \in Pcs : pc' = [pc EXCEPT ![p] = s] /\ (s # "idle" => pc[p] # "idle")
        /\ \E n : next' = [next EXCEPT ![p] = n]
        /\ \E n : batch' = [batch EXCEPT ![p] = n]
    <3>1. pc = [pc EXCEPT ![p] = pc[p]] /\ next = [next EXCEPT ![p] = next[p]] /\ pc[p] \in Pcs
          /\ batch = [batch EXCEPT ![p] = batch[p]]
      BY <1>1
    <3>2. UNCHANGED <<nextId, sub, shape, live, done, rstopped>>
      BY <1>7 DEF async_request, Build, BuildFails, Increment, Dispatch, DispatchThrows,
         DrainUndispatched, DrainLoses, Return, registry, queue, consumer
    <3>3. \E s \in Pcs : pc' = [pc EXCEPT ![p] = s] /\ (s # "idle" => pc[p] # "idle")
      BY <1>7, <3>1 DEF async_request, Build, BuildFails, Increment, Dispatch, DispatchThrows,
         DrainUndispatched, DrainLoses, Return, Pcs
    <3>4. \E n : next' = [next EXCEPT ![p] = n]
      BY <1>7, <3>1 DEF async_request, Build, BuildFails, Increment, Dispatch, DispatchThrows,
         DrainUndispatched, DrainLoses, Return
    <3>5. \E n : batch' = [batch EXCEPT ![p] = n]
      BY <1>7, <3>1 DEF async_request, Build, BuildFails, Increment, Dispatch, DispatchThrows,
         DrainUndispatched, DrainLoses, Return, pool
    <3> QED BY <3>2, <3>3, <3>4, <3>5
  <2>2. Opened' = Opened
    BY <2>1 DEF Opened
  <2>3. ASSUME NEW q \in Submitters, q # p PROVE CallerSane(q)'
    <3>1. pc'[q] = pc[q] /\ next'[q] = next[q] /\ batch'[q] = batch[q]
      BY <1>1, <2>1, <2>3
    <3> QED BY <1>0, <1>1, <2>1, <2>2, <3>1, CallerFrame
  <2>4. \A q, z \in Submitters : q # z /\ pc'[q] # "idle" /\ pc'[z] # "idle" => sub'[q] # sub'[z]
    BY <1>1, <1>4, <2>1
  <2>5. CallerSane(p)'
    <3>1. CASE Build(p) \/ BuildFails(p) \/ Increment(p) \/ DispatchThrows(p)
      <4>1. /\ batch' = batch /\ pc[p] \in {"build", "increment", "dispatch"}
            /\ pc[p] = "build" => pc'[p] \in {"add", "idle"}
            /\ pc[p] \in {"increment", "dispatch"} => pc'[p] \in {"dispatch", "drain"}
        BY <1>1, <3>1 DEF Build, BuildFails, Increment, DispatchThrows, pool
      <4> QED BY <1>3, <2>1, <2>2, <4>1 DEF CallerSane
    <3>2. CASE Dispatch(p)
      <4>1. batch' = batch /\ pc' = pc /\ pc[p] = "dispatch"
        BY <3>2 DEF Dispatch
      <4> QED BY <1>3, <2>1, <2>2, <4>1 DEF CallerSane
    <3>3. CASE Return(p)
      <4>1. batch' = batch /\ pc'[p] = "idle" /\ pc[p] \in {"dispatch", "drain"}
            /\ next[p] > Len(shape[sub[p]].work)
        BY <1>1, <3>3 DEF Return, pool
      <4>2. sub[p] \in Ids
        BY <1>3, <4>1 DEF CallerSane
      <4>3. Len(shape[sub[p]].work) \in Nat /\ DOMAIN shape[sub[p]].work = 1..Len(shape[sub[p]].work)
        BY <1>1, <4>2, ShapeType, SeqFacts
      <4>4. next[p] \notin DOMAIN shape[sub[p]].work
        BY <1>1, <4>1, <4>3
      <4>5. batch[p] = 1
        BY <1>3, <4>4 DEF CallerSane
      <4> QED BY <4>1, <4>5 DEF CallerSane
    <3>4. CASE DrainLoses(p)
      <4>1. batch'[p] = 1 /\ pc' = pc
        BY <1>1, <3>4 DEF DrainLoses
      <4> QED BY <1>3, <2>1, <2>2, <4>1 DEF CallerSane
    <3>5. CASE DrainUndispatched(p)
      <4> DEFINE batches == shape[sub[p]].work[next[p]]
      <4>1. /\ pc[p] = "drain" /\ pc' = pc /\ next[p] <= Len(shape[sub[p]].work)
            /\ \/ batch'[p] = 1
               \/ next'[p] = next[p] /\ batch'[p] = batch[p] + 1 /\ ~(batch[p] >= Len(batches))
        BY <1>1, <3>5 DEF DrainUndispatched
      <4>2. /\ next[p] \in DOMAIN shape[sub[p]].work /\ Len(batches) \in Nat
            /\ DOMAIN batches = 1..Len(batches)
        BY <1>0, <4>1, DrainFacts
      <4>3. \/ batch'[p] = 1
            \/ next'[p] = next[p] /\ batch'[p] \in DOMAIN batches
        <5> HIDE DEF batches
        <5>1. batch[p] \in Nat \ {0}
          BY <1>1
        <5> QED BY <4>1, <4>2, <5>1
      <4> QED BY <1>3, <2>1, <2>2, <4>1, <4>2, <4>3 DEF CallerSane
    <3> QED BY <1>7, <3>1, <3>2, <3>3, <3>4, <3>5 DEF async_request
  <2> QED BY <1>2, <2>1, <2>2, <2>3, <2>4, <2>5 DEF Callers
<1> QED BY <1>5, <1>6, <1>7

(* Every step keeps the callers sane.                                      *)
LEMMA CallersStep ==
  ASSUME Inv, Next \/ UNCHANGED vars
  PROVE  Callers'
<1>0. TypeOK /\ Callers /\ PushedOnce /\ Waking /\ Remaining
  BY DEF Inv
<1>1. ASSUME UNCHANGED <<nextId, shape, pc, sub, next>>, Opened' = Opened,
             \A q \in Submitters : batch'[q] = batch[q],
             rstopped' = rstopped \/ \A q \in Submitters : pc[q] = "idle"
      PROVE  Callers'
  <2>1. nextId \in Nat /\ \A q \in Submitters : sub[q] \in Nat
    BY <1>0 DEF TypeOK, RegistryType, CallerType
  <2>2. \A q \in Submitters : CallerSane(q)'
    BY <1>0, <1>1, <2>1, CallerFrame
  <2> QED BY <1>0, <1>1, <2>2 DEF Callers
<1>2. CASE \E t \in Threads : Finish(t)
  <2>1. /\ UNCHANGED <<registry, caller, pool, consumer>> /\ rstopped' = rstopped
    BY <1>2, FinishFrame DEF Finish, MarkTask, CountTask, Push, Post, queue
  <2> QED BY <1>1, <2>1 DEF registry, caller, pool, consumer, Opened
<1>3. CASE \E w \in Workers : execute(w)
  <2>1. PICK w \in Workers : execute(w)
    BY <1>3
  <2>2. UNCHANGED <<registry, queue, caller, consumer>>
    BY <2>1, ExecuteFrame
  <2>3. \E n : batch' = [batch EXCEPT ![w] = n]
    <3>1. batch = [batch EXCEPT ![w] = batch[w]]
      BY <1>0 DEF TypeOK, PoolType
    <3> QED BY <2>1, <3>1 DEF execute, PopWorkload, OpenFile, ReadBlock, EndRead, EndBatch, NextBatch,
               ExitWorker, FailBatch
  <2>4. \A q \in Submitters : batch'[q] = batch[q]
    BY <1>0, <2>3, ThreadAssumption DEF TypeOK, PoolType, Threads
  <2> QED BY <1>1, <2>2, <2>4 DEF registry, caller, queue, consumer, Opened
<1>4. CASE response \/ StopResponder \/ StopPost
  <2>1. UNCHANGED <<nextId, shape, pc, sub, next, batch>>
    BY <1>4, ResponseFrame DEF caller, pool
  <2>2. Opened' = Opened
    <3>1. CASE Consume
      BY <1>0, <3>1, ConsumeOpened
    <3>2. CASE ~Consume
      BY <1>4, <3>2 DEF Opened, response, Call, Wait, TimeOut, Pop, StopResponder, StopPost,
         consumer, registry
    <3> QED BY <3>1, <3>2
  <2>3. rstopped' = rstopped \/ \A q \in Submitters : pc[q] = "idle"
    BY <1>4 DEF response, Call, Wait, TimeOut, Pop, Consume, StopResponder, StopPost, queue
  <2> QED BY <1>1, <2>1, <2>2, <2>3
<1>5. CASE StopPools \/ Destroyed \/ UNCHANGED vars
  BY <1>1, <1>5 DEF StopPools, Destroyed, vars, registry, caller, queue, pool, consumer, Opened
<1> QED BY <1>2, <1>3, <1>4, <1>5, CallersCaller DEF Next
-----------------------------------------------------------------------------
(* The tasks of an opened submission do not change.                        *)
LEMMA TasksStable ==
  ASSUME Inv, Next \/ UNCHANGED vars, NEW id \in Opened
  PROVE  /\ id \in Ids /\ shape'[id] = shape[id] /\ TasksOf(id)' = TasksOf(id)
         /\ \A w, b, i : Tasks(id, w, b)' = Tasks(id, w, b) /\ BatchTasks(id, w, b)' = BatchTasks(id, w, b)
                         /\ BatchEnd(id, w, b)' = BatchEnd(id, w, b)
         /\ \A t : t[1] = id => TaskRange(t)' = TaskRange(t) /\ TaskEnd(t)' = TaskEnd(t)
<1>1. id \in Ids
  BY DEF Inv, TypeOK, RegistryType, ConsumerType, Opened
<1>2. shape'[id] = shape[id]
  BY <1>1, StableWorld
<1>3. TasksOf(id)' = TasksOf(id)
  BY <1>2 DEF TasksOf
<1>4. \A w, b : Tasks(id, w, b)' = Tasks(id, w, b)
  BY <1>2 DEF Tasks
<1>5. \A w, b : BatchTasks(id, w, b)' = BatchTasks(id, w, b) /\ BatchEnd(id, w, b)' = BatchEnd(id, w, b)
  BY <1>4 DEF BatchTasks, BatchEnd
<1>6. \A t : t[1] = id => TaskRange(t)' = TaskRange(t) /\ TaskEnd(t)' = TaskEnd(t)
  BY <1>4 DEF TaskRange, TaskEnd
<1> QED BY <1>1, <1>2, <1>3, <1>4, <1>5, <1>6

(* What is known stays known, and what is queued may stay queued.          *)
LEMMA KnownStable ==
  ASSUME Inv, Next \/ UNCHANGED vars, NEW t
  PROVE  /\ Known(t) => Known(t)' /\ TaskRange(t)' = TaskRange(t) /\ TaskEnd(t)' = TaskEnd(t)
         /\ Queued(t) => Queued(t)'
<1>1. ASSUME Known(t) PROVE Known(t)' /\ TaskRange(t)' = TaskRange(t) /\ TaskEnd(t)' = TaskEnd(t)
  <2>1. Started(t[1]) /\ t[1] \in Opened /\ t \in TasksOf(t[1])
    BY <1>1 DEF Known, Started
  <2>2. Started(t[1])'
    BY <2>1, TasksStable, StableWorld
  <2>3. TasksOf(t[1])' = TasksOf(t[1]) /\ TaskRange(t)' = TaskRange(t) /\ TaskEnd(t)' = TaskEnd(t)
    BY <2>1, TasksStable
  <2>4. Known(t)'
    BY <2>1, <2>2, <2>3 DEF Known
  <2> QED BY <2>3, <2>4
<1>2. ASSUME Queued(t) PROVE Queued(t)'
  <2>1. Started(t[1]) /\ t[1] \in Opened
    BY <1>2 DEF Queued, Started
  <2>2. Started(t[1])' /\ shape'[t[1]] = shape[t[1]]
    BY <2>1, TasksStable, StableWorld
  <2> QED BY <1>2, <2>2 DEF Queued
<1> QED BY <1>1, <1>2

(* A step that brings only known work keeps the work known.                *)
LEMMA WorksFrame ==
  ASSUME Inv, Next \/ UNCHANGED vars,
         \A t \in Threads : \A i \in 1..Len(todo'[t]) : Known(todo'[t][i]),
         \A t \in Threads : step'[t] # "mark" => todo'[t] # <<>>,
         \A w \in Workers : wpc'[w] \in {"idle", "open", "exit"} => todo'[w] = <<>>,
         \A t \in finished' : Known(t),
         \A i \in 1..Len(deque') : Queued(deque'[i]),
         \A w \in Workers : wpc'[w] \notin {"idle", "exit"} =>
           /\ Queued(work'[w]) /\ batch'[w] \in DOMAIN shape[work'[w][1]].work[work'[w][2]]
           /\ unfinished'[w] <= Len(BatchTasks(work'[w][1], work'[w][2], batch'[w]))
  PROVE  Works'
<1>1. \A t \in Threads : \A i \in 1..Len(todo'[t]) : Known(todo[t][i])'
  <2> SUFFICES ASSUME NEW t \in Threads, NEW i \in 1..Len(todo'[t]) PROVE Known(todo[t][i])'
    OBVIOUS
  <2>1. PICK x : x = todo'[t][i]
    OBVIOUS
  <2>2. Known(x)
    BY <2>1
  <2>3. Known(x)'
    BY <2>2, KnownStable
  <2> QED BY <2>1, <2>3 DEF Known
<1>2. \A t \in finished' : Known(t)'
  BY KnownStable
<1>3. \A i \in 1..Len(deque') : Queued(deque[i])'
  <2> SUFFICES ASSUME NEW i \in 1..Len(deque') PROVE Queued(deque[i])'
    OBVIOUS
  <2>1. PICK x : x = deque'[i]
    OBVIOUS
  <2>2. Queued(x)
    BY <2>1
  <2>3. Queued(x)'
    BY <2>2, KnownStable
  <2> QED BY <2>1, <2>3 DEF Queued
<1>4. ASSUME NEW w \in Workers, wpc'[w] \notin {"idle", "exit"}
      PROVE  /\ Queued(work[w])' /\ batch'[w] \in DOMAIN shape'[work'[w][1]].work[work'[w][2]]
             /\ unfinished'[w] <= Len(CurTasks(w)')
  <2>1. /\ Queued(work'[w]) /\ batch'[w] \in DOMAIN shape[work'[w][1]].work[work'[w][2]]
        /\ unfinished'[w] <= Len(BatchTasks(work'[w][1], work'[w][2], batch'[w]))
    BY <1>4
  <2>a. PICK x : x = work'[w]
    OBVIOUS
  <2>b. Queued(x)
    BY <2>1, <2>a
  <2>c. Queued(x)'
    BY <2>b, KnownStable
  <2>2. work'[w][1] \in Opened /\ Queued(work[w])'
    BY <2>1, <2>a, <2>c DEF Queued, Started
  <2>3. /\ shape'[work'[w][1]] = shape[work'[w][1]]
        /\ shape'[work'[w][1]].work[work'[w][2]][batch'[w]] = shape[work'[w][1]].work[work'[w][2]][batch'[w]]
    BY <2>2, TasksStable
  <2>4. CurTasks(w)' = BatchTasks(work'[w][1], work'[w][2], batch'[w])
    BY <2>3 DEF CurTasks, CurId, BatchTasks, Tasks
  <2> QED BY <2>1, <2>2, <2>3, <2>4
<1> QED BY <1>1, <1>2, <1>3, <1>4 DEF Works

(* async_request brings only work of its own submission, once started.     *)
LEMMA WorksCaller ==
  ASSUME Inv, NEW p \in Submitters, async_request(p)
  PROVE  Works'
<1>0. TypeOK /\ Callers /\ Works /\ Next
  BY DEF Inv, Next
<1>1. FinishingType /\ PoolType /\ CallerType /\ p \in Threads
      /\ \A w \in Workers : w \in Threads /\ w # p
  BY <1>0, ThreadAssumption DEF TypeOK, Threads
<1>2. /\ \A t \in Threads : \A i \in 1..Len(todo[t]) : Known(todo[t][i])
      /\ \A t \in Threads : step[t] # "mark" => todo[t] # <<>>
      /\ \A w \in Workers : wpc[w] \in {"idle", "open", "exit"} => todo[w] = <<>>
      /\ \A t \in finished : Known(t)
      /\ \A i \in 1..Len(deque) : Queued(deque[i])
  BY <1>0 DEF Works
<1>3. \A w \in Workers : wpc[w] \notin {"idle", "exit"} =>
        /\ Queued(work[w]) /\ batch[w] \in DOMAIN shape[work[w][1]].work[work[w][2]]
        /\ unfinished[w] <= Len(BatchTasks(work[w][1], work[w][2], batch[w]))
  BY <1>0 DEF Works, CurTasks, CurId
<1>4. /\ UNCHANGED <<wpc, work, unfinished, finished>>
      /\ \A w \in Workers : batch'[w] = batch[w]
  <2>1. /\ UNCHANGED <<wpc, work, unfinished, finished>>
    BY DEF async_request, Generate, Build, BuildFails, Add, Increment, Dispatch, DispatchThrows,
       DrainUndispatched, DrainLoses, Return, pool, requests
  <2>2. \E n : batch' = [batch EXCEPT ![p] = n]
    <3>1. batch = [batch EXCEPT ![p] = batch[p]]
      BY <1>1 DEF PoolType
    <3> QED BY <3>1 DEF async_request, Generate, Build, BuildFails, Add, Increment, Dispatch, DispatchThrows,
         DrainUndispatched, DrainLoses, Return, pool
  <2> QED BY <1>1, <2>1, <2>2 DEF PoolType
<1>5. \A w \in Workers : wpc'[w] \notin {"idle", "exit"} =>
        /\ Queued(work'[w]) /\ batch'[w] \in DOMAIN shape[work'[w][1]].work[work'[w][2]]
        /\ unfinished'[w] <= Len(BatchTasks(work'[w][1], work'[w][2], batch'[w]))
  BY <1>3, <1>4
<1>6. pc[p] \in {"dispatch", "drain"} => Started(sub[p])
  BY <1>0 DEF Callers, CallerSane, Started
<1>7. CASE DrainUndispatched(p)
  <2> DEFINE x == IF shape[sub[p]].work[next[p]] = <<>> THEN <<>>
                  ELSE BatchTasks(sub[p], next[p], batch[p])
  <2>1. /\ pc[p] = "drain" /\ next[p] <= Len(shape[sub[p]].work) /\ todo[p] = <<>>
        /\ todo' = [todo EXCEPT ![p] = x] /\ UNCHANGED <<step, deque>>
    BY <1>7 DEF DrainUndispatched
  <2>2. \A i \in 1..Len(x) : x[i] \in TasksOf(sub[p])
    BY <1>0, <2>1, DrainFacts
  <2>3. \A i \in 1..Len(x) : x[i][1] = sub[p]
    BY <2>2, TaskIn
  <2>4. \A i \in 1..Len(x) : Known(x[i])
    BY <1>6, <2>1, <2>2, <2>3 DEF Known
  <2> HIDE DEF x
  <2>5. \A t \in Threads : todo'[t] = IF t = p THEN x ELSE todo[t]
    BY <1>1, <2>1 DEF FinishingType
  <2>6. step[p] = "mark"
    BY <1>1, <1>2, <2>1
  <2>7. \A t \in Threads : \A i \in 1..Len(todo'[t]) : Known(todo'[t][i])
    BY <1>2, <2>4, <2>5
  <2>8. \A t \in Threads : step'[t] # "mark" => todo'[t] # <<>>
    BY <1>2, <2>1, <2>5, <2>6
  <2>9. \A w \in Workers : todo'[w] = todo[w]
    BY <1>1, <2>5
  <2> QED BY <1>0, <1>2, <1>4, <1>5, <2>1, <2>7, <2>8, <2>9, WorksFrame
<1>8. CASE DrainLoses(p)
  <2>1. todo' = [todo EXCEPT ![p] = <<>>] /\ step' = [step EXCEPT ![p] = "mark"] /\ UNCHANGED deque
    BY <1>8 DEF DrainLoses
  <2>2. \A t \in Threads : /\ todo'[t] = IF t = p THEN <<>> ELSE todo[t]
                           /\ step'[t] = IF t = p THEN "mark" ELSE step[t]
    BY <1>1, <2>1 DEF FinishingType
  <2>3. \A t \in Threads : \A i \in 1..Len(todo'[t]) : Known(todo'[t][i])
    BY <1>2, <2>2
  <2> QED BY <1>0, <1>1, <1>2, <1>4, <1>5, <2>1, <2>2, <2>3, WorksFrame
<1>9. CASE Dispatch(p)
  <2>1. /\ pc[p] = "dispatch" /\ next[p] <= Len(shape[sub[p]].work)
        /\ deque' = IF shape[sub[p]].work[next[p]] = <<>> THEN deque
                    ELSE Append(deque, <<sub[p], next[p]>>)
        /\ UNCHANGED <<todo, step>>
    BY <1>9 DEF Dispatch, finishing
  <2>2. next[p] \in DOMAIN shape[sub[p]].work
    BY <1>0, <2>1, DrainFacts
  <2>3. shape[sub[p]].work[next[p]] # <<>> => Queued(<<sub[p], next[p]>>)
    BY <1>6, <2>1, <2>2 DEF Queued
  <2>4. deque \in Seq(Nat \X Nat) /\ Len(deque) \in Nat
    BY <1>1 DEF PoolType
  <2>5. <<sub[p], next[p]>> \in Nat \X Nat
    BY <1>1 DEF CallerType
  <2>6. \A i \in 1..Len(deque') : Queued(deque'[i])
    <3>1. CASE shape[sub[p]].work[next[p]] = <<>>
      BY <1>2, <2>1, <3>1
    <3>2. CASE shape[sub[p]].work[next[p]] # <<>>
      <4>1. deque' = Append(deque, <<sub[p], next[p]>>)
        BY <2>1, <3>2
      <4>2. /\ Len(deque') = Len(deque) + 1 /\ deque'[Len(deque) + 1] = <<sub[p], next[p]>>
            /\ \A i \in 1..Len(deque) : deque'[i] = deque[i]
        BY <2>4, <2>5, <4>1, AppendProperties
      <4>3. ASSUME NEW i \in 1..Len(deque') PROVE i \in 1..Len(deque) \/ i = Len(deque) + 1
        BY <2>4, <4>2
      <4> QED BY <1>2, <2>3, <3>2, <4>2, <4>3
    <3> QED BY <3>1, <3>2
  <2> QED BY <1>0, <1>2, <1>4, <1>5, <2>1, <2>6, WorksFrame
<1>10. CASE ~DrainUndispatched(p) /\ ~DrainLoses(p) /\ ~Dispatch(p)
  <2>1. UNCHANGED <<todo, step, deque>>
    BY <1>10 DEF async_request, Generate, Build, BuildFails, Add, Increment, DispatchThrows, Return,
       pool, finishing
  <2> QED BY <1>0, <1>2, <1>4, <1>5, <2>1, WorksFrame
<1> QED BY <1>7, <1>8, <1>9, <1>10

(* Finishing a task leaves the others.                                     *)
LEMMA WorksFinish ==
  ASSUME Inv, NEW t \in Threads, Finish(t)
  PROVE  Works'
<1>0. TypeOK /\ Works /\ Next /\ FinishingType
  BY DEF Inv, Next, TypeOK
<1>1. UNCHANGED <<wpc, work, batch, unfinished, deque>>
  BY FinishFrame DEF pool
<1>2. todo[t] # <<>>
  BY DEF Finish, MarkTask, CountTask, Push, Post
<1>3. /\ Len(todo[t]) \in Nat \ {0} /\ First(t) = todo[t][1]
      /\ \A i \in 1..Len(Tail(todo[t])) : i + 1 \in 1..Len(todo[t]) /\ Tail(todo[t])[i] = todo[t][i + 1]
  BY <1>0, <1>2, FirstFacts
<1>4. /\ \A u \in Threads : \A i \in 1..Len(todo[u]) : Known(todo[u][i])
      /\ \A u \in Threads : step[u] # "mark" => todo[u] # <<>>
      /\ \A w \in Workers : wpc[w] \in {"idle", "open", "exit"} => todo[w] = <<>>
      /\ \A u \in finished : Known(u)
      /\ \A i \in 1..Len(deque) : Queued(deque[i])
      /\ \A w \in Workers : wpc[w] \notin {"idle", "exit"} =>
           /\ Queued(work[w]) /\ batch[w] \in DOMAIN shape[work[w][1]].work[work[w][2]]
           /\ unfinished[w] <= Len(BatchTasks(work[w][1], work[w][2], batch[w]))
  BY <1>0 DEF Works, CurTasks, CurId
<1>5. \/ Advance(t)
      \/ todo' = todo /\ \E s : step' = [step EXCEPT ![t] = s]
  BY DEF Finish, MarkTask, CountTask, Push, Post
<1>6. /\ \A u \in Threads : u # t => todo'[u] = todo[u] /\ step'[u] = step[u]
      /\ \/ todo'[t] = Tail(todo[t]) /\ step'[t] = "mark"
         \/ todo'[t] = todo[t]
  BY <1>0, <1>5 DEF Advance, FinishingType
<1>7. \A u \in Threads : \A i \in 1..Len(todo'[u]) : Known(todo'[u][i])
  <2>1. \A i \in 1..Len(Tail(todo[t])) : Known(Tail(todo[t])[i])
    BY <1>3, <1>4
  <2> QED BY <1>4, <1>6, <2>1, Zenon
<1>8. \A u \in Threads : step'[u] # "mark" => todo'[u] # <<>>
  BY <1>2, <1>4, <1>6
<1>9. \A w \in Workers : wpc'[w] \in {"idle", "open", "exit"} => todo'[w] = <<>>
  BY <1>1, <1>2, <1>4, <1>6 DEF Threads
<1>10. \A u \in finished' : Known(u)
  <2>1. finished' \subseteq finished \cup {First(t)}
    BY DEF Finish, MarkTask, CountTask, Push, Post, requests
  <2>2. Known(First(t))
    BY <1>3, <1>4
  <2> QED BY <1>4, <2>1, <2>2
<1> QED BY <1>0, <1>1, <1>4, <1>7, <1>8, <1>9, <1>10, WorksFrame

(* A pool thread is at a batch of a queued workload.                       *)
LEMMA WorksExecute ==
  ASSUME Inv, NEW w \in Workers, execute(w)
  PROVE  Works'
<1>0. TypeOK /\ Works /\ Next /\ FinishingType /\ PoolType /\ w \in Threads
  BY DEF Inv, Next, TypeOK, Threads
<1>1. UNCHANGED <<finished, shape>>
  BY ExecuteFrame DEF requests, registry
<1>2. /\ \A u \in Threads : \A i \in 1..Len(todo[u]) : Known(todo[u][i])
      /\ \A u \in Threads : step[u] # "mark" => todo[u] # <<>>
      /\ \A v \in Workers : wpc[v] \in {"idle", "open", "exit"} => todo[v] = <<>>
      /\ \A u \in finished : Known(u)
      /\ \A i \in 1..Len(deque) : Queued(deque[i])
      /\ \A v \in Workers : wpc[v] \notin {"idle", "exit"} =>
           /\ Queued(work[v]) /\ batch[v] \in DOMAIN shape[work[v][1]].work[work[v][2]]
           /\ unfinished[v] <= Len(BatchTasks(work[v][1], work[v][2], batch[v]))
  BY <1>0 DEF Works, CurTasks, CurId
<1>3. /\ todo[w] = <<>> /\ step' = step
  BY <1>2 DEF execute, PopWorkload, OpenFile, ReadBlock, EndRead, EndBatch, NextBatch, ExitWorker,
     FailBatch, FinishUntil, finishing
<1>4. step[w] = "mark"
  BY <1>0, <1>2, <1>3
<1>5. ASSUME NEW v \in Workers, v # w
      PROVE  wpc'[v] = wpc[v] /\ work'[v] = work[v] /\ batch'[v] = batch[v] /\ unfinished'[v] = unfinished[v]
  <2>1. v \in Threads /\ wpc \in [Workers -> Wpcs] /\ work \in [Workers -> Nat \X Nat]
        /\ batch \in [Threads -> Nat \ {0}] /\ unfinished \in [Workers -> Nat]
    BY <1>0 DEF PoolType, Threads
  <2> QED BY <1>5, <2>1 DEF execute, PopWorkload, OpenFile, ReadBlock, EndRead, EndBatch, NextBatch, ExitWorker,
     FailBatch, FinishUntil
<1>6. \A u \in Threads : u # w => todo'[u] = todo[u]
  BY <1>0 DEF FinishingType, execute, PopWorkload, OpenFile, ReadBlock, EndRead, EndBatch, NextBatch, ExitWorker,
     FailBatch, FinishUntil, finishing
<1>7. ASSUME \A i \in 1..Len(todo'[w]) : Known(todo'[w][i]),
             wpc'[w] \in {"idle", "open", "exit"} => todo'[w] = <<>>,
             \A i \in 1..Len(deque') : Queued(deque'[i]),
             wpc'[w] \notin {"idle", "exit"} =>
               /\ Queued(work'[w]) /\ batch'[w] \in DOMAIN shape[work'[w][1]].work[work'[w][2]]
               /\ unfinished'[w] <= Len(BatchTasks(work'[w][1], work'[w][2], batch'[w]))
      PROVE  Works'
  <2>1. \A u \in Threads : \A i \in 1..Len(todo'[u]) : Known(todo'[u][i])
    BY <1>2, <1>6, <1>7
  <2>2. \A u \in Threads : step'[u] # "mark" => todo'[u] # <<>>
    BY <1>2, <1>3, <1>4, <1>6
  <2>3. \A v \in Workers : wpc'[v] \in {"idle", "open", "exit"} => todo'[v] = <<>>
    BY <1>2, <1>5, <1>6, <1>7 DEF Threads
  <2>4. \A v \in Workers : wpc'[v] \notin {"idle", "exit"} =>
          /\ Queued(work'[v]) /\ batch'[v] \in DOMAIN shape[work'[v][1]].work[work'[v][2]]
          /\ unfinished'[v] <= Len(BatchTasks(work'[v][1], work'[v][2], batch'[v]))
    BY <1>2, <1>5, <1>7
  <2> QED BY <1>0, <1>1, <1>2, <1>7, <2>1, <2>2, <2>3, <2>4, WorksFrame
<1>8. wpc[w] \notin {"idle", "exit"} =>
        /\ Len(CurTasks(w)) \in Nat /\ (\A i \in 1..Len(CurTasks(w)) : Known(CurTasks(w)[i]))
        /\ CurTasks(w) = BatchTasks(work[w][1], work[w][2], batch[w])
  BY <1>0, CurFacts DEF CurTasks, CurId
<1>9. ASSUME NEW c, FailBatch(w, c), wpc[w] \notin {"idle", "exit"} PROVE Works'
  <2>1. todo'[w] = CurTasks(w) /\ wpc'[w] = "next" /\ UNCHANGED <<deque, work, batch, unfinished>>
    BY <1>0, <1>9 DEF FailBatch, FinishingType, PoolType
  <2> QED BY <1>2, <1>7, <1>8, <1>9, <2>1
<1>10. ASSUME NEW upto, FinishUntil(w, upto), UNCHANGED <<deque, work, batch>>,
              wpc[w] \notin {"idle", "exit"}, wpc'[w] \in {"read", "ended"}
       PROVE  Works'
  <2> DEFINE s == SubSeq(CurTasks(w), unfinished[w] + 1, Reached(w, upto))
  <2>1. \A i \in 1..Len(s) : unfinished[w] + i \in 1..Reached(w, upto) /\ s[i] = CurTasks(w)[unfinished[w] + i]
    BY <1>0, <1>10, FinishUntilFacts
  <2>2. Reached(w, upto) \in 0..Len(CurTasks(w)) /\ Reached(w, upto) \in Nat
    BY <1>0, <1>10, ReachedFacts
  <2>3. todo'[w] = s /\ unfinished'[w] = Reached(w, upto)
    BY <1>0, <1>10 DEF FinishUntil, FinishingType, PoolType
  <2> HIDE DEF s
  <2>4. \A i \in 1..Len(s) : Known(s[i])
    <3> SUFFICES ASSUME NEW i \in 1..Len(s) PROVE Known(s[i])
      OBVIOUS
    <3>1. unfinished[w] + i \in 1..Len(CurTasks(w))
      BY <1>8, <1>10, <2>1, <2>2
    <3> QED BY <1>8, <1>10, <2>1, <3>1
  <2>5. Reached(w, upto) <= Len(CurTasks(w))
    BY <1>8, <1>10, <2>2
  <2> QED BY <1>2, <1>7, <1>8, <1>10, <2>3, <2>4, <2>5
<1>11. CASE PopWorkload(w)
  <2>1. /\ wpc[w] = "idle" /\ deque # <<>> /\ work'[w] = Head(deque) /\ deque' = Tail(deque) /\ batch'[w] = 1
        /\ unfinished'[w] = 0 /\ wpc'[w] = "open" /\ todo' = todo
    BY <1>0, <1>11 DEF PopWorkload, PoolType, finishing
  <2>2. /\ deque \in Seq(Nat \X Nat)
    BY <1>0 DEF PoolType
  <2>3. /\ Head(deque) = deque[1] /\ Len(deque) \in Nat \ {0} /\ Len(Tail(deque)) = Len(deque) - 1
        /\ \A i \in 1..Len(Tail(deque)) : Tail(deque)[i] = deque[i + 1]
    BY <2>1, <2>2, HeadTailProperties, EmptySeq
  <2>4. \A i \in 1..Len(deque') : Queued(deque'[i])
    BY <1>2, <2>1, <2>3
  <2>5. Queued(deque[1])
    BY <1>2, <2>3
  <2> DEFINE id == deque[1][1]
             k == deque[1][2]
  <2>6. /\ id \in Opened /\ k \in DOMAIN shape[id].work /\ shape[id].work[k] # <<>>
    BY <2>5 DEF Queued, Started
  <2>7. id \in Ids /\ RegistryType
    BY <1>0, <2>6 DEF TypeOK, RegistryType, ConsumerType, Opened
  <2>8. shape[id].work[k] \in Seq(BatchShape)
    BY <2>6, <2>7, ShapeType DEF RegistryType
  <2>9. 1 \in DOMAIN shape[id].work[k]
    BY <2>6, <2>8, SeqFacts, EmptySeq
  <2>10. 0 <= Len(BatchTasks(id, k, 1))
    BY <2>6, <2>7, <2>9, BatchTasksIn
  <2> QED BY <1>3, <1>7, <2>1, <2>3, <2>4, <2>5, <2>9, <2>10
<1>12. CASE OpenFile(w)
  <2>1. CASE FailBatch(w, "FileAccessError")
    BY <1>9, <1>12, <2>1 DEF OpenFile
  <2>2. CASE ~FailBatch(w, "FileAccessError")
    <3>1. wpc'[w] = "read" /\ wpc[w] = "open" /\ UNCHANGED <<todo, deque, work, batch, unfinished>>
      BY <1>0, <1>12, <2>2 DEF OpenFile, PoolType, finishing
    <3> QED BY <1>0, <1>2, <1>7, <3>1
  <2> QED BY <2>1, <2>2
<1>13. CASE ReadBlock(w)
  <2>1. CASE FailBatch(w, "FileAccessError")
    BY <1>9, <1>13, <2>1 DEF ReadBlock
  <2>2. CASE ~FailBatch(w, "FileAccessError")
    <3>1. wpc[w] = "read" /\ UNCHANGED <<wpc, deque, work, batch>> /\ \E upto : FinishUntil(w, upto)
      BY <1>13, <2>2 DEF ReadBlock
    <3> QED BY <1>10, <3>1
  <2> QED BY <2>1, <2>2
<1>14. CASE EndRead(w)
  <2>1. wpc[w] = "read" /\ wpc'[w] = "ended" /\ UNCHANGED <<deque, work, batch>>
    BY <1>0, <1>14 DEF EndRead, PoolType
  <2>2. CASE FinishUntil(w, CurEnd(w))
    BY <1>10, <2>1, <2>2
  <2>3. CASE UNCHANGED <<finishing, unfinished>>
    BY <1>0, <1>2, <1>7, <2>1, <2>3 DEF finishing
  <2> QED BY <1>14, <2>2, <2>3 DEF EndRead
<1>15. CASE EndBatch(w)
  <2>1. CASE FailBatch(w, "FinishedError")
    BY <1>9, <1>15, <2>1 DEF EndBatch
  <2>2. CASE ~FailBatch(w, "FinishedError")
    <3>1. wpc'[w] = "next" /\ wpc[w] = "ended" /\ UNCHANGED <<todo, deque, work, batch, unfinished>>
      BY <1>0, <1>15, <2>2 DEF EndBatch, PoolType, finishing
    <3> QED BY <1>0, <1>2, <1>7, <3>1
  <2> QED BY <2>1, <2>2
<1>16. CASE NextBatch(w)
  <2>1. wpc[w] = "next" /\ UNCHANGED <<todo, deque, work>>
    BY <1>16 DEF NextBatch, finishing
  <2>2. CASE wpc'[w] = "idle"
    BY <1>2, <1>3, <1>7, <2>1, <2>2
  <2>3. CASE wpc'[w] # "idle"
    <3> DEFINE bs == shape[work[w][1]].work[work[w][2]]
    <3>1. batch[w] < Len(bs) /\ batch'[w] = batch[w] + 1 /\ unfinished'[w] = 0 /\ wpc'[w] = "open"
      BY <1>0, <1>16, <2>3 DEF NextBatch, PoolType, CurId
    <3>2. CurId(w) \in Ids /\ work[w][2] \in DOMAIN shape[CurId(w)].work /\ RegistryType /\ work[w][1] = CurId(w)
      BY <1>0, <2>1, CurFacts DEF CurId, TypeOK
    <3>3. bs \in Seq(BatchShape)
      BY <3>2, ShapeType DEF RegistryType
    <3>4. DOMAIN bs = 1..Len(bs) /\ Len(bs) \in Nat
      BY <3>3, SeqFacts
    <3>5. batch[w] + 1 \in DOMAIN bs
      <4>1. batch[w] \in Nat
        BY <1>0 DEF PoolType
      <4> HIDE DEF bs
      <4> QED BY <3>1, <3>4, <4>1
    <3>6. 0 <= Len(BatchTasks(work[w][1], work[w][2], batch[w] + 1))
      BY <3>2, <3>5, BatchTasksIn
    <3> QED BY <1>2, <1>3, <1>7, <2>1, <3>1, <3>5, <3>6
  <2> QED BY <2>2, <2>3
<1>17. CASE ExitWorker(w)
  <2>1. wpc'[w] = "exit" /\ UNCHANGED <<todo, deque>>
    BY <1>0, <1>17 DEF ExitWorker, PoolType, finishing
  <2> QED BY <1>2, <1>3, <1>7, <2>1
<1> QED BY <1>11, <1>12, <1>13, <1>14, <1>15, <1>16, <1>17 DEF execute

(* Every step keeps the work known.                                        *)
LEMMA WorksStep ==
  ASSUME Inv, Next \/ UNCHANGED vars
  PROVE  Works'
<1>0. Works
  BY DEF Inv
<1>1. CASE response \/ StopResponder \/ StopPost \/ StopPools \/ Destroyed \/ UNCHANGED vars
  <2>1. UNCHANGED <<todo, step, finished, wpc, work, batch, unfinished>> /\ deque' \in {deque, <<>>}
    <3>1. CASE response \/ StopResponder \/ StopPost
      BY <3>1, ResponseFrame DEF requests, finishing, pool
    <3>2. CASE StopPools \/ Destroyed \/ UNCHANGED vars
      BY <3>2 DEF StopPools, Destroyed, vars, requests, finishing, pool
    <3> QED BY <1>1, <3>1, <3>2
  <2>2. \A i \in 1..Len(deque') : Queued(deque'[i])
    BY <1>0, <2>1 DEF Works
  <2>3. \A w \in Workers : wpc[w] \notin {"idle", "exit"} =>
           /\ Queued(work[w]) /\ batch[w] \in DOMAIN shape[work[w][1]].work[work[w][2]]
           /\ unfinished[w] <= Len(BatchTasks(work[w][1], work[w][2], batch[w]))
    BY <1>0 DEF Works, CurTasks, CurId
  <2>4. /\ \A u \in Threads : \A i \in 1..Len(todo[u]) : Known(todo[u][i])
        /\ \A u \in Threads : step[u] # "mark" => todo[u] # <<>>
        /\ \A v \in Workers : wpc[v] \in {"idle", "open", "exit"} => todo[v] = <<>>
        /\ \A u \in finished : Known(u)
    BY <1>0 DEF Works
  <2> QED BY <2>1, <2>2, <2>3, <2>4, WorksFrame
<1> QED BY <1>1, WorksCaller, WorksFinish, WorksExecute DEF Next
-----------------------------------------------------------------------------
(* The counters of a submission that keeps its shape, when no thread       *)
(* starts or ends counting.                                                *)
LEMMA CountsFrame ==
  ASSUME NEW id \in Ids, NEW r, shape'[id] = shape[id], finished' = finished,
         \A t \in Threads : /\ step'[t] = "count" <=> step[t] = "count"
                            /\ step[t] = "count" => todo'[t] = todo[t]
  PROVE  /\ Unfinished(id, r)' = Unfinished(id, r) /\ AtStep("count", id, r)' = AtStep("count", id, r)
         /\ TasksOf(id)' = TasksOf(id) /\ \A t : t[1] = id => TaskRange(t)' = TaskRange(t)
<1>1. TasksOf(id)' = TasksOf(id)
  BY DEF TasksOf
<1>2. \A t : t[1] = id => TaskRange(t)' = TaskRange(t)
  BY DEF TaskRange, Tasks
<1>3. \A t \in TasksOf(id) : t[1] = id
  BY TaskIn
<1>4. Unfinished(id, r)' = Unfinished(id, r)
  BY <1>1, <1>2, <1>3 DEF Unfinished
<1>5. ASSUME NEW t \in Threads, step[t] = "count"
      PROVE  FirstId(t)' = FirstId(t) /\ (FirstId(t) = id => FirstRange(t)' = FirstRange(t))
  <2>1. todo'[t] = todo[t]
    BY <1>5
  <2>2. First(t)' = First(t) /\ FirstId(t)' = FirstId(t)
    BY <2>1 DEF First, FirstId
  <2>3. FirstId(t) = id => TaskRange(First(t))' = TaskRange(First(t))
    BY <2>2 DEF FirstId, TaskRange, Tasks
  <2> QED BY <2>2, <2>3 DEF FirstRange
<1>6. AtStep("count", id, r)' = AtStep("count", id, r)
  BY <1>5 DEF AtStep
<1> QED BY <1>1, <1>2, <1>4, <1>6

(* Marking a task moves it from the tasks left to the threads that count.  *)
LEMMA CountedMark ==
  ASSUME Inv, NEW t \in Threads, MarkTask(t)
  PROVE  Counted'
<1>0. TypeOK /\ Works /\ Counted /\ FinishingType /\ Next
  BY DEF Inv, TypeOK, Next, Finish
<1>1. /\ todo[t] # <<>> /\ step[t] = "mark" /\ UNCHANGED <<shape, live, done, pc, sub, left>>
  BY DEF MarkTask, registry, caller, consumer, requests
<1>2. \A id \in Ids : Built(id)' <=> Built(id)
  BY <1>1 DEF Built, Opened
<1>3. CASE First(t) \in finished
  <2>1. finished' = finished /\ Advance(t)
    BY <1>3 DEF MarkTask, requests
  <2>2. \A u \in Threads : /\ step'[u] = "count" <=> step[u] = "count"
                           /\ step[u] = "count" => todo'[u] = todo[u]
    BY <1>0, <1>1, <2>1 DEF Advance, FinishingType
  <2> QED BY <1>0, <1>1, <1>2, <2>1, <2>2, CountsFrame DEF Counted
<1>4. CASE First(t) \notin finished
  <2>0. PICK x, fid, fr : x = First(t) /\ fid = FirstId(t) /\ fr = FirstRange(t)
    OBVIOUS
  <2>1. finished' = finished \cup {x} /\ step' = [step EXCEPT ![t] = "count"] /\ todo' = todo
    BY <1>4, <2>0 DEF MarkTask
  <2>2. x \in TasksOf(fid) /\ fid \in Ids /\ fr = TaskRange(x) /\ x[1] = fid
    BY <1>0, <1>1, <2>0, FirstFacts DEF FirstRange, FirstId
  <2>3. \A u \in Threads : step'[u] = "count" <=> step[u] = "count" \/ u = t
    BY <1>0, <2>1 DEF FinishingType
  <2>4. \A u : FirstId(u)' = FirstId(u) /\ FirstRange(u)' = FirstRange(u)
    BY <1>1, <2>1 DEF FirstId, FirstRange, First, TaskRange, Tasks
  <2>5. \A y : TaskRange(y)' = TaskRange(y) /\ TasksOf(y)' = TasksOf(y)
    BY <1>1 DEF TaskRange, Tasks, TasksOf
  <2>6. ASSUME NEW id \in Ids, NEW r \in RangeNo, Built(id), id # fid \/ r # fr
        PROVE  left'[id][r] = Cardinality(Unfinished(id, r)') + Cardinality(AtStep("count", id, r)')
    <3>1. AtStep("count", id, r)' = AtStep("count", id, r)
      BY <2>0, <2>3, <2>4, <2>6 DEF AtStep
    <3>2. \A y \in TasksOf(id) : y[1] = id
      BY TaskIn
    <3>3. Unfinished(id, r)' = Unfinished(id, r)
      BY <2>1, <2>2, <2>5, <2>6, <3>2 DEF Unfinished
    <3> QED BY <1>0, <1>1, <2>6, <3>1, <3>3 DEF Counted
  <2>7. ASSUME Built(fid), fr \in RangeNo
        PROVE  left'[fid][fr] = Cardinality(Unfinished(fid, fr)') + Cardinality(AtStep("count", fid, fr)')
    <3>1. AtStep("count", fid, fr)' = AtStep("count", fid, fr) \cup {t}
      BY <2>0, <2>3, <2>4 DEF AtStep
    <3>2. Unfinished(fid, fr)' = Unfinished(fid, fr) \ {x}
      BY <2>1, <2>5 DEF Unfinished
    <3>3. t \notin AtStep("count", fid, fr)
      BY <1>1 DEF AtStep
    <3>4. x \in Unfinished(fid, fr)
      BY <1>4, <2>0, <2>2 DEF Unfinished
    <3>5. /\ IsFiniteSet(Unfinished(fid, fr)) /\ Cardinality(Unfinished(fid, fr)) \in Nat
          /\ IsFiniteSet(AtStep("count", fid, fr)) /\ Cardinality(AtStep("count", fid, fr)) \in Nat
      BY <1>0, <2>2, CountsFinite
    <3>6. Cardinality(Unfinished(fid, fr)') = Cardinality(Unfinished(fid, fr)) - 1
      BY <3>2, <3>4, <3>5, FS_RemoveElement
    <3>7. Cardinality(AtStep("count", fid, fr)') = Cardinality(AtStep("count", fid, fr)) + 1
      BY <3>1, <3>3, <3>5, FS_AddElement
    <3>8. left[fid][fr] = Cardinality(Unfinished(fid, fr)) + Cardinality(AtStep("count", fid, fr))
      BY <1>0, <2>2, <2>7 DEF Counted
    <3> QED BY <1>1, <3>5, <3>6, <3>7, <3>8
  <2> QED BY <1>2, <2>6, <2>7 DEF Counted
<1> QED BY <1>3, <1>4

(* Counting a task takes its thread from the threads that count.           *)
LEMMA CountedCount ==
  ASSUME Inv, NEW t \in Threads, CountTask(t)
  PROVE  Counted'
<1>0. TypeOK /\ Works /\ Counted /\ FinishingType /\ RequestsType
  BY DEF Inv, TypeOK
<1>a. PICK fid, fr : fid = FirstId(t) /\ fr = FirstRange(t)
  OBVIOUS
<1>1. /\ todo[t] # <<>> /\ step[t] = "count" /\ UNCHANGED <<shape, live, done, pc, sub, finished>>
      /\ left' = [left EXCEPT ![fid][fr] = left[fid][fr] - 1]
  BY <1>a DEF CountTask, registry, caller, consumer
<1>2. \A id \in Ids : Built(id)' <=> Built(id)
  BY <1>1 DEF Built, Opened
<1>3. \A u \in Threads : /\ step'[u] = "count" <=> step[u] = "count" /\ u # t
                         /\ u # t => todo'[u] = todo[u]
  BY <1>0, <1>1 DEF FinishingType, CountTask, Advance
<1>4. fid \in Ids /\ fr \in RangeNo
  BY <1>0, <1>1, <1>a, FirstFacts
<1>5. \A u \in Threads : u # t => FirstId(u)' = FirstId(u) /\ FirstRange(u)' = FirstRange(u)
  BY <1>1, <1>3 DEF FirstId, FirstRange, First, TaskRange, Tasks
<1>6. \A id, r : Unfinished(id, r)' = Unfinished(id, r)
  BY <1>1 DEF Unfinished, TaskRange, Tasks, TasksOf
<1>7. ASSUME NEW id \in Ids, NEW r \in RangeNo, Built(id), id # fid \/ r # fr
      PROVE  left'[id][r] = Cardinality(Unfinished(id, r)') + Cardinality(AtStep("count", id, r)')
  <2>1. AtStep("count", id, r)' = AtStep("count", id, r)
    BY <1>1, <1>3, <1>5, <1>7, <1>a DEF AtStep
  <2>2. left'[id][r] = left[id][r]
    BY <1>0, <1>1, <1>4, <1>7 DEF RequestsType
  <2> QED BY <1>0, <1>6, <1>7, <2>1, <2>2 DEF Counted
<1>8. ASSUME Built(fid)
      PROVE  left'[fid][fr] = Cardinality(Unfinished(fid, fr)') + Cardinality(AtStep("count", fid, fr)')
  <2>1. AtStep("count", fid, fr)' = AtStep("count", fid, fr) \ {t}
    BY <1>1, <1>3, <1>5 DEF AtStep
  <2>2. t \in AtStep("count", fid, fr)
    BY <1>1, <1>a DEF AtStep
  <2>3. /\ Cardinality(Unfinished(fid, fr)) \in Nat
        /\ IsFiniteSet(AtStep("count", fid, fr)) /\ Cardinality(AtStep("count", fid, fr)) \in Nat
    BY <1>0, <1>4, CountsFinite
  <2>4. Cardinality(AtStep("count", fid, fr)') = Cardinality(AtStep("count", fid, fr)) - 1
    BY <2>1, <2>2, <2>3, FS_RemoveElement
  <2>5. left'[fid][fr] = left[fid][fr] - 1
    BY <1>0, <1>1, <1>4 DEF RequestsType
  <2>6. left[fid][fr] = Cardinality(Unfinished(fid, fr)) + Cardinality(AtStep("count", fid, fr))
    BY <1>0, <1>4, <1>8 DEF Counted
  <2> QED BY <1>6, <2>3, <2>4, <2>5, <2>6
<1> QED BY <1>2, <1>7, <1>8 DEF Counted

(* Every step keeps the counters exact.                                    *)
LEMMA CountedStep ==
  ASSUME Inv, Next \/ UNCHANGED vars
  PROVE  Counted'
<1>0. TypeOK /\ Callers /\ Works /\ Counted /\ FinishingType /\ RequestsType
  BY DEF Inv, TypeOK
<1>1. ASSUME UNCHANGED <<left, finished>>, \A p \in Submitters : ~Build(p),
             \A t \in Threads : /\ step'[t] = "count" <=> step[t] = "count"
                                /\ step[t] = "count" => todo'[t] = todo[t]
      PROVE  Counted'
  <2> SUFFICES ASSUME NEW id \in Ids, NEW r \in RangeNo, Built(id)'
               PROVE  left'[id][r] = Cardinality(Unfinished(id, r)') + Cardinality(AtStep("count", id, r)')
    BY DEF Counted
  <2>1. Built(id) /\ shape'[id] = shape[id]
    BY <1>1, StableWorld
  <2>2. Unfinished(id, r)' = Unfinished(id, r) /\ AtStep("count", id, r)' = AtStep("count", id, r)
    BY <1>1, <2>1, CountsFrame
  <2> QED BY <1>0, <1>1, <2>1, <2>2 DEF Counted
<1>2. CASE \E p \in Submitters : Build(p)
  <2>1. PICK p \in Submitters : Build(p)
    BY <1>2
  <2>a. PICK new : new = sub[p]
    OBVIOUS
  <2> DEFINE c == [r \in 1..MaxRanges |-> TaskCount(new, r)]
  <2>2. /\ left' = [left EXCEPT ![new] = c] /\ pc[p] = "build" /\ pc' = [pc EXCEPT ![p] = "add"]
        /\ UNCHANGED <<finished, step, todo, shape, live, done, sub>>
    BY <2>1, <2>a DEF Build, registry, finishing, consumer
  <2>3. new \in Ids /\ new \notin Opened /\ ~Started(new)
    BY <1>0, <2>2, <2>a DEF Callers, CallerSane, Started
  <2>4. \A id \in Ids : id # new => (Built(id)' => Built(id))
    <3>1. pc \in [Submitters -> Pcs]
      BY <1>0 DEF TypeOK, CallerType
    <3> QED BY <2>2, <2>a, <3>1 DEF Built, Opened
  <2> HIDE DEF c
  <2>5. \A id \in Ids, r \in RangeNo : /\ Unfinished(id, r)' = Unfinished(id, r)
                                       /\ AtStep("count", id, r)' = AtStep("count", id, r)
    BY <2>2, CountsFrame
  <2>6. ASSUME NEW id \in Ids, NEW r \in RangeNo, Built(id)', id # new
        PROVE  left'[id][r] = Cardinality(Unfinished(id, r)') + Cardinality(AtStep("count", id, r)')
    <3>1. left'[id] = left[id]
      BY <1>0, <2>2, <2>6 DEF RequestsType
    <3> QED BY <1>0, <2>4, <2>5, <2>6, <3>1 DEF Counted
  <2>7. ASSUME NEW r \in RangeNo
        PROVE  left'[new][r] = Cardinality(Unfinished(new, r)') + Cardinality(AtStep("count", new, r)')
    <3>1. left'[new][r] = TaskCount(new, r)
      BY <1>0, <2>2, <2>3 DEF RequestsType, c, RangeNo
    <3>2. AtStep("count", new, r) = {}
      <4> SUFFICES ASSUME NEW t \in Threads, step[t] = "count", FirstId(t) = new PROVE FALSE
        BY DEF AtStep
      <4>1. todo[t] # <<>>
        BY <1>0 DEF Works
      <4> QED BY <1>0, <2>3, <4>1, FirstFacts
    <3>3. \A t \in TasksOf(new) : t \notin finished
      <4> SUFFICES ASSUME NEW t \in TasksOf(new), t \in finished PROVE FALSE
        OBVIOUS
      <4>1. t[1] = new
        BY TaskIn
      <4> QED BY <1>0, <2>3, <4>1 DEF Works, Known
    <3>4. Unfinished(new, r) = {t \in TasksOf(new) : TaskRange(t) = r}
      BY <3>3 DEF Unfinished
    <3>5. Cardinality(AtStep("count", new, r)) = 0
      BY <3>2, FS_EmptySet
    <3>6. TaskCount(new, r) = Cardinality(Unfinished(new, r)) /\ Cardinality(Unfinished(new, r)) \in Nat
      BY <1>0, <2>3, <3>4, CountsFinite DEF TaskCount
    <3> QED BY <2>3, <2>5, <3>1, <3>5, <3>6
  <2> QED BY <2>6, <2>7 DEF Counted
<1>3. CASE \E p \in Submitters : async_request(p) /\ ~Build(p)
  <2>1. PICK p \in Submitters : async_request(p) /\ ~Build(p)
    BY <1>3
  <2>2. UNCHANGED <<left, finished>>
    BY <2>1 DEF async_request, Generate, BuildFails, Add, Increment, Dispatch, DispatchThrows,
       DrainUndispatched, DrainLoses, Return, requests
  <2>3. ASSUME NEW q \in Submitters, Build(q) PROVE FALSE
    <3>1. left' = left /\ \A u \in Submitters : pc[u] = "build" /\ pc' # pc /\ pc'[u] = "add" => u = p
      BY <1>0, <2>1, <2>2 DEF async_request, Generate, BuildFails, Add, Increment, Dispatch, DispatchThrows,
         DrainUndispatched, DrainLoses, Return, TypeOK, CallerType
    <3>2. pc[q] = "build" /\ pc'[q] = "add"
      BY <1>0, <2>3 DEF Build, TypeOK, CallerType
    <3>3. q = p
      BY <3>1, <3>2
    <3> QED BY <2>1, <2>3, <3>3
  <2>4. \A t \in Threads : /\ step'[t] = "count" <=> step[t] = "count"
                           /\ step[t] = "count" => todo'[t] = todo[t]
    <3>1. CASE DrainUndispatched(p)
      <4>1. todo[p] = <<>> /\ step' = step /\ \E x : todo' = [todo EXCEPT ![p] = x]
        BY <3>1 DEF DrainUndispatched
      <4>2. step[p] # "count"
        BY <1>0, <4>1 DEF Works, Threads
      <4> QED BY <1>0, <4>1, <4>2 DEF FinishingType
    <3>2. CASE DrainLoses(p)
      <4>1. step[p] = "push" /\ step' = [step EXCEPT ![p] = "mark"] /\ todo' = [todo EXCEPT ![p] = <<>>]
        BY <3>2 DEF DrainLoses
      <4> QED BY <1>0, <4>1 DEF FinishingType
    <3>3. CASE ~DrainUndispatched(p) /\ ~DrainLoses(p)
      <4>1. UNCHANGED <<todo, step>>
        BY <2>1, <3>3 DEF async_request, Generate, BuildFails, Add, Increment, Dispatch, DispatchThrows,
           Return, finishing
      <4> QED BY <4>1
    <3> QED BY <3>1, <3>2, <3>3
  <2> QED BY <1>1, <2>2, <2>3, <2>4
<1>4. CASE \E t \in Threads : Push(t) \/ Post(t)
  <2>1. PICK t \in Threads : Push(t) \/ Post(t)
    BY <1>4
  <2>2. UNCHANGED <<left, finished, pc>> /\ step[t] \in {"push", "post"}
        /\ \/ Advance(t)
           \/ step' = [step EXCEPT ![t] = "post"] /\ todo' = todo
    BY <2>1 DEF Push, Post, requests, caller
  <2>3. \A u \in Threads : /\ step'[u] = "count" <=> step[u] = "count"
                           /\ step[u] = "count" => todo'[u] = todo[u]
    BY <1>0, <2>2 DEF Advance, FinishingType
  <2>4. \A p \in Submitters : ~Build(p)
    BY <1>0, <2>2 DEF Build, TypeOK, CallerType
  <2> QED BY <1>1, <2>2, <2>3, <2>4
<1>5. CASE \E w \in Workers : execute(w)
  <2>1. PICK w \in Workers : execute(w)
    BY <1>5
  <2>2. UNCHANGED <<left, finished, pc>>
    BY <2>1, ExecuteFrame DEF requests, caller
  <2>3. \A p \in Submitters : ~Build(p)
    BY <1>0, <2>2 DEF Build, TypeOK, CallerType
  <2>4. todo[w] = <<>> /\ step' = step
    BY <1>0, <2>1 DEF Works, execute, PopWorkload, OpenFile, ReadBlock, EndRead, EndBatch, NextBatch, ExitWorker,
     FailBatch, FinishUntil, finishing
  <2>5. step[w] # "count"
    BY <1>0, <2>4 DEF Works, Threads
  <2>6. \A u \in Threads : u # w => todo'[u] = todo[u]
    BY <1>0, <2>1 DEF FinishingType, execute, PopWorkload, OpenFile, ReadBlock, EndRead, EndBatch, NextBatch, ExitWorker,
     FailBatch, FinishUntil, finishing
  <2> QED BY <1>1, <2>2, <2>3, <2>4, <2>5, <2>6
<1>6. CASE response \/ StopResponder \/ StopPost \/ StopPools \/ Destroyed \/ UNCHANGED vars
  <2>1. UNCHANGED <<todo, step, left, finished, pc>>
    <3>1. CASE response \/ StopResponder \/ StopPost
      BY <3>1, ResponseFrame DEF requests, finishing, caller
    <3>2. CASE StopPools \/ Destroyed \/ UNCHANGED vars
      BY <3>2 DEF StopPools, Destroyed, vars, requests, finishing, caller
    <3> QED BY <1>6, <3>1, <3>2
  <2>2. \A p \in Submitters : ~Build(p)
    BY <1>0, <2>1 DEF Build, TypeOK, CallerType
  <2> QED BY <1>1, <2>1, <2>2
<1> QED BY <1>2, <1>3, <1>4, <1>5, <1>6, CountedMark, CountedCount DEF Next, Finish
-----------------------------------------------------------------------------
(* Handing a response from one part to the next keeps what was pushed.     *)
LEMMA PopKeeps ==
  ASSUME NEW S, NEW a \in Seq(S), NEW c \in Seq(S), c # <<>>
  PROVE  a \o <<>> \o c = a \o <<Head(c)>> \o Tail(c)
<1>1. Head(c) \in S /\ Tail(c) \in Seq(S) /\ Len(Tail(c)) = Len(c) - 1 /\ Len(c) \in Nat
      /\ \A i \in 1..Len(Tail(c)) : Tail(c)[i] = c[i + 1]
  BY HeadTailProperties
<1>2. <<Head(c)>> \in Seq(S)
  BY <1>1
<1> DEFINE d == <<Head(c)>> \o Tail(c)
<1>3. d \in Seq(S) /\ Len(d) = 1 + Len(Tail(c))
      /\ \A i \in 1..1 + Len(Tail(c)) : d[i] = IF i <= 1 THEN <<Head(c)>>[i] ELSE Tail(c)[i - 1]
  BY <1>1, <1>2, ConcatProperties
<1>4. d = c
  <2>1. Len(d) = Len(c)
    BY <1>1, <1>3
  <2>2. ASSUME NEW i \in 1..Len(d) PROVE d[i] = c[i]
    <3>1. CASE i = 1
      BY <1>1, <1>3, <3>1
    <3>2. CASE i # 1
      <4>1. i - 1 \in 1..Len(Tail(c)) /\ ~(i <= 1) /\ i \in 1..1 + Len(Tail(c)) /\ (i - 1) + 1 = i
        BY <1>1, <1>3, <3>2
      <4> QED BY <1>1, <1>3, <4>1
    <3> QED BY <3>1, <3>2
  <2> HIDE DEF d
  <2> QED BY <1>3, <2>1, <2>2, SeqEqual
<1>5. (a \o <<Head(c)>>) \o Tail(c) = a \o d
  BY <1>1, <1>2, ConcatAssociative
<1>6. a \o <<>> = a
  BY ConcatEmptySeq
<1> QED BY <1>4, <1>5, <1>6

(* Consuming the popped response moves it to what was delivered.           *)
LEMMA ConsumeKeeps ==
  ASSUME NEW S, NEW a \in Seq(S), NEW b \in Seq(S), NEW c \in Seq(S), Len(b) = 1
  PROVE  a \o b \o c = Append(a, b[1]) \o <<>> \o c
<1>1. b[1] \in S /\ <<b[1]>> \in Seq(S) /\ b = <<b[1]>>
  OBVIOUS
<1>2. Append(a, b[1]) = a \o <<b[1]>> /\ Append(a, b[1]) \in Seq(S)
  BY <1>1, AppendIsConcat, AppendProperties
<1>3. Append(a, b[1]) \o <<>> = Append(a, b[1])
  BY <1>2, ConcatEmptySeq
<1> QED BY <1>1, <1>2, <1>3

(* A response pushed is the last of all that were pushed.                  *)
LEMMA PushAppends ==
  ASSUME NEW S, NEW a \in Seq(S), NEW b \in Seq(S), NEW c \in Seq(S), NEW m \in S
  PROVE  a \o b \o Append(c, m) = Append(a \o b \o c, m)
<1> DEFINE d == a \o b
<1>1. d \in Seq(S) /\ <<m>> \in Seq(S)
  BY ConcatProperties
<1>2. Append(c, m) = c \o <<m>>
  BY AppendIsConcat
<1> HIDE DEF d
<1>3. d \o c \in Seq(S)
  BY <1>1, ConcatProperties
<1>4. Append(d \o c, m) = (d \o c) \o <<m>>
  BY <1>3, AppendIsConcat
<1>5. (d \o c) \o <<m>> = d \o (c \o <<m>>)
  BY <1>1, ConcatAssociative
<1> QED BY <1>2, <1>4, <1>5 DEF d

(* Only push adds to what was pushed.                                      *)
LEMMA PushedStep ==
  ASSUME Inv, Next \/ UNCHANGED vars, \A t \in Threads : ~Push(t)
  PROVE  Pushed' = Pushed
<1>0. TypeOK /\ Waking /\ delivered \in Seq(Response) /\ popped \in Seq(Response) /\ responses \in Seq(Response)
      /\ ready \in Nat
  BY DEF Inv, TypeOK, ConsumerType, QueueType
<1>1. ASSUME UNCHANGED <<responses, popped, delivered>> PROVE Pushed' = Pushed
  BY <1>1 DEF Pushed
<1>2. CASE \E p \in Submitters : async_request(p)
  BY <1>1, <1>2 DEF async_request, Generate, Build, BuildFails, Add, Increment, Dispatch, DispatchThrows,
         DrainUndispatched, DrainLoses, Return, queue, consumer
<1>3. CASE \E t \in Threads : Finish(t)
  BY <1>1, <1>3 DEF Finish, MarkTask, CountTask, Post, queue, consumer
<1>4. CASE \E w \in Workers : execute(w)
  BY <1>1, <1>4, ExecuteFrame DEF queue, consumer
<1>5. CASE Pop
  <2>1. CASE rstopped
    BY <1>1, <1>5, <2>1 DEF Pop
  <2>2. CASE ~rstopped
    <3>1. /\ popped' = <<Head(responses)>> /\ responses' = Tail(responses) /\ delivered' = delivered
          /\ cpc = "lock"
      BY <1>5, <2>2 DEF Pop
    <3>2. Len(popped) = 0 /\ Len(responses) = ready + Cardinality(Posting) + 1
      BY <1>0, <2>2, <3>1 DEF Waking
    <3>3. popped = <<>>
      BY <1>0, <3>2
    <3>4. IsFiniteSet(Threads)
      BY ThreadAssumption, FS_Union DEF Threads
    <3>5. IsFiniteSet(Posting)
      BY <3>4, FS_Subset DEF Posting
    <3>6. Cardinality(Posting) \in Nat
      BY <3>5, FS_CardinalityType
    <3>7. responses # <<>>
      BY <1>0, <3>2, <3>6
    <3>8. delivered \o <<>> \o responses = delivered \o <<Head(responses)>> \o Tail(responses)
      BY <1>0, <3>7, PopKeeps
    <3> QED BY <3>1, <3>3, <3>8 DEF Pushed
  <2> QED BY <2>1, <2>2
<1>6. CASE Consume
  <2>1. /\ cpc = "consume" /\ delivered' = Append(delivered, popped[1]) /\ popped' = <<>>
        /\ responses' = responses
    BY <1>6 DEF Consume, queue
  <2>2. Len(popped) = 1
    BY <1>0, <2>1 DEF Waking
  <2>3. delivered \o popped \o responses = Append(delivered, popped[1]) \o <<>> \o responses
    BY <1>0, <2>2, ConsumeKeeps
  <2> QED BY <2>1, <2>3 DEF Pushed
<1>7. CASE Call \/ Wait \/ TimeOut \/ StopResponder \/ StopPost \/ StopPools \/ Destroyed \/ UNCHANGED vars
  BY <1>1, <1>7 DEF Call, Wait, TimeOut, StopResponder, StopPost, StopPools, Destroyed, vars, queue, consumer
<1> QED BY <1>2, <1>3, <1>4, <1>5, <1>6, <1>7 DEF Next, response

(* The responder expects the ranges of the started submissions.            *)
LEMMA ExpectedIs ==
  ASSUME TypeOK
  PROVE  /\ Expected = {x \in Ids \X RangeNo : Started(x[1]) /\ x[2] <= shape[x[1]].ranges}
         /\ IsFiniteSet(Expected) /\ Cardinality(Expected) \in Nat
<1>1. Expected = {x \in Ids \X RangeNo : Started(x[1]) /\ x[2] <= shape[x[1]].ranges}
  BY DEF Expected, Started, Opened, RangeNo
<1>2. IsFiniteSet(Ids) /\ IsFiniteSet(RangeNo)
  BY FS_Interval, BoundAssumption DEF Ids, RangeNo
<1>3. IsFiniteSet(Ids \X RangeNo)
  BY <1>2, FS_Product
<1>4. IsFiniteSet(Expected)
  BY <1>1, <1>3, FS_Subset
<1> QED BY <1>1, <1>4, FS_CardinalityType

(* A thread about to push is expected: its range is not among the pushed.  *)
LEMMA PushIsExpected ==
  ASSUME Inv, NEW t \in Threads, step[t] = "push"
  PROVE  running > 0
<1>0. TypeOK /\ Works /\ PushedOnce /\ Owing /\ QueueType /\ ConsumerType
  BY DEF Inv, TypeOK
<1> DEFINE x == <<FirstId(t), FirstRange(t)>>
           n == Len(Pushed)
           T == Expected \ {x}
           f == [i \in 1..n |-> <<Pushed[i].id, Pushed[i].range>>]
<1>1. todo[t] # <<>>
  BY <1>0 DEF Works
<1>2. /\ FirstId(t) \in Ids /\ FirstRange(t) \in RangeNo /\ Started(FirstId(t))
      /\ FirstRange(t) \in 1..shape[FirstId(t)].ranges
  BY <1>0, <1>1, FirstFacts
<1>3. x \in Expected
  BY <1>0, <1>2, ExpectedIs DEF RangeNo
<1>4. n \in Nat /\ \A i \in 1..n : Pushed[i].id \in Ids /\ Pushed[i].range \in RangeNo
  BY <1>0, PushedParts, LenProperties
<1>5. \A i \in 1..n : Started(Pushed[i].id) /\ Pushed[i].range \in 1..shape[Pushed[i].id].ranges
  BY <1>0 DEF PushedOnce
<1>6. \A i \in 1..n : f[i] # x
  BY <1>0 DEF PushedOnce, Answers
<1>7. \A i \in 1..n : f[i] \in Expected
  BY <1>0, <1>4, <1>5, ExpectedIs DEF RangeNo
<1>8. \A i, j \in 1..n : f[i] = f[j] => i = j
  BY <1>0 DEF PushedOnce
<1>a. f \in [1..n -> T]
  BY <1>6, <1>7
<1>10. IsFiniteSet(Expected) /\ Cardinality(Expected) \in Nat
  BY <1>0, ExpectedIs
<1> HIDE DEF f, n, x
<1>9. f \in Injection(1..n, T)
  BY <1>8, <1>a DEF Injection, IsInjective
<1>11. IsFiniteSet(T) /\ Cardinality(T) = Cardinality(Expected) - 1
  BY <1>3, <1>10, FS_RemoveElement
<1>12. Cardinality(1..n) <= Cardinality(T)
  BY <1>9, <1>11, FS_Injection
<1>13. Cardinality(1..n) = n
  BY <1>4, FS_Interval
<1>14. running + n = Cardinality(Expected) /\ running \in Nat
  BY <1>0 DEF Owing, n, QueueType
<1> QED BY <1>4, <1>10, <1>11, <1>12, <1>13, <1>14

(* What push does, then: it adds the response of its range, unless the     *)
(* responder is stopped.                                                   *)
LEMMA PushEffect ==
  ASSUME Inv, NEW t \in Threads, Push(t)
  PROVE  LET m == [id |-> FirstId(t), range |-> FirstRange(t), ret |-> ret[FirstId(t)][FirstRange(t)]]
         IN  /\ m \in Response /\ unexpected' = unexpected
             /\ \/ /\ rstopped /\ Advance(t) /\ UNCHANGED <<running, responses>> /\ Pushed' = Pushed
                \/ /\ ~rstopped /\ running > 0 /\ running' = running - 1
                   /\ responses' = Append(responses, m) /\ Pushed' = Append(Pushed, m)
                   /\ step' = [step EXCEPT ![t] = "post"] /\ UNCHANGED <<todo, code>>
<1> DEFINE m == [id |-> FirstId(t), range |-> FirstRange(t), ret |-> ret[FirstId(t)][FirstRange(t)]]
<1>0. TypeOK /\ Works /\ RequestsType /\ todo[t] # <<>> /\ running > 0 /\ UNCHANGED <<delivered, popped>>
      /\ delivered \in Seq(Response) /\ popped \in Seq(Response) /\ responses \in Seq(Response)
  BY PushIsExpected DEF Inv, TypeOK, Push, ConsumerType, QueueType, consumer
<1>1. m \in Response
  BY <1>0, FirstFacts DEF RequestsType, Response
<1>2. CASE rstopped
  BY <1>0, <1>1, <1>2 DEF Push, Pushed
<1>3. CASE ~rstopped
  <2>1. /\ running' = running - 1 /\ responses' = Append(responses, m)
        /\ step' = [step EXCEPT ![t] = "post"] /\ UNCHANGED <<unexpected, todo, code>>
    BY <1>0, <1>3 DEF Push
  <2> HIDE DEF m
  <2>2. delivered \o popped \o Append(responses, m) = Append(delivered \o popped \o responses, m)
    BY <1>0, <1>1, PushAppends
  <2>3. Pushed' = Append(Pushed, m)
    BY <1>0, <2>1, <2>2 DEF Pushed
  <2> QED BY <1>0, <1>1, <1>3, <2>1, <2>3 DEF m
<1> QED BY <1>2, <1>3

(* A step that pushes nothing and elects nobody.                           *)
LEMMA PushedOnceFrame ==
  ASSUME Inv, Next \/ UNCHANGED vars, Pushed' = Pushed,
         \A id \in Ids : Started(id) => left'[id] = left[id],
         \A t \in Threads : step'[t] = "push" => step[t] = "push" /\ todo'[t] = todo[t]
  PROVE  PushedOnce'
<1>0. TypeOK /\ Works /\ PushedOnce /\ QueueType /\ ConsumerType
  BY DEF Inv, TypeOK
<1>1. ASSUME NEW t \in Threads, step'[t] = "push"
      PROVE  /\ FirstId(t)' = FirstId(t) /\ FirstRange(t)' = FirstRange(t)
             /\ left'[FirstId(t)] = left[FirstId(t)] /\ step[t] = "push"
  <2>1. step[t] = "push" /\ todo'[t] = todo[t] /\ todo[t] # <<>>
    BY <1>0, <1>1 DEF Works
  <2>2. PICK x : x = First(t)
    OBVIOUS
  <2>3. First(t)' = x
    BY <2>1, <2>2 DEF First
  <2>4. Known(x)
    BY <1>0, <2>1, <2>2, FirstFacts DEF Known, FirstId
  <2>5. TaskRange(x)' = TaskRange(x)
    BY <2>4, KnownStable
  <2>6. FirstRange(t)' = FirstRange(t)
    BY <2>2, <2>3, <2>5 DEF FirstRange, TaskRange, Tasks
  <2>7. FirstId(t) \in Ids /\ Started(FirstId(t))
    BY <1>0, <2>1, FirstFacts
  <2> QED BY <2>1, <2>2, <2>3, <2>6, <2>7 DEF FirstId
<1>2. ASSUME NEW i \in 1..Len(Pushed)
      PROVE  /\ Started(Pushed[i].id)' /\ Pushed[i].range \in 1..shape'[Pushed[i].id].ranges
             /\ left'[Pushed[i].id][Pushed[i].range] = 0
  <2>1. PICK id : id = Pushed[i].id
    OBVIOUS
  <2>2. id \in Ids /\ Started(id) /\ Pushed[i].range \in 1..shape[id].ranges /\ left[id][Pushed[i].range] = 0
    BY <1>0, <2>1, PushedParts DEF PushedOnce
  <2>3. Started(id)' /\ shape'[id] = shape[id] /\ left'[id] = left[id]
    BY <2>2, StableWorld DEF Started
  <2> QED BY <2>1, <2>2, <2>3 DEF Started, Pushed, Opened
<1>3. ASSUME NEW t \in Threads, step'[t] = "push"
      PROVE  left'[FirstId(t)'][FirstRange(t)'] = 0 /\ Answers(FirstId(t), FirstRange(t))' = {}
  BY <1>0, <1>1, <1>3 DEF PushedOnce, Answers
<1>4. ASSUME NEW t \in Threads, NEW u \in Threads, step'[t] = "push", step'[u] = "push",
             FirstId(t)' = FirstId(u)', FirstRange(t)' = FirstRange(u)'
      PROVE  t = u
  BY <1>0, <1>1, <1>4 DEF PushedOnce
<1>5. \A i \in 1..Len(Pushed') : Started(Pushed[i].id)'
        /\ Pushed'[i].range \in 1..shape'[Pushed'[i].id].ranges
        /\ left'[Pushed'[i].id][Pushed'[i].range] = 0
  BY <1>2
<1>6. \A i, j \in 1..Len(Pushed') :
        Pushed'[i].id = Pushed'[j].id /\ Pushed'[i].range = Pushed'[j].range => i = j
  BY <1>0 DEF PushedOnce
<1> QED BY <1>3, <1>4, <1>5, <1>6 DEF PushedOnce

(* The count that reaches zero elects the only thread that will push.      *)
LEMMA PushedOnceCount ==
  ASSUME Inv, NEW t \in Threads, CountTask(t)
  PROVE  PushedOnce'
<1>0. TypeOK /\ Works /\ Counted /\ PushedOnce /\ QueueType /\ ConsumerType /\ RequestsType /\ FinishingType
      /\ (Next \/ UNCHANGED vars) /\ \A u \in Threads : ~Push(u)
  <2>1. \A u \in Threads : step[u] = "push" => step'[u] = "push"
    BY DEF Inv, TypeOK, FinishingType, CountTask, Advance
  <2>2. left' # left
    <3>1. FirstId(t) \in Ids /\ FirstRange(t) \in RangeNo
      BY FirstFacts DEF CountTask, Inv
    <3>2. left[FirstId(t)][FirstRange(t)] \in Nat
      BY CountPositive DEF CountTask, Inv
    <3>3. left'[FirstId(t)][FirstRange(t)] = left[FirstId(t)][FirstRange(t)] - 1
      BY <3>1 DEF CountTask, Inv, TypeOK, RequestsType
    <3> QED BY <3>2, <3>3
  <2> QED BY <2>1, <2>2 DEF Inv, TypeOK, Next, Finish, Push, requests
<1>a. PICK fid, fr : fid = FirstId(t) /\ fr = FirstRange(t)
  OBVIOUS
<1>1. /\ todo[t] # <<>> /\ step[t] = "count" /\ UNCHANGED <<shape, live, done, pc, sub, responses, popped, delivered>>
      /\ left' = [left EXCEPT ![fid][fr] = left[fid][fr] - 1]
      /\ \/ left[fid][fr] = 1 /\ step' = [step EXCEPT ![t] = "push"] /\ UNCHANGED todo
         \/ left[fid][fr] # 1 /\ Advance(t)
  BY <1>a DEF CountTask, registry, caller, consumer, queue
<1>2. left[fid][fr] \in Nat \ {0} /\ fid \in Ids /\ fr \in RangeNo
  BY <1>0, <1>1, <1>a, CountPositive, FirstFacts
<1>3. Pushed' = Pushed /\ \A id : Started(id)' <=> Started(id)
  BY <1>1 DEF Pushed, Started, Opened
<1>4. \A id \in Ids, r \in RangeNo : left[id][r] = 0 => left'[id][r] = 0
  BY <1>0, <1>1, <1>2 DEF RequestsType
<1>5. ASSUME NEW i \in 1..Len(Pushed)
      PROVE  /\ Started(Pushed[i].id) /\ Pushed[i].range \in 1..shape[Pushed[i].id].ranges
             /\ left'[Pushed[i].id][Pushed[i].range] = 0 /\ ~(Pushed[i].id = fid /\ Pushed[i].range = fr)
  <2>1. Pushed[i].id \in Ids /\ Pushed[i].range \in RangeNo
    BY <1>0, PushedParts
  <2>2. /\ Started(Pushed[i].id) /\ Pushed[i].range \in 1..shape[Pushed[i].id].ranges
        /\ left[Pushed[i].id][Pushed[i].range] = 0
    BY <1>0 DEF PushedOnce
  <2> QED BY <1>2, <1>4, <2>1, <2>2
<1>6. \A u \in Threads : u # t => /\ step'[u] = step[u] /\ todo'[u] = todo[u]
                                  /\ FirstId(u)' = FirstId(u) /\ FirstRange(u)' = FirstRange(u)
  <2>1. \A u \in Threads : u # t => step'[u] = step[u] /\ todo'[u] = todo[u]
    BY <1>0, <1>1 DEF FinishingType, Advance
  <2> QED BY <1>1, <2>1 DEF FirstId, FirstRange, First, TaskRange, Tasks
<1>7. ASSUME NEW u \in Threads, u # t, step'[u] = "push"
      PROVE  /\ left'[FirstId(u)'][FirstRange(u)'] = 0 /\ Answers(FirstId(u), FirstRange(u))' = {}
             /\ ~(FirstId(u) = fid /\ FirstRange(u) = fr)
  <2>1. step[u] = "push" /\ FirstId(u)' = FirstId(u) /\ FirstRange(u)' = FirstRange(u)
    BY <1>6, <1>7
  <2>2. left[FirstId(u)][FirstRange(u)] = 0 /\ Answers(FirstId(u), FirstRange(u)) = {} /\ todo[u] # <<>>
    BY <1>0, <2>1 DEF PushedOnce, Works
  <2>3. FirstId(u) \in Ids /\ FirstRange(u) \in RangeNo
    BY <1>0, <2>2, FirstFacts
  <2>4. Answers(FirstId(u), FirstRange(u))' = Answers(FirstId(u), FirstRange(u))
    BY <1>3, <2>1 DEF Answers
  <2> QED BY <1>2, <1>4, <2>1, <2>2, <2>3, <2>4
<1>8. ASSUME step'[t] = "push"
      PROVE  /\ FirstId(t)' = fid /\ FirstRange(t)' = fr
             /\ left'[FirstId(t)'][FirstRange(t)'] = 0 /\ Answers(FirstId(t), FirstRange(t))' = {}
  <2>1. left[fid][fr] = 1 /\ UNCHANGED todo
    BY <1>0, <1>1, <1>8 DEF FinishingType, Advance
  <2>2. FirstId(t)' = fid /\ FirstRange(t)' = fr
    BY <1>1, <1>a, <2>1 DEF FirstId, FirstRange, First, TaskRange, Tasks
  <2>3. left'[fid][fr] = 0
    BY <1>0, <1>1, <1>2, <2>1 DEF RequestsType
  <2>4. Answers(FirstId(t), FirstRange(t))' = {}
    BY <1>3, <1>5, <2>2 DEF Answers
  <2> QED BY <2>2, <2>3, <2>4
<1>9. \A u \in Threads : step'[u] = "push" =>
        left'[FirstId(u)'][FirstRange(u)'] = 0 /\ Answers(FirstId(u), FirstRange(u))' = {}
  BY <1>7, <1>8
<1>10. ASSUME NEW u \in Threads, NEW v \in Threads, step'[u] = "push", step'[v] = "push",
              FirstId(u)' = FirstId(v)', FirstRange(u)' = FirstRange(v)'
       PROVE  u = v
  <2>1. CASE u # t /\ v # t
    BY <1>0, <1>6, <1>10, <2>1 DEF PushedOnce
  <2>2. CASE u = t /\ v # t
    BY <1>6, <1>7, <1>8, <1>10, <2>2
  <2>3. CASE u # t /\ v = t
    BY <1>6, <1>7, <1>8, <1>10, <2>3
  <2> QED BY <2>1, <2>2, <2>3
<1>11. \A i \in 1..Len(Pushed') : /\ Started(Pushed[i].id)'
          /\ Pushed'[i].range \in 1..shape'[Pushed'[i].id].ranges
          /\ left'[Pushed'[i].id][Pushed'[i].range] = 0
  <2>1. \A i : Started(Pushed[i].id)' <=> Started(Pushed[i].id)
    BY <1>1, <1>3 DEF Started, Opened
  <2> QED BY <1>1, <1>3, <1>5, <2>1
<1>12. \A i, j \in 1..Len(Pushed') :
         Pushed'[i].id = Pushed'[j].id /\ Pushed'[i].range = Pushed'[j].range => i = j
  BY <1>0, <1>3 DEF PushedOnce
<1> QED BY <1>9, <1>10, <1>11, <1>12 DEF PushedOnce

(* Pushing adds one response, of a range that had none.                    *)
LEMMA PushedOncePush ==
  ASSUME Inv, NEW t \in Threads, Push(t)
  PROVE  PushedOnce'
<1>0. TypeOK /\ Works /\ PushedOnce /\ QueueType /\ ConsumerType /\ FinishingType /\ (Next \/ UNCHANGED vars)
  BY DEF Inv, TypeOK, Next, Finish
<1>a. PICK fid, fr : fid = FirstId(t) /\ fr = FirstRange(t)
  OBVIOUS
<1>1. /\ todo[t] # <<>> /\ step[t] = "push" /\ UNCHANGED <<shape, live, done, pc, sub, left>>
  BY DEF Push, registry, caller, consumer, requests
<1>2. CASE rstopped
  <2>1. Advance(t) /\ Pushed' = Pushed
    BY <1>2, PushEffect
  <2>2. \A u \in Threads : step'[u] = "push" => step[u] = "push" /\ todo'[u] = todo[u]
    BY <1>0, <2>1 DEF Advance, FinishingType
  <2> QED BY <1>0, <1>1, <2>1, <2>2, PushedOnceFrame
<1>3. CASE ~rstopped
  <2>1. PICK m \in Response : /\ m.id = fid /\ m.range = fr /\ Pushed' = Append(Pushed, m)
                              /\ step' = [step EXCEPT ![t] = "post"] /\ UNCHANGED todo
    BY <1>3, <1>a, PushEffect
  <2>2. Pushed \in Seq(Response) /\ Len(Pushed) \in Nat
    BY <1>0, PushedParts
  <2>3. /\ Len(Pushed') = Len(Pushed) + 1 /\ Pushed'[Len(Pushed) + 1] = m
        /\ \A i \in 1..Len(Pushed) : Pushed'[i] = Pushed[i]
    BY <2>1, <2>2, AppendProperties
  <2>4. \A i \in 1..Len(Pushed') : i \in 1..Len(Pushed) \/ i = Len(Pushed) + 1
    BY <2>2, <2>3
  <2>5. /\ left[fid][fr] = 0 /\ Started(fid) /\ fr \in 1..shape[fid].ranges
        /\ \A i \in 1..Len(Pushed) : ~(Pushed[i].id = fid /\ Pushed[i].range = fr)
    BY <1>0, <1>1, <1>a, FirstFacts DEF PushedOnce, Answers
  <2>6. \A u \in Threads : /\ step'[u] = "push" => step[u] = "push" /\ u # t
                           /\ FirstId(u)' = FirstId(u) /\ FirstRange(u)' = FirstRange(u)
    BY <1>0, <1>1, <2>1 DEF FinishingType, FirstId, FirstRange, First, TaskRange, Tasks
  <2>7. ASSUME NEW u \in Threads, step'[u] = "push"
        PROVE  left'[FirstId(u)'][FirstRange(u)'] = 0 /\ Answers(FirstId(u), FirstRange(u))' = {}
    <3>1. step[u] = "push" /\ u # t /\ ~(FirstId(u) = fid /\ FirstRange(u) = fr)
      BY <1>0, <1>1, <1>a, <2>6, <2>7 DEF PushedOnce
    <3>2. left[FirstId(u)][FirstRange(u)] = 0 /\ Answers(FirstId(u), FirstRange(u)) = {}
      BY <1>0, <3>1 DEF PushedOnce
    <3>3. \A i \in 1..Len(Pushed') : ~(Pushed'[i].id = FirstId(u) /\ Pushed'[i].range = FirstRange(u))
      BY <2>1, <2>3, <2>4, <3>1, <3>2 DEF Answers
    <3>4. Answers(FirstId(u), FirstRange(u))' = {}
      BY <2>6, <3>3 DEF Answers
    <3> QED BY <1>1, <2>6, <3>2, <3>4
  <2>8. ASSUME NEW u \in Threads, NEW v \in Threads, step'[u] = "push", step'[v] = "push",
               FirstId(u)' = FirstId(v)', FirstRange(u)' = FirstRange(v)'
        PROVE  u = v
    BY <1>0, <2>6, <2>8 DEF PushedOnce
  <2>9. ASSUME NEW i \in 1..Len(Pushed')
        PROVE  /\ Started(Pushed[i].id)' /\ Pushed'[i].range \in 1..shape'[Pushed'[i].id].ranges
               /\ left'[Pushed'[i].id][Pushed'[i].range] = 0
    <3>1. PICK x : x = Pushed'[i]
      OBVIOUS
    <3>2. Started(x.id) /\ x.range \in 1..shape[x.id].ranges /\ left[x.id][x.range] = 0
      BY <1>0, <2>1, <2>3, <2>4, <2>5, <3>1 DEF PushedOnce
    <3>3. Started(x.id)' <=> Started(x.id)
      BY <1>1 DEF Started, Opened
    <3>4. Started(Pushed[i].id)' <=> Started(x.id)'
      BY <3>1 DEF Started
    <3> QED BY <1>1, <3>1, <3>2, <3>3, <3>4
  <2>10. ASSUME NEW i \in 1..Len(Pushed'), NEW j \in 1..Len(Pushed'),
                Pushed'[i].id = Pushed'[j].id, Pushed'[i].range = Pushed'[j].range
         PROVE  i = j
    <3>1. CASE i \in 1..Len(Pushed) /\ j \in 1..Len(Pushed)
      BY <1>0, <2>3, <2>10, <3>1 DEF PushedOnce
    <3>2. CASE i \in 1..Len(Pushed) /\ j = Len(Pushed) + 1
      BY <2>1, <2>3, <2>5, <2>10, <3>2
    <3>3. CASE i = Len(Pushed) + 1 /\ j \in 1..Len(Pushed)
      BY <2>1, <2>3, <2>5, <2>10, <3>3
    <3> QED BY <2>4, <3>1, <3>2, <3>3
  <2> QED BY <2>7, <2>8, <2>9, <2>10 DEF PushedOnce
<1> QED BY <1>2, <1>3

(* Every step pushes a range at most once.                                 *)
LEMMA PushedOnceStep ==
  ASSUME Inv, Next \/ UNCHANGED vars
  PROVE  PushedOnce'
<1>0. TypeOK /\ Callers /\ Works /\ FinishingType /\ RequestsType
  BY DEF Inv, TypeOK
<1>1. CASE \E t \in Threads : Push(t)
  BY <1>1, PushedOncePush
<1>2. CASE \E t \in Threads : CountTask(t)
  BY <1>2, PushedOnceCount
<1>3. CASE ~(\E t \in Threads : Push(t)) /\ ~(\E t \in Threads : CountTask(t))
  <2>0. Pushed' = Pushed
    BY <1>3, PushedStep
  <2>1. SUFFICES /\ \A id \in Ids : Started(id) => left'[id] = left[id]
                 /\ \A t \in Threads : step'[t] = "push" => step[t] = "push" /\ todo'[t] = todo[t]
    BY <2>0, PushedOnceFrame
  <2>2. CASE \E p \in Submitters : async_request(p)
    <3>1. PICK p \in Submitters : async_request(p)
      BY <2>2
    <3>2. \A id \in Ids : Started(id) => left'[id] = left[id]
      <4>1. CASE Build(p)
        <5>1. sub[p] \in Ids /\ sub[p] \notin Opened /\ \E c : left' = [left EXCEPT ![sub[p]] = c]
          BY <1>0, <4>1 DEF Build, Callers, CallerSane
        <5> QED BY <1>0, <5>1 DEF RequestsType, Started
      <4>2. CASE ~Build(p)
        BY <3>1, <4>2 DEF async_request, Generate, BuildFails, Add, Increment, Dispatch, DispatchThrows,
           DrainUndispatched, DrainLoses, Return, requests
      <4> QED BY <4>1, <4>2
    <3>3. \A t \in Threads : step'[t] = "push" => step[t] = "push" /\ todo'[t] = todo[t]
      <4>1. CASE DrainUndispatched(p)
        <5>1. todo[p] = <<>> /\ step' = step /\ \E x : todo' = [todo EXCEPT ![p] = x]
          BY <4>1 DEF DrainUndispatched
        <5>2. step[p] # "push"
          BY <1>0, <5>1 DEF Works, Threads
        <5> QED BY <1>0, <5>1, <5>2 DEF FinishingType
      <4>2. CASE DrainLoses(p)
        <5>1. step' = [step EXCEPT ![p] = "mark"] /\ todo' = [todo EXCEPT ![p] = <<>>]
          BY <4>2 DEF DrainLoses
        <5> QED BY <1>0, <5>1 DEF FinishingType
      <4>3. CASE ~DrainUndispatched(p) /\ ~DrainLoses(p)
        <5>1. UNCHANGED <<todo, step>>
          BY <3>1, <4>3 DEF async_request, Generate, Build, BuildFails, Add, Increment, Dispatch, DispatchThrows,
             Return, finishing
        <5> QED BY <5>1
      <4> QED BY <4>1, <4>2, <4>3
    <3> QED BY <3>2, <3>3
  <2>3. CASE \E t \in Threads : Finish(t)
    <3>1. PICK t \in Threads : MarkTask(t) \/ Post(t)
      BY <1>3, <2>3 DEF Finish
    <3>2. left' = left /\ \/ Advance(t)
                          \/ step' = [step EXCEPT ![t] = "count"] /\ todo' = todo
      BY <3>1 DEF MarkTask, Post, requests
    <3> QED BY <1>0, <3>2 DEF Advance, FinishingType
  <2>4. CASE \E w \in Workers : execute(w)
    <3>1. PICK w \in Workers : execute(w)
      BY <2>4
    <3>2. left' = left
      BY <3>1, ExecuteFrame DEF requests
    <3>3. todo[w] = <<>> /\ step' = step
      BY <1>0, <3>1 DEF Works, execute, PopWorkload, OpenFile, ReadBlock, EndRead, EndBatch, NextBatch, ExitWorker,
       FailBatch, FinishUntil, finishing
    <3>4. step[w] # "push"
      BY <1>0, <3>3 DEF Works, Threads
    <3>5. \A u \in Threads : u # w => todo'[u] = todo[u]
      BY <1>0, <3>1 DEF FinishingType, execute, PopWorkload, OpenFile, ReadBlock, EndRead, EndBatch, NextBatch, ExitWorker,
       FailBatch, FinishUntil, finishing
    <3> QED BY <3>2, <3>3, <3>4, <3>5
  <2>5. CASE response \/ StopResponder \/ StopPost
    BY <2>5, ResponseFrame DEF requests, finishing
  <2>6. CASE StopPools \/ Destroyed \/ UNCHANGED vars
    BY <2>6 DEF StopPools, Destroyed, vars, requests, finishing
  <2> QED BY <2>2, <2>3, <2>4, <2>5, <2>6 DEF Next
<1> QED BY <1>1, <1>2, <1>3
-----------------------------------------------------------------------------
(* Only increment adds to what the responder expects.                      *)
LEMMA ExpectedKept ==
  ASSUME Inv, Next \/ UNCHANGED vars, \A p \in Submitters : ~Increment(p)
  PROVE  Expected' = Expected
<1>1. ASSUME NEW id \in Ids
      PROVE  (Started(id)' <=> Started(id)) /\ (Started(id) => shape'[id] = shape[id])
  BY StableWorld DEF Started
<1>2. Expected = {x \in Ids \X RangeNo : Started(x[1]) /\ x[2] <= shape[x[1]].ranges}
  BY DEF Expected, Started, Opened, RangeNo
<1>3. Expected' = {x \in Ids \X RangeNo : Started(x[1])' /\ x[2] <= shape'[x[1]].ranges}
  BY DEF Expected, Started, Opened, RangeNo
<1> QED BY <1>1, <1>2, <1>3

(* increment adds the ranges of one submission.                            *)
LEMMA ExpectedIncrement ==
  ASSUME Inv, NEW p \in Submitters, Increment(p)
  PROVE  Cardinality(Expected') = Cardinality(Expected) + shape[sub[p]].ranges
<1>0. TypeOK /\ Callers /\ RegistryType /\ CallerType
  BY DEF Inv, TypeOK
<1>a. PICK new, k : new = sub[p] /\ k = shape[sub[p]].ranges
  OBVIOUS
<1>1. /\ pc[p] = "increment" /\ pc' = [pc EXCEPT ![p] = "dispatch"] /\ UNCHANGED <<shape, live, done, sub>>
  BY DEF Increment, registry, consumer
<1>2. new \in Ids /\ new \in Opened /\ \A q \in Submitters : q # p /\ pc[q] = "increment" => sub[q] # new
  BY <1>0, <1>1, <1>a DEF Callers, CallerSane
<1>3. k \in 0..MaxRanges /\ k \in Nat
  BY <1>0, <1>2, <1>a, ShapeType DEF RegistryType
<1>4. \A id : Started(id)' <=> Started(id) \/ id = new
  BY <1>0, <1>1, <1>2, <1>a DEF Started, Opened, CallerType
<1>5. ~Started(new)
  BY <1>1, <1>a DEF Started
<1>6. Expected = {x \in Ids \X RangeNo : Started(x[1]) /\ x[2] <= shape[x[1]].ranges}
  BY DEF Expected, Started, Opened, RangeNo
<1>7. Expected' = {x \in Ids \X RangeNo : Started(x[1])' /\ x[2] <= shape'[x[1]].ranges}
  BY DEF Expected, Started, Opened, RangeNo
<1> DEFINE A == {new} \X (1..k)
<1>8. Expected' = Expected \cup A /\ Expected \cap A = {}
  <2>1. 1..k \subseteq RangeNo
    BY <1>3, BoundAssumption DEF RangeNo
  <2>2. \A x \in A : x \in Ids \X RangeNo /\ x[1] = new /\ x[2] <= k
    BY <1>2, <1>3, <2>1
  <2>3. \A x \in Ids \X RangeNo : x[1] = new /\ x[2] <= k => x \in A
    BY <1>3, BoundAssumption DEF RangeNo
  <2> HIDE DEF A
  <2> QED BY <1>1, <1>4, <1>5, <1>6, <1>7, <1>a, <2>2, <2>3
<1>9. IsFiniteSet(1..k) /\ Cardinality(1..k) = k /\ IsFiniteSet({new}) /\ Cardinality({new}) = 1
  <2>1. IsFiniteSet(1..k) /\ Cardinality(1..k) = k
    BY <1>3, FS_Interval
  <2> QED BY <2>1, FS_Singleton
<1>10. IsFiniteSet(A) /\ Cardinality(A) = 1 * k
  BY <1>9, FS_Product, ZenonT(40)
<1>11. IsFiniteSet(Expected) /\ Cardinality(Expected) \in Nat
  BY <1>0, ExpectedIs
<1> HIDE DEF A
<1>12. Cardinality(Expected') = Cardinality(Expected) + Cardinality(A) - Cardinality({})
  BY <1>8, <1>10, <1>11, FS_Union
<1> QED BY <1>3, <1>10, <1>11, <1>12, <1>a, FS_EmptySet

(* Every step keeps the responder's count.                                 *)
LEMMA OwingStep ==
  ASSUME Inv, Next \/ UNCHANGED vars
  PROVE  Owing'
<1>0. TypeOK /\ Owing /\ QueueType /\ ConsumerType /\ Works /\ Pushed \in Seq(Response) /\ Len(Pushed) \in Nat
  BY PushedParts DEF Inv, TypeOK
<1>1. CASE \E t \in Threads : Push(t)
  <2>1. PICK t \in Threads : Push(t)
    BY <1>1
  <2>2. \A p \in Submitters : ~Increment(p)
    BY <1>0, <2>1 DEF Push, Increment, caller, TypeOK, CallerType
  <2>3. Expected' = Expected
    BY <2>2, ExpectedKept
  <2>4. unexpected' = unexpected
        /\ \/ running' = running /\ Pushed' = Pushed
           \/ \E m \in Response : running > 0 /\ running' = running - 1 /\ Pushed' = Append(Pushed, m)
    BY <2>1, PushEffect
  <2>5. \/ running' = running /\ Len(Pushed') = Len(Pushed)
        \/ running' = running - 1 /\ Len(Pushed') = Len(Pushed) + 1
    BY <1>0, <2>4, AppendProperties
  <2> QED BY <1>0, <2>3, <2>4, <2>5 DEF Owing, QueueType
<1>2. CASE \E p \in Submitters : Increment(p)
  <2>1. PICK p \in Submitters : Increment(p)
    BY <1>2
  <2>2. running' = running + shape[sub[p]].ranges /\ unexpected' = unexpected /\ Pushed' = Pushed
    BY <2>1 DEF Increment, Pushed, consumer
  <2>3. Cardinality(Expected') = Cardinality(Expected) + shape[sub[p]].ranges
    BY <2>1, ExpectedIncrement
  <2>4. sub[p] \in Ids
    BY <2>1 DEF Increment, Inv, Callers, CallerSane
  <2>5. shape[sub[p]].ranges \in Nat
    BY <1>0, <2>4, ShapeType DEF TypeOK, RegistryType
  <2> QED BY <1>0, <2>2, <2>3, <2>5 DEF Owing, QueueType
<1>3. CASE ~(\E t \in Threads : Push(t)) /\ ~(\E p \in Submitters : Increment(p))
  <2>1. Pushed' = Pushed /\ Expected' = Expected
    BY <1>3, PushedStep, ExpectedKept
  <2>2. running' = running /\ unexpected' = unexpected
    <3>1. CASE \E p \in Submitters : async_request(p)
      BY <1>3, <3>1 DEF async_request, Generate, Build, BuildFails, Add, Dispatch, DispatchThrows,
         DrainUndispatched, DrainLoses, Return, queue
    <3>2. CASE \E t \in Threads : Finish(t)
      BY <1>3, <3>2 DEF Finish, MarkTask, CountTask, Post, queue
    <3>3. CASE \E w \in Workers : execute(w)
      BY <3>3, ExecuteFrame DEF queue
    <3>4. CASE response \/ StopResponder \/ StopPost \/ StopPools \/ Destroyed \/ UNCHANGED vars
      BY <3>4 DEF response, Call, Wait, TimeOut, Pop, Consume, StopResponder, StopPost, StopPools, Destroyed,
         vars, queue
    <3> QED BY <3>1, <3>2, <3>3, <3>4 DEF Next
  <2> QED BY <1>0, <2>1, <2>2 DEF Owing
<1> QED BY <1>1, <1>2, <1>3

(* The threads that have pushed and not posted yet are finitely many.      *)
LEMMA PostingFinite ==
  IsFiniteSet(Posting) /\ Cardinality(Posting) \in Nat
<1>1. IsFiniteSet(Threads)
  BY ThreadAssumption, FS_Union DEF Threads
<1>2. IsFiniteSet(Posting)
  BY <1>1, FS_Subset DEF Posting
<1> QED BY <1>2, FS_CardinalityType

(* Every step keeps the semaphore and the queue of responses together.     *)
LEMMA WakingStep ==
  ASSUME Inv, Next \/ UNCHANGED vars
  PROVE  Waking'
<1>0. TypeOK /\ Waking /\ QueueType /\ ConsumerType /\ FinishingType /\ Works
      /\ ready \in Nat /\ Len(responses) \in Nat /\ responses \in Seq(Response)
  BY PushedParts DEF Inv, TypeOK, QueueType
<1>1. ASSUME UNCHANGED <<responses, ready, cpc, popped>>, ~rstopped' => ~rstopped,
             \A t \in Threads : step'[t] = "post" <=> step[t] = "post"
      PROVE  Waking'
  <2>1. Posting' = Posting
    BY <1>1 DEF Posting
  <2> QED BY <1>0, <1>1, <2>1 DEF Waking
<1>2. CASE \E p \in Submitters : async_request(p)
  <2>1. PICK p \in Submitters : async_request(p)
    BY <1>2
  <2>2. UNCHANGED <<responses, ready, cpc, popped, rstopped>>
    BY <2>1 DEF async_request, Generate, Build, BuildFails, Add, Increment, Dispatch, DispatchThrows,
       DrainUndispatched, DrainLoses, Return, queue, consumer
  <2>3. step' = step \/ (step[p] = "push" /\ step' = [step EXCEPT ![p] = "mark"])
    BY <2>1 DEF async_request, Generate, Build, BuildFails, Add, Increment, Dispatch, DispatchThrows,
       DrainUndispatched, DrainLoses, Return, finishing
  <2> QED BY <1>0, <1>1, <2>2, <2>3 DEF FinishingType
<1>3. CASE \E t \in Threads : Push(t)
  <2>1. PICK t \in Threads : Push(t)
    BY <1>3
  <2>2. UNCHANGED <<ready, rstopped, cpc, popped>> /\ step[t] = "push"
    BY <2>1 DEF Push, consumer
  <2>3. CASE rstopped
    BY <1>0, <2>2, <2>3 DEF Waking
  <2>4. CASE ~rstopped
    <3>1. \E m \in Response : responses' = Append(responses, m)
      BY <2>1, <2>4, PushEffect
    <3>2. Len(responses') = Len(responses) + 1
      BY <1>0, <3>1, AppendProperties
    <3>3. step' = [step EXCEPT ![t] = "post"]
      BY <2>1, <2>4, PushEffect
    <3>4. Posting' = Posting \cup {t} /\ t \notin Posting
      BY <1>0, <2>2, <3>3 DEF Posting, FinishingType
    <3>5. Cardinality(Posting') = Cardinality(Posting) + 1
      BY <3>4, PostingFinite, FS_AddElement
    <3> QED BY <1>0, <2>2, <3>2, <3>5, PostingFinite DEF Waking
  <2> QED BY <2>3, <2>4
<1>4. CASE \E t \in Threads : Post(t)
  <2>1. PICK t \in Threads : Post(t)
    BY <1>4
  <2>2. /\ UNCHANGED <<responses, rstopped, cpc, popped>> /\ step[t] = "post" /\ ready' = ready + 1
        /\ step' = [step EXCEPT ![t] = "mark"]
    BY <2>1 DEF Post, Advance, consumer
  <2>3. Posting' = Posting \ {t} /\ t \in Posting
    BY <1>0, <2>2 DEF Posting, FinishingType
  <2>4. Cardinality(Posting') = Cardinality(Posting) - 1
    BY <2>3, PostingFinite, FS_RemoveElement
  <2> QED BY <1>0, <2>2, <2>4, PostingFinite DEF Waking
<1>5. CASE \E t \in Threads : MarkTask(t) \/ CountTask(t)
  <2>1. PICK t \in Threads : MarkTask(t) \/ CountTask(t)
    BY <1>5
  <2>2. UNCHANGED <<responses, ready, cpc, popped, rstopped>> /\ step[t] \in {"mark", "count"}
        /\ \E s \in {"mark", "count", "push"} : step' = [step EXCEPT ![t] = s]
    BY <2>1 DEF MarkTask, CountTask, Advance, queue, consumer
  <2>3. \A u \in Threads : step'[u] = "post" <=> step[u] = "post"
    BY <1>0, <2>2 DEF FinishingType
  <2> QED BY <1>1, <2>2, <2>3
<1>6. CASE \E w \in Workers : execute(w)
  <2>1. step' = step
    BY <1>6 DEF execute, PopWorkload, OpenFile, ReadBlock, EndRead, EndBatch, NextBatch, ExitWorker,
     FailBatch, FinishUntil, finishing
  <2> QED BY <1>1, <1>6, <2>1, ExecuteFrame DEF queue, consumer
<1>7. CASE response
  <2>0. UNCHANGED step
    BY <1>7, ResponseFrame DEF finishing
  <2>1. Posting' = Posting
    BY <2>0 DEF Posting
  <2>2. CASE Call \/ TimeOut
    BY <1>0, <2>1, <2>2 DEF Call, TimeOut, Waking, queue
  <2>3. CASE Wait
    BY <1>0, <2>1, <2>3, PostingFinite DEF Wait, Waking
  <2>4. CASE Pop
    <3>1. CASE rstopped
      BY <1>0, <2>4, <3>1 DEF Pop, Waking
    <3>2. CASE ~rstopped
      <4>1. /\ popped' = <<Head(responses)>> /\ responses' = Tail(responses) /\ cpc' = "consume" /\ cpc = "lock"
            /\ ready' = ready
        BY <2>4, <3>2 DEF Pop
      <4>2. Len(responses) = ready + Cardinality(Posting) + 1
        BY <1>0, <3>2, <4>1 DEF Waking
      <4>3. responses # <<>>
        BY <1>0, <4>2, PostingFinite
      <4>4. Len(responses') = Len(responses) - 1
        BY <1>0, <4>1, <4>3, HeadTailProperties
      <4>5. Len(popped') = 1
        BY <4>1
      <4> QED BY <1>0, <2>1, <4>1, <4>2, <4>4, <4>5, PostingFinite DEF Waking
    <3> QED BY <3>1, <3>2
  <2>5. CASE Consume
    <3>1. /\ cpc = "consume" /\ cpc' = "idle" /\ popped' = <<>> /\ UNCHANGED <<responses, ready, rstopped>>
      BY <2>5 DEF Consume, queue
    <3> QED BY <1>0, <2>1, <3>1 DEF Waking
  <2> QED BY <1>7, <2>2, <2>3, <2>4, <2>5 DEF response
<1>8. CASE StopResponder
  BY <1>0, <1>8 DEF StopResponder, Waking, consumer
<1>9. CASE StopPost
  <2>1. rstopped
    BY <1>9 DEF StopPost, Inv, Stopping
  <2> QED BY <1>0, <1>9, <2>1 DEF StopPost, Waking, consumer
<1>10. CASE StopPools \/ Destroyed \/ UNCHANGED vars
  BY <1>1, <1>10 DEF StopPools, Destroyed, vars, queue, finishing, consumer
<1> QED BY <1>2, <1>3, <1>4, <1>5, <1>6, <1>7, <1>8, <1>9, <1>10 DEF Next, Finish

(* Every step keeps the destructor's order.                                *)
LEMMA StoppingStep ==
  ASSUME Inv, Next \/ UNCHANGED vars
  PROVE  Stopping'
<1>0. Stopping
  BY DEF Inv
<1>k. ASSUME stopPost' = stopPost, rstopped' = rstopped PROVE Stopping'
  BY <1>0, <1>k, Zenon DEF Stopping
<1>1. CASE \E p \in Submitters : async_request(p)
  <2>1. stopPost' = stopPost /\ rstopped' = rstopped
    BY <1>1 DEF async_request, Generate, Build, BuildFails, Add, Increment, Dispatch, DispatchThrows,
       DrainUndispatched, DrainLoses, Return, queue
  <2> QED BY <1>k, <2>1
<1>2. CASE \E t \in Threads : Finish(t)
  <2>1. stopPost' = stopPost /\ rstopped' = rstopped
    BY <1>2 DEF Finish, MarkTask, CountTask, Push, Post, queue
  <2> QED BY <1>k, <2>1
<1>3. CASE \E w \in Workers : execute(w)
  <2>1. stopPost' = stopPost /\ rstopped' = rstopped
    BY <1>3, ExecuteFrame DEF queue
  <2> QED BY <1>k, <2>1
<1>4. CASE response \/ StopPools \/ Destroyed \/ UNCHANGED vars
  <2>1. stopPost' = stopPost /\ rstopped' = rstopped
    BY <1>4 DEF response, Call, Wait, TimeOut, Pop, Consume, StopPools, Destroyed, vars, queue
  <2> QED BY <1>k, <2>1
<1>5. CASE StopResponder
  BY <1>5, Zenon DEF StopResponder, Stopping
<1>6. CASE StopPost
  BY <1>6, Zenon DEF StopPost, Stopping
<1> QED BY <1>1, <1>2, <1>3, <1>4, <1>5, <1>6 DEF Next

(* Consuming a response pays for its range.                                *)
LEMMA ConsumeEffect ==
  ASSUME Inv, Consume
  PROVE  LET id == popped[1].id
             r == popped[1].range
         IN  /\ id \in live /\ id \in Ids /\ r \in Owed(id) /\ r \in RangeNo /\ id \notin done
             /\ remaining[id] = Cardinality(Owed(id)) /\ remaining[id] \in Nat \ {0}
             /\ delivered' = Append(delivered, popped[1])
             /\ remaining' = [remaining EXCEPT ![id] = remaining[id] - 1]
             /\ remaining[id] = 1 => Owed(id) = {r}
             /\ Owed(id) = {r} => remaining[id] = 1
             /\ live' = IF Owed(id) = {r} THEN live \ {id} ELSE live
             /\ done' = IF Owed(id) = {r} THEN done \cup {id} ELSE done
             /\ \A x \in Ids : Owed(x)' = IF x = id THEN Owed(x) \ {r} ELSE Owed(x)
             /\ \A x \in Ids : IsFiniteSet(Owed(x)) /\ Cardinality(Owed(x)) \in Nat
<1>0. TypeOK /\ PushedOnce /\ Waking /\ Remaining /\ cpc = "consume" /\ delivered \in Seq(Response)
      /\ RegistryType
  BY DEF Inv, TypeOK, Consume, ConsumerType
<1>a. PICK id, r : id = popped[1].id /\ r = popped[1].range
  OBVIOUS
<1>1. /\ id \in live /\ id \in Ids /\ r \in Owed(id) /\ r \in RangeNo /\ id \notin done
      /\ remaining[id] = Cardinality(Owed(id)) /\ remaining[id] > 0 /\ popped[1] \in Response
  BY <1>0, <1>a, PoppedIsOwed
<1>2. remaining[id] \in Nat \ {0}
  BY <1>0, <1>1 DEF RegistryType
<1>3. /\ delivered' = Append(delivered, popped[1]) /\ shape' = shape
      /\ remaining' = [remaining EXCEPT ![id] = remaining[id] - 1]
      /\ live' = IF remaining[id] = 1 THEN live \ {id} ELSE live
      /\ done' = IF remaining[id] = 1 THEN done \cup {id} ELSE done
  BY <1>a DEF Consume
<1>4. ASSUME NEW x \in Ids PROVE IsFiniteSet(Owed(x)) /\ Cardinality(Owed(x)) \in Nat
  <2>1. shape[x].ranges \in Nat
    BY <1>0, ShapeType DEF RegistryType
  <2>2. IsFiniteSet(1..shape[x].ranges)
    BY <2>1, FS_Interval
  <2>3. IsFiniteSet(Owed(x))
    BY <2>2, FS_Subset DEF Owed
  <2> QED BY <2>3, FS_CardinalityType
<1>5. remaining[id] = 1 <=> Owed(id) = {r}
  <2>1. IsFiniteSet(Owed(id))
    BY <1>1, <1>4
  <2>2. Cardinality(Owed(id)) = 1 <=> \E y : Owed(id) = {y}
    BY <2>1, FS_Singleton
  <2> QED BY <1>1, <2>2
<1>6. ASSUME NEW x \in Ids PROVE Owed(x)' = IF x = id THEN Owed(x) \ {r} ELSE Owed(x)
  <2>1. /\ Len(delivered) \in Nat /\ Len(delivered') = Len(delivered) + 1
        /\ delivered'[Len(delivered) + 1] = popped[1]
        /\ \A i \in 1..Len(delivered) : delivered'[i] = delivered[i]
    BY <1>0, <1>1, <1>3, AppendProperties, LenProperties
  <2>2. \A y : (\A i \in 1..Len(delivered') : ~(delivered'[i].id = x /\ delivered'[i].range = y))
               <=> /\ \A i \in 1..Len(delivered) : ~(delivered[i].id = x /\ delivered[i].range = y)
                   /\ ~(id = x /\ r = y)
    <3> SUFFICES ASSUME NEW y PROVE
               (\A i \in 1..Len(delivered') : ~(delivered'[i].id = x /\ delivered'[i].range = y))
               <=> /\ \A i \in 1..Len(delivered) : ~(delivered[i].id = x /\ delivered[i].range = y)
                   /\ ~(id = x /\ r = y)
      OBVIOUS
    <3>1. \A i \in 1..Len(delivered') : i \in 1..Len(delivered) \/ i = Len(delivered) + 1
      BY <2>1
    <3>2. \A i \in 1..Len(delivered) : i \in 1..Len(delivered')
      BY <2>1
    <3>3. Len(delivered) + 1 \in 1..Len(delivered')
      BY <2>1
    <3> QED BY <1>a, <2>1, <3>1, <3>2, <3>3
  <2>3. \A y : y \in Owed(x)' <=> y \in Owed(x) /\ ~(id = x /\ r = y)
    BY <1>3, <2>2 DEF Owed
  <2> QED BY <2>3
<1> QED BY <1>1, <1>2, <1>3, <1>4, <1>5, <1>6, <1>a

(* Every step keeps the registry's count.                                  *)
LEMMA RemainingStep ==
  ASSUME Inv, Next \/ UNCHANGED vars
  PROVE  Remaining'
<1>0. TypeOK /\ Callers /\ Remaining /\ PushedOnce /\ RegistryType /\ ConsumerType /\ QueueType
  BY DEF Inv, TypeOK
<1>1. ASSUME UNCHANGED <<live, done, remaining, delivered>> PROVE Remaining'
  <2>1. ASSUME NEW id \in Opened PROVE Owed(id)' = Owed(id)
    <3>1. shape'[id] = shape[id]
      BY <2>1, TasksStable
    <3> QED BY <1>1, <3>1 DEF Owed
  <2> QED BY <1>0, <1>1, <2>1 DEF Remaining, Opened
<1>2. CASE \E p \in Submitters : Add(p)
  <2>1. PICK p \in Submitters : Add(p)
    BY <1>2
  <2>a. PICK new : new = sub[p]
    OBVIOUS
  <2>2. /\ pc[p] = "add" /\ live' = live \cup {new} /\ UNCHANGED <<shape, delivered, done>>
        /\ remaining' = [remaining EXCEPT ![new] = shape[new].ranges]
    BY <2>1, <2>a DEF Add, consumer
  <2>3. new \in Ids /\ new \notin Opened /\ shape[new].ranges > 0
    BY <1>0, <2>2, <2>a DEF Callers, CallerSane
  <2>4. shape[new].ranges \in Nat
    BY <1>0, <2>3, ShapeType DEF RegistryType
  <2>5. \A id : Owed(id)' = Owed(id)
    BY <2>2 DEF Owed
  <2>6. Owed(new) = 1..shape[new].ranges
    <3> SUFFICES ASSUME NEW i \in 1..Len(delivered) PROVE delivered[i].id # new
      BY DEF Owed
    <3>1. i \in 1..Len(Pushed) /\ Pushed[i] = delivered[i]
      BY <1>0, PushedParts
    <3>2. Started(Pushed[i].id)
      BY <1>0, <3>1 DEF PushedOnce
    <3> QED BY <2>3, <3>1, <3>2 DEF Started
  <2>7. Cardinality(Owed(new)) = shape[new].ranges
    <3>1. PICK k \in Nat : k = shape[new].ranges /\ k > 0
      BY <2>3, <2>4
    <3>2. Cardinality(1..k) = k
      BY <3>1, FS_Interval
    <3> QED BY <2>6, <3>1, <3>2
  <2>8. \A id \in live : id # new /\ remaining'[id] = remaining[id]
    BY <1>0, <2>2, <2>3 DEF RegistryType, Opened
  <2>9. remaining'[new] = shape[new].ranges
    BY <1>0, <2>2, <2>3 DEF RegistryType
  <2> QED BY <1>0, <2>2, <2>3, <2>5, <2>7, <2>8, <2>9 DEF Remaining
<1>3. CASE Consume
  <2>a. PICK id, r : id = popped[1].id /\ r = popped[1].range
    OBVIOUS
  <2>1. /\ id \in live /\ id \in Ids /\ r \in Owed(id) /\ id \notin done
        /\ remaining[id] = Cardinality(Owed(id)) /\ remaining[id] \in Nat \ {0}
        /\ remaining' = [remaining EXCEPT ![id] = remaining[id] - 1]
        /\ remaining[id] = 1 <=> Owed(id) = {r}
        /\ live' = IF Owed(id) = {r} THEN live \ {id} ELSE live
        /\ done' = IF Owed(id) = {r} THEN done \cup {id} ELSE done
        /\ \A x \in Ids : Owed(x)' = IF x = id THEN Owed(x) \ {r} ELSE Owed(x)
        /\ IsFiniteSet(Owed(id))
    BY <1>3, <2>a, ConsumeEffect
  <2>2. live \subseteq Ids /\ done \subseteq Ids /\ remaining \in [Ids -> Nat]
    BY <1>0 DEF RegistryType, ConsumerType
  <2>3. ASSUME NEW x \in live' PROVE remaining'[x] = Cardinality(Owed(x)') /\ remaining'[x] > 0
    <3>1. CASE x # id
      BY <1>0, <2>1, <2>2, <3>1 DEF Remaining
    <3>2. CASE x = id
      <4>1. Cardinality(Owed(id) \ {r}) = Cardinality(Owed(id)) - 1
        BY <2>1, FS_RemoveElement
      <4>2. remaining[id] # 1 /\ remaining'[id] = remaining[id] - 1
        BY <2>1, <2>2, <2>3, <3>2
      <4>3. remaining[id] - 1 > 0
        BY <2>1, <4>2
      <4>4. Owed(x)' = Owed(id) \ {r}
        BY <2>1, <3>2
      <4> QED BY <2>1, <3>2, <4>1, <4>2, <4>3, <4>4
    <3> QED BY <3>1, <3>2
  <2>4. ASSUME NEW x \in done' PROVE Owed(x)' = {}
    BY <1>0, <2>1, <2>2 DEF Remaining
  <2> QED BY <2>3, <2>4 DEF Remaining
<1>4. CASE ~Consume /\ ~(\E p \in Submitters : Add(p))
  <2>1. CASE \E p \in Submitters : async_request(p)
    BY <1>1, <1>4, <2>1 DEF async_request, Generate, Build, BuildFails, Increment, Dispatch, DispatchThrows,
       DrainUndispatched, DrainLoses, Return, registry, consumer
  <2>2. CASE \E t \in Threads : Finish(t)
    BY <1>1, <2>2, FinishFrame DEF registry, consumer
  <2>3. CASE \E w \in Workers : execute(w)
    BY <1>1, <2>3, ExecuteFrame DEF registry, consumer
  <2>4. CASE response \/ StopResponder \/ StopPost \/ StopPools \/ Destroyed \/ UNCHANGED vars
    BY <1>1, <1>4, <2>4 DEF response, Call, Wait, TimeOut, Pop, StopResponder, StopPost, StopPools, Destroyed,
       vars, registry, consumer
  <2> QED BY <2>1, <2>2, <2>3, <2>4 DEF Next
<1> QED BY <1>2, <1>3, <1>4
-----------------------------------------------------------------------------
(* The first state.                                                        *)
LEMMA InitInv == Init => Inv
<1> SUFFICES ASSUME Init PROVE Inv
  OBVIOUS
<1> USE DEF Init
<1>0. BoundAssumption /\ Ids \subseteq Nat /\ MaxRanges \in Nat
  BY BoundAssumption DEF Ids, BoundAssumption
<1>1. NoShape \in Shapes
  <2>1. <<>> \in Seq(Seq(BatchShape)) /\ DOMAIN <<>> = {}
    OBVIOUS
  <2> QED BY <1>0, <2>1 DEF NoShape, Shapes, BatchShape, TaskShape
<1>2. RegistryType
  BY <1>1 DEF RegistryType
<1>a. \A S : <<>> \in Seq(S) /\ Len(<<>>) = 0
  OBVIOUS
<1>3. QueueType
  <2>1. running \in Nat /\ ready \in Nat /\ responses \in Seq(Response)
    BY <1>a
  <2>2. rstopped \in BOOLEAN /\ stopPost \in BOOLEAN /\ unexpected \in BOOLEAN
    BY Zenon
  <2> QED BY <2>1, <2>2, Zenon DEF QueueType
<1>b. ConsumerType
  <2>1. cpc \in Cpcs /\ popped = <<>> /\ delivered = <<>> /\ done = {}
    BY DEF Cpcs
  <2> QED BY <1>a, <2>1 DEF ConsumerType
<1>4. RequestsType
  BY <1>0 DEF RequestsType, RangeNo, Codes
<1>5. CallerType
  BY PlanAssumption DEF CallerType, Pcs
<1>6. FinishingType
  <2>1. \A S : <<>> \in Seq(S)
    OBVIOUS
  <2>2. "Success" \in Codes /\ "mark" \in Steps
    BY DEF Codes, Steps
  <2>3. \A S : todo \in [Threads -> Seq(S)]
    BY <2>1
  <2> QED BY <2>2, <2>3 DEF FinishingType
<1>c. PoolType
  <2>1. stopped \in BOOLEAN
    BY Zenon
  <2>2. "idle" \in Wpcs
    BY DEF Wpcs
  <2> QED BY <1>a, <2>1, <2>2 DEF PoolType
<1>7. TypeOK
  BY <1>2, <1>3, <1>4, <1>5, <1>6, <1>b, <1>c DEF TypeOK
<1>8. Callers
  BY DEF Callers, CallerSane, Opened, Threads
<1>9. Works
  <2>1. \A t \in Threads : todo[t] = <<>> /\ step[t] = "mark"
    OBVIOUS
  <2>2. \A w \in Workers : wpc[w] = "idle" /\ w \in Threads
    BY DEF Threads
  <2>3. \A t \in Threads : \A i \in 1..Len(todo[t]) : Known(todo[t][i])
    BY <1>a, <2>1
  <2>4. \A i \in 1..Len(deque) : Queued(deque[i])
    BY <1>a
  <2>5. finished = {}
    OBVIOUS
  <2> QED BY <2>1, <2>2, <2>3, <2>4, <2>5 DEF Works
<1>10. Counted
  BY DEF Counted, Built, Opened
<1>11. Pushed = <<>>
  BY DEF Pushed
<1>12. PushedOnce
  BY <1>11 DEF PushedOnce
<1>13. Owing
  <2>1. Expected = {}
    BY DEF Expected
  <2> QED BY <1>11, <2>1, FS_EmptySet DEF Owing
<1>14. Waking
  <2>1. Posting = {}
    BY DEF Posting
  <2> QED BY <2>1, FS_EmptySet DEF Waking
<1>15. Remaining /\ Stopping
  BY DEF Remaining, Stopping
<1> QED BY <1>7, <1>8, <1>9, <1>10, <1>12, <1>13, <1>14, <1>15 DEF Inv
-----------------------------------------------------------------------------
(* Every step keeps the invariant.                                         *)
LEMMA InvStep == Inv /\ [Next]_vars => Inv'
<1> SUFFICES ASSUME Inv, Next \/ UNCHANGED vars PROVE Inv'
  OBVIOUS
<1>1. TypeOK'
  BY TypeStep
<1>2. Callers'
  BY CallersStep
<1>3. Works'
  BY WorksStep
<1>4. Counted' /\ PushedOnce'
  BY CountedStep, PushedOnceStep
<1>5. Owing' /\ Waking' /\ Remaining' /\ Stopping'
  BY OwingStep, WakingStep, RemainingStep, StoppingStep
<1> QED BY <1>1, <1>2, <1>3, <1>4, <1>5 DEF Inv

(* The inductive invariant of the streamer core holds throughout.          *)
THEOREM Invariance == Spec => []Inv
BY InitInv, InvStep, PTL DEF Spec

(* Every variable keeps its type, whatever callers, pool threads, consumer *)
(* and destructor do at the same time.                                     *)
THEOREM TypeCorrect == Spec => []TypeOK
<1>1. Inv => TypeOK
  BY DEF Inv
<1> QED BY <1>1, Invariance, PTL

(* SharedQueue::_running counts exactly the expected ranges that nobody    *)
(* has pushed: push never takes its "unexpected response" branch.          *)
THEOREM CountIsExact == Spec => []RunningIsOwed
<1>1. Inv => RunningIsOwed
  BY DEF Inv, Owing, RunningIsOwed
<1> QED BY <1>1, Invariance, PTL

(* None of the three ASSERTs of the response path fires: a wake-up finds a *)
(* response, a response its submission, and an id is registered once.      *)
THEOREM AssertsAreSafe == Spec => []AssertsHold
<1>1. Inv => AssertsHold
  <2> SUFFICES ASSUME Inv PROVE AssertsHold
    OBVIOUS
  <2>0. TypeOK /\ Callers /\ Waking /\ QueueType
    BY DEF Inv, TypeOK
  <2>1. ASSUME cpc = "lock", ~rstopped PROVE responses # <<>>
    <3>1. Cardinality(Posting) \in Nat
      BY <2>0, PostingFinite
    <3>2. Len(responses) = ready + Cardinality(Posting) + 1 /\ ready \in Nat
      BY <2>0, <2>1 DEF Waking, QueueType
    <3>3. Len(responses) # 0
      BY <3>1, <3>2
    <3>4. Len(<<>>) = 0
      OBVIOUS
    <3> QED BY <3>3, <3>4
  <2>2. ASSUME cpc = "consume" PROVE popped[1].id \in live /\ remaining[popped[1].id] > 0
    BY <2>2, PoppedIsOwed DEF Inv
  <2>3. ASSUME NEW p \in Submitters, pc[p] = "add" PROVE sub[p] \notin live \cup done
    BY <2>0, <2>3 DEF Callers, CallerSane, Opened
  <2> QED BY <2>1, <2>2, <2>3 DEF AssertsHold
<1> QED BY <1>1, Invariance, PTL
-----------------------------------------------------------------------------
(* The contract's view of the state.                                       *)
OwedMap == [id \in Ids |-> IF id \in live THEN Owed(id) ELSE {}]

(* A step that changes neither registry nor answers nor the flag is none   *)
(* of the contract.                                                        *)
LEMMA ContractStutter ==
  ASSUME Inv, Next \/ UNCHANGED vars, UNCHANGED <<live, done, delivered, rstopped>>
  PROVE  UNCHANGED Contract!vars
<1>1. \A id \in live : Owed(id)' = Owed(id)
  <2> SUFFICES ASSUME NEW id \in live PROVE Owed(id)' = Owed(id)
    OBVIOUS
  <2>1. shape'[id] = shape[id]
    BY TasksStable DEF Opened
  <2> QED BY <2>1 DEF Owed
<1>2. OwedMap' = OwedMap
  BY <1>1 DEF OwedMap
<1> QED BY <1>2 DEF OwedMap, Owed, Contract!vars

(* SubmissionsMgr::add accepts the submission, with all its ranges owed.   *)
LEMMA AddAccepts ==
  ASSUME Inv, NEW p \in Submitters, Add(p)
  PROVE  Contract!Next
<1>0. TypeOK /\ Callers /\ PushedOnce /\ RegistryType /\ QueueType /\ ConsumerType /\ pc[p] = "add" /\ MaxRanges \in Nat
  BY BoundAssumption DEF Inv, TypeOK, Add, BoundAssumption
<1>a. PICK new : new = sub[p]
  OBVIOUS
<1>1. /\ live' = live \cup {new} /\ UNCHANGED <<shape, delivered, done, rstopped>>
  BY <1>a DEF Add, consumer, queue
<1>2. new \in Ids /\ new \notin Opened /\ shape[new].ranges > 0 /\ ~rstopped
  BY <1>0, <1>a DEF Callers, CallerSane
<1>3. shape[new].ranges \in Nat /\ shape[new].ranges <= MaxRanges
  BY <1>0, <1>2, ShapeType DEF RegistryType
<1>4. \A id : Owed(id)' = Owed(id)
  BY <1>1 DEF Owed
<1>5. Owed(new) = 1..shape[new].ranges
  <2> SUFFICES ASSUME NEW i \in 1..Len(delivered) PROVE delivered[i].id # new
    BY DEF Owed
  <2>1. i \in 1..Len(Pushed) /\ Pushed[i] = delivered[i]
    BY <1>0, PushedParts
  <2>2. Started(Pushed[i].id)
    BY <1>0, <2>1 DEF PushedOnce
  <2> QED BY <1>2, <2>1, <2>2 DEF Started
<1>6. Owed(new) \in (SUBSET (1..MaxRanges)) \ {{}}
  <2>1. 1 \in Owed(new)
    BY <1>2, <1>3, <1>5
  <2>2. Owed(new) \subseteq 1..MaxRanges
    BY <1>0, <1>3, <1>5
  <2> QED BY <2>1, <2>2
<1>7. OwedMap' = [OwedMap EXCEPT ![new] = Owed(new)]
  BY <1>1, <1>2, <1>4 DEF OwedMap
<1>8. Contract!Accept(new)
  <2>1. \E R \in (SUBSET (1..MaxRanges)) \ {{}} : OwedMap' = [OwedMap EXCEPT ![new] = R]
    BY <1>6, <1>7
  <2>2. live' \cup done' = (live \cup done) \cup {new}
    BY <1>1
  <2> QED BY <1>1, <1>2, <2>1, <2>2 DEF OwedMap, Owed, Opened, Contract!Accept
<1> QED BY <1>2, <1>8 DEF Contract!Next

(* SubmissionsMgr::consume answers one owed range, and reports the         *)
(* submission done exactly with the last one.                              *)
LEMMA ConsumeAnswers ==
  ASSUME Inv, Consume
  PROVE  Contract!Next
<1>a. PICK id, r : id = popped[1].id /\ r = popped[1].range
  OBVIOUS
<1>1. /\ id \in live /\ id \in Ids /\ r \in Owed(id) /\ r \in RangeNo /\ id \notin done
      /\ live' = IF Owed(id) = {r} THEN live \ {id} ELSE live
      /\ done' = IF Owed(id) = {r} THEN done \cup {id} ELSE done
      /\ \A x \in Ids : Owed(x)' = IF x = id THEN Owed(x) \ {r} ELSE Owed(x)
  BY <1>a, ConsumeEffect
<1>2. rstopped' = rstopped
  BY DEF Consume, queue
<1>3. OwedMap[id] = Owed(id)
  BY <1>1 DEF OwedMap
<1>4. OwedMap' = [OwedMap EXCEPT ![id] = @ \ {r}]
  <2>1. \A x \in Ids : x # id => (x \in live' <=> x \in live)
    BY <1>1
  <2>2. id \notin live' => Owed(id) \ {r} = {}
    BY <1>1
  <2>3. \A x \in Ids : (IF x \in live' THEN Owed(x)' ELSE {})
                       = IF x = id THEN Owed(id) \ {r} ELSE IF x \in live THEN Owed(x) ELSE {}
    BY <1>1, <2>1, <2>2
  <2> QED BY <1>1, <1>3, <2>3 DEF OwedMap
<1>5. Contract!Answer(id, r)
  <2>1. live' \cup done' = live \cup done
    BY <1>1
  <2>2. r \in OwedMap[id] /\ done' = IF OwedMap[id] = {r} THEN done \cup {id} ELSE done
    BY <1>1, <1>3
  <2> QED BY <1>2, <1>4, <2>1, <2>2 DEF OwedMap, Owed, Contract!Answer
<1> QED BY <1>1, <1>5 DEF Contract!Next, RangeNo

(* Every step of the streamer is a step of the contract, or none.          *)
LEMMA ContractStep ==
  ASSUME Inv, Next \/ UNCHANGED vars
  PROVE  Contract!Next \/ UNCHANGED Contract!vars
<1>1. CASE \E p \in Submitters : Add(p)
  BY <1>1, AddAccepts
<1>2. CASE Consume
  BY <1>2, ConsumeAnswers
<1>3. CASE StopResponder
  <2>1. UNCHANGED <<live, done, delivered, shape>> /\ rstopped' = TRUE
    BY <1>3 DEF StopResponder, registry, consumer
  <2>2. \A id : Owed(id)' = Owed(id)
    BY <2>1 DEF Owed
  <2>3. OwedMap' = OwedMap
    BY <2>1, <2>2 DEF OwedMap
  <2>4. Contract!Close
    BY <2>1, <2>3 DEF OwedMap, Owed, Contract!Close
  <2> QED BY <2>4 DEF Contract!Next
<1>4. CASE ~Consume /\ ~StopResponder /\ ~(\E p \in Submitters : Add(p))
  <2>1. CASE \E p \in Submitters : async_request(p)
    BY <1>4, <2>1, ContractStutter DEF async_request, Generate, Build, BuildFails, Increment, Dispatch,
       DispatchThrows, DrainUndispatched, DrainLoses, Return, registry, queue, consumer
  <2>2. CASE \E t \in Threads : Finish(t)
    <3>1. UNCHANGED <<live, done, delivered>>
      BY <2>2, FinishFrame DEF registry, consumer
    <3>2. rstopped' = rstopped
      BY <2>2 DEF Finish, MarkTask, CountTask, Push, Post, queue
    <3> QED BY <3>1, <3>2, ContractStutter
  <2>3. CASE \E w \in Workers : execute(w)
    BY <2>3, ExecuteFrame, ContractStutter DEF registry, queue, consumer
  <2>4. CASE response \/ StopPost \/ StopPools \/ Destroyed \/ UNCHANGED vars
    BY <1>4, <2>4, ContractStutter DEF response, Call, Wait, TimeOut, Pop, StopPost, StopPools, Destroyed,
       vars, registry, queue, consumer
  <2> QED BY <1>4, <2>1, <2>2, <2>3, <2>4 DEF Next
<1> QED BY <1>1, <1>2, <1>3, <1>4

(* The streamer implements ResponseContract: one response per range, the   *)
(* last of them reported as completion, and nothing after it.              *)
THEOREM ContractKept == Spec => KeepsContract
<1>1. Init => Contract!Init
  <2> SUFFICES ASSUME Init PROVE Contract!Init
    OBVIOUS
  <2>1. live = {} /\ done = {} /\ rstopped = FALSE
    BY DEF Init
  <2> QED BY <2>1 DEF Contract!Init
<1>2. Inv /\ [Next]_vars => [Contract!Next]_(Contract!vars)
  BY ContractStep
<1> QED BY <1>1, <1>2, Invariance, PTL DEF Spec, KeepsContract, Contract!Spec

-----------------------------------------------------------------------------
(* The answers are honest: no range is answered Success before its bytes   *)
(* are in place, and nothing is queued or read for a submission that was   *)
(* reported done.                                                          *)

(* What is still ahead of a caller, of the pool's queue and of a thread:   *)
(* the tasks it will go through later.                                     *)
Same(y, x) == y[1] = x[1] /\ y[2] = x[2]
Active(w) == wpc[w] \notin {"idle", "exit"}
Giving(p) == pc[p] \in {"dispatch", "drain"}
AheadOfCaller(p, x) ==
  /\ Giving(p) /\ x[1] = sub[p]
  /\ x[2] > next[p] \/ (x[2] = next[p] /\ x[3] >= batch[p])
AheadOfQueue(x) == \E i \in 1..Len(deque) : Same(deque[i], x)
AheadOfWorker(w, x) ==
  /\ Active(w) /\ Same(work[w], x)
  /\ x[3] > batch[w] \/ (x[3] = batch[w] /\ x[4] > unfinished[w] /\ wpc[w] # "next")
Ahead(x) ==
  \/ \E p \in Submitters : AheadOfCaller(p, x)
  \/ AheadOfQueue(x)
  \/ \E w \in Workers : AheadOfWorker(w, x)

(* A workload is in one place: with the caller that has not given it away  *)
(* yet, in the queue, or with one thread.                                  *)
Exclusive ==
  /\ \A i, j \in 1..Len(deque) : Same(deque[i], deque[j]) => i = j
  /\ \A i \in 1..Len(deque), w \in Workers : Active(w) => ~Same(deque[i], work[w])
  /\ \A v, w \in Workers : Active(v) /\ Active(w) /\ Same(work[v], work[w]) => v = w
  /\ \A p \in Submitters : Giving(p) =>
       /\ \A i \in 1..Len(deque) : deque[i][1] = sub[p] => deque[i][2] < next[p]
       /\ \A w \in Workers : Active(w) /\ work[w][1] = sub[p] => work[w][2] < next[p]

(* The tasks a thread is finishing are its own, and no longer ahead.       *)
OwnTask(w, x) ==
  /\ Same(work[w], x) /\ x[3] = batch[w]
  /\ wpc[w] = "next" \/ x[4] <= unfinished[w]
DrainedBy(p, x) ==
  /\ pc[p] = "drain" /\ x[1] = sub[p]
  /\ x[2] < next[p] \/ (x[2] = next[p] /\ x[3] < batch[p])
  /\ ~AheadOfQueue(x)
  /\ \A w \in Workers : Active(w) => ~Same(work[w], x)
Placed ==
  /\ \A w \in Workers : \A i \in 1..Len(todo[w]) : OwnTask(w, todo[w][i])
  /\ \A p \in Submitters : \A i \in 1..Len(todo[p]) : DrainedBy(p, todo[p][i])

(* What is ahead of anybody is not finished.                               *)
Untouched == \A x \in finished : ~Ahead(x)

(* How far a read has got: what ended before the offset is in place.       *)
Filled(x) == x \in landed \/ TaskStart(x) = TaskEnd(x)
ReadSoFar(w) ==
  /\ offset[w] <= CurEnd(w)
  /\ \A i \in 1..unfinished[w] : TaskEnd(CurTasks(w)[i]) <= offset[w]
  /\ \A i \in 1..Len(CurTasks(w)) :
       (\A j \in 1..i : TaskEnd(CurTasks(w)[j]) <= offset[w]) => Filled(CurTasks(w)[i])
Reading ==
  \A w \in Workers :
    /\ wpc[w] = "open" => unfinished[w] = 0
    /\ wpc[w] \in {"read", "ended"} => ReadSoFar(w)

(* A success is backed by bytes: carried by a thread, marked in a request, *)
(* and pushed.                                                             *)
Carried == \A t \in Threads : code[t] = "Success" => \A i \in 1..Len(todo[t]) : Filled(todo[t][i])
Marked == \A x \in finished : ret[x[1]][TaskRange(x)] = "Success" => Filled(x)
Told ==
  \A i \in 1..Len(Pushed) : Pushed[i].ret = "Success" =>
    \A x \in TasksOf(Pushed[i].id) : TaskRange(x) = Pushed[i].range => Filled(x)

Honest == Exclusive /\ Placed /\ Untouched /\ Reading /\ Carried /\ Marked /\ Told
-----------------------------------------------------------------------------
(* A natural number in a set of them is least.                             *)
LEMMA LeastOfNaturals ==
  ASSUME NEW T \in SUBSET Nat, T # {}
  PROVE  \E x \in T : \A y \in T : x <= y
<1>1. PICK x \in T : \A y \in T : ~ (<<y, x>> \in OpToRel(<, Nat))
  BY NatLessThanWellFounded, WFMin, Zenon
<1>2. ASSUME NEW y \in T PROVE x <= y
  <2>1. SUFFICES ASSUME y < x PROVE FALSE
    OBVIOUS
  <2>2. <<y, x>> \in OpToRel(<, Nat)
    BY <2>1, Zenon DEF OpToRel
  <2> QED BY <1>1, <2>2
<1> QED BY <1>2

(* A set of positions that has everything before its members is counted by *)
(* its last one.                                                           *)
LEMMA InitialSegment ==
  ASSUME NEW n \in Nat, NEW R \in SUBSET (1..n), \A i \in R : \A j \in 1..i : j \in R
  PROVE  R = 1..Cardinality(R) /\ Cardinality(R) \in 0..n
<1> DEFINE T == (1..n + 1) \ R
<1>1. T \in SUBSET Nat /\ n + 1 \in T
  OBVIOUS
<1>2. PICK k \in T : \A y \in T : k <= y
  BY <1>1, LeastOfNaturals
<1>3. k \in 1..n + 1 /\ k \notin R
  BY <1>2
<1>4. ASSUME NEW i \in R PROVE i \in 1..k - 1
  <2>1. i \in 1..n
    OBVIOUS
  <2>2. i >= k => k \in 1..i
    BY <1>3, <2>1
  <2>3. i < k
    BY <1>3, <2>1, <2>2
  <2> QED BY <1>3, <2>1, <2>3
<1>5. ASSUME NEW i \in 1..k - 1 PROVE i \in R
  <2>1. i \in 1..n + 1 /\ i < k
    BY <1>3
  <2> QED BY <1>2, <1>3, <2>1
<1>6. R = 1..k - 1
  BY <1>4, <1>5
<1>7. PICK m : m = k - 1 /\ m \in Nat /\ m <= n
  BY <1>3
<1>8. Cardinality(1..m) = m
  BY <1>7, FS_Interval
<1> QED BY <1>6, <1>7, <1>8

(* finished_until goes exactly as far as every task up to there has ended. *)
LEMMA ReachedExact ==
  ASSUME TypeOK, Works, NEW w \in Workers, Active(w), NEW upto
  PROVE  \A i \in 1..Len(CurTasks(w)) :
           i <= Reached(w, upto) <=> \A j \in 1..i : TaskEnd(CurTasks(w)[j]) <= upto
<1> DEFINE n == Len(CurTasks(w))
           R == {i \in DOMAIN CurTasks(w) : \A j \in 1..i : TaskEnd(CurTasks(w)[j]) <= upto}
<1>1. n \in Nat /\ DOMAIN CurTasks(w) = 1..n
  BY CurFacts DEF Active
<1>2. R \in SUBSET (1..n)
  BY <1>1
<1>3. \A i \in R : \A j \in 1..i : j \in R
  BY <1>1
<1>4. Reached(w, upto) = Cardinality(R)
  BY DEF Reached
<1>5. \A i \in 1..n : i \in R <=> \A j \in 1..i : TaskEnd(CurTasks(w)[j]) <= upto
  BY <1>1
<1> HIDE DEF n, R
<1>6. R = 1..Cardinality(R) /\ Cardinality(R) \in 0..n
  BY <1>1, <1>2, <1>3, InitialSegment
<1>7. \A i \in 1..n : i \in R <=> i <= Cardinality(R)
  BY <1>1, <1>6
<1> QED BY <1>4, <1>5, <1>7 DEF n

(* The parts of a task.                                                    *)
LEMMA TaskParts ==
  ASSUME RegistryType, ConsumerType, NEW x, Known(x)
  PROVE  /\ x \in TaskId /\ x[1] \in Ids /\ x[1] \in Opened
         /\ x[2] \in DOMAIN shape[x[1]].work /\ x[3] \in DOMAIN shape[x[1]].work[x[2]]
         /\ x[4] \in 1..Len(Tasks(x[1], x[2], x[3]))
         /\ x[2] \in Nat \ {0} /\ x[3] \in Nat \ {0} /\ x[4] \in Nat \ {0}
         /\ x = <<x[1], x[2], x[3], x[4]>>
<1>1. x[1] \in Opened /\ x \in TasksOf(x[1])
  BY DEF Known, Started
<1>2. x[1] \in Ids
  BY <1>1 DEF RegistryType, ConsumerType, Opened
<1>3. PICK id : id = x[1]
  OBVIOUS
<1>4. \E w \in DOMAIN shape[id].work : \E b \in DOMAIN shape[id].work[w] :
        \E i \in DOMAIN shape[id].work[w][b] : x = <<id, w, b, i>>
  BY <1>1, <1>3, TaskIn
<1>5. PICK w \in DOMAIN shape[id].work : \E b \in DOMAIN shape[id].work[w] :
        \E i \in DOMAIN shape[id].work[w][b] : x = <<id, w, b, i>>
  BY <1>4
<1>6. PICK b \in DOMAIN shape[id].work[w] : \E i \in DOMAIN shape[id].work[w][b] : x = <<id, w, b, i>>
  BY <1>5
<1>7. PICK i \in DOMAIN shape[id].work[w][b] : x = <<id, w, b, i>>
  BY <1>6
<1>8. x[2] = w /\ x[3] = b /\ x[4] = i
  BY <1>7
<1>9. shape[id] \in Shapes
  BY <1>2, <1>3 DEF RegistryType
<1>10. w \in Nat \ {0} /\ b \in Nat \ {0} /\ i \in Nat \ {0} /\ shape[id].work[w][b] \in Seq(TaskShape)
  BY <1>9, ShapeType
<1>11. i \in 1..Len(shape[id].work[w][b])
  BY <1>10, SeqFacts
<1>12. x \in TaskId
  BY <1>1, <1>2, TaskType
<1> QED BY <1>1, <1>2, <1>3, <1>7, <1>8, <1>10, <1>11, <1>12 DEF Tasks
-----------------------------------------------------------------------------
(* finished_until never goes back.                                         *)
LEMMA ReachedGrows ==
  ASSUME TypeOK, Works, Reading, NEW w \in Workers, wpc[w] = "read", NEW upto \in Nat, offset[w] <= upto
  PROVE  unfinished[w] <= Reached(w, upto)
<1>1. Active(w) /\ unfinished[w] \in Nat /\ unfinished[w] <= Len(CurTasks(w))
      /\ Len(CurTasks(w)) \in Nat /\ Reached(w, upto) \in Nat /\ offset[w] \in Nat
  <2>1. Active(w)
    BY DEF Active
  <2> QED BY <2>1, CurFacts, ReachedFacts DEF TypeOK, PoolType, Works, Active
<1>2. CASE unfinished[w] = 0
  BY <1>1, <1>2
<1>3. CASE unfinished[w] # 0
  <2>1. unfinished[w] \in 1..Len(CurTasks(w))
    BY <1>1, <1>3
  <2>2. ASSUME NEW j \in 1..unfinished[w] PROVE TaskEnd(CurTasks(w)[j]) <= upto
    <3>1. TaskEnd(CurTasks(w)[j]) <= offset[w]
      BY DEF Reading, ReadSoFar
    <3>2. j \in 1..Len(CurTasks(w))
      BY <1>1
    <3>3. CurTasks(w)[j] \in TasksOf(CurId(w)) /\ CurId(w) \in Ids
      BY <1>1, <3>2, CurFacts DEF Active
    <3>4. TaskEnd(CurTasks(w)[j]) \in Nat
      BY <3>3, TaskType DEF TypeOK
    <3> QED BY <1>1, <3>1, <3>4
  <2> QED BY <1>1, <2>1, <2>2, ReachedExact
<1> QED BY <1>2, <1>3

(* Nothing gets ahead again; only a caller about to dispatch has tasks     *)
(* ahead that were not ahead before.                                       *)
LEMMA AheadCaller ==
  ASSUME Inv, NEW p \in Submitters, async_request(p), NEW x, x[2] \in Nat \ {0}, x[3] \in Nat \ {0},
         Ahead(x)'
  PROVE  Ahead(x) \/ (Increment(p) /\ x[1] = sub[p])
<1>0. /\ pc \in [Submitters -> Pcs] /\ sub \in [Submitters -> Nat] /\ next \in [Submitters -> Nat \ {0}]
      /\ batch \in [Threads -> Nat \ {0}] /\ deque \in Seq(Nat \X Nat) /\ p \in Threads
  BY DEF Inv, TypeOK, CallerType, PoolType, Threads
<1>a. p \notin Workers
  BY ThreadAssumption
<1>1. ASSUME deque' = deque, UNCHANGED <<work, wpc, unfinished>>,
             \A t \in Threads : t # p => batch'[t] = batch[t],
             \A q \in Submitters : q # p => pc'[q] = pc[q] /\ sub'[q] = sub[q] /\ next'[q] = next[q],
             AheadOfCaller(p, x)' => AheadOfCaller(p, x)
      PROVE  Ahead(x)
  <2>1. CASE \E q \in Submitters : AheadOfCaller(q, x)'
    <3>1. PICK q \in Submitters : AheadOfCaller(q, x)'
      BY <2>1
    <3>2. CASE q = p
      BY <1>1, <3>1, <3>2 DEF Ahead
    <3>3. CASE q # p
      <4>1. q \in Threads
        BY DEF Threads
      <4>2. pc'[q] = pc[q] /\ sub'[q] = sub[q] /\ next'[q] = next[q] /\ batch'[q] = batch[q]
        BY <1>1, <3>3, <4>1
      <4>3. AheadOfCaller(q, x)
        BY <3>1, <4>2 DEF AheadOfCaller, Giving
      <4> QED BY <4>3 DEF Ahead
    <3> QED BY <3>2, <3>3
  <2>2. CASE AheadOfQueue(x)'
    BY <1>1, <2>2 DEF AheadOfQueue, Ahead
  <2>3. CASE \E w \in Workers : AheadOfWorker(w, x)'
    <3>1. PICK w \in Workers : AheadOfWorker(w, x)'
      BY <2>3
    <3>2. w \in Threads /\ w # p
      BY <1>a DEF Threads
    <3>3. batch'[w] = batch[w]
      BY <1>1, <3>2
    <3>4. AheadOfWorker(w, x)
      BY <1>1, <3>1, <3>3 DEF AheadOfWorker, Active
    <3> QED BY <3>4 DEF Ahead
  <2> QED BY <2>1, <2>2, <2>3 DEF Ahead
<1>2. CASE Generate(p) \/ Build(p) \/ BuildFails(p) \/ Add(p) \/ Return(p)
  <2>1. deque' = deque /\ UNCHANGED <<work, wpc, unfinished, batch>>
    BY <1>2 DEF Generate, Build, BuildFails, Add, Return, pool
  <2>2. /\ \A q \in Submitters : q # p => pc'[q] = pc[q] /\ sub'[q] = sub[q] /\ next'[q] = next[q]
        /\ pc'[p] \in {"idle", "build", "add", "increment"}
    BY <1>0, <1>2 DEF Generate, Build, BuildFails, Add, Return
  <2>3. ~AheadOfCaller(p, x)'
    BY <2>2 DEF AheadOfCaller, Giving
  <2> QED BY <1>1, <2>1, <2>2, <2>3
<1>3. CASE Increment(p)
  <2>1. deque' = deque /\ UNCHANGED <<work, wpc, unfinished, batch, sub>>
    BY <1>3 DEF Increment, pool
  <2>2. \A q \in Submitters : q # p => pc'[q] = pc[q] /\ sub'[q] = sub[q] /\ next'[q] = next[q]
    BY <1>0, <1>3 DEF Increment
  <2>3. CASE x[1] # sub[p]
    <3>1. ~AheadOfCaller(p, x)'
      BY <2>1, <2>3 DEF AheadOfCaller
    <3> QED BY <1>1, <2>1, <2>2, <3>1
  <2> QED BY <1>3, <2>3
<1>4. CASE DispatchThrows(p)
  <2>1. deque' = deque /\ UNCHANGED <<work, wpc, unfinished, batch, sub, next>> /\ pc[p] = "dispatch"
    BY <1>4 DEF DispatchThrows, pool
  <2>2. \A q \in Submitters : q # p => pc'[q] = pc[q] /\ sub'[q] = sub[q] /\ next'[q] = next[q]
    BY <1>0, <1>4 DEF DispatchThrows
  <2>3. AheadOfCaller(p, x)' => AheadOfCaller(p, x)
    BY <2>1 DEF AheadOfCaller, Giving
  <2> QED BY <1>1, <2>1, <2>2, <2>3
<1>5. CASE DrainUndispatched(p)
  <2>1. deque' = deque /\ UNCHANGED <<work, wpc, unfinished, sub, pc>> /\ pc[p] = "drain"
    BY <1>5 DEF DrainUndispatched
  <2>2. /\ \A q \in Submitters : q # p => next'[q] = next[q]
        /\ \A t \in Threads : t # p => batch'[t] = batch[t]
    BY <1>0, <1>5 DEF DrainUndispatched
  <2>3. \/ next'[p] = next[p] + 1 /\ batch'[p] = 1
        \/ next'[p] = next[p] /\ batch'[p] = batch[p] + 1
    BY <1>0, <1>5 DEF DrainUndispatched
  <2>4. next[p] \in Nat /\ batch[p] \in Nat
    BY <1>0
  <2>5. ASSUME AheadOfCaller(p, x)' PROVE AheadOfCaller(p, x)
    <3>1. x[1] = sub[p] /\ (x[2] > next'[p] \/ (x[2] = next'[p] /\ x[3] >= batch'[p]))
      BY <2>1, <2>5 DEF AheadOfCaller
    <3>2. x[2] > next[p] \/ (x[2] = next[p] /\ x[3] >= batch[p])
      BY <2>3, <2>4, <3>1
    <3> QED BY <2>1, <3>1, <3>2 DEF AheadOfCaller, Giving
  <2> QED BY <1>1, <2>1, <2>2, <2>5
<1>6. CASE DrainLoses(p)
  <2>1. deque' = deque /\ UNCHANGED <<work, wpc, unfinished, sub, pc>> /\ pc[p] = "drain"
    BY <1>6 DEF DrainLoses
  <2>2. /\ \A q \in Submitters : q # p => next'[q] = next[q]
        /\ \A t \in Threads : t # p => batch'[t] = batch[t]
    BY <1>0, <1>6 DEF DrainLoses
  <2>3. \/ next'[p] = next[p] + 1 /\ batch'[p] = 1
        \/ next'[p] = next[p] /\ batch'[p] = batch[p]
    BY <1>0, <1>6 DEF DrainLoses
  <2>4. next[p] \in Nat /\ batch[p] \in Nat
    BY <1>0
  <2>5. ASSUME AheadOfCaller(p, x)' PROVE AheadOfCaller(p, x)
    <3>1. x[1] = sub[p] /\ (x[2] > next'[p] \/ (x[2] = next'[p] /\ x[3] >= batch'[p]))
      BY <2>1, <2>5 DEF AheadOfCaller
    <3>2. x[2] > next[p] \/ (x[2] = next[p] /\ x[3] >= batch[p])
      BY <2>3, <2>4, <3>1
    <3> QED BY <2>1, <3>1, <3>2 DEF AheadOfCaller, Giving
  <2> QED BY <1>1, <2>1, <2>2, <2>5
<1>7. CASE Dispatch(p)
  <2>1. UNCHANGED <<work, wpc, unfinished, batch, sub, pc>> /\ pc[p] = "dispatch"
    BY <1>7 DEF Dispatch
  <2>2. /\ \A q \in Submitters : q # p => next'[q] = next[q]
        /\ next'[p] = next[p] + 1 /\ next[p] \in Nat /\ batch[p] \in Nat
    BY <1>0, <1>7 DEF Dispatch
  <2>3. batch[p] = 1
    BY <2>1 DEF Inv, Callers, CallerSane
  <2>4. ASSUME AheadOfCaller(p, x)' PROVE AheadOfCaller(p, x)
    <3>1. x[1] = sub[p] /\ (x[2] > next'[p] \/ x[2] = next'[p])
      BY <2>1, <2>4 DEF AheadOfCaller
    <3>2. x[2] > next[p]
      BY <2>2, <3>1
    <3> QED BY <2>1, <3>1, <3>2 DEF AheadOfCaller, Giving
  <2>5. CASE deque' = deque
    BY <1>1, <2>1, <2>2, <2>4, <2>5
  <2>6. CASE deque' = Append(deque, <<sub[p], next[p]>>)
    <3>1. CASE AheadOfQueue(x)'
      <4>1. PICK i \in 1..Len(deque') : Same(deque'[i], x)
        BY <3>1 DEF AheadOfQueue, Same
      <4>2. <<sub[p], next[p]>> \in Nat \X Nat
        BY <1>0
      <4>3. /\ Len(deque') = Len(deque) + 1 /\ deque'[Len(deque) + 1] = <<sub[p], next[p]>>
            /\ \A j \in 1..Len(deque) : deque'[j] = deque[j]
            /\ Len(deque) \in Nat
        BY <1>0, <2>6, <4>2, AppendProperties, LenProperties
      <4>4. CASE i \in 1..Len(deque)
        <5>1. Same(deque[i], x)
          BY <4>1, <4>3, <4>4
        <5> QED BY <4>4, <5>1 DEF AheadOfQueue, Ahead
      <4>5. CASE i = Len(deque) + 1
        <5>1. x[1] = sub[p] /\ x[2] = next[p]
          BY <4>1, <4>3, <4>5 DEF Same
        <5>2. x[3] >= batch[p]
          BY <2>3
        <5>3. AheadOfCaller(p, x)
          BY <2>1, <5>1, <5>2 DEF AheadOfCaller, Giving
        <5> QED BY <5>3 DEF Ahead
      <4> QED BY <4>1, <4>3, <4>4, <4>5
    <3>2. CASE \E q \in Submitters : AheadOfCaller(q, x)'
      <4>1. PICK q \in Submitters : AheadOfCaller(q, x)'
        BY <3>2
      <4>2. q # p => AheadOfCaller(q, x)
        BY <2>1, <2>2, <4>1 DEF AheadOfCaller, Giving
      <4> QED BY <2>4, <4>1, <4>2 DEF Ahead
    <3>3. CASE \E w \in Workers : AheadOfWorker(w, x)'
      BY <2>1, <3>3 DEF Ahead, AheadOfWorker, Active
    <3> QED BY <3>1, <3>2, <3>3 DEF Ahead
  <2>7. deque' = deque \/ deque' = Append(deque, <<sub[p], next[p]>>)
    BY <1>7 DEF Dispatch
  <2> QED BY <2>5, <2>6, <2>7
<1> QED BY <1>2, <1>3, <1>4, <1>5, <1>6, <1>7 DEF async_request

(* A pool thread keeps to its own workload: its position only advances.    *)
LEMMA ExecuteMoves ==
  ASSUME TypeOK, Works, Reading, NEW w \in Workers, execute(w), ~PopWorkload(w)
  PROVE  /\ deque' = deque /\ work' = work
         /\ \A v \in Workers : v # w => /\ wpc'[v] = wpc[v] /\ unfinished'[v] = unfinished[v]
                                        /\ todo'[v] = todo[v] /\ code'[v] = code[v] /\ offset'[v] = offset[v]
         /\ \A t \in Threads : t # w => batch'[t] = batch[t] /\ todo'[t] = todo[t] /\ code'[t] = code[t]
         /\ Active(w)' => Active(w)
         /\ \/ /\ ~Active(w)' /\ todo' = todo
            \/ /\ wpc'[w] = "next" /\ batch'[w] = batch[w]
               /\ (todo' = todo /\ todo[w] = <<>>) \/ (todo'[w] = CurTasks(w) /\ code'[w] # "Success")
            \/ /\ wpc[w] = "open" /\ wpc'[w] = "read" /\ UNCHANGED <<batch, unfinished, todo>>
            \/ /\ wpc[w] = "read" /\ wpc'[w] \in {"read", "ended"} /\ batch' = batch
               /\ unfinished[w] <= unfinished'[w] /\ unfinished'[w] <= Len(CurTasks(w))
               /\ \/ todo' = todo /\ todo[w] = <<>> /\ unfinished' = unfinished
                  \/ todo'[w] = SubSeq(CurTasks(w), unfinished[w] + 1, unfinished'[w])
            \/ /\ wpc[w] = "next" /\ wpc'[w] = "open" /\ todo' = todo /\ todo[w] = <<>>
               /\ batch'[w] = batch[w] + 1 /\ unfinished'[w] = 0
<1>0. /\ wpc \in [Workers -> Wpcs] /\ unfinished \in [Workers -> Nat] /\ offset \in [Workers -> Nat]
      /\ batch \in [Threads -> Nat \ {0}] /\ todo \in [Threads -> Seq(TaskId)] /\ code \in [Threads -> Codes]
      /\ w \in Threads /\ Workers \subseteq Threads
  BY DEF TypeOK, PoolType, FinishingType, Threads
<1>1. ASSUME NEW c, FailBatch(w, c), c # "Success"
      PROVE  /\ wpc'[w] = "next" /\ todo'[w] = CurTasks(w) /\ code'[w] # "Success"
             /\ UNCHANGED <<deque, work, batch, unfinished, offset>>
             /\ \A v \in Workers : v # w => wpc'[v] = wpc[v]
             /\ \A t \in Threads : t # w => todo'[t] = todo[t] /\ code'[t] = code[t]
  BY <1>0, <1>1 DEF FailBatch
<1>2. CASE OpenFile(w)
  <2>1. wpc[w] = "open"
    BY <1>2 DEF OpenFile
  <2>2. CASE FailBatch(w, "FileAccessError")
    BY <1>0, <1>1, <2>1, <2>2 DEF Active
  <2>3. CASE ~FailBatch(w, "FileAccessError")
    <3>1. /\ wpc' = [wpc EXCEPT ![w] = "read"] /\ offset' = [offset EXCEPT ![w] = 0]
          /\ UNCHANGED <<todo, code, deque, work, batch, unfinished>>
      BY <1>2, <2>3 DEF OpenFile, finishing
    <3> QED BY <1>0, <2>1, <3>1 DEF Active
  <2> QED BY <2>2, <2>3
<1>3. ASSUME NEW upto \in Nat, FinishUntil(w, upto), wpc[w] = "read", offset[w] <= upto
      PROVE  /\ unfinished[w] <= unfinished'[w] /\ unfinished'[w] <= Len(CurTasks(w))
             /\ todo'[w] = SubSeq(CurTasks(w), unfinished[w] + 1, unfinished'[w])
             /\ \A v \in Workers : v # w => unfinished'[v] = unfinished[v]
             /\ \A t \in Threads : t # w => todo'[t] = todo[t] /\ code'[t] = code[t]
  <2>1. /\ unfinished' = [unfinished EXCEPT ![w] = Reached(w, upto)]
        /\ todo' = [todo EXCEPT ![w] = SubSeq(CurTasks(w), unfinished[w] + 1, Reached(w, upto))]
        /\ code' = [code EXCEPT ![w] = "Success"]
    BY <1>3 DEF FinishUntil
  <2>2. unfinished[w] <= Reached(w, upto)
    BY <1>3, ReachedGrows
  <2>3. Reached(w, upto) \in 0..Len(CurTasks(w)) /\ Len(CurTasks(w)) \in Nat
    BY <1>3, ReachedFacts, CurFacts
  <2>4. unfinished'[w] = Reached(w, upto)
    BY <1>0, <2>1
  <2> QED BY <1>0, <2>1, <2>2, <2>3, <2>4, SMTT(30)
<1>4. CASE ReadBlock(w)
  <2>1. wpc[w] = "read" /\ Active(w) /\ offset[w] < CurEnd(w)
    BY <1>4 DEF ReadBlock, Active
  <2>2. CASE FailBatch(w, "FileAccessError")
    BY <1>0, <1>1, <2>1, <2>2
  <2>3. CASE ~FailBatch(w, "FileAccessError")
    <3>1. PICK upto : /\ upto = IF offset[w] + BlockBytes < CurEnd(w) THEN offset[w] + BlockBytes ELSE CurEnd(w)
                      /\ offset' = [offset EXCEPT ![w] = upto] /\ FinishUntil(w, upto)
                      /\ UNCHANGED <<deque, wpc, work, batch>>
      BY <1>4, <2>3 DEF ReadBlock
    <3>2. CurEnd(w) \in Nat /\ offset[w] \in Nat /\ BlockBytes \in Nat
      BY <1>0, <2>1, CurFacts, BlockAssumption DEF Active
    <3>3. upto \in Nat /\ offset[w] <= upto
      BY <2>1, <3>1, <3>2
    <3>4. /\ unfinished[w] <= unfinished'[w] /\ unfinished'[w] <= Len(CurTasks(w))
          /\ todo'[w] = SubSeq(CurTasks(w), unfinished[w] + 1, unfinished'[w])
          /\ \A v \in Workers : v # w => unfinished'[v] = unfinished[v]
          /\ \A t \in Threads : t # w => todo'[t] = todo[t] /\ code'[t] = code[t]
      BY <1>3, <2>1, <3>1, <3>3
    <3>5. \A v \in Workers : v # w => offset'[v] = offset[v]
      BY <1>0, <3>1
    <3>6. deque' = deque /\ work' = work /\ wpc' = wpc /\ batch' = batch
      BY <3>1
    <3> QED BY <1>0, <2>1, <3>4, <3>5, <3>6
  <2> QED BY <2>2, <2>3
<1>5. CASE EndRead(w)
  <2>1. /\ wpc[w] = "read" /\ Active(w) /\ todo[w] = <<>> /\ (offset[w] = CurEnd(w) \/ stopped)
        /\ wpc' = [wpc EXCEPT ![w] = "ended"] /\ UNCHANGED <<deque, work, batch, offset>>
    BY <1>5 DEF EndRead, Active
  <2>2. CASE UNCHANGED <<finishing, unfinished>>
    <3>1. unfinished[w] <= Len(CurTasks(w))
      BY <2>1 DEF Works
    <3>2. unfinished[w] \in Nat
      BY <1>0
    <3>3. todo' = todo /\ code' = code /\ unfinished' = unfinished /\ wpc'[w] = "ended"
          /\ \A v \in Workers : v # w => wpc'[v] = wpc[v]
      BY <1>0, <2>1, <2>2 DEF finishing
    <3>4. unfinished[w] <= unfinished'[w]
      BY <3>2, <3>3
    <3> QED BY <1>0, <2>1, <3>1, <3>3, <3>4
  <2>3. CASE ~stopped /\ FinishUntil(w, CurEnd(w))
    <3>1. CurEnd(w) \in Nat /\ offset[w] = CurEnd(w) /\ offset[w] \in Nat
      BY <1>0, <2>1, <2>3, CurFacts DEF Active
    <3>2. /\ unfinished[w] <= unfinished'[w] /\ unfinished'[w] <= Len(CurTasks(w))
          /\ todo'[w] = SubSeq(CurTasks(w), unfinished[w] + 1, unfinished'[w])
          /\ \A v \in Workers : v # w => unfinished'[v] = unfinished[v]
          /\ \A t \in Threads : t # w => todo'[t] = todo[t] /\ code'[t] = code[t]
      <4>1. PICK e : e = CurEnd(w) /\ e \in Nat /\ offset[w] <= e
        BY <3>1
      <4>2. FinishUntil(w, e)
        BY <2>3, <4>1
      <4> QED BY <1>3, <2>1, <4>1, <4>2
    <3>3. wpc'[w] = "ended" /\ \A v \in Workers : v # w => wpc'[v] = wpc[v]
      BY <1>0, <2>1
    <3> QED BY <1>0, <2>1, <3>2, <3>3
  <2> QED BY <1>5, <2>2, <2>3 DEF EndRead
<1>6. CASE EndBatch(w)
  <2>1. wpc[w] = "ended" /\ Active(w) /\ todo[w] = <<>>
    BY <1>6 DEF EndBatch, Active
  <2>2. CASE FailBatch(w, "FinishedError")
    BY <1>0, <1>1, <2>1, <2>2
  <2>3. CASE ~FailBatch(w, "FinishedError")
    <3>1. /\ wpc' = [wpc EXCEPT ![w] = "next"]
          /\ UNCHANGED <<todo, code, deque, work, batch, unfinished, offset>>
      BY <1>6, <2>3 DEF EndBatch, finishing
    <3> QED BY <1>0, <2>1, <3>1
  <2> QED BY <2>2, <2>3
<1>7. CASE NextBatch(w)
  <2>1. wpc[w] = "next" /\ Active(w) /\ todo[w] = <<>> /\ UNCHANGED <<deque, work, offset, todo, code>>
    BY <1>7 DEF NextBatch, Active, finishing
  <2>2. CASE /\ batch' = [batch EXCEPT ![w] = @ + 1] /\ unfinished' = [unfinished EXCEPT ![w] = 0]
             /\ wpc' = [wpc EXCEPT ![w] = "open"]
    BY <1>0, <2>1, <2>2
  <2>3. CASE wpc' = [wpc EXCEPT ![w] = "idle"] /\ UNCHANGED <<batch, unfinished>>
    BY <1>0, <2>1, <2>3 DEF Active
  <2> QED BY <1>7, <2>2, <2>3 DEF NextBatch
<1>8. CASE ExitWorker(w)
  <2>1. /\ wpc' = [wpc EXCEPT ![w] = "exit"] /\ UNCHANGED <<deque, work, offset, todo, code, batch, unfinished>>
    BY <1>8 DEF ExitWorker, finishing
  <2> QED BY <1>0, <2>1 DEF Active
<1> QED BY <1>2, <1>4, <1>5, <1>6, <1>7, <1>8 DEF execute

(* A thread that takes a workload takes the oldest one.                    *)
LEMMA PopFacts ==
  ASSUME TypeOK, NEW w \in Workers, PopWorkload(w)
  PROVE  /\ Len(deque) \in Nat \ {0} /\ Len(deque') = Len(deque) - 1
         /\ \A i \in 1..Len(deque') : i + 1 \in 1..Len(deque) /\ deque'[i] = deque[i + 1]
         /\ 1 \in 1..Len(deque) /\ work'[w] = deque[1] /\ batch'[w] = 1 /\ unfinished'[w] = 0
         /\ wpc[w] = "idle" /\ wpc'[w] = "open" /\ todo' = todo /\ code' = code /\ offset' = offset
         /\ \A v \in Workers : v # w => work'[v] = work[v] /\ wpc'[v] = wpc[v] /\ unfinished'[v] = unfinished[v]
         /\ \A t \in Threads : t # w => batch'[t] = batch[t]
<1>0. /\ wpc \in [Workers -> Wpcs] /\ unfinished \in [Workers -> Nat] /\ work \in [Workers -> Nat \X Nat]
      /\ batch \in [Threads -> Nat \ {0}] /\ deque \in Seq(Nat \X Nat) /\ w \in Threads
  BY DEF TypeOK, PoolType, Threads
<1>1. /\ deque # <<>> /\ deque' = Tail(deque) /\ work' = [work EXCEPT ![w] = Head(deque)]
      /\ batch' = [batch EXCEPT ![w] = 1] /\ unfinished' = [unfinished EXCEPT ![w] = 0]
      /\ wpc' = [wpc EXCEPT ![w] = "open"] /\ wpc[w] = "idle"
      /\ todo' = todo /\ code' = code /\ offset' = offset
  BY DEF PopWorkload, finishing
<1>2. Len(deque) \in Nat \ {0} /\ Head(deque) = deque[1] /\ Len(Tail(deque)) = Len(deque) - 1
      /\ \A i \in 1..Len(Tail(deque)) : Tail(deque)[i] = deque[i + 1]
  BY <1>0, <1>1, HeadTailProperties, EmptySeq
<1>3. \A i \in 1..Len(deque') : i + 1 \in 1..Len(deque) /\ deque'[i] = deque[i + 1]
  BY <1>1, <1>2
<1> QED BY <1>0, <1>1, <1>2, <1>3

(* The same for the pool's threads.                                        *)
LEMMA AheadExecute ==
  ASSUME Inv, Reading, NEW w \in Workers, execute(w), NEW x, x[2] \in Nat \ {0}, x[3] \in Nat \ {0},
         x[4] \in Nat \ {0}, Ahead(x)'
  PROVE  Ahead(x)
<1>0. /\ TypeOK /\ Works /\ Workers \subseteq Threads /\ Submitters \subseteq Threads
      /\ \A p \in Submitters : p # w
      /\ unfinished \in [Workers -> Nat] /\ batch \in [Threads -> Nat \ {0}]
  BY ThreadAssumption DEF Inv, TypeOK, PoolType, Threads
<1>1. UNCHANGED <<pc, sub, next>>
  BY ExecuteFrame DEF caller
<1>2. CASE PopWorkload(w)
  <2>1. /\ 1 \in 1..Len(deque) /\ work'[w] = deque[1]
        /\ \A i \in 1..Len(deque') : i + 1 \in 1..Len(deque) /\ deque'[i] = deque[i + 1]
        /\ \A v \in Workers : v # w => work'[v] = work[v] /\ wpc'[v] = wpc[v] /\ unfinished'[v] = unfinished[v]
        /\ \A t \in Threads : t # w => batch'[t] = batch[t]
    BY <1>0, <1>2, PopFacts
  <2>2. CASE \E p \in Submitters : AheadOfCaller(p, x)'
    BY <1>0, <1>1, <2>1, <2>2 DEF Ahead, AheadOfCaller, Giving
  <2>3. CASE AheadOfQueue(x)'
    <3>1. PICK i \in 1..Len(deque') : Same(deque'[i], x)
      BY <2>3 DEF AheadOfQueue, Same
    <3> QED BY <2>1, <3>1 DEF Ahead, AheadOfQueue
  <2>4. CASE \E v \in Workers : AheadOfWorker(v, x)'
    <3>1. PICK v \in Workers : AheadOfWorker(v, x)'
      BY <2>4
    <3>2. CASE v = w
      <4>1. Same(deque[1], x)
        BY <2>1, <3>1, <3>2 DEF AheadOfWorker, Same
      <4> QED BY <2>1, <4>1 DEF Ahead, AheadOfQueue
    <3>3. CASE v # w
      <4>1. AheadOfWorker(v, x)
        BY <1>0, <2>1, <3>1, <3>3 DEF AheadOfWorker, Active, Same
      <4> QED BY <4>1 DEF Ahead
    <3> QED BY <3>2, <3>3
  <2> QED BY <2>2, <2>3, <2>4 DEF Ahead
<1>3. CASE ~PopWorkload(w)
  <2>1. /\ deque' = deque /\ work' = work
        /\ \A v \in Workers : v # w => wpc'[v] = wpc[v] /\ unfinished'[v] = unfinished[v]
        /\ \A t \in Threads : t # w => batch'[t] = batch[t]
    BY <1>0, <1>3, ExecuteMoves
  <2>2. CASE \E p \in Submitters : AheadOfCaller(p, x)'
    BY <1>0, <1>1, <2>1, <2>2 DEF Ahead, AheadOfCaller, Giving
  <2>3. CASE AheadOfQueue(x)'
    BY <2>1, <2>3 DEF Ahead, AheadOfQueue
  <2>4. CASE \E v \in Workers : AheadOfWorker(v, x)'
    <3>1. PICK v \in Workers : AheadOfWorker(v, x)'
      BY <2>4
    <3>2. CASE v = w
      <4>1. /\ Active(w)' /\ Active(w) /\ Same(work[w], x)
            /\ x[3] > batch'[w] \/ (x[3] = batch'[w] /\ x[4] > unfinished'[w] /\ wpc'[w] # "next")
        BY <1>0, <1>3, <2>1, <3>1, <3>2, ExecuteMoves DEF AheadOfWorker, Same
      <4>2. \/ wpc'[w] = "next" /\ batch'[w] = batch[w]
            \/ wpc[w] = "open" /\ batch'[w] = batch[w] /\ unfinished'[w] = unfinished[w]
            \/ wpc[w] = "read" /\ batch'[w] = batch[w] /\ unfinished[w] <= unfinished'[w]
               /\ unfinished'[w] <= Len(CurTasks(w))
            \/ wpc[w] = "next" /\ batch'[w] = batch[w] + 1
        BY <1>0, <1>3, <4>1, ExecuteMoves
      <4>3. batch[w] \in Nat /\ unfinished[w] \in Nat
        BY <1>0
      <4>4. unfinished'[w] \in Nat
        BY <1>0, TypeStep DEF Inv, TypeOK, PoolType, Next
      <4>5. x[3] > batch[w] \/ (x[3] = batch[w] /\ x[4] > unfinished[w] /\ wpc[w] # "next")
        BY <4>1, <4>2, <4>3, <4>4
      <4>6. AheadOfWorker(w, x)
        BY <4>1, <4>5 DEF AheadOfWorker
      <4> QED BY <4>6 DEF Ahead
    <3>3. CASE v # w
      <4>1. AheadOfWorker(v, x)
        BY <1>0, <2>1, <3>1, <3>3 DEF AheadOfWorker, Active, Same
      <4> QED BY <4>1 DEF Ahead
    <3> QED BY <3>2, <3>3
  <2> QED BY <2>2, <2>3, <2>4 DEF Ahead
<1> QED BY <1>2, <1>3

(* The same for every other step.                                          *)
LEMMA AheadStep ==
  ASSUME Inv, Reading, Next \/ UNCHANGED vars, NEW x, x[2] \in Nat \ {0}, x[3] \in Nat \ {0},
         x[4] \in Nat \ {0}, Ahead(x)'
  PROVE  Ahead(x) \/ \E p \in Submitters : Increment(p) /\ x[1] = sub[p]
<1>1. CASE \E p \in Submitters : async_request(p)
  BY <1>1, AheadCaller
<1>2. CASE \E w \in Workers : execute(w)
  BY <1>2, AheadExecute
<1>3. CASE (\E t \in Threads : Finish(t)) \/ response \/ StopResponder \/ StopPost \/ Destroyed \/ UNCHANGED vars
  <2>1. UNCHANGED <<pc, sub, next, batch, deque, work, wpc, unfinished>>
    BY <1>3, FinishFrame, ResponseFrame DEF caller, pool, Destroyed, vars
  <2> QED BY <2>1 DEF Ahead, AheadOfCaller, AheadOfQueue, AheadOfWorker, Giving, Active, Same
<1>4. CASE StopPools
  <2>1. UNCHANGED <<pc, sub, next, batch, work, wpc, unfinished>> /\ deque' = <<>>
    BY <1>4 DEF StopPools, caller
  <2>2. ~AheadOfQueue(x)'
    <3>1. Len(deque') = 0
      BY <2>1
    <3> QED BY <3>1 DEF AheadOfQueue
  <2> QED BY <2>1, <2>2 DEF Ahead, AheadOfCaller, AheadOfWorker, Giving, Active, Same
<1> QED BY <1>1, <1>2, <1>3, <1>4 DEF Next
-----------------------------------------------------------------------------
(* What has been given away belongs to a started submission.               *)
LEMMA GivenStarted ==
  ASSUME Works
  PROVE  /\ \A i \in 1..Len(deque) : Started(deque[i][1])
         /\ \A w \in Workers : Active(w) => Started(work[w][1])
         /\ \A t \in Threads : \A i \in 1..Len(todo[t]) : Started(todo[t][i][1])
BY DEF Works, Queued, Known, Active

(* No workload gets into a second place.                                   *)
LEMMA ExclusiveFrame ==
  ASSUME TypeOK, TypeOK', Exclusive, deque' = deque \/ deque' = <<>>, work' = work,
         \A w \in Workers : Active(w)' => Active(w),
         \A p \in Submitters : Giving(p)' => Giving(p) /\ sub'[p] = sub[p] /\ next[p] <= next'[p]
  PROVE  Exclusive'
<1>0. /\ deque \in Seq(Nat \X Nat) /\ work \in [Workers -> Nat \X Nat]
      /\ next \in [Submitters -> Nat \ {0}] /\ next' \in [Submitters -> Nat \ {0}]
  BY DEF TypeOK, PoolType, CallerType
<1>1. \A i \in 1..Len(deque') : i \in 1..Len(deque) /\ deque'[i] = deque[i]
  <2>1. Len(<<>>) = 0
    OBVIOUS
  <2> QED BY <2>1
<1>2. \A i \in 1..Len(deque) : deque[i] \in Nat \X Nat
  BY <1>0, SeqFacts
<1>3. \A i, j \in 1..Len(deque') : Same(deque'[i], deque'[j]) => i = j
  BY <1>1 DEF Exclusive
<1>4. \A i \in 1..Len(deque'), w \in Workers : Active(w)' => ~Same(deque'[i], work'[w])
  BY <1>1 DEF Exclusive
<1>5. \A v, w \in Workers : Active(v)' /\ Active(w)' /\ Same(work'[v], work'[w]) => v = w
  BY DEF Exclusive
<1>6. ASSUME NEW p \in Submitters, Giving(p)'
      PROVE  /\ \A i \in 1..Len(deque') : deque'[i][1] = sub'[p] => deque'[i][2] < next'[p]
             /\ \A w \in Workers : Active(w)' /\ work'[w][1] = sub'[p] => work'[w][2] < next'[p]
  <2>1. Giving(p) /\ sub'[p] = sub[p] /\ next[p] <= next'[p] /\ next[p] \in Nat /\ next'[p] \in Nat
    BY <1>0, <1>6
  <2>2. ASSUME NEW i \in 1..Len(deque'), deque'[i][1] = sub'[p] PROVE deque'[i][2] < next'[p]
    <3>1. i \in 1..Len(deque) /\ deque'[i] = deque[i] /\ deque[i][2] \in Nat
      BY <1>1, <1>2
    <3>2. deque[i][2] < next[p]
      BY <2>1, <2>2, <3>1 DEF Exclusive
    <3> QED BY <2>1, <3>1, <3>2
  <2>3. ASSUME NEW w \in Workers, Active(w)', work'[w][1] = sub'[p] PROVE work'[w][2] < next'[p]
    <3>1. work[w][2] < next[p] /\ work[w][2] \in Nat
      BY <1>0, <2>1, <2>3 DEF Exclusive
    <3> QED BY <2>1, <3>1
  <2> QED BY <2>2, <2>3
<1> QED BY <1>3, <1>4, <1>5, <1>6 DEF Exclusive, Same

(* Dispatching moves the caller's next workload into the queue.            *)
LEMMA ExclusiveDispatch ==
  ASSUME Inv, Exclusive, NEW p \in Submitters, Dispatch(p)
  PROVE  Exclusive'
<1>0. /\ deque \in Seq(Nat \X Nat) /\ work \in [Workers -> Nat \X Nat] /\ TypeOK /\ TypeOK'
      /\ next \in [Submitters -> Nat \ {0}] /\ sub \in [Submitters -> Nat] /\ pc[p] = "dispatch"
  BY TypeStep DEF Inv, TypeOK, PoolType, CallerType, Dispatch, Next, async_request
<1>1. /\ UNCHANGED <<work, wpc, pc, sub>> /\ next' = [next EXCEPT ![p] = next[p] + 1] /\ Giving(p)
      /\ deque' = deque \/ deque' = Append(deque, <<sub[p], next[p]>>)
  BY DEF Dispatch, Giving
<1>2. \A q \in Submitters : Giving(q)' => Giving(q) /\ sub'[q] = sub[q] /\ next[q] <= next'[q]
  BY <1>0, <1>1 DEF Giving
<1>3. CASE deque' = deque
  BY <1>0, <1>1, <1>2, <1>3, ExclusiveFrame DEF Active
<1>4. CASE deque' = Append(deque, <<sub[p], next[p]>>)
  <2>a. PICK n : n = Len(deque) /\ n \in Nat
    BY <1>0, LenProperties
  <2>b. PICK e : e = <<sub[p], next[p]>>
    OBVIOUS
  <2>1. e[1] = sub[p] /\ e[2] = next[p] /\ e \in Nat \X Nat
    BY <1>0, <2>b
  <2>2. Len(deque') = n + 1 /\ deque'[n + 1] = e /\ \A i \in 1..n : deque'[i] = deque[i]
    BY <1>0, <1>4, <2>a, <2>b, <2>1, AppendProperties
  <2>3. \A i \in 1..n : ~Same(deque[i], e) /\ ~Same(e, deque[i])
    <3> SUFFICES ASSUME NEW i \in 1..n, deque[i][1] = sub[p], deque[i][2] = next[p] PROVE FALSE
      BY <2>1 DEF Same
    <3>1. next[p] < next[p]
      BY <1>1, <2>a DEF Exclusive
    <3>2. next[p] \in Nat
      BY <1>0
    <3> QED BY <3>1, <3>2
  <2>4. \A w \in Workers : Active(w) => ~Same(e, work[w])
    <3> SUFFICES ASSUME NEW w \in Workers, Active(w), work[w][1] = sub[p], work[w][2] = next[p] PROVE FALSE
      BY <2>1 DEF Same
    <3>1. next[p] < next[p]
      BY <1>1 DEF Exclusive
    <3>2. next[p] \in Nat
      BY <1>0
    <3> QED BY <3>1, <3>2
  <2>5. \A i \in 1..Len(deque') : i \in 1..n \/ i = n + 1
    BY <2>a, <2>2
  <2>6. ASSUME NEW i \in 1..Len(deque'), NEW j \in 1..Len(deque'), Same(deque'[i], deque'[j]) PROVE i = j
    <3>1. i \in 1..n /\ j \in 1..n => i = j
      BY <2>a, <2>2, <2>6 DEF Exclusive
    <3>2. ~(i \in 1..n /\ j = n + 1) /\ ~(i = n + 1 /\ j \in 1..n)
      BY <2>2, <2>3, <2>6
    <3> QED BY <2>5, <3>1, <3>2
  <2>7. ASSUME NEW i \in 1..Len(deque'), NEW w \in Workers, Active(w) PROVE ~Same(deque'[i], work[w])
    BY <2>a, <2>2, <2>4, <2>5, <2>7 DEF Exclusive
  <2>8. ASSUME NEW q \in Submitters, Giving(q)
        PROVE  /\ \A i \in 1..Len(deque') : deque'[i][1] = sub[q] => deque'[i][2] < next'[q]
               /\ \A w \in Workers : Active(w) /\ work[w][1] = sub[q] => work[w][2] < next'[q]
    <3>1. next[q] \in Nat /\ next'[q] \in Nat /\ next[q] <= next'[q]
      BY <1>0, <1>1
    <3>2. ASSUME NEW i \in 1..n, deque[i][1] = sub[q] PROVE deque[i][2] < next'[q]
      <4>1. deque[i] \in Nat \X Nat
        BY <1>0, <2>a, SeqFacts
      <4>2. deque[i][2] < next[q] /\ deque[i][2] \in Nat
        BY <2>8, <2>a, <3>2, <4>1 DEF Exclusive
      <4> QED BY <3>1, <4>2
    <3>3. ASSUME e[1] = sub[q] PROVE e[2] < next'[q]
      <4>1. q = p
        BY <1>0, <2>1, <2>8, <3>3 DEF Inv, Callers, Giving
      <4> QED BY <1>0, <1>1, <2>1, <4>1
    <3>4. ASSUME NEW w \in Workers, Active(w), work[w][1] = sub[q] PROVE work[w][2] < next'[q]
      <4>1. work[w][2] < next[q] /\ work[w][2] \in Nat
        BY <1>0, <2>8, <3>4 DEF Exclusive
      <4> QED BY <3>1, <4>1
    <3> QED BY <2>2, <2>5, <3>2, <3>3, <3>4
  <2>9. \A w \in Workers : Active(w)' <=> Active(w)
    BY <1>1 DEF Active
  <2>10. \A q \in Submitters : Giving(q)' <=> Giving(q)
    BY <1>1 DEF Giving
  <2>11. \A v, w \in Workers : Active(v) /\ Active(w) /\ Same(work[v], work[w]) => v = w
    BY DEF Exclusive
  <2> QED BY <1>1, <2>6, <2>7, <2>8, <2>9, <2>10, <2>11 DEF Exclusive, Same
<1> QED BY <1>1, <1>3, <1>4

(* A thread takes a workload out of the queue.                             *)
LEMMA ExclusivePop ==
  ASSUME Inv, Exclusive, NEW w \in Workers, PopWorkload(w)
  PROVE  Exclusive'
<1>0. TypeOK /\ deque \in Seq(Nat \X Nat)
  BY DEF Inv, TypeOK, PoolType
<1>1. /\ 1 \in 1..Len(deque) /\ work'[w] = deque[1] /\ Len(deque) \in Nat /\ Len(deque') = Len(deque) - 1
      /\ \A i \in 1..Len(deque') : i + 1 \in 1..Len(deque) /\ deque'[i] = deque[i + 1]
      /\ wpc[w] = "idle"
      /\ \A v \in Workers : v # w => work'[v] = work[v] /\ wpc'[v] = wpc[v]
  BY <1>0, PopFacts
<1>2. UNCHANGED <<pc, sub, next>>
  BY DEF PopWorkload, caller
<1>3. \A v \in Workers : v # w => (Active(v)' <=> Active(v))
  BY <1>1 DEF Active
<1>4. \A i, j \in 1..Len(deque') : Same(deque'[i], deque'[j]) => i = j
  <2> SUFFICES ASSUME NEW i \in 1..Len(deque'), NEW j \in 1..Len(deque'), Same(deque'[i], deque'[j]) PROVE i = j
    OBVIOUS
  <2>1. Same(deque[i + 1], deque[j + 1]) /\ i + 1 \in 1..Len(deque) /\ j + 1 \in 1..Len(deque)
    BY <1>1
  <2>2. i + 1 = j + 1
    BY <2>1 DEF Exclusive
  <2> QED BY <2>2
<1>5. \A i \in 1..Len(deque'), v \in Workers : Active(v)' => ~Same(deque'[i], work'[v])
  <2> SUFFICES ASSUME NEW i \in 1..Len(deque'), NEW v \in Workers, Active(v)', Same(deque'[i], work'[v])
               PROVE FALSE
    OBVIOUS
  <2>1. CASE v = w
    <3>1. Same(deque[i + 1], deque[1]) /\ i + 1 \in 1..Len(deque) /\ 1 \in 1..Len(deque)
      BY <1>1, <2>1
    <3>2. i + 1 = 1
      BY <3>1 DEF Exclusive
    <3> QED BY <3>2
  <2>2. CASE v # w
    BY <1>1, <1>3, <2>2 DEF Exclusive
  <2> QED BY <2>1, <2>2
<1>6. \A u, v \in Workers : Active(u)' /\ Active(v)' /\ Same(work'[u], work'[v]) => u = v
  <2> SUFFICES ASSUME NEW u \in Workers, NEW v \in Workers, Active(u)', Active(v)', Same(work'[u], work'[v]), u # v
               PROVE FALSE
    OBVIOUS
  <2>1. CASE u # w /\ v # w
    BY <1>1, <1>3, <2>1 DEF Exclusive
  <2>2. CASE u = w
    <3>1. v # w /\ Active(v) /\ Same(deque[1], work[v])
      BY <1>1, <1>3, <2>2
    <3> QED BY <1>1, <3>1 DEF Exclusive
  <2>3. CASE v = w
    <3>1. u # w /\ Active(u) /\ Same(deque[1], work[u])
      BY <1>1, <1>3, <2>3 DEF Same
    <3> QED BY <1>1, <3>1 DEF Exclusive
  <2> QED BY <2>1, <2>2, <2>3
<1>7. ASSUME NEW p \in Submitters, Giving(p)'
      PROVE  /\ \A i \in 1..Len(deque') : deque'[i][1] = sub'[p] => deque'[i][2] < next'[p]
             /\ \A v \in Workers : Active(v)' /\ work'[v][1] = sub'[p] => work'[v][2] < next'[p]
  <2>1. Giving(p) /\ sub'[p] = sub[p] /\ next'[p] = next[p]
    BY <1>2, <1>7 DEF Giving
  <2>2. \A i \in 1..Len(deque') : deque'[i][1] = sub'[p] => deque'[i][2] < next'[p]
    BY <1>1, <2>1 DEF Exclusive
  <2>3. \A v \in Workers : Active(v)' /\ work'[v][1] = sub'[p] => work'[v][2] < next'[p]
    BY <1>1, <1>3, <2>1 DEF Exclusive
  <2> QED BY <2>2, <2>3
<1> QED BY <1>4, <1>5, <1>6, <1>7 DEF Exclusive, Same

(* Every step keeps each workload in one place.                            *)
LEMMA ExclusiveStep ==
  ASSUME Inv, Reading, Exclusive, Next \/ UNCHANGED vars
  PROVE  Exclusive'
<1>0. /\ TypeOK /\ TypeOK' /\ Works
      /\ next \in [Submitters -> Nat \ {0}] /\ sub \in [Submitters -> Nat] /\ pc \in [Submitters -> Pcs]
  BY TypeStep DEF Inv, TypeOK, CallerType
<1>1. CASE \E p \in Submitters : async_request(p) /\ ~Dispatch(p)
  <2>1. PICK p \in Submitters : async_request(p) /\ ~Dispatch(p)
    BY <1>1
  <2>2. deque' = deque /\ UNCHANGED <<work, wpc>>
    BY <2>1 DEF async_request, Generate, Build, BuildFails, Add, Increment, DispatchThrows,
       DrainUndispatched, DrainLoses, Return, pool
  <2>3. CASE ~Increment(p)
    <3>1. \A q \in Submitters : q # p => pc'[q] = pc[q] /\ sub'[q] = sub[q] /\ next'[q] = next[q]
      BY <1>0, <2>1, <2>3 DEF async_request, Generate, Build, BuildFails, Add, DispatchThrows,
         DrainUndispatched, DrainLoses, Return
    <3>2. ASSUME Giving(p)' PROVE Giving(p) /\ sub'[p] = sub[p] /\ next'[p] \in {next[p], next[p] + 1}
      <4>1. CASE DispatchThrows(p) \/ DrainUndispatched(p) \/ DrainLoses(p)
        BY <1>0, <4>1 DEF DispatchThrows, DrainUndispatched, DrainLoses, Giving
      <4>2. CASE Generate(p) \/ Build(p) \/ BuildFails(p) \/ Add(p) \/ Return(p)
        <5>1. pc'[p] \in {"idle", "build", "add", "increment"}
          BY <1>0, <4>2 DEF Generate, Build, BuildFails, Add, Return
        <5> QED BY <3>2, <5>1 DEF Giving
      <4> QED BY <2>1, <2>3, <4>1, <4>2 DEF async_request
    <3>3. \A q \in Submitters : Giving(q)' => Giving(q) /\ sub'[q] = sub[q] /\ next[q] <= next'[q]
      <4> SUFFICES ASSUME NEW q \in Submitters, Giving(q)'
                   PROVE  Giving(q) /\ sub'[q] = sub[q] /\ next[q] <= next'[q]
        OBVIOUS
      <4>1. next[q] \in Nat
        BY <1>0
      <4>2. CASE q = p
        BY <3>2, <4>1, <4>2
      <4>3. CASE q # p
        BY <3>1, <4>1, <4>3 DEF Giving
      <4> QED BY <4>2, <4>3
    <3> QED BY <1>0, <2>2, <3>3, ExclusiveFrame DEF Active
  <2>4. CASE Increment(p)
    <3>1. /\ pc[p] = "increment" /\ sub' = sub /\ \A q \in Submitters : q # p => pc'[q] = pc[q] /\ next'[q] = next[q]
      BY <1>0, <2>4 DEF Increment
    <3>2. \A i \in 1..Len(deque) : deque[i][1] # sub[p]
      BY <1>0, <3>1, GivenStarted DEF Started
    <3>3. \A w \in Workers : Active(w) => work[w][1] # sub[p]
      BY <1>0, <3>1, GivenStarted DEF Started
    <3>4. \A w \in Workers : Active(w)' <=> Active(w)
      BY <2>2 DEF Active
    <3>5. \A q \in Submitters : q # p /\ Giving(q)' => Giving(q) /\ next'[q] = next[q]
      BY <3>1 DEF Giving
    <3>6. ASSUME NEW q \in Submitters, Giving(q)'
          PROVE  /\ \A i \in 1..Len(deque) : deque[i][1] = sub[q] => deque[i][2] < next'[q]
                 /\ \A w \in Workers : Active(w) /\ work[w][1] = sub[q] => work[w][2] < next'[q]
      BY <3>2, <3>3, <3>5, <3>6 DEF Exclusive
    <3>7. /\ \A i, j \in 1..Len(deque) : Same(deque[i], deque[j]) => i = j
          /\ \A i \in 1..Len(deque), w \in Workers : Active(w) => ~Same(deque[i], work[w])
          /\ \A v, w \in Workers : Active(v) /\ Active(w) /\ Same(work[v], work[w]) => v = w
      BY DEF Exclusive
    <3> QED BY <2>2, <3>1, <3>4, <3>6, <3>7 DEF Exclusive, Same
  <2> QED BY <2>3, <2>4
<1>2. CASE \E p \in Submitters : Dispatch(p)
  BY <1>2, ExclusiveDispatch
<1>3. CASE \E w \in Workers : PopWorkload(w)
  BY <1>3, ExclusivePop
<1>4. CASE \E w \in Workers : execute(w) /\ ~PopWorkload(w)
  <2>1. PICK w \in Workers : execute(w) /\ ~PopWorkload(w)
    BY <1>4
  <2>2. /\ deque' = deque /\ work' = work /\ (Active(w)' => Active(w))
        /\ \A v \in Workers : v # w => wpc'[v] = wpc[v]
    BY <1>0, <2>1, ExecuteMoves
  <2>3. \A v \in Workers : Active(v)' => Active(v)
    BY <2>2 DEF Active
  <2>4. UNCHANGED <<pc, sub, next>>
    BY <2>1, ExecuteFrame DEF caller
  <2>5. \A q \in Submitters : Giving(q)' => Giving(q) /\ sub'[q] = sub[q] /\ next[q] <= next'[q]
    BY <1>0, <2>4 DEF Giving
  <2> QED BY <1>0, <2>2, <2>3, <2>5, ExclusiveFrame
<1>5. CASE (\E t \in Threads : Finish(t)) \/ response \/ StopResponder \/ StopPost \/ Destroyed \/ UNCHANGED vars
  <2>1. UNCHANGED <<pc, sub, next, deque, work, wpc>>
    BY <1>5, FinishFrame, ResponseFrame DEF caller, pool, Destroyed, vars
  <2>2. \A q \in Submitters : Giving(q)' => Giving(q) /\ sub'[q] = sub[q] /\ next[q] <= next'[q]
    BY <1>0, <2>1 DEF Giving
  <2> QED BY <1>0, <2>1, <2>2, ExclusiveFrame DEF Active
<1>6. CASE StopPools
  <2>1. UNCHANGED <<pc, sub, next, work, wpc>> /\ deque' = <<>>
    BY <1>6 DEF StopPools, caller
  <2>2. \A q \in Submitters : Giving(q)' => Giving(q) /\ sub'[q] = sub[q] /\ next[q] <= next'[q]
    BY <1>0, <2>1 DEF Giving
  <2> QED BY <1>0, <2>1, <2>2, ExclusiveFrame DEF Active
<1> QED BY <1>1, <1>2, <1>3, <1>4, <1>5, <1>6 DEF Next, execute
-----------------------------------------------------------------------------
(* What a thread is finishing is ahead of nobody.                          *)
LEMMA TodoNotAhead ==
  ASSUME Inv, Exclusive, Placed, NEW t \in Threads, NEW i \in 1..Len(todo[t])
  PROVE  ~Ahead(todo[t][i])
<1>0. TypeOK /\ RegistryType /\ ConsumerType /\ Works /\ Callers
      /\ unfinished \in [Workers -> Nat] /\ batch \in [Threads -> Nat \ {0}]
      /\ next \in [Submitters -> Nat \ {0}] /\ Workers \subseteq Threads /\ Submitters \subseteq Threads
  BY DEF Inv, TypeOK, PoolType, CallerType, Threads
<1>a. PICK x : x = todo[t][i]
  OBVIOUS
<1>1. x[2] \in Nat \ {0} /\ x[3] \in Nat \ {0} /\ x[4] \in Nat \ {0}
  <2>1. Known(x)
    BY <1>0, <1>a DEF Works
  <2> QED BY <1>0, <2>1, TaskParts
<1>2. CASE t \in Workers
  <2>1. OwnTask(t, x)
    BY <1>2, <1>a DEF Placed
  <2>2. todo[t] # <<>>
    <3>1. Len(<<>>) = 0
      OBVIOUS
    <3> QED BY <3>1
  <2>3. Active(t)
    BY <1>0, <1>2, <2>2 DEF Works, Active
  <2>4. ~AheadOfWorker(t, x)
    <3>1. x[3] = batch[t] /\ (wpc[t] = "next" \/ x[4] <= unfinished[t]) /\ unfinished[t] \in Nat /\ batch[t] \in Nat
      BY <1>0, <1>2, <2>1 DEF OwnTask
    <3>2. ~(x[3] > batch[t]) /\ ~(x[4] > unfinished[t] /\ wpc[t] # "next")
      BY <1>1, <3>1
    <3> QED BY <3>2 DEF AheadOfWorker
  <2>5. ASSUME NEW v \in Workers PROVE ~AheadOfWorker(v, x)
    <3>1. CASE v # t
      <4>1. Same(work[t], x)
        BY <2>1 DEF OwnTask
      <4>2. AheadOfWorker(v, x) => Active(v) /\ Same(work[v], work[t])
        BY <4>1 DEF AheadOfWorker, Same
      <4> QED BY <1>2, <2>3, <3>1, <4>2 DEF Exclusive
    <3> QED BY <2>4, <3>1
  <2>6. ~AheadOfQueue(x)
    BY <1>2, <2>1, <2>3 DEF Exclusive, AheadOfQueue, OwnTask, Same
  <2>7. ASSUME NEW p \in Submitters, AheadOfCaller(p, x) PROVE FALSE
    <3>1. work[t][1] = x[1] /\ work[t][2] = x[2]
      BY <2>1 DEF OwnTask, Same
    <3>2. Giving(p) /\ x[1] = sub[p] /\ x[2] >= next[p]
      BY <1>0, <1>1, <2>7 DEF AheadOfCaller
    <3>3. x[2] < next[p]
      BY <1>2, <2>3, <3>1, <3>2 DEF Exclusive
    <3>4. next[p] \in Nat
      BY <1>0
    <3> QED BY <1>1, <3>2, <3>3, <3>4
  <2> QED BY <1>a, <2>5, <2>6, <2>7 DEF Ahead
<1>3. CASE t \in Submitters
  <2>1. DrainedBy(t, x)
    BY <1>3, <1>a DEF Placed
  <2>2. ASSUME NEW p \in Submitters, AheadOfCaller(p, x) PROVE FALSE
    <3>1. p = t
      BY <1>0, <1>3, <2>1, <2>2 DEF AheadOfCaller, Giving, DrainedBy, Callers
    <3>2. next[t] \in Nat /\ batch[t] \in Nat
      BY <1>0, <1>3
    <3>3. /\ x[2] > next[t] \/ (x[2] = next[t] /\ x[3] >= batch[t])
          /\ x[2] < next[t] \/ (x[2] = next[t] /\ x[3] < batch[t])
      BY <2>1, <2>2, <3>1 DEF AheadOfCaller, DrainedBy
    <3> QED BY <1>1, <3>2, <3>3
  <2>3. ~AheadOfQueue(x) /\ \A w \in Workers : ~AheadOfWorker(w, x)
    BY <2>1 DEF DrainedBy, AheadOfWorker
  <2> QED BY <1>a, <2>2, <2>3 DEF Ahead
<1> QED BY <1>2, <1>3 DEF Threads

(* Finishing only shortens the list.                                       *)
LEMMA FinishShortens ==
  ASSUME TypeOK, Works, NEW t \in Threads, Finish(t), NEW u \in Threads, NEW i \in 1..Len(todo'[u])
  PROVE  \E j \in 1..Len(todo[u]) : todo'[u][i] = todo[u][j]
<1>0. todo \in [Threads -> Seq(TaskId)]
  BY DEF TypeOK, FinishingType
<1>1. todo' = todo \/ todo' = [todo EXCEPT ![t] = Tail(todo[t])]
  BY DEF Finish, MarkTask, CountTask, Push, Post, Advance
<1>2. CASE todo' = todo \/ u # t
  BY <1>0, <1>1, <1>2
<1>3. CASE todo' = [todo EXCEPT ![t] = Tail(todo[t])] /\ u = t
  <2>1. todo[t] # <<>>
    BY DEF Finish, MarkTask, CountTask, Push, Post
  <2>2. \A k \in 1..Len(Tail(todo[t])) : k + 1 \in 1..Len(todo[t]) /\ Tail(todo[t])[k] = todo[t][k + 1]
    BY <2>1, FirstFacts
  <2>3. todo'[u] = Tail(todo[t])
    BY <1>0, <1>3
  <2> QED BY <1>3, <2>2, <2>3
<1> QED BY <1>1, <1>2, <1>3

(* A drained task stays with the caller that drains it.                    *)
LEMMA DrainedStays ==
  ASSUME Inv, Reading, Exclusive, Next \/ UNCHANGED vars, NEW p \in Submitters, NEW x, DrainedBy(p, x),
         UNCHANGED <<pc[p], sub[p], next[p], batch[p]>>
  PROVE  DrainedBy(p, x)'
<1>0. TypeOK /\ Works /\ Callers /\ deque \in Seq(Nat \X Nat) /\ sub \in [Submitters -> Nat]
      /\ next \in [Submitters -> Nat \ {0}]
  BY DEF Inv, TypeOK, PoolType, CallerType
<1>a. ~AheadOfQueue(x) /\ \A w \in Workers : Active(w) => ~Same(work[w], x)
  BY DEF DrainedBy
<1>1. SUFFICES ~AheadOfQueue(x)' /\ \A w \in Workers : Active(w)' => ~Same(work'[w], x)
  BY DEF DrainedBy, Same
<1>2. CASE UNCHANGED <<deque, work, wpc>>
  BY <1>1, <1>2, <1>a DEF AheadOfQueue, Active
<1>3. CASE \E q \in Submitters : Dispatch(q)
  <2>1. PICK q \in Submitters : Dispatch(q)
    BY <1>3
  <2>2. /\ pc[q] = "dispatch" /\ UNCHANGED <<work, wpc>>
        /\ deque' = deque \/ deque' = Append(deque, <<sub[q], next[q]>>)
    BY <2>1 DEF Dispatch
  <2>3. sub[q] # x[1]
    BY <1>0, <2>2 DEF DrainedBy, Callers
  <2>4. CASE deque' = Append(deque, <<sub[q], next[q]>>)
    <3>1. <<sub[q], next[q]>> \in Nat \X Nat
      BY <1>0
    <3>2. /\ Len(deque') = Len(deque) + 1 /\ deque'[Len(deque) + 1] = <<sub[q], next[q]>>
          /\ Len(deque) \in Nat /\ \A j \in 1..Len(deque) : deque'[j] = deque[j]
      BY <1>0, <2>4, <3>1, AppendProperties, LenProperties
    <3>3. ASSUME NEW i \in 1..Len(deque') PROVE ~Same(deque'[i], x)
      <4>1. CASE i \in 1..Len(deque)
        BY <1>a, <3>2, <4>1 DEF AheadOfQueue
      <4>2. CASE i = Len(deque) + 1
        BY <2>3, <3>2, <4>2 DEF Same
      <4> QED BY <3>2, <4>1, <4>2
    <3>4. ~AheadOfQueue(x)'
      BY <3>3 DEF AheadOfQueue, Same
    <3> QED BY <1>1, <1>a, <2>2, <3>4 DEF Active
  <2> QED BY <1>2, <2>2, <2>4
<1>4. CASE \E w \in Workers : PopWorkload(w)
  <2>1. PICK w \in Workers : PopWorkload(w)
    BY <1>4
  <2>2. /\ 1 \in 1..Len(deque) /\ work'[w] = deque[1]
        /\ \A i \in 1..Len(deque') : i + 1 \in 1..Len(deque) /\ deque'[i] = deque[i + 1]
        /\ \A v \in Workers : v # w => work'[v] = work[v] /\ wpc'[v] = wpc[v]
    BY <1>0, <2>1, PopFacts
  <2>3. \A i \in 1..Len(deque') : ~Same(deque'[i], x)
    BY <1>a, <2>2 DEF AheadOfQueue
  <2>4. ~AheadOfQueue(x)'
    BY <2>3 DEF AheadOfQueue, Same
  <2>5. \A v \in Workers : Active(v)' => ~Same(work'[v], x)
    BY <1>a, <2>2 DEF AheadOfQueue, Active
  <2> QED BY <1>1, <2>4, <2>5
<1>5. CASE \E w \in Workers : execute(w) /\ ~PopWorkload(w)
  <2>1. PICK w \in Workers : execute(w) /\ ~PopWorkload(w)
    BY <1>5
  <2>2. /\ deque' = deque /\ work' = work /\ (Active(w)' => Active(w))
        /\ \A v \in Workers : v # w => wpc'[v] = wpc[v]
    BY <1>0, <2>1, ExecuteMoves
  <2>3. \A v \in Workers : Active(v)' => Active(v)
    BY <2>2 DEF Active
  <2> QED BY <1>1, <1>a, <2>2, <2>3 DEF AheadOfQueue
<1>6. CASE StopPools
  <2>1. deque' = <<>> /\ UNCHANGED <<work, wpc>>
    BY <1>6 DEF StopPools
  <2>2. Len(deque') = 0
    BY <2>1
  <2> QED BY <1>1, <1>a, <2>1, <2>2 DEF AheadOfQueue, Active
<1>7. CASE \E q \in Submitters : async_request(q) /\ ~Dispatch(q)
  BY <1>2, <1>7 DEF async_request, Generate, Build, BuildFails, Add, Increment, DispatchThrows,
     DrainUndispatched, DrainLoses, Return, pool
<1>8. CASE (\E t \in Threads : Finish(t)) \/ response \/ StopResponder \/ StopPost \/ Destroyed \/ UNCHANGED vars
  BY <1>2, <1>8, FinishFrame, ResponseFrame DEF pool, Destroyed, vars
<1> QED BY <1>3, <1>4, <1>5, <1>6, <1>7, <1>8 DEF Next, execute

(* What a pool thread takes on is of its batch.                            *)
LEMMA OwnExecute ==
  ASSUME Inv, Reading, Placed, NEW w \in Workers, execute(w), NEW i \in 1..Len(todo'[w])
  PROVE  OwnTask(w, todo[w][i])'
<1>0. TypeOK /\ Works /\ Works' /\ w \in Threads /\ unfinished[w] \in Nat /\ unfinished'[w] \in Nat
      /\ batch[w] \in Nat
  BY WorksStep, TypeStep DEF Inv, TypeOK, PoolType, Threads, Next
<1>a. Len(<<>>) = 0
  OBVIOUS
<1>1. todo'[w] # <<>>
  BY <1>a
<1>2. Active(w)' /\ wpc'[w] # "open"
  BY <1>0, <1>1 DEF Works, Active
<1>3. ~PopWorkload(w)
  BY <1>0, <1>2, PopFacts
<1>4. work' = work /\ Active(w)
  BY <1>0, <1>2, <1>3, ExecuteMoves
<1>b. PICK x : x = todo'[w][i]
  OBVIOUS
<1>c. SUFFICES Same(work[w], x) /\ x[3] = batch'[w] /\ (wpc'[w] = "next" \/ x[4] <= unfinished'[w])
  BY <1>4, <1>b DEF OwnTask, Same
<1>5. /\ Len(CurTasks(w)) \in Nat
      /\ \A k \in 1..Len(CurTasks(w)) : /\ CurTasks(w)[k] = <<work[w][1], work[w][2], batch[w], k>>
                                        /\ CurTasks(w)[k] \in TaskId
  BY <1>0, <1>4, CurFacts DEF Active, CurId
<1>6. CASE wpc'[w] = "next" /\ batch'[w] = batch[w] /\ todo'[w] = CurTasks(w)
  BY <1>5, <1>6, <1>b, <1>c DEF Same
<1>7. CASE /\ wpc[w] = "read" /\ batch' = batch
           /\ unfinished[w] <= unfinished'[w] /\ unfinished'[w] <= Len(CurTasks(w))
           /\ todo'[w] = SubSeq(CurTasks(w), unfinished[w] + 1, unfinished'[w])
  <2>a. PICK u, m : u = unfinished[w] /\ m = unfinished'[w] /\ u \in Nat /\ m \in Nat /\ u <= m
                    /\ m <= Len(CurTasks(w))
    BY <1>0, <1>7
  <2>1. u + 1 \in Int /\ m \in Int /\ \A k \in u + 1..m : CurTasks(w)[k] \in TaskId
    BY <1>5, <2>a
  <2>2. /\ Len(todo'[w]) = IF u + 1 <= m THEN m - (u + 1) + 1 ELSE 0
        /\ \A k \in 1..m - (u + 1) + 1 : todo'[w][k] = CurTasks(w)[u + 1 + k - 1]
    BY <1>7, <2>a, <2>1, SubSeqProperties, SMTT(30)
  <2>3. u + 1 <= m /\ i \in 1..m - (u + 1) + 1 /\ u + 1 + i - 1 = u + i /\ u + i \in 1..m
    BY <2>a, <2>2, SMTT(30)
  <2>4. x = CurTasks(w)[u + i] /\ u + i \in 1..Len(CurTasks(w))
    <3>1. todo'[w][i] = CurTasks(w)[u + 1 + i - 1]
      BY <2>2, <2>3
    <3>2. x = CurTasks(w)[u + i]
      BY <1>b, <2>3, <3>1
    <3>3. u + i \in 1..Len(CurTasks(w))
      BY <1>5, <2>a, <2>3
    <3> QED BY <3>2, <3>3
  <2>5. Same(work[w], x) /\ x[3] = batch[w] /\ x[4] = u + i
    BY <1>5, <2>4 DEF Same
  <2> QED BY <1>7, <1>c, <2>a, <2>3, <2>5
<1>8. todo[w] = <<>> => todo'[w] # todo[w]
  BY <1>1
<1>9. wpc[w] = "open" => todo[w] = <<>>
  BY <1>0 DEF Works
<1>10. \/ wpc'[w] = "next" /\ batch'[w] = batch[w] /\ todo'[w] = CurTasks(w)
       \/ /\ wpc[w] = "read" /\ batch' = batch
          /\ unfinished[w] <= unfinished'[w] /\ unfinished'[w] <= Len(CurTasks(w))
          /\ todo'[w] = SubSeq(CurTasks(w), unfinished[w] + 1, unfinished'[w])
  BY <1>0, <1>2, <1>3, <1>8, <1>9, ExecuteMoves
<1> QED BY <1>6, <1>7, <1>10

(* What a caller drains is its own, and was not given away.                *)
LEMMA DrainTakes ==
  ASSUME Inv, Exclusive, NEW p \in Submitters, DrainUndispatched(p), NEW i \in 1..Len(todo'[p])
  PROVE  DrainedBy(p, todo[p][i])'
<1>0. /\ TypeOK /\ Callers /\ RegistryType /\ p \in Threads /\ todo \in [Threads -> Seq(TaskId)]
      /\ next \in [Submitters -> Nat \ {0}] /\ batch \in [Threads -> Nat \ {0}] /\ sub \in [Submitters -> Nat]
  BY DEF Inv, TypeOK, CallerType, PoolType, FinishingType, Threads
<1>1. /\ pc[p] = "drain" /\ next[p] <= Len(shape[sub[p]].work)
      /\ UNCHANGED <<pc, sub, deque, work, wpc>>
  BY DEF DrainUndispatched
<1>a. PICK n, b, s : n = next[p] /\ b = batch[p] /\ s = sub[p]
  OBVIOUS
<1>2. shape[s].work[n] # <<>> /\ todo'[p] = BatchTasks(s, n, b)
  <2>1. todo'[p] = IF shape[s].work[n] = <<>> THEN <<>> ELSE BatchTasks(s, n, b)
    BY <1>0, <1>a DEF DrainUndispatched
  <2>2. Len(<<>>) = 0
    OBVIOUS
  <2> QED BY <2>1, <2>2
<1>3. s \in Ids /\ n \in DOMAIN shape[s].work /\ b \in DOMAIN shape[s].work[n]
  BY <1>0, <1>1, <1>2, <1>a, DrainFacts
<1>b. PICK x : x = todo'[p][i]
  OBVIOUS
<1>4. x = <<s, n, b, i>>
  <2>1. Len(BatchTasks(s, n, b)) = Len(Tasks(s, n, b)) /\ i \in 1..Len(Tasks(s, n, b))
    BY <1>0, <1>2, <1>3, BatchTasksIn
  <2>2. Tasks(s, n, b) \in Seq(TaskShape)
    BY <1>0, <1>3, ShapeType DEF Tasks, RegistryType
  <2>3. i \in DOMAIN Tasks(s, n, b)
    BY <2>1, <2>2, SeqFacts
  <2> QED BY <1>2, <1>b, <2>3 DEF BatchTasks
<1>5. x[1] = s /\ x[2] = n /\ x[3] = b
  BY <1>4
<1>6. \/ next'[p] = n + 1
      \/ next'[p] = n /\ batch'[p] = b + 1
  BY <1>0, <1>a DEF DrainUndispatched
<1>7. x[2] < next'[p] \/ (x[2] = next'[p] /\ x[3] < batch'[p])
  <2>1. n \in Nat /\ b \in Nat
    BY <1>0, <1>a
  <2> QED BY <1>5, <1>6, <2>1
<1>8. Giving(p) /\ ~(n < n)
  BY <1>0, <1>1, <1>a DEF Giving
<1>9. \A k \in 1..Len(deque) : ~Same(deque[k], x)
  BY <1>5, <1>8, <1>a DEF Exclusive, Same
<1>10. \A w \in Workers : Active(w) => ~Same(work[w], x)
  BY <1>5, <1>8, <1>a DEF Exclusive, Same
<1> QED BY <1>1, <1>5, <1>7, <1>9, <1>10, <1>a, <1>b DEF DrainedBy, AheadOfQueue, Active, Same

(* Every step keeps the lists of the finishing threads in place.           *)
LEMMA PlacedStep ==
  ASSUME Inv, Reading, Exclusive, Placed, Next \/ UNCHANGED vars
  PROVE  Placed'
<1>0. /\ TypeOK /\ Works /\ todo \in [Threads -> Seq(TaskId)] /\ batch \in [Threads -> Nat \ {0}]
      /\ next \in [Submitters -> Nat \ {0}] /\ pc \in [Submitters -> Pcs] /\ sub \in [Submitters -> Nat]
      /\ Workers \subseteq Threads /\ Submitters \subseteq Threads /\ Submitters \cap Workers = {}
  BY ThreadAssumption DEF Inv, TypeOK, CallerType, PoolType, FinishingType, Threads
<1>a. Len(<<>>) = 0
  OBVIOUS
<1>1. ASSUME NEW w \in Workers, UNCHANGED <<work[w], batch[w], wpc[w], unfinished[w]>>,
             \A i \in 1..Len(todo'[w]) : \E j \in 1..Len(todo[w]) : todo'[w][i] = todo[w][j]
      PROVE  \A i \in 1..Len(todo'[w]) : OwnTask(w, todo[w][i])'
  <2> SUFFICES ASSUME NEW i \in 1..Len(todo'[w]) PROVE OwnTask(w, todo[w][i])'
    OBVIOUS
  <2>1. PICK j \in 1..Len(todo[w]) : todo'[w][i] = todo[w][j]
    BY <1>1
  <2>2. OwnTask(w, todo[w][j])
    BY DEF Placed
  <2> QED BY <1>1, <2>1, <2>2 DEF OwnTask, Same
<1>2. ASSUME NEW p \in Submitters, UNCHANGED <<pc[p], sub[p], next[p], batch[p]>>,
             \A i \in 1..Len(todo'[p]) : \E j \in 1..Len(todo[p]) : todo'[p][i] = todo[p][j]
      PROVE  \A i \in 1..Len(todo'[p]) : DrainedBy(p, todo[p][i])'
  <2> SUFFICES ASSUME NEW i \in 1..Len(todo'[p]) PROVE DrainedBy(p, todo[p][i])'
    OBVIOUS
  <2>1. PICK j \in 1..Len(todo[p]) : todo'[p][i] = todo[p][j]
    BY <1>2
  <2>2. PICK x : x = todo[p][j] /\ DrainedBy(p, x)
    BY DEF Placed
  <2>3. DrainedBy(p, x)'
    BY <1>2, <2>2, DrainedStays
  <2> QED BY <2>1, <2>2, <2>3 DEF DrainedBy, AheadOfQueue, Same
<1>3. CASE \E p \in Submitters : async_request(p)
  <2>1. PICK p \in Submitters : async_request(p)
    BY <1>3
  <2>2. /\ UNCHANGED <<work, wpc, unfinished>>
        /\ \A t \in Threads : t # p => batch'[t] = batch[t] /\ todo'[t] = todo[t]
        /\ \A q \in Submitters : q # p => pc'[q] = pc[q] /\ sub'[q] = sub[q] /\ next'[q] = next[q]
    <3>1. CASE Generate(p) \/ Build(p) \/ BuildFails(p) \/ Add(p) \/ Increment(p) \/ Return(p) \/ DispatchThrows(p)
      BY <1>0, <3>1 DEF Generate, Build, BuildFails, Add, Increment, Return, DispatchThrows, pool, finishing
    <3>2. CASE Dispatch(p) \/ DrainUndispatched(p) \/ DrainLoses(p)
      BY <1>0, <3>2 DEF Dispatch, DrainUndispatched, DrainLoses, finishing
    <3> QED BY <2>1, <3>1, <3>2 DEF async_request
  <2>3. ASSUME NEW w \in Workers PROVE \A i \in 1..Len(todo'[w]) : OwnTask(w, todo[w][i])'
    <3>1. w # p /\ w \in Threads
      BY <1>0
    <3> QED BY <1>1, <2>2, <3>1
  <2>4. ASSUME NEW q \in Submitters, q # p PROVE \A i \in 1..Len(todo'[q]) : DrainedBy(q, todo[q][i])'
    <3>1. q \in Threads
      BY <1>0
    <3> QED BY <1>2, <2>2, <2>4, <3>1
  <2>5. \A i \in 1..Len(todo'[p]) : DrainedBy(p, todo[p][i])'
    <3>1. CASE DrainUndispatched(p)
      BY <3>1, DrainTakes
    <3>2. CASE DrainLoses(p)
      <4>1. todo'[p] = <<>>
        BY <1>0, <3>2 DEF DrainLoses
      <4> QED BY <1>a, <4>1
    <3>3. CASE Return(p)
      <4>1. todo'[p] = <<>>
        BY <3>3 DEF Return, finishing
      <4> QED BY <1>a, <4>1
    <3>4. CASE Generate(p) \/ Build(p) \/ BuildFails(p) \/ Add(p) \/ Increment(p) \/ DispatchThrows(p) \/ Dispatch(p)
      <4>1. todo'[p] = todo[p] /\ pc[p] # "drain"
        BY <3>4 DEF Generate, Build, BuildFails, Add, Increment, DispatchThrows, Dispatch, finishing
      <4>2. \A i \in 1..Len(todo[p]) : DrainedBy(p, todo[p][i])
        BY DEF Placed
      <4>3. \A i \in 1..Len(todo[p]) : pc[p] = "drain"
        BY <4>2 DEF DrainedBy
      <4> QED BY <4>1, <4>3
    <3> QED BY <2>1, <3>1, <3>2, <3>3, <3>4 DEF async_request
  <2> QED BY <2>3, <2>4, <2>5 DEF Placed
<1>4. CASE \E w \in Workers : execute(w)
  <2>1. PICK w \in Workers : execute(w)
    BY <1>4
  <2>2. /\ UNCHANGED <<pc, sub, next>>
        /\ \A t \in Threads : t # w => batch'[t] = batch[t] /\ todo'[t] = todo[t]
        /\ \A v \in Workers : v # w => work'[v] = work[v] /\ wpc'[v] = wpc[v] /\ unfinished'[v] = unfinished[v]
    <3>1. UNCHANGED <<pc, sub, next>>
      BY <2>1, ExecuteFrame DEF caller
    <3>2. CASE PopWorkload(w)
      BY <1>0, <3>1, <3>2, PopFacts
    <3>3. CASE ~PopWorkload(w)
      BY <1>0, <2>1, <3>1, <3>3, ExecuteMoves
    <3> QED BY <3>2, <3>3
  <2>3. ASSUME NEW v \in Workers PROVE \A i \in 1..Len(todo'[v]) : OwnTask(v, todo[v][i])'
    <3>1. CASE v = w
      BY <2>1, <3>1, OwnExecute
    <3>2. CASE v # w
      BY <1>0, <1>1, <2>2, <3>2
    <3> QED BY <3>1, <3>2
  <2>4. ASSUME NEW q \in Submitters PROVE \A i \in 1..Len(todo'[q]) : DrainedBy(q, todo[q][i])'
    <3>1. q \in Threads /\ q # w
      BY <1>0
    <3> QED BY <1>2, <2>2, <3>1
  <2> QED BY <2>3, <2>4 DEF Placed
<1>5. CASE \E t \in Threads : Finish(t)
  <2>1. UNCHANGED <<pc, sub, next, batch, work, wpc, unfinished>>
    BY <1>5, FinishFrame DEF caller, pool
  <2>2. \A u \in Threads : \A i \in 1..Len(todo'[u]) : \E j \in 1..Len(todo[u]) : todo'[u][i] = todo[u][j]
    BY <1>0, <1>5, FinishShortens
  <2> QED BY <1>0, <1>1, <1>2, <2>1, <2>2 DEF Placed
<1>6. CASE response \/ StopResponder \/ StopPost \/ Destroyed \/ StopPools \/ UNCHANGED vars
  <2>1. UNCHANGED <<pc, sub, next, batch, work, wpc, unfinished, todo>>
    BY <1>6, ResponseFrame DEF caller, pool, finishing, Destroyed, StopPools, vars
  <2> QED BY <1>0, <1>1, <1>2, <2>1 DEF Placed
<1> QED BY <1>3, <1>4, <1>5, <1>6 DEF Next

(* What is ahead of anybody is not finished, after every step.             *)
LEMMA UntouchedStep ==
  ASSUME Inv, Reading, Exclusive, Placed, Untouched, Next \/ UNCHANGED vars
  PROVE  Untouched'
<1>0. TypeOK /\ Works /\ RegistryType /\ ConsumerType
  BY DEF Inv, TypeOK
<1> SUFFICES ASSUME NEW x \in finished', Ahead(x)' PROVE FALSE
  BY DEF Untouched
<1>1. x \in finished \/ \E t \in Threads : MarkTask(t) /\ x = First(t)
  <2>1. CASE \E t \in Threads : Finish(t)
    BY <2>1 DEF Finish, MarkTask, CountTask, Push, Post, requests
  <2>2. CASE \E p \in Submitters : async_request(p)
    BY <2>2 DEF async_request, Generate, Build, BuildFails, Add, Increment, Dispatch, DispatchThrows,
       DrainUndispatched, DrainLoses, Return, requests
  <2>3. CASE (\E w \in Workers : execute(w)) \/ response \/ StopResponder \/ StopPost \/ Destroyed \/ StopPools
             \/ UNCHANGED vars
    BY <2>3, ExecuteFrame, ResponseFrame DEF requests, Destroyed, StopPools, vars
  <2> QED BY <2>1, <2>2, <2>3 DEF Next
<1>2. CASE x \in finished
  <2>1. Known(x) /\ ~Ahead(x)
    BY <1>0, <1>2 DEF Works, Untouched
  <2>2. x[2] \in Nat \ {0} /\ x[3] \in Nat \ {0} /\ x[4] \in Nat \ {0}
    BY <1>0, <2>1, TaskParts
  <2>3. PICK p \in Submitters : Increment(p) /\ x[1] = sub[p]
    BY <2>1, <2>2, AheadStep
  <2> QED BY <2>1, <2>3 DEF Known, Started, Increment
<1>3. CASE \E t \in Threads : MarkTask(t) /\ x = First(t)
  <2>1. PICK t \in Threads : MarkTask(t) /\ x = First(t)
    BY <1>3
  <2>2. todo[t] # <<>>
    BY <2>1 DEF MarkTask
  <2>3. x = todo[t][1] /\ 1 \in 1..Len(todo[t])
    BY <1>0, <2>1, <2>2, FirstFacts
  <2>4. ~Ahead(x)
    BY <2>3, TodoNotAhead
  <2>5. UNCHANGED <<pc, sub, next, batch, deque, work, wpc, unfinished>>
    BY <2>1 DEF MarkTask, caller, pool
  <2> QED BY <2>4, <2>5 DEF Ahead, AheadOfCaller, AheadOfQueue, AheadOfWorker, Giving, Active, Same
<1> QED BY <1>1, <1>2, <1>3
-----------------------------------------------------------------------------
(* Bytes in place stay in place.                                           *)
LEMMA FilledStays ==
  ASSUME Inv, Next \/ UNCHANGED vars, NEW x, Known(x)
  PROVE  /\ landed \subseteq landed' /\ TaskStart(x)' = TaskStart(x) /\ TaskEnd(x)' = TaskEnd(x)
         /\ Filled(x) => Filled(x)'
<1>1. x[1] \in Opened
  BY DEF Known, Started
<1>2. TaskEnd(x)' = TaskEnd(x)
  BY <1>1, TasksStable
<1>3. TaskStart(x)' = TaskStart(x)
  <2>1. PICK y : y = <<x[1], x[2], x[3], x[4] - 1>>
    OBVIOUS
  <2>2. TaskEnd(y)' = TaskEnd(y)
    <3>1. y[1] = x[1]
      BY <2>1
    <3> QED BY <1>1, <3>1, TasksStable
  <2>3. TaskEnd(<<x[1], x[2], x[3], x[4] - 1>>)' = TaskEnd(<<x[1], x[2], x[3], x[4] - 1>>)
    BY <2>1, <2>2 DEF TaskEnd, Tasks
  <2> QED BY <2>3 DEF TaskStart
<1>4. landed \subseteq landed'
  <2>1. CASE \E w \in Workers : execute(w)
    BY <2>1 DEF execute, PopWorkload, OpenFile, ReadBlock, EndRead, EndBatch, NextBatch, ExitWorker, FailBatch
  <2>2. CASE \E p \in Submitters : async_request(p)
    BY <2>2 DEF async_request, Generate, Build, BuildFails, Add, Increment, Dispatch, DispatchThrows,
       DrainUndispatched, DrainLoses, Return, pool
  <2>3. CASE (\E t \in Threads : Finish(t)) \/ response \/ StopResponder \/ StopPost \/ Destroyed \/ StopPools
             \/ UNCHANGED vars
    BY <2>3, FinishFrame, ResponseFrame DEF pool, Destroyed, StopPools, vars
  <2> QED BY <2>1, <2>2, <2>3 DEF Next
<1> QED BY <1>2, <1>3, <1>4 DEF Filled

(* The batch of a thread keeps its tasks.                                  *)
LEMMA CurStays ==
  ASSUME Inv, Next \/ UNCHANGED vars, NEW w \in Workers, Active(w), UNCHANGED <<work[w], batch[w]>>
  PROVE  /\ CurTasks(w)' = CurTasks(w) /\ CurEnd(w)' = CurEnd(w)
         /\ \A i \in 1..Len(CurTasks(w)) :
              /\ Known(CurTasks(w)[i]) /\ (TaskEnd(CurTasks(w)[i]))' = TaskEnd(CurTasks(w)[i])
              /\ (TaskStart(CurTasks(w)[i]))' = TaskStart(CurTasks(w)[i])
              /\ Filled(CurTasks(w)[i]) => Filled(CurTasks(w)[i])'
              /\ TaskEnd(CurTasks(w)[i]) \in Nat
<1>0. TypeOK /\ Works /\ RegistryType /\ ConsumerType
  BY DEF Inv, TypeOK
<1>1. CurId(w) \in Ids /\ Started(CurId(w)) /\ CurId(w) \in Opened
  BY <1>0, CurFacts DEF Active, Started
<1>2. shape'[work[w][1]] = shape[work[w][1]]
  BY <1>1, TasksStable DEF CurId
<1>3. CurTasks(w)' = CurTasks(w) /\ CurEnd(w)' = CurEnd(w)
  BY <1>2 DEF CurTasks, CurEnd, CurId, BatchTasks, BatchEnd, Tasks
<1>4. ASSUME NEW i \in 1..Len(CurTasks(w))
      PROVE  /\ Known(CurTasks(w)[i]) /\ (TaskEnd(CurTasks(w)[i]))' = TaskEnd(CurTasks(w)[i])
             /\ (TaskStart(CurTasks(w)[i]))' = TaskStart(CurTasks(w)[i])
             /\ Filled(CurTasks(w)[i]) => Filled(CurTasks(w)[i])'
             /\ TaskEnd(CurTasks(w)[i]) \in Nat
  <2>1. PICK x : x = CurTasks(w)[i] /\ Known(x) /\ x \in TasksOf(CurId(w))
    BY <1>0, <1>4, CurFacts DEF Active
  <2>2. TaskEnd(x)' = TaskEnd(x) /\ TaskStart(x)' = TaskStart(x) /\ (Filled(x) => Filled(x)')
    BY <2>1, FilledStays
  <2>3. TaskEnd(x) \in Nat
    BY <1>0, <1>1, <2>1, TaskType
  <2> QED BY <1>3, <2>1, <2>2, <2>3 DEF TaskEnd, TaskStart, Filled, Tasks
<1> QED BY <1>3, <1>4

(* A thread that stays where it is has still read what it had read.        *)
LEMMA ReadSoFarStays ==
  ASSUME Inv, Next \/ UNCHANGED vars, NEW w \in Workers, Active(w), ReadSoFar(w),
         UNCHANGED <<work[w], batch[w], unfinished[w], offset[w]>>
  PROVE  ReadSoFar(w)'
<1>0. unfinished[w] <= Len(CurTasks(w)) /\ unfinished[w] \in Nat /\ Len(CurTasks(w)) \in Nat
  BY CurFacts DEF Inv, TypeOK, Works, PoolType, Active
<1>1. /\ CurTasks(w)' = CurTasks(w) /\ CurEnd(w)' = CurEnd(w)
      /\ \A i \in 1..Len(CurTasks(w)) :
           /\ (TaskEnd(CurTasks(w)[i]))' = TaskEnd(CurTasks(w)[i])
           /\ Filled(CurTasks(w)[i]) => Filled(CurTasks(w)[i])'
  BY CurStays
<1>2. \A i \in 1..unfinished[w] : i \in 1..Len(CurTasks(w))
  BY <1>0
<1>3. \A i \in 1..unfinished'[w] : (TaskEnd(CurTasks(w)[i]))' <= offset'[w]
  BY <1>1, <1>2 DEF ReadSoFar
<1>4. ASSUME NEW i \in 1..Len(CurTasks(w)'), \A j \in 1..i : (TaskEnd(CurTasks(w)[j]))' <= offset'[w]
      PROVE  Filled(CurTasks(w)[i])'
  <2>1. i \in 1..Len(CurTasks(w)) /\ \A j \in 1..i : j \in 1..Len(CurTasks(w))
    BY <1>0, <1>1
  <2>2. \A j \in 1..i : TaskEnd(CurTasks(w)[j]) <= offset[w]
    BY <1>1, <1>4, <2>1
  <2> QED BY <1>1, <2>1, <2>2 DEF ReadSoFar
<1>5. offset'[w] <= CurEnd(w)'
  BY <1>1 DEF ReadSoFar
<1> QED BY <1>3, <1>4, <1>5 DEF ReadSoFar

(* A file that has just been opened: only empty tasks end at 0.            *)
LEMMA OpenedReads ==
  ASSUME Inv, Reading, NEW w \in Workers, OpenFile(w), wpc'[w] = "read"
  PROVE  ReadSoFar(w)'
<1>0. /\ TypeOK /\ Works /\ wpc \in [Workers -> Wpcs] /\ offset \in [Workers -> Nat] /\ Next
      /\ RegistryType /\ ConsumerType
  BY DEF Inv, TypeOK, PoolType, Next, execute
<1>1. wpc[w] = "open" /\ Active(w) /\ unfinished[w] = 0
  BY DEF OpenFile, Active, Reading
<1>2. /\ offset'[w] = 0 /\ UNCHANGED <<work, batch, unfinished, landed>>
  <2>1. ~FailBatch(w, "FileAccessError")
    BY <1>0 DEF FailBatch
  <2> QED BY <1>0, <2>1 DEF OpenFile
<1>3. /\ CurTasks(w)' = CurTasks(w) /\ CurEnd(w)' = CurEnd(w) /\ CurEnd(w) \in Nat
      /\ Len(CurTasks(w)) \in Nat
      /\ \A i \in 1..Len(CurTasks(w)) :
           /\ (TaskEnd(CurTasks(w)[i]))' = TaskEnd(CurTasks(w)[i])
           /\ (TaskStart(CurTasks(w)[i]))' = TaskStart(CurTasks(w)[i])
           /\ TaskEnd(CurTasks(w)[i]) \in Nat
  BY <1>0, <1>1, <1>2, CurStays, CurFacts DEF Active
<1>4. ASSUME NEW i \in 1..Len(CurTasks(w)'), \A j \in 1..i : (TaskEnd(CurTasks(w)[j]))' <= offset'[w]
      PROVE  Filled(CurTasks(w)[i])'
  <2>1. i \in 1..Len(CurTasks(w)) /\ \A j \in 1..i : j \in 1..Len(CurTasks(w))
    BY <1>3
  <2>2. \A j \in 1..i : TaskEnd(CurTasks(w)[j]) = 0
    <3> SUFFICES ASSUME NEW j \in 1..i PROVE TaskEnd(CurTasks(w)[j]) = 0
      OBVIOUS
    <3>1. TaskEnd(CurTasks(w)[j]) <= 0 /\ TaskEnd(CurTasks(w)[j]) \in Nat
      BY <1>2, <1>3, <1>4, <2>1
    <3> QED BY <3>1
  <2>3. TaskEnd(CurTasks(w)[i]) = 0
    BY <2>1, <2>2
  <2>4. CurTasks(w)[i] = <<CurId(w), work[w][2], batch[w], i>>
    BY <1>0, <1>1, <2>1, CurFacts DEF Active
  <2>5. TaskStart(CurTasks(w)[i]) = 0
    <3>1. CASE i = 1
      BY <2>4, <3>1 DEF TaskStart
    <3>2. CASE i # 1
      <4>1. PICK k : k = i - 1 /\ k \in 1..i /\ k \in 1..Len(CurTasks(w))
        BY <2>1, <3>2
      <4>2. CurTasks(w)[k] = <<CurId(w), work[w][2], batch[w], k>>
        BY <1>0, <1>1, <4>1, CurFacts DEF Active
      <4>3. TaskEnd(<<CurId(w), work[w][2], batch[w], k>>) = 0
        BY <2>2, <4>1, <4>2
      <4> QED BY <2>4, <3>2, <4>1, <4>3 DEF TaskStart
    <3> QED BY <3>1, <3>2
  <2>6. (TaskStart(CurTasks(w)[i]))' = (TaskEnd(CurTasks(w)[i]))'
    BY <1>3, <2>1, <2>3, <2>5
  <2> QED BY <2>6 DEF Filled
<1>5. \A i \in 1..unfinished'[w] : FALSE
  BY <1>1, <1>2
<1>6. offset'[w] <= CurEnd(w)'
  BY <1>2, <1>3
<1> QED BY <1>4, <1>5, <1>6 DEF ReadSoFar

(* A block that has been read is in place up to its end.                   *)
LEMMA BlockReads ==
  ASSUME Inv, Reading, NEW w \in Workers, ReadBlock(w), wpc'[w] = "read"
  PROVE  ReadSoFar(w)'
<1>0. /\ TypeOK /\ Works /\ wpc \in [Workers -> Wpcs] /\ offset \in [Workers -> Nat] /\ Next
      /\ unfinished \in [Workers -> Nat] /\ RegistryType /\ ConsumerType
  BY DEF Inv, TypeOK, PoolType, Next, execute
<1>1. wpc[w] = "read" /\ Active(w)
  BY DEF ReadBlock, Active
<1>2. PICK upto : /\ upto = IF offset[w] + BlockBytes < CurEnd(w) THEN offset[w] + BlockBytes ELSE CurEnd(w)
                  /\ offset' = [offset EXCEPT ![w] = upto] /\ FinishUntil(w, upto)
                  /\ landed' = landed \cup {CurTasks(w)[i] : i \in
                       {j \in DOMAIN CurTasks(w) : TaskEnd(CurTasks(w)[j]) <= upto}}
                  /\ UNCHANGED <<work, batch>>
  <2>1. ~FailBatch(w, "FileAccessError")
    BY <1>0 DEF FailBatch
  <2> QED BY <2>1 DEF ReadBlock
<1>3. /\ CurTasks(w)' = CurTasks(w) /\ CurEnd(w)' = CurEnd(w) /\ CurEnd(w) \in Nat
      /\ Len(CurTasks(w)) \in Nat /\ DOMAIN CurTasks(w) = 1..Len(CurTasks(w))
      /\ \A i \in 1..Len(CurTasks(w)) : (TaskEnd(CurTasks(w)[i]))' = TaskEnd(CurTasks(w)[i])
  BY <1>0, <1>1, <1>2, CurStays, CurFacts DEF Active
<1>4. upto <= CurEnd(w) /\ upto \in Nat
  BY <1>0, <1>2, <1>3, BlockAssumption
<1>5. offset'[w] = upto
  BY <1>0, <1>2
<1>6. unfinished'[w] = Reached(w, upto) /\ Reached(w, upto) \in 0..Len(CurTasks(w))
  BY <1>0, <1>1, <1>2, ReachedFacts DEF FinishUntil, Active
<1>7. ASSUME NEW i \in 1..unfinished'[w] PROVE (TaskEnd(CurTasks(w)[i]))' <= offset'[w]
  <2>1. i \in 1..Len(CurTasks(w)) /\ i <= Reached(w, upto) /\ i \in 1..i
    BY <1>3, <1>6
  <2>2. TaskEnd(CurTasks(w)[i]) <= upto
    BY <1>0, <1>1, <2>1, ReachedExact
  <2> QED BY <1>3, <1>5, <2>1, <2>2
<1>8. ASSUME NEW i \in 1..Len(CurTasks(w)'), \A j \in 1..i : (TaskEnd(CurTasks(w)[j]))' <= offset'[w]
      PROVE  Filled(CurTasks(w)[i])'
  <2>1. i \in 1..Len(CurTasks(w)) /\ i \in 1..i
    BY <1>3
  <2>2. TaskEnd(CurTasks(w)[i]) <= upto
    BY <1>3, <1>5, <1>8, <2>1
  <2>3. CurTasks(w)[i] \in landed'
    BY <1>2, <1>3, <2>1, <2>2
  <2> QED BY <1>3, <2>3 DEF Filled
<1> QED BY <1>3, <1>4, <1>5, <1>7, <1>8 DEF ReadSoFar

(* The end of the loops: everything up to the last task is in place.       *)
LEMMA EndReads ==
  ASSUME Inv, Reading, NEW w \in Workers, EndRead(w)
  PROVE  ReadSoFar(w)'
<1>0. /\ TypeOK /\ Works /\ unfinished \in [Workers -> Nat] /\ offset \in [Workers -> Nat] /\ Next
  BY DEF Inv, TypeOK, PoolType, Next, execute
<1>1. /\ wpc[w] = "read" /\ Active(w) /\ ReadSoFar(w) /\ UNCHANGED <<work, batch, offset, landed>>
      /\ offset[w] = CurEnd(w) \/ stopped
  BY DEF EndRead, Active, Reading
<1>2. CASE unfinished' = unfinished
  BY <1>0, <1>1, <1>2, ReadSoFarStays
<1>3. CASE ~stopped /\ FinishUntil(w, CurEnd(w))
  <2>1. /\ CurTasks(w)' = CurTasks(w) /\ CurEnd(w)' = CurEnd(w)
        /\ Len(CurTasks(w)) \in Nat
        /\ \A i \in 1..Len(CurTasks(w)) :
             /\ (TaskEnd(CurTasks(w)[i]))' = TaskEnd(CurTasks(w)[i])
             /\ Filled(CurTasks(w)[i]) => Filled(CurTasks(w)[i])'
    BY <1>0, <1>1, CurStays, CurFacts DEF Active
  <2>2. PICK e : e = CurEnd(w)
    OBVIOUS
  <2>3. unfinished'[w] = Reached(w, e) /\ Reached(w, e) \in 0..Len(CurTasks(w))
    BY <1>0, <1>1, <1>3, <2>2, ReachedFacts DEF FinishUntil, Active
  <2>4. ASSUME NEW i \in 1..unfinished'[w] PROVE (TaskEnd(CurTasks(w)[i]))' <= offset'[w]
    <3>1. i \in 1..Len(CurTasks(w)) /\ i <= Reached(w, e) /\ i \in 1..i
      BY <2>1, <2>3
    <3>2. TaskEnd(CurTasks(w)[i]) <= e
      BY <1>0, <1>1, <3>1, ReachedExact
    <3> QED BY <1>1, <1>3, <2>1, <2>2, <3>1, <3>2
  <2>5. ASSUME NEW i \in 1..Len(CurTasks(w)'), \A j \in 1..i : (TaskEnd(CurTasks(w)[j]))' <= offset'[w]
        PROVE  Filled(CurTasks(w)[i])'
    <3>1. i \in 1..Len(CurTasks(w)) /\ \A j \in 1..i : j \in 1..Len(CurTasks(w))
      BY <2>1
    <3>2. \A j \in 1..i : TaskEnd(CurTasks(w)[j]) <= offset[w]
      BY <1>1, <2>1, <2>5, <3>1
    <3> QED BY <1>1, <2>1, <3>1, <3>2 DEF ReadSoFar
  <2>6. offset'[w] <= CurEnd(w)'
    BY <1>1, <2>1 DEF ReadSoFar
  <2> QED BY <2>4, <2>5, <2>6 DEF ReadSoFar
<1> QED BY <1>2, <1>3 DEF EndRead

(* Every step keeps what a read has put in place.                          *)
LEMMA ReadingStep ==
  ASSUME Inv, Reading, Next \/ UNCHANGED vars
  PROVE  Reading'
<1>0. /\ TypeOK /\ Works /\ wpc \in [Workers -> Wpcs] /\ offset \in [Workers -> Nat]
      /\ unfinished \in [Workers -> Nat] /\ batch \in [Threads -> Nat \ {0}]
      /\ Submitters \cap Workers = {} /\ Workers \subseteq Threads
  BY ThreadAssumption DEF Inv, TypeOK, PoolType, Threads
<1> SUFFICES ASSUME NEW v \in Workers
             PROVE  /\ wpc'[v] = "open" => unfinished'[v] = 0
                    /\ wpc'[v] \in {"read", "ended"} => ReadSoFar(v)'
  BY DEF Reading
<1>1. CASE UNCHANGED <<wpc[v], work[v], batch[v], unfinished[v], offset[v]>>
  <2>1. wpc'[v] = "open" => unfinished'[v] = 0
    BY <1>1 DEF Reading
  <2>2. ASSUME wpc'[v] \in {"read", "ended"} PROVE ReadSoFar(v)'
    <3>1. Active(v) /\ ReadSoFar(v)
      BY <1>1, <2>2 DEF Reading, Active
    <3> QED BY <1>1, <3>1, ReadSoFarStays
  <2> QED BY <2>1, <2>2
<1>2. CASE \E w \in Workers : execute(w)
  <2>1. PICK w \in Workers : execute(w)
    BY <1>2
  <2>2. CASE v # w
    <3>1. CASE PopWorkload(w)
      BY <1>0, <1>1, <2>2, <3>1, PopFacts
    <3>2. CASE ~PopWorkload(w)
      BY <1>0, <1>1, <2>1, <2>2, <3>2, ExecuteMoves
    <3> QED BY <3>1, <3>2
  <2>3. CASE v = w
    <3>1. CASE PopWorkload(w)
      <4>1. wpc'[w] = "open" /\ unfinished'[w] = 0
        BY <1>0, <3>1, PopFacts
      <4> QED BY <2>3, <4>1
    <3>2. CASE OpenFile(w)
      <4>1. wpc'[w] = "read" \/ wpc'[w] = "next"
        BY <1>0, <3>2 DEF OpenFile, FailBatch
      <4> QED BY <2>3, <3>2, <4>1, OpenedReads
    <3>3. CASE ReadBlock(w)
      <4>1. wpc'[w] = "read" \/ wpc'[w] = "next"
        BY <1>0, <3>3 DEF ReadBlock, FailBatch
      <4> QED BY <2>3, <3>3, <4>1, BlockReads
    <3>4. CASE EndRead(w)
      <4>1. wpc'[w] = "ended"
        BY <1>0, <3>4 DEF EndRead
      <4> QED BY <2>3, <3>4, <4>1, EndReads
    <3>5. CASE EndBatch(w)
      <4>1. wpc'[w] = "next"
        BY <1>0, <3>5 DEF EndBatch, FailBatch
      <4> QED BY <2>3, <4>1
    <3>6. CASE NextBatch(w)
      <4>1. wpc'[w] = "idle" \/ (wpc'[w] = "open" /\ unfinished'[w] = 0)
        BY <1>0, <3>6 DEF NextBatch
      <4> QED BY <2>3, <4>1
    <3>7. CASE ExitWorker(w)
      <4>1. wpc'[w] = "exit"
        BY <1>0, <3>7 DEF ExitWorker
      <4> QED BY <2>3, <4>1
    <3> QED BY <2>1, <3>1, <3>2, <3>3, <3>4, <3>5, <3>6, <3>7 DEF execute
  <2> QED BY <2>2, <2>3
<1>3. CASE \E p \in Submitters : async_request(p)
  <2>1. PICK p \in Submitters : async_request(p)
    BY <1>3
  <2>2. UNCHANGED <<wpc, work, unfinished, offset>>
    BY <2>1 DEF async_request, Generate, Build, BuildFails, Add, Increment, Dispatch, DispatchThrows,
       DrainUndispatched, DrainLoses, Return, pool
  <2>3. v # p /\ v \in Threads
    BY <1>0
  <2>4. batch' = batch \/ \E b : batch' = [batch EXCEPT ![p] = b]
    BY <2>1 DEF async_request, Generate, Build, BuildFails, Add, Increment, Dispatch, DispatchThrows,
       DrainUndispatched, DrainLoses, Return, pool
  <2>5. batch'[v] = batch[v]
    BY <1>0, <2>3, <2>4
  <2> QED BY <1>1, <2>2, <2>5
<1>4. CASE (\E t \in Threads : Finish(t)) \/ response \/ StopResponder \/ StopPost \/ Destroyed \/ StopPools
           \/ UNCHANGED vars
  <2>1. UNCHANGED <<wpc, work, batch, unfinished, offset>>
    BY <1>4, FinishFrame, ResponseFrame DEF pool, Destroyed, StopPools, vars
  <2> QED BY <1>1, <2>1
<1> QED BY <1>2, <1>3, <1>4 DEF Next
-----------------------------------------------------------------------------
(* What a reading thread is finishing is in place.                         *)
OwnRead == \A w \in Workers : wpc[w] \in {"read", "ended"} => \A i \in 1..Len(todo[w]) : Filled(todo[w][i])

(* A reading thread finishes only what it has read.                        *)
LEMMA OwnFilled == TypeOK /\ Works /\ Placed /\ Reading => OwnRead
<1> SUFFICES ASSUME TypeOK, Works, Placed, Reading, NEW w \in Workers, wpc[w] \in {"read", "ended"},
                    NEW i \in 1..Len(todo[w])
             PROVE  Filled(todo[w][i])
  BY DEF OwnRead
<1>0. RegistryType /\ ConsumerType /\ Active(w) /\ w \in Threads /\ unfinished[w] \in Nat
  BY DEF TypeOK, PoolType, Active, Threads
<1>a. PICK x : x = todo[w][i]
  OBVIOUS
<1>1. Known(x) /\ OwnTask(w, x)
  BY <1>0, <1>a DEF Works, Placed
<1>2. x[4] \in Nat \ {0} /\ x[4] <= unfinished[w] /\ x = <<x[1], x[2], x[3], x[4]>>
      /\ x[1] = work[w][1] /\ x[2] = work[w][2] /\ x[3] = batch[w]
  BY <1>0, <1>1, TaskParts DEF OwnTask, Same
<1>3. unfinished[w] <= Len(CurTasks(w)) /\ Len(CurTasks(w)) \in Nat
  BY <1>0, CurFacts DEF Works, Active
<1>4. PICK k : k = x[4] /\ k \in 1..Len(CurTasks(w)) /\ \A j \in 1..k : j \in 1..unfinished[w]
  BY <1>0, <1>2, <1>3
<1>5. CurTasks(w)[k] = x
  <2>1. CurTasks(w)[k] = <<CurId(w), work[w][2], batch[w], k>>
    BY <1>0, <1>4, CurFacts DEF Active
  <2> QED BY <1>2, <1>4, <2>1 DEF CurId
<1>6. ReadSoFar(w)
  BY DEF Reading
<1>7. \A j \in 1..k : TaskEnd(CurTasks(w)[j]) <= offset[w]
  BY <1>4, <1>6 DEF ReadSoFar
<1>8. Filled(CurTasks(w)[k])
  BY <1>4, <1>6, <1>7 DEF ReadSoFar
<1> QED BY <1>5, <1>8, <1>a

(* Every step keeps the successes on their way backed.                     *)
LEMMA CarriedStep ==
  ASSUME Inv, Reading, Placed, Carried, OwnRead', Next \/ UNCHANGED vars
  PROVE  Carried'
<1>0. /\ TypeOK /\ Works /\ Works' /\ todo \in [Threads -> Seq(TaskId)] /\ code \in [Threads -> Codes]
      /\ Workers \subseteq Threads /\ Submitters \subseteq Threads /\ TypeOK'
  BY WorksStep, TypeStep DEF Inv, TypeOK, FinishingType, Threads
<1>a. Len(<<>>) = 0
  OBVIOUS
<1> SUFFICES ASSUME NEW u \in Threads, code'[u] = "Success", NEW i \in 1..Len(todo'[u])
             PROVE  Filled(todo[u][i])'
  BY DEF Carried
<1>1. ASSUME code'[u] = code[u], \E j \in 1..Len(todo[u]) : todo'[u][i] = todo[u][j]
      PROVE  Filled(todo[u][i])'
  <2>1. PICK j \in 1..Len(todo[u]) : todo'[u][i] = todo[u][j]
    BY <1>1
  <2>2. PICK x : x = todo[u][j] /\ Known(x) /\ Filled(x)
    BY <1>0, <1>1 DEF Carried, Works
  <2>3. Filled(x)'
    BY <2>2, FilledStays
  <2> QED BY <2>1, <2>2, <2>3 DEF Filled, TaskStart, TaskEnd, Tasks
<1>2. CASE \E p \in Submitters : async_request(p)
  <2>1. PICK p \in Submitters : async_request(p)
    BY <1>2
  <2>2. CASE DrainUndispatched(p)
    <3>1. u # p /\ todo'[u] = todo[u] /\ code'[u] = code[u]
      BY <1>0, <2>2 DEF DrainUndispatched
    <3> QED BY <1>1, <3>1
  <2>3. CASE DrainLoses(p)
    <3>1. code' = code /\ (todo'[u] = todo[u] \/ todo'[u] = <<>>)
      BY <1>0, <2>3 DEF DrainLoses
    <3> QED BY <1>1, <1>a, <3>1
  <2>4. CASE ~DrainUndispatched(p) /\ ~DrainLoses(p)
    <3>1. todo' = todo /\ code' = code
      BY <2>1, <2>4 DEF async_request, Generate, Build, BuildFails, Add, Increment, Dispatch, DispatchThrows,
         Return, finishing
    <3> QED BY <1>1, <3>1
  <2> QED BY <2>2, <2>3, <2>4
<1>3. CASE \E w \in Workers : execute(w)
  <2>1. PICK w \in Workers : execute(w)
    BY <1>3
  <2>2. CASE PopWorkload(w)
    <3>1. todo' = todo /\ code' = code
      BY <2>2 DEF PopWorkload, finishing
    <3> QED BY <1>1, <3>1
  <2>3. CASE ~PopWorkload(w) /\ u # w
    <3>1. todo'[u] = todo[u] /\ code'[u] = code[u]
      BY <1>0, <2>1, <2>3, ExecuteMoves
    <3> QED BY <1>1, <3>1
  <2>4. CASE ~PopWorkload(w) /\ u = w
    <3>1. todo'[w] # <<>>
      BY <1>a, <2>4
    <3>2. wpc'[w] \notin {"idle", "open", "exit"}
      BY <1>0, <3>1 DEF Works
    <3>3. wpc'[w] # "next"
      <4>1. wpc'[w] = "next" =>
              (todo'[w] = todo[w] /\ todo[w] = <<>>) \/ code'[w] # "Success"
        BY <1>0, <2>1, <2>4, ExecuteMoves DEF Active
      <4> QED BY <2>4, <3>1, <4>1
    <3>4. wpc'[w] \in {"read", "ended"}
      BY <1>0, <3>2, <3>3 DEF TypeOK, PoolType, Wpcs
    <3> QED BY <2>4, <3>4 DEF OwnRead
  <2> QED BY <2>2, <2>3, <2>4
<1>4. CASE \E t \in Threads : Finish(t)
  <2>1. PICK t \in Threads : Finish(t)
    BY <1>4
  <2>2. code' = code
    BY <2>1 DEF Finish, MarkTask, CountTask, Push, Post, Advance
  <2>3. \E j \in 1..Len(todo[u]) : todo'[u][i] = todo[u][j]
    BY <1>0, <2>1, FinishShortens
  <2> QED BY <1>1, <2>2, <2>3
<1>5. CASE response \/ StopResponder \/ StopPost \/ Destroyed \/ StopPools \/ UNCHANGED vars
  <2>1. todo' = todo /\ code' = code
    BY <1>5, ResponseFrame DEF finishing, Destroyed, StopPools, vars
  <2> QED BY <1>1, <2>1
<1> QED BY <1>2, <1>3, <1>4, <1>5 DEF Next

(* Every step keeps the result of a request honest: an error stays.        *)
LEMMA MarkedStep ==
  ASSUME Inv, Carried, Marked, Next \/ UNCHANGED vars
  PROVE  Marked'
<1>0. /\ TypeOK /\ Works /\ RegistryType /\ ConsumerType /\ ret \in [Ids -> [RangeNo -> Codes]]
  BY DEF Inv, TypeOK, RequestsType
<1> SUFFICES ASSUME NEW x \in finished', ret'[x[1]][TaskRange(x)'] = "Success" PROVE Filled(x)'
  BY DEF Marked
<1>1. ASSUME ret' = ret, finished' = finished PROVE Filled(x)'
  <2>1. Known(x)
    BY <1>0, <1>1 DEF Works
  <2>2. TaskRange(x)' = TaskRange(x)
    BY <2>1, KnownStable
  <2>3. Filled(x)
    BY <1>1, <2>2 DEF Marked
  <2> QED BY <2>1, <2>3, FilledStays
<1>2. CASE \E t \in Threads : MarkTask(t) /\ First(t) \notin finished
  <2>1. PICK t \in Threads : MarkTask(t) /\ First(t) \notin finished
    BY <1>2
  <2>2. todo[t] # <<>>
    BY <2>1 DEF MarkTask
  <2>3. PICK f, fid, fr : f = First(t) /\ fid = FirstId(t) /\ fr = FirstRange(t)
    OBVIOUS
  <2>4. /\ f = todo[t][1] /\ 1 \in 1..Len(todo[t]) /\ fid \in Ids /\ fr \in RangeNo
        /\ f[1] = fid /\ TaskRange(f) = fr
    BY <1>0, <2>2, <2>3, FirstFacts DEF FirstId, FirstRange
  <2>5. /\ finished' = finished \cup {f}
        /\ ret' = IF code[t] = "Success" THEN ret ELSE [ret EXCEPT ![fid][fr] = code[t]]
    BY <2>1, <2>3 DEF MarkTask
  <2>6. Known(x)
    BY <1>0, <2>4, <2>5 DEF Works
  <2>7. TaskRange(x)' = TaskRange(x) /\ x[1] \in Ids /\ TaskRange(x) \in RangeNo
    <3>1. x[1] \in Ids /\ x \in TasksOf(x[1])
      BY <1>0, <2>6, TaskParts DEF Known
    <3> QED BY <1>0, <2>6, <3>1, KnownStable, TaskType
  <2>8. Filled(x)
    <3>1. CASE code[t] = "Success"
      <4>1. x = f => Filled(x)
        BY <2>4, <3>1 DEF Carried
      <4>2. x \in finished => Filled(x)
        BY <2>5, <2>7, <3>1 DEF Marked
      <4> QED BY <2>5, <4>1, <4>2
    <3>2. CASE code[t] # "Success"
      <4>1. ~(x[1] = fid /\ TaskRange(x) = fr)
        <5>1. ret'[fid][fr] = code[t]
          BY <1>0, <2>4, <2>5, <3>2
        <5> QED BY <2>7, <3>2, <5>1
      <4>2. x # f /\ x \in finished
        BY <2>4, <2>5, <4>1
      <4>3. ret'[x[1]][TaskRange(x)] = ret[x[1]][TaskRange(x)]
        BY <1>0, <2>4, <2>5, <2>7, <3>2, <4>1
      <4> QED BY <2>7, <4>2, <4>3 DEF Marked
    <3> QED BY <3>1, <3>2
  <2> QED BY <2>6, <2>8, FilledStays
<1>3. CASE \E t \in Threads : Finish(t) /\ ~(MarkTask(t) /\ First(t) \notin finished)
  BY <1>1, <1>3 DEF Finish, MarkTask, CountTask, Push, Post, requests
<1>4. CASE \E p \in Submitters : async_request(p)
  BY <1>1, <1>4 DEF async_request, Generate, Build, BuildFails, Add, Increment, Dispatch, DispatchThrows,
     DrainUndispatched, DrainLoses, Return, requests
<1>5. CASE (\E w \in Workers : execute(w)) \/ response \/ StopResponder \/ StopPost \/ Destroyed \/ StopPools
           \/ UNCHANGED vars
  BY <1>1, <1>5, ExecuteFrame, ResponseFrame DEF requests, Destroyed, StopPools, vars
<1> QED BY <1>2, <1>3, <1>4, <1>5 DEF Next

(* A range whose counter is zero has no task left.                         *)
LEMMA AllFinished ==
  ASSUME TypeOK, Counted, NEW id \in Opened, NEW r \in RangeNo, left[id][r] = 0
  PROVE  \A x \in TasksOf(id) : TaskRange(x) = r => x \in finished
<1>1. id \in Ids
  BY DEF TypeOK, RegistryType, ConsumerType, Opened
<1>2. /\ IsFiniteSet(Unfinished(id, r)) /\ Cardinality(Unfinished(id, r)) \in Nat
      /\ Cardinality(AtStep("count", id, r)) \in Nat
  BY <1>1, CountsFinite
<1>3. Cardinality(Unfinished(id, r)) = 0
  <2>1. left[id][r] = Cardinality(Unfinished(id, r)) + Cardinality(AtStep("count", id, r))
    BY <1>1 DEF Counted, Built
  <2> QED BY <1>2, <2>1
<1>4. Unfinished(id, r) = {}
  BY <1>2, <1>3, FS_EmptySet
<1> QED BY <1>4 DEF Unfinished

(* Every step keeps what was pushed honest.                                *)
LEMMA ToldStep ==
  ASSUME Inv, Marked, Told, Next \/ UNCHANGED vars
  PROVE  Told'
<1>0. TypeOK /\ Works /\ PushedOnce /\ Counted /\ QueueType /\ ConsumerType /\ RegistryType
  BY DEF Inv, TypeOK
<1>1. ASSUME NEW id \in Ids, NEW r, Started(id), NEW x \in TasksOf(id)', TaskRange(x)' = r,
             \A y \in TasksOf(id) : TaskRange(y) = r => Filled(y)
      PROVE  Filled(x)'
  <2>1. TasksOf(id)' = TasksOf(id)
    BY <1>1, TasksStable DEF Started
  <2>2. x[1] = id
    BY <1>0, <1>1, <2>1, TaskType
  <2>3. Known(x)
    BY <1>1, <2>1, <2>2 DEF Known
  <2>4. TaskRange(x) = r
    BY <1>1, <2>3, KnownStable
  <2> QED BY <1>1, <2>1, <2>3, <2>4, FilledStays
<1>2. \A i \in 1..Len(Pushed) : Pushed[i].id \in Ids /\ Started(Pushed[i].id)
  BY <1>0, PushedParts DEF PushedOnce
<1> SUFFICES ASSUME NEW i \in 1..Len(Pushed'), Pushed'[i].ret = "Success", NEW x \in TasksOf(Pushed[i].id)',
                    TaskRange(x)' = Pushed'[i].range
             PROVE  Filled(x)'
  BY DEF Told
<1>a. PICK m, id, r : m = Pushed'[i] /\ id = m.id /\ r = m.range
  OBVIOUS
<1>b. x \in TasksOf(id)' /\ TaskRange(x)' = r /\ m.ret = "Success"
  BY <1>a DEF TasksOf
<1>3. ASSUME NEW j \in 1..Len(Pushed), m = Pushed[j] PROVE Filled(x)'
  <2>1. id \in Ids /\ Started(id)
    BY <1>2, <1>3, <1>a
  <2>2. \A y \in TasksOf(id) : TaskRange(y) = r => Filled(y)
    BY <1>3, <1>a, <1>b DEF Told
  <2> QED BY <1>1, <1>b, <2>1, <2>2
<1>4. CASE Pushed' = Pushed
  BY <1>3, <1>4, <1>a
<1>5. CASE \E t \in Threads : Push(t)
  <2>1. PICK t \in Threads : Push(t)
    BY <1>5
  <2>2. PICK fid, fr : fid = FirstId(t) /\ fr = FirstRange(t)
    OBVIOUS
  <2>3. step[t] = "push" /\ todo[t] # <<>>
    BY <2>1 DEF Push
  <2>4. fid \in Ids /\ fr \in RangeNo /\ Started(fid)
    BY <1>0, <2>2, <2>3, FirstFacts
  <2>5. left[fid][fr] = 0
    BY <1>0, <2>2, <2>3 DEF PushedOnce
  <2>6. \A y \in TasksOf(fid) : TaskRange(y) = fr => y \in finished
    BY <1>0, <2>4, <2>5, AllFinished DEF Started
  <2>7. ASSUME ~(Pushed' = Pushed)
        PROVE  \E k : /\ k = [id |-> fid, range |-> fr, ret |-> ret[fid][fr]] /\ k \in Response
                      /\ Pushed' = Append(Pushed, k)
    BY <2>1, <2>2, <2>7, PushEffect
  <2>8. CASE ~(Pushed' = Pushed)
    <3>1. PICK k : /\ k = [id |-> fid, range |-> fr, ret |-> ret[fid][fr]] /\ k \in Response
                   /\ Pushed' = Append(Pushed, k)
      BY <2>7, <2>8
    <3>2. Pushed \in Seq(Response) /\ Len(Pushed) \in Nat
      BY <1>0, PushedParts, LenProperties
    <3>3. /\ Len(Pushed') = Len(Pushed) + 1 /\ Pushed'[Len(Pushed) + 1] = k
          /\ \A j \in 1..Len(Pushed) : Pushed'[j] = Pushed[j]
      BY <3>1, <3>2, AppendProperties
    <3>4. CASE i \in 1..Len(Pushed)
      BY <1>3, <1>a, <3>3, <3>4
    <3>5. CASE i = Len(Pushed) + 1
      <4>1. m = k /\ id = fid /\ r = fr /\ ret[fid][fr] = "Success"
        BY <1>a, <1>b, <3>1, <3>3, <3>5
      <4>2. ASSUME NEW y \in TasksOf(fid), TaskRange(y) = fr PROVE Filled(y)
        <5>1. y \in finished /\ y[1] = fid
          BY <1>0, <2>4, <2>6, <4>2, TaskType
        <5> QED BY <4>1, <4>2, <5>1 DEF Marked
      <4> QED BY <1>1, <1>b, <2>4, <4>1, <4>2
    <3> QED BY <3>2, <3>3, <3>4, <3>5
  <2> QED BY <1>4, <2>8
<1>6. CASE \A t \in Threads : ~Push(t)
  BY <1>4, <1>6, PushedStep
<1> QED BY <1>5, <1>6
-----------------------------------------------------------------------------
(* The first state.                                                        *)
LEMMA InitHonest == Init => Honest
<1> SUFFICES ASSUME Init PROVE Honest
  OBVIOUS
<1>0. /\ deque = <<>> /\ finished = {} /\ landed = {}
      /\ wpc = [w \in Workers |-> "idle"] /\ pc = [p \in Submitters |-> "idle"]
      /\ todo = [t \in Threads |-> <<>>] /\ Workers \subseteq Threads /\ Submitters \subseteq Threads
  BY DEF Init, Threads
<1>a. Len(<<>>) = 0
  OBVIOUS
<1>1. \A w \in Workers : wpc[w] = "idle" /\ ~Active(w) /\ w \in Threads
  BY <1>0 DEF Active
<1>2. \A p \in Submitters : ~Giving(p) /\ p \in Threads
  BY <1>0 DEF Giving
<1>3. Len(deque) = 0 /\ \A t \in Threads : todo[t] = <<>> /\ Len(todo[t]) = 0
  BY <1>0, <1>a
<1>4. Exclusive
  BY <1>1, <1>2, <1>3 DEF Exclusive
<1>5. Placed
  BY <1>1, <1>2, <1>3 DEF Placed
<1>6. Untouched /\ Marked
  BY <1>0 DEF Untouched, Marked
<1>7. Reading
  BY <1>1 DEF Reading
<1>8. Carried
  BY <1>3 DEF Carried
<1>9. Told
  <2>1. Pushed = <<>>
    BY DEF Init, Pushed
  <2> QED BY <1>a, <2>1 DEF Told
<1> QED BY <1>4, <1>5, <1>6, <1>7, <1>8, <1>9 DEF Honest

(* Every step keeps the answers honest.                                    *)
LEMMA HonestStep == Inv /\ Inv' /\ Honest /\ [Next]_vars => Honest'
<1> SUFFICES ASSUME Inv, Inv', Honest, Next \/ UNCHANGED vars PROVE Honest'
  OBVIOUS
<1>0. Exclusive /\ Placed /\ Untouched /\ Reading /\ Carried /\ Marked /\ Told
  BY DEF Honest
<1>1. Exclusive' /\ Reading'
  BY <1>0, ExclusiveStep, ReadingStep
<1>2. Placed' /\ Untouched'
  BY <1>0, PlacedStep, UntouchedStep
<1>3. OwnRead'
  <2>1. TypeOK' /\ Works'
    BY DEF Inv
  <2>2. (TypeOK /\ Works /\ Placed /\ Reading)' => OwnRead'
    BY OwnFilled, PTL
  <2> QED BY <1>1, <1>2, <2>1, <2>2
<1>4. Carried' /\ Marked' /\ Told'
  BY <1>0, <1>3, CarriedStep, MarkedStep, ToldStep
<1> QED BY <1>1, <1>2, <1>4 DEF Honest

(* The inductive invariant behind honest answers holds throughout.         *)
THEOREM HonestInvariance == Spec => []Honest
BY Invariance, InitHonest, HonestStep, PTL DEF Spec

(* All tasks of a submission that was reported done are finished.          *)
LEMMA DoneIsFinished ==
  ASSUME Inv, NEW id \in done, NEW x \in TasksOf(id)
  PROVE  x \in finished
<1>0. TypeOK /\ PushedOnce /\ Counted /\ Remaining /\ RegistryType /\ ConsumerType /\ QueueType
  BY DEF Inv, TypeOK
<1>1. id \in Opened /\ id \in Ids
  BY <1>0 DEF Opened, ConsumerType
<1>2. PICK r : r = TaskRange(x) /\ r \in 1..shape[id].ranges /\ r \in RangeNo
  BY <1>0, <1>1, TaskType
<1>3. r \notin Owed(id)
  BY <1>0 DEF Remaining
<1>4. PICK i \in 1..Len(delivered) : delivered[i].id = id /\ delivered[i].range = r
  BY <1>2, <1>3 DEF Owed
<1>5. i \in 1..Len(Pushed) /\ Pushed[i] = delivered[i]
  BY <1>0, <1>4, PushedParts
<1>6. left[id][r] = 0
  BY <1>0, <1>4, <1>5 DEF PushedOnce
<1> QED BY <1>0, <1>1, <1>2, <1>6, AllFinished

(* Every workload and every batch has a task.                              *)
LEMMA FirstTask ==
  ASSUME RegistryType, NEW id \in Ids, NEW w \in DOMAIN shape[id].work, NEW b \in DOMAIN shape[id].work[w],
         NEW i \in 1..Len(Tasks(id, w, b))
  PROVE  <<id, w, b, i>> \in TasksOf(id)
<1>1. Tasks(id, w, b) \in Seq(TaskShape)
  BY ShapeType DEF Tasks, RegistryType
<1>2. i \in DOMAIN shape[id].work[w][b]
  BY <1>1, SeqFacts DEF Tasks
<1> QED BY <1>2, TaskIn

(* A range is answered Success only when every byte of it is in place, and *)
(* nothing is queued or read for a submission reported done, so that its   *)
(* buffers may be freed.                                                   *)
THEOREM AnswersAreHonest == Spec => []AnswersHonest
<1>1. Inv /\ Honest => SuccessMeansRead
  <2> SUFFICES ASSUME Inv, Honest, NEW i \in 1..Len(Pushed), Pushed[i].ret = "Success",
                      NEW t \in TaskIds, t[1] = Pushed[i].id, TaskRange(t) = Pushed[i].range
               PROVE  t \in landed \/ TaskStart(t) = TaskEnd(t)
    BY DEF SuccessMeansRead
  <2>0. RegistryType /\ Told
    BY DEF Inv, TypeOK, Honest
  <2>1. PICK id \in Ids : t \in TasksOf(id)
    BY DEF TaskIds
  <2>2. t[1] = id
    BY <2>0, <2>1, TaskType
  <2> QED BY <2>0, <2>1, <2>2 DEF Told, Filled
<1>2. Inv /\ Honest => DoneIsQuiet
  <2> SUFFICES ASSUME Inv, Honest, NEW id \in done
               PROVE  /\ \A i \in 1..Len(deque) : deque[i][1] # id
                      /\ \A w \in Workers : wpc[w] \in {"open", "read"} /\ CurId(w) = id =>
                            wpc[w] = "read" /\ offset[w] = CurEnd(w)
    BY DEF DoneIsQuiet
  <2>0. /\ TypeOK /\ Works /\ Untouched /\ Reading /\ RegistryType /\ id \in Ids
        /\ unfinished \in [Workers -> Nat] /\ offset \in [Workers -> Nat]
    BY DEF Inv, TypeOK, Honest, ConsumerType, PoolType
  <2>1. ASSUME NEW x \in TasksOf(id), Ahead(x) PROVE FALSE
    BY <2>0, <2>1, DoneIsFinished DEF Untouched
  <2>2. ASSUME NEW i \in 1..Len(deque), deque[i][1] = id PROVE FALSE
    <3>1. PICK w : w = deque[i][2] /\ w \in DOMAIN shape[id].work /\ shape[id].work[w] # <<>>
      BY <2>0, <2>2 DEF Works, Queued
    <3>2. shape[id].work[w] \in Seq(BatchShape)
      BY <2>0, <3>1, ShapeType DEF RegistryType
    <3>3. 1 \in DOMAIN shape[id].work[w]
      BY <3>1, <3>2, EmptySeq, SeqFacts
    <3>4. 1 \in 1..Len(Tasks(id, w, 1))
      BY <2>0, <3>1, <3>3, BatchTasksIn
    <3>5. PICK x : x = <<id, w, 1, 1>>
      OBVIOUS
    <3>6. x \in TasksOf(id)
      BY <2>0, <3>1, <3>3, <3>4, <3>5, FirstTask
    <3>7. AheadOfQueue(x)
      BY <2>2, <3>1, <3>5 DEF AheadOfQueue, Same
    <3> QED BY <2>1, <3>6, <3>7 DEF Ahead
  <2>3. ASSUME NEW w \in Workers, wpc[w] \in {"open", "read"}, CurId(w) = id
        PROVE  wpc[w] = "read" /\ offset[w] = CurEnd(w)
    <3>1. /\ Active(w) /\ work[w][1] = id
      BY <2>3 DEF Active, CurId
    <3>2. /\ work[w][2] \in DOMAIN shape[id].work /\ batch[w] \in DOMAIN shape[id].work[work[w][2]]
          /\ Len(CurTasks(w)) \in Nat \ {0} /\ CurEnd(w) \in Nat
          /\ Len(CurTasks(w)) = Len(Tasks(id, work[w][2], batch[w]))
          /\ \A i \in 1..Len(CurTasks(w)) : /\ CurTasks(w)[i] = <<id, work[w][2], batch[w], i>>
                                            /\ CurTasks(w)[i] \in TasksOf(id)
      BY <2>0, <2>3, <3>1, CurFacts DEF Active
    <3>3. unfinished[w] = Len(CurTasks(w))
      <4>1. unfinished[w] <= Len(CurTasks(w)) /\ unfinished[w] \in Nat
        BY <2>0, <3>1 DEF Works, Active
      <4>2. SUFFICES ASSUME unfinished[w] < Len(CurTasks(w)) PROVE FALSE
        BY <3>2, <4>1
      <4>3. PICK n : n = Len(CurTasks(w)) /\ n \in 1..Len(CurTasks(w)) /\ n > unfinished[w]
        BY <3>2, <4>1, <4>2
      <4>4. PICK x : x = CurTasks(w)[n] /\ x \in TasksOf(id) /\ x = <<id, work[w][2], batch[w], n>>
        BY <3>2, <4>3
      <4>5. AheadOfWorker(w, x)
        BY <2>3, <3>1, <4>3, <4>4 DEF AheadOfWorker, Same
      <4> QED BY <2>1, <4>4, <4>5 DEF Ahead
    <3>4. wpc[w] = "read"
      BY <2>0, <2>3, <3>2, <3>3 DEF Reading
    <3>5. ReadSoFar(w)
      BY <2>0, <3>4 DEF Reading
    <3>6. PICK n : n = Len(CurTasks(w)) /\ n \in 1..unfinished[w]
      BY <3>2, <3>3
    <3>7. TaskEnd(CurTasks(w)[n]) <= offset[w]
      BY <3>5, <3>6 DEF ReadSoFar
    <3>8. TaskEnd(CurTasks(w)[n]) = CurEnd(w)
      <4>1. CurTasks(w)[n] = <<id, work[w][2], batch[w], n>>
        BY <3>2, <3>3, <3>6
      <4> QED BY <2>3, <3>2, <3>6, <4>1 DEF TaskEnd, CurEnd, BatchEnd
    <3>9. offset[w] <= CurEnd(w) /\ offset[w] \in Nat
      BY <2>0, <3>5 DEF ReadSoFar
    <3> QED BY <3>2, <3>4, <3>7, <3>8, <3>9
  <2> QED BY <2>2, <2>3
<1> QED BY <1>1, <1>2, Invariance, HonestInvariance, PTL DEF AnswersHonest
=============================================================================
