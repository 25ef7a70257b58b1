---------------------- MODULE ObjectStorageWorkerProofs ----------------------
(***************************************************************************)
(* Proofs about ObjectStorageWorker, for any workloads, window, staging    *)
(* pool and bounds, with and without a teardown.                           *)
(***************************************************************************)
EXTENDS ObjectStorageWorker, FiniteSetTheorems, FunctionTheorems, SequenceTheorems, TLAPS

Pcs == {"idle", "loop", "prepump", "pump", "submit", "issued", "turn", "copies", "resume", "wait",
        "abort", "quiesceReads", "quiesceCopies", "exit"}
Codes == {"Success", "RetryableFileAccessError", "FileAccessError", "UnknownError",
          "FinishedError", "DeviceDriverError"}
Read == [chunk : Chunks, buf : Buffers \cup {None}]
Copy == [chunk : Chunks, buf : Buffers]
Report == [chunk : Chunks, ret : Codes]

TableType ==
  /\ live \subseteq DOMAIN Work /\ remaining \in [DOMAIN Work -> Nat]
  /\ ferr \in [DOMAIN Work -> [Files -> Codes \cup {None}]]
  /\ failed \subseteq Chunks /\ staging \in [Chunks -> Buffers \cup {None}]
  /\ answer \in [Chunks -> Codes \cup {None}]
QueueType ==
  /\ up \in BOOLEAN /\ pending \in Seq(Chunks) /\ inflight \in Nat
  /\ attempts \in [Chunks -> Nat] /\ deadline \in [Chunks -> {"unset", "running", "expired"}]
  /\ delayed \subseteq Chunks /\ waiting \in Seq(Chunks) /\ waitingRetries \in Seq(Chunks)
OutsideType ==
  /\ copiesIssued \in Nat /\ copyDone \in Seq(Report) /\ copying \subseteq Copy
  /\ reporting \subseteq Report /\ free \subseteq Buffers /\ retired \subseteq Buffers
  /\ reads \subseteq Read /\ events \in Seq(Report)
  /\ cflag \in BOOLEAN /\ cstopped \in BOOLEAN /\ cbroken \in BOOLEAN
ControlType ==
  /\ pc \in Pcs /\ ret \in {"loop", "tail", "drain"} /\ back \in {"pump", "resume"}
  /\ cur \in Chunks \cup {<<0, 0>>} /\ quota \in [retries : Nat, fresh : Nat]
  /\ code \in Codes /\ continues \in BOOLEAN /\ drained \in BOOLEAN
  /\ taken \in 0..Len(Work) /\ stopped \in BOOLEAN /\ faults \in Nat /\ landed \subseteq Chunks

(* The state keeps its type.                                               *)
TypeOK == TableType /\ QueueType /\ OutsideType /\ ControlType

(* The chunks of a queue, of a set and of a queue of records, each once.   *)
Members(s) == {s[i] : i \in DOMAIN s}
Distinct(s) == \A i, j \in DOMAIN s : s[i] = s[j] => i = j
ChunksOf(S) == {x.chunk : x \in S}
OneEach(S) == \A x, y \in S : x.chunk = y.chunk => x = y
ChunksIn(s) == {s[i].chunk : i \in DOMAIN s}
OneIn(s) == \A i, j \in DOMAIN s : s[i].chunk = s[j].chunk => i = j

(* Where a chunk can be: with the worker, with the plugin, in a copy.      *)
Submitting == {c \in Chunks : pc = "submit" /\ c = cur}
Parked == Members(waiting) \cup Members(waitingRetries)
Queued == Submitting \cup delayed \cup Members(pending) \cup Parked
Reads == ChunksOf(reads) \cup ChunksIn(events)
Copies == ChunksOf(copying) \cup ChunksOf(reporting) \cup ChunksIn(copyDone)
Places == {"submit", "delayed", "pending", "waiting", "retries", "read", "event",
           "copying", "reporting", "done"}

(* What the plugin and the copy path have of a chunk they have once, even  *)
(* while the client is being stopped.                                      *)
OutsideAt(p) ==
  /\ \A c \in ChunksOf(reads) : p[c] = "read"
  /\ \A c \in ChunksIn(events) : p[c] = "event"
  /\ \A c \in ChunksOf(copying) : p[c] = "copying"
  /\ \A c \in ChunksOf(reporting) : p[c] = "reporting"
  /\ \A c \in ChunksIn(copyDone) : p[c] = "done"

(* Until then the worker's queues do not have it at the same time.         *)
QueuedAt(p) ==
  /\ \A c \in Submitting : p[c] = "submit"
  /\ \A c \in delayed : p[c] = "delayed"
  /\ \A c \in Members(pending) : p[c] = "pending"
  /\ \A c \in Members(waiting) : p[c] = "waiting"
  /\ \A c \in Members(waitingRetries) : p[c] = "retries"

OneOutside ==
  OneEach(reads) /\ OneIn(events) /\ OneEach(copying) /\ OneEach(reporting) /\ OneIn(copyDone)
OneQueued == Distinct(pending) /\ Distinct(waiting) /\ Distinct(waitingRetries)
Spread ==
  /\ OneOutside /\ (~cflag => OneQueued)
  /\ \E p \in [Chunks -> Places] : OutsideAt(p) /\ (~cflag => QueuedAt(p))

(* A chunk the worker or a copy has is open, its workload in the table; a  *)
(* read may outlive its workload only at a plugin that broke.              *)
Open(c) == c \notin failed /\ answer[c] = None
InTable ==
  /\ \A c \in Queued \cup Copies : c[1] \in live /\ Open(c) /\ staging[c] = None
  /\ \A c \in Reads :
       c[1] <= taken /\ (c[1] \in live => Open(c)) /\ (~cbroken => c[1] \in live)

(* The credit.                                                             *)
Holding == {c \in Reads \cup Parked \cup Submitting : c[1] \in live}
Credit == IsFiniteSet(Holding) /\ inflight = Cardinality(Holding)
CopyCount == IsFiniteSet(Copies) /\ copiesIssued = Cardinality(Copies)

(* A workload in the table has open chunks, and counts them.               *)
Aborting == pc \in {"abort", "quiesceReads", "quiesceCopies"}
Outstanding(w) == {c \in Of(w) : Open(c)}
SomeLeft == ~Aborting => \A w \in live : remaining[w] > 0
Remaining ==
  ~Aborting => \A w \in live :
    IsFiniteSet(Outstanding(w)) /\ remaining[w] = Cardinality(Outstanding(w))

(* The chunks of a workload: not yet taken, in the table, answered.        *)
Answering ==
  \A c \in Chunks :
    /\ c[1] > taken => Open(c)
    /\ c[1] <= taken /\ c[1] \notin live => answer[c] # None
    /\ c[1] \in live /\ c \in failed => ferr[c[1]][File(c)] # None
    /\ answer[c] = "Success" => c \in landed
NoFalseSuccess ==
  /\ \A w \in DOMAIN Work, f \in Files : ferr[w][f] # "Success"
  /\ \A d \in reporting : d.ret = "Success" => d.chunk \in landed
  /\ \A i \in DOMAIN copyDone : copyDone[i].ret = "Success" => copyDone[i].chunk \in landed

(* What a read writes into.                                                *)
Landing ==
  /\ \A rd \in reads :
       /\ rd.chunk[1] \in live => staging[rd.chunk] = rd.buf
       /\ rd.chunk[1] \notin live /\ rd.buf # None => rd.buf \in retired
  /\ \A i \in DOMAIN events :
       LET c == events[i].chunk
       IN  events[i].ret = "Success" /\ c[1] \in live /\ staging[c] = None => c \in landed

(* Every staging buffer is in one place.                                   *)
Buffered ==
  /\ free \cap retired = {}
  /\ \A c \in Chunks : staging[c] # None =>
       c[1] \in live /\ Open(c) /\ staging[c] \notin free \cup retired
  /\ \A c, d \in Chunks : staging[c] = staging[d] /\ staging[c] # None => c = d
  /\ \A cp \in copying : /\ cp.buf \in Buffers /\ cp.buf \notin free \cup retired
                         /\ \A c \in Chunks : staging[c] # cp.buf
  /\ \A x, y \in copying : x.buf = y.buf => x = y
  /\ \A b \in Buffers : \/ b \in free \cup retired
                        \/ \E c \in Chunks : staging[c] = b
                        \/ \E cp \in copying : cp.buf = b

(* Where the thread is.                                                    *)
Resuming == pc = "resume" \/ (pc \in {"submit", "issued"} /\ back = "resume")
Control ==
  /\ live \subseteq 1..taken
  /\ stopped => cstopped
  /\ cstopped => cflag
  /\ pc \in {"submit", "issued"} => cur \in Chunks
  /\ pc = "issued" => cur[1] \in live
  /\ pc = "wait" => inflight > 0
  /\ Aborting => /\ code # "Success"
                 /\ ~cflag => continues /\ code # "FinishedError"
  /\ pc \in {"quiesceReads", "quiesceCopies"} => delayed = {} /\ pending = <<>> /\ Parked = {}
  /\ pc = "quiesceCopies" /\ drained => inflight = 0
  /\ pc = "quiesceCopies" /\ ~cflag /\ ~cbroken => Reads = {}
  /\ Resuming => quota.retries <= Len(waitingRetries) /\ quota.fresh <= Len(waiting)
  /\ pc = "exit" => copiesIssued = 0

(* The inductive invariant: what holds always, and what holds until the    *)
(* client is being stopped.                                                *)
Always == TypeOK /\ Control /\ Spread /\ CopyCount /\ SomeLeft /\ NoFalseSuccess
Before == InTable /\ Credit /\ Remaining /\ Answering /\ Landing /\ Buffered
Inv == Always /\ (~cflag => Before)
-----------------------------------------------------------------------------
(* What a chunk is.                                                        *)
LEMMA ChunkFacts ==
  ASSUME NEW c \in Chunks
  PROVE  /\ c[1] \in DOMAIN Work /\ c[1] \in Nat \ {0} /\ c[1] <= Len(Work)
         /\ c[2] \in DOMAIN Work[c[1]] /\ c = <<c[1], c[2]>> /\ File(c) \in Files
<1>1. Len(Work) \in Nat /\ DOMAIN Work = 1..Len(Work)
  BY WorkAssumption, LenProperties
<1>2. PICK w \in DOMAIN Work : c \in {<<w, i>> : i \in DOMAIN Work[w]}
  BY DEF Chunks
<1>3. PICK i \in DOMAIN Work[w] : c = <<w, i>>
  BY <1>2
<1>4. File(c) \in Files
  BY DEF Files
<1> QED BY <1>1, <1>3, <1>4

(* The chunks of a workload, as Enqueue lists them.                        *)
LEMMA WorkFacts ==
  ASSUME NEW w \in 1..Len(Work)
  PROVE  /\ w \in DOMAIN Work /\ Len(Work[w]) \in Nat /\ DOMAIN Work[w] = 1..Len(Work[w])
         /\ \A i \in DOMAIN Work[w] : <<w, i>> \in Chunks
         /\ Of(w) = {<<w, i>> : i \in DOMAIN Work[w]}
<1>1. Len(Work) \in Nat /\ DOMAIN Work = 1..Len(Work) /\ Work[w] \in Seq([dev : BOOLEAN, file : Nat])
  BY WorkAssumption, LenProperties
<1>2. Len(Work[w]) \in Nat /\ DOMAIN Work[w] = 1..Len(Work[w])
  BY <1>1, LenProperties
<1>3. \A i \in DOMAIN Work[w] : <<w, i>> \in Chunks
  BY <1>1 DEF Chunks
<1>4. ASSUME NEW c \in Of(w) PROVE c \in {<<w, i>> : i \in DOMAIN Work[w]}
  BY <1>4, ChunkFacts DEF Of
<1>5. {<<w, i>> : i \in DOMAIN Work[w]} \subseteq Of(w)
  BY <1>3 DEF Of
<1> QED BY <1>1, <1>2, <1>3, <1>4, <1>5

(* A workload has as many chunks as its sequence is long.                  *)
LEMMA WorkCount ==
  ASSUME NEW w \in 1..Len(Work)
  PROVE  IsFiniteSet(Of(w)) /\ Cardinality(Of(w)) = Len(Work[w])
<1> DEFINE n == Len(Work[w])
           f == [i \in 1..n |-> <<w, i>>]
<1>1. n \in Nat /\ DOMAIN Work[w] = 1..n /\ Of(w) = {<<w, i>> : i \in 1..n}
  BY WorkFacts
<1>2. f \in Bijection(1..n, Of(w))
  BY <1>1 DEF Bijection, Injection, IsInjective, Surjection
<1> HIDE DEF n, f
<1>3. IsFiniteSet(1..n) /\ Cardinality(1..n) = n
  BY <1>1, FS_Interval
<1>4. ExistsBijection(1..n, Of(w))
  BY <1>2 DEF ExistsBijection
<1>5. IsFiniteSet(Of(w)) /\ Cardinality(Of(w)) = n
  BY <1>3, <1>4, FS_Bijection
<1> QED BY <1>5 DEF n

-----------------------------------------------------------------------------
(* Queues: their first element, the rest, and one more.                    *)
LEMMA SeqFacts ==
  ASSUME NEW S, NEW s \in Seq(S)
  PROVE  /\ Len(s) \in Nat /\ DOMAIN s = 1..Len(s)
         /\ \A i \in DOMAIN s : i \in Nat \ {0} /\ s[i] \in S
         /\ s = <<>> <=> Len(s) = 0
<1>1. Len(s) \in Nat /\ s \in [1..Len(s) -> S] /\ DOMAIN s = 1..Len(s)
  BY LenProperties
<1>2. s = <<>> <=> Len(s) = 0
  BY EmptySeq
<1> QED BY <1>1, <1>2

(* The head and the tail of a sequence.                                    *)
LEMMA TailFacts ==
  ASSUME NEW S, NEW s \in Seq(S), s # <<>>
  PROVE  /\ Head(s) \in S /\ Head(s) = s[1] /\ Tail(s) \in Seq(S)
         /\ 1 \in DOMAIN s /\ Len(Tail(s)) = Len(s) - 1 /\ DOMAIN Tail(s) = 1..(Len(s) - 1)
         /\ \A i \in DOMAIN Tail(s) : i + 1 \in DOMAIN s /\ Tail(s)[i] = s[i + 1]
<1>1. Len(s) \in Nat /\ DOMAIN s = 1..Len(s) /\ Len(s) # 0
  BY SeqFacts
<1>2. Head(s) \in S /\ Tail(s) \in Seq(S) /\ Len(Tail(s)) = Len(s) - 1
      /\ \A i \in 1..Len(Tail(s)) : Tail(s)[i] = s[i + 1]
  BY HeadTailProperties
<1>3. DOMAIN Tail(s) = 1..Len(Tail(s))
  BY <1>2, SeqFacts
<1>4. Head(s) = s[1]
  OBVIOUS
<1> QED BY <1>1, <1>2, <1>3, <1>4

(* A queue without its head.                                               *)
LEMMA MembersTail ==
  ASSUME NEW S, NEW s \in Seq(S), s # <<>>
  PROVE  /\ Head(s) \in Members(s) /\ Members(Tail(s)) \subseteq Members(s)
         /\ Distinct(s) => Members(Tail(s)) = Members(s) \ {Head(s)} /\ Distinct(Tail(s))
<1>1. /\ Head(s) = s[1] /\ 1 \in DOMAIN s /\ DOMAIN Tail(s) = 1..(Len(s) - 1)
      /\ Len(s) \in Nat /\ DOMAIN s = 1..Len(s)
      /\ \A i \in DOMAIN Tail(s) : i + 1 \in DOMAIN s /\ Tail(s)[i] = s[i + 1]
  BY TailFacts, SeqFacts
<1>2. Head(s) \in Members(s) /\ Members(Tail(s)) \subseteq Members(s)
  BY <1>1 DEF Members
<1>3. ASSUME Distinct(s) PROVE Distinct(Tail(s))
  <2> SUFFICES ASSUME NEW i \in DOMAIN Tail(s), NEW j \in DOMAIN Tail(s), Tail(s)[i] = Tail(s)[j]
               PROVE  i = j
    BY DEF Distinct
  <2>1. i + 1 = j + 1
    BY <1>1, <1>3 DEF Distinct
  <2> QED BY <1>1, <2>1
<1>4. ASSUME Distinct(s), NEW x \in Members(Tail(s)) PROVE x # Head(s)
  <2>1. PICK i \in DOMAIN Tail(s) : x = Tail(s)[i]
    BY DEF Members
  <2>2. i + 1 \in DOMAIN s /\ x = s[i + 1] /\ i + 1 # 1
    BY <1>1, <2>1
  <2> QED BY <1>1, <1>4, <2>2 DEF Distinct
<1>5. ASSUME NEW x \in Members(s), x # Head(s) PROVE x \in Members(Tail(s))
  <2>1. PICK i \in DOMAIN s : x = s[i]
    BY DEF Members
  <2>2. i # 1 /\ i - 1 \in DOMAIN Tail(s) /\ (i - 1) + 1 = i
    BY <1>1, <1>5, <2>1
  <2>3. x = Tail(s)[i - 1]
    BY <1>1, <2>1, <2>2
  <2> QED BY <2>2, <2>3 DEF Members
<1> QED BY <1>2, <1>3, <1>4, <1>5

(* Two queues joined.                                                      *)
LEMMA MembersConcat ==
  ASSUME NEW S, NEW s \in Seq(S), NEW t \in Seq(S)
  PROVE  /\ s \o t \in Seq(S) /\ Members(s \o t) = Members(s) \cup Members(t)
         /\ Distinct(s) /\ Distinct(t) /\ Members(s) \cap Members(t) = {} => Distinct(s \o t)
<1>1. /\ Len(s) \in Nat /\ DOMAIN s = 1..Len(s) /\ Len(t) \in Nat /\ DOMAIN t = 1..Len(t)
  BY SeqFacts
<1>2. /\ s \o t \in Seq(S) /\ Len(s \o t) = Len(s) + Len(t)
      /\ \A i \in 1..(Len(s) + Len(t)) : (s \o t)[i] = IF i <= Len(s) THEN s[i] ELSE t[i - Len(s)]
  BY ConcatProperties
<1>3. DOMAIN (s \o t) = 1..(Len(s) + Len(t))
  BY <1>2, SeqFacts
<1>4. Members(s \o t) \subseteq Members(s) \cup Members(t)
  <2> SUFFICES ASSUME NEW i \in DOMAIN (s \o t) PROVE (s \o t)[i] \in Members(s) \cup Members(t)
    BY DEF Members
  <2>1. CASE i <= Len(s)
    BY <1>1, <1>2, <1>3, <2>1 DEF Members
  <2>2. CASE i > Len(s)
    BY <1>1, <1>2, <1>3, <2>2 DEF Members
  <2> QED BY <1>1, <1>3, <2>1, <2>2
<1>5. Members(s) \subseteq Members(s \o t)
  <2> SUFFICES ASSUME NEW i \in DOMAIN s PROVE s[i] \in Members(s \o t)
    BY DEF Members
  <2>1. i \in DOMAIN (s \o t) /\ (s \o t)[i] = s[i]
    BY <1>1, <1>2, <1>3
  <2> QED BY <2>1 DEF Members
<1>6. Members(t) \subseteq Members(s \o t)
  <2> SUFFICES ASSUME NEW i \in DOMAIN t PROVE t[i] \in Members(s \o t)
    BY DEF Members
  <2>1. i + Len(s) \in DOMAIN (s \o t) /\ (s \o t)[i + Len(s)] = t[i]
    BY <1>1, <1>2, <1>3
  <2> QED BY <2>1 DEF Members
<1>7. ASSUME Distinct(s), Distinct(t), Members(s) \cap Members(t) = {},
             NEW i \in DOMAIN (s \o t), NEW j \in DOMAIN (s \o t), (s \o t)[i] = (s \o t)[j]
      PROVE  i = j
  <2>1. CASE i <= Len(s) /\ j <= Len(s)
    BY <1>1, <1>2, <1>3, <1>7, <2>1 DEF Distinct
  <2>2. CASE i > Len(s) /\ j > Len(s)
    <3>1. i - Len(s) \in DOMAIN t /\ j - Len(s) \in DOMAIN t /\ t[i - Len(s)] = t[j - Len(s)]
      BY <1>1, <1>2, <1>3, <1>7, <2>2
    <3>2. i - Len(s) = j - Len(s)
      BY <1>7, <3>1 DEF Distinct
    <3> QED BY <1>1, <1>3, <3>2
  <2>3. CASE i <= Len(s) /\ j > Len(s)
    <3>1. s[i] \in Members(s) /\ t[j - Len(s)] \in Members(t) /\ s[i] = t[j - Len(s)]
      BY <1>1, <1>2, <1>3, <1>7, <2>3 DEF Members
    <3> QED BY <1>7, <3>1
  <2>4. CASE i > Len(s) /\ j <= Len(s)
    <3>1. s[j] \in Members(s) /\ t[i - Len(s)] \in Members(t) /\ s[j] = t[i - Len(s)]
      BY <1>1, <1>2, <1>3, <1>7, <2>4 DEF Members
    <3> QED BY <1>7, <3>1
  <2> QED BY <1>1, <1>3, <2>1, <2>2, <2>3, <2>4
<1> QED BY <1>2, <1>4, <1>5, <1>6, <1>7 DEF Distinct

(* A queue with one more at its end.                                       *)
LEMMA MembersAppend ==
  ASSUME NEW S, NEW s \in Seq(S), NEW x \in S
  PROVE  /\ Append(s, x) \in Seq(S) /\ Members(Append(s, x)) = Members(s) \cup {x}
         /\ Len(Append(s, x)) = Len(s) + 1
         /\ Distinct(s) /\ x \notin Members(s) => Distinct(Append(s, x))
<1>1. /\ Append(s, x) \in Seq(S) /\ Len(Append(s, x)) = Len(s) + 1
      /\ \A i \in 1..Len(s) : Append(s, x)[i] = s[i]
      /\ Append(s, x)[Len(s) + 1] = x
  BY AppendProperties
<1>2. Len(s) \in Nat /\ DOMAIN s = 1..Len(s) /\ DOMAIN Append(s, x) = 1..(Len(s) + 1)
  BY <1>1, SeqFacts
<1>3. Members(Append(s, x)) = Members(s) \cup {x}
  BY <1>1, <1>2 DEF Members
<1>4. ASSUME Distinct(s), x \notin Members(s), NEW i \in DOMAIN Append(s, x),
             NEW j \in DOMAIN Append(s, x), Append(s, x)[i] = Append(s, x)[j]
      PROVE  i = j
  BY <1>1, <1>2, <1>4 DEF Distinct, Members
<1> QED BY <1>1, <1>3, <1>4 DEF Distinct

(* A queue of one.                                                         *)
LEMMA MembersOne ==
  ASSUME NEW S, NEW x \in S
  PROVE  <<x>> \in Seq(S) /\ Members(<<x>>) = {x} /\ Distinct(<<x>>)
BY DEF Members, Distinct

(* The empty queue.                                                        *)
LEMMA MembersNone == Members(<<>>) = {} /\ Distinct(<<>>)
BY DEF Members, Distinct

(* The members of a queue have its type; only the empty one has none.      *)
LEMMA MembersIn ==
  ASSUME NEW S, NEW s \in Seq(S)
  PROVE  Members(s) \subseteq S /\ (Members(s) = {} <=> s = <<>>)
<1>1. Members(s) \subseteq S /\ Len(s) \in Nat /\ DOMAIN s = 1..Len(s) /\ (s = <<>> <=> Len(s) = 0)
  BY SeqFacts DEF Members
<1>2. ASSUME Members(s) = {} PROVE Len(s) = 0
  <2> SUFFICES ASSUME Len(s) # 0 PROVE FALSE
    OBVIOUS
  <2>1. 1 \in DOMAIN s
    BY <1>1
  <2> QED BY <1>2, <2>1 DEF Members
<1>3. s = <<>> => Members(s) = {}
  BY MembersNone
<1> QED BY <1>1, <1>2, <1>3

(* A queue without duplicates is as long as its set is large.              *)
LEMMA MembersCount ==
  ASSUME NEW S, NEW s \in Seq(S), Distinct(s)
  PROVE  IsFiniteSet(Members(s)) /\ Cardinality(Members(s)) = Len(s)
<1>1. Len(s) \in Nat /\ DOMAIN s = 1..Len(s) /\ s \in [1..Len(s) -> Members(s)]
  BY LenProperties DEF Members
<1>2. s \in Bijection(1..Len(s), Members(s))
  BY <1>1 DEF Distinct, Members, Bijection, Injection, IsInjective, Surjection
<1>3. IsFiniteSet(1..Len(s)) /\ Cardinality(1..Len(s)) = Len(s)
  BY <1>1, FS_Interval
<1>4. ExistsBijection(1..Len(s), Members(s))
  BY <1>2 DEF ExistsBijection
<1> QED BY <1>3, <1>4, FS_Bijection

-----------------------------------------------------------------------------
(* Records of chunks, in queues and in sets.                               *)
LEMMA ReportsTail ==
  ASSUME NEW s \in Seq(Report), s # <<>>
  PROVE  /\ Head(s) \in Report /\ Tail(s) \in Seq(Report) /\ Head(s).chunk \in ChunksIn(s)
         /\ ChunksIn(Tail(s)) \subseteq ChunksIn(s)
         /\ \A i \in DOMAIN Tail(s) : \E j \in DOMAIN s : Tail(s)[i] = s[j]
         /\ \E j \in DOMAIN s : Head(s) = s[j]
         /\ OneIn(s) => OneIn(Tail(s)) /\ ChunksIn(Tail(s)) = ChunksIn(s) \ {Head(s).chunk}
<1>1. /\ Head(s) \in Report /\ Tail(s) \in Seq(Report)
      /\ Head(s) = s[1] /\ 1 \in DOMAIN s /\ DOMAIN Tail(s) = 1..(Len(s) - 1)
      /\ Len(s) \in Nat /\ DOMAIN s = 1..Len(s)
      /\ \A i \in DOMAIN Tail(s) : i + 1 \in DOMAIN s /\ Tail(s)[i] = s[i + 1]
  BY TailFacts, SeqFacts
<1>2. Head(s).chunk \in ChunksIn(s) /\ ChunksIn(Tail(s)) \subseteq ChunksIn(s)
  BY <1>1 DEF ChunksIn
<1>3. ASSUME OneIn(s) PROVE OneIn(Tail(s))
  <2> SUFFICES ASSUME NEW i \in DOMAIN Tail(s), NEW j \in DOMAIN Tail(s),
                      Tail(s)[i].chunk = Tail(s)[j].chunk
               PROVE  i = j
    BY DEF OneIn
  <2>1. i + 1 = j + 1
    BY <1>1, <1>3 DEF OneIn
  <2> QED BY <1>1, <2>1
<1>4. ASSUME OneIn(s), NEW x \in ChunksIn(Tail(s)) PROVE x # Head(s).chunk
  <2>1. PICK i \in DOMAIN Tail(s) : x = Tail(s)[i].chunk
    BY DEF ChunksIn
  <2>2. i + 1 \in DOMAIN s /\ x = s[i + 1].chunk /\ i + 1 # 1
    BY <1>1, <2>1
  <2> QED BY <1>1, <1>4, <2>2 DEF OneIn
<1>5. ASSUME NEW x \in ChunksIn(s), x # Head(s).chunk PROVE x \in ChunksIn(Tail(s))
  <2>1. PICK i \in DOMAIN s : x = s[i].chunk
    BY DEF ChunksIn
  <2>2. i # 1 /\ i - 1 \in DOMAIN Tail(s) /\ (i - 1) + 1 = i
    BY <1>1, <1>5, <2>1
  <2>3. x = Tail(s)[i - 1].chunk
    BY <1>1, <2>1, <2>2
  <2> QED BY <2>2, <2>3 DEF ChunksIn
<1> QED BY <1>1, <1>2, <1>3, <1>4, <1>5

(* A queue of completions with one more.                                   *)
LEMMA ReportsAppend ==
  ASSUME NEW s \in Seq(Report), NEW x \in Report
  PROVE  /\ Append(s, x) \in Seq(Report) /\ ChunksIn(Append(s, x)) = ChunksIn(s) \cup {x.chunk}
         /\ \A i \in DOMAIN Append(s, x) : Append(s, x)[i] = x \/ \E j \in DOMAIN s : Append(s, x)[i] = s[j]
         /\ OneIn(s) /\ x.chunk \notin ChunksIn(s) => OneIn(Append(s, x))
<1>1. /\ Append(s, x) \in Seq(Report) /\ Len(Append(s, x)) = Len(s) + 1
      /\ \A i \in 1..Len(s) : Append(s, x)[i] = s[i]
      /\ Append(s, x)[Len(s) + 1] = x
  BY AppendProperties
<1>2. Len(s) \in Nat /\ DOMAIN s = 1..Len(s) /\ DOMAIN Append(s, x) = 1..(Len(s) + 1)
  BY <1>1, SeqFacts
<1>3. ChunksIn(Append(s, x)) = ChunksIn(s) \cup {x.chunk}
  BY <1>1, <1>2 DEF ChunksIn
<1>4. ASSUME OneIn(s), x.chunk \notin ChunksIn(s), NEW i \in DOMAIN Append(s, x),
             NEW j \in DOMAIN Append(s, x), Append(s, x)[i].chunk = Append(s, x)[j].chunk
      PROVE  i = j
  BY <1>1, <1>2, <1>4 DEF OneIn, ChunksIn
<1>5. ASSUME NEW i \in DOMAIN Append(s, x)
      PROVE  Append(s, x)[i] = x \/ \E j \in DOMAIN s : Append(s, x)[i] = s[j]
  BY <1>1, <1>2
<1> QED BY <1>1, <1>3, <1>4, <1>5 DEF OneIn

(* No completions.                                                         *)
LEMMA ReportsNone == ChunksIn(<<>>) = {} /\ OneIn(<<>>)
BY DEF ChunksIn, OneIn

(* The chunks of a queue of completions.                                   *)
LEMMA ReportsIn ==
  ASSUME NEW s \in Seq(Report)
  PROVE  /\ ChunksIn(s) \subseteq Chunks /\ (ChunksIn(s) = {} <=> s = <<>>)
         /\ \A i \in DOMAIN s : s[i] \in Report /\ s[i].chunk \in ChunksIn(s)
<1>1. /\ Len(s) \in Nat /\ DOMAIN s = 1..Len(s) /\ (s = <<>> <=> Len(s) = 0)
      /\ \A i \in DOMAIN s : s[i] \in Report
  BY SeqFacts
<1>2. ChunksIn(s) \subseteq Chunks
  BY <1>1 DEF ChunksIn, Report
<1>3. ASSUME ChunksIn(s) = {} PROVE Len(s) = 0
  <2> SUFFICES ASSUME Len(s) # 0 PROVE FALSE
    OBVIOUS
  <2>1. 1 \in DOMAIN s
    BY <1>1
  <2> QED BY <1>3, <2>1 DEF ChunksIn
<1> QED BY <1>1, <1>2, <1>3, ReportsNone DEF ChunksIn

(* With one completion a chunk, they are as many as the chunks.            *)
LEMMA ReportsCount ==
  ASSUME NEW s \in Seq(Report), OneIn(s)
  PROVE  IsFiniteSet(ChunksIn(s)) /\ Cardinality(ChunksIn(s)) = Len(s)
<1> DEFINE f == [i \in 1..Len(s) |-> s[i].chunk]
<1>1. Len(s) \in Nat /\ DOMAIN s = 1..Len(s)
  BY SeqFacts
<1>2. f \in Bijection(1..Len(s), ChunksIn(s))
  BY <1>1 DEF OneIn, ChunksIn, Bijection, Injection, IsInjective, Surjection
<1> HIDE DEF f
<1>3. IsFiniteSet(1..Len(s)) /\ Cardinality(1..Len(s)) = Len(s)
  BY <1>1, FS_Interval
<1>4. ExistsBijection(1..Len(s), ChunksIn(s))
  BY <1>2 DEF ExistsBijection
<1> QED BY <1>3, <1>4, FS_Bijection

(* One more read, or copy.                                                 *)
LEMMA ChunksAdd ==
  ASSUME NEW S, NEW x
  PROVE  /\ ChunksOf(S \cup {x}) = ChunksOf(S) \cup {x.chunk}
         /\ OneEach(S) /\ x.chunk \notin ChunksOf(S) => OneEach(S \cup {x})
BY DEF ChunksOf, OneEach

(* One read, or copy, less.                                                *)
LEMMA ChunksRemove ==
  ASSUME NEW S, NEW x \in S, OneEach(S)
  PROVE  /\ ChunksOf(S \ {x}) = ChunksOf(S) \ {x.chunk} /\ x.chunk \in ChunksOf(S)
         /\ OneEach(S \ {x})
BY DEF ChunksOf, OneEach

(* With one read a chunk, they are as many as the chunks.                  *)
LEMMA ChunksCount ==
  ASSUME NEW S, OneEach(S), IsFiniteSet(ChunksOf(S))
  PROVE  IsFiniteSet(S) /\ Cardinality(S) = Cardinality(ChunksOf(S))
<1> DEFINE f == [x \in S |-> x.chunk]
<1>1. f \in Bijection(S, ChunksOf(S))
  BY DEF OneEach, ChunksOf, Bijection, Injection, IsInjective, Surjection
<1> HIDE DEF f
<1>2. ExistsBijection(S, ChunksOf(S))
  BY <1>1 DEF ExistsBijection
<1>3. ExistsBijection(ChunksOf(S), S)
  BY <1>2, Fun_ExistsBijSymmetric
<1> QED BY <1>3, FS_Bijection

(* No reads.                                                               *)
LEMMA ChunksNone == ChunksOf({}) = {} /\ OneEach({})
BY DEF ChunksOf, OneEach

-----------------------------------------------------------------------------
(* Nothing is anywhere at first.                                           *)
LEMMA InitHolds == Init => Inv
<1> SUFFICES ASSUME Init PROVE Inv
  OBVIOUS
<1>1. Len(Work) \in Nat /\ DOMAIN Work = 1..Len(Work)
  BY WorkAssumption, LenProperties
<1>2. TypeOK
  <2>1. TableType
    BY DEF Init, TableType
  <2>2. /\ up \in BOOLEAN /\ cflag \in BOOLEAN /\ cstopped \in BOOLEAN /\ cbroken \in BOOLEAN
        /\ continues \in BOOLEAN /\ drained \in BOOLEAN /\ stopped \in BOOLEAN
    BY Zenon DEF Init
  <2>3. \A S : <<>> \in Seq(S)
    OBVIOUS
  <2>4. attempts \in [Chunks -> Nat] /\ deadline \in [Chunks -> {"unset", "running", "expired"}]
    BY DEF Init
  <2>5. QueueType
    BY <2>2, <2>3, <2>4 DEF Init, QueueType
  <2>6. OutsideType
    BY <2>2, <2>3 DEF Init, OutsideType
  <2>7. quota \in [retries : Nat, fresh : Nat] /\ pc \in Pcs /\ code \in Codes
    BY DEF Init, Pcs, Codes
  <2>8. ControlType
    BY <1>1, <2>2, <2>7 DEF Init, ControlType
  <2> QED BY <2>1, <2>5, <2>6, <2>8 DEF TypeOK
<1>3. /\ Members(pending) = {} /\ Members(waiting) = {} /\ Members(waitingRetries) = {} /\ delayed = {}
      /\ ChunksOf(reads) = {} /\ ChunksIn(events) = {} /\ ChunksOf(copying) = {}
      /\ ChunksOf(reporting) = {} /\ ChunksIn(copyDone) = {} /\ Submitting = {}
  BY MembersNone, ReportsNone, ChunksNone DEF Init, Submitting
<1>4. Control
  BY <1>1 DEF Init, Control, Aborting, Resuming
<1>5. Spread
  <2> DEFINE p == [c \in Chunks |-> "submit"]
  <2>1. p \in [Chunks -> Places] /\ OutsideAt(p) /\ QueuedAt(p)
    BY <1>3 DEF Places, OutsideAt, QueuedAt
  <2>2. OneOutside /\ OneQueued
    BY MembersNone, ReportsNone, ChunksNone DEF Init, OneOutside, OneQueued
  <2> HIDE DEF p
  <2> QED BY <2>1, <2>2 DEF Spread
<1>6. Copies = {} /\ Reads = {} /\ Queued = {} /\ Holding = {}
  BY <1>3 DEF Copies, Reads, Queued, Holding, Parked
<1>7. CopyCount /\ Credit
  BY <1>6, FS_EmptySet DEF CopyCount, Credit, Init
<1>8. SomeLeft /\ Remaining
  BY DEF SomeLeft, Remaining, Init
<1>9. NoFalseSuccess
  BY DEF NoFalseSuccess, Init, None
<1>10. InTable
  BY <1>6 DEF InTable
<1>11. Answering
  BY ChunkFacts DEF Answering, Init, Open, None
<1>12. Landing
  BY DEF Landing, Init
<1>13. Buffered
  BY BuffersAssumption DEF Buffered, Init
<1> QED BY <1>2, <1>4, <1>5, <1>7, <1>8, <1>9, <1>10, <1>11, <1>12, <1>13 DEF Inv, Always, Before

-----------------------------------------------------------------------------
(* What stays when its variables do.                                       *)
LEMMA SpreadSame ==
  ASSUME Spread, UNCHANGED <<pending, delayed, waiting, waitingRetries, reads, events, copying,
                             reporting, copyDone>>,
         ~cflag' => ~cflag /\ Submitting' \subseteq Submitting
  PROVE  Spread'
<1>1. OneOutside' /\ (~cflag' => OneQueued')
  BY DEF Spread, OneOutside, OneQueued, OneEach, OneIn, Distinct
<1>2. PICK p \in [Chunks -> Places] : OutsideAt(p) /\ (~cflag => QueuedAt(p))
  BY DEF Spread
<1>3. OutsideAt(p)'
  BY <1>2 DEF OutsideAt, ChunksOf, ChunksIn
<1>4. ~cflag' => QueuedAt(p)'
  BY <1>2 DEF QueuedAt, Members
<1> QED BY <1>1, <1>2, <1>3, <1>4 DEF Spread

(* The count of copies.                                                    *)
LEMMA CopyCountSame ==
  ASSUME CopyCount, UNCHANGED copies
  PROVE  CopyCount'
BY DEF CopyCount, Copies, ChunksOf, ChunksIn, copies

(* What the plugin has.                                                    *)
LEMMA ReadsSame ==
  ASSUME UNCHANGED <<reads, events>>
  PROVE  Reads' = Reads
BY DEF Reads, ChunksOf, ChunksIn

(* What the copy path has.                                                 *)
LEMMA CopiesSame ==
  ASSUME UNCHANGED <<copying, reporting, copyDone>>
  PROVE  Copies' = Copies
BY DEF Copies, ChunksOf, ChunksIn

(* What is parked.                                                         *)
LEMMA ParkedSame ==
  ASSUME UNCHANGED parked
  PROVE  Parked' = Parked
BY DEF Parked, Members, parked

(* What the worker has, if no other chunk is being submitted.              *)
LEMMA QueuedSame ==
  ASSUME UNCHANGED <<delayed, pending, parked>>, Submitting' \subseteq Submitting
  PROVE  Queued' \subseteq Queued
<1>1. Members(pending)' = Members(pending)
  BY DEF Members
<1> QED BY <1>1, ParkedSame DEF Queued

(* The credit.                                                             *)
LEMMA CreditSame ==
  ASSUME Credit, UNCHANGED <<inflight, live>>, (Reads \cup Parked \cup Submitting)' = Reads \cup Parked \cup Submitting
  PROVE  Credit'
<1>1. Holding' = Holding
  BY DEF Holding
<1> QED BY <1>1 DEF Credit

(* The table, if no chunk enters a queue.                                  *)
LEMMA InTableSame ==
  ASSUME InTable, UNCHANGED <<table, cbroken, taken>>, Reads' \subseteq Reads,
         (Queued \cup Copies)' \subseteq Queued \cup Copies
  PROVE  InTable'
<1>1. \A c : Open(c)' <=> Open(c)
  BY DEF Open, table
<1> QED BY <1>1 DEF InTable, table

(* What is left of a workload.                                             *)
LEMMA RemainingSame ==
  ASSUME UNCHANGED table, Aborting => Aborting'
  PROVE  (Remaining => Remaining') /\ (SomeLeft => SomeLeft')
<1>1. \A w : Outstanding(w)' = Outstanding(w)
  BY DEF Outstanding, Open, table
<1> QED BY <1>1 DEF Remaining, SomeLeft, table

(* The answers, while more chunks land.                                    *)
LEMMA AnsweringSame ==
  ASSUME Answering, UNCHANGED <<table, taken>>, landed \subseteq landed'
  PROVE  Answering'
BY DEF Answering, Open, table

(* The errors and the reports.                                             *)
LEMMA NoFalseSame ==
  ASSUME NoFalseSuccess, UNCHANGED <<ferr, copies>>, landed \subseteq landed'
  PROVE  NoFalseSuccess'
BY DEF NoFalseSuccess, copies

(* What the reads write into, while more buffers are retired.              *)
LEMMA LandingSame ==
  ASSUME Landing, UNCHANGED <<live, staging, reads, events>>, retired \subseteq retired', landed \subseteq landed'
  PROVE  Landing'
BY DEF Landing

(* The buffers.                                                            *)
LEMMA BufferedSame ==
  ASSUME Buffered, UNCHANGED <<table, pool, copying>>
  PROVE  Buffered'
BY DEF Buffered, Open, table, pool

(* The thread goes on, and nothing else changes.                           *)
LEMMA Steered ==
  ASSUME Inv, UNCHANGED <<window, table, retry, parked, copies, pool, client, world>>,
         ControlType', Control', cflag \/ Submitting' = Submitting, Aborting => Aborting'
  PROVE  Inv'
<1>1. TypeOK'
  BY DEF Inv, Always, TypeOK, TableType, QueueType, OutsideType, window, table, retry, parked, copies,
         pool, client
<1>2. Spread' /\ CopyCount' /\ SomeLeft' /\ NoFalseSuccess'
  BY SpreadSame, CopyCountSame, RemainingSame, NoFalseSame
     DEF Inv, Always, window, table, retry, parked, copies, pool, client, world
<1>3. ASSUME ~cflag' PROVE Before'
  <2>1. ~cflag /\ Submitting' = Submitting /\ Before
    BY <1>3 DEF client, Inv
  <2>2. Reads' = Reads /\ Copies' = Copies /\ Parked' = Parked /\ Queued' \subseteq Queued
    BY <2>1, ReadsSame, CopiesSame, ParkedSame, QueuedSame DEF copies, client, window, retry
  <2>3. InTable' /\ Credit'
    BY <2>1, <2>2, InTableSame, CreditSame DEF Before, table, window, client, world
  <2>4. Remaining' /\ Answering'
    BY <2>1, RemainingSame, AnsweringSame DEF Before, world
  <2>5. Landing' /\ Buffered'
    BY <2>1, LandingSame, BufferedSame DEF Before, table, client, copies, pool, world
  <2> QED BY <2>3, <2>4, <2>5 DEF Before
<1> QED BY <1>1, <1>2, <1>3 DEF Inv, Always

-----------------------------------------------------------------------------
(* The workloads taken are a prefix of those to come.                      *)
LEMMA TakenFacts ==
  ASSUME TypeOK
  PROVE  Len(Work) \in Nat /\ DOMAIN Work = 1..Len(Work) /\ taken \in Nat /\ taken <= Len(Work)
<1>1. Len(Work) \in Nat /\ DOMAIN Work = 1..Len(Work)
  BY WorkAssumption, LenProperties
<1> QED BY <1>1 DEF TypeOK, ControlType

-----------------------------------------------------------------------------
(* A chunk ends: what this does to the table, whatever the client does.    *)
LEMMA EndsTable ==
  ASSUME TypeOK, SomeLeft, NoFalseSuccess, ~Aborting, NEW c \in Chunks, c[1] \in live,
         NEW r \in Codes, NEW slot, EndChunk(c, r, slot)
  PROVE  /\ TableType' /\ live' \subseteq live /\ inflight' \in Nat
         /\ \A w \in live' : remaining'[w] > 0
         /\ \A w \in DOMAIN Work, f \in Files : ferr'[w][f] # "Success"
         /\ free' = free \cup ({staging[c]} \ {None}) /\ free' \subseteq Buffers
         /\ staging' = [staging EXCEPT ![c] = None]
<1> DEFINE w == c[1]
<1>1. w \in DOMAIN Work /\ File(c) \in Files /\ None \notin Buffers
  BY ChunkFacts, BuffersAssumption
<1>2. PICK errs : errs = IF r = "Success" \/ ferr[w][File(c)] # None THEN ferr[w]
                         ELSE [ferr[w] EXCEPT ![File(c)] = r]
  OBVIOUS
<1>3. PICK ans : ans = IF r = "Success" THEN Answered(answer, {c}, r) ELSE answer
  OBVIOUS
<1>4. /\ ferr' = [ferr EXCEPT ![w] = errs]
      /\ failed' = IF r = "Success" THEN failed \ {c} ELSE failed \cup {c}
      /\ remaining' = [remaining EXCEPT ![w] = @ - 1]
      /\ answer' = IF remaining[w] = 1 THEN Failed(w, errs, ans) ELSE ans
      /\ live' = IF remaining[w] = 1 THEN live \ {w} ELSE live
      /\ free' = free \cup ({staging[c]} \ {None}) /\ staging' = [staging EXCEPT ![c] = None]
      /\ SlotBack(slot)
  BY <1>2, <1>3 DEF EndChunk, Release
<1>5. /\ live \subseteq DOMAIN Work /\ remaining \in [DOMAIN Work -> Nat]
      /\ ferr \in [DOMAIN Work -> [Files -> Codes \cup {None}]]
      /\ failed \subseteq Chunks /\ staging \in [Chunks -> Buffers \cup {None}]
      /\ answer \in [Chunks -> Codes \cup {None}] /\ inflight \in Nat /\ free \subseteq Buffers
  BY DEF TypeOK, TableType, QueueType, OutsideType
<1>6. remaining[w] > 0 /\ remaining[w] \in Nat
  BY <1>1, <1>5 DEF SomeLeft
<1>7. errs \in [Files -> Codes \cup {None}] /\ \A f \in Files : errs[f] # "Success"
  BY <1>1, <1>2, <1>5 DEF NoFalseSuccess
<1>8. ans \in [Chunks -> Codes \cup {None}]
  BY <1>3, <1>5 DEF Answered
<1>9. answer' \in [Chunks -> Codes \cup {None}]
  <2>1. Failed(w, errs, ans) \in [Chunks -> Codes \cup {None}]
    BY <1>7, <1>8, ChunkFacts DEF Failed
  <2> QED BY <1>4, <1>8, <2>1
<1>10. remaining' \in [DOMAIN Work -> Nat] /\ \A v \in live' : remaining'[v] > 0
  BY <1>1, <1>4, <1>5, <1>6 DEF SomeLeft
<1>11. /\ ferr' \in [DOMAIN Work -> [Files -> Codes \cup {None}]]
       /\ \A v \in DOMAIN Work, f \in Files : ferr'[v][f] # "Success"
  BY <1>1, <1>4, <1>5, <1>7 DEF NoFalseSuccess
<1>12. live' \subseteq live /\ failed' \subseteq Chunks /\ free' \subseteq Buffers
       /\ staging' \in [Chunks -> Buffers \cup {None}]
  BY <1>4, <1>5
<1>13. inflight' \in Nat
  BY <1>4, <1>5 DEF SlotBack, Complete
<1> QED BY <1>4, <1>5, <1>9, <1>10, <1>11, <1>12, <1>13 DEF TableType

(* Before the client is stopped, a chunk that ends was open, and the       *)
(* others of its workload stay so; the last one answers the workload.      *)
LEMMA EndsBefore ==
  ASSUME TypeOK, SomeLeft, NoFalseSuccess, ~Aborting, NEW c \in Chunks, c[1] \in live,
         NEW r \in Codes, NEW slot, EndChunk(c, r, slot),
         live \subseteq 1..taken, Remaining, Answering, Buffered, Open(c), r = "Success" => c \in landed,
         UNCHANGED <<landed, taken, retired, copying>>
  PROVE  /\ \A x \in Chunks : x # c /\ x[1] \in live /\ Open(x) => x[1] \in live' /\ Open(x)'
         /\ \A v \in live' : IsFiniteSet(Outstanding(v)') /\ remaining'[v] = Cardinality(Outstanding(v)')
         /\ Answering' /\ Buffered'
<1> DEFINE w == c[1]
<1>1. w \in DOMAIN Work /\ File(c) \in Files /\ None \notin Buffers
  BY ChunkFacts, BuffersAssumption
<1>2. PICK errs : errs = IF r = "Success" \/ ferr[w][File(c)] # None THEN ferr[w]
                         ELSE [ferr[w] EXCEPT ![File(c)] = r]
  OBVIOUS
<1>3. PICK ans : ans = IF r = "Success" THEN Answered(answer, {c}, r) ELSE answer
  OBVIOUS
<1>4. /\ ferr' = [ferr EXCEPT ![w] = errs]
      /\ failed' = IF r = "Success" THEN failed \ {c} ELSE failed \cup {c}
      /\ remaining' = [remaining EXCEPT ![w] = @ - 1]
      /\ answer' = IF remaining[w] = 1 THEN Failed(w, errs, ans) ELSE ans
      /\ live' = IF remaining[w] = 1 THEN live \ {w} ELSE live
  BY <1>2, <1>3 DEF EndChunk
<1>5. /\ live \subseteq DOMAIN Work /\ remaining \in [DOMAIN Work -> Nat]
      /\ ferr \in [DOMAIN Work -> [Files -> Codes \cup {None}]]
      /\ failed \subseteq Chunks /\ staging \in [Chunks -> Buffers \cup {None}]
      /\ answer \in [Chunks -> Codes \cup {None}] /\ free \subseteq Buffers
  BY DEF TypeOK, TableType, OutsideType
<1>6. remaining[w] > 0 /\ remaining[w] \in Nat
  BY <1>1, <1>5 DEF SomeLeft
<1>7. /\ errs \in [Files -> Codes \cup {None}] /\ \A f \in Files : errs[f] # "Success"
      /\ \A f \in Files : ferr[w][f] # None => errs[f] # None
      /\ r # "Success" => errs[File(c)] # None
  BY <1>1, <1>2, <1>5 DEF NoFalseSuccess, Codes, None
<1>8. /\ \A x \in Chunks : x # c => ans[x] = answer[x]
      /\ ans[c] = IF r = "Success" THEN r ELSE None
  BY <1>3, <1>5 DEF Answered, Open
<1>9. ASSUME NEW x \in Chunks, x # c PROVE x \in failed' <=> x \in failed
  BY <1>4, <1>9
<1>10. c \in Outstanding(w) /\ IsFiniteSet(Outstanding(w)) /\ remaining[w] = Cardinality(Outstanding(w))
  BY DEF Remaining, Outstanding, Of
<1>11. ASSUME NEW x \in Chunks, x[1] # w \/ remaining[w] # 1 PROVE answer'[x] = ans[x]
  BY <1>4, <1>11 DEF Failed, Of
<1>12. ASSUME NEW x \in Chunks, x[1] = w, remaining[w] = 1
       PROVE  answer'[x] = IF ans[x] = None /\ errs[File(x)] # None THEN errs[File(x)] ELSE ans[x]
  BY <1>4, <1>12 DEF Failed, Of
<1>13. remaining[w] = 1 => \A x \in Chunks : x[1] = w /\ Open(x) => x = c
  <2> SUFFICES ASSUME remaining[w] = 1, NEW x \in Chunks, x[1] = w, Open(x) PROVE x = c
    OBVIOUS
  <2>1. PICK y : Outstanding(w) = {y}
    BY <1>10, FS_Singleton
  <2>2. x \in Outstanding(w)
    BY DEF Outstanding, Of
  <2> QED BY <1>10, <2>1, <2>2
<1>14. ASSUME NEW x \in Chunks, x # c, x[1] \in live, Open(x) PROVE x[1] \in live' /\ Open(x)'
  <2>1. x[1] # w \/ remaining[w] # 1
    BY <1>13, <1>14
  <2>2. answer'[x] = None /\ x \notin failed'
    BY <1>8, <1>9, <1>11, <1>14, <2>1 DEF Open
  <2>3. x[1] \in live'
    BY <1>4, <1>14, <2>1
  <2> QED BY <2>2, <2>3 DEF Open
<1>15. remaining[w] # 1 => ~(c \notin failed' /\ answer'[c] = None)
  BY <1>4, <1>8, <1>11 DEF Codes, None
<1>16. ASSUME NEW v \in live'
       PROVE  IsFiniteSet(Outstanding(v)') /\ remaining'[v] = Cardinality(Outstanding(v)')
  <2>1. v \in live /\ IsFiniteSet(Outstanding(v)) /\ remaining[v] = Cardinality(Outstanding(v))
    BY <1>4, <1>16 DEF Remaining
  <2>2. ASSUME NEW x \in Chunks, x # c, x[1] = v PROVE Open(x)' <=> Open(x)
    <3>1. x[1] # w \/ remaining[w] # 1
      BY <1>4, <1>16, <2>2
    <3> QED BY <1>8, <1>9, <1>11, <2>2, <3>1 DEF Open
  <2>3. CASE v # w
    <3>1. Outstanding(v)' = Outstanding(v)
      BY <2>2, <2>3 DEF Outstanding, Of
    <3>2. remaining'[v] = remaining[v]
      BY <1>4, <1>5, <2>1, <2>3
    <3> QED BY <2>1, <3>1, <3>2
  <2>4. CASE v = w
    <3>1. remaining[w] # 1
      BY <1>4, <1>16, <2>4
    <3>2. Outstanding(v)' = Outstanding(v) \ {c}
      BY <1>15, <2>2, <2>4, <3>1 DEF Outstanding, Of, Open
    <3>3. remaining'[v] = remaining[v] - 1
      BY <1>1, <1>4, <1>5, <2>4
    <3>4. IsFiniteSet(Outstanding(v) \ {c}) /\ Cardinality(Outstanding(v) \ {c}) = Cardinality(Outstanding(v)) - 1
      BY <1>10, <2>1, <2>4, FS_RemoveElement
    <3> QED BY <2>1, <3>2, <3>3, <3>4
  <2> QED BY <2>3, <2>4
<1>17. ASSUME NEW x \in Chunks, x[1] \in live, x[1] \notin live' PROVE answer'[x] # None
  <2>1. x[1] = w /\ remaining[w] = 1
    BY <1>4, <1>17
  <2>2. answer'[x] = IF ans[x] = None /\ errs[File(x)] # None THEN errs[File(x)] ELSE ans[x]
    BY <1>12, <2>1
  <2>3. CASE x = c
    BY <1>7, <1>8, <2>2, <2>3 DEF None
  <2>4. CASE x # c
    <3>1. ~Open(x) /\ ans[x] = answer[x] /\ File(x) \in Files
      BY <1>8, <1>13, <2>1, <2>4, ChunkFacts
    <3>2. x \in failed => errs[File(x)] # None
      BY <1>7, <2>1, <3>1 DEF Answering
    <3> QED BY <2>2, <3>1, <3>2 DEF Open
  <2> QED BY <2>3, <2>4
<1>18. ASSUME NEW x \in Chunks, answer'[x] = "Success" PROVE x \in landed
  <2>1. ans[x] = "Success"
    BY <1>7, <1>11, <1>12, <1>18, ChunkFacts
  <2>2. CASE x = c
    BY <1>8, <2>1, <2>2 DEF None
  <2>3. CASE x # c
    BY <1>8, <2>1, <2>3 DEF Answering
  <2> QED BY <2>2, <2>3
<1>19. Answering'
  <2> SUFFICES ASSUME NEW x \in Chunks
               PROVE  /\ x[1] > taken => Open(x)'
                      /\ x[1] <= taken /\ x[1] \notin live' => answer'[x] # None
                      /\ x[1] \in live' /\ x \in failed' => ferr'[x[1]][File(x)] # None
                      /\ answer'[x] = "Success" => x \in landed
    BY DEF Answering
  <2>1. ASSUME x[1] > taken PROVE Open(x)'
    <3>1. Open(x) /\ x[1] # w
      BY <2>1, TakenFacts, ChunkFacts DEF Answering
    <3> QED BY <1>8, <1>9, <1>11, <3>1 DEF Open
  <2>2. ASSUME x[1] <= taken, x[1] \notin live' PROVE answer'[x] # None
    <3>1. CASE x[1] \in live
      BY <1>17, <2>2, <3>1
    <3>2. CASE x[1] \notin live
      <4>1. answer[x] # None /\ x # c /\ x[1] # w
        BY <2>2, <3>2 DEF Answering
      <4> QED BY <1>8, <1>11, <4>1
    <3> QED BY <3>1, <3>2
  <2>3. ASSUME x[1] \in live', x \in failed' PROVE ferr'[x[1]][File(x)] # None
    <3>1. x[1] \in live /\ File(x) \in Files /\ x[1] \in DOMAIN Work
      BY <1>4, <2>3, ChunkFacts
    <3>2. CASE x = c
      <4>1. r # "Success"
        BY <1>4, <2>3, <3>2
      <4> QED BY <1>1, <1>4, <1>5, <1>7, <3>2, <4>1
    <3>3. CASE x # c
      <4>1. ferr[x[1]][File(x)] # None
        BY <1>9, <2>3, <3>1, <3>3 DEF Answering
      <4> QED BY <1>1, <1>4, <1>5, <1>7, <3>1, <4>1
    <3> QED BY <3>2, <3>3
  <2> QED BY <1>18, <2>1, <2>2, <2>3
<1>20. Buffered'
  <2>1. free' = free \cup ({staging[c]} \ {None}) /\ staging' = [staging EXCEPT ![c] = None]
    BY DEF EndChunk, Release
  <2>2. \A x \in Chunks : staging'[x] = IF x = c THEN None ELSE staging[x]
    BY <1>5, <2>1
  <2>3. free' \cap retired' = {}
    BY <2>1 DEF Buffered
  <2>4. ASSUME NEW x \in Chunks, staging'[x] # None
        PROVE  x[1] \in live' /\ Open(x)' /\ staging'[x] \notin free' \cup retired'
    <3>1. x # c /\ staging'[x] = staging[x]
      BY <2>2, <2>4
    <3>2. x[1] \in live /\ Open(x) /\ staging[x] \notin free \cup retired /\ staging[x] # staging[c]
      BY <2>4, <3>1 DEF Buffered
    <3> QED BY <1>14, <2>1, <3>1, <3>2
  <2>5. ASSUME NEW x \in Chunks, NEW y \in Chunks, staging'[x] = staging'[y], staging'[x] # None PROVE x = y
    BY <2>2, <2>5 DEF Buffered
  <2>6. ASSUME NEW cp \in copying'
        PROVE  /\ cp.buf \in Buffers /\ cp.buf \notin free' \cup retired'
               /\ \A x \in Chunks : staging'[x] # cp.buf
    BY <1>1, <2>1, <2>2, <2>6 DEF Buffered
  <2>7. \A x, y \in copying' : x.buf = y.buf => x = y
    BY DEF Buffered
  <2>8. ASSUME NEW b \in Buffers
        PROVE  \/ b \in free' \cup retired'
               \/ \E x \in Chunks : staging'[x] = b
               \/ \E cp \in copying' : cp.buf = b
    BY <1>1, <2>1, <2>2, <2>8 DEF Buffered
  <2> QED BY <2>3, <2>4, <2>5, <2>6, <2>7, <2>8 DEF Buffered
<1> QED BY <1>14, <1>16, <1>19, <1>20

-----------------------------------------------------------------------------
(* Steps of the thread that only choose what comes next.                   *)
LEMMA NotSubmitting ==
  ASSUME pc # "submit"
  PROVE  Submitting = {}
BY DEF Submitting

(* Where drain_batch returns to.                                           *)
LEMMA CallerFacts ==
  ASSUME TypeOK
  PROVE  Caller \in {"loop", "idle", "prepump"}
<1>1. ret \in {"loop", "tail", "drain"}
  BY DEF TypeOK, ControlType
<1> QED BY <1>1 DEF Caller

(* With the client up, a responder that has nothing to give while credit   *)
(* is taken means that chunks are parked.                                  *)
LEMMA NothingHeld ==
  ASSUME Inv, ~cflag, pc # "submit", reads = {}, events = <<>>, Parked = {}
  PROVE  inflight = 0
<1>1. Holding = {}
  BY NotSubmitting, ChunksNone, ReportsNone DEF Holding, Reads
<1> QED BY <1>1, FS_EmptySet DEF Inv, Before, Credit

(* The steps that only choose what comes next.                             *)
LEMMA SteeringStep ==
  ASSUME Inv, \/ Loop \/ Drain \/ EndPrePump \/ Turn \/ EndCopies \/ EndResume \/ HandleBroken
              \/ Exit \/ Rest
  PROVE  Inv'
<1> USE DEF Inv, Always
<1>1. CASE Rest
  <2>1. UNCHANGED <<window, table, retry, parked, copies, pool, client, world>>
        /\ UNCHANGED control
    BY <1>1 DEF Rest, vars
  <2>2. ControlType' /\ Submitting' = Submitting /\ (Aborting => Aborting')
    BY <2>1 DEF TypeOK, ControlType, control, world, Submitting, Aborting
  <2>3. Reads' = Reads /\ Parked' = Parked
    BY <2>1, ReadsSame, ParkedSame DEF client
  <2>4. Control'
    BY <2>1, <2>3 DEF Control, control, world, window, retry, parked, copies, client, table, Aborting, Resuming
  <2> QED BY <2>1, <2>2, <2>4, Steered
<1>2. ASSUME UNCHANGED <<window, table, retry, parked, copies, pool, client, world>>,
             ControlType', Control', pc # "submit", pc' # "submit", ~Aborting
      PROVE  Inv'
  <2>1. Submitting' = Submitting
    BY <1>2, NotSubmitting DEF Submitting
  <2> QED BY <1>2, <2>1, Steered
<1>3. ASSUME UNCHANGED <<window, table, retry, parked, copies, pool, client, world>>
      PROVE  Reads' = Reads /\ Parked' = Parked
  BY <1>3, ReadsSame, ParkedSame DEF client
<1>4. Caller \in {"loop", "idle", "prepump"}
  BY CallerFacts
<1>5. CASE Loop \/ Drain \/ EndPrePump \/ Exit \/ EndResume
  <2>1. /\ UNCHANGED <<window, table, retry, parked, copies, pool, client, world>>
        /\ UNCHANGED <<back, cur, quota, code, continues, drained>>
        /\ ret' \in {"loop", "tail", "drain"} /\ pc # "submit" /\ ~Aborting
        /\ pc' \in {"loop", "idle", "prepump", "pump", "turn", "wait", "exit"}
    BY <1>4, <1>5 DEF Loop, Drain, EndPrePump, Exit, EndResume, Aborting, TypeOK, ControlType
  <2>2. pc' = "wait" => inflight' > 0
    BY <1>4, <1>5 DEF Loop, Drain, EndPrePump, Exit, EndResume, window, TypeOK, QueueType
  <2>3. pc' = "exit" => copiesIssued' = 0
    BY <1>4, <1>5 DEF Loop, Drain, EndPrePump, Exit, EndResume, copies
  <2>4. ControlType'
    BY <2>1 DEF TypeOK, ControlType, world, Pcs
  <2>5. Control'
    BY <2>1, <2>2, <2>3 DEF Control, world, table, client, Aborting, Resuming
  <2> QED BY <1>2, <2>1, <2>4, <2>5
<1>6. CASE Turn
  <2>1. /\ UNCHANGED <<window, table, retry, parked, copies, pool, client, world>>
        /\ UNCHANGED <<ret, back, cur, quota, drained>> /\ pc = "turn"
        /\ \/ stopped /\ code' = "FinishedError" /\ continues' = FALSE /\ pc' = "abort"
           \/ pc' = "copies" /\ UNCHANGED <<code, continues>>
    BY <1>6 DEF Turn
  <2>2. continues' \in BOOLEAN /\ code' \in Codes /\ pc' \in Pcs
    BY <2>1, Zenon DEF TypeOK, ControlType, Codes, Pcs
  <2>3. ControlType'
    BY <2>1, <2>2 DEF TypeOK, ControlType, world
  <2>4. Control'
    BY <2>1 DEF Control, world, table, client, Aborting, Resuming
  <2> QED BY <1>2, <2>1, <2>3, <2>4 DEF Aborting
<1>7. CASE EndCopies
  <2>1. /\ UNCHANGED <<window, table, retry, parked, copies, pool, client, world>>
        /\ UNCHANGED <<ret, back, cur, code, continues, drained>> /\ pc = "copies" /\ pc' = "resume"
        /\ quota' = [retries |-> Len(waitingRetries), fresh |-> Len(waiting)]
    BY <1>7 DEF EndCopies
  <2>2. Len(waitingRetries) \in Nat /\ Len(waiting) \in Nat
    BY SeqFacts DEF TypeOK, QueueType
  <2>3. ControlType'
    BY <2>1, <2>2 DEF TypeOK, ControlType, Pcs, world
  <2>4. Control'
    BY <2>1, <2>2 DEF Control, world, table, client, parked, Aborting, Resuming
  <2> QED BY <1>2, <2>1, <2>3, <2>4 DEF Aborting
<1>8. CASE HandleBroken
  <2>1. /\ UNCHANGED <<window, table, retry, parked, copies, pool, client, world>>
        /\ UNCHANGED <<ret, back, cur, quota, drained>> /\ pc = "wait" /\ pc' = "abort"
        /\ code' = "UnknownError" /\ continues' = TRUE
    BY <1>8 DEF HandleBroken
  <2>2. continues' \in BOOLEAN /\ code' \in Codes /\ pc' \in Pcs
    BY <2>1, Zenon DEF TypeOK, ControlType, Codes, Pcs
  <2>3. ControlType'
    BY <2>1, <2>2 DEF TypeOK, ControlType, world
  <2>4. Control'
    BY <2>1 DEF Control, world, table, client, Aborting, Resuming
  <2> QED BY <1>2, <2>1, <2>3, <2>4 DEF Aborting
<1> QED BY <1>1, <1>5, <1>6, <1>7, <1>8

(* An ASSERT of submit fires only once the client is being stopped.        *)
LEMMA SubmitThrowsStep ==
  ASSUME Inv, SubmitThrows
  PROVE  Inv'
<1>1. /\ UNCHANGED <<window, table, retry, parked, copies, pool, client, world>>
      /\ UNCHANGED <<ret, back, cur, quota, code, continues, drained>>
      /\ pc = "submit" /\ pc' = "idle" /\ ~Known(cur)
  BY DEF SubmitThrows
<1>2. cflag
  <2> SUFFICES ASSUME ~cflag PROVE FALSE
    OBVIOUS
  <2>1. cur \in Submitting
    BY <1>1 DEF Submitting, Inv, Always, Control
  <2>2. Known(cur)
    BY <2>1 DEF Inv, Before, InTable, Queued, Known, Open
  <2> QED BY <1>1, <2>2
<1>3. ControlType'
  BY <1>1 DEF Inv, Always, TypeOK, ControlType, world, Pcs
<1>4. Control'
  BY <1>1 DEF Inv, Always, Control, world, table, client, Aborting, Resuming
<1> QED BY <1>1, <1>2, <1>3, <1>4, Steered DEF Aborting

(* A drained responder ends the load only if the client is being stopped.  *)
LEMMA HandleMarkerStep ==
  ASSUME Inv, HandleMarker
  PROVE  Inv'
<1>1. /\ UNCHANGED <<window, table, retry, parked, copies, pool, client, world>>
      /\ UNCHANGED <<ret, back, cur, quota, drained>> /\ pc = "wait"
      /\ \/ pc' = Caller /\ UNCHANGED <<code, continues>>
         \/ ~HoldingWork /\ code' = "FinishedError" /\ continues' = TRUE /\ pc' = "abort"
  BY DEF HandleMarker
<1>2. pc' = "abort" => cflag
  <2> SUFFICES ASSUME pc' = "abort", ~cflag PROVE FALSE
    OBVIOUS
  <2>1. ~HoldingWork
    BY <1>1, CallerFacts DEF Inv, Always
  <2>2. Parked = {}
    BY <2>1, MembersNone DEF HoldingWork, Parked
  <2>3. reads = {} /\ events = <<>>
    BY DEF HandleMarker, Marker, Inv, Always, Control
  <2>4. inflight = 0
    BY <1>1, <2>2, <2>3, NothingHeld
  <2> QED BY <1>1, <2>4 DEF Inv, Always, Control
<1>3. continues' \in BOOLEAN /\ code' \in Codes /\ pc' \in Pcs
  BY <1>1, CallerFacts, Zenon DEF Inv, Always, TypeOK, ControlType, Codes, Pcs
<1>4. ControlType'
  BY <1>1, <1>3 DEF Inv, Always, TypeOK, ControlType, world
<1>5. pc' \in {"loop", "idle", "prepump", "abort"} /\ (pc' = "abort" => code' = "FinishedError")
  BY <1>1, CallerFacts DEF Inv, Always
<1>6. Control'
  BY <1>1, <1>2, <1>5 DEF Inv, Always, Control, world, table, client, Aborting, Resuming
<1>7. Submitting' = Submitting
  BY <1>1, <1>5 DEF Submitting
<1> QED BY <1>1, <1>4, <1>6, <1>7, Steered DEF Aborting

(* quiesce_reads ends with every read back unless the client is stopping   *)
(* or broken.                                                              *)
LEMMA EndQuiesceReadsStep ==
  ASSUME Inv, EndQuiesceReads
  PROVE  Inv'
<1>1. /\ UNCHANGED <<window, table, retry, parked, copies, pool, client, world>>
      /\ UNCHANGED <<ret, back, cur, quota, code, continues>>
      /\ pc = "quiesceReads" /\ pc' = "quiesceCopies"
      /\ \/ inflight = 0 /\ drained' = TRUE
         \/ inflight > 0 /\ NothingToGive /\ drained' = FALSE
  BY DEF EndQuiesceReads
<1>2. drained' \in BOOLEAN
  BY <1>1, Zenon
<1>3. ControlType'
  BY <1>1, <1>2 DEF Inv, Always, TypeOK, ControlType, world, Pcs
<1>4. delayed = {} /\ pending = <<>> /\ Parked = {} /\ code # "Success"
  BY <1>1 DEF Inv, Always, Control, Aborting
<1>5. ASSUME ~cflag, ~cbroken PROVE Reads = {}
  <2>1. IsFiniteSet(Holding) /\ inflight = Cardinality(Holding)
    BY <1>5 DEF Inv, Before, Credit
  <2>2. ASSUME inflight > 0, NothingToGive PROVE FALSE
    <3>1. reads = {} /\ events = <<>>
      BY <1>5, <2>2 DEF NothingToGive, Marker, Inv, Always, Control
    <3>2. inflight = 0
      BY <1>1, <1>4, <1>5, <3>1, NothingHeld
    <3> QED BY <2>2, <3>2
  <2>3. Holding = {}
    BY <1>1, <2>1, <2>2, FS_EmptySet
  <2>4. \A c \in Reads : c[1] \in live
    BY <1>5 DEF Inv, Before, InTable
  <2> QED BY <2>3, <2>4 DEF Holding
<1>6. Reads' = Reads /\ Parked' = Parked
  BY <1>1, ReadsSame, ParkedSame DEF client
<1>7. drained' => inflight = 0
  BY <1>1
<1>8. Control'
  BY <1>1, <1>4, <1>5, <1>6, <1>7 DEF Inv, Always, Control, world, window, retry, table, client, Aborting, Resuming
<1>9. Submitting' = Submitting
  BY <1>1 DEF Submitting
<1> QED BY <1>1, <1>3, <1>8, <1>9, Steered DEF Aborting

-----------------------------------------------------------------------------
(* Chunks C go to one place n, and out of wherever they were.              *)
LEMMA Sites ==
  ASSUME TypeOK
  PROVE  /\ ChunksOf(reads) \subseteq Chunks /\ ChunksIn(events) \subseteq Chunks
         /\ ChunksOf(copying) \subseteq Chunks /\ ChunksOf(reporting) \subseteq Chunks
         /\ ChunksIn(copyDone) \subseteq Chunks /\ Submitting \subseteq Chunks
         /\ delayed \subseteq Chunks /\ Members(pending) \subseteq Chunks
         /\ Members(waiting) \subseteq Chunks /\ Members(waitingRetries) \subseteq Chunks
<1>1. /\ pending \in Seq(Chunks) /\ waiting \in Seq(Chunks) /\ waitingRetries \in Seq(Chunks)
      /\ delayed \subseteq Chunks /\ reads \subseteq Read /\ copying \subseteq Copy
      /\ reporting \subseteq Report /\ events \in Seq(Report) /\ copyDone \in Seq(Report)
  BY DEF TypeOK, QueueType, OutsideType
<1>2. Members(pending) \subseteq Chunks /\ Members(waiting) \subseteq Chunks /\ Members(waitingRetries) \subseteq Chunks
  BY <1>1, MembersIn
<1>3. ChunksIn(events) \subseteq Chunks /\ ChunksIn(copyDone) \subseteq Chunks
  BY <1>1, ReportsIn
<1>4. ChunksOf(reads) \subseteq Chunks /\ ChunksOf(copying) \subseteq Chunks /\ ChunksOf(reporting) \subseteq Chunks
  BY <1>1 DEF ChunksOf, Read, Copy, Report
<1> QED BY <1>1, <1>2, <1>3, <1>4 DEF Submitting

(* If only C moves, and to n, every chunk is in one place still.           *)
LEMMA Moved ==
  ASSUME TypeOK, Spread, NEW C \in SUBSET Chunks, NEW n \in Places,
         OneOutside', ~cflag' => ~cflag /\ OneQueued',
         ChunksOf(reads)' \subseteq ChunksOf(reads) \cup C /\ (ChunksOf(reads)' \cap C # {} => n = "read"),
         ChunksIn(events)' \subseteq ChunksIn(events) \cup C /\ (ChunksIn(events)' \cap C # {} => n = "event"),
         ChunksOf(copying)' \subseteq ChunksOf(copying) \cup C /\ (ChunksOf(copying)' \cap C # {} => n = "copying"),
         ChunksOf(reporting)' \subseteq ChunksOf(reporting) \cup C /\ (ChunksOf(reporting)' \cap C # {} => n = "reporting"),
         ChunksIn(copyDone)' \subseteq ChunksIn(copyDone) \cup C /\ (ChunksIn(copyDone)' \cap C # {} => n = "done"),
         ~cflag' => /\ Submitting' \subseteq Submitting \cup C /\ (Submitting' \cap C # {} => n = "submit")
                    /\ delayed' \subseteq delayed \cup C /\ (delayed' \cap C # {} => n = "delayed")
                    /\ Members(pending)' \subseteq Members(pending) \cup C /\ (Members(pending)' \cap C # {} => n = "pending")
                    /\ Members(waiting)' \subseteq Members(waiting) \cup C /\ (Members(waiting)' \cap C # {} => n = "waiting")
                    /\ Members(waitingRetries)' \subseteq Members(waitingRetries) \cup C /\ (Members(waitingRetries)' \cap C # {} => n = "retries")
  PROVE  Spread'
<1>1. PICK p \in [Chunks -> Places] : OutsideAt(p) /\ (~cflag => QueuedAt(p))
  BY DEF Spread
<1>2. PICK q : q = [c \in Chunks |-> IF c \in C THEN n ELSE p[c]]
  OBVIOUS
<1>3. q \in [Chunks -> Places]
  BY <1>1, <1>2
<1>4. OutsideAt(q)'
  <2>1. \A c \in ChunksOf(reads)' : q[c] = "read"
    BY <1>1, <1>2, Sites DEF OutsideAt
  <2>2. \A c \in ChunksIn(events)' : q[c] = "event"
    BY <1>1, <1>2, Sites DEF OutsideAt
  <2>3. \A c \in ChunksOf(copying)' : q[c] = "copying"
    BY <1>1, <1>2, Sites DEF OutsideAt
  <2>4. \A c \in ChunksOf(reporting)' : q[c] = "reporting"
    BY <1>1, <1>2, Sites DEF OutsideAt
  <2>5. \A c \in ChunksIn(copyDone)' : q[c] = "done"
    BY <1>1, <1>2, Sites DEF OutsideAt
  <2> QED BY <2>1, <2>2, <2>3, <2>4, <2>5 DEF OutsideAt
<1>5. ASSUME ~cflag' PROVE QueuedAt(q)'
  <2>1. \A c \in Submitting' : q[c] = "submit"
    BY <1>1, <1>2, <1>5, Sites DEF QueuedAt
  <2>2. \A c \in delayed' : q[c] = "delayed"
    BY <1>1, <1>2, <1>5, Sites DEF QueuedAt
  <2>3. \A c \in Members(pending)' : q[c] = "pending"
    BY <1>1, <1>2, <1>5, Sites DEF QueuedAt
  <2>4. \A c \in Members(waiting)' : q[c] = "waiting"
    BY <1>1, <1>2, <1>5, Sites DEF QueuedAt
  <2>5. \A c \in Members(waitingRetries)' : q[c] = "retries"
    BY <1>1, <1>2, <1>5, Sites DEF QueuedAt
  <2> QED BY <2>1, <2>2, <2>3, <2>4, <2>5 DEF QueuedAt
<1> QED BY <1>3, <1>4, <1>5 DEF Spread

(* A chunk is in one place.                                                *)
LEMMA OnePlace ==
  ASSUME TypeOK, Spread
  PROVE  /\ ChunksOf(reads) \cap ChunksIn(events) = {} /\ Reads \cap Copies = {}
         /\ ChunksOf(copying) \cap ChunksOf(reporting) = {}
         /\ ChunksOf(copying) \cap ChunksIn(copyDone) = {}
         /\ ChunksOf(reporting) \cap ChunksIn(copyDone) = {}
         /\ ~cflag => /\ Queued \cap (Reads \cup Copies) = {}
                      /\ Submitting \cap (delayed \cup Members(pending) \cup Parked) = {}
                      /\ delayed \cap (Members(pending) \cup Parked) = {}
                      /\ Members(pending) \cap Parked = {}
                      /\ Members(waiting) \cap Members(waitingRetries) = {}
<1>1. PICK p \in [Chunks -> Places] : OutsideAt(p) /\ (~cflag => QueuedAt(p))
  BY DEF Spread
<1>2. OutsideAt(p)
  BY <1>1
<1>3. /\ ChunksOf(reads) \cap ChunksIn(events) = {} /\ Reads \cap Copies = {}
      /\ ChunksOf(copying) \cap ChunksOf(reporting) = {}
      /\ ChunksOf(copying) \cap ChunksIn(copyDone) = {}
      /\ ChunksOf(reporting) \cap ChunksIn(copyDone) = {}
  BY <1>2 DEF OutsideAt, Reads, Copies
<1>4. ASSUME ~cflag
      PROVE  /\ Queued \cap (Reads \cup Copies) = {}
             /\ Submitting \cap (delayed \cup Members(pending) \cup Parked) = {}
             /\ delayed \cap (Members(pending) \cup Parked) = {}
             /\ Members(pending) \cap Parked = {}
             /\ Members(waiting) \cap Members(waitingRetries) = {}
  <2>1. QueuedAt(p)
    BY <1>1, <1>4
  <2>2. \A c \in Reads \cup Copies : p[c] \in {"read", "event", "copying", "reporting", "done"}
    BY <1>2 DEF OutsideAt, Reads, Copies
  <2>3. \A c \in Queued : p[c] \in {"submit", "delayed", "pending", "waiting", "retries"}
    BY <2>1 DEF QueuedAt, Queued, Parked
  <2>4. Queued \cap (Reads \cup Copies) = {}
    BY <2>2, <2>3
  <2> QED BY <2>1, <2>4 DEF QueuedAt, Parked
<1> QED BY <1>3, <1>4

-----------------------------------------------------------------------------
(* A workload the pool hands over is new to the worker.                    *)
LEMMA FreshFacts ==
  ASSUME Inv, ~cflag, NEW c \in Chunks, c[1] > taken
  PROVE  /\ c \notin Queued \cup Copies \cup Reads /\ c[1] \notin live /\ Open(c)
         /\ staging[c] = None
<1>1. taken \in Nat /\ c[1] \in Nat /\ live \subseteq 1..taken
  BY TakenFacts, ChunkFacts DEF Inv, Always, Control
<1>2. c[1] \notin live /\ ~(c[1] <= taken)
  BY <1>1
<1> QED BY <1>1, <1>2 DEF Inv, Before, InTable, Answering, Buffered

(* A workload is discarded: its chunks are answered and go nowhere.        *)
LEMMA DiscardStep ==
  ASSUME Inv, Discard
  PROVE  Inv'
<1> DEFINE w == taken + 1
<1>1. /\ taken < Len(Work) /\ taken' = w /\ faults' = faults + 1 /\ pc = "idle" /\ ~stopped
      /\ answer' = Answered(answer, Of(w), "UnknownError")
      /\ UNCHANGED <<live, remaining, ferr, failed, staging, stopped, landed,
                     window, retry, parked, copies, pool, client, control>>
  BY DEF Discard, Fault
<1>2. Len(Work) \in Nat /\ taken \in Nat /\ w \in 1..Len(Work) /\ DOMAIN Work = 1..Len(Work)
  BY <1>1, TakenFacts DEF Inv, Always
<1>3. /\ \A c \in Chunks : c[1] # w => answer'[c] = answer[c]
      /\ \A c \in Chunks : answer'[c] = answer[c] \/ answer'[c] = "UnknownError"
      /\ \A c \in Chunks : c[1] = w => answer'[c] # None
      /\ answer' \in [Chunks -> Codes \cup {None}]
  BY <1>1 DEF Answered, Of, Inv, Always, TypeOK, TableType, Codes, None
<1>4. TypeOK'
  <2>1. TableType'
    BY <1>1, <1>3 DEF Inv, Always, TypeOK, TableType
  <2>2. QueueType' /\ OutsideType'
    BY <1>1 DEF Inv, Always, TypeOK, QueueType, OutsideType, window, retry, parked, copies, pool, client
  <2>3. ControlType'
    BY <1>1, <1>2 DEF Inv, Always, TypeOK, ControlType, control
  <2> QED BY <2>1, <2>2, <2>3 DEF TypeOK
<1>5. Reads' = Reads /\ Copies' = Copies /\ Parked' = Parked /\ Submitting' = Submitting /\ Queued' = Queued
  <2>1. Submitting' = Submitting /\ Members(pending)' = Members(pending)
    BY <1>1 DEF control, window, Submitting, Members
  <2> QED BY <1>1, <2>1, ReadsSame, CopiesSame, ParkedSame DEF Queued, copies, client, retry
<1>6. Control'
  BY <1>1, <1>2, <1>5 DEF Inv, Always, Control, control, window, retry, parked, copies, client, Aborting, Resuming
<1>7. Spread' /\ CopyCount' /\ NoFalseSuccess'
  BY <1>1, <1>5, SpreadSame, CopyCountSame, NoFalseSame
     DEF Inv, Always, window, retry, parked, copies, client
<1>8. SomeLeft'
  BY <1>1 DEF Inv, Always, SomeLeft, Aborting, control
<1>9. ASSUME ~cflag' PROVE Before'
  <2>1. ~cflag /\ Before
    BY <1>1, <1>9 DEF client, Inv
  <2>2. ASSUME NEW c \in Chunks, c[1] # w PROVE Open(c)' <=> Open(c)
    BY <1>1, <1>3, <2>2 DEF Open
  <2>3. ASSUME NEW c \in Chunks, c[1] = w
        PROVE  c \notin Queued \cup Copies \cup Reads /\ c[1] \notin live /\ Open(c) /\ staging[c] = None
    <3>1. c[1] > taken
      BY <1>2, <2>3
    <3> QED BY <2>1, <3>1, FreshFacts
  <2>4. Queued \cup Copies \cup Reads \subseteq Chunks
    BY Sites DEF Inv, Always, Queued, Copies, Reads, Parked
  <2>5. \A v \in live : v # w /\ v \in 1..taken
    BY <1>2 DEF Inv, Always, Control
  <2>6. InTable'
    <3>1. ASSUME NEW c \in Queued \cup Copies PROVE c[1] \in live' /\ Open(c)' /\ staging'[c] = None
      BY <1>1, <2>1, <2>2, <2>3, <2>4 DEF Before, InTable
    <3>2. ASSUME NEW c \in Reads
          PROVE c[1] <= taken' /\ (c[1] \in live' => Open(c)') /\ (~cbroken' => c[1] \in live')
      <4>1. c \in Chunks /\ c[1] # w /\ c[1] \in Nat
        BY <2>3, <2>4, ChunkFacts
      <4> QED BY <1>1, <1>2, <2>1, <2>2, <4>1 DEF Before, InTable, client
    <3> QED BY <1>5, <3>1, <3>2 DEF InTable
  <2>7. Credit'
    BY <1>1, <1>5, <2>1, CreditSame DEF Before, window
  <2>8. Remaining'
    <3>1. ASSUME NEW v \in live PROVE Outstanding(v)' = Outstanding(v)
      BY <2>2, <2>5 DEF Outstanding, Of
    <3> QED BY <1>1, <2>1, <3>1 DEF Before, Remaining, Aborting, control
  <2>9. Answering'
    <3> SUFFICES ASSUME NEW c \in Chunks
                 PROVE  /\ c[1] > taken' => Open(c)'
                        /\ c[1] <= taken' /\ c[1] \notin live' => answer'[c] # None
                        /\ c[1] \in live' /\ c \in failed' => ferr'[c[1]][File(c)] # None
                        /\ answer'[c] = "Success" => c \in landed'
      BY DEF Answering
    <3>1. c[1] \in Nat
      BY ChunkFacts
    <3>2. c[1] > taken' => c[1] > taken /\ c[1] # w
      BY <1>1, <1>2, <3>1
    <3>3. c[1] <= taken' /\ c[1] # w => c[1] <= taken
      BY <1>1, <1>2, <3>1
    <3> QED BY <1>1, <1>3, <2>1, <2>2, <3>2, <3>3 DEF Before, Answering
  <2>10. Landing'
    BY <1>1, <2>1, LandingSame DEF Before, client, pool
  <2>11. Buffered'
    <3>1. ASSUME NEW c \in Chunks, staging'[c] # None
          PROVE c[1] \in live' /\ Open(c)' /\ staging'[c] \notin free' \cup retired'
      BY <1>1, <2>1, <2>2, <2>3, <3>1 DEF Before, Buffered, pool
    <3> QED BY <1>1, <2>1, <3>1 DEF Before, Buffered, pool, copies
  <2> QED BY <2>6, <2>7, <2>8, <2>9, <2>10, <2>11 DEF Before
<1> QED BY <1>4, <1>6, <1>7, <1>8, <1>9 DEF Inv, Always

(* The chunks enqueue lists.                                               *)
LEMMA Listed ==
  ASSUME NEW w \in 1..Len(Work), NEW n \in 0..Len(Work[w])
  PROVE  LET new == [i \in 1..n |-> <<w, i>>]
         IN  /\ new \in Seq(Chunks) /\ Members(new) \subseteq Of(w) /\ Distinct(new)
             /\ n = Len(Work[w]) => Members(new) = Of(w) /\ new = [i \in DOMAIN Work[w] |-> <<w, i>>]
<1> DEFINE new == [i \in 1..n |-> <<w, i>>]
<1>1. /\ Len(Work[w]) \in Nat /\ DOMAIN Work[w] = 1..Len(Work[w])
      /\ \A i \in DOMAIN Work[w] : <<w, i>> \in Chunks
      /\ Of(w) = {<<w, i>> : i \in DOMAIN Work[w]}
  BY WorkFacts
<1>2. n \in Nat /\ 1..n \subseteq 1..Len(Work[w])
  BY <1>1
<1>3. new \in [1..n -> Chunks]
  BY <1>1, <1>2
<1>4. new \in Seq(Chunks)
  BY <1>2, <1>3, SeqDef
<1>5. DOMAIN new = 1..n /\ \A i \in 1..n : new[i] = <<w, i>>
  OBVIOUS
<1>6. Members(new) = {<<w, i>> : i \in 1..n} /\ Distinct(new)
  BY <1>5 DEF Members, Distinct
<1> QED BY <1>1, <1>2, <1>4, <1>6

(* A workload goes into the table, and its chunks, or some of them, into   *)
(* the queue.                                                              *)
LEMMA Enqueued ==
  ASSUME Inv, NEW n \in 0..Len(Work[taken + 1]), taken < Len(Work), taken' = taken + 1,
         pending' = pending \o [i \in 1..n |-> <<taken + 1, i>>], pc = "idle", pc' # "submit",
         live' = live \cup {taken + 1} \/ (Work[taken + 1] = <<>> /\ live' = live),
         UNCHANGED <<inflight, ferr, failed, staging, answer, landed, retry, parked, copies, pool, client>>
  PROVE  /\ pending' \in Seq(Chunks) /\ Spread' /\ CopyCount' /\ NoFalseSuccess'
         /\ live' \subseteq 1..taken' /\ live' \subseteq DOMAIN Work
         /\ ~cflag' => InTable' /\ Credit' /\ Answering' /\ Landing' /\ Buffered'
<1> DEFINE w == taken + 1
           new == [i \in 1..n |-> <<w, i>>]
<1>1. /\ Len(Work) \in Nat /\ taken \in Nat /\ w \in 1..Len(Work) /\ DOMAIN Work = 1..Len(Work)
      /\ live \subseteq 1..taken
  BY TakenFacts DEF Inv, Always, Control
<1>2. new \in Seq(Chunks) /\ Members(new) \subseteq Of(w) /\ Distinct(new)
  BY <1>1, Listed
<1>3. pending \in Seq(Chunks) /\ pending' = pending \o new
  BY DEF Inv, Always, TypeOK, QueueType
<1> HIDE DEF new
<1>4. /\ pending' \in Seq(Chunks) /\ Members(pending)' = Members(pending) \cup Members(new)
      /\ Distinct(pending) /\ Members(pending) \cap Members(new) = {} => Distinct(pending)'
  <2>1. /\ pending \o new \in Seq(Chunks) /\ Members(pending \o new) = Members(pending) \cup Members(new)
        /\ Distinct(pending) /\ Members(pending) \cap Members(new) = {} => Distinct(pending \o new)
    BY <1>2, <1>3, MembersConcat
  <2>2. Members(pending)' = Members(pending \o new) /\ (Distinct(pending)' <=> Distinct(pending \o new))
    BY <1>3 DEF Members, Distinct
  <2> QED BY <1>3, <2>1, <2>2
<1>5. live' \subseteq 1..taken' /\ live' \subseteq DOMAIN Work
  <2> SUFFICES ASSUME NEW v \in live' PROVE v \in 1..(taken + 1) /\ v \in 1..Len(Work)
    BY <1>1
  <2>1. v \in 1..taken \/ v = taken + 1
    BY <1>1
  <2> QED BY <1>1, <2>1
<1>6. Reads' = Reads /\ Copies' = Copies /\ Parked' = Parked /\ Submitting' = {} /\ Submitting = {}
  BY ReadsSame, CopiesSame, ParkedSame DEF Submitting, copies, client
<1>7. Of(w) \subseteq Chunks
  BY DEF Of
<1>8. ASSUME ~cflag, NEW c \in Of(w)
      PROVE  c \notin Queued \cup Copies \cup Reads /\ c[1] \notin live /\ Open(c) /\ staging[c] = None
  <2>1. c \in Chunks /\ c[1] > taken
    BY <1>1, <1>8 DEF Of
  <2> QED BY <1>8, <2>1, FreshFacts
<1>9. Spread'
  <2>1. PICK p \in [Chunks -> Places] : OutsideAt(p) /\ (~cflag => QueuedAt(p))
    BY DEF Inv, Always, Spread
  <2>2. CASE cflag
    <3>1. OneOutside' /\ OutsideAt(p)'
      BY <2>1 DEF Inv, Always, Spread, OneOutside, OutsideAt, ChunksOf, ChunksIn, OneEach, OneIn, copies, client
    <3>2. cflag'
      BY <2>2 DEF client
    <3> QED BY <2>1, <3>1, <3>2 DEF Spread
  <2>3. CASE ~cflag
    <3>1. /\ ChunksOf(reads)' = ChunksOf(reads) /\ ChunksIn(events)' = ChunksIn(events)
          /\ ChunksOf(copying)' = ChunksOf(copying) /\ ChunksOf(reporting)' = ChunksOf(reporting)
          /\ ChunksIn(copyDone)' = ChunksIn(copyDone) /\ delayed' = delayed
          /\ Members(waiting)' = Members(waiting) /\ Members(waitingRetries)' = Members(waitingRetries)
      BY DEF copies, client, retry, parked, Members, ChunksOf, ChunksIn
    <3>2. OneOutside' /\ OneQueued'
      <4>1. OneOutside'
        BY DEF Inv, Always, Spread, OneOutside, OneEach, OneIn, copies, client
      <4>2. Distinct(pending) /\ Distinct(waiting) /\ Distinct(waitingRetries)
        BY <2>3 DEF Inv, Always, Spread, OneQueued
      <4>3. Members(pending) \cap Members(new) = {}
        BY <1>2, <1>8, <2>3 DEF Queued
      <4>4. Distinct(waiting)' /\ Distinct(waitingRetries)'
        BY <4>2 DEF Distinct, parked
      <4> QED BY <1>4, <4>1, <4>2, <4>3, <4>4 DEF OneQueued
    <3>3. \A c \in Of(w) : c \notin Queued \cup Copies \cup Reads
      BY <1>8, <2>3
    <3>4. /\ ChunksOf(reads) \cap Of(w) = {} /\ ChunksIn(events) \cap Of(w) = {}
          /\ ChunksOf(copying) \cap Of(w) = {} /\ ChunksOf(reporting) \cap Of(w) = {}
          /\ ChunksIn(copyDone) \cap Of(w) = {} /\ delayed \cap Of(w) = {}
          /\ Members(waiting) \cap Of(w) = {} /\ Members(waitingRetries) \cap Of(w) = {}
      BY <3>3 DEF Queued, Copies, Reads, Parked
    <3>5. "pending" \in Places /\ Of(w) \in SUBSET Chunks /\ TypeOK /\ Spread
      BY <1>7 DEF Places, Inv, Always
    <3>6. Members(pending)' \subseteq Members(pending) \cup Of(w)
      BY <1>2, <1>4
    <3> QED BY <1>6, <2>3, <3>1, <3>2, <3>4, <3>5, <3>6, Moved
  <2> QED BY <2>2, <2>3
<1>10. CopyCount' /\ NoFalseSuccess'
  BY CopyCountSame, NoFalseSame DEF Inv, Always, copies
<1>11. ASSUME ~cflag' PROVE InTable' /\ Credit' /\ Answering' /\ Landing' /\ Buffered'
  <2>1. ~cflag /\ Before
    BY <1>11 DEF client, Inv
  <2>2. \A c : Open(c)' <=> Open(c)
    BY DEF Open
  <2>3. live \subseteq live' /\ \A c \in Chunks : c[1] \in live' => c[1] \in live \/ c \in Of(w)
    BY DEF Of
  <2>4. \A c \in Of(w) : c[1] \in live'
    <3>1. Of(w) # {} => Work[w] # <<>>
      BY <1>1, WorkFacts
    <3> QED BY <3>1 DEF Of
  <2>5. Queued \cup Copies \cup Reads \subseteq Chunks
    BY Sites DEF Inv, Always, Queued, Copies, Reads, Parked
  <2>6. Queued' = Queued \cup Members(new)
    BY <1>4, <1>6 DEF Queued, retry
  <2>7. InTable'
    <3>1. ASSUME NEW c \in Queued' \cup Copies' PROVE c[1] \in live' /\ Open(c)' /\ staging'[c] = None
      <4>1. CASE c \in Of(w)
        BY <1>8, <2>1, <2>2, <2>4, <4>1
      <4>2. CASE c \notin Of(w)
        <5>1. c \in Queued \cup Copies
          BY <1>2, <1>6, <2>6, <3>1, <4>2
        <5> QED BY <2>1, <2>2, <2>3, <5>1 DEF Before, InTable
      <4> QED BY <4>1, <4>2
    <3>2. ASSUME NEW c \in Reads
          PROVE c[1] <= taken' /\ (c[1] \in live' => Open(c)') /\ (~cbroken' => c[1] \in live')
      <4>1. c \in Chunks /\ c \notin Of(w) /\ c[1] \in Nat
        BY <1>8, <2>1, <2>5, ChunkFacts
      <4>2. c[1] <= taken /\ (c[1] \in live => Open(c)) /\ (~cbroken => c[1] \in live)
        BY <2>1 DEF Before, InTable
      <4> QED BY <1>1, <2>2, <2>3, <4>1, <4>2 DEF client
    <3> QED BY <1>6, <3>1, <3>2 DEF InTable
  <2>8. Credit'
    <3>1. Holding' = Holding
      <4>1. Reads \cup Parked \subseteq Chunks /\ \A c \in Reads \cup Parked : c \notin Of(w)
        BY <1>8, <2>1, <2>5 DEF Queued
      <4> QED BY <1>6, <2>3, <4>1 DEF Holding
    <3> QED BY <2>1, <3>1 DEF Before, Credit
  <2>9. Answering'
    <3> SUFFICES ASSUME NEW c \in Chunks
                 PROVE  /\ c[1] > taken' => Open(c)'
                        /\ c[1] <= taken' /\ c[1] \notin live' => answer'[c] # None
                        /\ c[1] \in live' /\ c \in failed' => ferr'[c[1]][File(c)] # None
                        /\ answer'[c] = "Success" => c \in landed'
      BY DEF Answering
    <3>1. c[1] \in Nat
      BY ChunkFacts
    <3>2. c[1] > taken' => c[1] > taken
      BY <1>1, <3>1
    <3>3. c[1] <= taken' /\ c[1] \notin live' => c[1] <= taken /\ c[1] \notin live
      BY <1>1, <2>3, <2>4, <3>1 DEF Of
    <3>4. c[1] \in live' /\ c \in failed' => c[1] \in live /\ c \in failed
      BY <1>8, <2>1, <2>3 DEF Open
    <3> QED BY <2>1, <2>2, <3>2, <3>3, <3>4 DEF Before, Answering
  <2>10. Landing'
    <3>1. ASSUME NEW c \in Reads PROVE c[1] \in live' <=> c[1] \in live
      <4>1. c \in Chunks /\ c \notin Of(w)
        BY <1>8, <2>1, <2>5
      <4> QED BY <2>3, <4>1
    <3>2. (\A rd \in reads : rd.chunk \in Reads) /\ (\A i \in DOMAIN events : events[i].chunk \in Reads)
      BY DEF Reads, ChunksOf, ChunksIn
    <3> QED BY <2>1, <3>1, <3>2 DEF Before, Landing, client, pool
  <2>11. Buffered'
    BY <2>1, <2>2, <2>3 DEF Before, Buffered, pool, copies
  <2> QED BY <2>7, <2>8, <2>9, <2>10, <2>11
<1> QED BY <1>4, <1>5, <1>9, <1>10, <1>11

(* A workload is registered, or its enqueue throws halfway.                *)
LEMMA EnqueueStep ==
  ASSUME Inv, Enqueue \/ EnqueueThrows
  PROVE  Inv'
<1> DEFINE w == taken + 1
<1>1. /\ Len(Work) \in Nat /\ taken \in Nat /\ DOMAIN Work = 1..Len(Work) /\ taken <= Len(Work)
      /\ live \subseteq 1..taken
  BY TakenFacts DEF Inv, Always, Control
<1>2. /\ taken < Len(Work) /\ taken' = w /\ w \in 1..Len(Work) /\ up' = TRUE
      /\ UNCHANGED <<inflight, ferr, failed, staging, answer, back, cur, quota, drained,
                     stopped, landed, retry, parked, copies, pool, client>>
      /\ pc = "idle" /\ ~stopped /\ pc' \in {"loop", "abort"}
      /\ live' = live \cup {w} \/ (Work[w] = <<>> /\ live' = live)
  BY <1>1 DEF Enqueue, EnqueueThrows
<1>3. Len(Work[w]) \in Nat /\ DOMAIN Work[w] = 1..Len(Work[w])
  BY <1>2, WorkFacts
<1>4. PICK n \in 0..Len(Work[w]) :
        /\ pending' = pending \o [i \in 1..n |-> <<w, i>>]
        /\ pc' = "loop" => n = Len(Work[w])
  <2>1. CASE Enqueue
    <3>1. pending' = pending \o [i \in 1..Len(Work[w]) |-> <<w, i>>]
      BY <1>2, <1>3, <2>1 DEF Enqueue
    <3>2. Len(Work[w]) \in 0..Len(Work[w])
      BY <1>3
    <3> QED BY <3>1, <3>2, Zenon
  <2>2. CASE EnqueueThrows
    <3>1. pc' = "abort" /\ \E n \in 0..Len(Work[w]) : pending' = pending \o [i \in 1..n |-> <<w, i>>]
      BY <1>2, <2>2 DEF EnqueueThrows
    <3>2. pc' # "loop"
      BY <3>1
    <3> QED BY <3>1, <3>2, Zenon
  <2> QED BY <2>1, <2>2
<1>5. /\ pending' \in Seq(Chunks) /\ Spread' /\ CopyCount' /\ NoFalseSuccess'
      /\ live' \subseteq 1..taken' /\ live' \subseteq DOMAIN Work
      /\ ~cflag' => InTable' /\ Credit' /\ Answering' /\ Landing' /\ Buffered'
  <2>1. pc' # "submit"
    BY <1>2
  <2> QED BY <1>2, <1>4, <2>1, Enqueued
<1>6. /\ pc' = "loop" => /\ remaining' = [remaining EXCEPT ![w] = Len(Work[w])]
                         /\ UNCHANGED <<ret, code, continues, faults>>
                         /\ live' = IF Work[w] = <<>> THEN live ELSE live \cup {w}
      /\ pc' = "abort" => /\ UNCHANGED remaining /\ code' = "UnknownError" /\ continues' = TRUE
                          /\ ret' = "loop" /\ faults' = faults + 1
  BY <1>2 DEF Enqueue, EnqueueThrows, Fault, ChunkCount
<1>7. TypeOK'
  <2>1. TableType'
    BY <1>2, <1>3, <1>5, <1>6 DEF Inv, Always, TypeOK, TableType
  <2>2. up' \in BOOLEAN
    BY <1>2, Zenon
  <2>3. QueueType' /\ OutsideType'
    BY <1>2, <1>5, <2>2 DEF Inv, Always, TypeOK, QueueType, OutsideType, retry, parked, copies, pool, client
  <2>4. continues' \in BOOLEAN
    BY <1>2, <1>6, Zenon DEF Inv, Always, TypeOK, ControlType
  <2>5. ControlType'
    BY <1>1, <1>2, <1>6, <2>4 DEF Inv, Always, TypeOK, ControlType, Pcs, Codes
  <2> QED BY <2>1, <2>3, <2>5 DEF TypeOK
<1>8. Control'
  BY <1>2, <1>5, <1>6 DEF Inv, Always, Control, client, Aborting, Resuming
<1>9. SomeLeft'
  <2> SUFFICES ASSUME pc' = "loop", NEW v \in live' PROVE remaining'[v] > 0
    BY <1>2 DEF SomeLeft, Aborting
  <2>1. CASE v = w
    <3>1. Work[w] # <<>> /\ remaining'[w] = Len(Work[w])
      BY <1>1, <1>2, <1>6, <2>1 DEF Inv, Always, TypeOK, TableType
    <3>2. Len(Work[w]) # 0
      BY <1>2, <3>1, WorkAssumption, EmptySeq
    <3> QED BY <1>3, <2>1, <3>1, <3>2
  <2>2. CASE v # w
    BY <1>2, <1>6, <2>2 DEF Inv, Always, SomeLeft, Aborting, TypeOK, TableType
  <2> QED BY <2>1, <2>2
<1>10. ASSUME ~cflag' PROVE Remaining'
  <2> SUFFICES ASSUME pc' = "loop", NEW v \in live'
               PROVE  IsFiniteSet(Outstanding(v)') /\ remaining'[v] = Cardinality(Outstanding(v)')
    BY <1>2 DEF Remaining, Aborting
  <2>1. ~cflag /\ Outstanding(v)' = Outstanding(v)
    BY <1>2, <1>10 DEF client, Outstanding, Open
  <2>2. CASE v = w
    <3>1. ASSUME NEW c \in Of(w) PROVE Open(c)
      <4>1. c \in Chunks /\ c[1] > taken
        BY <1>1, <3>1 DEF Of
      <4> QED BY <2>1, <4>1, FreshFacts
    <3>2. Outstanding(w) = Of(w)
      BY <3>1 DEF Outstanding
    <3>3. remaining'[w] = Len(Work[w])
      BY <1>1, <1>2, <1>6, <2>2 DEF Inv, Always, TypeOK, TableType
    <3> QED BY <1>2, <2>1, <2>2, <3>2, <3>3, WorkCount
  <2>3. CASE v # w
    BY <1>2, <1>6, <2>1, <2>3 DEF Inv, Before, Remaining, Aborting, Always, TypeOK, TableType
  <2> QED BY <2>2, <2>3
<1> QED BY <1>5, <1>7, <1>8, <1>9, <1>10 DEF Inv, Always, Before

-----------------------------------------------------------------------------
(* Chunks change places among the worker's queues.                         *)
LEMMA RequeuedSpread ==
  ASSUME TypeOK, Spread, UNCHANGED <<copies, client>>, NEW C \in SUBSET Chunks, NEW n \in Places,
         ~cflag => /\ OneQueued' /\ C \cap (Reads \cup Copies) = {}
                   /\ Submitting' \subseteq Submitting \cup C /\ (Submitting' \cap C # {} => n = "submit")
                   /\ delayed' \subseteq delayed \cup C /\ (delayed' \cap C # {} => n = "delayed")
                   /\ Members(pending)' \subseteq Members(pending) \cup C
                   /\ Members(pending)' \cap C # {} => n = "pending"
                   /\ Members(waiting)' \subseteq Members(waiting) \cup C
                   /\ Members(waiting)' \cap C # {} => n = "waiting"
                   /\ Members(waitingRetries)' \subseteq Members(waitingRetries) \cup C
                   /\ Members(waitingRetries)' \cap C # {} => n = "retries"
  PROVE  Spread'
<1>1. OneOutside'
  BY DEF Spread, OneOutside, OneEach, OneIn, copies, client
<1>2. /\ ChunksOf(reads)' = ChunksOf(reads) /\ ChunksIn(events)' = ChunksIn(events)
      /\ ChunksOf(copying)' = ChunksOf(copying) /\ ChunksOf(reporting)' = ChunksOf(reporting)
      /\ ChunksIn(copyDone)' = ChunksIn(copyDone) /\ cflag' = cflag
  BY DEF copies, client, ChunksOf, ChunksIn
<1>3. CASE cflag
  <2>1. PICK p \in [Chunks -> Places] : OutsideAt(p)
    BY DEF Spread
  <2>2. OutsideAt(p)'
    BY <1>2, <2>1 DEF OutsideAt
  <2> QED BY <1>1, <1>2, <1>3, <2>2 DEF Spread
<1>4. CASE ~cflag
  <2>1. /\ ChunksOf(reads) \cap C = {} /\ ChunksIn(events) \cap C = {} /\ ChunksOf(copying) \cap C = {}
        /\ ChunksOf(reporting) \cap C = {} /\ ChunksIn(copyDone) \cap C = {}
    BY <1>4 DEF Reads, Copies
  <2> QED BY <1>1, <1>2, <1>4, <2>1, Moved
<1> QED BY <1>3, <1>4

(* A chunk changes queue, and nothing else does.                           *)
LEMMA Requeued ==
  ASSUME Inv, UNCHANGED <<table, copies, pool, client, world>>, TypeOK', Control', Spread',
         Aborting => Aborting', ~cflag => Queued' \subseteq Queued /\ Credit'
  PROVE  Inv'
<1>1. CopyCount' /\ SomeLeft' /\ NoFalseSuccess'
  BY CopyCountSame, RemainingSame, NoFalseSame DEF Inv, Always, table, world
<1>2. ASSUME ~cflag' PROVE Before'
  <2>1. ~cflag /\ Before
    BY <1>2 DEF client, Inv
  <2>2. Reads' = Reads /\ Copies' = Copies
    BY ReadsSame, CopiesSame DEF copies, client
  <2>3. InTable'
    BY <2>1, <2>2, InTableSame DEF Before, client, world
  <2>4. Remaining' /\ Answering'
    BY <2>1, RemainingSame, AnsweringSame DEF Before, world
  <2>5. Landing' /\ Buffered'
    BY <2>1, LandingSame, BufferedSame DEF Before, table, client, copies, pool, world
  <2> QED BY <2>1, <2>3, <2>4, <2>5 DEF Before
<1> QED BY <1>1, <1>2 DEF Inv, Always

(* A delayed retry goes to the front of the queue.                         *)
LEMMA PromoteStep ==
  ASSUME Inv, NEW c \in Chunks, Promote(c)
  PROVE  Inv'
<1>1. /\ pc = "prepump" /\ c \in delayed /\ delayed' = delayed \ {c} /\ pending' = <<c>> \o pending
      /\ UNCHANGED <<up, inflight, attempts, deadline, table, parked, copies, pool, client, control, world>>
  BY DEF Promote
<1>2. pending \in Seq(Chunks)
  BY DEF Inv, Always, TypeOK, QueueType
<1>3. /\ pending' \in Seq(Chunks) /\ Members(pending)' = {c} \cup Members(pending)
      /\ Distinct(pending) /\ c \notin Members(pending) => Distinct(pending)'
  <2>1. PICK one \in Seq(Chunks) : one = <<c>> /\ Members(one) = {c} /\ Distinct(one)
    BY MembersOne
  <2>2. /\ one \o pending \in Seq(Chunks) /\ Members(one \o pending) = Members(one) \cup Members(pending)
        /\ Distinct(one) /\ Distinct(pending) /\ Members(one) \cap Members(pending) = {} => Distinct(one \o pending)
    BY <1>2, MembersConcat
  <2>3. pending' = one \o pending
    BY <1>1, <2>1
  <2>4. Members(pending)' = Members(one \o pending) /\ (Distinct(pending)' <=> Distinct(one \o pending))
    BY <2>3 DEF Members, Distinct
  <2> QED BY <2>1, <2>2, <2>3, <2>4
<1>4. TypeOK'
  BY <1>1, <1>3 DEF Inv, Always, TypeOK, TableType, QueueType, OutsideType, ControlType,
     table, parked, copies, pool, client, control, world
<1>5. Reads' = Reads /\ Parked' = Parked /\ Submitting' = Submitting
  BY <1>1, ReadsSame, ParkedSame DEF client, control, Submitting
<1>6. Control'
  BY <1>1, <1>5 DEF Inv, Always, Control, control, world, table, client, parked, copies, Aborting, Resuming
<1>7. Members(waiting)' = Members(waiting) /\ Members(waitingRetries)' = Members(waitingRetries)
  BY <1>1 DEF parked, Members
<1>8. ASSUME ~cflag
      PROVE  /\ {c} \cap (Reads \cup Copies \cup Submitting \cup Members(pending) \cup Parked) = {}
             /\ OneQueued' /\ Queued' \subseteq Queued /\ Credit'
  <2>1. {c} \cap (Reads \cup Copies \cup Submitting \cup Members(pending) \cup Parked) = {}
    BY <1>1, <1>8, OnePlace DEF Inv, Always, Queued
  <2>2. OneQueued'
    BY <1>1, <1>3, <1>8, <2>1 DEF Inv, Always, Spread, OneQueued, Distinct, parked
  <2>3. Queued' \subseteq Queued
    BY <1>1, <1>3, <1>5 DEF Queued
  <2>4. Credit'
    BY <1>1, <1>5, <1>8, CreditSame DEF Inv, Before, table
  <2> QED BY <2>1, <2>2, <2>3, <2>4
<1>9. Spread'
  <2>1. "pending" \in Places /\ {c} \in SUBSET Chunks
    BY DEF Places
  <2>2. ~cflag => /\ {c} \cap (Reads \cup Copies) = {} /\ Submitting' \cap {c} = {}
                  /\ delayed' \cap {c} = {} /\ Members(waiting)' \cap {c} = {}
                  /\ Members(waitingRetries)' \cap {c} = {}
    BY <1>1, <1>5, <1>7, <1>8 DEF Parked
  <2> QED BY <1>1, <1>3, <1>5, <1>7, <1>8, <2>1, <2>2, RequeuedSpread DEF Inv, Always
<1>10. Aborting => Aborting'
  BY <1>1 DEF Aborting
<1> QED BY <1>1, <1>4, <1>6, <1>8, <1>9, <1>10, Requeued

(* A chunk gets a slot of the window.                                      *)
LEMMA PumpStep ==
  ASSUME Inv, Pump
  PROVE  Inv'
<1>1. /\ pc = "pump"
      /\ UNCHANGED <<up, ret, quota, code, continues, drained,
                     table, retry, parked, copies, pool, client, world>>
  BY DEF Pump
<1>2. CASE pending = <<>> \/ Full
  <2>1. /\ UNCHANGED <<cur, pending, inflight, back>> /\ pc' \in {"idle", "loop", "turn"}
    BY <1>2 DEF Pump
  <2>2. ControlType'
    BY <1>1, <2>1 DEF Inv, Always, TypeOK, ControlType, Pcs, world
  <2>3. Control'
    BY <1>1, <2>1 DEF Inv, Always, Control, world, table, client, Aborting, Resuming
  <2>4. Submitting' = Submitting
    BY <1>1, <2>1 DEF Submitting
  <2> QED BY <1>1, <2>1, <2>2, <2>3, <2>4, Steered DEF window, Aborting
<1>3. CASE pending # <<>> /\ ~Full
  <2> DEFINE c == Head(pending)
  <2>1. /\ cur' = c /\ pending' = Tail(pending) /\ inflight' = inflight + 1
        /\ back' = "pump" /\ pc' = "submit"
    BY <1>3 DEF Pump
  <2>2. pending \in Seq(Chunks) /\ inflight \in Nat
    BY DEF Inv, Always, TypeOK, QueueType
  <2>3. c \in Chunks /\ Tail(pending) \in Seq(Chunks) /\ c \in Members(pending)
    BY <1>3, <2>2, TailFacts, MembersTail
  <2>4. /\ Members(pending)' \subseteq Members(pending)
        /\ Distinct(pending) => Members(pending)' = Members(pending) \ {c} /\ Distinct(pending)'
    <3>1. /\ Members(Tail(pending)) \subseteq Members(pending)
          /\ Distinct(pending) => Members(Tail(pending)) = Members(pending) \ {c} /\ Distinct(Tail(pending))
      BY <1>3, <2>2, MembersTail
    <3>2. Members(pending)' = Members(Tail(pending)) /\ (Distinct(pending)' <=> Distinct(Tail(pending)))
      BY <2>1 DEF Members, Distinct
    <3> QED BY <3>1, <3>2
  <2> HIDE DEF c
  <2>5. TypeOK'
    <3>1. QueueType'
      BY <1>1, <2>1, <2>2, <2>3 DEF Inv, Always, TypeOK, QueueType, retry, parked
    <3>2. TableType' /\ OutsideType'
      BY <1>1 DEF Inv, Always, TypeOK, TableType, OutsideType, table, copies, pool, client
    <3>3. ControlType'
      BY <1>1, <2>1, <2>3 DEF Inv, Always, TypeOK, ControlType, world, Pcs
    <3> QED BY <3>1, <3>2, <3>3 DEF TypeOK
  <2>6. Control'
    BY <1>1, <2>1, <2>3 DEF Inv, Always, Control, world, table, client, Aborting, Resuming
  <2>7. Submitting' = {c} /\ Submitting = {}
    BY <1>1, <2>1, <2>3 DEF Submitting
  <2>8. Reads' = Reads /\ Copies' = Copies /\ Parked' = Parked /\ delayed' = delayed
        /\ Members(waiting)' = Members(waiting) /\ Members(waitingRetries)' = Members(waitingRetries)
    BY <1>1, ReadsSame, CopiesSame, ParkedSame DEF client, copies, retry, parked, Members
  <2>9. ASSUME ~cflag
        PROVE  /\ {c} \cap (Reads \cup Copies \cup delayed \cup Parked) = {}
               /\ OneQueued' /\ Members(pending)' = Members(pending) \ {c}
               /\ Queued' \subseteq Queued /\ Credit'
    <3>1. {c} \cap (Reads \cup Copies \cup delayed \cup Parked) = {}
      BY <2>3, <2>9, OnePlace DEF Inv, Always, Queued
    <3>2. OneQueued' /\ Members(pending)' = Members(pending) \ {c}
      BY <1>1, <2>4, <2>9 DEF Inv, Always, Spread, OneQueued, Distinct, parked
    <3>3. Queued' \subseteq Queued
      BY <2>3, <2>7, <2>8, <3>2 DEF Queued
    <3>4. c[1] \in live
      BY <2>3, <2>9 DEF Inv, Before, InTable, Queued
    <3>5. Holding' = Holding \cup {c} /\ c \notin Holding
      BY <1>1, <2>7, <2>8, <3>1, <3>4 DEF Holding, table
    <3>6. IsFiniteSet(Holding) /\ inflight = Cardinality(Holding)
      BY <2>9 DEF Inv, Before, Credit
    <3>7. IsFiniteSet(Holding \cup {c}) /\ Cardinality(Holding \cup {c}) = Cardinality(Holding) + 1
      BY <3>5, <3>6, FS_AddElement
    <3> QED BY <2>1, <3>1, <3>2, <3>3, <3>5, <3>6, <3>7 DEF Credit
  <2>10. Spread'
    <3>1. "submit" \in Places /\ {c} \in SUBSET Chunks
      BY <2>3 DEF Places
    <3>2. ~cflag => /\ {c} \cap (Reads \cup Copies) = {} /\ Members(pending)' \cap {c} = {}
                    /\ delayed' \cap {c} = {} /\ Members(waiting)' \cap {c} = {}
                    /\ Members(waitingRetries)' \cap {c} = {}
      BY <2>8, <2>9 DEF Parked
    <3> QED BY <1>1, <2>4, <2>7, <2>8, <2>9, <3>1, <3>2, RequeuedSpread DEF Inv, Always
  <2>11. Aborting => Aborting'
    BY <1>1 DEF Aborting
  <2> QED BY <1>1, <2>5, <2>6, <2>9, <2>10, <2>11, Requeued
<1> QED BY <1>2, <1>3

(* A chunk waits for a staging buffer and keeps its slot.                  *)
LEMMA SubmitParksStep ==
  ASSUME Inv, SubmitParks
  PROVE  Inv'
<1>1. /\ pc = "submit" /\ pc' = back
      /\ \/ waitingRetries' = Append(waitingRetries, cur) /\ UNCHANGED waiting
         \/ waiting' = Append(waiting, cur) /\ UNCHANGED waitingRetries
      /\ UNCHANGED <<ret, back, cur, quota, code, continues, drained,
                     window, table, retry, copies, pool, client, world>>
  BY DEF SubmitParks
<1>2. /\ cur \in Chunks /\ waiting \in Seq(Chunks) /\ waitingRetries \in Seq(Chunks)
      /\ back \in {"pump", "resume"}
  BY <1>1 DEF Inv, Always, Control, TypeOK, QueueType, ControlType
<1>3. /\ Append(waiting, cur) \in Seq(Chunks) /\ Members(Append(waiting, cur)) = Members(waiting) \cup {cur}
      /\ Len(Append(waiting, cur)) = Len(waiting) + 1
      /\ Distinct(waiting) /\ cur \notin Members(waiting) => Distinct(Append(waiting, cur))
  BY <1>2, MembersAppend
<1>4. /\ Append(waitingRetries, cur) \in Seq(Chunks)
      /\ Members(Append(waitingRetries, cur)) = Members(waitingRetries) \cup {cur}
      /\ Len(Append(waitingRetries, cur)) = Len(waitingRetries) + 1
      /\ Distinct(waitingRetries) /\ cur \notin Members(waitingRetries) => Distinct(Append(waitingRetries, cur))
  BY <1>2, MembersAppend
<1>5. /\ waiting' \in Seq(Chunks) /\ waitingRetries' \in Seq(Chunks)
      /\ Len(waiting') >= Len(waiting) /\ Len(waitingRetries') >= Len(waitingRetries)
  <2>1. Len(waiting) \in Nat /\ Len(waitingRetries) \in Nat
    BY <1>2, SeqFacts
  <2>2. CASE waitingRetries' = Append(waitingRetries, cur) /\ UNCHANGED waiting
    <3>1. waitingRetries' \in Seq(Chunks) /\ Len(waitingRetries') = Len(waitingRetries) + 1
      BY <1>4, <2>2
    <3>2. waiting' = waiting
      BY <2>2
    <3> QED BY <1>2, <2>1, <3>1, <3>2
  <2>3. CASE waiting' = Append(waiting, cur) /\ UNCHANGED waitingRetries
    <3>1. waiting' \in Seq(Chunks) /\ Len(waiting') = Len(waiting) + 1
      BY <1>3, <2>3
    <3>2. waitingRetries' = waitingRetries
      BY <2>3
    <3> QED BY <1>2, <2>1, <3>1, <3>2
  <2> QED BY <1>1, <2>2, <2>3
<1>6. \/ /\ Members(waiting)' = Members(waiting)
         /\ Members(waitingRetries)' = Members(waitingRetries) \cup {cur}
         /\ Distinct(waiting)' <=> Distinct(waiting)
         /\ Distinct(waitingRetries) /\ cur \notin Members(waitingRetries) => Distinct(waitingRetries)'
      \/ /\ Members(waitingRetries)' = Members(waitingRetries)
         /\ Members(waiting)' = Members(waiting) \cup {cur}
         /\ Distinct(waitingRetries)' <=> Distinct(waitingRetries)
         /\ Distinct(waiting) /\ cur \notin Members(waiting) => Distinct(waiting)'
  <2>1. CASE waitingRetries' = Append(waitingRetries, cur) /\ UNCHANGED waiting
    <3>1. /\ Members(waitingRetries)' = Members(Append(waitingRetries, cur))
          /\ Distinct(waitingRetries)' <=> Distinct(Append(waitingRetries, cur))
          /\ Members(waiting)' = Members(waiting) /\ (Distinct(waiting)' <=> Distinct(waiting))
      BY <2>1 DEF Members, Distinct
    <3> QED BY <1>4, <3>1
  <2>2. CASE waiting' = Append(waiting, cur) /\ UNCHANGED waitingRetries
    <3>1. /\ Members(waiting)' = Members(Append(waiting, cur))
          /\ Distinct(waiting)' <=> Distinct(Append(waiting, cur))
          /\ Members(waitingRetries)' = Members(waitingRetries)
          /\ Distinct(waitingRetries)' <=> Distinct(waitingRetries)
      BY <2>2 DEF Members, Distinct
    <3> QED BY <1>3, <3>1
  <2> QED BY <1>1, <2>1, <2>2
<1>7. TypeOK'
  <2>1. QueueType'
    BY <1>1, <1>5 DEF Inv, Always, TypeOK, QueueType, retry, window
  <2>2. TableType' /\ OutsideType'
    BY <1>1 DEF Inv, Always, TypeOK, TableType, OutsideType, table, copies, pool, client
  <2>3. ControlType'
    BY <1>1, <1>2 DEF Inv, Always, TypeOK, ControlType, world, Pcs
  <2> QED BY <2>1, <2>2, <2>3 DEF TypeOK
<1>8. Control'
  <2>1. Resuming' => quota'.retries <= Len(waitingRetries') /\ quota'.fresh <= Len(waiting')
    <3>1. Resuming' => Resuming
      BY <1>1, <1>2 DEF Resuming
    <3>2. Len(waiting) \in Nat /\ Len(waitingRetries) \in Nat /\ Len(waiting') \in Nat /\ Len(waitingRetries') \in Nat
      BY <1>2, <1>5, SeqFacts
    <3>3. quota \in [retries : Nat, fresh : Nat]
      BY DEF Inv, Always, TypeOK, ControlType
    <3> QED BY <1>1, <1>5, <3>1, <3>2, <3>3 DEF Inv, Always, Control
  <2> QED BY <1>1, <1>2, <2>1 DEF Inv, Always, Control, world, table, client, Aborting, Resuming
<1>9. Submitting' = {} /\ Submitting = {cur}
  BY <1>1, <1>2 DEF Submitting
<1>10. /\ Reads' = Reads /\ Copies' = Copies /\ delayed' = delayed /\ Members(pending)' = Members(pending)
       /\ Parked' = Parked \cup {cur}
  BY <1>1, <1>6, ReadsSame, CopiesSame DEF client, copies, retry, window, Members, Parked
<1>11. ASSUME ~cflag
       PROVE  /\ {cur} \cap (Reads \cup Copies \cup delayed \cup Members(pending) \cup Parked) = {}
              /\ OneQueued' /\ Queued' \subseteq Queued /\ Credit'
  <2>1. {cur} \cap (Reads \cup Copies \cup delayed \cup Members(pending) \cup Parked) = {}
    BY <1>9, <1>11, OnePlace DEF Inv, Always, Queued
  <2>2. OneQueued'
    <3>1. Distinct(pending)' <=> Distinct(pending)
      BY <1>1 DEF window, Distinct
    <3> QED BY <1>6, <1>11, <2>1, <3>1 DEF Inv, Always, Spread, OneQueued, Parked
  <2>3. Queued' \subseteq Queued
    BY <1>9, <1>10 DEF Queued
  <2>4. Credit'
    BY <1>1, <1>9, <1>10, <1>11, CreditSame DEF Inv, Before, table, window
  <2> QED BY <2>1, <2>2, <2>3, <2>4
<1>12. Spread'
  <2>1. {"waiting", "retries"} \subseteq Places /\ {cur} \in SUBSET Chunks
    BY <1>2 DEF Places
  <2>2. ~cflag => /\ {cur} \cap (Reads \cup Copies) = {} /\ Members(pending)' \cap {cur} = {}
                  /\ delayed' \cap {cur} = {} /\ Members(waiting) \cap {cur} = {}
                  /\ Members(waitingRetries) \cap {cur} = {}
    BY <1>10, <1>11 DEF Parked
  <2>3. CASE Members(waiting)' = Members(waiting) /\ Members(waitingRetries)' = Members(waitingRetries) \cup {cur}
    BY <1>1, <1>9, <1>10, <1>11, <2>1, <2>2, <2>3, RequeuedSpread DEF Inv, Always
  <2>4. CASE Members(waitingRetries)' = Members(waitingRetries) /\ Members(waiting)' = Members(waiting) \cup {cur}
    BY <1>1, <1>9, <1>10, <1>11, <2>1, <2>2, <2>4, RequeuedSpread DEF Inv, Always
  <2> QED BY <1>6, <2>3, <2>4
<1>13. Aborting => Aborting'
  BY <1>1 DEF Aborting
<1> QED BY <1>1, <1>7, <1>8, <1>11, <1>12, <1>13, Requeued

(* resume_waiting takes a parked chunk out, slot and all.                  *)
LEMMA ResumeNextStep ==
  ASSUME Inv, ResumeNext
  PROVE  Inv'
<1>1. /\ pc = "resume"
      /\ UNCHANGED <<ret, code, continues, drained, window, table, retry, copies, pool, client, world>>
      /\ \/ cur'[1] \in live /\ back' = "resume" /\ pc' = "submit"
         \/ cur'[1] \notin live /\ UNCHANGED <<back, pc>>
  BY DEF ResumeNext
<1>2. /\ waiting \in Seq(Chunks) /\ waitingRetries \in Seq(Chunks) /\ quota \in [retries : Nat, fresh : Nat]
      /\ Len(waiting) \in Nat /\ Len(waitingRetries) \in Nat
      /\ quota.retries <= Len(waitingRetries) /\ quota.fresh <= Len(waiting)
  BY <1>1, SeqFacts DEF Inv, Always, Control, Resuming, TypeOK, QueueType, ControlType
<1>3. \/ /\ waitingRetries # <<>> /\ cur' = Head(waitingRetries) /\ waitingRetries' = Tail(waitingRetries)
         /\ quota.retries > 0 /\ quota' = [quota EXCEPT !.retries = @ - 1] /\ UNCHANGED waiting
      \/ /\ waiting # <<>> /\ cur' = Head(waiting) /\ waiting' = Tail(waiting)
         /\ quota.fresh > 0 /\ quota' = [quota EXCEPT !.fresh = @ - 1] /\ UNCHANGED waitingRetries
  <2>1. CASE quota.retries > 0
    <3>1. waitingRetries # <<>>
      BY <1>2, <2>1
    <3> QED BY <2>1, <3>1 DEF ResumeNext
  <2>2. CASE quota.retries = 0 /\ quota.fresh > 0
    <3>1. waiting # <<>>
      BY <1>2, <2>2
    <3> QED BY <2>2, <3>1 DEF ResumeNext
  <2> QED BY <2>1, <2>2 DEF ResumeNext
<1>4. /\ cur' \in Chunks /\ cur' \in Parked
      /\ waiting' \in Seq(Chunks) /\ waitingRetries' \in Seq(Chunks)
      /\ quota' \in [retries : Nat, fresh : Nat]
      /\ quota'.retries <= Len(waitingRetries') /\ quota'.fresh <= Len(waiting')
  <2>1. CASE waitingRetries # <<>> /\ cur' = Head(waitingRetries) /\ waitingRetries' = Tail(waitingRetries)
             /\ quota.retries > 0 /\ quota' = [quota EXCEPT !.retries = @ - 1] /\ UNCHANGED waiting
    <3>1. /\ Head(waitingRetries) \in Chunks /\ Tail(waitingRetries) \in Seq(Chunks)
          /\ Len(Tail(waitingRetries)) = Len(waitingRetries) - 1
      BY <1>2, <2>1, TailFacts
    <3>2. Head(waitingRetries) \in Members(waitingRetries)
      BY <1>2, <2>1, MembersTail
    <3>3. /\ quota' \in [retries : Nat, fresh : Nat]
          /\ quota'.retries = quota.retries - 1 /\ quota'.fresh = quota.fresh
      BY <1>2, <2>1
    <3>4. waitingRetries' = Tail(waitingRetries) /\ waiting' = waiting
      BY <2>1
    <3>5. /\ waitingRetries' \in Seq(Chunks) /\ Len(waitingRetries') = Len(waitingRetries) - 1
          /\ waiting' \in Seq(Chunks) /\ Len(waiting') = Len(waiting)
      BY <1>2, <3>1, <3>4
    <3>6. quota'.retries <= Len(waitingRetries') /\ quota'.fresh <= Len(waiting')
      BY <1>2, <3>3, <3>5
    <3>7. cur' \in Chunks /\ cur' \in Parked
      BY <2>1, <3>1, <3>2 DEF Parked
    <3> QED BY <3>3, <3>5, <3>6, <3>7
  <2>2. CASE waiting # <<>> /\ cur' = Head(waiting) /\ waiting' = Tail(waiting)
             /\ quota.fresh > 0 /\ quota' = [quota EXCEPT !.fresh = @ - 1] /\ UNCHANGED waitingRetries
    <3>1. /\ Head(waiting) \in Chunks /\ Tail(waiting) \in Seq(Chunks)
          /\ Len(Tail(waiting)) = Len(waiting) - 1
      BY <1>2, <2>2, TailFacts
    <3>2. Head(waiting) \in Members(waiting)
      BY <1>2, <2>2, MembersTail
    <3>3. /\ quota' \in [retries : Nat, fresh : Nat]
          /\ quota'.fresh = quota.fresh - 1 /\ quota'.retries = quota.retries
      BY <1>2, <2>2
    <3>4. waiting' = Tail(waiting) /\ waitingRetries' = waitingRetries
      BY <2>2
    <3>5. /\ waiting' \in Seq(Chunks) /\ Len(waiting') = Len(waiting) - 1
          /\ waitingRetries' \in Seq(Chunks) /\ Len(waitingRetries') = Len(waitingRetries)
      BY <1>2, <3>1, <3>4
    <3>6. quota'.retries <= Len(waitingRetries') /\ quota'.fresh <= Len(waiting')
      BY <1>2, <3>3, <3>5
    <3>7. cur' \in Chunks /\ cur' \in Parked
      BY <2>2, <3>1, <3>2 DEF Parked
    <3> QED BY <3>3, <3>5, <3>6, <3>7
  <2> QED BY <1>3, <2>1, <2>2
<1>5. /\ Members(waiting)' \subseteq Members(waiting)
      /\ Members(waitingRetries)' \subseteq Members(waitingRetries)
      /\ Distinct(waiting) /\ Distinct(waitingRetries) => Distinct(waiting)' /\ Distinct(waitingRetries)'
      /\ (/\ Distinct(waiting) /\ Distinct(waitingRetries)
          /\ Members(waiting) \cap Members(waitingRetries) = {}) => Parked' = Parked \ {cur'}
  <2>1. CASE waitingRetries # <<>> /\ cur' = Head(waitingRetries) /\ waitingRetries' = Tail(waitingRetries)
             /\ UNCHANGED waiting
    <3>1. /\ Head(waitingRetries) \in Members(waitingRetries)
          /\ Members(Tail(waitingRetries)) \subseteq Members(waitingRetries)
          /\ Distinct(waitingRetries) => /\ Members(Tail(waitingRetries)) = Members(waitingRetries) \ {cur'}
                                         /\ Distinct(Tail(waitingRetries))
      BY <1>2, <2>1, MembersTail
    <3>2. /\ Members(waitingRetries)' = Members(Tail(waitingRetries))
          /\ Distinct(waitingRetries)' <=> Distinct(Tail(waitingRetries))
          /\ Members(waiting)' = Members(waiting) /\ (Distinct(waiting)' <=> Distinct(waiting))
      BY <2>1 DEF Members, Distinct
    <3>3. Head(waitingRetries) = cur'
      BY <2>1
    <3>4. Parked' = Members(waiting) \cup Members(Tail(waitingRetries))
      BY <3>2 DEF Parked
    <3>5. Distinct(waitingRetries) /\ Members(waiting) \cap Members(waitingRetries) = {} =>
          Parked' = Parked \ {cur'}
      BY <3>1, <3>3, <3>4 DEF Parked
    <3> QED BY <3>1, <3>2, <3>5
  <2>2. CASE waiting # <<>> /\ cur' = Head(waiting) /\ waiting' = Tail(waiting) /\ UNCHANGED waitingRetries
    <3>1. /\ Head(waiting) \in Members(waiting) /\ Members(Tail(waiting)) \subseteq Members(waiting)
          /\ Distinct(waiting) => Members(Tail(waiting)) = Members(waiting) \ {cur'} /\ Distinct(Tail(waiting))
      BY <1>2, <2>2, MembersTail
    <3>2. /\ Members(waiting)' = Members(Tail(waiting)) /\ (Distinct(waiting)' <=> Distinct(Tail(waiting)))
          /\ Members(waitingRetries)' = Members(waitingRetries)
          /\ Distinct(waitingRetries)' <=> Distinct(waitingRetries)
      BY <2>2 DEF Members, Distinct
    <3>3. Head(waiting) = cur'
      BY <2>2
    <3>4. Parked' = Members(Tail(waiting)) \cup Members(waitingRetries)
      BY <3>2 DEF Parked
    <3>5. Distinct(waiting) /\ Members(waiting) \cap Members(waitingRetries) = {} =>
          Parked' = Parked \ {cur'}
      BY <3>1, <3>3, <3>4 DEF Parked
    <3> QED BY <3>1, <3>2, <3>5
  <2> QED BY <1>3, <2>1, <2>2
<1>6. TypeOK'
  <2>1. QueueType'
    BY <1>1, <1>4 DEF Inv, Always, TypeOK, QueueType, retry, window
  <2>2. TableType' /\ OutsideType'
    BY <1>1 DEF Inv, Always, TypeOK, TableType, OutsideType, table, copies, pool, client
  <2>3. ControlType'
    BY <1>1, <1>4 DEF Inv, Always, TypeOK, ControlType, world, Pcs
  <2> QED BY <2>1, <2>2, <2>3 DEF TypeOK
<1>7. Control'
  BY <1>1, <1>4 DEF Inv, Always, Control, world, table, client, Aborting, Resuming
<1>8. /\ Reads' = Reads /\ Copies' = Copies /\ delayed' = delayed /\ Members(pending)' = Members(pending)
      /\ Submitting = {}
  BY <1>1, ReadsSame, CopiesSame DEF client, copies, retry, window, Members, Submitting
<1>9. ASSUME ~cflag
      PROVE  /\ {cur'} \cap (Reads \cup Copies \cup delayed \cup Members(pending)) = {}
             /\ OneQueued' /\ Parked' = Parked \ {cur'} /\ Submitting' = {cur'}
             /\ Queued' \subseteq Queued /\ Credit'
  <2>1. {cur'} \cap (Reads \cup Copies \cup delayed \cup Members(pending)) = {}
        /\ Members(waiting) \cap Members(waitingRetries) = {}
    BY <1>4, <1>9, OnePlace DEF Inv, Always, Queued
  <2>2. Distinct(pending) /\ Distinct(waiting) /\ Distinct(waitingRetries)
    BY <1>9 DEF Inv, Always, Spread, OneQueued
  <2>3. OneQueued' /\ Parked' = Parked \ {cur'}
    <3>1. Distinct(pending)'
      BY <1>1, <2>2 DEF window, Distinct
    <3> QED BY <1>5, <2>1, <2>2, <3>1 DEF OneQueued
  <2>4. cur'[1] \in live
    BY <1>4, <1>9 DEF Inv, Before, InTable, Queued
  <2>5. Submitting' = {cur'}
    BY <1>1, <1>4, <2>4 DEF Submitting
  <2>6. Queued' \subseteq Queued
    BY <1>4, <1>8, <2>3, <2>5 DEF Queued
  <2>7. Credit'
    BY <1>1, <1>4, <1>8, <1>9, <2>3, <2>5, CreditSame DEF Inv, Before, table, window
  <2> QED BY <2>1, <2>3, <2>5, <2>6, <2>7
<1>10. Spread'
  <2>1. "submit" \in Places /\ {cur'} \in SUBSET Chunks
    BY <1>4 DEF Places
  <2>2. ~cflag => /\ {cur'} \cap (Reads \cup Copies) = {} /\ Members(pending)' \cap {cur'} = {}
                  /\ delayed' \cap {cur'} = {} /\ Members(waiting)' \cap {cur'} = {}
                  /\ Members(waitingRetries)' \cap {cur'} = {}
    BY <1>8, <1>9 DEF Parked
  <2>3. PICK c : c = cur'
    OBVIOUS
  <2> QED BY <1>1, <1>5, <1>8, <1>9, <2>1, <2>2, <2>3, RequeuedSpread DEF Inv, Always
<1>11. Aborting => Aborting'
  BY <1>1 DEF Aborting
<1> QED BY <1>1, <1>6, <1>7, <1>9, <1>10, <1>11, Requeued

-----------------------------------------------------------------------------
(* A chunk leaves the one place it was in, and ends.                       *)
LEMMA Ended ==
  ASSUME Inv, ~cflag, ~Aborting, NEW c \in Chunks, c[1] \in live, Open(c), NEW r \in Codes,
         NEW slot \in BOOLEAN, EndChunk(c, r, slot), r = "Success" => c \in landed,
         UNCHANGED <<landed, taken, retired, copying, reads, cbroken>>,
         \A i \in DOMAIN events' : \E j \in DOMAIN events : events'[i] = events[j],
         (Queued \cup Copies)' \subseteq (Queued \cup Copies) \ {c},
         (Reads \cup Parked \cup Submitting)' = (Reads \cup Parked \cup Submitting) \ {c},
         Reads' \subseteq Reads, slot <=> c \in Reads \cup Parked \cup Submitting
  PROVE  Before'
<1>1. TypeOK /\ SomeLeft /\ NoFalseSuccess /\ live \subseteq 1..taken /\ Before
  BY DEF Inv, Always, Control
<1>2. InTable /\ Credit /\ Remaining /\ Answering /\ Landing /\ Buffered
  BY <1>1 DEF Before
<1>3. /\ \A x \in Chunks : x # c /\ x[1] \in live /\ Open(x) => x[1] \in live' /\ Open(x)'
      /\ \A v \in live' : IsFiniteSet(Outstanding(v)') /\ remaining'[v] = Cardinality(Outstanding(v)')
      /\ Answering' /\ Buffered'
  BY <1>1, <1>2, EndsBefore
<1>4. live' \subseteq live /\ staging' = [staging EXCEPT ![c] = None]
  BY <1>1, EndsTable
<1>5. \A x \in Chunks : staging'[x] = IF x = c THEN None ELSE staging[x]
  BY <1>1, <1>4 DEF TypeOK, TableType
<1>6. Queued \cup Copies \cup Reads \cup Parked \cup Submitting \subseteq Chunks /\ c \notin Reads'
  BY <1>1, Sites DEF Queued, Copies, Reads, Parked
<1>7. InTable'
  <2>1. ASSUME NEW x \in (Queued \cup Copies)' PROVE x[1] \in live' /\ Open(x)' /\ staging'[x] = None
    <3>1. x # c /\ x \in Queued \cup Copies /\ x \in Chunks
      BY <1>6, <2>1
    <3>2. x[1] \in live /\ Open(x) /\ staging[x] = None
      BY <1>2, <3>1 DEF InTable
    <3> QED BY <1>3, <1>5, <3>1, <3>2
  <2>2. ASSUME NEW x \in Reads'
        PROVE  x[1] <= taken' /\ (x[1] \in live' => Open(x)') /\ (~cbroken' => x[1] \in live')
    <3>1. x # c /\ x \in Reads /\ x \in Chunks
      BY <1>6, <2>2
    <3>2. x[1] <= taken /\ (x[1] \in live => Open(x)) /\ (~cbroken => x[1] \in live)
      BY <1>2, <3>1 DEF InTable
    <3> QED BY <1>3, <1>4, <3>1, <3>2
  <2> QED BY <2>1, <2>2 DEF InTable
<1>8. Credit'
  <2>1. ASSUME NEW x \in Reads \cup Parked \cup Submitting, x # c PROVE x[1] \in live' <=> x[1] \in live
    <3>1. x \in Chunks /\ (x[1] \in live => Open(x))
      BY <1>2, <1>6, <2>1 DEF InTable, Queued
    <3> QED BY <1>3, <1>4, <2>1, <3>1
  <2>2. Holding' = Holding \ {c}
    BY <2>1 DEF Holding
  <2>3. IsFiniteSet(Holding) /\ inflight = Cardinality(Holding) /\ inflight \in Nat
    BY <1>1, <1>2 DEF Credit, TypeOK, QueueType
  <2>4. CASE slot
    <3>1. c \in Holding
      BY <2>4 DEF Holding
    <3>2. IsFiniteSet(Holding \ {c}) /\ Cardinality(Holding \ {c}) = Cardinality(Holding) - 1
      BY <2>3, <3>1, FS_RemoveElement
    <3>3. Cardinality(Holding \ {c}) \in Nat
      BY <3>2, FS_CardinalityType
    <3>4. Complete(1)
      BY <2>4 DEF EndChunk, SlotBack
    <3>5. inflight' = inflight - 1
      BY <2>3, <3>2, <3>3, <3>4 DEF Complete
    <3> QED BY <2>2, <2>3, <3>2, <3>5 DEF Credit
  <2>5. CASE ~slot
    <3>1. inflight' = inflight
      BY <2>5 DEF EndChunk, SlotBack
    <3>2. Holding \ {c} = Holding
      BY <2>5 DEF Holding
    <3> QED BY <2>2, <2>3, <3>1, <3>2 DEF Credit
  <2> QED BY <2>4, <2>5
<1>9. Remaining'
  BY <1>3 DEF Remaining
<1>10. Landing'
  <2>1. ASSUME NEW x \in Reads' PROVE /\ x[1] \in live' <=> x[1] \in live
                                      /\ staging'[x] = staging[x]
    <3>1. x # c /\ x \in Reads /\ x \in Chunks /\ (x[1] \in live => Open(x))
      BY <1>2, <1>6, <2>1 DEF InTable
    <3> QED BY <1>3, <1>4, <1>5, <3>1
  <2>2. ASSUME NEW rd \in reads'
        PROVE  /\ rd.chunk[1] \in live' => staging'[rd.chunk] = rd.buf
               /\ rd.chunk[1] \notin live' /\ rd.buf # None => rd.buf \in retired'
    <3>1. rd.chunk \in Reads' /\ rd \in reads
      BY <2>2 DEF Reads, ChunksOf
    <3> QED BY <1>2, <2>1, <3>1 DEF Landing
  <2>3. ASSUME NEW i \in DOMAIN events', events'[i].ret = "Success", events'[i].chunk[1] \in live',
               staging'[events'[i].chunk] = None
        PROVE  events'[i].chunk \in landed'
    <3>1. events'[i].chunk \in Reads'
      BY <2>3 DEF Reads, ChunksIn
    <3>2. PICK j \in DOMAIN events : events'[i] = events[j]
      BY <2>3
    <3> QED BY <1>2, <2>1, <2>3, <3>1, <3>2 DEF Landing
  <2> QED BY <2>2, <2>3 DEF Landing
<1> QED BY <1>3, <1>7, <1>8, <1>9, <1>10 DEF Before

(* What submit ends: no buffer can be had, or the read is refused.         *)
LEMMA SubmitEndsStep ==
  ASSUME Inv, SubmitUnstaged \/ SubmitRefused
  PROVE  Inv'
<1>1. PICK r \in {"UnknownError", "FileAccessError", "FinishedError"} : EndChunk(cur, r, TRUE)
  BY DEF SubmitUnstaged, SubmitRefused
<1>2. /\ pc = "submit" /\ Known(cur) /\ pc' = back
      /\ UNCHANGED <<up, pending, ret, back, cur, quota, code, continues, drained, taken, stopped,
                     landed, retired, attempts, delayed, parked, copies, client>>
      /\ faults' = faults \/ faults' = faults + 1
      /\ deadline' = deadline \/ deadline' = [deadline EXCEPT ![cur] = IF @ = "unset" THEN "running" ELSE @]
  BY DEF SubmitUnstaged, SubmitRefused, Fault, retry, world
<1>3. cur \in Chunks /\ cur[1] \in live /\ r \in Codes /\ back \in {"pump", "resume"} /\ ~Aborting
  BY <1>1, <1>2 DEF Inv, Always, Control, TypeOK, ControlType, Known, Codes, Aborting
<1>4. /\ TableType' /\ live' \subseteq live /\ inflight' \in Nat
      /\ \A w \in live' : remaining'[w] > 0
      /\ \A w \in DOMAIN Work, f \in Files : ferr'[w][f] # "Success"
      /\ free' \subseteq Buffers
  BY <1>1, <1>3, EndsTable DEF Inv, Always
<1>5. TypeOK'
  <2>1. QueueType'
    BY <1>2, <1>4 DEF Inv, Always, TypeOK, QueueType, parked
  <2>2. OutsideType'
    BY <1>2, <1>4 DEF Inv, Always, TypeOK, OutsideType, copies, client
  <2>3. ControlType'
    BY <1>2, <1>3 DEF Inv, Always, TypeOK, ControlType, Pcs
  <2> QED BY <1>4, <2>1, <2>2, <2>3 DEF TypeOK
<1>6. Control'
  BY <1>2, <1>3, <1>4 DEF Inv, Always, Control, parked, client, Aborting, Resuming
<1>7. Submitting' = {} /\ Submitting = {cur}
  BY <1>2, <1>3 DEF Submitting
<1>8. Spread' /\ CopyCount'
  BY <1>2, <1>7, SpreadSame, CopyCountSame DEF Inv, Always, parked, copies, client
<1>9. SomeLeft' /\ NoFalseSuccess'
  BY <1>2, <1>4 DEF Inv, Always, SomeLeft, NoFalseSuccess, copies
<1>10. ASSUME ~cflag' PROVE Before'
  <2>1. ~cflag /\ Open(cur)
    BY <1>2, <1>7, <1>10 DEF client, Inv, Before, InTable, Queued
  <2>2. Reads' = Reads /\ Copies' = Copies /\ Parked' = Parked /\ Members(pending)' = Members(pending)
    BY <1>2, ReadsSame, CopiesSame, ParkedSame DEF copies, client, Members
  <2>3. cur \notin Reads \cup Copies \cup delayed \cup Members(pending) \cup Parked
    BY <1>7, <2>1, OnePlace DEF Inv, Always, Queued
  <2>4. (Queued \cup Copies)' \subseteq (Queued \cup Copies) \ {cur}
    BY <1>2, <1>7, <2>2, <2>3 DEF Queued
  <2>5. (Reads \cup Parked \cup Submitting)' = (Reads \cup Parked \cup Submitting) \ {cur}
    BY <1>7, <2>2, <2>3
  <2>6. \A i \in DOMAIN events' : \E j \in DOMAIN events : events'[i] = events[j]
    BY <1>2 DEF client
  <2>7. r # "Success" /\ TRUE \in BOOLEAN /\ (TRUE <=> cur \in Reads \cup Parked \cup Submitting)
    BY <1>1, <1>7
  <2> QED BY <1>1, <1>2, <1>3, <2>1, <2>2, <2>4, <2>5, <2>6, <2>7, Ended DEF copies, client
<1> QED BY <1>5, <1>6, <1>8, <1>9, <1>10 DEF Inv, Always

(* async_read returns, with an error if the client was stopped since.      *)
LEMMA ReadIssuedStep ==
  ASSUME Inv, ReadIssued
  PROVE  Inv'
<1>1. /\ pc = "issued" /\ pc' = back
      /\ \/ cflag /\ EndChunk(cur, "FinishedError", TRUE)
         \/ ~cflag /\ UNCHANGED <<table, inflight, free>>
      /\ UNCHANGED <<up, pending, ret, back, cur, quota, code, continues, drained,
                     retired, retry, parked, copies, client, world>>
  BY DEF ReadIssued
<1>2. cur \in Chunks /\ cur[1] \in live /\ back \in {"pump", "resume"} /\ ~Aborting
  BY <1>1 DEF Inv, Always, Control, TypeOK, ControlType, Aborting
<1>3. CASE ~cflag
  <2>1. UNCHANGED <<window, table, retry, parked, copies, pool, client, world>>
    BY <1>1, <1>3 DEF window, pool
  <2>2. ControlType'
    BY <1>1, <1>2 DEF Inv, Always, TypeOK, ControlType, Pcs, world
  <2>3. Control'
    BY <1>1, <1>2, <2>1 DEF Inv, Always, Control, parked, client, world, table, Aborting, Resuming
  <2>4. Submitting' = Submitting
    BY <1>1, <1>2 DEF Submitting
  <2> QED BY <1>2, <2>1, <2>2, <2>3, <2>4, Steered
<1>4. CASE cflag
  <2>1. EndChunk(cur, "FinishedError", TRUE) /\ "FinishedError" \in Codes
    BY <1>1, <1>4 DEF Codes
  <2>2. /\ TableType' /\ live' \subseteq live /\ inflight' \in Nat
        /\ \A w \in live' : remaining'[w] > 0
        /\ \A w \in DOMAIN Work, f \in Files : ferr'[w][f] # "Success"
        /\ free' \subseteq Buffers
    BY <1>2, <2>1, EndsTable DEF Inv, Always
  <2>3. TypeOK'
    <3>1. QueueType' /\ OutsideType'
      BY <1>1, <2>2 DEF Inv, Always, TypeOK, QueueType, OutsideType, parked, retry, copies, client
    <3>2. ControlType'
      BY <1>1, <1>2 DEF Inv, Always, TypeOK, ControlType, Pcs, world
    <3> QED BY <2>2, <3>1, <3>2 DEF TypeOK
  <2>4. Control'
    BY <1>1, <1>2, <2>2 DEF Inv, Always, Control, parked, client, world, Aborting, Resuming
  <2>5. Spread' /\ CopyCount'
    BY <1>1, <1>4, SpreadSame, CopyCountSame DEF Inv, Always, parked, copies, client, retry
  <2>6. SomeLeft' /\ NoFalseSuccess'
    BY <1>1, <2>2 DEF Inv, Always, SomeLeft, NoFalseSuccess, copies, world
  <2> QED BY <1>1, <1>4, <2>3, <2>4, <2>5, <2>6 DEF Inv, Always, client
<1> QED BY <1>3, <1>4

-----------------------------------------------------------------------------
(* The environment.  A deadline that passes, a client that breaks or is    *)
(* stopped, and a pool that is stopped move no chunk.                      *)
LEMMA Quiet ==
  ASSUME Inv, UNCHANGED <<window, table, attempts, delayed, parked, copies, pool, reads, events,
                          control, taken, landed>>,
         deadline' \in [Chunks -> {"unset", "running", "expired"}], faults' \in Nat,
         cflag' \in BOOLEAN, cstopped' \in BOOLEAN, cbroken' \in BOOLEAN, stopped' \in BOOLEAN,
         stopped' => cstopped', cstopped' => cflag', cflag => cflag', cbroken => cbroken'
  PROVE  Inv'
<1>1. TypeOK'
  <2>1. TableType' /\ QueueType'
    BY DEF Inv, Always, TypeOK, TableType, QueueType, window, table, parked
  <2>2. OutsideType'
    BY DEF Inv, Always, TypeOK, OutsideType, copies, pool
  <2>3. ControlType'
    BY DEF Inv, Always, TypeOK, ControlType, control
  <2> QED BY <2>1, <2>2, <2>3 DEF TypeOK
<1>2. Reads' = Reads /\ Copies' = Copies /\ Parked' = Parked /\ Submitting' = Submitting /\ Queued' = Queued
  <2>1. Submitting' = Submitting /\ Members(pending)' = Members(pending)
    BY DEF control, window, Submitting, Members
  <2> QED BY <2>1, ReadsSame, CopiesSame, ParkedSame DEF Queued, copies
<1>3. Control'
  BY <1>2 DEF Inv, Always, Control, control, window, table, parked, copies, Aborting, Resuming
<1>4. Spread' /\ CopyCount' /\ NoFalseSuccess' /\ SomeLeft'
  <2>1. Aborting => Aborting'
    BY DEF Aborting, control
  <2> QED BY <1>2, <2>1, SpreadSame, CopyCountSame, NoFalseSame, RemainingSame
          DEF Inv, Always, window, table, parked, copies
<1>5. ASSUME ~cflag' PROVE Before'
  <2>1. ~cflag /\ Before
    BY <1>5 DEF Inv
  <2>2. InTable'
    <3>1. \A c : Open(c)' <=> Open(c)
      BY DEF Open, table
    <3> QED BY <1>2, <2>1, <3>1 DEF Before, InTable, table
  <2>3. Credit'
    BY <1>2, <2>1, CreditSame DEF Before, window, table
  <2>4. Remaining' /\ Answering'
    <3>1. Aborting => Aborting'
      BY DEF Aborting, control
    <3> QED BY <2>1, <3>1, RemainingSame, AnsweringSame DEF Before
  <2>5. Landing' /\ Buffered'
    BY <2>1, LandingSame, BufferedSame DEF Before, table, copies, pool
  <2> QED BY <2>2, <2>3, <2>4, <2>5 DEF Before
<1> QED BY <1>1, <1>3, <1>4, <1>5 DEF Inv, Always

(* The steps that move no chunk.                                           *)
LEMMA QuietStep ==
  ASSUME Inv, (\E c \in Chunks : Expire(c)) \/ BreakClient \/ StopClient \/ StopResponder \/ StopPool
  PROVE  Inv'
<1>1. /\ deadline \in [Chunks -> {"unset", "running", "expired"}] /\ faults \in Nat
      /\ cflag \in BOOLEAN /\ cstopped \in BOOLEAN /\ cbroken \in BOOLEAN /\ stopped \in BOOLEAN
      /\ (stopped => cstopped) /\ (cstopped => cflag)
  BY DEF Inv, Always, TypeOK, QueueType, OutsideType, ControlType, Control
<1>2. CASE \E c \in Chunks : Expire(c)
  <2>1. PICK c \in Chunks : Expire(c)
    BY <1>2
  <2>2. /\ deadline' = [deadline EXCEPT ![c] = "expired"]
        /\ UNCHANGED <<window, table, attempts, delayed, parked, copies, pool, reads, events,
                          control, taken, landed, cflag, cstopped, cbroken, stopped, faults>>
    BY <2>1 DEF Expire, client, world
  <2>3. deadline' \in [Chunks -> {"unset", "running", "expired"}]
    BY <1>1, <2>2
  <2> QED BY <1>1, <2>2, <2>3, Quiet
<1>3. CASE BreakClient
  <2>1. /\ cbroken' = TRUE /\ faults' = faults + 1
        /\ UNCHANGED <<window, table, attempts, delayed, parked, copies, pool, reads, events,
                          control, taken, landed, cflag, cstopped, stopped, deadline>>
    BY <1>3 DEF BreakClient, Fault, retry
  <2>2. cbroken' \in BOOLEAN /\ faults' \in Nat /\ cbroken'
    BY <1>1, <2>1
  <2> QED BY <1>1, <2>1, <2>2, Quiet
<1>4. CASE StopClient
  <2>1. /\ cflag' = TRUE
        /\ UNCHANGED <<window, table, attempts, delayed, parked, copies, pool, reads, events,
                          control, taken, landed, cbroken, cstopped, stopped, deadline, faults>>
    BY <1>4 DEF StopClient, retry, world
  <2>2. cflag' \in BOOLEAN /\ cflag'
    BY <1>1, <2>1
  <2> QED BY <1>1, <2>1, <2>2, Quiet
<1>5. CASE StopResponder
  <2>1. /\ cflag /\ cstopped' = TRUE
        /\ UNCHANGED <<window, table, attempts, delayed, parked, copies, pool, reads, events,
                          control, taken, landed, cbroken, cflag, stopped, deadline, faults>>
    BY <1>5 DEF StopResponder, retry, world
  <2>2. cstopped' \in BOOLEAN /\ cstopped' /\ cflag'
    BY <1>1, <2>1
  <2> QED BY <1>1, <2>1, <2>2, Quiet
<1>6. CASE StopPool
  <2>1. /\ cstopped /\ stopped' = TRUE
        /\ UNCHANGED <<window, table, attempts, delayed, parked, copies, pool, reads, events,
                          control, taken, landed, cbroken, cflag, cstopped, deadline, faults>>
    BY <1>6 DEF StopPool, retry, client
  <2>2. stopped' \in BOOLEAN /\ cstopped'
    BY <1>1, <2>1
  <2> QED BY <1>1, <2>1, <2>2, Quiet
<1> QED BY <1>2, <1>3, <1>4, <1>5, <1>6

(* A read ends: its chunk goes from the plugin's reads to its completions. *)
LEMMA ReadLandsStep ==
  ASSUME Inv, NEW rd \in reads, NEW r \in ReadCodes, ReadLands(rd, r)
  PROVE  Inv'
<1> DEFINE e == [chunk |-> rd.chunk, ret |-> r]
<1>1. /\ faults' \in Nat /\ reads' = reads \ {rd}
      /\ events' = IF cstopped THEN events ELSE Append(events, e)
      /\ landed' = IF r = "Success" /\ rd.buf = None THEN landed \cup {rd.chunk} ELSE landed
      /\ UNCHANGED <<cflag, cstopped, cbroken, taken, stopped,
                     window, table, retry, parked, copies, pool, control>>
  BY DEF ReadLands, Fault, Inv, Always, TypeOK, ControlType
<1>2. /\ reads \subseteq Read /\ events \in Seq(Report) /\ rd.chunk \in Chunks /\ e \in Report
      /\ OneEach(reads) /\ OneIn(events) /\ (cstopped => cflag)
  BY DEF Inv, Always, TypeOK, OutsideType, Spread, OneOutside, Read, Report, Codes, ReadCodes, Control
<1> HIDE DEF e
<1>3. e.chunk = rd.chunk /\ e.ret = r
  BY DEF e
<1>4. /\ rd.chunk \in ChunksOf(reads) /\ rd.chunk \notin ChunksIn(events)
      /\ ChunksOf(reads)' = ChunksOf(reads) \ {rd.chunk} /\ OneEach(reads)'
  <2>1. /\ ChunksOf(reads \ {rd}) = ChunksOf(reads) \ {rd.chunk} /\ rd.chunk \in ChunksOf(reads)
        /\ OneEach(reads \ {rd})
    BY <1>2, ChunksRemove
  <2>2. ChunksOf(reads)' = ChunksOf(reads \ {rd}) /\ (OneEach(reads)' <=> OneEach(reads \ {rd}))
    BY <1>1 DEF ChunksOf, OneEach
  <2>3. rd.chunk \notin ChunksIn(events)
    BY <2>1, OnePlace DEF Inv, Always
  <2> QED BY <2>1, <2>2, <2>3
<1>5. /\ Append(events, e) \in Seq(Report) /\ ChunksIn(Append(events, e)) = ChunksIn(events) \cup {rd.chunk}
      /\ \A i \in DOMAIN Append(events, e) : Append(events, e)[i] = e \/ \E j \in DOMAIN events : Append(events, e)[i] = events[j]
      /\ OneIn(Append(events, e))
  BY <1>2, <1>3, <1>4, ReportsAppend
<1>6. /\ events' \in Seq(Report) /\ OneIn(events)'
      /\ ChunksIn(events)' = IF cstopped THEN ChunksIn(events) ELSE ChunksIn(events) \cup {rd.chunk}
      /\ \A i \in DOMAIN events' : events'[i] = e \/ \E j \in DOMAIN events : events'[i] = events[j]
  <2>1. CASE cstopped
    <3>1. events' = events
      BY <1>1, <2>1
    <3> QED BY <1>2, <2>1, <3>1 DEF OneIn, ChunksIn
  <2>2. CASE ~cstopped
    <3>1. events' = Append(events, e)
      BY <1>1, <2>2
    <3>2. (OneIn(events)' <=> OneIn(Append(events, e))) /\ ChunksIn(events)' = ChunksIn(Append(events, e))
      BY <3>1 DEF OneIn, ChunksIn
    <3> QED BY <1>5, <2>2, <3>1, <3>2
  <2> QED BY <2>1, <2>2
<1>7. landed' \subseteq Chunks /\ landed \subseteq landed'
  BY <1>1, <1>2 DEF Inv, Always, TypeOK, ControlType
<1>8. TypeOK'
  <2>1. TableType' /\ QueueType'
    BY <1>1 DEF Inv, Always, TypeOK, TableType, QueueType, window, table, retry, parked
  <2>2. OutsideType'
    BY <1>1, <1>2, <1>6 DEF Inv, Always, TypeOK, OutsideType, copies, pool
  <2>3. ControlType'
    BY <1>1, <1>7 DEF Inv, Always, TypeOK, ControlType, control
  <2> QED BY <2>1, <2>2, <2>3 DEF TypeOK
<1>9. /\ Reads' \subseteq Reads /\ (~cflag => Reads' = Reads)
      /\ Copies' = Copies /\ Parked' = Parked /\ Submitting' = Submitting /\ Queued' = Queued
  <2>1. Submitting' = Submitting /\ Members(pending)' = Members(pending)
    BY <1>1 DEF control, window, Submitting, Members
  <2>2. Reads' \subseteq Reads /\ (~cflag => Reads' = Reads)
    BY <1>2, <1>4, <1>6 DEF Reads
  <2> QED BY <1>1, <2>1, <2>2, CopiesSame, ParkedSame DEF Queued, copies, retry
<1>10. Control'
  BY <1>1, <1>9 DEF Inv, Always, Control, control, window, table, retry, parked, copies, Aborting, Resuming
<1>11. Spread'
  <2>1. OneOutside' /\ (~cflag' => ~cflag /\ OneQueued')
    BY <1>1, <1>4, <1>6 DEF Inv, Always, Spread, OneOutside, OneQueued, OneEach, OneIn, Distinct, copies, window, parked
  <2>2. "event" \in Places /\ {rd.chunk} \in SUBSET Chunks
    BY <1>2 DEF Places
  <2>3. /\ ChunksOf(copying)' = ChunksOf(copying) /\ ChunksOf(reporting)' = ChunksOf(reporting)
        /\ ChunksIn(copyDone)' = ChunksIn(copyDone) /\ Members(pending)' = Members(pending)
        /\ Members(waiting)' = Members(waiting) /\ Members(waitingRetries)' = Members(waitingRetries)
        /\ delayed' = delayed
    BY <1>1 DEF copies, window, parked, retry, ChunksOf, ChunksIn, Members
  <2>4. {rd.chunk} \cap Copies = {}
    BY <1>4, OnePlace DEF Inv, Always, Reads
  <2>5. ~cflag => {rd.chunk} \cap Queued = {}
    BY <1>4, OnePlace DEF Inv, Always, Reads
  <2>6. /\ ChunksOf(reads)' \cap {rd.chunk} = {} /\ ChunksOf(copying)' \cap {rd.chunk} = {}
        /\ ChunksOf(reporting)' \cap {rd.chunk} = {} /\ ChunksIn(copyDone)' \cap {rd.chunk} = {}
        /\ ChunksIn(events)' \subseteq ChunksIn(events) \cup {rd.chunk}
        /\ ChunksOf(reads)' \subseteq ChunksOf(reads)
    BY <1>4, <1>6, <2>3, <2>4 DEF Copies
  <2>7. ~cflag' => /\ Submitting' \cap {rd.chunk} = {} /\ delayed' \cap {rd.chunk} = {}
                   /\ Members(pending)' \cap {rd.chunk} = {} /\ Members(waiting)' \cap {rd.chunk} = {}
                   /\ Members(waitingRetries)' \cap {rd.chunk} = {}
    BY <1>1, <1>9, <2>3, <2>5 DEF Queued, Parked
  <2>8. TypeOK /\ Spread
    BY DEF Inv, Always
  <2> QED BY <1>9, <2>1, <2>2, <2>3, <2>6, <2>7, <2>8, Moved
<1>12. CopyCount' /\ NoFalseSuccess' /\ SomeLeft' /\ (Aborting => Aborting')
  <2>1. Aborting => Aborting'
    BY <1>1 DEF Aborting, control
  <2> QED BY <1>1, <1>7, <2>1, CopyCountSame, NoFalseSame, RemainingSame DEF Inv, Always, table
<1>13. ASSUME ~cflag' PROVE Before'
  <2>1. ~cflag /\ Before
    BY <1>1, <1>13 DEF Inv
  <2>2. InTable'
    BY <1>1, <1>9, <2>1, InTableSame DEF Before
  <2>3. Credit'
    BY <1>1, <1>9, <2>1, CreditSame DEF Before, window, table
  <2>4. Remaining' /\ Answering'
    BY <1>1, <1>7, <1>12, <2>1, RemainingSame, AnsweringSame DEF Before
  <2>5. Landing'
    <3>1. ASSUME NEW x \in reads'
          PROVE  /\ x.chunk[1] \in live' => staging'[x.chunk] = x.buf
                 /\ x.chunk[1] \notin live' /\ x.buf # None => x.buf \in retired'
      BY <1>1, <2>1, <3>1 DEF Before, Landing, table, pool
    <3>2. ASSUME NEW i \in DOMAIN events', events'[i].ret = "Success", events'[i].chunk[1] \in live',
                 staging'[events'[i].chunk] = None
          PROVE  events'[i].chunk \in landed'
      <4>1. CASE events'[i] = e
        <5>1. rd.chunk[1] \in live /\ staging[rd.chunk] = None /\ r = "Success"
          BY <1>1, <1>3, <3>2, <4>1 DEF table
        <5>2. rd.buf = None
          BY <2>1, <5>1 DEF Before, Landing
        <5> QED BY <1>1, <1>3, <4>1, <5>1, <5>2
      <4>2. CASE \E j \in DOMAIN events : events'[i] = events[j]
        BY <1>1, <1>7, <2>1, <3>2, <4>2 DEF Before, Landing, table
      <4> QED BY <1>6, <3>2, <4>1, <4>2
    <3> QED BY <3>1, <3>2 DEF Landing
  <2>6. Buffered'
    BY <1>1, <2>1, BufferedSame DEF Before, copies
  <2> QED BY <2>2, <2>3, <2>4, <2>5, <2>6 DEF Before
<1> QED BY <1>8, <1>10, <1>11, <1>12, <1>13 DEF Inv, Always

(* A copy ends: its buffer goes back, its chunk waits to be reported.      *)
LEMMA CopyLandsStep ==
  ASSUME Inv, NEW cp \in copying, NEW r \in CopyCodes, CopyLands(cp, r)
  PROVE  Inv'
<1> DEFINE d == [chunk |-> cp.chunk, ret |-> r]
<1>1. /\ faults' \in Nat /\ copying' = copying \ {cp} /\ reporting' = reporting \cup {d}
      /\ \/ free' = free \cup {cp.buf} /\ UNCHANGED retired
         \/ retired' = retired \cup {cp.buf} /\ UNCHANGED free
      /\ landed' = IF r = "Success" THEN landed \cup {cp.chunk} ELSE landed
      /\ UNCHANGED <<copiesIssued, copyDone, taken, stopped, window, table, retry, parked, client, control>>
  BY DEF CopyLands, Fault, Inv, Always, TypeOK, ControlType
<1>2. /\ copying \subseteq Copy /\ reporting \subseteq Report /\ cp.chunk \in Chunks /\ cp.buf \in Buffers
      /\ d \in Report /\ OneEach(copying) /\ OneEach(reporting)
  BY DEF Inv, Always, TypeOK, OutsideType, Spread, OneOutside, Copy, Report, Codes, CopyCodes
<1> HIDE DEF d
<1>3. d.chunk = cp.chunk /\ d.ret = r
  BY DEF d
<1>4. /\ cp.chunk \in ChunksOf(copying) /\ cp.chunk \notin ChunksOf(reporting)
      /\ ChunksOf(copying)' = ChunksOf(copying) \ {cp.chunk} /\ OneEach(copying)'
  <2>1. /\ ChunksOf(copying \ {cp}) = ChunksOf(copying) \ {cp.chunk} /\ cp.chunk \in ChunksOf(copying)
        /\ OneEach(copying \ {cp})
    BY <1>2, ChunksRemove
  <2>2. ChunksOf(copying)' = ChunksOf(copying \ {cp}) /\ (OneEach(copying)' <=> OneEach(copying \ {cp}))
    BY <1>1 DEF ChunksOf, OneEach
  <2>3. cp.chunk \notin ChunksOf(reporting)
    BY <2>1, OnePlace DEF Inv, Always
  <2> QED BY <2>1, <2>2, <2>3
<1>5. ChunksOf(reporting)' = ChunksOf(reporting) \cup {cp.chunk} /\ OneEach(reporting)'
  <2>1. /\ ChunksOf(reporting \cup {d}) = ChunksOf(reporting) \cup {cp.chunk} /\ OneEach(reporting \cup {d})
    BY <1>2, <1>3, <1>4, ChunksAdd
  <2>2. ChunksOf(reporting)' = ChunksOf(reporting \cup {d}) /\ (OneEach(reporting)' <=> OneEach(reporting \cup {d}))
    BY <1>1 DEF ChunksOf, OneEach
  <2> QED BY <2>1, <2>2
<1>6. landed' \subseteq Chunks /\ landed \subseteq landed' /\ retired \subseteq retired'
  BY <1>1, <1>2 DEF Inv, Always, TypeOK, ControlType
<1>7. TypeOK'
  <2>1. TableType' /\ QueueType'
    BY <1>1 DEF Inv, Always, TypeOK, TableType, QueueType, window, table, retry, parked
  <2>2. free' \subseteq Buffers /\ retired' \subseteq Buffers
    BY <1>1, <1>2 DEF Inv, Always, TypeOK, OutsideType
  <2>3. OutsideType'
    BY <1>1, <1>2, <2>2 DEF Inv, Always, TypeOK, OutsideType, client
  <2>4. ControlType'
    BY <1>1, <1>6 DEF Inv, Always, TypeOK, ControlType, control
  <2> QED BY <2>1, <2>3, <2>4 DEF TypeOK
<1>8. /\ Reads' = Reads /\ Copies' = Copies /\ Parked' = Parked /\ Submitting' = Submitting /\ Queued' = Queued
      /\ ChunksIn(copyDone)' = ChunksIn(copyDone) /\ ChunksOf(reads)' = ChunksOf(reads)
      /\ ChunksIn(events)' = ChunksIn(events) /\ Members(pending)' = Members(pending)
      /\ Members(waiting)' = Members(waiting) /\ Members(waitingRetries)' = Members(waitingRetries)
      /\ delayed' = delayed
  <2>1. /\ Submitting' = Submitting /\ Members(pending)' = Members(pending)
        /\ ChunksIn(copyDone)' = ChunksIn(copyDone) /\ ChunksOf(reads)' = ChunksOf(reads)
        /\ ChunksIn(events)' = ChunksIn(events) /\ delayed' = delayed
        /\ Members(waiting)' = Members(waiting) /\ Members(waitingRetries)' = Members(waitingRetries)
    BY <1>1 DEF control, window, client, parked, retry, Submitting, Members, ChunksIn, ChunksOf
  <2> QED BY <1>4, <1>5, <2>1 DEF Queued, Parked, Reads, Copies
<1>9. Control'
  BY <1>1, <1>8 DEF Inv, Always, Control, control, window, table, retry, parked, client, Aborting, Resuming
<1>10. Spread'
  <2>1. OneOutside' /\ (~cflag' => ~cflag /\ OneQueued')
    BY <1>1, <1>4, <1>5 DEF Inv, Always, Spread, OneOutside, OneQueued, OneEach, OneIn, Distinct, client, window, parked
  <2>2. "reporting" \in Places /\ {cp.chunk} \in SUBSET Chunks
    BY <1>2 DEF Places
  <2>3. {cp.chunk} \cap (Reads \cup ChunksIn(copyDone)) = {} /\ (~cflag => {cp.chunk} \cap Queued = {})
    BY <1>4, OnePlace DEF Inv, Always, Copies
  <2>4. /\ ChunksOf(reads)' \cap {cp.chunk} = {} /\ ChunksIn(events)' \cap {cp.chunk} = {}
        /\ ChunksOf(copying)' \cap {cp.chunk} = {} /\ ChunksIn(copyDone)' \cap {cp.chunk} = {}
        /\ ChunksOf(copying)' \subseteq ChunksOf(copying)
    BY <1>4, <1>8, <2>3 DEF Reads
  <2>5. ~cflag' => /\ Submitting' \cap {cp.chunk} = {} /\ delayed' \cap {cp.chunk} = {}
                   /\ Members(pending)' \cap {cp.chunk} = {} /\ Members(waiting)' \cap {cp.chunk} = {}
                   /\ Members(waitingRetries)' \cap {cp.chunk} = {}
    BY <1>1, <1>8, <2>3 DEF Queued, Parked, client
  <2>6. TypeOK /\ Spread
    BY DEF Inv, Always
  <2> QED BY <1>5, <1>8, <2>1, <2>2, <2>4, <2>5, <2>6, Moved
<1>11. CopyCount' /\ SomeLeft' /\ (Aborting => Aborting')
  <2>1. Aborting => Aborting'
    BY <1>1 DEF Aborting, control
  <2> QED BY <1>1, <1>8, <2>1, RemainingSame DEF Inv, Always, CopyCount
<1>12. NoFalseSuccess'
  BY <1>1, <1>3, <1>6 DEF Inv, Always, NoFalseSuccess, table
<1>13. ASSUME ~cflag' PROVE Before'
  <2>1. ~cflag /\ Before
    BY <1>1, <1>13 DEF Inv, client
  <2>2. InTable' /\ Credit'
    BY <1>1, <1>8, <2>1, InTableSame, CreditSame DEF Before, window, table, client
  <2>3. Remaining' /\ Answering'
    BY <1>1, <1>6, <1>11, <2>1, RemainingSame, AnsweringSame DEF Before
  <2>4. Landing'
    BY <1>1, <1>6, <2>1, LandingSame DEF Before, table, client
  <2>5. Buffered'
    <3>1. \A c : Open(c)' <=> Open(c)
      BY <1>1 DEF Open, table
    <3>2. /\ cp.buf \notin free \cup retired /\ \A c \in Chunks : staging[c] # cp.buf
          /\ \A x \in copying' : x.buf # cp.buf /\ x \in copying
      BY <1>1, <2>1 DEF Before, Buffered
    <3>3. live' = live /\ staging' = staging
      BY <1>1 DEF table
    <3>4. free' \cap retired' = {}
      BY <1>1, <2>1, <3>2 DEF Before, Buffered
    <3>5. ASSUME NEW c \in Chunks, staging'[c] # None
          PROVE  c[1] \in live' /\ Open(c)' /\ staging'[c] \notin free' \cup retired'
      BY <1>1, <2>1, <3>1, <3>2, <3>3, <3>5 DEF Before, Buffered
    <3>6. ASSUME NEW x \in copying'
          PROVE  /\ x.buf \in Buffers /\ x.buf \notin free' \cup retired'
                 /\ \A c \in Chunks : staging'[c] # x.buf
      BY <1>1, <2>1, <3>2, <3>3, <3>6 DEF Before, Buffered
    <3>7. ASSUME NEW b \in Buffers
          PROVE  \/ b \in free' \cup retired'
                 \/ \E c \in Chunks : staging'[c] = b
                 \/ \E x \in copying' : x.buf = b
      <4>1. CASE b = cp.buf
        BY <1>1, <4>1
      <4>2. CASE b # cp.buf
        BY <1>1, <2>1, <3>3, <4>2 DEF Before, Buffered
      <4> QED BY <4>1, <4>2
    <3>8. \A x, y \in copying' : x.buf = y.buf => x = y
      BY <1>1, <2>1 DEF Before, Buffered
    <3>9. \A c, x \in Chunks : staging'[c] = staging'[x] /\ staging'[c] # None => c = x
      BY <2>1, <3>3 DEF Before, Buffered
    <3> QED BY <3>4, <3>5, <3>6, <3>7, <3>8, <3>9 DEF Buffered
  <2> QED BY <2>2, <2>3, <2>4, <2>5 DEF Before
<1> QED BY <1>7, <1>9, <1>10, <1>11, <1>12, <1>13 DEF Inv, Always

(* The completions of copies change, and chunks leave the copies only      *)
(* while the worker aborts.                                                *)
LEMMA Reported ==
  ASSUME Inv, UNCHANGED <<copying, window, table, retry, parked, pool, client, control, world>>,
         copiesIssued' \in Nat, reporting' \subseteq reporting, OneIn(copyDone'), copyDone' \in Seq(Report),
         \A i \in DOMAIN copyDone' : \/ copyDone'[i] \in reporting
                                     \/ \E j \in DOMAIN copyDone : copyDone'[i] = copyDone[j],
         NEW c \in Chunks, ChunksIn(copyDone)' \subseteq ChunksIn(copyDone) \cup {c}, c \in Copies,
         c \notin ChunksOf(copying)' \cup ChunksOf(reporting)', Copies' \subseteq Copies, CopyCount', pc # "exit"
  PROVE  Inv'
<1>1. TypeOK'
  <2>1. TableType' /\ QueueType'
    BY DEF Inv, Always, TypeOK, TableType, QueueType, window, table, retry, parked
  <2>2. OutsideType'
    BY DEF Inv, Always, TypeOK, OutsideType, pool, client
  <2>3. ControlType'
    BY DEF Inv, Always, TypeOK, ControlType, control, world
  <2> QED BY <2>1, <2>2, <2>3 DEF TypeOK
<1>2. /\ Reads' = Reads /\ Parked' = Parked /\ Submitting' = Submitting /\ Queued' = Queued
      /\ ChunksOf(copying)' = ChunksOf(copying) /\ ChunksOf(reads)' = ChunksOf(reads)
      /\ ChunksIn(events)' = ChunksIn(events) /\ Members(pending)' = Members(pending)
      /\ Members(waiting)' = Members(waiting) /\ Members(waitingRetries)' = Members(waitingRetries)
      /\ delayed' = delayed
  <2>1. /\ Submitting' = Submitting /\ Members(pending)' = Members(pending)
        /\ ChunksOf(copying)' = ChunksOf(copying) /\ ChunksOf(reads)' = ChunksOf(reads)
        /\ ChunksIn(events)' = ChunksIn(events) /\ delayed' = delayed
        /\ Members(waiting)' = Members(waiting) /\ Members(waitingRetries)' = Members(waitingRetries)
    BY DEF control, window, client, parked, retry, Submitting, Members, ChunksIn, ChunksOf
  <2> QED BY <2>1 DEF Queued, Parked, Reads
<1>3. Control'
  BY <1>2 DEF Inv, Always, Control, control, window, table, retry, parked, client, world, Aborting, Resuming
<1>4. Spread'
  <2>1. ChunksOf(reporting)' \subseteq ChunksOf(reporting)
    BY DEF ChunksOf
  <2>2. OneOutside' /\ (~cflag' => ~cflag /\ OneQueued')
    BY DEF Inv, Always, Spread, OneOutside, OneQueued, OneEach, OneIn, Distinct, client, window, parked
  <2>3. "done" \in Places /\ {c} \in SUBSET Chunks
    BY DEF Places
  <2>4. {c} \cap Reads = {} /\ (~cflag => {c} \cap Queued = {})
    BY OnePlace DEF Inv, Always
  <2>5. /\ ChunksOf(reads)' \cap {c} = {} /\ ChunksIn(events)' \cap {c} = {}
        /\ ChunksOf(copying)' \cap {c} = {} /\ ChunksOf(reporting)' \cap {c} = {}
    BY <1>2, <2>4 DEF Reads
  <2>6. ~cflag' => /\ Submitting' \cap {c} = {} /\ delayed' \cap {c} = {}
                   /\ Members(pending)' \cap {c} = {} /\ Members(waiting)' \cap {c} = {}
                   /\ Members(waitingRetries)' \cap {c} = {}
    BY <1>2, <2>4 DEF Queued, Parked, client
  <2>7. TypeOK /\ Spread
    BY DEF Inv, Always
  <2> QED BY <1>2, <2>1, <2>2, <2>3, <2>5, <2>6, <2>7, Moved
<1>5. Aborting => Aborting'
  BY DEF Aborting, control
<1>6. SomeLeft'
  BY <1>5, RemainingSame DEF Inv, Always
<1>7. NoFalseSuccess'
  <2>1. ASSUME NEW i \in DOMAIN copyDone', copyDone'[i].ret = "Success" PROVE copyDone'[i].chunk \in landed'
    BY <2>1 DEF Inv, Always, NoFalseSuccess, world
  <2> QED BY <2>1 DEF Inv, Always, NoFalseSuccess, table, world
<1>8. ASSUME ~cflag' PROVE Before'
  <2>1. ~cflag /\ Before
    BY <1>8 DEF Inv, client
  <2>2. InTable' /\ Credit'
    BY <1>2, <2>1, InTableSame, CreditSame DEF Before, window, table, client, world
  <2>3. Remaining' /\ Answering'
    BY <1>5, <2>1, RemainingSame, AnsweringSame DEF Before, world
  <2>4. Landing' /\ Buffered'
    BY <2>1, LandingSame, BufferedSame DEF Before, table, client, pool, world
  <2> QED BY <2>2, <2>3, <2>4 DEF Before
<1> QED BY <1>1, <1>3, <1>4, <1>6, <1>7, <1>8 DEF Inv, Always

(* A copy is reported to the worker.                                       *)
LEMMA CopyReportsStep ==
  ASSUME Inv, NEW d \in reporting, CopyReports(d)
  PROVE  Inv'
<1>1. /\ reporting' = reporting \ {d} /\ copyDone' = Append(copyDone, d)
      /\ UNCHANGED <<copiesIssued, copying, window, table, retry, parked, pool, client, control, world>>
  BY DEF CopyReports
<1>2. /\ reporting \subseteq Report /\ copyDone \in Seq(Report) /\ d.chunk \in Chunks /\ d \in Report
      /\ OneEach(reporting) /\ OneIn(copyDone) /\ copiesIssued \in Nat
  BY DEF Inv, Always, TypeOK, OutsideType, Spread, OneOutside, Report
<1>3. /\ ChunksOf(reporting \ {d}) = ChunksOf(reporting) \ {d.chunk} /\ d.chunk \in ChunksOf(reporting)
      /\ OneEach(reporting \ {d})
  BY <1>2, ChunksRemove
<1>4. d.chunk \notin ChunksIn(copyDone) \cup ChunksOf(copying) /\ d.chunk \in Copies
  BY <1>3, OnePlace DEF Inv, Always, Copies
<1>5. /\ Append(copyDone, d) \in Seq(Report) /\ ChunksIn(Append(copyDone, d)) = ChunksIn(copyDone) \cup {d.chunk}
      /\ \A i \in DOMAIN Append(copyDone, d) : Append(copyDone, d)[i] = d \/ \E j \in DOMAIN copyDone : Append(copyDone, d)[i] = copyDone[j]
      /\ OneIn(Append(copyDone, d))
  BY <1>2, <1>4, ReportsAppend
<1>6. /\ ChunksOf(reporting)' = ChunksOf(reporting) \ {d.chunk}
      /\ ChunksIn(copyDone)' = ChunksIn(copyDone) \cup {d.chunk} /\ ChunksOf(copying)' = ChunksOf(copying)
  <2>1. /\ ChunksOf(reporting)' = ChunksOf(reporting \ {d}) /\ ChunksIn(copyDone)' = ChunksIn(Append(copyDone, d))
        /\ ChunksOf(copying)' = ChunksOf(copying)
    BY <1>1 DEF ChunksOf, ChunksIn
  <2> QED BY <1>3, <1>5, <2>1
<1>7. Copies' = Copies
  BY <1>3, <1>6 DEF Copies
<1>8. CopyCount'
  BY <1>1, <1>7 DEF Inv, Always, CopyCount
<1>9. pc # "exit"
  <2> SUFFICES ASSUME pc = "exit" PROVE FALSE
    OBVIOUS
  <2>1. copiesIssued = 0 /\ IsFiniteSet(Copies) /\ copiesIssued = Cardinality(Copies)
    BY DEF Inv, Always, Control, CopyCount
  <2>2. Copies = {}
    BY <2>1, FS_EmptySet
  <2> QED BY <1>4, <2>2
<1>10. /\ copiesIssued' \in Nat /\ reporting' \subseteq reporting
       /\ OneIn(copyDone') /\ copyDone' \in Seq(Report)
       /\ \A i \in DOMAIN copyDone' : \/ copyDone'[i] \in reporting
                                      \/ \E j \in DOMAIN copyDone : copyDone'[i] = copyDone[j]
  BY <1>1, <1>2, <1>5
<1> QED BY <1>1, <1>2, <1>4, <1>6, <1>7, <1>8, <1>9, <1>10, Reported

(* A completion the abort drains.                                          *)
LEMMA QuiesceCopyStep ==
  ASSUME Inv, QuiesceCopy
  PROVE  Inv'
<1>1. /\ copyDone # <<>> /\ copyDone' = Tail(copyDone) /\ copiesIssued' = copiesIssued - 1 /\ pc = "quiesceCopies"
      /\ copiesIssued > 0
      /\ UNCHANGED <<reporting, copying, window, table, retry, parked, pool, client, control, world>>
  BY DEF QuiesceCopy
<1>2. copyDone \in Seq(Report) /\ OneIn(copyDone) /\ copiesIssued \in Nat
  BY DEF Inv, Always, TypeOK, OutsideType, Spread, OneOutside
<1>3. PICK c : c = Head(copyDone).chunk
  OBVIOUS
<1>4. /\ Head(copyDone) \in Report /\ Tail(copyDone) \in Seq(Report) /\ c \in ChunksIn(copyDone)
      /\ \A i \in DOMAIN Tail(copyDone) : \E j \in DOMAIN copyDone : Tail(copyDone)[i] = copyDone[j]
      /\ OneIn(Tail(copyDone)) /\ ChunksIn(Tail(copyDone)) = ChunksIn(copyDone) \ {c}
  BY <1>1, <1>2, <1>3, ReportsTail
<1>5. c \in Chunks /\ c \in Copies /\ c \notin ChunksOf(copying) \cup ChunksOf(reporting)
  BY <1>3, <1>4, OnePlace DEF Inv, Always, Copies, Report
<1>6. /\ ChunksIn(copyDone)' = ChunksIn(copyDone) \ {c} /\ ChunksOf(copying)' = ChunksOf(copying)
      /\ ChunksOf(reporting)' = ChunksOf(reporting)
  <2>1. /\ ChunksIn(copyDone)' = ChunksIn(Tail(copyDone)) /\ ChunksOf(copying)' = ChunksOf(copying)
        /\ ChunksOf(reporting)' = ChunksOf(reporting)
    BY <1>1 DEF ChunksIn, ChunksOf
  <2> QED BY <1>4, <2>1
<1>7. Copies' = Copies \ {c}
  BY <1>5, <1>6 DEF Copies
<1>8. CopyCount'
  <2>1. IsFiniteSet(Copies) /\ copiesIssued = Cardinality(Copies)
    BY DEF Inv, Always, CopyCount
  <2>2. IsFiniteSet(Copies \ {c}) /\ Cardinality(Copies \ {c}) = Cardinality(Copies) - 1
    BY <1>5, <2>1, FS_RemoveElement
  <2> QED BY <1>1, <1>7, <2>1, <2>2 DEF CopyCount
<1>9. /\ copiesIssued' \in Nat /\ reporting' \subseteq reporting /\ OneIn(copyDone') /\ copyDone' \in Seq(Report)
      /\ \A i \in DOMAIN copyDone' : \/ copyDone'[i] \in reporting
                                     \/ \E j \in DOMAIN copyDone : copyDone'[i] = copyDone[j]
  BY <1>1, <1>2, <1>4
<1> QED BY <1>1, <1>5, <1>6, <1>7, <1>8, <1>9, Reported

-----------------------------------------------------------------------------
(* A slot goes back.                                                       *)
LEMMA CreditLess ==
  ASSUME TypeOK, Credit, NEW c \in Holding, Holding' = Holding \ {c}, Complete(1)
  PROVE  Credit'
<1>1. IsFiniteSet(Holding) /\ inflight = Cardinality(Holding) /\ inflight \in Nat
  BY DEF Credit, TypeOK, QueueType
<1>2. IsFiniteSet(Holding \ {c}) /\ Cardinality(Holding \ {c}) = Cardinality(Holding) - 1
  BY <1>1, FS_RemoveElement
<1>3. Cardinality(Holding \ {c}) \in Nat
  BY <1>2, FS_CardinalityType
<1>4. inflight' = inflight - 1
  BY <1>1, <1>2, <1>3 DEF Complete
<1> QED BY <1>1, <1>2, <1>4 DEF Credit

(* async_read: the chunk being submitted goes to the plugin.               *)
LEMMA SubmitReadStep ==
  ASSUME Inv, SubmitRead
  PROVE  Inv'
<1>1. PICK b \in IF IsDevice(cur) THEN free ELSE {None} :
        /\ reads' = reads \cup {[chunk |-> cur, buf |-> b]}
        /\ staging' = [staging EXCEPT ![cur] = b]
        /\ free' = free \ {b}
  BY DEF SubmitRead
<1>2. /\ pc = "submit" /\ Known(cur) /\ ~cflag /\ pc' = "issued"
      /\ deadline' = [deadline EXCEPT ![cur] = IF @ = "unset" THEN "running" ELSE @]
      /\ UNCHANGED <<live, remaining, ferr, failed, answer, attempts, delayed, retired,
                     ret, back, cur, quota, code, continues, drained,
                     events, cflag, cstopped, cbroken, window, parked, copies, world>>
  BY DEF SubmitRead
<1>3. /\ cur \in Chunks /\ cur[1] \in live /\ Before /\ Submitting = {cur} /\ Submitting' = {}
      /\ Open(cur) /\ staging[cur] = None
  <2>1. cur \in Chunks /\ Before
    BY <1>2 DEF Inv, Always, Control
  <2>2. Submitting = {cur} /\ Submitting' = {}
    BY <1>2, <2>1 DEF Submitting
  <2> QED BY <2>1, <2>2 DEF Before, InTable, Queued
<1> DEFINE rd == [chunk |-> cur, buf |-> b]
<1>4. b \in free \cup {None} /\ b \in Buffers \cup {None} /\ None \notin Buffers
  BY <1>1, BuffersAssumption DEF Inv, Always, TypeOK, OutsideType
<1>5. rd \in Read /\ rd.chunk = cur /\ rd.buf = b
  BY <1>3, <1>4 DEF Read
<1>6. reads' = reads \cup {rd}
  BY <1>1
<1> HIDE DEF rd
<1>7. cur \notin Reads \cup Copies \cup delayed \cup Members(pending) \cup Parked
  BY <1>2, <1>3, OnePlace DEF Inv, Always, Queued
<1>8. ChunksOf(reads)' = ChunksOf(reads) \cup {cur} /\ OneEach(reads)'
  <2>1. ChunksOf(reads \cup {rd}) = ChunksOf(reads) \cup {cur} /\ OneEach(reads \cup {rd})
    BY <1>5, <1>7, ChunksAdd DEF Inv, Always, Spread, OneOutside, Reads
  <2>2. ChunksOf(reads)' = ChunksOf(reads \cup {rd}) /\ (OneEach(reads)' <=> OneEach(reads \cup {rd}))
    BY <1>6 DEF ChunksOf, OneEach
  <2> QED BY <2>1, <2>2
<1>9. \A x \in Chunks : staging'[x] = IF x = cur THEN b ELSE staging[x]
  BY <1>1, <1>3 DEF Inv, Always, TypeOK, TableType
<1>10. TypeOK'
  <2>1. TableType'
    BY <1>1, <1>2, <1>4 DEF Inv, Always, TypeOK, TableType
  <2>2. QueueType'
    BY <1>2 DEF Inv, Always, TypeOK, QueueType, window, parked
  <2>3. OutsideType'
    BY <1>1, <1>2, <1>5, <1>6 DEF Inv, Always, TypeOK, OutsideType, copies
  <2>4. ControlType'
    BY <1>2 DEF Inv, Always, TypeOK, ControlType, Pcs, world
  <2> QED BY <2>1, <2>2, <2>3, <2>4 DEF TypeOK
<1>11. Control'
  BY <1>2, <1>3 DEF Inv, Always, Control, parked, world, Aborting, Resuming
<1>12. /\ Copies' = Copies /\ Parked' = Parked /\ Members(pending)' = Members(pending)
       /\ Members(waiting)' = Members(waiting) /\ Members(waitingRetries)' = Members(waitingRetries)
       /\ ChunksIn(events)' = ChunksIn(events) /\ ChunksOf(copying)' = ChunksOf(copying)
       /\ ChunksOf(reporting)' = ChunksOf(reporting) /\ ChunksIn(copyDone)' = ChunksIn(copyDone)
       /\ Reads' = Reads \cup {cur}
  <2>1. /\ Members(pending)' = Members(pending)
        /\ Members(waiting)' = Members(waiting) /\ Members(waitingRetries)' = Members(waitingRetries)
        /\ ChunksIn(events)' = ChunksIn(events) /\ ChunksOf(copying)' = ChunksOf(copying)
        /\ ChunksOf(reporting)' = ChunksOf(reporting) /\ ChunksIn(copyDone)' = ChunksIn(copyDone)
    BY <1>2 DEF copies, window, parked, Members, ChunksOf, ChunksIn
  <2> QED BY <1>8, <2>1 DEF Copies, Parked, Reads
<1>13. Spread'
  <2>1. OneOutside' /\ (~cflag' => ~cflag /\ OneQueued')
    BY <1>2, <1>8 DEF Inv, Always, Spread, OneOutside, OneQueued, OneEach, OneIn, Distinct, copies, window, parked
  <2>2. "read" \in Places /\ {cur} \in SUBSET Chunks
    BY <1>3 DEF Places
  <2>3. /\ ChunksIn(events)' \cap {cur} = {} /\ ChunksOf(copying)' \cap {cur} = {}
        /\ ChunksOf(reporting)' \cap {cur} = {} /\ ChunksIn(copyDone)' \cap {cur} = {}
        /\ Submitting' \cap {cur} = {} /\ delayed' \cap {cur} = {} /\ Members(pending)' \cap {cur} = {}
        /\ Members(waiting)' \cap {cur} = {} /\ Members(waitingRetries)' \cap {cur} = {}
    BY <1>2, <1>3, <1>7, <1>12 DEF Reads, Copies, Parked
  <2>4. TypeOK /\ Spread /\ delayed' = delayed /\ Submitting' \subseteq Submitting
    BY <1>2, <1>3 DEF Inv, Always
  <2> QED BY <1>8, <1>12, <2>1, <2>2, <2>3, <2>4, Moved
<1>14. CopyCount' /\ NoFalseSuccess' /\ SomeLeft'
  <2>1. SomeLeft'
    BY <1>2 DEF Inv, Always, SomeLeft, Aborting
  <2> QED BY <1>2, <2>1, CopyCountSame, NoFalseSame DEF Inv, Always, world
<1>15. \A c : Open(c)' <=> Open(c)
  BY <1>2 DEF Open
<1>16. Queued \cup Copies \cup Reads \subseteq Chunks
  BY Sites DEF Inv, Always, Queued, Copies, Reads, Parked
<1>17. InTable'
  <2>1. ASSUME NEW c \in (Queued \cup Copies)' PROVE c[1] \in live' /\ Open(c)' /\ staging'[c] = None
    <3>1. c \in Queued \cup Copies /\ c # cur
      BY <1>2, <1>3, <1>7, <1>12, <2>1 DEF Queued
    <3>2. c \in Chunks
      BY <1>16, <3>1
    <3> QED BY <1>2, <1>3, <1>9, <1>15, <3>1, <3>2 DEF Before, InTable
  <2>2. ASSUME NEW c \in Reads'
        PROVE  c[1] <= taken' /\ (c[1] \in live' => Open(c)') /\ (~cbroken' => c[1] \in live')
    <3>1. cur[1] \in 1..taken /\ taken \in Nat /\ taken' = taken
      BY <1>2, <1>3, TakenFacts DEF Inv, Always, Control, world
    <3> QED BY <1>2, <1>3, <1>12, <1>15, <2>2, <3>1 DEF Before, InTable
  <2> QED BY <2>1, <2>2 DEF InTable
<1>18. Credit'
  <2>1. (Reads \cup Parked \cup Submitting)' = Reads \cup Parked \cup Submitting
    BY <1>3, <1>12
  <2> QED BY <1>2, <1>3, <2>1, CreditSame DEF Before, window
<1>19. Remaining' /\ Answering'
  <2>1. \A w : Outstanding(w)' = Outstanding(w)
    BY <1>15 DEF Outstanding
  <2>2. Remaining'
    BY <1>2, <1>3, <2>1 DEF Before, Remaining, Aborting
  <2>3. Answering'
    BY <1>2, <1>3, <1>15 DEF Before, Answering, world
  <2> QED BY <2>2, <2>3
<1>20. Landing'
  <2>1. ASSUME NEW x \in reads'
        PROVE  /\ x.chunk[1] \in live' => staging'[x.chunk] = x.buf
               /\ x.chunk[1] \notin live' /\ x.buf # None => x.buf \in retired'
    <3>1. CASE x = rd
      BY <1>2, <1>3, <1>5, <1>9, <3>1
    <3>2. CASE x \in reads
      <4>1. x.chunk \in Reads /\ x.chunk # cur /\ x.chunk \in Chunks
        BY <1>7, <1>16, <3>2 DEF Reads, ChunksOf
      <4> QED BY <1>2, <1>3, <1>9, <3>2, <4>1 DEF Before, Landing
    <3> QED BY <1>6, <2>1, <3>1, <3>2
  <2>2. ASSUME NEW i \in DOMAIN events', events'[i].ret = "Success", events'[i].chunk[1] \in live',
               staging'[events'[i].chunk] = None
        PROVE  events'[i].chunk \in landed'
    <3>1. events[i].chunk \in Reads /\ events[i].chunk # cur /\ events[i].chunk \in Chunks
      BY <1>2, <1>7, <1>16, <2>2 DEF Reads, ChunksIn
    <3> QED BY <1>2, <1>3, <1>9, <2>2, <3>1 DEF Before, Landing, world
  <2> QED BY <2>1, <2>2 DEF Landing
<1>21. Buffered'
  <2>1. free' \cap retired' = {} /\ free' = free \ {b} /\ retired' = retired
    BY <1>1, <1>2, <1>3 DEF Before, Buffered
  <2>2. ASSUME NEW x \in Chunks, x # cur, staging[x] # None
        PROVE  staging[x] # b /\ x[1] \in live /\ Open(x) /\ staging[x] \notin free \cup retired
    BY <1>3, <1>4, <2>2 DEF Before, Buffered
  <2>3. ASSUME NEW x \in Chunks, staging'[x] # None
        PROVE  x[1] \in live' /\ Open(x)' /\ staging'[x] \notin free' \cup retired'
    <3>1. CASE x = cur
      <4>1. b \in free /\ b \notin retired
        BY <1>3, <1>4, <1>9, <2>3, <3>1 DEF Before, Buffered
      <4> QED BY <1>2, <1>3, <1>9, <1>15, <2>1, <3>1, <4>1
    <3>2. CASE x # cur
      BY <1>2, <1>9, <1>15, <2>1, <2>2, <2>3, <3>2
    <3> QED BY <3>1, <3>2
  <2>4. ASSUME NEW x \in Chunks, NEW y \in Chunks, staging'[x] = staging'[y], staging'[x] # None PROVE x = y
    <3>1. CASE x = cur
      BY <1>9, <2>2, <2>4, <3>1
    <3>2. CASE y = cur
      BY <1>9, <2>2, <2>4, <3>2
    <3>3. CASE x # cur /\ y # cur
      BY <1>3, <1>9, <2>4, <3>3 DEF Before, Buffered
    <3> QED BY <3>1, <3>2, <3>3
  <2>5. ASSUME NEW cp \in copying'
        PROVE  /\ cp.buf \in Buffers /\ cp.buf \notin free' \cup retired'
               /\ \A x \in Chunks : staging'[x] # cp.buf
    <3>1. /\ cp \in copying /\ cp.buf \in Buffers /\ cp.buf \notin free \cup retired
          /\ \A x \in Chunks : staging[x] # cp.buf
      BY <1>2, <1>3, <2>5 DEF Before, Buffered, copies
    <3> QED BY <1>4, <1>9, <2>1, <3>1
  <2>6. \A x, y \in copying' : x.buf = y.buf => x = y
    BY <1>2, <1>3 DEF Before, Buffered, copies
  <2>7. ASSUME NEW z \in Buffers
        PROVE  \/ z \in free' \cup retired'
               \/ \E x \in Chunks : staging'[x] = z
               \/ \E cp \in copying' : cp.buf = z
    <3>1. \/ z \in free \cup retired
          \/ \E x \in Chunks : staging[x] = z
          \/ \E cp \in copying : cp.buf = z
      BY <1>3 DEF Before, Buffered
    <3>2. CASE z = b
      BY <1>3, <1>9, <3>2
    <3>3. CASE z # b
      <4>1. \A x \in Chunks : staging[x] = z => x # cur
        BY <1>3, <1>4
      <4> QED BY <1>2, <1>9, <2>1, <3>1, <3>3, <4>1 DEF copies
    <3> QED BY <3>2, <3>3
  <2> QED BY <2>1, <2>3, <2>4, <2>5, <2>6, <2>7 DEF Buffered
<1> QED BY <1>10, <1>11, <1>13, <1>14, <1>17, <1>18, <1>19, <1>20, <1>21 DEF Inv, Always, Before

(* A copy's completion ends its chunk; its slot went back when the copy    *)
(* was issued.                                                             *)
LEMMA DrainCopyStep ==
  ASSUME Inv, DrainCopy
  PROVE  Inv'
<1>1. /\ pc = "copies" /\ copyDone # <<>> /\ copyDone' = Tail(copyDone) /\ copiesIssued' = copiesIssued - 1
      /\ copiesIssued > 0
      /\ UNCHANGED <<up, pending, copying, reporting, retired, retry, parked, client, control, world>>
  BY DEF DrainCopy
<1>2. PICK d : d = Head(copyDone)
  OBVIOUS
<1>3. PICK c : c = d.chunk
  OBVIOUS
<1>4. \/ c[1] \in live /\ EndChunk(c, d.ret, FALSE)
      \/ c[1] \notin live /\ UNCHANGED <<table, inflight, free>>
  BY <1>2, <1>3 DEF DrainCopy
<1>5. copyDone \in Seq(Report) /\ OneIn(copyDone) /\ copiesIssued \in Nat
  BY DEF Inv, Always, TypeOK, OutsideType, Spread, OneOutside
<1>6. /\ d \in Report /\ Tail(copyDone) \in Seq(Report) /\ c \in ChunksIn(copyDone)
      /\ \A i \in DOMAIN Tail(copyDone) : \E j \in DOMAIN copyDone : Tail(copyDone)[i] = copyDone[j]
      /\ \E j \in DOMAIN copyDone : d = copyDone[j]
      /\ OneIn(Tail(copyDone)) /\ ChunksIn(Tail(copyDone)) = ChunksIn(copyDone) \ {c}
  BY <1>1, <1>2, <1>3, <1>5, ReportsTail
<1>7. /\ c \in Chunks /\ c \in Copies /\ c \notin ChunksOf(copying) \cup ChunksOf(reporting) \cup Reads
      /\ d.ret \in Codes /\ (d.ret = "Success" => c \in landed) /\ ~Aborting
  BY <1>1, <1>3, <1>6, OnePlace DEF Inv, Always, Copies, Report, NoFalseSuccess, Aborting
<1>8. /\ ChunksIn(copyDone)' = ChunksIn(copyDone) \ {c} /\ ChunksOf(copying)' = ChunksOf(copying)
      /\ ChunksOf(reporting)' = ChunksOf(reporting)
  <2>1. /\ ChunksIn(copyDone)' = ChunksIn(Tail(copyDone)) /\ ChunksOf(copying)' = ChunksOf(copying)
        /\ ChunksOf(reporting)' = ChunksOf(reporting)
    BY <1>1 DEF ChunksIn, ChunksOf
  <2> QED BY <1>6, <2>1
<1>9. Copies' = Copies \ {c}
  BY <1>7, <1>8 DEF Copies
<1>10. CopyCount' /\ copiesIssued' \in Nat
  <2>1. IsFiniteSet(Copies) /\ copiesIssued = Cardinality(Copies)
    BY DEF Inv, Always, CopyCount
  <2>2. IsFiniteSet(Copies \ {c}) /\ Cardinality(Copies \ {c}) = Cardinality(Copies) - 1
    BY <1>7, <2>1, FS_RemoveElement
  <2> QED BY <1>1, <1>5, <1>9, <2>1, <2>2 DEF CopyCount
<1>11. /\ TableType' /\ live' \subseteq live /\ inflight' \in Nat /\ free' \subseteq Buffers
       /\ \A w \in live' : remaining'[w] > 0
       /\ \A w \in DOMAIN Work, f \in Files : ferr'[w][f] # "Success"
  <2>1. CASE c[1] \in live /\ EndChunk(c, d.ret, FALSE)
    BY <1>7, <2>1, EndsTable DEF Inv, Always
  <2>2. CASE UNCHANGED <<table, inflight, free>>
    BY <1>7, <2>2 DEF Inv, Always, TypeOK, TableType, QueueType, OutsideType, SomeLeft, NoFalseSuccess, table
  <2> QED BY <1>4, <2>1, <2>2
<1>12. TypeOK'
  <2>1. QueueType'
    BY <1>1, <1>11 DEF Inv, Always, TypeOK, QueueType, parked, retry
  <2>2. OutsideType'
    BY <1>1, <1>6, <1>10, <1>11 DEF Inv, Always, TypeOK, OutsideType, client
  <2>3. ControlType'
    BY <1>1 DEF Inv, Always, TypeOK, ControlType, control, world
  <2> QED BY <1>11, <2>1, <2>2, <2>3 DEF TypeOK
<1>13. Control'
  BY <1>1, <1>11 DEF Inv, Always, Control, control, parked, client, world, Aborting, Resuming
<1>14. /\ Reads' = Reads /\ Parked' = Parked /\ Submitting' = Submitting /\ Queued' = Queued
       /\ ChunksOf(reads)' = ChunksOf(reads) /\ ChunksIn(events)' = ChunksIn(events)
       /\ Members(pending)' = Members(pending) /\ Members(waiting)' = Members(waiting)
       /\ Members(waitingRetries)' = Members(waitingRetries) /\ delayed' = delayed
  <2>1. /\ Submitting' = Submitting /\ Members(pending)' = Members(pending)
        /\ ChunksOf(reads)' = ChunksOf(reads) /\ ChunksIn(events)' = ChunksIn(events) /\ delayed' = delayed
        /\ Members(waiting)' = Members(waiting) /\ Members(waitingRetries)' = Members(waitingRetries)
    BY <1>1 DEF control, client, parked, retry, Submitting, Members, ChunksIn, ChunksOf
  <2> QED BY <2>1 DEF Queued, Parked, Reads
<1>15. Spread'
  <2>1. OneOutside' /\ (~cflag' => ~cflag /\ OneQueued')
    <3>1. OneIn(copyDone)' <=> OneIn(Tail(copyDone))
      BY <1>1 DEF OneIn
    <3> QED BY <1>1, <1>6, <3>1 DEF Inv, Always, Spread, OneOutside, OneQueued, OneEach, OneIn, Distinct, client, parked
  <2>2. "done" \in Places /\ {} \in SUBSET Chunks /\ TypeOK /\ Spread
    BY DEF Places, Inv, Always
  <2> QED BY <1>8, <1>14, <2>1, <2>2, Moved
<1>16. SomeLeft' /\ NoFalseSuccess'
  <2>1. ASSUME NEW i \in DOMAIN copyDone', copyDone'[i].ret = "Success" PROVE copyDone'[i].chunk \in landed'
    <3>1. PICK j \in DOMAIN copyDone : copyDone'[i] = copyDone[j]
      BY <1>1, <1>6, <2>1
    <3> QED BY <1>1, <2>1, <3>1 DEF Inv, Always, NoFalseSuccess, world
  <2>2. \A x \in reporting' : x.ret = "Success" => x.chunk \in landed'
    BY <1>1 DEF Inv, Always, NoFalseSuccess, world
  <2> QED BY <1>11, <2>1, <2>2 DEF SomeLeft, NoFalseSuccess
<1>17. ASSUME ~cflag' PROVE Before'
  <2>1. ~cflag /\ c[1] \in live /\ Open(c)
    BY <1>1, <1>7, <1>17 DEF client, Inv, Before, InTable
  <2>2. EndChunk(c, d.ret, FALSE)
    BY <1>4, <2>1
  <2>3. c \notin Queued \cup Reads \cup Parked \cup Submitting
    BY <1>7, <2>1, OnePlace DEF Inv, Always, Queued
  <2>4. (Queued \cup Copies)' \subseteq (Queued \cup Copies) \ {c}
    BY <1>9, <1>14, <2>3
  <2>5. (Reads \cup Parked \cup Submitting)' = (Reads \cup Parked \cup Submitting) \ {c}
    BY <1>14, <2>3
  <2>6. /\ \A i \in DOMAIN events' : \E j \in DOMAIN events : events'[i] = events[j]
        /\ UNCHANGED <<landed, taken, retired, copying, reads, cbroken>>
    BY <1>1 DEF client, world
  <2>7. FALSE \in BOOLEAN /\ (FALSE <=> c \in Reads \cup Parked \cup Submitting)
    BY <2>3
  <2> QED BY <1>7, <1>14, <2>1, <2>2, <2>4, <2>5, <2>6, <2>7, Ended
<1> QED BY <1>10, <1>12, <1>13, <1>15, <1>16, <1>17 DEF Inv, Always

-----------------------------------------------------------------------------
(* A completion leaves the plugin's queue.                                 *)
LEMMA EventFacts ==
  ASSUME Inv, events # <<>>, events' = Tail(events), reads' = reads, NEW c, c = Head(events).chunk
  PROVE  /\ c \in Chunks /\ c \in ChunksIn(events) /\ c \in Reads
         /\ c \notin ChunksOf(reads) \cup Copies /\ (~cflag => c \notin Queued)
         /\ Head(events).ret \in Codes /\ (\E j \in DOMAIN events : Head(events) = events[j])
         /\ events' \in Seq(Report) /\ OneIn(events)' /\ OneEach(reads)'
         /\ ChunksIn(events)' = ChunksIn(events) \ {c} /\ ChunksOf(reads)' = ChunksOf(reads)
         /\ Reads' = Reads \ {c}
         /\ \A i \in DOMAIN events' : \E j \in DOMAIN events : events'[i] = events[j]
<1>1. events \in Seq(Report) /\ OneIn(events) /\ OneEach(reads) /\ TypeOK /\ Spread
  BY DEF Inv, Always, TypeOK, OutsideType, Spread, OneOutside
<1>2. /\ Head(events) \in Report /\ Tail(events) \in Seq(Report) /\ c \in ChunksIn(events)
      /\ \A i \in DOMAIN Tail(events) : \E j \in DOMAIN events : Tail(events)[i] = events[j]
      /\ \E j \in DOMAIN events : Head(events) = events[j]
      /\ OneIn(Tail(events)) /\ ChunksIn(Tail(events)) = ChunksIn(events) \ {c}
  BY <1>1, ReportsTail
<1>3. c \in Chunks /\ Head(events).ret \in Codes /\ c \in Reads
  BY <1>2 DEF Report, Reads
<1>4. c \notin ChunksOf(reads) \cup Copies /\ (~cflag => c \notin Queued)
  BY <1>1, <1>2, <1>3, OnePlace
<1>5. /\ ChunksIn(events)' = ChunksIn(Tail(events)) /\ (OneIn(events)' <=> OneIn(Tail(events)))
      /\ ChunksOf(reads)' = ChunksOf(reads) /\ (OneEach(reads)' <=> OneEach(reads))
  BY DEF ChunksIn, OneIn, ChunksOf, OneEach
<1>6. Reads' = Reads \ {c}
  BY <1>2, <1>4, <1>5 DEF Reads
<1>7. events' \in Seq(Report) /\ \A i \in DOMAIN events' : \E j \in DOMAIN events : events'[i] = events[j]
  BY <1>2
<1> QED BY <1>1, <1>2, <1>3, <1>4, <1>5, <1>6, <1>7

(* What holds however a completion is routed.                              *)
LEMMA Routed ==
  ASSUME Inv, pc = "wait", pc' = Caller, events # <<>>, events' = Tail(events),
         UNCHANGED <<up, pending, copyDone, reporting, retired, reads, cflag, cstopped, cbroken,
                     ret, back, cur, quota, code, continues, drained, parked, world, deadline>>,
         TableType', live' \subseteq live, inflight' \in Nat, free' \subseteq Buffers,
         attempts' \in [Chunks -> Nat], delayed' \subseteq Chunks, copiesIssued' \in Nat, copying' \subseteq Copy
  PROVE  /\ TypeOK' /\ Control' /\ ~Aborting /\ ~Aborting'
         /\ Parked' = Parked /\ Submitting' = {} /\ Submitting = {}
         /\ Members(pending)' = Members(pending) /\ Members(waiting)' = Members(waiting)
         /\ Members(waitingRetries)' = Members(waitingRetries)
         /\ ChunksOf(reporting)' = ChunksOf(reporting) /\ ChunksIn(copyDone)' = ChunksIn(copyDone)
         /\ OneEach(reporting)' /\ OneIn(copyDone)' /\ (~cflag' => ~cflag /\ OneQueued')
<1>1. pc' \in {"loop", "idle", "prepump"}
  BY CallerFacts DEF Inv, Always
<1>2. events' \in Seq(Report)
  BY EventFacts
<1>3. TypeOK'
  <2>1. QueueType'
    BY DEF Inv, Always, TypeOK, QueueType, parked
  <2>2. OutsideType'
    BY <1>2 DEF Inv, Always, TypeOK, OutsideType
  <2>3. ControlType'
    BY <1>1 DEF Inv, Always, TypeOK, ControlType, world, Pcs
  <2> QED BY <2>1, <2>2, <2>3 DEF TypeOK
<1>4. Control'
  BY <1>1 DEF Inv, Always, Control, parked, world, Aborting, Resuming
<1>5. ~Aborting /\ ~Aborting' /\ Submitting' = {} /\ Submitting = {}
  BY <1>1 DEF Aborting, Submitting
<1>6. /\ Members(pending)' = Members(pending) /\ Members(waiting)' = Members(waiting)
      /\ Members(waitingRetries)' = Members(waitingRetries) /\ Parked' = Parked
      /\ ChunksOf(reporting)' = ChunksOf(reporting) /\ ChunksIn(copyDone)' = ChunksIn(copyDone)
      /\ OneEach(reporting)' /\ OneIn(copyDone)' /\ (~cflag' => ~cflag /\ OneQueued')
  BY DEF Inv, Always, Spread, OneOutside, OneQueued, OneEach, OneIn, Distinct, Members, ChunksOf, ChunksIn, Parked, parked
<1> QED BY <1>3, <1>4, <1>5, <1>6

(* The event is dropped: its chunk is in no queue afterwards.              *)
LEMMA DroppedSpread ==
  ASSUME Inv, events # <<>>, events' = Tail(events), OneEach(copying)', OneEach(reporting)', OneIn(copyDone)',
         reads' = reads, delayed' = delayed, ~cflag' => ~cflag /\ OneQueued', Submitting' \subseteq Submitting,
         ChunksOf(copying)' = ChunksOf(copying), ChunksOf(reporting)' = ChunksOf(reporting),
         ChunksIn(copyDone)' = ChunksIn(copyDone), Members(pending)' = Members(pending),
         Members(waiting)' = Members(waiting), Members(waitingRetries)' = Members(waitingRetries)
  PROVE  Spread'
<1>1. PICK c : c = Head(events).chunk
  OBVIOUS
<1>2. /\ OneIn(events)' /\ OneEach(reads)' /\ ChunksIn(events)' = ChunksIn(events) \ {c}
      /\ ChunksOf(reads)' = ChunksOf(reads)
  BY <1>1, EventFacts
<1>3. "event" \in Places /\ {} \in SUBSET Chunks /\ TypeOK /\ Spread /\ OneOutside'
  BY <1>2 DEF Places, Inv, Always, OneOutside
<1> QED BY <1>2, <1>3, Moved

(* A completion whose workload has left is dropped, which happens only     *)
(* once the client is being stopped.                                       *)
LEMMA DropStep ==
  ASSUME Inv, HandleCompletion, Head(events).chunk[1] \notin live
  PROVE  Inv'
<1>1. /\ pc = "wait" /\ Completion /\ pc' = Caller /\ events # <<>> /\ events' = Tail(events)
      /\ UNCHANGED <<up, pending, copyDone, reporting, retired, reads, cflag, cstopped, cbroken,
                     ret, back, cur, quota, code, continues, drained, parked, world>>
      /\ UNCHANGED <<table, inflight, retry, free, copying, copiesIssued>>
  BY DEF HandleCompletion, Completion
<1>2. PICK c : c = Head(events).chunk
  OBVIOUS
<1>3. cflag
  <2>1. c \in Reads /\ ~cbroken /\ c[1] \notin live
    BY <1>1, <1>2, EventFacts DEF Completion
  <2> QED BY <2>1 DEF Inv, Before, InTable
<1>4. /\ TableType' /\ live' \subseteq live /\ inflight' \in Nat /\ free' \subseteq Buffers
      /\ attempts' \in [Chunks -> Nat] /\ delayed' \subseteq Chunks /\ copiesIssued' \in Nat /\ copying' \subseteq Copy
      /\ deadline' = deadline /\ delayed' = delayed
  BY <1>1 DEF Inv, Always, TypeOK, TableType, QueueType, OutsideType, table, retry
<1>5. /\ TypeOK' /\ Control' /\ ~Aborting /\ Submitting' = {}
      /\ Members(pending)' = Members(pending) /\ Members(waiting)' = Members(waiting)
      /\ Members(waitingRetries)' = Members(waitingRetries)
      /\ ChunksOf(reporting)' = ChunksOf(reporting) /\ ChunksIn(copyDone)' = ChunksIn(copyDone)
      /\ OneEach(reporting)' /\ OneIn(copyDone)' /\ (~cflag' => ~cflag /\ OneQueued')
  BY <1>1, <1>4, Routed
<1>6. OneEach(copying)' /\ ChunksOf(copying)' = ChunksOf(copying)
  BY <1>1 DEF Inv, Always, Spread, OneOutside, OneEach, ChunksOf
<1>7. Spread'
  BY <1>1, <1>4, <1>5, <1>6, DroppedSpread
<1>8. CopyCount' /\ NoFalseSuccess' /\ SomeLeft'
  BY <1>1, <1>5, CopyCountSame, NoFalseSame, RemainingSame DEF Inv, Always, table, world, copies
<1> QED BY <1>1, <1>3, <1>5, <1>7, <1>8 DEF Inv, Always

(* A chunk that ends with its read.                                        *)
LEMMA EndReadStep ==
  ASSUME Inv, HandleCompletion, Head(events).chunk[1] \in live, UNCHANGED <<retry, copying, copiesIssued>>,
         NEW r \in Codes, EndChunk(Head(events).chunk, r, TRUE),
         r = "Success" => Head(events).ret = "Success" /\ staging[Head(events).chunk] = None
  PROVE  Inv'
<1>1. /\ pc = "wait" /\ pc' = Caller /\ events # <<>> /\ events' = Tail(events)
      /\ UNCHANGED <<up, pending, copyDone, reporting, retired, reads, cflag, cstopped, cbroken,
                     ret, back, cur, quota, code, continues, drained, parked, world>>
  BY DEF HandleCompletion, Completion
<1>2. PICK c : c = Head(events).chunk
  OBVIOUS
<1>3. EndChunk(c, r, TRUE) /\ c[1] \in live /\ (r = "Success" => Head(events).ret = "Success" /\ staging[c] = None)
  BY <1>2
<1>4. /\ c \in Chunks /\ c \in Reads /\ c \notin Copies /\ (~cflag => c \notin Queued)
      /\ (\E j \in DOMAIN events : Head(events) = events[j]) /\ Reads' = Reads \ {c}
      /\ \A i \in DOMAIN events' : \E j \in DOMAIN events : events'[i] = events[j]
  BY <1>1, <1>2, EventFacts
<1>5. ~Aborting
  BY <1>1 DEF Aborting
<1>6. /\ TableType' /\ live' \subseteq live /\ inflight' \in Nat /\ free' \subseteq Buffers
      /\ \A w \in live' : remaining'[w] > 0
      /\ \A w \in DOMAIN Work, f \in Files : ferr'[w][f] # "Success"
  BY <1>3, <1>4, <1>5, EndsTable DEF Inv, Always
<1>7. /\ attempts' \in [Chunks -> Nat] /\ delayed' \subseteq Chunks /\ copiesIssued' \in Nat /\ copying' \subseteq Copy
      /\ deadline' = deadline /\ delayed' = delayed
  BY DEF Inv, Always, TypeOK, QueueType, OutsideType, retry
<1>8. /\ TypeOK' /\ Control' /\ Submitting' = {} /\ Submitting = {} /\ Parked' = Parked
      /\ Members(pending)' = Members(pending) /\ Members(waiting)' = Members(waiting)
      /\ Members(waitingRetries)' = Members(waitingRetries)
      /\ ChunksOf(reporting)' = ChunksOf(reporting) /\ ChunksIn(copyDone)' = ChunksIn(copyDone)
      /\ OneEach(reporting)' /\ OneIn(copyDone)' /\ (~cflag' => ~cflag /\ OneQueued')
  BY <1>1, <1>6, <1>7, Routed
<1>9. OneEach(copying)' /\ ChunksOf(copying)' = ChunksOf(copying)
  BY DEF Inv, Always, Spread, OneOutside, OneEach, ChunksOf
<1>10. Spread'
  BY <1>1, <1>7, <1>8, <1>9, DroppedSpread
<1>11. Copies' = Copies
  BY <1>8, <1>9 DEF Copies
<1>12. CopyCount' /\ SomeLeft' /\ NoFalseSuccess'
  BY <1>1, <1>6, <1>11 DEF Inv, Always, CopyCount, SomeLeft, NoFalseSuccess, world
<1>13. ASSUME ~cflag' PROVE Before'
  <2>1. ~cflag /\ Open(c) /\ Landing
    BY <1>1, <1>3, <1>4, <1>13 DEF Inv, Before, InTable
  <2>2. r = "Success" => c \in landed
    <3> SUFFICES ASSUME r = "Success" PROVE c \in landed
      OBVIOUS
    <3>1. PICK j \in DOMAIN events : Head(events) = events[j]
      BY <1>4
    <3> QED BY <1>2, <1>3, <2>1, <3>1 DEF Landing
  <2>3. c \notin Queued \cup Copies \cup Parked \cup Submitting
    BY <1>4, <2>1 DEF Queued
  <2>4. (Queued \cup Copies)' \subseteq (Queued \cup Copies) \ {c}
    BY <1>7, <1>8, <1>11, <2>3 DEF Queued
  <2>5. (Reads \cup Parked \cup Submitting)' = (Reads \cup Parked \cup Submitting) \ {c} /\ Reads' \subseteq Reads
    BY <1>4, <1>8, <2>3
  <2>6. UNCHANGED <<landed, taken, retired, copying, reads, cbroken>>
    BY <1>1 DEF world
  <2>7. TRUE \in BOOLEAN /\ (TRUE <=> c \in Reads \cup Parked \cup Submitting)
    BY <1>4
  <2> QED BY <1>3, <1>4, <1>5, <2>1, <2>2, <2>4, <2>5, <2>6, <2>7, Ended
<1> QED BY <1>8, <1>10, <1>12, <1>13 DEF Inv, Always

(* A read that is over leaves its slot; what its chunk becomes is for the  *)
(* worker to say.                                                          *)
LEMMA Departed ==
  ASSUME Inv, ~cflag, events # <<>>, events' = Tail(events), reads' = reads, NEW c, c = Head(events).chunk,
         c[1] \in live, Complete(1), Parked' = Parked, Submitting = {}, Submitting' = {}, Aborting => Aborting',
         UNCHANGED <<live, remaining, ferr, failed, answer, taken, landed, retired, cbroken>>,
         staging' = staging \/ staging' = [staging EXCEPT ![c] = None],
         (Queued \cup Copies)' \subseteq Queued \cup Copies \cup {c},
         c \in (Queued \cup Copies)' => staging'[c] = None
  PROVE  InTable' /\ Credit' /\ Remaining' /\ Answering' /\ Landing'
<1>1. TypeOK /\ Before
  BY DEF Inv, Always
<1>2. /\ c \in Chunks /\ c \in Reads /\ c \notin Queued \cup Copies /\ Reads' = Reads \ {c}
      /\ \A i \in DOMAIN events' : \E j \in DOMAIN events : events'[i] = events[j]
  BY EventFacts
<1>3. \A x \in Chunks : x # c => staging'[x] = staging[x]
  BY <1>1 DEF TypeOK, TableType
<1>4. \A x : Open(x)' <=> Open(x)
  BY DEF Open
<1>5. Queued \cup Copies \cup Reads \subseteq Chunks
  BY <1>1, Sites DEF Queued, Copies, Reads, Parked
<1>6. InTable'
  <2>1. ASSUME NEW x \in (Queued \cup Copies)' PROVE x[1] \in live' /\ Open(x)' /\ staging'[x] = None
    <3>1. CASE x = c
      BY <1>1, <1>2, <1>4, <2>1, <3>1 DEF Before, InTable
    <3>2. CASE x # c
      <4>1. x \in Queued \cup Copies /\ x \in Chunks
        BY <1>5, <2>1, <3>2
      <4> QED BY <1>1, <1>3, <1>4, <3>2, <4>1 DEF Before, InTable
    <3> QED BY <3>1, <3>2
  <2>2. ASSUME NEW x \in Reads'
        PROVE  x[1] <= taken' /\ (x[1] \in live' => Open(x)') /\ (~cbroken' => x[1] \in live')
    BY <1>1, <1>2, <1>4, <2>2 DEF Before, InTable
  <2> QED BY <2>1, <2>2 DEF InTable
<1>7. Credit'
  <2>1. c \in Holding /\ Holding' = Holding \ {c}
    BY <1>2 DEF Holding, Queued
  <2> QED BY <1>1, <2>1, CreditLess DEF Before
<1>8. Remaining'
  <2>1. \A w : Outstanding(w)' = Outstanding(w)
    BY <1>4 DEF Outstanding
  <2> QED BY <1>1, <2>1 DEF Before, Remaining
<1>9. Answering'
  BY <1>1, <1>4 DEF Before, Answering
<1>10. Landing'
  <2>1. ASSUME NEW rd \in reads'
        PROVE  /\ rd.chunk[1] \in live' => staging'[rd.chunk] = rd.buf
               /\ rd.chunk[1] \notin live' /\ rd.buf # None => rd.buf \in retired'
    <3>1. rd.chunk \in Reads' /\ rd \in reads
      BY <2>1 DEF Reads, ChunksOf
    <3>2. rd.chunk # c /\ rd.chunk \in Chunks
      BY <1>2, <1>5, <3>1
    <3> QED BY <1>1, <1>3, <3>1, <3>2 DEF Before, Landing
  <2>2. ASSUME NEW i \in DOMAIN events', events'[i].ret = "Success", events'[i].chunk[1] \in live',
               staging'[events'[i].chunk] = None
        PROVE  events'[i].chunk \in landed'
    <3>1. events'[i].chunk \in Reads'
      BY <2>2 DEF Reads, ChunksIn
    <3>2. PICK j \in DOMAIN events : events'[i] = events[j]
      BY <1>2, <2>2
    <3>3. events[j].chunk # c /\ events[j].chunk \in Chunks
      BY <1>2, <1>5, <3>1, <3>2
    <3> QED BY <1>1, <1>3, <2>2, <3>2, <3>3 DEF Before, Landing
  <2> QED BY <2>1, <2>2 DEF Landing
<1> QED BY <1>6, <1>7, <1>8, <1>9, <1>10

(* ObjectStorageRetry accepts a failed chunk: its slot and its buffer go   *)
(* back.                                                                   *)
LEMMA RescheduleStep ==
  ASSUME Inv, HandleCompletion, Head(events).chunk[1] \in live, Reschedule(Head(events).chunk)
  PROVE  Inv'
<1>1. /\ pc = "wait" /\ pc' = Caller /\ events # <<>> /\ events' = Tail(events)
      /\ UNCHANGED <<up, pending, copyDone, reporting, retired, reads, cflag, cstopped, cbroken,
                     ret, back, cur, quota, code, continues, drained, parked, world>>
  BY DEF HandleCompletion, Completion
<1>2. PICK c : c = Head(events).chunk
  OBVIOUS
<1>3. /\ c[1] \in live /\ delayed' = delayed \cup {c} /\ attempts' = [attempts EXCEPT ![c] = @ + 1]
      /\ free' = free \cup ({staging[c]} \ {None}) /\ staging' = [staging EXCEPT ![c] = None] /\ Complete(1)
      /\ UNCHANGED <<deadline, live, remaining, ferr, failed, answer, copying, copiesIssued>>
  BY <1>2 DEF Reschedule, Release
<1>4. /\ c \in Chunks /\ c \in Reads /\ c \notin Copies /\ (~cflag => c \notin Queued)
      /\ ChunksIn(events)' = ChunksIn(events) \ {c} /\ ChunksOf(reads)' = ChunksOf(reads)
      /\ OneIn(events)' /\ OneEach(reads)' /\ c \notin ChunksOf(reads)
  BY <1>1, <1>2, EventFacts
<1>5. /\ TableType' /\ live' \subseteq live /\ inflight' \in Nat /\ free' \subseteq Buffers
      /\ attempts' \in [Chunks -> Nat] /\ delayed' \subseteq Chunks /\ copiesIssued' \in Nat /\ copying' \subseteq Copy
  <2>1. staging \in [Chunks -> Buffers \cup {None}] /\ inflight \in Nat /\ attempts \in [Chunks -> Nat]
    BY DEF Inv, Always, TypeOK, TableType, QueueType
  <2>2. staging' \in [Chunks -> Buffers \cup {None}] /\ attempts' \in [Chunks -> Nat] /\ inflight' \in Nat
    BY <1>3, <1>4, <2>1 DEF Complete
  <2> QED BY <1>3, <1>4, <2>1, <2>2 DEF Inv, Always, TypeOK, TableType, QueueType, OutsideType
<1>6. /\ TypeOK' /\ Control' /\ ~Aborting /\ Submitting' = {} /\ Submitting = {} /\ Parked' = Parked
      /\ Members(pending)' = Members(pending) /\ Members(waiting)' = Members(waiting)
      /\ Members(waitingRetries)' = Members(waitingRetries)
      /\ ChunksOf(reporting)' = ChunksOf(reporting) /\ ChunksIn(copyDone)' = ChunksIn(copyDone)
      /\ OneEach(reporting)' /\ OneIn(copyDone)' /\ (~cflag' => ~cflag /\ OneQueued')
  BY <1>1, <1>3, <1>5, Routed
<1>7. OneEach(copying)' /\ ChunksOf(copying)' = ChunksOf(copying)
  BY <1>3 DEF Inv, Always, Spread, OneOutside, OneEach, ChunksOf
<1>8. Copies' = Copies
  BY <1>6, <1>7 DEF Copies
<1>9. Spread'
  <2>1. "delayed" \in Places /\ {c} \in SUBSET Chunks /\ TypeOK /\ Spread /\ OneOutside'
    BY <1>4, <1>6, <1>7 DEF Places, Inv, Always, OneOutside
  <2>2. /\ ChunksOf(reads)' \cap {c} = {} /\ ChunksIn(events)' \cap {c} = {} /\ ChunksOf(copying)' \cap {c} = {}
        /\ ChunksOf(reporting)' \cap {c} = {} /\ ChunksIn(copyDone)' \cap {c} = {} /\ Submitting' \cap {c} = {}
    BY <1>4, <1>6, <1>7 DEF Copies
  <2>3. ~cflag' => /\ Members(pending)' \cap {c} = {} /\ Members(waiting)' \cap {c} = {}
                   /\ Members(waitingRetries)' \cap {c} = {}
    BY <1>1, <1>4, <1>6 DEF Queued, Parked
  <2> QED BY <1>3, <1>4, <1>6, <1>7, <2>1, <2>2, <2>3, Moved
<1>10. CopyCount' /\ SomeLeft' /\ NoFalseSuccess'
  BY <1>1, <1>3, <1>6, <1>8 DEF Inv, Always, CopyCount, SomeLeft, NoFalseSuccess, world
<1>11. ASSUME ~cflag' PROVE Before'
  <2>1. ~cflag /\ Before
    BY <1>1, <1>11 DEF Inv
  <2>2. staging \in [Chunks -> Buffers \cup {None}] /\ None \notin Buffers
    BY BuffersAssumption DEF Inv, Always, TypeOK, TableType
  <2>3. \A x \in Chunks : staging'[x] = IF x = c THEN None ELSE staging[x]
    BY <1>3, <2>2
  <2>4. (Queued \cup Copies)' \subseteq Queued \cup Copies \cup {c}
    BY <1>3, <1>6, <1>8 DEF Queued
  <2>5. InTable' /\ Credit' /\ Remaining' /\ Answering' /\ Landing'
    BY <1>1, <1>2, <1>3, <1>4, <1>6, <2>1, <2>3, <2>4, Departed DEF world
  <2>6. Buffered'
    <3>1. \A x : Open(x)' <=> Open(x)
      BY <1>3 DEF Open
    <3>2. free' \cap retired' = {}
      BY <1>1, <1>3, <1>4, <2>1, <2>2 DEF Before, Buffered
    <3>3. ASSUME NEW x \in Chunks, staging'[x] # None
          PROVE  x[1] \in live' /\ Open(x)' /\ staging'[x] \notin free' \cup retired'
      <4>1. x # c /\ staging'[x] = staging[x]
        BY <2>3, <3>3
      <4>2. x[1] \in live /\ Open(x) /\ staging[x] \notin free \cup retired /\ staging[x] # staging[c]
        BY <1>4, <2>1, <3>3, <4>1 DEF Before, Buffered
      <4> QED BY <1>1, <1>3, <3>1, <4>1, <4>2
    <3>4. ASSUME NEW x \in Chunks, NEW y \in Chunks, staging'[x] = staging'[y], staging'[x] # None PROVE x = y
      BY <2>1, <2>3, <3>4 DEF Before, Buffered
    <3>5. ASSUME NEW cp \in copying'
          PROVE  /\ cp.buf \in Buffers /\ cp.buf \notin free' \cup retired'
                 /\ \A x \in Chunks : staging'[x] # cp.buf
      BY <1>1, <1>3, <1>4, <2>1, <2>2, <2>3, <3>5 DEF Before, Buffered
    <3>6. \A x, y \in copying' : x.buf = y.buf => x = y
      BY <1>3, <2>1 DEF Before, Buffered
    <3>7. ASSUME NEW b \in Buffers
          PROVE  \/ b \in free' \cup retired'
                 \/ \E x \in Chunks : staging'[x] = b
                 \/ \E cp \in copying' : cp.buf = b
      BY <1>1, <1>3, <2>1, <2>2, <2>3, <3>7 DEF Before, Buffered
    <3> QED BY <3>2, <3>3, <3>4, <3>5, <3>6, <3>7 DEF Buffered
  <2> QED BY <2>5, <2>6 DEF Before
<1> QED BY <1>6, <1>9, <1>10, <1>11 DEF Inv, Always

(* A landed device chunk goes to the copy path with its buffer, and its    *)
(* slot goes back.                                                         *)
LEMMA IssueCopyStep ==
  ASSUME Inv, HandleCompletion, Head(events).chunk[1] \in live, IssueCopy(Head(events).chunk),
         staging[Head(events).chunk] # None,
         UNCHANGED <<live, remaining, ferr, failed, answer, free, retry>>
  PROVE  Inv'
<1>1. /\ pc = "wait" /\ pc' = Caller /\ events # <<>> /\ events' = Tail(events)
      /\ UNCHANGED <<up, pending, copyDone, reporting, retired, reads, cflag, cstopped, cbroken,
                     ret, back, cur, quota, code, continues, drained, parked, world>>
  BY DEF HandleCompletion, Completion
<1>2. PICK c : c = Head(events).chunk
  OBVIOUS
<1>3. PICK b : b = staging[c]
  OBVIOUS
<1> DEFINE cp == [chunk |-> c, buf |-> b]
<1>4. /\ c[1] \in live /\ b # None /\ staging' = [staging EXCEPT ![c] = None] /\ Complete(1)
      /\ copying' = copying \cup {cp} /\ copiesIssued' = copiesIssued + 1
  BY <1>2, <1>3 DEF IssueCopy
<1>5. /\ c \in Chunks /\ c \in Reads /\ c \notin Copies /\ (~cflag => c \notin Queued)
      /\ ChunksIn(events)' = ChunksIn(events) \ {c} /\ ChunksOf(reads)' = ChunksOf(reads)
      /\ OneIn(events)' /\ OneEach(reads)' /\ c \notin ChunksOf(reads)
  BY <1>1, <1>2, EventFacts
<1>6. /\ staging \in [Chunks -> Buffers \cup {None}] /\ None \notin Buffers /\ b \in Buffers
      /\ inflight \in Nat /\ copiesIssued \in Nat /\ copying \subseteq Copy
  BY <1>3, <1>4, <1>5, BuffersAssumption DEF Inv, Always, TypeOK, TableType, QueueType, OutsideType
<1>7. cp \in Copy /\ cp.chunk = c /\ cp.buf = b
  BY <1>5, <1>6 DEF Copy
<1> HIDE DEF cp
<1>8. /\ TableType' /\ live' \subseteq live /\ inflight' \in Nat /\ free' \subseteq Buffers /\ delayed' = delayed
      /\ attempts' \in [Chunks -> Nat] /\ delayed' \subseteq Chunks /\ copiesIssued' \in Nat /\ copying' \subseteq Copy
      /\ deadline' = deadline
  <2>1. staging' \in [Chunks -> Buffers \cup {None}] /\ inflight' \in Nat
    BY <1>4, <1>5, <1>6 DEF Complete
  <2> QED BY <1>4, <1>6, <1>7, <2>1 DEF Inv, Always, TypeOK, TableType, QueueType, OutsideType, retry
<1>9. /\ TypeOK' /\ Control' /\ ~Aborting /\ Submitting' = {} /\ Submitting = {} /\ Parked' = Parked
      /\ Members(pending)' = Members(pending) /\ Members(waiting)' = Members(waiting)
      /\ Members(waitingRetries)' = Members(waitingRetries)
      /\ ChunksOf(reporting)' = ChunksOf(reporting) /\ ChunksIn(copyDone)' = ChunksIn(copyDone)
      /\ OneEach(reporting)' /\ OneIn(copyDone)' /\ (~cflag' => ~cflag /\ OneQueued')
  BY <1>1, <1>8, Routed
<1>10. OneEach(copying)' /\ ChunksOf(copying)' = ChunksOf(copying) \cup {c}
  <2>1. ChunksOf(copying \cup {cp}) = ChunksOf(copying) \cup {c} /\ OneEach(copying \cup {cp})
    BY <1>5, <1>7, ChunksAdd DEF Inv, Always, Spread, OneOutside, Copies
  <2>2. ChunksOf(copying)' = ChunksOf(copying \cup {cp}) /\ (OneEach(copying)' <=> OneEach(copying \cup {cp}))
    BY <1>4 DEF ChunksOf, OneEach
  <2> QED BY <2>1, <2>2
<1>11. Copies' = Copies \cup {c}
  BY <1>9, <1>10 DEF Copies
<1>12. Spread'
  <2>1. "copying" \in Places /\ {c} \in SUBSET Chunks /\ TypeOK /\ Spread /\ OneOutside'
    BY <1>5, <1>9, <1>10 DEF Places, Inv, Always, OneOutside
  <2>2. /\ ChunksOf(reads)' \cap {c} = {} /\ ChunksIn(events)' \cap {c} = {}
        /\ ChunksOf(reporting)' \cap {c} = {} /\ ChunksIn(copyDone)' \cap {c} = {} /\ Submitting' \cap {c} = {}
    BY <1>5, <1>9 DEF Copies
  <2>3. ~cflag' => /\ Members(pending)' \cap {c} = {} /\ Members(waiting)' \cap {c} = {}
                   /\ Members(waitingRetries)' \cap {c} = {} /\ delayed' \cap {c} = {}
    BY <1>1, <1>5, <1>8, <1>9 DEF Queued, Parked
  <2> QED BY <1>5, <1>8, <1>9, <1>10, <2>1, <2>2, <2>3, Moved
<1>13. CopyCount'
  <2>1. IsFiniteSet(Copies) /\ copiesIssued = Cardinality(Copies)
    BY DEF Inv, Always, CopyCount
  <2>2. IsFiniteSet(Copies \cup {c}) /\ Cardinality(Copies \cup {c}) = Cardinality(Copies) + 1
    BY <1>5, <2>1, FS_AddElement
  <2> QED BY <1>4, <1>11, <2>1, <2>2 DEF CopyCount
<1>14. SomeLeft' /\ NoFalseSuccess'
  BY <1>1, <1>9 DEF Inv, Always, SomeLeft, NoFalseSuccess, world
<1>15. ASSUME ~cflag' PROVE Before'
  <2>1. ~cflag /\ Before
    BY <1>1, <1>15 DEF Inv
  <2>2. \A x \in Chunks : staging'[x] = IF x = c THEN None ELSE staging[x]
    BY <1>4, <1>6
  <2>3. (Queued \cup Copies)' \subseteq Queued \cup Copies \cup {c}
    BY <1>8, <1>9, <1>11 DEF Queued
  <2>4. InTable' /\ Credit' /\ Remaining' /\ Answering' /\ Landing'
    BY <1>1, <1>2, <1>4, <1>5, <1>9, <2>1, <2>2, <2>3, Departed DEF world
  <2>5. Buffered'
    <3>1. \A x : Open(x)' <=> Open(x)
      BY DEF Open
    <3>2. /\ b \notin free \cup retired /\ \A x \in copying : x.buf # b
          /\ \A x \in Chunks : x # c => staging[x] # b
      BY <1>3, <1>4, <1>5, <2>1 DEF Before, Buffered
    <3>3. ASSUME NEW x \in Chunks, staging'[x] # None
          PROVE  x[1] \in live' /\ Open(x)' /\ staging'[x] \notin free' \cup retired'
      BY <1>1, <2>1, <2>2, <3>1, <3>3 DEF Before, Buffered
    <3>4. ASSUME NEW x \in Chunks, NEW y \in Chunks, staging'[x] = staging'[y], staging'[x] # None PROVE x = y
      BY <2>1, <2>2, <3>4 DEF Before, Buffered
    <3>5. ASSUME NEW z \in copying'
          PROVE  /\ z.buf \in Buffers /\ z.buf \notin free' \cup retired'
                 /\ \A x \in Chunks : staging'[x] # z.buf
      <4>1. CASE z = cp
        BY <1>1, <1>6, <1>7, <2>2, <3>2, <4>1
      <4>2. CASE z \in copying
        BY <1>1, <1>6, <2>1, <2>2, <4>2 DEF Before, Buffered
      <4> QED BY <1>4, <3>5, <4>1, <4>2
    <3>6. ASSUME NEW x \in copying', NEW y \in copying', x.buf = y.buf PROVE x = y
      BY <1>4, <1>7, <2>1, <3>2, <3>6 DEF Before, Buffered
    <3>7. ASSUME NEW z \in Buffers
          PROVE  \/ z \in free' \cup retired'
                 \/ \E x \in Chunks : staging'[x] = z
                 \/ \E x \in copying' : x.buf = z
      <4>1. CASE z = b
        BY <1>4, <1>7, <4>1
      <4>2. CASE z # b
        <5>1. \/ z \in free \cup retired
              \/ \E x \in Chunks : staging[x] = z
              \/ \E x \in copying : x.buf = z
          BY <2>1 DEF Before, Buffered
        <5>2. \A x \in Chunks : staging[x] = z => x # c
          BY <1>3, <4>2
        <5> QED BY <1>1, <1>4, <2>2, <5>1, <5>2
      <4> QED BY <4>1, <4>2
    <3>8. free' \cap retired' = {}
      BY <1>1, <2>1 DEF Before, Buffered
    <3> QED BY <3>3, <3>4, <3>5, <3>6, <3>7, <3>8 DEF Buffered
  <2> QED BY <2>4, <2>5 DEF Before
<1> QED BY <1>9, <1>12, <1>13, <1>14, <1>15 DEF Inv, Always

(* A completion is routed.                                                 *)
LEMMA HandleCompletionStep ==
  ASSUME Inv, HandleCompletion
  PROVE  Inv'
<1>1. PICK e : e = Head(events)
  OBVIOUS
<1>2. PICK c : c = e.chunk
  OBVIOUS
<1>3. events # <<>> /\ events' = Tail(events) /\ reads' = reads
  BY DEF HandleCompletion, Completion
<1>4. e.ret \in Codes /\ "FileAccessError" \in Codes
  BY <1>1, <1>2, <1>3, EventFacts DEF Codes
<1>5. ASSUME c[1] \in live, UNCHANGED retry, NEW r \in Codes, CompleteRead(c, r), r = "Success" => e.ret = "Success"
      PROVE  Inv'
  <2>1. CASE /\ r = "Success" /\ staging[c] # None /\ IssueCopy(c)
             /\ UNCHANGED <<live, remaining, ferr, failed, answer, free>>
    BY <1>1, <1>2, <1>5, <2>1, IssueCopyStep
  <2>2. CASE /\ ~(r = "Success" /\ staging[c] # None) /\ EndChunk(c, r, TRUE)
             /\ UNCHANGED <<copying, copiesIssued>>
    BY <1>1, <1>2, <1>5, <2>2, EndReadStep
  <2> QED BY <1>5, <2>1, <2>2 DEF CompleteRead
<1>6. \/ c[1] \notin live
      \/ c[1] \in live /\ Reschedule(c)
      \/ c[1] \in live /\ CompleteRead(c, "FileAccessError") /\ UNCHANGED retry
      \/ c[1] \in live /\ CompleteRead(c, e.ret) /\ UNCHANGED retry
  BY <1>1, <1>2 DEF HandleCompletion
<1>7. CASE c[1] \notin live
  BY <1>1, <1>2, <1>7, DropStep
<1>8. CASE c[1] \in live /\ Reschedule(c)
  BY <1>1, <1>2, <1>8, RescheduleStep
<1>9. CASE c[1] \in live /\ CompleteRead(c, "FileAccessError") /\ UNCHANGED retry
  BY <1>4, <1>5, <1>9
<1>10. CASE c[1] \in live /\ CompleteRead(c, e.ret) /\ UNCHANGED retry
  BY <1>4, <1>5, <1>10
<1> QED BY <1>6, <1>7, <1>8, <1>9, <1>10

-----------------------------------------------------------------------------
(* abort_all.  The parked chunks give their slots back.                    *)
LEMMA ParkedCount ==
  ASSUME TypeOK, Spread, ~cflag
  PROVE  IsFiniteSet(Parked) /\ Cardinality(Parked) = ParkedCredit
<1>1. /\ waiting \in Seq(Chunks) /\ waitingRetries \in Seq(Chunks)
      /\ Distinct(waiting) /\ Distinct(waitingRetries)
  BY DEF TypeOK, QueueType, Spread, OneQueued
<1>2. IsFiniteSet(Members(waiting)) /\ Cardinality(Members(waiting)) = Len(waiting)
  BY <1>1, MembersCount
<1>3. IsFiniteSet(Members(waitingRetries)) /\ Cardinality(Members(waitingRetries)) = Len(waitingRetries)
  BY <1>1, MembersCount
<1>4. Members(waiting) \cap Members(waitingRetries) = {}
  BY OnePlace
<1>5. Len(waiting) \in Nat /\ Len(waitingRetries) \in Nat
  BY <1>1, SeqFacts
<1>6. /\ IsFiniteSet(Members(waiting) \cup Members(waitingRetries))
      /\ Cardinality(Members(waiting) \cup Members(waitingRetries))
           = Cardinality(Members(waiting)) + Cardinality(Members(waitingRetries))
             - Cardinality(Members(waiting) \cap Members(waitingRetries))
  BY <1>2, <1>3, FS_Union
<1>7. Cardinality(Members(waiting) \cap Members(waitingRetries)) = 0
  BY <1>4, FS_EmptySet
<1> QED BY <1>2, <1>3, <1>5, <1>6, <1>7 DEF Parked, ParkedCredit

(* The queues are emptied and the slots of the parked chunks go back.      *)
LEMMA AbortStep ==
  ASSUME Inv, Abort
  PROVE  Inv'
<1>1. /\ pc = "abort" /\ pc' = "quiesceReads" /\ delayed' = {} /\ pending' = <<>> /\ Complete(ParkedCredit)
      /\ waiting' = <<>> /\ waitingRetries' = <<>>
      /\ UNCHANGED <<up, attempts, deadline, ret, back, cur, quota, code, continues, drained,
                     table, copies, pool, client, world>>
  BY DEF Abort, DropParked
<1>2. ParkedCredit \in Nat /\ inflight \in Nat
  <2>1. Len(waiting) \in Nat /\ Len(waitingRetries) \in Nat
    BY SeqFacts DEF Inv, Always, TypeOK, QueueType
  <2> QED BY <2>1 DEF Inv, Always, TypeOK, QueueType, ParkedCredit
<1>3. inflight' \in Nat
  BY <1>1, <1>2 DEF Complete
<1>4. TypeOK'
  <2>1. \A S : <<>> \in Seq(S)
    OBVIOUS
  <2>2. QueueType'
    BY <1>1, <1>3, <2>1 DEF Inv, Always, TypeOK, QueueType
  <2>3. TableType' /\ OutsideType'
    BY <1>1 DEF Inv, Always, TypeOK, TableType, OutsideType, table, copies, pool, client
  <2>4. ControlType'
    BY <1>1 DEF Inv, Always, TypeOK, ControlType, Pcs, world
  <2> QED BY <2>2, <2>3, <2>4 DEF TypeOK
<1>5. /\ Members(pending)' = {} /\ Members(waiting)' = {} /\ Members(waitingRetries)' = {}
      /\ Distinct(pending)' /\ Distinct(waiting)' /\ Distinct(waitingRetries)'
      /\ Parked' = {} /\ Submitting' = {} /\ Submitting = {} /\ Queued' = {}
  <2>1. /\ Members(pending)' = Members(<<>>) /\ Members(waiting)' = Members(<<>>)
        /\ Members(waitingRetries)' = Members(<<>>) /\ (Distinct(pending)' <=> Distinct(<<>>))
        /\ (Distinct(waiting)' <=> Distinct(<<>>)) /\ (Distinct(waitingRetries)' <=> Distinct(<<>>))
    BY <1>1 DEF Members, Distinct
  <2>2. Submitting' = {} /\ Submitting = {}
    BY <1>1 DEF Submitting
  <2> QED BY <1>1, <2>1, <2>2, MembersNone DEF Parked, Queued
<1>6. Reads' = Reads /\ Copies' = Copies
  BY <1>1, ReadsSame, CopiesSame DEF client, copies
<1>7. Control'
  BY <1>1, <1>5 DEF Inv, Always, Control, table, copies, client, world, Aborting, Resuming
<1>8. Spread'
  <2>1. /\ ChunksOf(reads)' = ChunksOf(reads) /\ ChunksIn(events)' = ChunksIn(events)
        /\ ChunksOf(copying)' = ChunksOf(copying) /\ ChunksOf(reporting)' = ChunksOf(reporting)
        /\ ChunksIn(copyDone)' = ChunksIn(copyDone)
    BY <1>1 DEF ChunksOf, ChunksIn, copies, client
  <2>2. OneOutside' /\ OneQueued' /\ (~cflag' => ~cflag)
    BY <1>1, <1>5 DEF Inv, Always, Spread, OneOutside, OneQueued, OneEach, OneIn, copies, client
  <2>3. "done" \in Places /\ {} \in SUBSET Chunks /\ TypeOK /\ Spread
    BY DEF Places, Inv, Always
  <2> QED BY <1>1, <1>5, <2>1, <2>2, <2>3, Moved
<1>9. Aborting => Aborting'
  BY <1>1 DEF Aborting
<1>10. CopyCount' /\ SomeLeft' /\ NoFalseSuccess'
  BY <1>1, <1>9, CopyCountSame, RemainingSame, NoFalseSame DEF Inv, Always, table, world
<1>11. ASSUME ~cflag' PROVE Before'
  <2>1. ~cflag /\ Before
    BY <1>1, <1>11 DEF Inv, client
  <2>2. InTable'
    BY <1>1, <1>5, <1>6, <2>1, InTableSame DEF Before, client, world
  <2>3. Credit'
    <3>1. IsFiniteSet(Parked) /\ Cardinality(Parked) = ParkedCredit
      BY <2>1, ParkedCount DEF Inv, Always
    <3>2. IsFiniteSet(Holding) /\ inflight = Cardinality(Holding)
      BY <2>1 DEF Before, Credit
    <3>3. Parked \cap Reads = {} /\ \A c \in Parked : c[1] \in live
      BY <2>1, OnePlace DEF Inv, Always, Before, InTable, Queued
    <3>4. Parked \subseteq Holding /\ Holding' = Holding \ Parked
      BY <1>1, <1>5, <1>6, <3>3 DEF Holding, table
    <3>5. /\ IsFiniteSet(Holding \ Parked)
          /\ Cardinality(Holding \ Parked) = Cardinality(Holding) - Cardinality(Holding \cap Parked)
      BY <3>1, <3>2, FS_Difference
    <3>6. Holding \cap Parked = Parked
      BY <3>4
    <3>7. Cardinality(Holding \ Parked) \in Nat
      BY <3>5, FS_CardinalityType
    <3>8. inflight' = inflight - ParkedCredit
      <4>1. Cardinality(Holding \cap Parked) = ParkedCredit
        BY <3>1, <3>6
      <4>2. Cardinality(Holding \ Parked) = inflight - ParkedCredit
        BY <3>2, <3>5, <4>1
      <4>3. inflight >= ParkedCredit
        BY <1>2, <3>7, <4>2
      <4> QED BY <1>1, <4>3 DEF Complete
    <3> QED BY <3>1, <3>2, <3>4, <3>5, <3>6, <3>8 DEF Credit
  <2>4. Remaining' /\ Answering'
    BY <1>1, <1>9, <2>1, RemainingSame, AnsweringSame DEF Before, world
  <2>5. Landing' /\ Buffered'
    BY <1>1, <2>1, LandingSame, BufferedSame DEF Before, table, client, copies, pool, world
  <2> QED BY <2>2, <2>3, <2>4, <2>5 DEF Before
<1> QED BY <1>4, <1>7, <1>8, <1>10, <1>11 DEF Inv, Always

(* quiesce_reads takes a completion and its slot.                          *)
LEMMA QuiesceReadStep ==
  ASSUME Inv, QuiesceRead
  PROVE  Inv'
<1>1. /\ pc = "quiesceReads" /\ Completion /\ events # <<>> /\ events' = Tail(events) /\ Complete(1)
      /\ UNCHANGED <<up, pending, reads, cflag, cstopped, cbroken,
                     table, retry, parked, copies, pool, control, world>>
  BY DEF QuiesceRead, Completion
<1>2. PICK c : c = Head(events).chunk
  OBVIOUS
<1>3. /\ c \in Chunks /\ c \in Reads /\ c \notin Copies /\ (~cflag => c \notin Queued)
      /\ events' \in Seq(Report) /\ Reads' = Reads \ {c}
  BY <1>1, <1>2, EventFacts
<1>4. inflight' \in Nat
  BY <1>1 DEF Complete, Inv, Always, TypeOK, QueueType
<1>5. TypeOK'
  <2>1. TableType' /\ QueueType'
    BY <1>1, <1>4 DEF Inv, Always, TypeOK, TableType, QueueType, table, retry, parked
  <2>2. OutsideType'
    BY <1>1, <1>3 DEF Inv, Always, TypeOK, OutsideType, copies, pool
  <2>3. ControlType'
    BY <1>1 DEF Inv, Always, TypeOK, ControlType, control, world
  <2> QED BY <2>1, <2>2, <2>3 DEF TypeOK
<1>6. /\ Members(pending)' = Members(pending) /\ Members(waiting)' = Members(waiting)
      /\ Members(waitingRetries)' = Members(waitingRetries) /\ Parked' = Parked /\ Copies' = Copies
      /\ ChunksOf(reporting)' = ChunksOf(reporting) /\ ChunksIn(copyDone)' = ChunksIn(copyDone)
      /\ ChunksOf(copying)' = ChunksOf(copying) /\ OneEach(copying)' /\ delayed' = delayed
      /\ OneEach(reporting)' /\ OneIn(copyDone)' /\ (~cflag' => ~cflag /\ OneQueued')
      /\ Submitting = {} /\ Submitting' = {} /\ (Aborting => Aborting')
  <2>1. /\ Members(pending)' = Members(pending) /\ Members(waiting)' = Members(waiting)
        /\ Members(waitingRetries)' = Members(waitingRetries) /\ delayed' = delayed
        /\ ChunksOf(reporting)' = ChunksOf(reporting) /\ ChunksIn(copyDone)' = ChunksIn(copyDone)
        /\ ChunksOf(copying)' = ChunksOf(copying) /\ OneEach(copying)'
        /\ OneEach(reporting)' /\ OneIn(copyDone)' /\ (~cflag' => ~cflag /\ OneQueued')
    BY <1>1 DEF Inv, Always, Spread, OneOutside, OneQueued, OneEach, OneIn, Distinct, Members, ChunksOf, ChunksIn,
                parked, copies, retry
  <2>2. Submitting = {} /\ Submitting' = {} /\ (Aborting => Aborting')
    BY <1>1 DEF Submitting, Aborting, control
  <2> QED BY <2>1, <2>2 DEF Parked, Copies
<1>7. Control'
  BY <1>1, <1>6 DEF Inv, Always, Control, control, table, retry, parked, copies, world, Aborting, Resuming
<1>8. Spread'
  BY <1>1, <1>6, DroppedSpread
<1>9. CopyCount' /\ SomeLeft' /\ NoFalseSuccess'
  BY <1>1, <1>6, CopyCountSame, RemainingSame, NoFalseSame DEF Inv, Always, table, world
<1>10. ASSUME ~cflag' PROVE Before'
  <2>1. ~cflag /\ Before /\ ~cbroken
    BY <1>1, <1>10 DEF Inv, Completion
  <2>2. c[1] \in live
    BY <1>3, <2>1 DEF Before, InTable
  <2>3. (Queued \cup Copies)' \subseteq Queued \cup Copies \cup {c}
    BY <1>6 DEF Queued
  <2>4. c \notin (Queued \cup Copies)'
    BY <1>3, <1>6, <2>1 DEF Queued
  <2>5. UNCHANGED <<live, remaining, ferr, failed, answer, taken, landed, retired, cbroken, staging>>
    BY <1>1 DEF table, world, pool
  <2>6. InTable' /\ Credit' /\ Remaining' /\ Answering' /\ Landing'
    BY <1>1, <1>2, <1>6, <2>1, <2>2, <2>3, <2>4, <2>5, Departed
  <2>7. Buffered'
    BY <1>1, <2>1, BufferedSame DEF Before, copies
  <2> QED BY <2>6, <2>7 DEF Before
<1> QED BY <1>5, <1>7, <1>8, <1>9, <1>10 DEF Inv, Always

(* The abort ends: every workload is answered, and the buffers still held  *)
(* are free or, if the plugin may still write into them, retired.          *)
LEMMA FinishAbortStep ==
  ASSUME Inv, FinishAbort
  PROVE  Inv'
<1>1. PICK S : S = {staging[c] : c \in {d \in Chunks : d[1] \in live}} \ {None}
  OBVIOUS
<1>2. /\ pc = "quiesceCopies" /\ copiesIssued = 0 /\ pc' = Caller
      /\ \/ (drained \/ ~continues) /\ free' = free \cup S /\ UNCHANGED retired
         \/ ~drained /\ continues /\ retired' = retired \cup S /\ UNCHANGED free
      /\ staging' = [c \in Chunks |-> IF c[1] \in live THEN None ELSE staging[c]]
      /\ answer' = Answered(answer, {c \in Chunks : c[1] \in live}, code)
      /\ live' = {} /\ pending' = <<>> /\ inflight' = 0
      /\ UNCHANGED <<up, remaining, ferr, failed, ret, back, cur, quota, code, continues, drained,
                     retry, parked, copies, client, world>>
  BY <1>1 DEF FinishAbort, CopiesQuiet, GiveBack
<1>3. pc' \in {"loop", "idle", "prepump"}
  BY <1>2, CallerFacts DEF Inv, Always
<1>4. /\ staging \in [Chunks -> Buffers \cup {None}] /\ answer \in [Chunks -> Codes \cup {None}]
      /\ code \in Codes /\ free \subseteq Buffers /\ retired \subseteq Buffers /\ None \notin Buffers
      /\ delayed = {} /\ pending = <<>> /\ Parked = {} /\ code # "Success" /\ live \subseteq 1..taken
  BY <1>2, BuffersAssumption
     DEF Inv, Always, TypeOK, TableType, OutsideType, ControlType, Control, Aborting
<1>5. /\ \A c \in Chunks : answer'[c] = IF c[1] \in live /\ answer[c] = None THEN code ELSE answer[c]
      /\ answer' \in [Chunks -> Codes \cup {None}]
  BY <1>2, <1>4 DEF Answered
<1>6. S \subseteq Buffers /\ free' \subseteq Buffers /\ retired' \subseteq Buffers /\ retired \subseteq retired'
  BY <1>1, <1>2, <1>4
<1>7. TypeOK'
  <2>1. TableType'
    BY <1>2, <1>4, <1>5 DEF Inv, Always, TypeOK, TableType
  <2>2. <<>> \in Seq(Chunks)
    OBVIOUS
  <2>3. QueueType'
    BY <1>2, <2>2 DEF Inv, Always, TypeOK, QueueType, retry, parked
  <2>4. OutsideType'
    BY <1>2, <1>6 DEF Inv, Always, TypeOK, OutsideType, copies, client
  <2>5. ControlType'
    BY <1>2, <1>3 DEF Inv, Always, TypeOK, ControlType, Pcs, world
  <2> QED BY <2>1, <2>3, <2>4, <2>5 DEF TypeOK
<1>8. /\ Members(pending)' = {} /\ Distinct(pending)' /\ Submitting = {} /\ Submitting' = {}
      /\ Parked' = {} /\ Queued' = {} /\ Copies' = Copies /\ Reads' = Reads /\ delayed' = {}
  <2>1. Members(pending)' = Members(<<>>) /\ (Distinct(pending)' <=> Distinct(<<>>))
    BY <1>2 DEF Members, Distinct
  <2>2. Submitting = {} /\ Submitting' = {} /\ delayed' = {}
    BY <1>2, <1>3, <1>4 DEF Submitting, retry
  <2>3. Parked' = {} /\ Copies' = Copies /\ Reads' = Reads
    BY <1>2, <1>4, ParkedSame, CopiesSame, ReadsSame DEF copies, client
  <2> QED BY <2>1, <2>2, <2>3, MembersNone DEF Queued
<1>9. Control'
  BY <1>2, <1>3, <1>4 DEF Inv, Always, Control, client, world, Aborting, Resuming
<1>10. Spread'
  <2>1. /\ ChunksOf(reads)' = ChunksOf(reads) /\ ChunksIn(events)' = ChunksIn(events)
        /\ ChunksOf(copying)' = ChunksOf(copying) /\ ChunksOf(reporting)' = ChunksOf(reporting)
        /\ ChunksIn(copyDone)' = ChunksIn(copyDone)
        /\ Members(waiting)' = Members(waiting) /\ Members(waitingRetries)' = Members(waitingRetries)
    BY <1>2 DEF ChunksOf, ChunksIn, Members, copies, client, parked
  <2>2. OneOutside' /\ (~cflag' => ~cflag /\ OneQueued')
    BY <1>2, <1>8 DEF Inv, Always, Spread, OneOutside, OneQueued, OneEach, OneIn, Distinct, copies, client, parked
  <2>3. "done" \in Places /\ {} \in SUBSET Chunks /\ TypeOK /\ Spread
    BY DEF Places, Inv, Always
  <2> QED BY <1>8, <2>1, <2>2, <2>3, Moved
<1>11. CopyCount' /\ SomeLeft' /\ NoFalseSuccess'
  <2>1. SomeLeft'
    BY <1>2 DEF SomeLeft
  <2> QED BY <1>2, <2>1, CopyCountSame, NoFalseSame DEF Inv, Always, world
<1>12. Copies = {} /\ copying = {}
  <2>1. IsFiniteSet(Copies) /\ Cardinality(Copies) = 0
    BY <1>2 DEF Inv, Always, CopyCount
  <2>2. Copies = {}
    BY <2>1, FS_EmptySet
  <2> QED BY <2>2 DEF Copies, ChunksOf
<1>13. ASSUME ~cflag' PROVE Before'
  <2>1. ~cflag /\ Before /\ continues
    BY <1>2, <1>13 DEF Inv, client, Always, Control, Aborting
  <2>2. InTable'
    <3>1. ~cbroken => Reads = {}
      BY <1>2, <2>1 DEF Inv, Always, Control
    <3> QED BY <1>2, <1>8, <1>12, <2>1, <3>1 DEF Before, InTable, client, world
  <2>3. Credit'
    <3>1. Holding' = {}
      BY <1>2 DEF Holding
    <3> QED BY <1>2, <3>1, FS_EmptySet DEF Credit
  <2>4. Remaining'
    BY <1>2 DEF Remaining
  <2>5. Answering'
    <3> SUFFICES ASSUME NEW c \in Chunks
                 PROVE  /\ c[1] > taken' => Open(c)'
                        /\ c[1] <= taken' /\ c[1] \notin live' => answer'[c] # None
                        /\ c[1] \in live' /\ c \in failed' => ferr'[c[1]][File(c)] # None
                        /\ answer'[c] = "Success" => c \in landed'
      BY DEF Answering
    <3>1. taken' = taken /\ landed' = landed /\ failed' = failed /\ live' = {}
      BY <1>2 DEF world
    <3>2. c[1] > taken => c[1] \notin live
      BY <1>4, ChunkFacts, TakenFacts DEF Inv, Always
    <3>3. code # None
      BY <1>4 DEF Codes, None
    <3> QED BY <1>4, <1>5, <2>1, <3>1, <3>2, <3>3 DEF Before, Answering, Open
  <2>6. Landing'
    <3>1. ASSUME NEW rd \in reads, rd.buf # None PROVE rd.buf \in retired'
      <4>1. CASE rd.chunk[1] \in live
        <5>1. rd.chunk \in Reads /\ rd.chunk \in Holding /\ staging[rd.chunk] = rd.buf
          BY <2>1, <4>1 DEF Reads, ChunksOf, Holding, Before, Landing
        <5>2. rd.chunk \in Chunks
          BY DEF Inv, Always, TypeOK, OutsideType, Read
        <5>3. ~drained
          <6> SUFFICES ASSUME drained PROVE FALSE
            OBVIOUS
          <6>1. inflight = 0 /\ IsFiniteSet(Holding) /\ inflight = Cardinality(Holding)
            BY <1>2, <2>1 DEF Inv, Always, Control, Before, Credit
          <6> QED BY <5>1, <6>1, FS_EmptySet
        <5>4. retired' = retired \cup S
          BY <1>2, <2>1, <5>3
        <5> QED BY <1>1, <3>1, <4>1, <5>1, <5>2, <5>4
      <4>2. CASE rd.chunk[1] \notin live
        BY <1>6, <2>1, <3>1, <4>2 DEF Before, Landing
      <4> QED BY <4>1, <4>2
    <3> QED BY <1>2, <3>1 DEF Landing, client
  <2>7. Buffered'
    <3>1. \A c \in Chunks : staging'[c] = None
      BY <1>2, <2>1 DEF Before, Buffered
    <3>2. S \cap (free \cup retired) = {}
      BY <1>1, <2>1 DEF Before, Buffered
    <3>3. free' \cap retired' = {}
      BY <1>2, <2>1, <3>2 DEF Before, Buffered
    <3>4. copying' = {}
      BY <1>2, <1>12 DEF copies
    <3>5. ASSUME NEW b \in Buffers PROVE b \in free' \cup retired'
      <4>1. b \in free \cup retired \/ \E c \in Chunks : staging[c] = b
        BY <1>12, <2>1 DEF Before, Buffered
      <4>2. ASSUME NEW c \in Chunks, staging[c] = b PROVE b \in S
        BY <1>1, <1>4, <2>1, <4>2 DEF Before, Buffered
      <4> QED BY <1>2, <4>1, <4>2
    <3> QED BY <1>4, <3>1, <3>3, <3>4, <3>5 DEF Buffered
  <2> QED BY <2>2, <2>3, <2>4, <2>5, <2>6, <2>7 DEF Before
<1> QED BY <1>7, <1>9, <1>10, <1>11, <1>13 DEF Inv, Always

-----------------------------------------------------------------------------
(* Every step.                                                             *)
LEMMA NextStep ==
  ASSUME Inv, [Next]_vars
  PROVE  Inv'
<1>1. CASE worker
  <2>1. CASE Discard \/ Enqueue \/ EnqueueThrows \/ \E c \in Chunks : Promote(c)
    BY <2>1, DiscardStep, EnqueueStep, PromoteStep
  <2>2. CASE Loop \/ Drain \/ EndPrePump \/ Turn \/ EndCopies \/ EndResume \/ HandleBroken \/ Exit
    BY <2>2, SteeringStep
  <2>3. CASE Pump \/ ResumeNext
    BY <2>3, PumpStep, ResumeNextStep
  <2>4. CASE SubmitThrows \/ SubmitUnstaged \/ SubmitParks \/ SubmitRefused \/ SubmitRead \/ ReadIssued
    BY <2>4, SubmitThrowsStep, SubmitEndsStep, SubmitParksStep, SubmitReadStep, ReadIssuedStep
  <2>5. CASE DrainCopy \/ HandleCompletion \/ HandleMarker
    BY <2>5, DrainCopyStep, HandleCompletionStep, HandleMarkerStep
  <2>6. CASE Abort \/ QuiesceRead \/ EndQuiesceReads \/ QuiesceCopy \/ FinishAbort
    BY <2>6, AbortStep, QuiesceReadStep, EndQuiesceReadsStep, QuiesceCopyStep, FinishAbortStep
  <2> QED BY <1>1, <2>1, <2>2, <2>3, <2>4, <2>5, <2>6 DEF worker
<1>2. CASE \E rd \in reads, r \in ReadCodes : ReadLands(rd, r)
  BY <1>2, ReadLandsStep
<1>3. CASE \E cp \in copying, r \in CopyCodes : CopyLands(cp, r)
  BY <1>3, CopyLandsStep
<1>4. CASE \E d \in reporting : CopyReports(d)
  BY <1>4, CopyReportsStep
<1>5. CASE (\E c \in Chunks : Expire(c)) \/ BreakClient \/ StopClient \/ StopResponder \/ StopPool
  BY <1>5, QuietStep
<1>6. CASE Rest
  BY <1>6, SteeringStep
<1>7. CASE UNCHANGED vars
  <2>1. UNCHANGED <<window, table, retry, parked, copies, pool, client, world>> /\ UNCHANGED control
    BY <1>7 DEF vars
  <2>2. ControlType' /\ Submitting' = Submitting /\ (Aborting => Aborting')
    BY <2>1 DEF Inv, Always, TypeOK, ControlType, control, world, Submitting, Aborting
  <2>3. Reads' = Reads /\ Parked' = Parked
    BY <2>1, ReadsSame, ParkedSame DEF client
  <2>4. Control'
    BY <2>1, <2>3 DEF Inv, Always, Control, control, world, window, retry, parked, copies, client, table, Aborting, Resuming
  <2> QED BY <2>1, <2>2, <2>4, Steered
<1> QED BY <1>1, <1>2, <1>3, <1>4, <1>5, <1>6, <1>7 DEF Next

-----------------------------------------------------------------------------
(* Inv is an invariant of the worker, for every workload, window, copy     *)
(* depth and number of failures.                                           *)
THEOREM Invariance == Spec => []Inv
<1>1. Init => Inv
  BY InitHolds
<1>2. Inv /\ [Next]_vars => Inv'
  BY NextStep
<1> QED BY <1>1, <1>2, PTL DEF Spec

(* The worker's state keeps its type in every behaviour.                   *)
THEOREM TypeCorrect == Spec => []TypeOK
<1>1. Inv => TypeOK
  BY DEF Inv, Always
<1> QED BY <1>1, Invariance, PTL

(* The slots a chunk count comes to: a chunk is in one place, so the sizes *)
(* of the places add up.                                                   *)
LEMMA CreditAdds ==
  ASSUME Inv
  PROVE  CreditExact
<1> SUFFICES ASSUME ~cflag, ~cbroken
             PROVE  inflight = Cardinality(reads) + Len(events) + Len(waiting) + Len(waitingRetries)
                               + (IF pc = "submit" THEN 1 ELSE 0)
  BY DEF CreditExact
<1>1. TypeOK /\ Spread /\ Before
  BY DEF Inv, Always
<1>2. \A c \in Reads \cup Parked \cup Submitting : c[1] \in live
  BY <1>1 DEF Before, InTable, Queued
<1>3. Holding = Reads \cup Parked \cup Submitting
  BY <1>2 DEF Holding
<1>4. IsFiniteSet(Holding) /\ inflight = Cardinality(Holding)
  BY <1>1 DEF Before, Credit
<1>5. /\ ChunksOf(reads) \cap ChunksIn(events) = {} /\ Reads \cap Parked = {}
      /\ (Reads \cup Parked) \cap Submitting = {}
  BY <1>1, OnePlace DEF Queued
<1>6. IsFiniteSet(ChunksIn(events)) /\ Cardinality(ChunksIn(events)) = Len(events) /\ Len(events) \in Nat
  BY <1>1, ReportsCount, SeqFacts DEF TypeOK, OutsideType, Spread, OneOutside
<1>7. IsFiniteSet(ChunksOf(reads))
  BY <1>3, <1>4, FS_Subset DEF Reads
<1>8. Cardinality(reads) = Cardinality(ChunksOf(reads)) /\ Cardinality(ChunksOf(reads)) \in Nat
  BY <1>1, <1>7, ChunksCount, FS_CardinalityType DEF Spread, OneOutside
<1>9. IsFiniteSet(Reads) /\ Cardinality(Reads) = Cardinality(reads) + Len(events)
  <2>1. /\ IsFiniteSet(Reads)
        /\ Cardinality(Reads) = Cardinality(ChunksOf(reads)) + Cardinality(ChunksIn(events))
                                - Cardinality(ChunksOf(reads) \cap ChunksIn(events))
    BY <1>6, <1>7, FS_Union DEF Reads
  <2>2. Cardinality(ChunksOf(reads) \cap ChunksIn(events)) = 0
    BY <1>5, FS_EmptySet
  <2> QED BY <1>6, <1>8, <2>1, <2>2
<1>10. IsFiniteSet(Parked) /\ Cardinality(Parked) = Len(waiting) + Len(waitingRetries)
       /\ Len(waiting) \in Nat /\ Len(waitingRetries) \in Nat
  BY <1>1, ParkedCount, SeqFacts DEF ParkedCredit, TypeOK, QueueType
<1>11. IsFiniteSet(Reads \cup Parked)
       /\ Cardinality(Reads \cup Parked) = Cardinality(Reads) + Cardinality(Parked)
  <2>1. /\ IsFiniteSet(Reads \cup Parked)
        /\ Cardinality(Reads \cup Parked) = Cardinality(Reads) + Cardinality(Parked)
                                            - Cardinality(Reads \cap Parked)
    BY <1>9, <1>10, FS_Union
  <2>2. Cardinality(Reads \cap Parked) = 0
    BY <1>5, FS_EmptySet
  <2>3. Cardinality(Reads) \in Nat /\ Cardinality(Parked) \in Nat
    BY <1>6, <1>8, <1>9, <1>10
  <2> QED BY <2>1, <2>2, <2>3
<1>12. IsFiniteSet(Submitting) /\ Cardinality(Submitting) = (IF pc = "submit" THEN 1 ELSE 0)
  <2>1. CASE pc = "submit"
    <3>1. Submitting = {cur}
      BY <2>1 DEF Submitting, Inv, Always, Control
    <3> QED BY <2>1, <3>1, FS_Singleton
  <2>2. CASE pc # "submit"
    BY <2>2, NotSubmitting, FS_EmptySet
  <2> QED BY <2>1, <2>2
<1>13. Cardinality(Holding) = Cardinality(Reads \cup Parked) + Cardinality(Submitting)
  <2>1. Cardinality(Holding) = Cardinality(Reads \cup Parked) + Cardinality(Submitting)
                               - Cardinality((Reads \cup Parked) \cap Submitting)
    BY <1>3, <1>11, <1>12, FS_Union
  <2>2. Cardinality((Reads \cup Parked) \cap Submitting) = 0
    BY <1>5, FS_EmptySet
  <2>3. Cardinality(Reads \cup Parked) \in Nat /\ Cardinality(Submitting) \in Nat
    BY <1>11, <1>12, FS_CardinalityType
  <2> QED BY <2>1, <2>2, <2>3
<1> QED BY <1>4, <1>6, <1>8, <1>9, <1>10, <1>11, <1>12, <1>13

(* Every buffer has one holder at most, and is free, retired or held.      *)
LEMMA BuffersAdd ==
  ASSUME Inv
  PROVE  BuffersConserved /\ NoWriteIntoFree
<1>1. ASSUME ~cflag, NEW b \in Buffers
      PROVE  /\ (b \in free) # (b \in retired \/ Holders(b) # {})
             /\ ~(b \in retired /\ Holders(b) # {})
             /\ Cardinality(Holders(b)) <= 1
  <2>1. Buffered /\ None \notin Buffers
    BY <1>1, BuffersAssumption DEF Inv, Before
  <2>2. ASSUME NEW c \in Holders(b)
        PROVE  \/ c \in Chunks /\ staging[c] = b
               \/ \E cp \in copying : cp.chunk = c /\ cp.buf = b
    BY <2>2 DEF Holders
  <2>3. Holders(b) # {} => b \notin free \cup retired
    BY <1>1, <2>1, <2>2 DEF Buffered
  <2>4. ASSUME NEW c \in Holders(b), NEW d \in Holders(b) PROVE c = d
    <3>1. CASE c \in Chunks /\ staging[c] = b
      BY <1>1, <2>1, <2>2, <2>4, <3>1 DEF Buffered
    <3>2. CASE \E cp \in copying : cp.chunk = c /\ cp.buf = b
      BY <1>1, <2>1, <2>2, <2>4, <3>2 DEF Buffered
    <3> QED BY <2>2, <2>4, <3>1, <3>2
  <2>5. Cardinality(Holders(b)) <= 1
    <3>1. CASE Holders(b) = {}
      BY <3>1, FS_EmptySet
    <3>2. CASE Holders(b) # {}
      <4>1. PICK c : c \in Holders(b)
        BY <3>2
      <4>2. Holders(b) = {c}
        BY <2>4, <4>1
      <4>3. Cardinality({c}) = 1
        BY FS_Singleton
      <4>4. Cardinality(Holders(b)) = 1
        BY <4>2, <4>3
      <4> QED BY <4>4
    <3> QED BY <3>1, <3>2
  <2>6. b \in free \/ b \in retired \/ Holders(b) # {}
    BY <1>1, <2>1 DEF Buffered, Holders
  <2>7. ~(b \in free /\ b \in retired)
    BY <2>1 DEF Buffered
  <2> QED BY <2>3, <2>5, <2>6, <2>7
<1>2. ASSUME ~cflag, NEW rd \in reads, rd.buf # None
      PROVE  rd.buf \notin free /\ \A c \in Chunks : staging[c] = rd.buf => c = rd.chunk
  <2>1. Buffered /\ Landing /\ rd.chunk \in Chunks
    BY <1>2 DEF Inv, Before, Always, TypeOK, OutsideType, Read
  <2>2. CASE rd.chunk[1] \in live
    BY <1>2, <2>1, <2>2 DEF Buffered, Landing
  <2>3. CASE rd.chunk[1] \notin live
    BY <1>2, <2>1, <2>3 DEF Buffered, Landing
  <2> QED BY <2>2, <2>3
<1> QED BY <1>1, <1>2 DEF BuffersConserved, NoWriteIntoFree

(* LedgersExact: CapacityQueue's credit is the reads, the parked chunks    *)
(* and the chunk being submitted, and every staging buffer is in one       *)
(* place, with none free that the plugin may still write into.             *)
THEOREM LedgersAreExact == Spec => []LedgersExact
<1>1. Inv => LedgersExact
  BY CreditAdds, BuffersAdd DEF LedgersExact
<1> QED BY <1>1, Invariance, PTL

(* AnswersHonest: an answered range is written by nobody any more, a       *)
(* Success has landed, and a workload that left the table is answered.     *)
THEOREM AnswersAreHonest == Spec => []AnswersHonest
<1>1. Inv => AnswersHonest
  <2> SUFFICES ASSUME Inv PROVE AnswersHonest
    OBVIOUS
  <2>1. AnswerIsQuiet
    <3> SUFFICES ASSUME ~cflag, ~cbroken, NEW c \in Chunks, answer[c] # None
                 PROVE  /\ \A rd \in reads : rd.chunk # c
                        /\ \A cp \in copying : cp.chunk # c
      BY DEF AnswerIsQuiet
    <3>1. c \notin Reads \cup Copies
      BY DEF Inv, Before, InTable, Open
    <3> QED BY <3>1 DEF Reads, Copies, ChunksOf
  <2>2. SuccessIsLanded /\ NoneUnanswered
    BY DEF Inv, Before, Answering, SuccessIsLanded, NoneUnanswered
  <2> QED BY <2>1, <2>2 DEF AnswersHonest
<1> QED BY <1>1, Invariance, PTL

(* WorkIsLive: what is queued, delayed, parked or being submitted belongs  *)
(* to a workload in the table and has no error, so no ASSERT of submit     *)
(* fires; and a load ends as stopped only if the client is being stopped.  *)
THEOREM WorkStaysLive == Spec => []WorkIsLive
<1>1. Inv => WorkIsLive
  <2> SUFFICES ASSUME Inv PROVE WorkIsLive
    OBVIOUS
  <2>1. QueuedIsLive
    <3> SUFFICES ASSUME ~cflag, NEW c \in Chunks,
                        \/ pc = "submit" /\ cur = c
                        \/ c \in delayed
                        \/ \E i \in DOMAIN pending : pending[i] = c
                        \/ \E i \in DOMAIN waiting : waiting[i] = c
                        \/ \E i \in DOMAIN waitingRetries : waitingRetries[i] = c
                 PROVE  Known(c) /\ answer[c] = None
      BY DEF QueuedIsLive
    <3>1. c \in Queued
      BY DEF Queued, Submitting, Parked, Members
    <3> QED BY <3>1 DEF Inv, Before, InTable, Open, Known
  <2>2. AbortIsReal
    BY DEF Inv, Always, Control, Aborting, AbortIsReal
  <2> QED BY <2>1, <2>2 DEF WorkIsLive
<1> QED BY <1>1, Invariance, PTL

(* ExitsQuiet: no copy is left when the worker is gone, whose callback     *)
(* would reach it.                                                         *)
THEOREM QuietExit == Spec => []ExitsQuiet
<1>1. Inv => ExitsQuiet
  <2> SUFFICES ASSUME Inv, pc = "exit" PROVE copying = {} /\ reporting = {} /\ copyDone = <<>>
    BY DEF ExitsQuiet
  <2>1. IsFiniteSet(Copies) /\ Cardinality(Copies) = 0 /\ copyDone \in Seq(Report)
    BY DEF Inv, Always, Control, CopyCount, TypeOK, OutsideType
  <2>2. Copies = {}
    BY <2>1, FS_EmptySet
  <2>3. copying = {} /\ reporting = {} /\ ChunksIn(copyDone) = {}
    BY <2>2 DEF Copies, ChunksOf
  <2> QED BY <2>1, <2>3, ReportsIn
<1> QED BY <1>1, Invariance, PTL
=============================================================================
