------------------------- MODULE AsyncIoWorkerProofs -------------------------
(***************************************************************************)
(* Proofs about AsyncIoWorker, for any workloads, engine, depth, copy      *)
(* depth and bounds, with and without a teardown.                          *)
(***************************************************************************)
EXTENDS AsyncIoWorker, FiniteSetTheorems, FunctionTheorems, SequenceTheorems, TLAPS

Pcs == {"idle", "loop", "pump", "stage", "turn", "copies", "resume", "flush", "wait", "harvest",
        "abort", "quiesceCopies", "quiesceReads", "exit"}
Codes == {"Success", "FsAsyncEngineError", "FinishedError", "FileAccessError", "DeviceDriverError",
          "DeviceTransferError", "EofError"}
Modes == {"unopened", "direct", "buffered", "error", "closed"}
Entry == [id : Chunks, direct : BOOLEAN]
Completion == [id : Chunks, err : {"none", "eintr", "einval", "error"}, got : Nat]
CopyReport == [id : Chunks, ret : {"Success", "DeviceDriverError"}]

EngineType ==
  /\ staged \in Seq(Entry) /\ kernel \subseteq Entry /\ broken \in BOOLEAN
  /\ ring \in Seq(Completion) /\ refused \in Seq(Completion)
QueueType ==
  /\ up \in BOOLEAN /\ pending \in Seq(Chunks) /\ credit \in Nat /\ waiting \in Seq(Chunks)
TableType ==
  /\ live \subseteq DOMAIN Work /\ remaining \in [DOMAIN Work -> Nat]
  /\ ferr \in [DOMAIN Work -> [Files -> Codes \cup {None}]]
  /\ fds \in [DOMAIN Work -> [Files -> Modes]]
  /\ answer \in [Ranges -> Codes \cup {None}]
RecordType ==
  /\ tracked \subseteq Chunks /\ left \in [Chunks -> Nat] /\ tries \in [Chunks -> Nat]
  /\ bounce \subseteq Chunks /\ scratch \in Nat /\ holds \subseteq Chunks /\ buffers \in Nat
  /\ copiesIssued \in Nat /\ copying \subseteq Chunks /\ copyDone \in Seq(CopyReport)
  /\ landed \subseteq Chunks /\ late \subseteq (DOMAIN Work) \X Files
ControlType ==
  /\ issued \in Nat /\ stalls \in Nat /\ directRefused \in BOOLEAN /\ dead \in BOOLEAN
  /\ engineError \in {None, "FsAsyncEngineError"}
  /\ pc \in Pcs /\ ret \in {"loop", "tail", "drain"} /\ back \in {"pump", "resume", "harvest"}
  /\ cur \in Chunks \cup {<<0, 0>>} /\ harvest \in Seq(Completion) /\ quota \in Nat
  /\ code \in {None, "FinishedError", "FsAsyncEngineError"}
  /\ taken \in 0..Len(Work) /\ stopped \in BOOLEAN /\ faults \in Nat /\ refusals \in Nat

(* The state keeps its type.                                               *)
TypeOK == EngineType /\ QueueType /\ TableType /\ RecordType /\ ControlType

(* The chunks of a queue, of a set and of a queue of records, each once.   *)
Members(s) == {s[i] : i \in DOMAIN s}
Distinct(s) == \A i, j \in DOMAIN s : s[i] = s[j] => i = j
IdsOf(S) == {x.id : x \in S}
OneEach(S) == \A x, y \in S : x.id = y.id => x = y
IdsIn(s) == {s[i].id : i \in DOMAIN s}
OneIn(s) == \A i, j \in DOMAIN s : s[i].id = s[j].id => i = j

(* Where the thread is.                                                    *)
Quiescing == pc \in {"quiesceCopies", "quiesceReads"}
Resuming == pc = "resume" \/ (pc = "stage" /\ back = "resume")
Harvesting == pc = "harvest" \/ (pc = "stage" /\ back = "harvest")
Control ==
  /\ live \subseteq 1..taken
  /\ dead => engineError # None
  /\ pc = "stage" => cur \in Chunks
  /\ pc = "abort" \/ Quiescing => code # None /\ (code = "FinishedError" => stopped)
  /\ Quiescing => pending = <<>> /\ credit = 0 /\ (dead \/ stopped)
  /\ pc = "quiesceReads" => copiesIssued = 0
  /\ Resuming => quota <= Len(waiting)
  /\ ~Harvesting => harvest = <<>>

(* The pools, and the copies.                                              *)
Pools ==
  /\ scratch + Cardinality(bounce) = Depth
  /\ buffers + Cardinality(holds) + Cardinality(copying) = Depth + CopyDepth
  /\ copiesIssued = Cardinality(copying) + Len(copyDone)

(* The ranges of a workload: not yet taken, in the table, answered.  A     *)
(* chunk of a workload in the table is in the record, or has its answer,   *)
(* or has left an error with its file.                                     *)
Answering ==
  /\ \A c \in Ranges : /\ c[1] > taken => answer[c] = None
                       /\ c[1] <= taken /\ c[1] \notin live => answer[c] # None
  /\ \A c \in tracked : answer[c] = None /\ c[1] \in live
  /\ \A c \in Chunks :
       /\ c[1] \in live /\ c \notin tracked /\ answer[c] = None => ferr[c[1]][File(c)] # None
       /\ answer[c] = "Success" => c \in landed

(* The errors and the reports.                                             *)
NoFalseSuccess ==
  /\ \A w \in DOMAIN Work, f \in Files : ferr[w][f] # "Success"
  /\ \A i \in DOMAIN copyDone : copyDone[i].ret = "Success" => copyDone[i].id \in landed

(* A file that failed met a fault, or a refusal that came too late.        *)
Blamed ==
  /\ RefusalForgiven
  /\ \A w \in DOMAIN Work, f \in Files :
       /\ ferr[w][f] = "FileAccessError" => faults > 0 \/ <<w, f>> \in late
       /\ fds[w][f] = "error" => faults > 0

(* A workload in the table counts its chunks.                              *)
TrackedOf(w) == {c \in tracked : c[1] = w}
Remaining == \A w \in live : remaining[w] = Cardinality(TrackedOf(w))

(* Where a chunk can be.                                                   *)
Staging == {c \in Chunks : pc = "stage" /\ c = cur}
AtEngine == IdsIn(staged) \cup IdsOf(kernel) \cup IdsIn(ring) \cup IdsIn(refused)
Reads == AtEngine \cup IdsIn(harvest)
Places == {"pending", "stage", "waiting", "staged", "kernel", "ring", "refused", "harvest",
           "copying", "done"}

(* What the worker's queues and the copy path have, they have once.        *)
WorkerAt(p) ==
  /\ \A c \in Members(pending) : p[c] = "pending"
  /\ \A c \in Staging : p[c] = "stage"
  /\ \A c \in Members(waiting) : p[c] = "waiting"
  /\ \A c \in copying : p[c] = "copying"
  /\ \A c \in IdsIn(copyDone) : p[c] = "done"
(* What the engine has.                                                    *)
ReadsAt(p) ==
  /\ \A c \in IdsIn(staged) : p[c] = "staged"
  /\ \A c \in IdsOf(kernel) : p[c] = "kernel"
  /\ \A c \in IdsIn(ring) : p[c] = "ring"
  /\ \A c \in IdsIn(refused) : p[c] = "refused"
  /\ \A c \in IdsIn(harvest) : p[c] = "harvest"
OneQueued == Distinct(pending) /\ Distinct(waiting) /\ OneIn(copyDone)
OneRead == OneIn(staged) /\ OneEach(kernel) /\ OneIn(ring) /\ OneIn(refused) /\ OneIn(harvest)
Spread ==
  OneQueued /\ OneRead /\ \E p \in [Chunks -> Places] : WorkerAt(p) /\ ReadsAt(p)

(* All of them are in the record.                                          *)
Recorded ==
  /\ Members(pending) \cup Staging \cup Members(waiting) \cup Reads \subseteq tracked
  /\ copying \cup IdsIn(copyDone) \subseteq tracked

(* The credit, the buffers a chunk holds, the reads the engine owes.       *)
Credit == credit <= Depth /\ (~Quiescing => credit = Cardinality(Slots))
Bounced == bounce \subseteq Slots /\ bounce \cap (Members(waiting) \cup Staging) = {}
Holding == \A c \in Reads : IsDevice(c) => c \in holds
Counted == issued = Owed + Len(harvest)

(* A read that was or may be refused is of a file still read directly, or  *)
(* it was at the kernel when the file was demoted.                         *)
Excused(c, e) ==
  /\ e = "error" => faults > 0
  /\ e = "eintr" => tries[c] < MaxTransient \/ faults > 0
  /\ e = "einval" => fds[c[1]][File(c)] = "direct" \/ <<c[1], File(c)>> \in late
Refusals ==
  /\ \A rd \in kernel : rd.direct => Excused(rd.id, "einval")
  /\ \A i \in DOMAIN ring : Excused(ring[i].id, ring[i].err)
  /\ \A i \in DOMAIN refused : Excused(refused[i].id, refused[i].err)
  /\ \A i \in DOMAIN harvest : Excused(harvest[i].id, harvest[i].err)

(* The engine is served, ...                                               *)
Serving ==
  Spread /\ Recorded /\ Credit /\ Bounced /\ Holding /\ Counted /\ Refusals

(* ... or it was given up: the worker holds nothing, and whatever a broken *)
(* engine still has is nobody's.                                           *)
GivenUp ==
  /\ dead \/ stopped
  /\ pc \in {"idle", "loop", "pump", "exit"}
  /\ tracked = {} /\ live = {} /\ pending = <<>> /\ credit = 0 /\ waiting = <<>>
  /\ copiesIssued = 0 /\ issued = 0 /\ (~broken => Owed = 0)

Always ==
  TypeOK /\ Control /\ Pools /\ Answering /\ NoFalseSuccess /\ Blamed /\ Remaining /\ StallIsReal
Inv == Always /\ (Serving \/ GivenUp)
-----------------------------------------------------------------------------
(* Queues: their first element, the rest, and one more.                    *)
LEMMA SeqFacts ==
  ASSUME NEW S, NEW s \in Seq(S)
  PROVE  /\ Len(s) \in Nat /\ DOMAIN s = 1..Len(s)
         /\ \A i \in DOMAIN s : i \in Nat \ {0} /\ s[i] \in S
         /\ s = <<>> <=> Len(s) = 0
<1>1. Len(s) \in Nat /\ s \in [1..Len(s) -> S] /\ DOMAIN s = 1..Len(s)
  BY LenProperties
<1>2. s = <<>> <=> Len(s) = 0
  BY EmptySeq
<1> QED BY <1>1, <1>2

(* The head and the tail of a sequence.                                    *)
LEMMA TailFacts ==
  ASSUME NEW S, NEW s \in Seq(S), s # <<>>
  PROVE  /\ Head(s) \in S /\ Head(s) = s[1] /\ Tail(s) \in Seq(S)
         /\ 1 \in DOMAIN s /\ Len(Tail(s)) = Len(s) - 1 /\ DOMAIN Tail(s) = 1..(Len(s) - 1)
         /\ \A i \in DOMAIN Tail(s) : i + 1 \in DOMAIN s /\ Tail(s)[i] = s[i + 1]
<1>1. Len(s) \in Nat /\ DOMAIN s = 1..Len(s) /\ Len(s) # 0
  BY SeqFacts
<1>2. Head(s) \in S /\ Tail(s) \in Seq(S) /\ Len(Tail(s)) = Len(s) - 1
      /\ \A i \in 1..Len(Tail(s)) : Tail(s)[i] = s[i + 1]
  BY HeadTailProperties
<1>3. DOMAIN Tail(s) = 1..Len(Tail(s))
  BY <1>2, SeqFacts
<1>4. Head(s) = s[1]
  OBVIOUS
<1> QED BY <1>1, <1>2, <1>3, <1>4

(* A queue without its head.                                               *)
LEMMA MembersTail ==
  ASSUME NEW S, NEW s \in Seq(S), s # <<>>
  PROVE  /\ Head(s) \in Members(s) /\ Members(Tail(s)) \subseteq Members(s)
         /\ Distinct(s) => Members(Tail(s)) = Members(s) \ {Head(s)} /\ Distinct(Tail(s))
<1>1. /\ Head(s) = s[1] /\ 1 \in DOMAIN s /\ DOMAIN Tail(s) = 1..(Len(s) - 1)
      /\ Len(s) \in Nat /\ DOMAIN s = 1..Len(s)
      /\ \A i \in DOMAIN Tail(s) : i + 1 \in DOMAIN s /\ Tail(s)[i] = s[i + 1]
  BY TailFacts, SeqFacts
<1>2. Head(s) \in Members(s) /\ Members(Tail(s)) \subseteq Members(s)
  BY <1>1 DEF Members
<1>3. ASSUME Distinct(s) PROVE Distinct(Tail(s))
  <2> SUFFICES ASSUME NEW i \in DOMAIN Tail(s), NEW j \in DOMAIN Tail(s), Tail(s)[i] = Tail(s)[j]
               PROVE  i = j
    BY DEF Distinct
  <2>1. i + 1 = j + 1
    BY <1>1, <1>3 DEF Distinct
  <2> QED BY <1>1, <2>1
<1>4. ASSUME Distinct(s), NEW x \in Members(Tail(s)) PROVE x # Head(s)
  <2>1. PICK i \in DOMAIN Tail(s) : x = Tail(s)[i]
    BY DEF Members
  <2>2. i + 1 \in DOMAIN s /\ x = s[i + 1] /\ i + 1 # 1
    BY <1>1, <2>1
  <2> QED BY <1>1, <1>4, <2>2 DEF Distinct
<1>5. ASSUME NEW x \in Members(s), x # Head(s) PROVE x \in Members(Tail(s))
  <2>1. PICK i \in DOMAIN s : x = s[i]
    BY DEF Members
  <2>2. i # 1 /\ i - 1 \in DOMAIN Tail(s) /\ (i - 1) + 1 = i
    BY <1>1, <1>5, <2>1
  <2>3. x = Tail(s)[i - 1]
    BY <1>1, <2>1, <2>2
  <2> QED BY <2>2, <2>3 DEF Members
<1> QED BY <1>2, <1>3, <1>4, <1>5

(* Two queues joined.                                                      *)
LEMMA MembersConcat ==
  ASSUME NEW S, NEW s \in Seq(S), NEW t \in Seq(S)
  PROVE  /\ s \o t \in Seq(S) /\ Members(s \o t) = Members(s) \cup Members(t)
         /\ Distinct(s) /\ Distinct(t) /\ Members(s) \cap Members(t) = {} => Distinct(s \o t)
<1>1. /\ Len(s) \in Nat /\ DOMAIN s = 1..Len(s) /\ Len(t) \in Nat /\ DOMAIN t = 1..Len(t)
  BY SeqFacts
<1>2. /\ s \o t \in Seq(S) /\ Len(s \o t) = Len(s) + Len(t)
      /\ \A i \in 1..(Len(s) + Len(t)) : (s \o t)[i] = IF i <= Len(s) THEN s[i] ELSE t[i - Len(s)]
  BY ConcatProperties
<1>3. DOMAIN (s \o t) = 1..(Len(s) + Len(t))
  BY <1>2, SeqFacts
<1>4. Members(s \o t) \subseteq Members(s) \cup Members(t)
  <2> SUFFICES ASSUME NEW i \in DOMAIN (s \o t) PROVE (s \o t)[i] \in Members(s) \cup Members(t)
    BY DEF Members
  <2>1. CASE i <= Len(s)
    BY <1>1, <1>2, <1>3, <2>1 DEF Members
  <2>2. CASE i > Len(s)
    BY <1>1, <1>2, <1>3, <2>2 DEF Members
  <2> QED BY <1>1, <1>3, <2>1, <2>2
<1>5. Members(s) \subseteq Members(s \o t)
  <2> SUFFICES ASSUME NEW i \in DOMAIN s PROVE s[i] \in Members(s \o t)
    BY DEF Members
  <2>1. i \in DOMAIN (s \o t) /\ (s \o t)[i] = s[i]
    BY <1>1, <1>2, <1>3
  <2> QED BY <2>1 DEF Members
<1>6. Members(t) \subseteq Members(s \o t)
  <2> SUFFICES ASSUME NEW i \in DOMAIN t PROVE t[i] \in Members(s \o t)
    BY DEF Members
  <2>1. i + Len(s) \in DOMAIN (s \o t) /\ (s \o t)[i + Len(s)] = t[i]
    BY <1>1, <1>2, <1>3
  <2> QED BY <2>1 DEF Members
<1>7. ASSUME Distinct(s), Distinct(t), Members(s) \cap Members(t) = {},
             NEW i \in DOMAIN (s \o t), NEW j \in DOMAIN (s \o t), (s \o t)[i] = (s \o t)[j]
      PROVE  i = j
  <2>1. CASE i <= Len(s) /\ j <= Len(s)
    BY <1>1, <1>2, <1>3, <1>7, <2>1 DEF Distinct
  <2>2. CASE i > Len(s) /\ j > Len(s)
    <3>1. i - Len(s) \in DOMAIN t /\ j - Len(s) \in DOMAIN t /\ t[i - Len(s)] = t[j - Len(s)]
      BY <1>1, <1>2, <1>3, <1>7, <2>2
    <3>2. i - Len(s) = j - Len(s)
      BY <1>7, <3>1 DEF Distinct
    <3> QED BY <1>1, <1>3, <3>2
  <2>3. CASE i <= Len(s) /\ j > Len(s)
    <3>1. s[i] \in Members(s) /\ t[j - Len(s)] \in Members(t) /\ s[i] = t[j - Len(s)]
      BY <1>1, <1>2, <1>3, <1>7, <2>3 DEF Members
    <3> QED BY <1>7, <3>1
  <2>4. CASE i > Len(s) /\ j <= Len(s)
    <3>1. s[j] \in Members(s) /\ t[i - Len(s)] \in Members(t) /\ s[j] = t[i - Len(s)]
      BY <1>1, <1>2, <1>3, <1>7, <2>4 DEF Members
    <3> QED BY <1>7, <3>1
  <2> QED BY <1>1, <1>3, <2>1, <2>2, <2>3, <2>4
<1> QED BY <1>2, <1>4, <1>5, <1>6, <1>7 DEF Distinct

(* A queue with one more at its end.                                       *)
LEMMA MembersAppend ==
  ASSUME NEW S, NEW s \in Seq(S), NEW x \in S
  PROVE  /\ Append(s, x) \in Seq(S) /\ Members(Append(s, x)) = Members(s) \cup {x}
         /\ Len(Append(s, x)) = Len(s) + 1
         /\ Distinct(s) /\ x \notin Members(s) => Distinct(Append(s, x))
<1>1. /\ Append(s, x) \in Seq(S) /\ Len(Append(s, x)) = Len(s) + 1
      /\ \A i \in 1..Len(s) : Append(s, x)[i] = s[i]
      /\ Append(s, x)[Len(s) + 1] = x
  BY AppendProperties
<1>2. Len(s) \in Nat /\ DOMAIN s = 1..Len(s) /\ DOMAIN Append(s, x) = 1..(Len(s) + 1)
  BY <1>1, SeqFacts
<1>3. Members(Append(s, x)) = Members(s) \cup {x}
  BY <1>1, <1>2 DEF Members
<1>4. ASSUME Distinct(s), x \notin Members(s), NEW i \in DOMAIN Append(s, x),
             NEW j \in DOMAIN Append(s, x), Append(s, x)[i] = Append(s, x)[j]
      PROVE  i = j
  BY <1>1, <1>2, <1>4 DEF Distinct, Members
<1> QED BY <1>1, <1>3, <1>4 DEF Distinct

(* A queue of one.                                                         *)
LEMMA MembersOne ==
  ASSUME NEW S, NEW x \in S
  PROVE  <<x>> \in Seq(S) /\ Members(<<x>>) = {x} /\ Distinct(<<x>>)
BY DEF Members, Distinct

(* The empty queue.                                                        *)
LEMMA MembersNone == Members(<<>>) = {} /\ Distinct(<<>>)
BY DEF Members, Distinct

(* The members of a queue have its type; only the empty one has none.      *)
LEMMA MembersIn ==
  ASSUME NEW S, NEW s \in Seq(S)
  PROVE  Members(s) \subseteq S /\ (Members(s) = {} <=> s = <<>>)
<1>1. Members(s) \subseteq S /\ Len(s) \in Nat /\ DOMAIN s = 1..Len(s) /\ (s = <<>> <=> Len(s) = 0)
  BY SeqFacts DEF Members
<1>2. ASSUME Members(s) = {} PROVE Len(s) = 0
  <2> SUFFICES ASSUME Len(s) # 0 PROVE FALSE
    OBVIOUS
  <2>1. 1 \in DOMAIN s
    BY <1>1
  <2> QED BY <1>2, <2>1 DEF Members
<1>3. s = <<>> => Members(s) = {}
  BY MembersNone
<1> QED BY <1>1, <1>2, <1>3

(* A queue without duplicates is as long as its set is large.              *)
LEMMA MembersCount ==
  ASSUME NEW S, NEW s \in Seq(S), Distinct(s)
  PROVE  IsFiniteSet(Members(s)) /\ Cardinality(Members(s)) = Len(s)
<1>1. Len(s) \in Nat /\ DOMAIN s = 1..Len(s) /\ s \in [1..Len(s) -> Members(s)]
  BY LenProperties DEF Members
<1>2. s \in Bijection(1..Len(s), Members(s))
  BY <1>1 DEF Distinct, Members, Bijection, Injection, IsInjective, Surjection
<1>3. IsFiniteSet(1..Len(s)) /\ Cardinality(1..Len(s)) = Len(s)
  BY <1>1, FS_Interval
<1>4. ExistsBijection(1..Len(s), Members(s))
  BY <1>2 DEF ExistsBijection
<1> QED BY <1>3, <1>4, FS_Bijection

-----------------------------------------------------------------------------
(* Records of chunks, in queues and in sets.                               *)
LEMMA IdsTail ==
  ASSUME NEW S, NEW s \in Seq(S), s # <<>>
  PROVE  /\ Head(s) \in S /\ Tail(s) \in Seq(S) /\ Head(s).id \in IdsIn(s)
         /\ IdsIn(Tail(s)) \subseteq IdsIn(s)
         /\ \A i \in DOMAIN Tail(s) : \E j \in DOMAIN s : Tail(s)[i] = s[j]
         /\ \E j \in DOMAIN s : Head(s) = s[j]
         /\ OneIn(s) => OneIn(Tail(s)) /\ IdsIn(Tail(s)) = IdsIn(s) \ {Head(s).id}
<1>1. /\ Head(s) \in S /\ Tail(s) \in Seq(S)
      /\ Head(s) = s[1] /\ 1 \in DOMAIN s /\ DOMAIN Tail(s) = 1..(Len(s) - 1)
      /\ Len(s) \in Nat /\ DOMAIN s = 1..Len(s)
      /\ \A i \in DOMAIN Tail(s) : i + 1 \in DOMAIN s /\ Tail(s)[i] = s[i + 1]
  BY TailFacts, SeqFacts
<1>2. Head(s).id \in IdsIn(s) /\ IdsIn(Tail(s)) \subseteq IdsIn(s)
  BY <1>1 DEF IdsIn
<1>3. ASSUME OneIn(s) PROVE OneIn(Tail(s))
  <2> SUFFICES ASSUME NEW i \in DOMAIN Tail(s), NEW j \in DOMAIN Tail(s),
                      Tail(s)[i].id = Tail(s)[j].id
               PROVE  i = j
    BY DEF OneIn
  <2>1. i + 1 = j + 1
    BY <1>1, <1>3 DEF OneIn
  <2> QED BY <1>1, <2>1
<1>4. ASSUME OneIn(s), NEW x \in IdsIn(Tail(s)) PROVE x # Head(s).id
  <2>1. PICK i \in DOMAIN Tail(s) : x = Tail(s)[i].id
    BY DEF IdsIn
  <2>2. i + 1 \in DOMAIN s /\ x = s[i + 1].id /\ i + 1 # 1
    BY <1>1, <2>1
  <2> QED BY <1>1, <1>4, <2>2 DEF OneIn
<1>5. ASSUME NEW x \in IdsIn(s), x # Head(s).id PROVE x \in IdsIn(Tail(s))
  <2>1. PICK i \in DOMAIN s : x = s[i].id
    BY DEF IdsIn
  <2>2. i # 1 /\ i - 1 \in DOMAIN Tail(s) /\ (i - 1) + 1 = i
    BY <1>1, <1>5, <2>1
  <2>3. x = Tail(s)[i - 1].id
    BY <1>1, <2>1, <2>2
  <2> QED BY <2>2, <2>3 DEF IdsIn
<1> QED BY <1>1, <1>2, <1>3, <1>4, <1>5

(* A queue of completions with one more.                                   *)
LEMMA IdsAppend ==
  ASSUME NEW S, NEW s \in Seq(S), NEW x \in S
  PROVE  /\ Append(s, x) \in Seq(S) /\ IdsIn(Append(s, x)) = IdsIn(s) \cup {x.id}
         /\ \A i \in DOMAIN Append(s, x) : Append(s, x)[i] = x \/ \E j \in DOMAIN s : Append(s, x)[i] = s[j]
         /\ OneIn(s) /\ x.id \notin IdsIn(s) => OneIn(Append(s, x))
<1>1. /\ Append(s, x) \in Seq(S) /\ Len(Append(s, x)) = Len(s) + 1
      /\ \A i \in 1..Len(s) : Append(s, x)[i] = s[i]
      /\ Append(s, x)[Len(s) + 1] = x
  BY AppendProperties
<1>2. Len(s) \in Nat /\ DOMAIN s = 1..Len(s) /\ DOMAIN Append(s, x) = 1..(Len(s) + 1)
  BY <1>1, SeqFacts
<1>3. IdsIn(Append(s, x)) = IdsIn(s) \cup {x.id}
  BY <1>1, <1>2 DEF IdsIn
<1>4. ASSUME OneIn(s), x.id \notin IdsIn(s), NEW i \in DOMAIN Append(s, x),
             NEW j \in DOMAIN Append(s, x), Append(s, x)[i].id = Append(s, x)[j].id
      PROVE  i = j
  BY <1>1, <1>2, <1>4 DEF OneIn, IdsIn
<1>5. ASSUME NEW i \in DOMAIN Append(s, x)
      PROVE  Append(s, x)[i] = x \/ \E j \in DOMAIN s : Append(s, x)[i] = s[j]
  BY <1>1, <1>2
<1> QED BY <1>1, <1>3, <1>4, <1>5 DEF OneIn

(* No completions.                                                         *)
LEMMA IdsNone == IdsIn(<<>>) = {} /\ OneIn(<<>>)
BY DEF IdsIn, OneIn

(* The chunks of a queue of records; only the empty queue has none.        *)
LEMMA IdsWithin ==
  ASSUME NEW S, NEW s \in Seq(S), \A x \in S : x.id \in Chunks
  PROVE  /\ IdsIn(s) \subseteq Chunks /\ (IdsIn(s) = {} <=> s = <<>>)
         /\ \A i \in DOMAIN s : s[i] \in S /\ s[i].id \in IdsIn(s)
<1>1. /\ Len(s) \in Nat /\ DOMAIN s = 1..Len(s) /\ (s = <<>> <=> Len(s) = 0)
      /\ \A i \in DOMAIN s : s[i] \in S
  BY SeqFacts
<1>2. IdsIn(s) \subseteq Chunks
  BY <1>1 DEF IdsIn
<1>3. ASSUME IdsIn(s) = {} PROVE Len(s) = 0
  <2> SUFFICES ASSUME Len(s) # 0 PROVE FALSE
    OBVIOUS
  <2>1. 1 \in DOMAIN s
    BY <1>1
  <2> QED BY <1>3, <2>1 DEF IdsIn
<1> QED BY <1>1, <1>2, <1>3, IdsNone DEF IdsIn

(* With one completion a chunk, they are as many as the chunks.            *)
LEMMA IdsCount ==
  ASSUME NEW S, NEW s \in Seq(S), OneIn(s)
  PROVE  IsFiniteSet(IdsIn(s)) /\ Cardinality(IdsIn(s)) = Len(s)
<1> DEFINE f == [i \in 1..Len(s) |-> s[i].id]
<1>1. Len(s) \in Nat /\ DOMAIN s = 1..Len(s)
  BY SeqFacts
<1>2. f \in Bijection(1..Len(s), IdsIn(s))
  BY <1>1 DEF OneIn, IdsIn, Bijection, Injection, IsInjective, Surjection
<1> HIDE DEF f
<1>3. IsFiniteSet(1..Len(s)) /\ Cardinality(1..Len(s)) = Len(s)
  BY <1>1, FS_Interval
<1>4. ExistsBijection(1..Len(s), IdsIn(s))
  BY <1>2 DEF ExistsBijection
<1> QED BY <1>3, <1>4, FS_Bijection

(* One more read, or copy.                                                 *)
LEMMA OneMore ==
  ASSUME NEW S, NEW x
  PROVE  /\ IdsOf(S \cup {x}) = IdsOf(S) \cup {x.id}
         /\ OneEach(S) /\ x.id \notin IdsOf(S) => OneEach(S \cup {x})
BY DEF IdsOf, OneEach

(* One read, or copy, less.                                                *)
LEMMA OneLess ==
  ASSUME NEW S, NEW x \in S, OneEach(S)
  PROVE  /\ IdsOf(S \ {x}) = IdsOf(S) \ {x.id} /\ x.id \in IdsOf(S)
         /\ OneEach(S \ {x})
BY DEF IdsOf, OneEach

(* With one read a chunk, they are as many as the chunks.                  *)
LEMMA OneCount ==
  ASSUME NEW S, OneEach(S), IsFiniteSet(IdsOf(S))
  PROVE  IsFiniteSet(S) /\ Cardinality(S) = Cardinality(IdsOf(S))
<1> DEFINE f == [x \in S |-> x.id]
<1>1. f \in Bijection(S, IdsOf(S))
  BY DEF OneEach, IdsOf, Bijection, Injection, IsInjective, Surjection
<1> HIDE DEF f
<1>2. ExistsBijection(S, IdsOf(S))
  BY <1>1 DEF ExistsBijection
<1>3. ExistsBijection(IdsOf(S), S)
  BY <1>2, Fun_ExistsBijSymmetric
<1> QED BY <1>3, FS_Bijection

(* No reads.                                                               *)
LEMMA NoneEach == IdsOf({}) = {} /\ OneEach({})
BY DEF IdsOf, OneEach

(* One more in a queue of records counts one more.                         *)
LEMMA AppendLen ==
  ASSUME NEW S, NEW s \in Seq(S), NEW x \in S
  PROVE  Len(Append(s, x)) = Len(s) + 1 /\ Len(s) \in Nat
BY AppendProperties, LenProperties

-----------------------------------------------------------------------------
(* The workloads, their chunks and their files.                            *)
LEMMA WorkFacts ==
  /\ Len(Work) \in Nat /\ DOMAIN Work = 1..Len(Work)
  /\ \A w \in DOMAIN Work :
       /\ Work[w].chunks \in Seq([dev : BOOLEAN, file : Nat, ragged : BOOLEAN])
       /\ Work[w].zero \in BOOLEAN
       /\ Len(Work[w].chunks) \in Nat /\ DOMAIN Work[w].chunks = 1..Len(Work[w].chunks)
       /\ \A i \in DOMAIN Work[w].chunks : <<w, i>> \in Chunks
<1> DEFINE D == [dev : BOOLEAN, file : Nat, ragged : BOOLEAN]
<1> HIDE DEF D
<1>1. Work \in Seq([chunks : Seq(D), zero : BOOLEAN])
  BY WorkAssumption DEF D
<1>2. Len(Work) \in Nat /\ DOMAIN Work = 1..Len(Work) /\ \A w \in DOMAIN Work : Work[w] \in [chunks : Seq(D), zero : BOOLEAN]
  BY <1>1, SeqFacts
<1>3. ASSUME NEW w \in DOMAIN Work
      PROVE  /\ Work[w].chunks \in Seq(D) /\ Work[w].zero \in BOOLEAN
             /\ Len(Work[w].chunks) \in Nat /\ DOMAIN Work[w].chunks = 1..Len(Work[w].chunks)
             /\ \A i \in DOMAIN Work[w].chunks : <<w, i>> \in Chunks
  <2>1. Work[w] \in [chunks : Seq(D), zero : BOOLEAN]
    BY <1>2
  <2>2. Work[w].chunks \in Seq(D)
    BY <2>1
  <2>3. Work[w].zero \in BOOLEAN
    BY <2>1, Zenon
  <2>4. Len(Work[w].chunks) \in Nat /\ DOMAIN Work[w].chunks = 1..Len(Work[w].chunks)
    BY <2>2, SeqFacts
  <2>5. \A i \in DOMAIN Work[w].chunks : <<w, i>> \in Chunks
    BY DEF Chunks
  <2> QED BY <2>2, <2>3, <2>4, <2>5
<1> QED BY <1>2, <1>3 DEF D

(* What a chunk is.                                                        *)
LEMMA ChunkFacts ==
  ASSUME NEW c \in Chunks
  PROVE  /\ c[1] \in DOMAIN Work /\ c[1] \in Nat \ {0} /\ c[1] <= Len(Work)
         /\ c[2] \in DOMAIN Work[c[1]].chunks /\ c[2] \in Nat \ {0} /\ c = <<c[1], c[2]>>
         /\ File(c) \in Files /\ c \in Ranges
<1>1. PICK w \in DOMAIN Work : c \in {<<w, i>> : i \in DOMAIN Work[w].chunks}
  BY DEF Chunks
<1>2. PICK i \in DOMAIN Work[w].chunks : c = <<w, i>>
  BY <1>1
<1>3. c \in Ranges /\ File(c) \in Files
  BY DEF Files, Ranges
<1>4. Len(Work) \in Nat /\ DOMAIN Work = 1..Len(Work) /\ Len(Work[w].chunks) \in Nat
      /\ DOMAIN Work[w].chunks = 1..Len(Work[w].chunks)
  BY WorkFacts
<1>5. w \in Nat \ {0} /\ w <= Len(Work) /\ i \in Nat \ {0}
  BY <1>4
<1> QED BY <1>2, <1>3, <1>5

(* What a range is: a chunk, or a workload's zero-sized range.             *)
LEMMA RangeFacts ==
  ASSUME NEW c \in Ranges
  PROVE  /\ c[1] \in DOMAIN Work /\ c[1] \in Nat \ {0} /\ c[1] <= Len(Work)
         /\ File(c) \in Files
         /\ c \in Chunks \/ (c = <<c[1], 0>> /\ Work[c[1]].zero /\ c \notin Chunks)
<1>1. CASE c \in Chunks
  BY <1>1, ChunkFacts
<1>2. CASE c \in Zeros
  <2>1. PICK w \in DOMAIN Work : Work[w].zero /\ c = <<w, 0>>
    BY <1>2 DEF Zeros
  <2>2. Len(Work) \in Nat /\ DOMAIN Work = 1..Len(Work)
    BY WorkFacts
  <2>3. c[1] = w /\ c[2] = 0 /\ w \in Nat \ {0} /\ w <= Len(Work)
    BY <2>1, <2>2
  <2>4. c \notin Chunks
    BY <2>3, ChunkFacts
  <2>5. File(c) \in Files
    BY DEF Files
  <2> QED BY <2>1, <2>3, <2>4, <2>5
<1> QED BY <1>1, <1>2 DEF Ranges

(* There are finitely many chunks.                                         *)
LEMMA ChunksFinite == IsFiniteSet(Chunks)
<1> DEFINE F(w) == {<<w, i>> : i \in DOMAIN Work[w].chunks}
           g == [w \in DOMAIN Work |-> F(w)]
           S == {F(w) : w \in DOMAIN Work}
<1>1. Chunks = UNION S
  BY DEF Chunks
<1>2. IsFiniteSet(DOMAIN Work)
  BY WorkFacts, FS_Interval
<1>3. g \in Surjection(DOMAIN Work, S)
  BY DEF Surjection
<1>4. IsFiniteSet(S)
  <2> HIDE DEF S, g, F
  <2> QED BY <1>2, <1>3, FS_Surjection
<1>5. ASSUME NEW w \in DOMAIN Work PROVE IsFiniteSet(F(w))
  <2> DEFINE h == [i \in DOMAIN Work[w].chunks |-> <<w, i>>]
  <2>1. Len(Work[w].chunks) \in Nat /\ DOMAIN Work[w].chunks = 1..Len(Work[w].chunks)
    BY WorkFacts
  <2>2. IsFiniteSet(DOMAIN Work[w].chunks)
    BY <2>1, FS_Interval
  <2>3. h \in Surjection(DOMAIN Work[w].chunks, F(w))
    BY DEF Surjection
  <2> HIDE DEF h, F
  <2> QED BY <2>2, <2>3, FS_Surjection
<1>6. \A T \in S : IsFiniteSet(T)
  BY <1>5
<1> HIDE DEF S, F, g
<1> QED BY <1>1, <1>4, <1>6, FS_UNION

(* So every set of chunks can be counted.                                  *)
LEMMA Countable ==
  ASSUME NEW S \in SUBSET Chunks
  PROVE  IsFiniteSet(S) /\ Cardinality(S) \in Nat
BY ChunksFinite, FS_Subset, FS_CardinalityType

(* One chunk more, and one less.                                           *)
LEMMA OneChunk ==
  ASSUME NEW S \in SUBSET Chunks, NEW c
  PROVE  /\ c \notin S => Cardinality(S \cup {c}) = Cardinality(S) + 1
         /\ c \in S => Cardinality(S \ {c}) = Cardinality(S) - 1 /\ Cardinality(S) > 0
         /\ c \in S => S \cup {c} = S
         /\ c \notin S => S \ {c} = S
<1>1. IsFiniteSet(S) /\ Cardinality(S) \in Nat
  BY Countable
<1>2. c \in S => Cardinality(S) # 0
  BY <1>1, FS_EmptySet
<1>3. c \notin S => Cardinality(S \cup {c}) = Cardinality(S) + 1
  BY <1>1, FS_AddElement
<1>4. c \in S => Cardinality(S \ {c}) = Cardinality(S) - 1
  BY <1>1, FS_RemoveElement
<1> QED BY <1>1, <1>2, <1>3, <1>4

(* The records carry chunks.                                               *)
LEMMA RecordIds ==
  /\ \A x \in Entry : x.id \in Chunks
  /\ \A x \in Completion : x.id \in Chunks /\ x.err \in {"none", "eintr", "einval", "error"} /\ x.got \in Nat
  /\ \A x \in CopyReport : x.id \in Chunks /\ x.ret \in {"Success", "DeviceDriverError"}
BY DEF Entry, Completion, CopyReport

-----------------------------------------------------------------------------
(* Nothing is anywhere at first.                                           *)
LEMMA InitHolds == Init => Inv
<1> SUFFICES ASSUME Init PROVE Inv
  OBVIOUS
<1>1. Len(Work) \in Nat /\ DOMAIN Work = 1..Len(Work)
  BY WorkFacts
<1>2. Depth \in Nat /\ Depth > 0 /\ CopyDepth \in Nat /\ Units \in Nat
  BY DepthAssumption, BoundsAssumption
<1>3. /\ up \in BOOLEAN /\ broken \in BOOLEAN /\ directRefused \in BOOLEAN /\ dead \in BOOLEAN
      /\ stopped \in BOOLEAN
  BY Zenon DEF Init, EngineInit
<1>4. \A S : <<>> \in Seq(S)
  OBVIOUS
<1>5. TypeOK
  <2>1. EngineType
    BY <1>3, <1>4 DEF Init, EngineInit, EngineType
  <2>2. QueueType
    BY <1>3, <1>4 DEF Init, QueueType
  <2>3. ferr \in [DOMAIN Work -> [Files -> Codes \cup {None}]]
    BY DEF Init, Codes
  <2>4. fds \in [DOMAIN Work -> [Files -> Modes]]
    BY DEF Init, Modes
  <2>5. TableType
    BY <2>3, <2>4 DEF Init, TableType
  <2>6. RecordType
    BY <1>2, <1>4 DEF Init, RecordType
  <2>7. ControlType
    BY <1>1, <1>3, <1>4 DEF Init, ControlType, Pcs
  <2> QED BY <2>1, <2>2, <2>5, <2>6, <2>7 DEF TypeOK
<1>6. /\ Members(pending) = {} /\ Members(waiting) = {} /\ IdsIn(copyDone) = {} /\ IdsIn(staged) = {}
      /\ IdsOf(kernel) = {} /\ IdsIn(ring) = {} /\ IdsIn(refused) = {} /\ IdsIn(harvest) = {}
      /\ Staging = {} /\ copying = {} /\ bounce = {} /\ holds = {} /\ tracked = {}
  BY MembersNone, IdsNone, NoneEach DEF Init, EngineInit, Staging
<1>7. Cardinality({}) = 0 /\ Len(<<>>) = 0
  BY FS_EmptySet
<1>8. Control
  BY <1>1 DEF Init, Control, Quiescing, Resuming, Harvesting
<1>9. Pools
  <2>1. Cardinality(bounce) = 0 /\ Cardinality(holds) = 0 /\ Cardinality(copying) = 0 /\ Len(copyDone) = 0
    BY <1>7 DEF Init
  <2> QED BY <1>2, <2>1 DEF Init, Pools
<1>10. Answering
  BY RangeFacts, ChunkFacts DEF Init, Answering, None
<1>11. NoFalseSuccess
  BY DEF Init, NoFalseSuccess, None
<1>12. Blamed
  BY ChunkFacts DEF Init, Blamed, RefusalForgiven, None
<1>13. Remaining /\ StallIsReal
  BY DEF Init, Remaining, StallIsReal
<1>14. Spread
  <2> DEFINE p == [c \in Chunks |-> "stage"]
  <2>1. p \in [Chunks -> Places] /\ WorkerAt(p) /\ ReadsAt(p)
    BY <1>6 DEF Places, WorkerAt, ReadsAt
  <2>2. OneQueued /\ OneRead
    BY MembersNone, IdsNone, NoneEach DEF Init, EngineInit, OneQueued, OneRead
  <2> HIDE DEF p
  <2> QED BY <2>1, <2>2 DEF Spread
<1>15. Recorded /\ Bounced /\ Holding
  BY <1>6 DEF Recorded, Bounced, Holding, Reads, AtEngine
<1>16. Slots = {}
  BY <1>6 DEF Slots
<1>17. Credit
  BY <1>2, <1>7, <1>16 DEF Init, Credit
<1>18. Counted /\ Refusals
  BY <1>7 DEF Init, EngineInit, Counted, Owed, Refusals
<1> QED
  BY <1>5, <1>8, <1>9, <1>10, <1>11, <1>12, <1>13, <1>14, <1>15, <1>17, <1>18 DEF Inv, Always, Serving

-----------------------------------------------------------------------------
(* What stays when its variables do.                                       *)
seats == <<pending, waiting, copying, copyDone, staged, kernel, ring, refused, harvest>>

(* The places.                                                             *)
LEMMA SpreadSame ==
  ASSUME Spread, UNCHANGED seats, Staging' \subseteq Staging
  PROVE  Spread'
<1>1. OneQueued' /\ OneRead'
  BY DEF Spread, OneQueued, OneRead, OneEach, OneIn, Distinct, seats
<1>2. PICK p \in [Chunks -> Places] : WorkerAt(p) /\ ReadsAt(p)
  BY DEF Spread
<1>3. WorkerAt(p)'
  BY <1>2 DEF WorkerAt, Members, IdsIn, seats
<1>4. ReadsAt(p)'
  BY <1>2 DEF ReadsAt, IdsOf, IdsIn, seats
<1> QED BY <1>1, <1>2, <1>3, <1>4 DEF Spread

(* The reads.                                                              *)
LEMMA ReadsSame ==
  ASSUME UNCHANGED <<staged, kernel, ring, refused, harvest>>
  PROVE  Reads' = Reads
BY DEF Reads, AtEngine, IdsOf, IdsIn

(* The record.                                                             *)
LEMMA RecordedSame ==
  ASSUME Recorded, UNCHANGED seats, UNCHANGED tracked, Staging' \subseteq Staging
  PROVE  Recorded'
<1>1. /\ Members(pending)' = Members(pending) /\ Members(waiting)' = Members(waiting)
      /\ IdsIn(copyDone)' = IdsIn(copyDone) /\ Reads' = Reads
  BY ReadsSame DEF Members, IdsIn, seats
<1> QED BY <1>1 DEF Recorded, seats

(* The slots.                                                              *)
LEMMA SlotsSame ==
  ASSUME UNCHANGED <<tracked, copying, pending, copyDone>>
  PROVE  Slots' = Slots
BY DEF Slots

(* The credit.                                                             *)
LEMMA CreditSame ==
  ASSUME Credit, UNCHANGED <<credit, tracked, copying, pending, copyDone>>, Quiescing => Quiescing'
  PROVE  Credit'
BY SlotsSame DEF Credit

(* The scratch buffers.                                                    *)
LEMMA BouncedSame ==
  ASSUME Bounced, UNCHANGED <<bounce, tracked, copying, pending, copyDone, waiting>>,
         Staging' \subseteq Staging
  PROVE  Bounced'
<1>1. Members(waiting)' = Members(waiting)
  BY DEF Members
<1> QED BY <1>1, SlotsSame DEF Bounced

(* The staging buffers.                                                    *)
LEMMA HoldingSame ==
  ASSUME Holding, holds \subseteq holds', Reads' \subseteq Reads
  PROVE  Holding'
BY DEF Holding

(* What the engine owes.                                                   *)
LEMMA CountedSame ==
  ASSUME UNCHANGED <<issued, kernel, ring, refused, harvest>>
  PROVE  Counted => Counted'
BY DEF Counted, Owed

(* An excuse, while faults and late refusals only grow in number.          *)
LEMMA ExcusedSame ==
  ASSUME NEW c, NEW e, Excused(c, e), UNCHANGED <<tries, fds>>, faults \in Nat, faults' \in Nat,
         faults <= faults', late \subseteq late'
  PROVE  Excused(c, e)'
BY DEF Excused

(* The refusals.                                                           *)
LEMMA RefusalsSame ==
  ASSUME Refusals, UNCHANGED <<kernel, ring, refused, harvest, tries, fds>>, faults \in Nat, faults' \in Nat,
         faults <= faults', late \subseteq late'
  PROVE  Refusals'
<1>1. \A c, e : Excused(c, e) => Excused(c, e)'
  BY ExcusedSame
<1> QED BY <1>1 DEF Refusals

(* The answers, while more chunks land.                                    *)
LEMMA AnsweringSame ==
  ASSUME Answering, UNCHANGED <<answer, live, tracked, ferr, taken>>, landed \subseteq landed'
  PROVE  Answering'
BY DEF Answering

(* The errors and the reports.                                             *)
LEMMA NoFalseSame ==
  ASSUME NoFalseSuccess, UNCHANGED <<ferr, copyDone>>, landed \subseteq landed'
  PROVE  NoFalseSuccess'
BY DEF NoFalseSuccess

(* The blame.                                                              *)
LEMMA BlamedSame ==
  ASSUME Blamed, UNCHANGED <<answer, ferr, fds>>, faults \in Nat, faults' \in Nat,
         faults <= faults', late \subseteq late'
  PROVE  Blamed'
<1>1. faults > 0 => faults' > 0
  OBVIOUS
<1> QED BY <1>1 DEF Blamed, RefusalForgiven

(* What is left of a workload.                                             *)
LEMMA RemainingSame ==
  ASSUME Remaining, UNCHANGED <<live, remaining, tracked>>
  PROVE  Remaining'
BY DEF Remaining, TrackedOf

(* The stalls.                                                             *)
LEMMA StallSame ==
  ASSUME StallIsReal, UNCHANGED <<stalls, issued, kernel, ring, refused>>
  PROVE  StallIsReal'
BY DEF StallIsReal, Owed

(* The pools.                                                              *)
LEMMA PoolsSame ==
  ASSUME Pools, UNCHANGED <<scratch, bounce, buffers, holds, copying, copiesIssued, copyDone>>
  PROVE  Pools'
BY DEF Pools

(* The thread goes on, and nothing else changes.                           *)
LEMMA Steered ==
  ASSUME Inv,
         UNCHANGED <<engine, queue, table, fds, record, staging, copyDone, waiting, issued, flags,
                     back, cur, harvest, taken, faults, refusals, landed, late>>,
         pc' \in Pcs, ret' \in {"loop", "tail", "drain"}, quota' \in Nat, stopped' \in BOOLEAN,
         code' \in {None, "FinishedError", "FsAsyncEngineError"},
         Control', pc' = "stage" => pc = "stage", Quiescing => Quiescing', stopped => stopped',
         GivenUp => pc' \in {"idle", "loop", "pump", "exit"}
  PROVE  Inv'
<1>1. TypeOK'
  <2>1. EngineType' /\ QueueType' /\ TableType'
    BY DEF Inv, Always, TypeOK, EngineType, QueueType, TableType, engine, queue, table
  <2>2. RecordType'
    BY DEF Inv, Always, TypeOK, RecordType, record, staging
  <2>3. ControlType'
    BY DEF Inv, Always, TypeOK, ControlType, flags
  <2> QED BY <2>1, <2>2, <2>3 DEF TypeOK
<1>2. faults \in Nat /\ faults' = faults
  BY DEF Inv, Always, TypeOK, ControlType
<1>3. Always'
  <2>1. Pools' /\ Answering' /\ NoFalseSuccess'
    BY PoolsSame, AnsweringSame, NoFalseSame DEF Inv, Always, record, staging, table
  <2>2. Blamed' /\ Remaining' /\ StallIsReal'
    BY <1>2, BlamedSame, RemainingSame, StallSame DEF Inv, Always, record, table, flags, engine
  <2> QED BY <1>1, <2>1, <2>2 DEF Always
<1>4. ASSUME GivenUp PROVE GivenUp'
  BY <1>4 DEF GivenUp, record, table, queue, staging, flags, engine, Owed
<1>5. ASSUME Serving PROVE Serving'
  <2>1. Staging' \subseteq Staging
    BY DEF Staging
  <2>2. Spread' /\ Recorded'
    BY <1>5, <2>1, SpreadSame, RecordedSame DEF Serving, seats, engine, queue, staging, record
  <2>3. Credit' /\ Bounced'
    BY <1>5, <2>1, CreditSame, BouncedSame DEF Serving, queue, staging, record
  <2>4. Holding' /\ Counted'
    BY <1>5, ReadsSame, HoldingSame, CountedSame DEF Serving, engine, staging
  <2>5. Refusals'
    BY <1>2, <1>5, RefusalsSame DEF Serving, engine, record
  <2> QED BY <2>2, <2>3, <2>4, <2>5 DEF Serving
<1> QED BY <1>3, <1>4, <1>5 DEF Inv

-----------------------------------------------------------------------------
(* Whom drain_batch returns to.                                            *)
LEMMA CallerFacts ==
  ASSUME TypeOK
  PROVE  Caller \in {"loop", "idle", "pump"}
<1>1. ret = "loop" \/ ret = "tail" \/ ret = "drain"
  BY DEF TypeOK, ControlType
<1>2. ret = "loop" => Caller = "loop"
  BY DEF Caller
<1>3. ret = "tail" => Caller = "idle"
  BY DEF Caller
<1>4. ret = "drain" => Caller = "pump"
  BY DEF Caller
<1> QED BY <1>1, <1>2, <1>3, <1>4

(* The thread's own turns, with no effect on what it holds.                *)
LEMMA SteeringStep ==
  ASSUME Inv,
         \/ Loop \/ Drain \/ Turn \/ EndCopies \/ EndHarvest \/ CopiesQuiet \/ Exit \/ Stop
         \/ Pump /\ (pending = <<>> \/ Full)
         \/ Resume /\ quota = 0
         \/ Wait /\ ReapFails
  PROVE  Inv'
<1>1. /\ pc \in Pcs /\ ret \in {"loop", "tail", "drain"} /\ quota \in Nat /\ stopped \in BOOLEAN
      /\ code \in {None, "FinishedError", "FsAsyncEngineError"} /\ waiting \in Seq(Chunks)
      /\ Control /\ TypeOK
  BY DEF Inv, Always, TypeOK, QueueType, ControlType
<1>2. CASE Loop
  <2>1. pc' \in {"pump", "turn", "idle"} /\ pc = "loop" /\ ret' \in {"loop", "tail", "drain"}
    BY <1>1, <1>2 DEF Loop
  <2>2. GivenUp => pc' \in {"idle", "loop", "pump", "exit"}
    <3> SUFFICES ASSUME GivenUp PROVE pc' \in {"idle", "loop", "pump", "exit"}
      OBVIOUS
    <3>1. credit = 0 /\ pending = <<>> /\ ~(credit >= Depth)
      BY DepthAssumption DEF GivenUp
    <3> QED BY <1>2, <3>1 DEF Loop
  <2>3. Control'
    BY <1>1, <1>2, <2>1 DEF Loop, Control, Quiescing, Resuming, Harvesting, queue, table, flags, world, staging
  <2> QED BY <1>1, <1>2, <2>1, <2>2, <2>3, Steered DEF Loop, Pcs, Quiescing, world
<1>3. CASE Drain
  <2>1. pc' = "turn" /\ pc = "idle" /\ ret' \in {"loop", "tail", "drain"}
    BY <1>3 DEF Drain
  <2>2. ~GivenUp
    BY <1>3 DEF Drain, GivenUp, Idle
  <2>3. Control'
    BY <1>1, <1>3, <2>1 DEF Drain, Control, Quiescing, Resuming, Harvesting, queue, table, flags, world, staging
  <2> QED BY <1>1, <1>3, <2>1, <2>2, <2>3, Steered DEF Drain, Pcs, Quiescing, world
<1>4. CASE Turn
  <2>1. pc' \in {"abort", "copies"} /\ pc = "turn" /\ code' \in {None, "FinishedError", "FsAsyncEngineError"}
        /\ (pc' = "abort" => code' = "FinishedError" /\ stopped)
    BY <1>1, <1>4 DEF Turn
  <2>2. ~GivenUp
    BY <2>1 DEF GivenUp
  <2>3. Control'
    BY <1>1, <1>4, <2>1 DEF Turn, Control, Quiescing, Resuming, Harvesting, queue, table, flags, world, staging,
                            None
  <2> QED BY <1>1, <1>4, <2>1, <2>2, <2>3, Steered DEF Turn, Pcs, Quiescing, world
<1>5. CASE EndCopies
  <2>1. pc' = "resume" /\ pc = "copies" /\ quota' = Len(waiting) /\ Len(waiting) \in Nat
    BY <1>1, <1>5, SeqFacts DEF EndCopies
  <2>2. ~GivenUp
    BY <2>1 DEF GivenUp
  <2>3. Control'
    BY <1>1, <1>5, <2>1 DEF EndCopies, Control, Quiescing, Resuming, Harvesting, queue, table, flags, world, staging
  <2> QED BY <1>1, <1>5, <2>1, <2>2, <2>3, Steered DEF EndCopies, Pcs, Quiescing, world
<1>6. CASE EndHarvest
  <2>1. pc' \in {"loop", "idle", "pump"} /\ pc = "harvest" /\ harvest = <<>>
    BY <1>1, <1>6, CallerFacts DEF EndHarvest
  <2>2. ~GivenUp
    BY <2>1 DEF GivenUp
  <2>3. Control'
    BY <1>1, <1>6, <2>1 DEF EndHarvest, Control, Quiescing, Resuming, Harvesting, queue, table, flags, world, staging
  <2> QED BY <1>1, <1>6, <2>1, <2>2, <2>3, Steered DEF EndHarvest, Pcs, Quiescing, world
<1>7. CASE CopiesQuiet
  <2>1. pc' = "quiesceReads" /\ pc = "quiesceCopies" /\ copiesIssued = 0
    BY <1>7 DEF CopiesQuiet
  <2>2. ~GivenUp
    BY <2>1 DEF GivenUp
  <2>3. Control'
    BY <1>1, <1>7, <2>1 DEF CopiesQuiet, Control, Quiescing, Resuming, Harvesting, queue, table, flags, world, staging
  <2> QED BY <1>1, <1>7, <2>1, <2>2, <2>3, Steered DEF CopiesQuiet, Pcs, Quiescing, world
<1>8. CASE Exit
  <2>1. pc' = "exit" /\ pc = "idle"
    BY <1>8 DEF Exit
  <2>3. Control'
    BY <1>1, <1>8, <2>1 DEF Exit, Control, Quiescing, Resuming, Harvesting, queue, table, flags, world, staging
  <2> QED BY <1>1, <1>8, <2>1, <2>3, Steered DEF Exit, Pcs, Quiescing, world
<1>9. CASE Stop
  <2>1. pc' = pc /\ stopped' = TRUE /\ UNCHANGED <<ret, quota, code, back, cur, harvest>>
    BY <1>9 DEF Stop, control
  <2>2. stopped' \in BOOLEAN /\ (stopped => stopped')
    BY <2>1, Zenon
  <2>3. Control'
    BY <1>1, <1>9, <2>1 DEF Stop, Control, Quiescing, Resuming, Harvesting, queue, table, flags, staging
  <2>4. GivenUp => pc' \in {"idle", "loop", "pump", "exit"}
    BY <2>1 DEF GivenUp
  <2> QED BY <1>1, <1>9, <2>1, <2>2, <2>3, <2>4, Steered DEF Stop, Quiescing
<1>10. CASE Pump /\ (pending = <<>> \/ Full)
  <2>1. /\ pc = "pump" /\ pc' \in {"idle", "loop", "turn"} /\ (pending = <<>> => pc' # "turn")
        /\ UNCHANGED <<cur, pending, credit, back>>
    BY <1>10 DEF Pump
  <2>2. GivenUp => pc' \in {"idle", "loop", "pump", "exit"}
    BY <2>1 DEF GivenUp
  <2>3. Control'
    BY <1>1, <1>10, <2>1 DEF Pump, Control, Quiescing, Resuming, Harvesting, queue, table, flags, world, staging
  <2> QED BY <1>1, <1>10, <2>1, <2>2, <2>3, Steered DEF Pump, Pcs, Quiescing, world, queue
<1>11. CASE Resume /\ quota = 0
  <2>1. pc = "resume" /\ pc' = "flush" /\ UNCHANGED <<cur, waiting, quota, back>>
    BY <1>11 DEF Resume
  <2>2. ~GivenUp
    BY <2>1 DEF GivenUp
  <2>3. Control'
    BY <1>1, <1>11, <2>1 DEF Resume, Control, Quiescing, Resuming, Harvesting, queue, table, flags, world, staging
  <2> QED BY <1>1, <1>11, <2>1, <2>2, <2>3, Steered DEF Resume, Pcs, Quiescing, world
<1>12. CASE Wait /\ ReapFails
  <2>1. /\ pc = "wait" /\ pc' = "abort" /\ code' = "FsAsyncEngineError" /\ UNCHANGED harvest
        /\ UNCHANGED engine
    BY <1>12 DEF Wait, Reap, ReapFails
  <2>2. ~GivenUp
    BY <2>1 DEF GivenUp
  <2>3. Control'
    BY <1>1, <1>12, <2>1 DEF Wait, Control, Quiescing, Resuming, Harvesting, queue, table, flags, world, staging,
                             None
  <2> QED BY <1>1, <1>12, <2>1, <2>2, <2>3, Steered DEF Wait, Pcs, Quiescing, world
<1> QED BY <1>2, <1>3, <1>4, <1>5, <1>6, <1>7, <1>8, <1>9, <1>10, <1>11, <1>12

-----------------------------------------------------------------------------
(* The chunks of a workload, one of them out of the record.                *)
LEMMA OneTracked ==
  ASSUME TypeOK, NEW c \in tracked, tracked' = tracked \ {c}
  PROVE  /\ TrackedOf(c[1])' = TrackedOf(c[1]) \ {c}
         /\ \A v : v # c[1] => TrackedOf(v)' = TrackedOf(v)
         /\ Cardinality(TrackedOf(c[1])) \in Nat \ {0}
         /\ Cardinality(TrackedOf(c[1])') = Cardinality(TrackedOf(c[1])) - 1
         /\ Cardinality(TrackedOf(c[1])) = 1 => \A x \in tracked : x[1] = c[1] => x = c
<1>1. TrackedOf(c[1]) \subseteq Chunks /\ c \in TrackedOf(c[1])
  BY DEF TrackedOf, TypeOK, RecordType
<1>2. TrackedOf(c[1])' = TrackedOf(c[1]) \ {c} /\ \A v : v # c[1] => TrackedOf(v)' = TrackedOf(v)
  BY DEF TrackedOf
<1>3. IsFiniteSet(TrackedOf(c[1])) /\ Cardinality(TrackedOf(c[1])) \in Nat
  BY <1>1, Countable
<1>4. /\ Cardinality(TrackedOf(c[1]) \ {c}) = Cardinality(TrackedOf(c[1])) - 1
      /\ Cardinality(TrackedOf(c[1])) > 0
  BY <1>1, OneChunk
<1>5. ASSUME Cardinality(TrackedOf(c[1])) = 1, NEW x \in tracked, x[1] = c[1] PROVE x = c
  <2>1. PICK y : TrackedOf(c[1]) = {y}
    BY <1>3, <1>5, FS_Singleton
  <2> QED BY <1>1, <1>5, <2>1 DEF TrackedOf
<1> QED BY <1>2, <1>3, <1>4, <1>5

(* A chunk ends: what this does to the table and to the answers.           *)
LEMMA Ends ==
  ASSUME TypeOK, live \subseteq 1..taken, Answering, NoFalseSuccess, Blamed, Remaining,
         NEW c \in tracked, NEW r \in Codes, NEW slot, NEW opened \in [DOMAIN Work -> [Files -> Modes]],
         EndChunk(c, r, slot, opened), taken' = taken, landed \subseteq landed', late \subseteq late',
         faults' \in Nat, faults <= faults',
         r = "Success" => c \in landed',
         r = "FileAccessError" => faults' > 0 \/ <<c[1], File(c)>> \in late',
         \A v \in DOMAIN Work, f \in Files : opened[v][f] = "error" => faults' > 0
  PROVE  /\ TableType' /\ live' \subseteq live /\ tracked' = tracked \ {c}
         /\ \A v \in DOMAIN Work, f \in Files : ferr'[v][f] # "Success"
         /\ Answering' /\ Blamed' /\ Remaining'
         /\ \A x \in tracked' : fds'[x[1]] = opened[x[1]]
<1> DEFINE w == c[1]
<1>1. w \in DOMAIN Work /\ File(c) \in Files /\ c \in Chunks /\ c \in Ranges
  BY ChunkFacts DEF TypeOK, RecordType
<1>2. PICK errs : errs = IF r = "Success" \/ ferr[w][File(c)] # None THEN ferr[w]
                         ELSE [ferr[w] EXCEPT ![File(c)] = r]
  OBVIOUS
<1>3. PICK ans : ans = IF r = "Success" THEN [answer EXCEPT ![c] = r] ELSE answer
  OBVIOUS
<1>4. /\ ferr' = [ferr EXCEPT ![w] = errs]
      /\ remaining' = [remaining EXCEPT ![w] = @ - 1]
      /\ answer' = IF remaining[w] = 1 THEN Report(w, errs, ans, "Success") ELSE ans
      /\ live' = IF remaining[w] = 1 THEN live \ {w} ELSE live
      /\ fds' = IF remaining[w] = 1 THEN [opened EXCEPT ![w] = Closed] ELSE opened
      /\ tracked' = tracked \ {c}
  BY <1>2, <1>3 DEF EndChunk
<1>5. /\ live \subseteq DOMAIN Work /\ remaining \in [DOMAIN Work -> Nat]
      /\ ferr \in [DOMAIN Work -> [Files -> Codes \cup {None}]]
      /\ answer \in [Ranges -> Codes \cup {None}] /\ tracked \subseteq Chunks
      /\ taken \in Nat /\ faults \in Nat
  BY DEF TypeOK, TableType, RecordType, ControlType
<1>6. answer[c] = None /\ w \in live
  BY DEF Answering
<1>7. /\ remaining[w] = Cardinality(TrackedOf(w)) /\ remaining[w] \in Nat \ {0}
      /\ remaining[w] = 1 => \A x \in tracked : x[1] = w => x = c
  BY <1>4, <1>6, OneTracked DEF Remaining
<1>8. Remaining'
  <2> SUFFICES ASSUME NEW v \in live' PROVE remaining'[v] = Cardinality(TrackedOf(v)')
    BY DEF Remaining
  <2>1. v \in live /\ v \in DOMAIN Work
    BY <1>4, <1>5
  <2>2. CASE v # w
    <3>1. remaining'[v] = remaining[v]
      BY <1>4, <1>5, <2>1, <2>2
    <3>2. TrackedOf(v)' = TrackedOf(v)
      BY <1>4, <2>2, OneTracked
    <3> QED BY <2>1, <3>1, <3>2 DEF Remaining
  <2>3. CASE v = w
    <3>1. remaining'[w] = remaining[w] - 1
      BY <1>1, <1>4, <1>5
    <3>2. Cardinality(TrackedOf(w)') = Cardinality(TrackedOf(w)) - 1
      BY <1>4, OneTracked
    <3> QED BY <1>7, <2>3, <3>1, <3>2
  <2> QED BY <2>2, <2>3
<1>9. /\ errs \in [Files -> Codes \cup {None}] /\ \A f \in Files : errs[f] # "Success"
      /\ \A f \in Files : ferr[w][f] # None => errs[f] # None
      /\ r # "Success" => errs[File(c)] # None
  BY <1>1, <1>2, <1>5 DEF NoFalseSuccess, Codes, None
<1>10. /\ \A x \in Ranges : x # c => ans[x] = answer[x]
       /\ ans[c] = IF r = "Success" THEN r ELSE None
       /\ ans \in [Ranges -> Codes \cup {None}]
  BY <1>1, <1>3, <1>5, <1>6
<1>11. ASSUME NEW x \in Ranges
       PROVE  /\ x[1] # w => answer'[x] = answer[x]
              /\ x[1] = w => answer'[x] = IF remaining[w] # 1 \/ ans[x] # None THEN ans[x]
                                          ELSE IF errs[File(x)] # None THEN errs[File(x)] ELSE "Success"
  BY <1>4, <1>10 DEF Report, Of
<1>12. answer' \in [Ranges -> Codes \cup {None}]
  <2>1. \A x \in Ranges : answer'[x] \in Codes \cup {None}
    <3> SUFFICES ASSUME NEW x \in Ranges PROVE answer'[x] \in Codes \cup {None}
      OBVIOUS
    <3>1. /\ File(x) \in Files /\ answer[x] \in Codes \cup {None} /\ ans[x] \in Codes \cup {None}
          /\ "Success" \in Codes
      BY <1>5, <1>10, RangeFacts DEF Codes
    <3>2. errs[File(x)] \in Codes \cup {None}
      BY <1>9, <3>1
    <3> QED BY <1>11, <3>1, <3>2
  <2>2. DOMAIN answer' = Ranges /\ answer' = [x \in DOMAIN answer' |-> answer'[x]]
    BY <1>4, <1>10 DEF Report
  <2> QED BY <2>1, <2>2
<1>13. TableType'
  <2>1. live' \subseteq DOMAIN Work /\ remaining' \in [DOMAIN Work -> Nat]
    <3>1. remaining[w] - 1 \in Nat
      BY <1>7
    <3>2. remaining' = [remaining EXCEPT ![w] = remaining[w] - 1]
      BY <1>4
    <3> HIDE DEF w
    <3> QED BY <1>1, <1>4, <1>5, <3>1, <3>2
  <2>2. ferr' \in [DOMAIN Work -> [Files -> Codes \cup {None}]]
    BY <1>1, <1>4, <1>5, <1>9
  <2>3. fds' \in [DOMAIN Work -> [Files -> Modes]]
    BY <1>1, <1>4 DEF Closed, Modes
  <2> QED BY <1>12, <2>1, <2>2, <2>3 DEF TableType
<1>14. /\ \A v \in DOMAIN Work : v # w => ferr'[v] = ferr[v]
       /\ ferr'[w] = errs
  BY <1>1, <1>4, <1>5
<1>15. \A v \in DOMAIN Work, f \in Files : ferr'[v][f] # "Success"
  BY <1>9, <1>14 DEF NoFalseSuccess
<1>16. Answering'
  <2>1. ASSUME NEW x \in Ranges
        PROVE  /\ x[1] > taken => answer'[x] = None
               /\ x[1] <= taken /\ x[1] \notin live' => answer'[x] # None
    <3>1. x[1] \in Nat /\ File(x) \in Files
      BY RangeFacts
    <3>2. CASE x[1] # w
      <4>1. answer'[x] = answer[x] /\ (x[1] \notin live' => x[1] \notin live)
        BY <1>4, <1>11, <3>2
      <4> QED BY <4>1 DEF Answering
    <3>3. CASE x[1] = w
      <4>1. ~(w > taken)
        <5>1. w \in 1..taken
          BY <1>6
        <5> HIDE DEF w
        <5> QED BY <1>5, <5>1
      <4>2. CASE remaining[w] = 1
        BY <1>11, <3>3, <4>1, <4>2 DEF None
      <4>3. CASE remaining[w] # 1
        BY <1>4, <1>6, <3>3, <4>1, <4>3
      <4> QED BY <4>2, <4>3
    <3> QED BY <3>2, <3>3
  <2>2. ASSUME NEW x \in tracked' PROVE answer'[x] = None /\ x[1] \in live'
    <3>1. x \in tracked /\ x # c /\ answer[x] = None /\ x[1] \in live /\ x \in Ranges
      BY <1>4, <1>5, ChunkFacts DEF Answering
    <3>2. ans[x] = None
      BY <1>10, <3>1
    <3>3. x[1] = w => remaining[w] # 1
      BY <1>7, <3>1
    <3> QED BY <1>4, <1>11, <3>1, <3>2, <3>3
  <2>3. ASSUME NEW x \in Chunks, x[1] \in live', x \notin tracked', answer'[x] = None
        PROVE  ferr'[x[1]][File(x)] # None
    <3>1. x \in Ranges /\ x[1] \in DOMAIN Work /\ File(x) \in Files
      BY ChunkFacts
    <3>2. CASE x = c
      <4>1. r # "Success"
        BY <1>10, <1>11, <2>3, <3>1, <3>2 DEF None
      <4> QED BY <1>9, <1>14, <3>2, <4>1
    <3>3. CASE x # c
      <4>1. x \notin tracked /\ x[1] \in live
        BY <1>4, <2>3, <3>3
      <4>2. answer[x] = None
        BY <1>10, <1>11, <2>3, <3>1, <3>3
      <4>3. ferr[x[1]][File(x)] # None
        BY <4>1, <4>2 DEF Answering
      <4> QED BY <1>9, <1>14, <3>1, <4>3
    <3> QED BY <3>2, <3>3
  <2>4. ASSUME NEW x \in Chunks, answer'[x] = "Success" PROVE x \in landed'
    <3>1. x \in Ranges /\ x[1] \in DOMAIN Work /\ File(x) \in Files
      BY ChunkFacts
    <3>2. answer[x] = "Success" => x \in landed'
      BY DEF Answering
    <3>3. CASE x[1] # w
      BY <1>11, <2>4, <3>1, <3>2, <3>3
    <3>4. CASE x = c
      BY <1>9, <1>10, <1>11, <2>4, <3>1, <3>4 DEF None
    <3>5. CASE x[1] = w /\ x # c /\ answer[x] # None
      BY <1>10, <1>11, <2>4, <3>1, <3>2, <3>5
    <3>6. CASE x[1] = w /\ x # c /\ answer[x] = None
      <4>1. remaining[w] = 1 /\ answer'[x] = IF errs[File(x)] # None THEN errs[File(x)] ELSE "Success"
        BY <1>10, <1>11, <2>4, <3>1, <3>6 DEF None
      <4>2. x \notin tracked
        BY <1>7, <3>6, <4>1
      <4>3. ferr[w][File(x)] # None
        BY <1>6, <3>6, <4>2 DEF Answering
      <4> QED BY <1>9, <2>4, <3>1, <4>1, <4>3
    <3> QED BY <3>3, <3>4, <3>5, <3>6
  <2> QED BY <2>1, <2>2, <2>3, <2>4 DEF Answering
<1>17. \A f \in Files : errs[f] = "FileAccessError" => faults' > 0 \/ <<w, f>> \in late'
  <2> SUFFICES ASSUME NEW f \in Files, errs[f] = "FileAccessError"
               PROVE  faults' > 0 \/ <<w, f>> \in late'
    OBVIOUS
  <2>1. ferr[w][f] = "FileAccessError" => faults' > 0 \/ <<w, f>> \in late'
    BY <1>1, <1>5 DEF Blamed
  <2>2. errs[f] = ferr[w][f] \/ (f = File(c) /\ errs[f] = r)
    BY <1>1, <1>2, <1>5
  <2> QED BY <2>1, <2>2
<1>18. Blamed'
  <2>1. ASSUME NEW x \in Chunks, answer'[x] = "FileAccessError"
        PROVE  faults' > 0 \/ <<x[1], File(x)>> \in late'
    <3>1. x \in Ranges /\ File(x) \in Files
      BY ChunkFacts
    <3>2. answer[x] = "FileAccessError" => faults' > 0 \/ <<x[1], File(x)>> \in late'
      BY <1>5 DEF Blamed, RefusalForgiven
    <3>3. CASE answer'[x] = answer[x]
      BY <2>1, <3>2, <3>3
    <3>4. CASE answer'[x] # answer[x]
      <4>1. x[1] = w /\ (answer'[x] = ans[x] \/ answer'[x] = errs[File(x)] \/ answer'[x] = "Success")
        BY <1>11, <3>1, <3>4
      <4>2. ans[x] # answer[x] => ans[x] = "Success"
        BY <1>6, <1>10, <3>1
      <4>3. answer'[x] = errs[File(x)]
        BY <2>1, <3>4, <4>1, <4>2
      <4> QED BY <1>17, <2>1, <3>1, <4>1, <4>3
    <3> QED BY <3>3, <3>4
  <2>2. ASSUME NEW v \in DOMAIN Work, NEW f \in Files, ferr'[v][f] = "FileAccessError"
        PROVE  faults' > 0 \/ <<v, f>> \in late'
    <3>1. CASE v = w
      BY <1>14, <1>17, <2>2, <3>1
    <3>2. CASE v # w
      BY <1>5, <1>14, <2>2, <3>2 DEF Blamed
    <3> QED BY <3>1, <3>2
  <2>3. ASSUME NEW v \in DOMAIN Work, NEW f \in Files, fds'[v][f] = "error" PROVE faults' > 0
    <3>1. fds'[v][f] = opened[v][f] \/ fds'[v][f] = "closed"
      BY <1>1, <1>4 DEF Closed
    <3> QED BY <2>3, <3>1
  <2> QED BY <2>1, <2>2, <2>3 DEF Blamed, RefusalForgiven
<1>19. \A x \in tracked' : fds'[x[1]] = opened[x[1]]
  <2> SUFFICES ASSUME NEW x \in tracked' PROVE fds'[x[1]] = opened[x[1]]
    OBVIOUS
  <2>1. x[1] = w => remaining[w] # 1
    BY <1>4, <1>7
  <2>2. x[1] \in DOMAIN Work
    BY <1>4, <1>5, ChunkFacts
  <2> QED BY <1>4, <2>1, <2>2
<1>20. live' \subseteq live
  BY <1>4
<1> QED BY <1>4, <1>8, <1>13, <1>15, <1>16, <1>18, <1>19, <1>20

-----------------------------------------------------------------------------
(* The places hold chunks.                                                 *)
LEMMA Sites ==
  ASSUME TypeOK
  PROVE  /\ Members(pending) \subseteq Chunks /\ Staging \subseteq Chunks /\ Members(waiting) \subseteq Chunks
         /\ copying \subseteq Chunks /\ IdsIn(copyDone) \subseteq Chunks /\ IdsIn(staged) \subseteq Chunks
         /\ IdsOf(kernel) \subseteq Chunks /\ IdsIn(ring) \subseteq Chunks /\ IdsIn(refused) \subseteq Chunks
         /\ IdsIn(harvest) \subseteq Chunks
<1>1. /\ pending \in Seq(Chunks) /\ waiting \in Seq(Chunks) /\ copying \subseteq Chunks
      /\ copyDone \in Seq(CopyReport) /\ staged \in Seq(Entry) /\ kernel \subseteq Entry
      /\ ring \in Seq(Completion) /\ refused \in Seq(Completion) /\ harvest \in Seq(Completion)
  BY DEF TypeOK, EngineType, QueueType, RecordType, ControlType
<1>2. /\ \A x \in Entry : x.id \in Chunks
      /\ \A x \in Completion : x.id \in Chunks
      /\ \A x \in CopyReport : x.id \in Chunks
  BY RecordIds
<1>3. Members(pending) \subseteq Chunks /\ Members(waiting) \subseteq Chunks
  BY <1>1, MembersIn
<1>4. IdsIn(copyDone) \subseteq Chunks
  BY <1>1, <1>2, IdsWithin
<1>5. IdsIn(staged) \subseteq Chunks
  BY <1>1, <1>2, IdsWithin
<1>6. IdsIn(ring) \subseteq Chunks /\ IdsIn(refused) \subseteq Chunks /\ IdsIn(harvest) \subseteq Chunks
  BY <1>1, <1>2, IdsWithin
<1>7. IdsOf(kernel) \subseteq Chunks
  BY <1>1, <1>2 DEF IdsOf
<1> QED BY <1>1, <1>3, <1>4, <1>5, <1>6, <1>7 DEF Staging

(* A chunk is in one place.                                                *)
LEMMA OnePlace ==
  ASSUME Spread
  PROVE  /\ \A x \in Members(pending) :
              /\ x \notin Staging /\ x \notin Members(waiting) /\ x \notin copying /\ x \notin IdsIn(copyDone)
              /\ x \notin Reads
         /\ \A x \in Staging :
              x \notin Members(waiting) /\ x \notin copying /\ x \notin IdsIn(copyDone) /\ x \notin Reads
         /\ \A x \in Members(waiting) : x \notin copying /\ x \notin IdsIn(copyDone) /\ x \notin Reads
         /\ \A x \in copying : x \notin IdsIn(copyDone) /\ x \notin Reads
         /\ \A x \in IdsIn(copyDone) : x \notin Reads
         /\ \A x \in IdsIn(staged) :
              x \notin IdsOf(kernel) /\ x \notin IdsIn(ring) /\ x \notin IdsIn(refused) /\ x \notin IdsIn(harvest)
         /\ \A x \in IdsOf(kernel) :
              x \notin IdsIn(ring) /\ x \notin IdsIn(refused) /\ x \notin IdsIn(harvest)
         /\ \A x \in IdsIn(ring) : x \notin IdsIn(refused) /\ x \notin IdsIn(harvest)
         /\ \A x \in IdsIn(refused) : x \notin IdsIn(harvest)
<1>1. PICK p \in [Chunks -> Places] : WorkerAt(p) /\ ReadsAt(p)
  BY DEF Spread
<1>2. \A x \in Reads : p[x] \in {"staged", "kernel", "ring", "refused", "harvest"}
  BY <1>1 DEF ReadsAt, Reads, AtEngine
<1>3. /\ \A x \in IdsIn(staged) :
           x \notin IdsOf(kernel) /\ x \notin IdsIn(ring) /\ x \notin IdsIn(refused) /\ x \notin IdsIn(harvest)
      /\ \A x \in IdsOf(kernel) :
           x \notin IdsIn(ring) /\ x \notin IdsIn(refused) /\ x \notin IdsIn(harvest)
      /\ \A x \in IdsIn(ring) : x \notin IdsIn(refused) /\ x \notin IdsIn(harvest)
      /\ \A x \in IdsIn(refused) : x \notin IdsIn(harvest)
  BY <1>1 DEF ReadsAt
<1>4. \A x \in Members(pending) :
        /\ x \notin Staging /\ x \notin Members(waiting) /\ x \notin copying /\ x \notin IdsIn(copyDone)
        /\ x \notin Reads
  BY <1>1, <1>2 DEF WorkerAt
<1>5. \A x \in Staging :
        x \notin Members(waiting) /\ x \notin copying /\ x \notin IdsIn(copyDone) /\ x \notin Reads
  BY <1>1, <1>2 DEF WorkerAt
<1>6. /\ \A x \in Members(waiting) : x \notin copying /\ x \notin IdsIn(copyDone) /\ x \notin Reads
      /\ \A x \in copying : x \notin IdsIn(copyDone) /\ x \notin Reads
      /\ \A x \in IdsIn(copyDone) : x \notin Reads
  BY <1>1, <1>2 DEF WorkerAt
<1> QED BY <1>3, <1>4, <1>5, <1>6

(* If only C moves, and to n, every chunk is in one place still.           *)
LEMMA Moved ==
  ASSUME TypeOK, Spread, NEW C \in SUBSET Chunks, NEW n \in Places, OneQueued', OneRead',
         Members(pending)' \subseteq Members(pending) \cup C /\ (Members(pending)' \cap C # {} => n = "pending"),
         Staging' \subseteq Staging \cup C /\ (Staging' \cap C # {} => n = "stage"),
         Members(waiting)' \subseteq Members(waiting) \cup C /\ (Members(waiting)' \cap C # {} => n = "waiting"),
         copying' \subseteq copying \cup C /\ (copying' \cap C # {} => n = "copying"),
         IdsIn(copyDone)' \subseteq IdsIn(copyDone) \cup C /\ (IdsIn(copyDone)' \cap C # {} => n = "done"),
         IdsIn(staged)' \subseteq IdsIn(staged) \cup C /\ (IdsIn(staged)' \cap C # {} => n = "staged"),
         IdsOf(kernel)' \subseteq IdsOf(kernel) \cup C /\ (IdsOf(kernel)' \cap C # {} => n = "kernel"),
         IdsIn(ring)' \subseteq IdsIn(ring) \cup C /\ (IdsIn(ring)' \cap C # {} => n = "ring"),
         IdsIn(refused)' \subseteq IdsIn(refused) \cup C /\ (IdsIn(refused)' \cap C # {} => n = "refused"),
         IdsIn(harvest)' \subseteq IdsIn(harvest) \cup C /\ (IdsIn(harvest)' \cap C # {} => n = "harvest")
  PROVE  Spread'
<1>1. PICK p \in [Chunks -> Places] : WorkerAt(p) /\ ReadsAt(p)
  BY DEF Spread
<1>2. PICK q : q = [c \in Chunks |-> IF c \in C THEN n ELSE p[c]]
  OBVIOUS
<1>3. q \in [Chunks -> Places]
  BY <1>1, <1>2
<1>4. WorkerAt(q)'
  <2>1. \A c \in Members(pending)' : q[c] = "pending"
    BY <1>1, <1>2, Sites DEF WorkerAt
  <2>2. \A c \in Staging' : q[c] = "stage"
    BY <1>1, <1>2, Sites DEF WorkerAt
  <2>3. \A c \in Members(waiting)' : q[c] = "waiting"
    BY <1>1, <1>2, Sites DEF WorkerAt
  <2>4. \A c \in copying' : q[c] = "copying"
    BY <1>1, <1>2, Sites DEF WorkerAt
  <2>5. \A c \in IdsIn(copyDone)' : q[c] = "done"
    BY <1>1, <1>2, Sites DEF WorkerAt
  <2> QED BY <2>1, <2>2, <2>3, <2>4, <2>5 DEF WorkerAt
<1>5. ReadsAt(q)'
  <2>1. \A c \in IdsIn(staged)' : q[c] = "staged"
    BY <1>1, <1>2, Sites DEF ReadsAt
  <2>2. \A c \in IdsOf(kernel)' : q[c] = "kernel"
    BY <1>1, <1>2, Sites DEF ReadsAt
  <2>3. \A c \in IdsIn(ring)' : q[c] = "ring"
    BY <1>1, <1>2, Sites DEF ReadsAt
  <2>4. \A c \in IdsIn(refused)' : q[c] = "refused"
    BY <1>1, <1>2, Sites DEF ReadsAt
  <2>5. \A c \in IdsIn(harvest)' : q[c] = "harvest"
    BY <1>1, <1>2, Sites DEF ReadsAt
  <2> QED BY <2>1, <2>2, <2>3, <2>4, <2>5 DEF ReadsAt
<1> QED BY <1>3, <1>4, <1>5 DEF Spread

(* The worker's own queues, while the engine keeps what it has.            *)
LEMMA MovedInside ==
  ASSUME TypeOK, Spread, NEW C \in SUBSET Chunks, NEW n \in Places, OneQueued',
         UNCHANGED <<staged, kernel, ring, refused, harvest>>, C \cap Reads = {},
         Members(pending)' \subseteq Members(pending) \cup C /\ (Members(pending)' \cap C # {} => n = "pending"),
         Staging' \subseteq Staging \cup C /\ (Staging' \cap C # {} => n = "stage"),
         Members(waiting)' \subseteq Members(waiting) \cup C /\ (Members(waiting)' \cap C # {} => n = "waiting"),
         copying' \subseteq copying \cup C /\ (copying' \cap C # {} => n = "copying"),
         IdsIn(copyDone)' \subseteq IdsIn(copyDone) \cup C /\ (IdsIn(copyDone)' \cap C # {} => n = "done")
  PROVE  Spread'
<1>1. OneRead'
  BY DEF Spread, OneRead, OneIn, OneEach
<1>2. /\ IdsIn(staged)' = IdsIn(staged) /\ IdsOf(kernel)' = IdsOf(kernel) /\ IdsIn(ring)' = IdsIn(ring)
      /\ IdsIn(refused)' = IdsIn(refused) /\ IdsIn(harvest)' = IdsIn(harvest)
  BY DEF IdsIn, IdsOf
<1>3. /\ IdsIn(staged)' \cap C = {} /\ IdsOf(kernel)' \cap C = {} /\ IdsIn(ring)' \cap C = {}
      /\ IdsIn(refused)' \cap C = {} /\ IdsIn(harvest)' \cap C = {}
  BY <1>2 DEF Reads, AtEngine
<1> QED BY <1>1, <1>2, <1>3, Moved

(* The slots are the record less the queue and the copies.                 *)
LEMMA SlotsAre ==
  /\ Slots = tracked \ (copying \cup Members(pending) \cup IdsIn(copyDone))
  /\ Slots' = tracked' \ (copying' \cup Members(pending)' \cup IdsIn(copyDone)')
<1>1. Slots = tracked \ (copying \cup Members(pending) \cup IdsIn(copyDone))
  BY DEF Slots, Members, IdsIn
<1>2. Slots' = tracked' \ (copying' \cup Members(pending)' \cup IdsIn(copyDone)')
  BY DEF Slots, Members, IdsIn
<1> QED BY <1>1, <1>2

-----------------------------------------------------------------------------
(* Chunks change queues, and nothing else changes.                         *)
LEMMA Shuffled ==
  ASSUME Inv, Serving, TypeOK', Control', Spread', Recorded', Credit', Bounced',
         UNCHANGED <<engine, table, fds, record, staging, copyDone, issued, flags, harvest, world,
                     landed, late>>
  PROVE  Inv'
<1>1. faults \in Nat /\ faults' = faults
  BY DEF Inv, Always, TypeOK, ControlType, world
<1>2. Pools' /\ Answering' /\ NoFalseSuccess'
  BY PoolsSame, AnsweringSame, NoFalseSame DEF Inv, Always, record, staging, table, world
<1>3. Blamed' /\ Remaining' /\ StallIsReal'
  BY <1>1, BlamedSame, RemainingSame, StallSame DEF Inv, Always, record, table, flags, engine
<1>4. Holding' /\ Counted'
  BY ReadsSame, HoldingSame, CountedSame DEF Serving, engine, staging
<1>5. Refusals'
  BY <1>1, RefusalsSame DEF Serving, engine, record
<1> QED BY <1>2, <1>3, <1>4, <1>5 DEF Inv, Always, Serving

(* What a queue without its head has.                                      *)
LEMMA HeadLeaves ==
  ASSUME NEW s \in Seq(Chunks), s # <<>>, Distinct(s)
  PROVE  /\ Head(s) \in Chunks /\ Head(s) \in Members(s) /\ Tail(s) \in Seq(Chunks)
         /\ Members(Tail(s)) = Members(s) \ {Head(s)} /\ Distinct(Tail(s))
         /\ Len(Tail(s)) = Len(s) - 1 /\ Len(s) \in Nat
BY MembersTail, TailFacts, SeqFacts

(* The next chunk is taken from the queue, with a slot.                    *)
LEMMA PumpStep ==
  ASSUME Inv, Pump, pending # <<>>, ~Full
  PROVE  Inv'
<1>1. /\ pc = "pump" /\ cur' = Head(pending) /\ pending' = Tail(pending) /\ credit' = credit + 1
      /\ back' = "pump" /\ pc' = "stage"
      /\ UNCHANGED <<engine, up, table, fds, record, staging, copyDone, waiting, issued, flags,
                     ret, harvest, quota, code, world, landed, late>>
  BY DEF Pump
<1>2. Serving /\ TypeOK /\ Control
  BY DEF Inv, Always, GivenUp
<1>3. PICK c : c = Head(pending)
  OBVIOUS
<1>4. pending \in Seq(Chunks) /\ credit \in Nat /\ Distinct(pending)
  BY <1>2 DEF TypeOK, QueueType, Serving, Spread, OneQueued
<1>5. /\ c \in Chunks /\ c \in Members(pending) /\ pending' \in Seq(Chunks)
      /\ Members(pending)' = Members(pending) \ {c} /\ Distinct(pending)'
  <2>1. /\ c \in Chunks /\ c \in Members(pending) /\ Tail(pending) \in Seq(Chunks)
        /\ Members(Tail(pending)) = Members(pending) \ {c} /\ Distinct(Tail(pending))
    BY <1>3, <1>4, HeadLeaves
  <2> QED BY <1>1, <2>1 DEF Members, Distinct
<1>6. TypeOK'
  <2>1. EngineType' /\ TableType' /\ RecordType'
    BY <1>1, <1>2 DEF TypeOK, EngineType, TableType, RecordType, engine, table, record, staging
  <2>2. QueueType'
    BY <1>1, <1>2, <1>4, <1>5 DEF TypeOK, QueueType
  <2>3. ControlType'
    BY <1>1, <1>2, <1>3, <1>5 DEF TypeOK, ControlType, Pcs, flags, world
  <2> QED BY <2>1, <2>2, <2>3 DEF TypeOK
<1>7. Control'
  BY <1>1, <1>2, <1>3, <1>5 DEF Control, Quiescing, Resuming, Harvesting, table, flags, world, staging
<1>8. Staging' = {c} /\ Staging = {}
  BY <1>1, <1>3, <1>5 DEF Staging
<1>9. /\ Members(waiting)' = Members(waiting) /\ IdsIn(copyDone)' = IdsIn(copyDone) /\ Reads' = Reads
      /\ copying' = copying
  BY <1>1, ReadsSame DEF Members, IdsIn, engine, staging
<1>10. c \notin Members(waiting) /\ c \notin copying /\ c \notin IdsIn(copyDone) /\ c \notin Reads
  BY <1>2, <1>5, OnePlace DEF Serving
<1>11. Spread'
  <2>1. OneQueued'
    BY <1>1, <1>2, <1>5 DEF Serving, Spread, OneQueued, Distinct, OneIn
  <2>2. "stage" \in Places /\ {c} \in SUBSET Chunks
    BY <1>5 DEF Places
  <2>3. Members(pending)' \cap {c} = {} /\ {c} \cap Reads = {} /\ Members(waiting)' \cap {c} = {}
        /\ copying' \cap {c} = {} /\ IdsIn(copyDone)' \cap {c} = {}
    BY <1>5, <1>9, <1>10
  <2> QED BY <1>1, <1>2, <1>5, <1>8, <1>9, <2>1, <2>2, <2>3, MovedInside DEF Serving, engine
<1>12. c \in tracked /\ tracked' = tracked
  BY <1>1, <1>2, <1>5 DEF Serving, Recorded, record
<1>13. Recorded'
  BY <1>2, <1>5, <1>8, <1>9, <1>12 DEF Serving, Recorded
<1>14. Slots' = Slots \cup {c} /\ c \notin Slots /\ Slots \subseteq Chunks
  BY <1>2, <1>5, <1>9, <1>10, <1>12, SlotsAre DEF TypeOK, RecordType
<1>15. Credit'
  <2>1. Cardinality(Slots') = Cardinality(Slots) + 1
    BY <1>14, OneChunk
  <2>2. credit = Cardinality(Slots)
    BY <1>1, <1>2 DEF Serving, Credit, Quiescing
  <2>3. credit + 1 <= Depth
    BY <1>4, DepthAssumption DEF Full
  <2> QED BY <1>1, <2>1, <2>2, <2>3 DEF Credit
<1>16. Bounced'
  BY <1>1, <1>2, <1>8, <1>9, <1>14 DEF Serving, Bounced, record
<1> QED BY <1>1, <1>2, <1>6, <1>7, <1>11, <1>13, <1>15, <1>16, Shuffled

(* A parked chunk is tried again.                                          *)
LEMMA ResumeStep ==
  ASSUME Inv, Resume, quota > 0
  PROVE  Inv'
<1>1. /\ pc = "resume" /\ cur' = Head(waiting) /\ waiting' = Tail(waiting) /\ quota' = quota - 1
      /\ back' = "resume" /\ pc' = "stage"
      /\ UNCHANGED <<engine, queue, table, fds, record, staging, copyDone, issued, flags,
                     ret, harvest, code, world, landed, late>>
  BY DEF Resume
<1>2. Serving /\ TypeOK /\ Control
  BY <1>1 DEF Inv, Always, GivenUp
<1>3. PICK c : c = Head(waiting)
  OBVIOUS
<1>4. waiting \in Seq(Chunks) /\ Distinct(waiting) /\ quota \in Nat
  BY <1>2 DEF TypeOK, QueueType, ControlType, Serving, Spread, OneQueued
<1>5. Len(waiting) \in Nat /\ quota <= Len(waiting) /\ waiting # <<>>
  BY <1>1, <1>2, <1>4, SeqFacts DEF Control, Resuming
<1>6. /\ c \in Chunks /\ c \in Members(waiting) /\ waiting' \in Seq(Chunks)
      /\ Members(waiting)' = Members(waiting) \ {c} /\ Distinct(waiting)' /\ Len(waiting') = Len(waiting) - 1
  <2>1. /\ c \in Chunks /\ c \in Members(waiting) /\ Tail(waiting) \in Seq(Chunks)
        /\ Members(Tail(waiting)) = Members(waiting) \ {c} /\ Distinct(Tail(waiting))
        /\ Len(Tail(waiting)) = Len(waiting) - 1
    BY <1>3, <1>4, <1>5, HeadLeaves
  <2> QED BY <1>1, <2>1 DEF Members, Distinct
<1>7. TypeOK'
  <2>1. EngineType' /\ TableType' /\ RecordType'
    BY <1>1, <1>2 DEF TypeOK, EngineType, TableType, RecordType, engine, table, record, staging
  <2>2. QueueType'
    BY <1>1, <1>2, <1>6 DEF TypeOK, QueueType, queue
  <2>3. quota' \in Nat
    BY <1>1, <1>4
  <2>4. ControlType'
    BY <1>1, <1>2, <1>3, <1>6, <2>3 DEF TypeOK, ControlType, Pcs, flags, world
  <2> QED BY <2>1, <2>2, <2>4 DEF TypeOK
<1>8. quota' <= Len(waiting')
  BY <1>1, <1>4, <1>5, <1>6
<1>9. Control'
  BY <1>1, <1>2, <1>3, <1>6, <1>8 DEF Control, Quiescing, Resuming, Harvesting, table, flags, world, staging, queue
<1>10. Staging' = {c} /\ Staging = {}
  BY <1>1, <1>3, <1>6 DEF Staging
<1>11. /\ Members(pending)' = Members(pending) /\ IdsIn(copyDone)' = IdsIn(copyDone) /\ Reads' = Reads
       /\ copying' = copying /\ tracked' = tracked /\ Slots' = Slots
  BY <1>1, ReadsSame, SlotsSame DEF Members, IdsIn, engine, staging, queue, record
<1>12. c \notin Members(pending) /\ c \notin copying /\ c \notin IdsIn(copyDone) /\ c \notin Reads
  BY <1>2, <1>6, OnePlace DEF Serving
<1>13. Spread'
  <2>1. OneQueued'
    BY <1>1, <1>2, <1>6 DEF Serving, Spread, OneQueued, Distinct, OneIn, queue
  <2>2. "stage" \in Places /\ {c} \in SUBSET Chunks
    BY <1>6 DEF Places
  <2>3. Members(pending)' \cap {c} = {} /\ {c} \cap Reads = {} /\ Members(waiting)' \cap {c} = {}
        /\ copying' \cap {c} = {} /\ IdsIn(copyDone)' \cap {c} = {}
    BY <1>6, <1>11, <1>12
  <2> QED BY <1>1, <1>2, <1>6, <1>10, <1>11, <2>1, <2>2, <2>3, MovedInside DEF Serving, engine
<1>14. Recorded'
  BY <1>2, <1>6, <1>10, <1>11 DEF Serving, Recorded
<1>15. Credit'
  BY <1>1, <1>2, <1>11, CreditSame DEF Serving, queue, Quiescing
<1>16. Bounced'
  BY <1>1, <1>2, <1>6, <1>10, <1>11 DEF Serving, Bounced, record
<1> QED BY <1>1, <1>2, <1>7, <1>9, <1>13, <1>14, <1>15, <1>16, Shuffled

(* A chunk waits for a staging buffer and keeps its slot.                  *)
LEMMA StageParksStep ==
  ASSUME Inv, StageParks
  PROVE  Inv'
<1>1. /\ pc = "stage" /\ waiting' = Append(waiting, cur) /\ pc' = back
      /\ UNCHANGED <<engine, queue, table, fds, record, staging, copyDone, issued, flags,
                     ret, back, cur, harvest, quota, code, world, landed, late>>
  BY DEF StageParks
<1>2. Serving /\ TypeOK /\ Control
  BY <1>1 DEF Inv, Always, GivenUp
<1>3. /\ waiting \in Seq(Chunks) /\ Distinct(waiting) /\ quota \in Nat /\ cur \in Chunks
      /\ back \in {"pump", "resume", "harvest"}
  BY <1>1, <1>2 DEF TypeOK, QueueType, ControlType, Serving, Spread, OneQueued, Control
<1>4. Staging = {cur} /\ Staging' = {}
  BY <1>1, <1>3 DEF Staging
<1>5. /\ cur \notin Members(waiting) /\ cur \notin Members(pending) /\ cur \notin copying
      /\ cur \notin IdsIn(copyDone) /\ cur \notin Reads
  BY <1>2, <1>4, OnePlace DEF Serving
<1>6. /\ waiting' \in Seq(Chunks) /\ Members(waiting)' = Members(waiting) \cup {cur} /\ Distinct(waiting)'
      /\ Len(waiting') = Len(waiting) + 1 /\ Len(waiting) \in Nat
  <2>1. /\ Append(waiting, cur) \in Seq(Chunks) /\ Members(Append(waiting, cur)) = Members(waiting) \cup {cur}
        /\ Distinct(Append(waiting, cur)) /\ Len(Append(waiting, cur)) = Len(waiting) + 1
        /\ Len(waiting) \in Nat
    BY <1>3, <1>5, MembersAppend, SeqFacts
  <2> QED BY <1>1, <2>1 DEF Members, Distinct
<1>7. TypeOK'
  <2>1. EngineType' /\ TableType' /\ RecordType'
    BY <1>1, <1>2 DEF TypeOK, EngineType, TableType, RecordType, engine, table, record, staging
  <2>2. QueueType'
    BY <1>1, <1>2, <1>6 DEF TypeOK, QueueType, queue
  <2>3. ControlType'
    BY <1>1, <1>2, <1>3 DEF TypeOK, ControlType, Pcs, flags, world
  <2> QED BY <2>1, <2>2, <2>3 DEF TypeOK
<1>8. Resuming' => Resuming
  BY <1>1, <1>3 DEF Resuming
<1>9. Resuming' => quota' <= Len(waiting')
  BY <1>1, <1>2, <1>3, <1>6, <1>8 DEF Control
<1>10. Control'
  BY <1>1, <1>2, <1>3, <1>9 DEF Control, Quiescing, Resuming, Harvesting, table, flags, world, staging, queue
<1>11. /\ Members(pending)' = Members(pending) /\ IdsIn(copyDone)' = IdsIn(copyDone) /\ Reads' = Reads
       /\ copying' = copying /\ tracked' = tracked /\ Slots' = Slots
  BY <1>1, ReadsSame, SlotsSame DEF Members, IdsIn, engine, staging, queue, record
<1>12. Spread'
  <2>1. OneQueued'
    BY <1>1, <1>2, <1>6 DEF Serving, Spread, OneQueued, Distinct, OneIn, queue
  <2>2. "waiting" \in Places /\ {cur} \in SUBSET Chunks
    BY <1>3 DEF Places
  <2>3. Members(pending)' \cap {cur} = {} /\ {cur} \cap Reads = {} /\ Staging' \cap {cur} = {}
        /\ copying' \cap {cur} = {} /\ IdsIn(copyDone)' \cap {cur} = {}
    BY <1>4, <1>5, <1>11
  <2> QED BY <1>1, <1>2, <1>4, <1>6, <1>11, <2>1, <2>2, <2>3, MovedInside DEF Serving, engine
<1>13. Recorded'
  BY <1>2, <1>4, <1>6, <1>11 DEF Serving, Recorded
<1>14. Credit'
  BY <1>1, <1>2, <1>11, CreditSame DEF Serving, queue, Quiescing
<1>15. Bounced'
  BY <1>1, <1>2, <1>4, <1>6, <1>11 DEF Serving, Bounced, record
<1> QED BY <1>1, <1>2, <1>7, <1>10, <1>12, <1>13, <1>14, <1>15, Shuffled

-----------------------------------------------------------------------------
(* The next workload is answered unread.                                   *)
LEMMA Dismissed ==
  ASSUME TypeOK, live \subseteq 1..taken, Answering, Blamed, taken < Len(Work), taken' = taken + 1,
         answer' = Report(taken', ferr[taken'], answer, "FsAsyncEngineError"),
         UNCHANGED <<live, tracked, ferr, landed, fds, late>>, faults' \in Nat, faults <= faults'
  PROVE  answer' \in [Ranges -> Codes \cup {None}] /\ Answering' /\ Blamed'
<1>1. taken \in Nat /\ faults \in Nat /\ answer \in [Ranges -> Codes \cup {None}] /\ tracked \subseteq Chunks
  BY DEF TypeOK, TableType, RecordType, ControlType
<1>2. taken + 1 \notin live
  BY <1>1
<1>3. \A x \in Ranges : answer'[x] = IF x[1] # taken + 1 \/ answer[x] # None THEN answer[x]
                                     ELSE "FsAsyncEngineError"
  BY DEF Report, Of
<1>4. answer' \in [Ranges -> Codes \cup {None}]
  BY <1>1 DEF Report, Codes
<1>5. Answering'
  <2>1. ASSUME NEW x \in Ranges
        PROVE  /\ x[1] > taken' => answer'[x] = None
               /\ x[1] <= taken' /\ x[1] \notin live' => answer'[x] # None
    <3>1. x[1] \in Nat
      BY RangeFacts
    <3>2. CASE x[1] = taken + 1
      BY <1>1, <1>3, <3>1, <3>2 DEF None
    <3>3. CASE x[1] # taken + 1
      <4>1. (x[1] > taken' => x[1] > taken) /\ (x[1] <= taken' => x[1] <= taken)
        BY <1>1, <3>1, <3>3
      <4> QED BY <1>3, <3>3, <4>1 DEF Answering
    <3> QED BY <3>2, <3>3
  <2>2. ASSUME NEW x \in tracked' PROVE answer'[x] = None /\ x[1] \in live'
    <3>1. x \in tracked /\ x \in Ranges /\ x[1] \in live /\ answer[x] = None
      BY <1>1, ChunkFacts DEF Answering
    <3> QED BY <1>2, <1>3, <3>1
  <2>3. ASSUME NEW x \in Chunks, x[1] \in live', x \notin tracked', answer'[x] = None
        PROVE  ferr'[x[1]][File(x)] # None
    <3>1. x \in Ranges /\ x[1] # taken + 1
      BY <1>2, <2>3, ChunkFacts
    <3> QED BY <1>3, <2>3, <3>1 DEF Answering
  <2>4. ASSUME NEW x \in Chunks, answer'[x] = "Success" PROVE x \in landed'
    <3>1. x \in Ranges
      BY ChunkFacts
    <3> QED BY <1>3, <2>4, <3>1 DEF Answering
  <2> QED BY <2>1, <2>2, <2>3, <2>4 DEF Answering
<1>6. Blamed'
  <2>1. faults > 0 => faults' > 0
    BY <1>1
  <2>2. ASSUME NEW x \in Chunks, answer'[x] = "FileAccessError"
        PROVE  faults' > 0 \/ <<x[1], File(x)>> \in late'
    <3>1. x \in Ranges
      BY ChunkFacts
    <3> QED BY <1>3, <2>1, <2>2, <3>1 DEF Blamed, RefusalForgiven
  <2> QED BY <2>1, <2>2 DEF Blamed, RefusalForgiven
<1> QED BY <1>4, <1>5, <1>6

(* A workload is answered unread, and what the worker holds stays.         *)
LEMMA DismissedStep ==
  ASSUME Inv, Discard \/ EnqueueDead
  PROVE  Inv'
<1>1. /\ pc = "idle" /\ ~stopped /\ taken < Len(Work) /\ taken' = taken + 1
      /\ UNCHANGED <<engine, pending, credit, live, remaining, ferr, fds, record, staging, copyDone,
                     waiting, issued, stalls, directRefused, ret, back, cur, harvest, quota, code,
                     stopped, refusals, landed, late>>
      /\ pc' \in {"idle", "loop"}
  BY DEF Discard, EnqueueDead, queue, control, flags
<1>2. TypeOK /\ Control /\ taken \in Nat /\ faults \in Nat /\ Len(Work) \in Nat
  BY WorkFacts DEF Inv, Always, TypeOK, ControlType
<1>3. /\ faults' \in Nat /\ faults <= faults' /\ taken' \in 0..Len(Work)
      /\ engineError' = "FsAsyncEngineError"
      /\ answer' = Report(taken', ferr[taken'], answer, "FsAsyncEngineError")
  <2>1. dead => engineError = "FsAsyncEngineError"
    BY <1>2 DEF Control, TypeOK, ControlType
  <2>2. CASE Discard
    <3>1. faults' = faults + 1 /\ engineError' = IF dead THEN engineError ELSE "FsAsyncEngineError"
      BY <2>2 DEF Discard
    <3>2. answer' = Report(taken', ferr[taken'], answer, "FsAsyncEngineError")
      BY <2>2 DEF Discard
    <3> QED BY <1>1, <1>2, <2>1, <3>1, <3>2
  <2>3. CASE EnqueueDead
    <3>1. faults' = faults /\ engineError' = engineError /\ dead
      BY <2>3 DEF EnqueueDead, flags
    <3>2. answer' = Report(taken', ferr[taken'], answer, engineError)
      BY <2>3 DEF EnqueueDead
    <3> QED BY <1>1, <1>2, <2>1, <3>1, <3>2
  <2> QED BY <2>2, <2>3
<1>4. up' \in BOOLEAN
  BY <1>2, Zenon DEF Discard, EnqueueDead, queue, TypeOK, QueueType
<1>5. dead' = TRUE
  BY Zenon DEF Discard, EnqueueDead, flags
<1>6. answer' \in [Ranges -> Codes \cup {None}] /\ Answering' /\ Blamed'
  BY <1>1, <1>2, <1>3, Dismissed DEF Inv, Always, Control, record
<1>7. TypeOK'
  <2>1. EngineType'
    BY <1>1, <1>2 DEF TypeOK, EngineType, engine
  <2>2. QueueType'
    BY <1>1, <1>2, <1>4 DEF TypeOK, QueueType
  <2>3. TableType'
    BY <1>1, <1>2, <1>6 DEF TypeOK, TableType
  <2>4. RecordType'
    BY <1>1, <1>2 DEF TypeOK, RecordType, record, staging
  <2>5. dead' \in BOOLEAN
    BY <1>5, Zenon
  <2>6. ControlType'
    BY <1>1, <1>2, <1>3, <2>5 DEF TypeOK, ControlType, Pcs
  <2> QED BY <2>1, <2>2, <2>3, <2>4, <2>6 DEF TypeOK
<1>8. Control'
  <2>1. live' \subseteq 1..taken'
    BY <1>1, <1>2 DEF Control
  <2> QED BY <1>1, <1>2, <1>3, <2>1 DEF Control, Quiescing, Resuming, Harvesting, staging, None
<1>9. Pools' /\ NoFalseSuccess' /\ Remaining' /\ StallIsReal'
  BY <1>1, PoolsSame, NoFalseSame, RemainingSame, StallSame DEF Inv, Always, record, staging, engine
<1>10. ASSUME GivenUp PROVE GivenUp'
  BY <1>1, <1>5, <1>10 DEF GivenUp, record, staging, engine, Owed
<1>11. ASSUME Serving PROVE Serving'
  <2>1. Staging' \subseteq Staging
    BY <1>1 DEF Staging
  <2>2. Spread' /\ Recorded'
    BY <1>1, <1>11, <2>1, SpreadSame, RecordedSame DEF Serving, seats, engine, staging, record
  <2>3. Credit' /\ Bounced'
    BY <1>1, <1>11, <2>1, CreditSame, BouncedSame DEF Serving, staging, record, Quiescing
  <2>4. Holding' /\ Counted'
    BY <1>1, <1>11, ReadsSame, HoldingSame, CountedSame DEF Serving, engine, staging
  <2>5. Refusals'
    BY <1>1, <1>2, <1>3, <1>11, RefusalsSame DEF Serving, engine, record
  <2> QED BY <2>2, <2>3, <2>4, <2>5 DEF Serving
<1> QED BY <1>6, <1>7, <1>8, <1>9, <1>10, <1>11 DEF Inv, Always

(* A file read directly still is, or its refusals are late.                *)
StaysDirect(c) ==
  fds[c[1]][File(c)] = "direct" => fds'[c[1]][File(c)] = "direct" \/ <<c[1], File(c)>> \in late'

(* An excuse for a chunk in the record.                                    *)
LEMMA ExcusedKept ==
  ASSUME NEW c, NEW e, Excused(c, e), tries'[c] = tries[c], StaysDirect(c),
         faults \in Nat, faults' \in Nat, faults <= faults', late \subseteq late'
  PROVE  Excused(c, e)'
BY DEF Excused, StaysDirect

(* The refusals, while the chunks being read keep their files.             *)
LEMMA RefusalsKept ==
  ASSUME TypeOK, Refusals, Recorded, UNCHANGED <<kernel, ring, refused, harvest, tries>>,
         \A x \in Reads : StaysDirect(x),
         faults' \in Nat, faults <= faults', late \subseteq late'
  PROVE  Refusals'
<1>1. faults \in Nat
  BY DEF TypeOK, ControlType
<1>2. \A c, e : c \in Reads /\ Excused(c, e) => Excused(c, e)'
  BY <1>1, ExcusedKept DEF Recorded
<1>3. \A rd \in kernel : rd.id \in Reads
  BY DEF Reads, AtEngine, IdsOf
<1>4. /\ \A i \in DOMAIN ring : ring[i].id \in Reads
      /\ \A i \in DOMAIN refused : refused[i].id \in Reads
      /\ \A i \in DOMAIN harvest : harvest[i].id \in Reads
  BY DEF Reads, AtEngine, IdsIn
<1> QED BY <1>2, <1>3, <1>4 DEF Refusals

(* The chunks of a workload, as Enqueue lists them.                        *)
LEMMA Listed ==
  ASSUME NEW w \in DOMAIN Work, NEW ids, ids = [i \in DOMAIN Work[w].chunks |-> <<w, i>>]
  PROVE  /\ ids \in Seq(Chunks) /\ Distinct(ids) /\ Members(ids) = {c \in Chunks : c[1] = w}
         /\ {<<w, i>> : i \in DOMAIN ids} = Members(ids) /\ Len(ids) \in Nat
         /\ IsFiniteSet(Members(ids)) /\ Cardinality(Members(ids)) = Len(ids)
         /\ ids = <<>> <=> Members(ids) = {}
<1> DEFINE n == Len(Work[w].chunks)
<1>1. n \in Nat /\ DOMAIN Work[w].chunks = 1..n /\ \A i \in 1..n : <<w, i>> \in Chunks
  BY WorkFacts
<1> HIDE DEF n
<1>2. ids = [i \in 1..n |-> <<w, i>>]
  BY <1>1
<1>3. ids \in [1..n -> Chunks]
  BY <1>1, <1>2
<1>4. ids \in Seq(Chunks)
  BY <1>1, <1>3, SeqDef
<1>5. Distinct(ids)
  BY <1>2 DEF Distinct
<1>6. Members(ids) = {<<w, i>> : i \in 1..n} /\ DOMAIN ids = 1..n
  BY <1>2 DEF Members
<1>7. ASSUME NEW c \in Chunks, c[1] = w PROVE c \in Members(ids)
  BY <1>1, <1>6, <1>7, ChunkFacts
<1>8. Members(ids) \subseteq Chunks /\ \A c \in Members(ids) : c[1] = w
  BY <1>1, <1>6
<1>9. IsFiniteSet(Members(ids)) /\ Cardinality(Members(ids)) = Len(ids) /\ Len(ids) \in Nat
  BY <1>4, <1>5, MembersCount, SeqFacts
<1>10. ids = <<>> <=> Members(ids) = {}
  BY <1>4, MembersIn
<1> QED BY <1>4, <1>5, <1>6, <1>7, <1>8, <1>9, <1>10

(* What enqueue does with workload w: its chunks ids, its errors errs and  *)
(* the answers ans given so far.                                           *)
Admitted(w, ids, errs, ans) ==
  /\ w \in DOMAIN Work /\ w = taken + 1 /\ taken' = w
  /\ ids = [i \in DOMAIN Work[w].chunks |-> <<w, i>>]
  /\ pending' = pending \o ids /\ tracked' = tracked \cup Members(ids)
  /\ remaining' = [remaining EXCEPT ![w] = Len(ids)]
  /\ live' = (IF ids = <<>> THEN live ELSE live \cup {w})
  /\ fds' = (IF ids = <<>> THEN [fds EXCEPT ![w] = Closed] ELSE fds)
  /\ ferr' = [ferr EXCEPT ![w] = errs]
  /\ answer' = (IF ids = <<>> THEN Report(w, errs, ans, "Success") ELSE ans)
  /\ faults' \in Nat /\ faults <= faults'
  /\ ans \in [Ranges -> Codes \cup {None}] /\ errs \in [Files -> Codes \cup {None}]
  /\ \A x \in Ranges : x # <<w, 0>> => ans[x] = answer[x]
  /\ \A f \in Files : errs[f] # "Success"
  /\ \A f \in Files : errs[f] = "FileAccessError" => faults' > 0 \/ <<w, f>> \in late

(* Every enqueue is of that form.                                          *)
LEMMA Enqueued ==
  ASSUME Inv, Enqueue
  PROVE  \E w, ids, errs, ans : Admitted(w, ids, errs, ans)
<1>1. /\ TypeOK /\ taken \in Nat /\ faults \in Nat /\ Len(Work) \in Nat /\ DOMAIN Work = 1..Len(Work)
      /\ ferr \in [DOMAIN Work -> [Files -> Codes \cup {None}]] /\ answer \in [Ranges -> Codes \cup {None}]
  BY WorkFacts DEF Inv, Always, TypeOK, ControlType, TableType
<1>2. PICK w : w = taken + 1
  OBVIOUS
<1>3. w \in DOMAIN Work
  BY <1>1, <1>2 DEF Enqueue
<1>4. PICK ids : ids = [i \in DOMAIN Work[w].chunks |-> <<w, i>>]
  OBVIOUS
<1>5. /\ ids \in Seq(Chunks) /\ {<<w, i>> : i \in DOMAIN ids} = Members(ids)
  BY <1>3, <1>4, Listed
<1>6. PICK opened \in IF Work[w].zero /\ faults < MaxFaults THEN BOOLEAN ELSE {TRUE} :
        LET ans == IF opened /\ Work[w].zero THEN [answer EXCEPT ![<<w, 0>>] = "Success"] ELSE answer
            errs == IF opened THEN ferr[w] ELSE [ferr[w] EXCEPT ![1] = "FileAccessError"]
        IN  /\ faults' = IF opened THEN faults ELSE faults + 1
            /\ ferr' = [ferr EXCEPT ![w] = errs]
            /\ answer' = IF ids = <<>> THEN Report(w, errs, ans, "Success") ELSE ans
  BY <1>2, <1>4 DEF Enqueue
<1>7. PICK ans : ans = IF opened /\ Work[w].zero THEN [answer EXCEPT ![<<w, 0>>] = "Success"] ELSE answer
  OBVIOUS
<1>8. PICK errs : errs = IF opened THEN ferr[w] ELSE [ferr[w] EXCEPT ![1] = "FileAccessError"]
  OBVIOUS
<1>9. /\ faults' = IF opened THEN faults ELSE faults + 1
      /\ ferr' = [ferr EXCEPT ![w] = errs]
      /\ answer' = IF ids = <<>> THEN Report(w, errs, ans, "Success") ELSE ans
  BY <1>6, <1>7, <1>8
<1>10. /\ taken' = w /\ pending' = pending \o ids /\ tracked' = tracked \cup Members(ids)
       /\ remaining' = [remaining EXCEPT ![w] = Len(ids)]
       /\ live' = (IF ids = <<>> THEN live ELSE live \cup {w})
       /\ fds' = (IF ids = <<>> THEN [fds EXCEPT ![w] = Closed] ELSE fds)
  BY <1>2, <1>4, <1>5 DEF Enqueue
<1>11. Work[w].zero => <<w, 0>> \in Ranges /\ 1 \in Files
  <2> SUFFICES ASSUME Work[w].zero PROVE <<w, 0>> \in Ranges /\ 1 \in Files
    OBVIOUS
  <2>1. <<w, 0>> \in Zeros
    BY <1>3 DEF Zeros
  <2>2. File(<<w, 0>>) = 1
    BY DEF File
  <2> QED BY <2>1, <2>2 DEF Ranges, Files
<1>12. ans \in [Ranges -> Codes \cup {None}] /\ \A x \in Ranges : x # <<w, 0>> => ans[x] = answer[x]
  BY <1>1, <1>7 DEF Codes
<1>13. ~opened => Work[w].zero /\ 1 \in Files
  BY <1>6, <1>11
<1>14. errs \in [Files -> Codes \cup {None}] /\ \A f \in Files : errs[f] # "Success"
  <2>1. ferr[w] \in [Files -> Codes \cup {None}] /\ \A f \in Files : ferr[w][f] # "Success"
    BY <1>1, <1>3 DEF Inv, Always, NoFalseSuccess
  <2>2. CASE opened
    BY <1>8, <2>1, <2>2
  <2>3. CASE ~opened
    BY <1>8, <1>13, <2>1, <2>3 DEF Codes
  <2> QED BY <2>2, <2>3
<1>15. faults' \in Nat /\ faults <= faults' /\ (~opened => faults' > 0)
  BY <1>1, <1>9
<1>16. \A f \in Files : errs[f] = "FileAccessError" => faults' > 0 \/ <<w, f>> \in late
  <2>1. \A f \in Files : ferr[w][f] = "FileAccessError" => faults > 0 \/ <<w, f>> \in late
    BY <1>3 DEF Inv, Always, Blamed
  <2>2. CASE opened
    BY <1>1, <1>8, <1>15, <2>1, <2>2
  <2>3. CASE ~opened
    BY <1>15, <2>3
  <2> QED BY <2>2, <2>3
<1>17. Admitted(w, ids, errs, ans)
  BY <1>2, <1>3, <1>4, <1>9, <1>10, <1>12, <1>14, <1>15, <1>16 DEF Admitted
<1> QED BY <1>17

(* A workload is queued: the table and the answers.                        *)
LEMMA EnqueuedTable ==
  ASSUME Inv, Enqueue, NEW w, NEW ids, NEW errs, NEW ans, Admitted(w, ids, errs, ans)
  PROVE  TableType' /\ Answering' /\ Blamed' /\ Remaining' /\ NoFalseSuccess'
<1>1. /\ w \in DOMAIN Work /\ w = taken + 1 /\ taken' = w
      /\ ids = [i \in DOMAIN Work[w].chunks |-> <<w, i>>]
      /\ pending' = pending \o ids /\ tracked' = tracked \cup Members(ids)
      /\ remaining' = [remaining EXCEPT ![w] = Len(ids)]
      /\ live' = (IF ids = <<>> THEN live ELSE live \cup {w})
      /\ fds' = (IF ids = <<>> THEN [fds EXCEPT ![w] = Closed] ELSE fds)
      /\ ferr' = [ferr EXCEPT ![w] = errs]
      /\ answer' = (IF ids = <<>> THEN Report(w, errs, ans, "Success") ELSE ans)
      /\ faults' \in Nat /\ faults <= faults'
      /\ ans \in [Ranges -> Codes \cup {None}] /\ errs \in [Files -> Codes \cup {None}]
  BY DEF Admitted
<1>2. /\ \A x \in Ranges : x # <<w, 0>> => ans[x] = answer[x]
      /\ \A f \in Files : errs[f] # "Success"
      /\ \A f \in Files : errs[f] = "FileAccessError" => faults' > 0 \/ <<w, f>> \in late
  BY DEF Admitted
<1>3. /\ ids \in Seq(Chunks) /\ Members(ids) = {c \in Chunks : c[1] = w} /\ Len(ids) \in Nat
      /\ IsFiniteSet(Members(ids)) /\ Cardinality(Members(ids)) = Len(ids)
      /\ ids = <<>> <=> Members(ids) = {}
  BY <1>1, Listed
<1>4. /\ taken \in Nat /\ faults \in Nat /\ tracked \subseteq Chunks /\ live \subseteq DOMAIN Work
      /\ remaining \in [DOMAIN Work -> Nat] /\ ferr \in [DOMAIN Work -> [Files -> Codes \cup {None}]]
      /\ fds \in [DOMAIN Work -> [Files -> Modes]] /\ live \subseteq 1..taken
      /\ answer \in [Ranges -> Codes \cup {None}]
      /\ Answering /\ Blamed /\ Remaining /\ NoFalseSuccess
  BY DEF Inv, Always, TypeOK, TableType, RecordType, ControlType, Control
<1>5. w \notin live /\ w \in Nat
  BY <1>1, <1>4
<1>6. \A x \in tracked : x[1] # w /\ x \in Ranges
  BY <1>4, <1>5, ChunkFacts DEF Answering
<1>7. UNCHANGED <<landed, late, copyDone>>
  BY DEF Enqueue
<1>8. ASSUME NEW x \in Ranges
      PROVE  /\ x[1] # w => answer'[x] = answer[x]
             /\ x[1] = w /\ ids # <<>> => answer'[x] = ans[x]
             /\ x[1] = w /\ ids = <<>> => answer'[x] # None /\ x \notin Chunks
  <2>1. x[1] # w => ans[x] = answer[x]
    BY <1>2
  <2>2. x[1] = w /\ ids = <<>> => x \notin Chunks
    BY <1>3
  <2>3. ids = <<>> => answer'[x] = IF x[1] # w \/ ans[x] # None THEN ans[x]
                                   ELSE IF errs[File(x)] # None THEN errs[File(x)] ELSE "Success"
    BY <1>1 DEF Report, Of
  <2> QED BY <1>1, <2>1, <2>2, <2>3 DEF None
<1>9. answer' \in [Ranges -> Codes \cup {None}]
  <2>1. \A x \in Ranges : File(x) \in Files
    BY RangeFacts
  <2>2. Report(w, errs, ans, "Success") \in [Ranges -> Codes \cup {None}]
    BY <1>1, <2>1 DEF Report, Codes
  <2> QED BY <1>1, <2>2
<1>10. TableType'
  <2>1. live' \subseteq DOMAIN Work /\ remaining' \in [DOMAIN Work -> Nat]
    BY <1>1, <1>3, <1>4
  <2>2. ferr' \in [DOMAIN Work -> [Files -> Codes \cup {None}]]
    BY <1>1, <1>4
  <2>3. fds' \in [DOMAIN Work -> [Files -> Modes]]
    BY <1>1, <1>4 DEF Closed, Modes
  <2> QED BY <1>9, <2>1, <2>2, <2>3 DEF TableType
<1>11. ferr'[w] = errs /\ \A v \in DOMAIN Work : v # w => ferr'[v] = ferr[v]
  BY <1>1, <1>4
<1>12. NoFalseSuccess'
  BY <1>2, <1>4, <1>7, <1>11 DEF NoFalseSuccess
<1>13. Answering'
  <2>1. ASSUME NEW x \in Ranges
        PROVE  /\ x[1] > taken' => answer'[x] = None
               /\ x[1] <= taken' /\ x[1] \notin live' => answer'[x] # None
    <3>1. x[1] \in Nat
      BY RangeFacts
    <3>2. CASE x[1] = w
      BY <1>1, <1>5, <1>8, <3>2
    <3>3. CASE x[1] # w
      <4>1. (x[1] > taken' => x[1] > taken) /\ (x[1] <= taken' => x[1] <= taken)
        BY <1>1, <1>4, <3>1, <3>3
      <4>2. x[1] \notin live' => x[1] \notin live
        BY <1>1
      <4> QED BY <1>4, <1>8, <3>3, <4>1, <4>2 DEF Answering
    <3> QED BY <3>2, <3>3
  <2>2. ASSUME NEW x \in Chunks, x[1] = w PROVE answer'[x] = None /\ x \in tracked' /\ x[1] \in live'
    <3>1. x \in Ranges /\ x # <<w, 0>> /\ x \in Members(ids)
      BY <1>3, <2>2, ChunkFacts
    <3>2. ids # <<>>
      BY <1>3, <3>1
    <3>3. answer[x] = None
      BY <1>1, <1>4, <2>2, <3>1 DEF Answering
    <3> QED BY <1>1, <1>2, <1>8, <2>2, <3>1, <3>2, <3>3
  <2>3. ASSUME NEW x \in tracked' PROVE answer'[x] = None /\ x[1] \in live'
    <3>1. CASE x \in tracked
      <4>1. x[1] # w /\ x \in Ranges /\ answer[x] = None /\ x[1] \in live
        BY <1>4, <1>6, <3>1 DEF Answering
      <4> QED BY <1>1, <1>8, <4>1
    <3>2. CASE x \in Members(ids)
      BY <1>3, <2>2, <3>2
    <3> QED BY <1>1, <2>3, <3>1, <3>2
  <2>4. ASSUME NEW x \in Chunks, x[1] \in live', x \notin tracked', answer'[x] = None
        PROVE  ferr'[x[1]][File(x)] # None
    <3>1. x \in Ranges /\ x[1] \in DOMAIN Work /\ x[1] # w
      BY <2>2, <2>4, ChunkFacts
    <3>2. x[1] \in live /\ x \notin tracked /\ answer[x] = None
      BY <1>1, <1>8, <2>4, <3>1
    <3> QED BY <1>4, <1>11, <3>1, <3>2 DEF Answering
  <2>5. ASSUME NEW x \in Chunks, answer'[x] = "Success" PROVE x \in landed'
    <3>1. x \in Ranges /\ x[1] # w
      BY <2>2, <2>5, ChunkFacts DEF None
    <3> QED BY <1>4, <1>7, <1>8, <2>5, <3>1 DEF Answering
  <2> QED BY <2>1, <2>3, <2>4, <2>5 DEF Answering
<1>14. Blamed'
  <2>1. faults > 0 => faults' > 0
    BY <1>1, <1>4
  <2>2. ASSUME NEW x \in Chunks, answer'[x] = "FileAccessError"
        PROVE  faults' > 0 \/ <<x[1], File(x)>> \in late'
    <3>1. x \in Ranges /\ x # <<w, 0>>
      BY ChunkFacts
    <3>2. x[1] = w => ids # <<>>
      BY <1>8, <3>1
    <3>3. answer'[x] = answer[x]
      BY <1>2, <1>8, <3>1, <3>2
    <3> QED BY <1>4, <1>7, <2>1, <2>2, <3>3 DEF Blamed, RefusalForgiven
  <2>3. ASSUME NEW v \in DOMAIN Work, NEW f \in Files, ferr'[v][f] = "FileAccessError"
        PROVE  faults' > 0 \/ <<v, f>> \in late'
    <3>1. CASE v = w
      BY <1>2, <1>7, <1>11, <2>3, <3>1
    <3>2. CASE v # w
      BY <1>4, <1>7, <1>11, <2>1, <2>3, <3>2 DEF Blamed
    <3> QED BY <3>1, <3>2
  <2>4. ASSUME NEW v \in DOMAIN Work, NEW f \in Files, fds'[v][f] = "error" PROVE faults' > 0
    <3>1. fds'[v][f] = fds[v][f] \/ fds'[v][f] = "closed"
      BY <1>1, <1>4 DEF Closed
    <3> QED BY <1>4, <2>1, <2>4, <3>1 DEF Blamed
  <2> QED BY <2>2, <2>3, <2>4 DEF Blamed, RefusalForgiven
<1>15. Remaining'
  <2> SUFFICES ASSUME NEW v \in live' PROVE remaining'[v] = Cardinality(TrackedOf(v)')
    BY DEF Remaining
  <2>1. CASE v = w
    <3>1. TrackedOf(w)' = Members(ids)
      BY <1>1, <1>3, <1>6 DEF TrackedOf
    <3>2. remaining'[w] = Len(ids)
      BY <1>1, <1>4
    <3> QED BY <1>3, <2>1, <3>1, <3>2
  <2>2. CASE v # w
    <3>1. v \in live /\ v \in DOMAIN Work
      BY <1>1, <1>4, <2>2
    <3>2. TrackedOf(v)' = TrackedOf(v)
      BY <1>1, <1>3, <2>2 DEF TrackedOf
    <3>3. remaining'[v] = remaining[v]
      BY <1>1, <1>4, <2>2, <3>1
    <3> QED BY <1>4, <3>1, <3>2, <3>3 DEF Remaining
  <2> QED BY <2>1, <2>2
<1> QED BY <1>10, <1>12, <1>13, <1>14, <1>15

(* A workload is queued.                                                   *)
LEMMA EnqueueStep ==
  ASSUME Inv, Enqueue
  PROVE  Inv'
<1>1. /\ pc = "idle" /\ ~stopped /\ ~dead /\ pc' = "loop"
      /\ UNCHANGED <<engine, credit, left, tries, bounce, scratch, staging, copyDone, waiting, issued,
                     flags, ret, back, cur, harvest, quota, code, stopped, refusals, landed, late>>
  BY DEF Enqueue
<1>2. Serving /\ TypeOK /\ Control
  BY <1>1 DEF Inv, Always, GivenUp
<1>3. PICK w, ids, errs, ans : Admitted(w, ids, errs, ans)
  BY Enqueued
<1>4. TableType' /\ Answering' /\ Blamed' /\ Remaining' /\ NoFalseSuccess'
  BY <1>3, EnqueuedTable
<1>5. /\ w \in DOMAIN Work /\ w = taken + 1 /\ taken' = w
      /\ ids = [i \in DOMAIN Work[w].chunks |-> <<w, i>>]
      /\ pending' = pending \o ids /\ tracked' = tracked \cup Members(ids)
      /\ live' \subseteq live \cup {w}
      /\ fds' = (IF ids = <<>> THEN [fds EXCEPT ![w] = Closed] ELSE fds)
      /\ faults' \in Nat /\ faults <= faults'
  BY <1>3 DEF Admitted
<1>6. /\ ids \in Seq(Chunks) /\ Distinct(ids) /\ Members(ids) = {c \in Chunks : c[1] = w}
  BY <1>5, Listed
<1>7. /\ taken \in Nat /\ live \subseteq 1..taken /\ pending \in Seq(Chunks) /\ Distinct(pending)
      /\ Len(Work) \in Nat /\ DOMAIN Work = 1..Len(Work) /\ tracked \subseteq Chunks
      /\ fds \in [DOMAIN Work -> [Files -> Modes]]
  BY <1>2, WorkFacts DEF TypeOK, ControlType, QueueType, RecordType, TableType, Control, Serving, Spread, OneQueued
<1>8. w \notin live /\ \A x \in tracked : x[1] # w /\ x[1] \in DOMAIN Work
  BY <1>5, <1>7, ChunkFacts DEF Inv, Always, Answering
<1>9. Members(ids) \cap tracked = {}
  BY <1>6, <1>8
<1>10. /\ pending' \in Seq(Chunks) /\ Members(pending)' = Members(pending) \cup Members(ids)
       /\ Distinct(pending)'
  <2>1. Members(pending) \subseteq tracked
    BY <1>2 DEF Serving, Recorded
  <2>2. PICK q : q = pending \o ids
    OBVIOUS
  <2>3. q \in Seq(Chunks) /\ Members(q) = Members(pending) \cup Members(ids) /\ Distinct(q)
    BY <1>6, <1>7, <1>9, <2>1, <2>2, MembersConcat
  <2>4. pending' = q
    BY <1>5, <2>2
  <2>5. Members(pending)' = Members(q) /\ (Distinct(pending)' <=> Distinct(q))
    BY <2>4 DEF Members, Distinct
  <2> QED BY <2>3, <2>4, <2>5
<1>11. up' = TRUE
  BY Zenon DEF Enqueue
<1>12. TypeOK'
  <2>1. EngineType'
    BY <1>1, <1>2 DEF TypeOK, EngineType, engine
  <2>2. up' \in BOOLEAN
    BY <1>11, Zenon
  <2>3. QueueType'
    BY <1>1, <1>2, <1>10, <2>2 DEF TypeOK, QueueType
  <2>4. tracked' \subseteq Chunks
    BY <1>5, <1>6, <1>7
  <2>5. RecordType'
    BY <1>1, <1>2, <2>4 DEF TypeOK, RecordType, staging
  <2>6. ControlType'
    BY <1>1, <1>2, <1>5, <1>7 DEF TypeOK, ControlType, Pcs, flags
  <2> QED BY <1>4, <2>1, <2>3, <2>5, <2>6 DEF TypeOK
<1>13. Control'
  <2>1. live' \subseteq 1..taken'
    BY <1>5, <1>7
  <2> QED BY <1>1, <1>2, <2>1 DEF Control, Quiescing, Resuming, Harvesting, flags, staging
<1>14. Pools' /\ StallIsReal'
  BY <1>1, PoolsSame, StallSame DEF Inv, Always, staging, engine, flags
<1>15. /\ Staging' = {} /\ Staging = {} /\ Members(waiting)' = Members(waiting)
       /\ IdsIn(copyDone)' = IdsIn(copyDone) /\ Reads' = Reads /\ copying' = copying
  BY <1>1, ReadsSame DEF Staging, Members, IdsIn, engine, staging
<1>16. Spread'
  <2>1. OneQueued'
    BY <1>1, <1>2, <1>10 DEF Serving, Spread, OneQueued, Distinct, OneIn
  <2>2. "pending" \in Places /\ Members(ids) \in SUBSET Chunks
    BY <1>6 DEF Places
  <2>3. /\ Members(ids) \cap Reads = {} /\ Members(waiting)' \cap Members(ids) = {}
        /\ copying' \cap Members(ids) = {} /\ IdsIn(copyDone)' \cap Members(ids) = {}
    BY <1>2, <1>9, <1>15 DEF Serving, Recorded
  <2> QED BY <1>1, <1>2, <1>10, <1>15, <2>1, <2>2, <2>3, MovedInside DEF Serving, engine
<1>17. Recorded'
  BY <1>2, <1>5, <1>10, <1>15 DEF Serving, Recorded
<1>18. Slots' = Slots
  <2>1. Members(ids) \cap (copying \cup IdsIn(copyDone)) = {}
    BY <1>2, <1>9 DEF Serving, Recorded
  <2> QED BY <1>5, <1>9, <1>10, <1>15, <2>1, SlotsAre
<1>19. Credit' /\ Bounced'
  BY <1>1, <1>2, <1>15, <1>18 DEF Serving, Credit, Bounced, Quiescing
<1>20. Holding' /\ Counted'
  BY <1>1, <1>2, <1>15, HoldingSame, CountedSame DEF Serving, engine, staging
<1>21. \A x \in Reads : StaysDirect(x)
  BY <1>2, <1>5, <1>7, <1>8 DEF StaysDirect, Serving, Recorded
<1>22. Refusals'
  BY <1>1, <1>2, <1>5, <1>21, RefusalsKept DEF Serving, engine
<1> QED BY <1>4, <1>12, <1>13, <1>14, <1>16, <1>17, <1>19, <1>20, <1>22 DEF Inv, Always, Serving

-----------------------------------------------------------------------------
(* A slot comes back.                                                      *)
LEMMA SlotBack ==
  ASSUME TypeOK, Credit, ~Quiescing, NEW c \in Slots, Slots' = Slots \ {c}, Complete
  PROVE  Credit' /\ credit' \in Nat
<1>1. credit \in Nat /\ Slots \subseteq Chunks /\ Depth \in Nat
  BY DepthAssumption DEF TypeOK, QueueType, RecordType, Slots
<1>2. Cardinality(Slots \ {c}) = Cardinality(Slots) - 1 /\ Cardinality(Slots) > 0
  BY <1>1, OneChunk
<1>3. credit = Cardinality(Slots)
  BY DEF Credit
<1>4. credit' = credit - 1
  BY <1>1, <1>2, <1>3 DEF Complete
<1> QED BY <1>1, <1>2, <1>3, <1>4 DEF Credit

(* A staging buffer comes back, if the chunk has one.                      *)
LEMMA BufferBack ==
  ASSUME TypeOK, Pools, NEW c \in Chunks, GiveBuffer(c), UNCHANGED copying
  PROVE  /\ holds' = holds \ {c} /\ holds' \subseteq Chunks /\ buffers' \in Nat
         /\ buffers' + Cardinality(holds') + Cardinality(copying') = Depth + CopyDepth
<1>1. /\ buffers \in Nat /\ holds \subseteq Chunks /\ copying \subseteq Chunks
      /\ Depth \in Nat /\ CopyDepth \in Nat
  BY DepthAssumption, BoundsAssumption DEF TypeOK, RecordType
<1>2. Cardinality(holds) \in Nat /\ Cardinality(copying) \in Nat
  BY <1>1, Countable
<1>3. holds' = holds \ {c} /\ buffers' = IF c \in holds THEN buffers + 1 ELSE buffers
  BY DEF GiveBuffer
<1>4. buffers + Cardinality(holds) + Cardinality(copying) = Depth + CopyDepth
  BY DEF Pools
<1>5. CASE c \in holds
  <2>1. Cardinality(holds \ {c}) = Cardinality(holds) - 1
    BY <1>1, <1>5, OneChunk
  <2>2. buffers' = buffers + 1 /\ copying' = copying /\ Cardinality(holds') = Cardinality(holds) - 1
    BY <1>3, <1>5, <2>1
  <2>3. buffers' + Cardinality(holds') + Cardinality(copying') = Depth + CopyDepth /\ buffers' \in Nat
    BY <1>1, <1>2, <1>4, <2>2
  <2> QED BY <1>1, <1>3, <2>3
<1>6. CASE c \notin holds
  <2>1. holds' = holds
    BY <1>1, <1>3, <1>6, OneChunk
  <2>2. buffers' = buffers /\ copying' = copying
    BY <1>3, <1>6
  <2>3. buffers' + Cardinality(holds') + Cardinality(copying') = Depth + CopyDepth
    BY <1>4, <2>1, <2>2
  <2> QED BY <1>1, <1>3, <2>1, <2>2, <2>3
<1> QED BY <1>5, <1>6

(* A chunk fails before it is read.                                        *)
LEMMA StageFailsStep ==
  ASSUME Inv, StageFails
  PROVE  Inv'
<1>1. /\ pc = "stage" /\ pc' = back /\ GiveBuffer(cur) /\ UNCHANGED <<copying, copiesIssued>>
      /\ UNCHANGED <<engine, up, pending, left, tries, bounce, scratch, copyDone, waiting, issued,
                     flags, ret, back, cur, harvest, quota, code, landed, late, taken, stopped, refusals>>
  BY DEF StageFails, FailChunk, Fault, world
<1>2. Serving /\ TypeOK /\ Control /\ Always
  BY <1>1 DEF Inv, Always, GivenUp
<1>3. /\ cur \in Chunks /\ faults \in Nat /\ back \in {"pump", "resume", "harvest"}
      /\ fds \in [DOMAIN Work -> [Files -> Modes]]
  BY <1>1, <1>2 DEF TypeOK, ControlType, TableType, Control
<1>4. cur[1] \in DOMAIN Work /\ File(cur) \in Files
  BY <1>3, ChunkFacts
<1>5. Staging = {cur} /\ Staging' = {}
  BY <1>1, <1>3 DEF Staging
<1>6. /\ cur \notin Members(waiting) /\ cur \notin Members(pending) /\ cur \notin copying
      /\ cur \notin IdsIn(copyDone) /\ cur \notin Reads
  BY <1>2, <1>5, OnePlace DEF Serving
<1>7. cur \in tracked /\ cur \notin bounce
  BY <1>2, <1>5 DEF Serving, Recorded, Bounced
<1>8. PICK r \in Codes, opened \in [DOMAIN Work -> [Files -> Modes]] :
        /\ EndChunk(cur, r, TRUE, opened) /\ faults' \in Nat /\ faults <= faults' /\ r # "Success"
        /\ r = "FileAccessError" => faults' > 0
        /\ \A v \in DOMAIN Work, f \in Files : opened[v][f] = "error" => faults' > 0
        /\ \A v \in DOMAIN Work, f \in Files : fds[v][f] = "direct" => opened[v][f] = "direct"
  <2>1. \A v \in DOMAIN Work, f \in Files : fds[v][f] = "error" => faults > 0
    BY <1>2 DEF Always, Blamed
  <2>2. CASE Fault /\ FailChunk(cur, "DeviceDriverError")
    <3>1. faults' = faults + 1 /\ EndChunk(cur, "DeviceDriverError", TRUE, fds)
      BY <2>2 DEF Fault, FailChunk
    <3>2. "DeviceDriverError" \in Codes /\ faults' \in Nat /\ faults <= faults' /\ faults' > 0
      BY <1>3, <3>1 DEF Codes
    <3> QED BY <1>3, <3>1, <3>2
  <2>3. CASE /\ \/ Fd = "error" /\ UNCHANGED world
                \/ Fd = "unopened" /\ Fault
             /\ EndChunk(cur, "FileAccessError", TRUE, [fds EXCEPT ![cur[1]][File(cur)] = "error"])
    <3>1. PICK opened : opened = [fds EXCEPT ![cur[1]][File(cur)] = "error"]
      OBVIOUS
    <3>2. opened \in [DOMAIN Work -> [Files -> Modes]]
      BY <1>3, <1>4, <3>1 DEF Modes
    <3>3. faults' \in Nat /\ faults <= faults' /\ faults' > 0
      BY <1>3, <1>4, <2>1, <2>3 DEF Fd, Fault, world
    <3>4. \A v \in DOMAIN Work, f \in Files : fds[v][f] = "direct" => opened[v][f] = "direct"
      BY <1>3, <1>4, <2>3, <3>1 DEF Fd
    <3>5. "FileAccessError" \in Codes
      BY DEF Codes
    <3> QED BY <2>3, <3>1, <3>2, <3>3, <3>4, <3>5
  <2> QED BY <2>2, <2>3 DEF StageFails
<1>9. /\ TableType' /\ live' \subseteq live /\ tracked' = tracked \ {cur}
      /\ \A v \in DOMAIN Work, f \in Files : ferr'[v][f] # "Success"
      /\ Answering' /\ Blamed' /\ Remaining'
      /\ \A x \in tracked' : fds'[x[1]] = opened[x[1]]
  BY <1>1, <1>2, <1>7, <1>8, Ends DEF Always, Control
<1>10. holds' = holds \ {cur} /\ holds' \subseteq Chunks /\ buffers' \in Nat
       /\ buffers' + Cardinality(holds') + Cardinality(copying') = Depth + CopyDepth
  BY <1>1, <1>2, <1>3, BufferBack DEF Always
<1>11. Pools'
  <2>1. scratch' + Cardinality(bounce') = Depth /\ copiesIssued' = Cardinality(copying') + Len(copyDone')
    BY <1>1, <1>2 DEF Always, Pools
  <2> QED BY <1>10, <2>1 DEF Pools
<1>12. NoFalseSuccess'
  BY <1>1, <1>2, <1>9 DEF Always, NoFalseSuccess
<1>13. /\ Members(pending)' = Members(pending) /\ Members(waiting)' = Members(waiting)
       /\ IdsIn(copyDone)' = IdsIn(copyDone) /\ Reads' = Reads /\ copying' = copying
  BY <1>1, ReadsSame DEF Members, IdsIn, engine
<1>14. Slots' = Slots \ {cur} /\ cur \in Slots
  BY <1>6, <1>7, <1>9, <1>13, SlotsAre
<1>15. Credit' /\ credit' \in Nat
  BY <1>1, <1>2, <1>8, <1>14, SlotBack DEF Serving, Quiescing, EndChunk
<1>16. TypeOK'
  <2>1. EngineType'
    BY <1>1, <1>2 DEF TypeOK, EngineType, engine
  <2>2. QueueType'
    BY <1>1, <1>2, <1>15 DEF TypeOK, QueueType
  <2>3. tracked' \subseteq Chunks
    BY <1>2, <1>9 DEF TypeOK, RecordType
  <2>4. RecordType'
    BY <1>1, <1>2, <1>10, <2>3 DEF TypeOK, RecordType
  <2>5. ControlType'
    BY <1>1, <1>2, <1>3, <1>8 DEF TypeOK, ControlType, Pcs, flags
  <2> QED BY <1>9, <2>1, <2>2, <2>4, <2>5 DEF TypeOK
<1>17. Control'
  BY <1>1, <1>2, <1>3, <1>9 DEF Control, Quiescing, Resuming, Harvesting, flags
<1>18. StallIsReal'
  BY <1>1, <1>2, StallSame DEF Always, engine, flags
<1>19. Spread'
  BY <1>1, <1>2, <1>5, SpreadSame DEF Serving, seats, engine
<1>20. Recorded'
  BY <1>2, <1>5, <1>6, <1>9, <1>13 DEF Serving, Recorded
<1>21. Bounced'
  BY <1>1, <1>2, <1>5, <1>7, <1>13, <1>14 DEF Serving, Bounced
<1>22. Holding'
  BY <1>2, <1>6, <1>10, <1>13 DEF Serving, Holding
<1>23. Counted'
  BY <1>1, <1>2, CountedSame DEF Serving, engine
<1>24. Refusals'
  <2>1. \A x \in Reads : x \in tracked' /\ x[1] \in DOMAIN Work /\ File(x) \in Files
    BY <1>2, <1>6, <1>9, ChunkFacts DEF Serving, Recorded, TypeOK, RecordType
  <2>2. \A x \in Reads : StaysDirect(x)
    BY <1>8, <1>9, <2>1 DEF StaysDirect
  <2> QED BY <1>1, <1>2, <1>8, <2>2, RefusalsKept DEF Serving, engine
<1> QED BY <1>9, <1>11, <1>12, <1>15, <1>16, <1>17, <1>18, <1>19, <1>20, <1>21, <1>22, <1>23, <1>24
        DEF Inv, Always, Serving

-----------------------------------------------------------------------------
(* The read of a chunk is prepared, in the mode its file is open in.       *)
LEMMA StageReadStep ==
  ASSUME Inv, StageRead
  PROVE  Inv'
<1>1. /\ pc = "stage" /\ (NeedsBuffer => buffers > 0) /\ pc' = back
      /\ holds' = IF IsDevice(cur) THEN holds \cup {cur} ELSE holds
      /\ buffers' = IF NeedsBuffer THEN buffers - 1 ELSE buffers
      /\ UNCHANGED <<kernel, ring, refused, broken, queue, table, tracked, left, tries, copiesIssued,
                     copying, copyDone, waiting, issued, flags, ret, back, cur, harvest, quota, code,
                     world, landed, late>>
  BY DEF StageRead
<1>2. PICK mode \in OpenAs :
        /\ Bounces(mode) => scratch > 0
        /\ fds' = [fds EXCEPT ![cur[1]][File(cur)] = mode]
        /\ Stage(cur, mode = "direct")
        /\ bounce' = IF Bounces(mode) THEN bounce \cup {cur} ELSE bounce
        /\ scratch' = IF Bounces(mode) THEN scratch - 1 ELSE scratch
  BY DEF StageRead
<1>3. Fd # "error"
  BY DEF StageRead
<1>4. Serving /\ TypeOK /\ Control /\ Always
  BY <1>1 DEF Inv, Always, GivenUp
<1>5. /\ cur \in Chunks /\ faults \in Nat /\ back \in {"pump", "resume", "harvest"}
      /\ fds \in [DOMAIN Work -> [Files -> Modes]] /\ staged \in Seq(Entry)
  BY <1>1, <1>4 DEF TypeOK, ControlType, TableType, Control, EngineType
<1>6. cur[1] \in DOMAIN Work /\ File(cur) \in Files
  BY <1>5, ChunkFacts
<1>7. Staging = {cur} /\ Staging' = {}
  BY <1>1, <1>5 DEF Staging
<1>8. /\ cur \notin Members(waiting) /\ cur \notin Members(pending) /\ cur \notin copying
      /\ cur \notin IdsIn(copyDone) /\ cur \notin Reads
  BY <1>4, <1>7, OnePlace DEF Serving
<1>9. cur \in tracked /\ cur \notin bounce
  BY <1>4, <1>7 DEF Serving, Recorded, Bounced
<1>10. mode \in Modes /\ mode # "error" /\ (Fd # "unopened" => mode = Fd)
  <2>1. Fd \in Modes
    BY <1>5, <1>6 DEF Fd
  <2> QED BY <1>2, <1>3, <2>1 DEF OpenAs, Modes
<1>11. /\ fds' \in [DOMAIN Work -> [Files -> Modes]]
       /\ \A v \in DOMAIN Work, f \in Files :
            /\ fds[v][f] = "direct" => fds'[v][f] = "direct"
            /\ fds'[v][f] = "error" => fds[v][f] = "error"
  <2>1. fds' \in [DOMAIN Work -> [Files -> Modes]]
    BY <1>2, <1>5, <1>6, <1>10
  <2>2. ASSUME NEW v \in DOMAIN Work, NEW f \in Files
        PROVE  /\ fds[v][f] = "direct" => fds'[v][f] = "direct"
               /\ fds'[v][f] = "error" => fds[v][f] = "error"
    <3>1. fds'[v][f] = IF v = cur[1] /\ f = File(cur) THEN mode ELSE fds[v][f]
      BY <1>2, <1>5, <1>6
    <3> QED BY <1>10, <3>1 DEF Fd
  <2> QED BY <2>1, <2>2
<1>12. PICK e : e = [id |-> cur, direct |-> mode = "direct"]
  OBVIOUS
<1>13. e \in Entry /\ e.id = cur /\ staged' = Append(staged, e)
  <2>1. (mode = "direct") \in BOOLEAN
    OBVIOUS
  <2> QED BY <1>2, <1>5, <1>12, <2>1 DEF Entry, Stage
<1>14. staged' \in Seq(Entry) /\ IdsIn(staged)' = IdsIn(staged) \cup {cur} /\ OneIn(staged)'
  <2>1. PICK q : q = Append(staged, e)
    OBVIOUS
  <2>2. cur \notin IdsIn(staged) /\ OneIn(staged)
    BY <1>4, <1>8 DEF Reads, AtEngine, Serving, Spread, OneRead
  <2>3. q \in Seq(Entry) /\ IdsIn(q) = IdsIn(staged) \cup {cur} /\ OneIn(q)
    BY <1>5, <1>13, <2>1, <2>2, IdsAppend
  <2>4. staged' = q
    BY <1>13, <2>1
  <2>5. IdsIn(staged)' = IdsIn(q) /\ (OneIn(staged)' <=> OneIn(q))
    BY <2>4 DEF IdsIn, OneIn
  <2> QED BY <2>3, <2>4, <2>5
<1>15. /\ Members(pending)' = Members(pending) /\ Members(waiting)' = Members(waiting)
       /\ IdsIn(copyDone)' = IdsIn(copyDone) /\ copying' = copying /\ tracked' = tracked
       /\ IdsOf(kernel)' = IdsOf(kernel) /\ IdsIn(ring)' = IdsIn(ring)
       /\ IdsIn(refused)' = IdsIn(refused) /\ IdsIn(harvest)' = IdsIn(harvest)
  BY <1>1 DEF Members, IdsIn, IdsOf, queue
<1>16. Reads' = Reads \cup {cur}
  BY <1>14, <1>15 DEF Reads, AtEngine
<1>17. Slots' = Slots /\ cur \in Slots
  BY <1>8, <1>9, <1>15, SlotsAre
<1>18. bounce' \subseteq bounce \cup {cur} /\ bounce' \subseteq Chunks /\ scratch' \in Nat
       /\ scratch' + Cardinality(bounce') = Depth
  <2>1. bounce \subseteq Chunks /\ scratch \in Nat /\ Depth \in Nat /\ scratch + Cardinality(bounce) = Depth
    BY <1>4, DepthAssumption DEF TypeOK, RecordType, Always, Pools
  <2>2. Cardinality(bounce) \in Nat
    BY <2>1, Countable
  <2>3. CASE Bounces(mode)
    <3>1. Cardinality(bounce') = Cardinality(bounce) + 1
      BY <1>2, <1>9, <2>1, <2>3, OneChunk
    <3>2. bounce' = bounce \cup {cur} /\ scratch' = scratch - 1 /\ scratch > 0
      BY <1>2, <2>3
    <3>3. scratch' \in Nat /\ scratch' + Cardinality(bounce') = Depth
      BY <2>1, <2>2, <3>1, <3>2
    <3> QED BY <1>5, <2>1, <3>2, <3>3
  <2>4. CASE ~Bounces(mode)
    <3>1. bounce' = bounce /\ scratch' = scratch
      BY <1>2, <2>4
    <3> QED BY <2>1, <3>1
  <2> QED BY <2>3, <2>4
<1>19. /\ holds \subseteq holds' /\ holds' \subseteq Chunks /\ (IsDevice(cur) => cur \in holds') /\ buffers' \in Nat
       /\ buffers' + Cardinality(holds') + Cardinality(copying') = Depth + CopyDepth
  <2>1. /\ holds \subseteq Chunks /\ buffers \in Nat /\ Depth \in Nat /\ CopyDepth \in Nat
        /\ copying \subseteq Chunks
        /\ buffers + Cardinality(holds) + Cardinality(copying) = Depth + CopyDepth
    BY <1>4, DepthAssumption, BoundsAssumption DEF TypeOK, RecordType, Always, Pools
  <2>2. Cardinality(holds) \in Nat /\ Cardinality(copying) \in Nat
    BY <2>1, Countable
  <2>3. CASE NeedsBuffer
    <3>1. cur \notin holds /\ holds' = holds \cup {cur} /\ buffers' = buffers - 1 /\ buffers > 0
      BY <1>1, <2>3 DEF NeedsBuffer
    <3>2. Cardinality(holds') = Cardinality(holds) + 1
      BY <2>1, <3>1, OneChunk
    <3>3. buffers' \in Nat /\ buffers' + Cardinality(holds') + Cardinality(copying) = Depth + CopyDepth
      BY <2>1, <2>2, <3>1, <3>2
    <3> QED BY <1>5, <1>15, <2>1, <3>1, <3>3
  <2>4. CASE ~NeedsBuffer
    <3>1. buffers' = buffers /\ (IsDevice(cur) => cur \in holds)
      BY <1>1, <2>4 DEF NeedsBuffer
    <3>2. holds' = holds
      BY <1>1, <3>1, <2>1, OneChunk
    <3>3. buffers' + Cardinality(holds') + Cardinality(copying') = Depth + CopyDepth
      BY <1>15, <2>1, <3>1, <3>2
    <3> QED BY <2>1, <3>1, <3>2, <3>3
  <2> QED BY <2>3, <2>4
<1>20. Pools'
  <2>1. copiesIssued' = Cardinality(copying') + Len(copyDone')
    BY <1>1, <1>4 DEF Always, Pools
  <2> QED BY <1>18, <1>19, <2>1 DEF Pools
<1>21. TypeOK'
  <2>1. EngineType'
    BY <1>1, <1>4, <1>14 DEF TypeOK, EngineType
  <2>2. QueueType'
    BY <1>1, <1>4 DEF TypeOK, QueueType, queue
  <2>3. TableType'
    BY <1>1, <1>4, <1>11 DEF TypeOK, TableType, table
  <2>4. RecordType'
    BY <1>1, <1>4, <1>18, <1>19 DEF TypeOK, RecordType
  <2>5. ControlType'
    BY <1>1, <1>4, <1>5 DEF TypeOK, ControlType, Pcs, flags, world
  <2> QED BY <2>1, <2>2, <2>3, <2>4, <2>5 DEF TypeOK
<1>22. Control'
  BY <1>1, <1>4, <1>5 DEF Control, Quiescing, Resuming, Harvesting, flags, queue, world, table
<1>23. Answering' /\ NoFalseSuccess' /\ Remaining'
  BY <1>1, <1>4, AnsweringSame, NoFalseSame, RemainingSame DEF Always, table, world
<1>24. Blamed'
  <2>1. faults' = faults /\ \A v \in DOMAIN Work, f \in Files : fds[v][f] = "error" => faults > 0
    BY <1>1, <1>4 DEF Always, Blamed, world
  <2>2. \A v \in DOMAIN Work, f \in Files : fds'[v][f] = "error" => faults' > 0
    BY <1>11, <2>1
  <2> QED BY <1>1, <1>4, <2>2 DEF Always, Blamed, RefusalForgiven, table, world
<1>25. StallIsReal'
  BY <1>1, <1>4, StallSame DEF Always, flags
<1>26. Spread'
  <2>1. OneQueued'
    BY <1>1, <1>4 DEF Serving, Spread, OneQueued, Distinct, OneIn, queue
  <2>2. OneRead'
    BY <1>1, <1>4, <1>14 DEF Serving, Spread, OneRead, OneEach, OneIn
  <2>3. "staged" \in Places /\ {cur} \in SUBSET Chunks
    BY <1>5 DEF Places
  <2>4. /\ Members(pending)' \cap {cur} = {} /\ Members(waiting)' \cap {cur} = {}
        /\ copying' \cap {cur} = {} /\ IdsIn(copyDone)' \cap {cur} = {}
    BY <1>8, <1>15
  <2>5. /\ IdsOf(kernel)' \cap {cur} = {} /\ IdsIn(ring)' \cap {cur} = {}
        /\ IdsIn(refused)' \cap {cur} = {} /\ IdsIn(harvest)' \cap {cur} = {}
    BY <1>8, <1>15 DEF Reads, AtEngine
  <2> QED BY <1>4, <1>7, <1>14, <1>15, <2>1, <2>2, <2>3, <2>4, <2>5, Moved DEF Serving
<1>27. Recorded'
  BY <1>4, <1>7, <1>9, <1>15, <1>16 DEF Serving, Recorded
<1>28. Credit'
  BY <1>1, <1>4, <1>15, CreditSame DEF Serving, Quiescing, queue
<1>29. Bounced'
  BY <1>4, <1>7, <1>8, <1>15, <1>17, <1>18 DEF Serving, Bounced
<1>30. Holding'
  BY <1>4, <1>16, <1>19 DEF Serving, Holding
<1>31. Counted'
  BY <1>1, <1>4, CountedSame DEF Serving
<1>32. Refusals'
  <2>1. \A x \in Reads : x[1] \in DOMAIN Work /\ File(x) \in Files
    BY <1>4, ChunkFacts DEF Serving, Recorded, TypeOK, RecordType
  <2>2. \A x \in Reads : StaysDirect(x)
    BY <1>11, <2>1 DEF StaysDirect
  <2> QED BY <1>1, <1>4, <1>5, <2>2, RefusalsKept DEF Serving, world
<1> QED BY <1>20, <1>21, <1>22, <1>23, <1>24, <1>25, <1>26, <1>27, <1>28, <1>29, <1>30, <1>31, <1>32
        DEF Inv, Always, Serving

(* The end of a copy is the end of its chunk, whose slot came back before. *)
LEMMA DrainCopyStep ==
  ASSUME Inv, DrainCopy
  PROVE  Inv'
<1>1. /\ pc \in {"copies", "quiesceCopies"} /\ copyDone # <<>>
      /\ EndChunk(Head(copyDone).id, Head(copyDone).ret, FALSE, fds)
      /\ copyDone' = Tail(copyDone) /\ copiesIssued' = copiesIssued - 1
      /\ UNCHANGED <<engine, up, pending, left, tries, bounce, scratch, holds, buffers, copying,
                     waiting, issued, flags, control, world, landed, late>>
  BY DEF DrainCopy
<1>2. Serving /\ TypeOK /\ Control /\ Always
  BY <1>1 DEF Inv, Always, GivenUp
<1>3. PICK c, r : c = Head(copyDone).id /\ r = Head(copyDone).ret
  OBVIOUS
<1>4. copyDone \in Seq(CopyReport) /\ OneIn(copyDone) /\ copiesIssued \in Nat /\ faults \in Nat
  BY <1>2 DEF TypeOK, RecordType, ControlType, Serving, Spread, OneQueued
<1>5. /\ c \in Chunks /\ r \in {"Success", "DeviceDriverError"} /\ c \in IdsIn(copyDone)
      /\ copyDone' \in Seq(CopyReport) /\ IdsIn(copyDone)' = IdsIn(copyDone) \ {c} /\ OneIn(copyDone)'
      /\ r = "Success" => c \in landed
      /\ \A i \in DOMAIN copyDone' : \E j \in DOMAIN copyDone : copyDone'[i] = copyDone[j]
  <2>1. PICK q : q = Tail(copyDone)
    OBVIOUS
  <2>2. /\ Head(copyDone) \in CopyReport /\ q \in Seq(CopyReport) /\ c \in IdsIn(copyDone)
        /\ \A i \in DOMAIN q : \E j \in DOMAIN copyDone : q[i] = copyDone[j]
        /\ OneIn(q) /\ IdsIn(q) = IdsIn(copyDone) \ {c}
    BY <1>1, <1>3, <1>4, <2>1, IdsTail
  <2>3. PICK j \in DOMAIN copyDone : Head(copyDone) = copyDone[j]
    BY <1>1, <1>4, IdsTail
  <2>4. r = "Success" => c \in landed
    BY <1>2, <1>3, <2>3 DEF Always, NoFalseSuccess
  <2>5. copyDone' = q
    BY <1>1, <2>1
  <2>6. IdsIn(copyDone)' = IdsIn(q) /\ (OneIn(copyDone)' <=> OneIn(q))
    BY <2>5 DEF IdsIn, OneIn
  <2>7. c \in Chunks /\ r \in {"Success", "DeviceDriverError"}
    BY <1>3, <2>2, RecordIds
  <2> QED BY <2>2, <2>4, <2>5, <2>6, <2>7
<1>6. c \in tracked /\ c \notin Reads /\ c \notin copying /\ c \notin Members(pending)
      /\ c \notin Members(waiting) /\ c \notin Staging
  BY <1>2, <1>5, OnePlace DEF Serving, Recorded
<1>7. /\ TableType' /\ live' \subseteq live /\ tracked' = tracked \ {c}
      /\ \A v \in DOMAIN Work, f \in Files : ferr'[v][f] # "Success"
      /\ Answering' /\ Blamed' /\ Remaining'
      /\ \A x \in tracked' : fds'[x[1]] = fds[x[1]]
  <2>1. r \in Codes /\ r # "FileAccessError" /\ EndChunk(c, r, FALSE, fds)
    BY <1>1, <1>3, <1>5 DEF Codes
  <2>2. fds \in [DOMAIN Work -> [Files -> Modes]]
    BY <1>2 DEF TypeOK, TableType
  <2>3. \A v \in DOMAIN Work, f \in Files : fds[v][f] = "error" => faults > 0
    BY <1>2 DEF Always, Blamed
  <2>4. /\ faults' \in Nat /\ faults <= faults' /\ taken' = taken /\ landed \subseteq landed'
        /\ late \subseteq late' /\ faults' = faults
    BY <1>1, <1>4 DEF world
  <2>5. r = "Success" => c \in landed'
    BY <1>5, <2>4
  <2>6. \A v \in DOMAIN Work, f \in Files : fds[v][f] = "error" => faults' > 0
    BY <2>3, <2>4
  <2>7. live \subseteq 1..taken /\ Answering /\ NoFalseSuccess /\ Blamed /\ Remaining
    BY <1>2 DEF Always, Control
  <2>8. PICK opened : opened = fds
    OBVIOUS
  <2> QED BY <1>2, <1>6, <2>1, <2>2, <2>4, <2>5, <2>6, <2>7, <2>8, Ends
<1>8. credit' = credit
  BY <1>1, <1>3 DEF EndChunk
<1>9. Len(copyDone) \in Nat /\ Len(copyDone') = Len(copyDone) - 1 /\ Len(copyDone) > 0
  BY <1>1, <1>4, TailFacts, SeqFacts
<1>10. Pools' /\ copiesIssued' \in Nat
  <2>1. Cardinality(copying) \in Nat /\ copiesIssued = Cardinality(copying) + Len(copyDone)
    BY <1>2, Countable DEF TypeOK, RecordType, Always, Pools
  <2>2. copiesIssued' \in Nat /\ copiesIssued' = Cardinality(copying) + Len(copyDone')
    BY <1>1, <1>9, <2>1
  <2>3. scratch' + Cardinality(bounce') = Depth
    BY <1>1, <1>2 DEF Always, Pools
  <2>4. buffers' + Cardinality(holds') + Cardinality(copying') = Depth + CopyDepth
    BY <1>1, <1>2 DEF Always, Pools
  <2>5. copiesIssued' = Cardinality(copying') + Len(copyDone')
    BY <1>1, <2>2
  <2> QED BY <2>2, <2>3, <2>4, <2>5 DEF Pools
<1>11. NoFalseSuccess'
  <2>1. \A i \in DOMAIN copyDone' : copyDone'[i].ret = "Success" => copyDone'[i].id \in landed
    BY <1>2, <1>5 DEF Always, NoFalseSuccess
  <2> QED BY <1>1, <1>7, <2>1 DEF NoFalseSuccess
<1>12. /\ Members(pending)' = Members(pending) /\ Members(waiting)' = Members(waiting)
       /\ Reads' = Reads /\ copying' = copying /\ Staging' = Staging
  BY <1>1, ReadsSame DEF Members, engine, control, Staging
<1>13. Slots' = Slots
  BY <1>5, <1>7, <1>12, SlotsAre
<1>14. TypeOK'
  <2>1. EngineType'
    BY <1>1, <1>2 DEF TypeOK, EngineType, engine
  <2>2. QueueType'
    BY <1>1, <1>2, <1>8 DEF TypeOK, QueueType
  <2>3. tracked' \subseteq Chunks
    BY <1>2, <1>7 DEF TypeOK, RecordType
  <2>4. RecordType'
    BY <1>1, <1>2, <1>5, <1>10, <2>3 DEF TypeOK, RecordType
  <2>5. ControlType'
    BY <1>1, <1>2 DEF TypeOK, ControlType, flags, control, world
  <2> QED BY <1>7, <2>1, <2>2, <2>4, <2>5 DEF TypeOK
<1>15. Control'
  BY <1>1, <1>2, <1>7, <1>8 DEF Control, Quiescing, Resuming, Harvesting, flags, control, world
<1>16. StallIsReal'
  BY <1>1, <1>2, StallSame DEF Always, engine, flags
<1>17. Spread'
  <2>1. OneQueued'
    BY <1>1, <1>2, <1>5 DEF Serving, Spread, OneQueued, Distinct
  <2>2. "done" \in Places /\ {} \in SUBSET Chunks
    BY DEF Places
  <2> QED BY <1>1, <1>2, <1>5, <1>12, <2>1, <2>2, MovedInside DEF Serving, engine, control
<1>18. Recorded'
  BY <1>2, <1>5, <1>6, <1>7, <1>12 DEF Serving, Recorded
<1>19. Credit'
  BY <1>1, <1>2, <1>8, <1>13 DEF Serving, Credit, Quiescing, control
<1>20. Bounced'
  BY <1>1, <1>2, <1>12, <1>13 DEF Serving, Bounced
<1>21. Holding'
  BY <1>1, <1>2, <1>12, HoldingSame DEF Serving
<1>22. Counted'
  BY <1>1, <1>2, CountedSame DEF Serving, engine, control
<1>23. Refusals'
  <2>1. \A x \in Reads : x \in tracked'
    BY <1>2, <1>6, <1>7 DEF Serving, Recorded
  <2>2. \A x \in Reads : StaysDirect(x)
    BY <1>7, <2>1 DEF StaysDirect
  <2> QED BY <1>1, <1>2, <1>4, <2>2, RefusalsKept DEF Serving, engine, control, world
<1> QED BY <1>7, <1>10, <1>11, <1>14, <1>15, <1>16, <1>17, <1>18, <1>19, <1>20, <1>21, <1>22, <1>23
        DEF Inv, Always, Serving

-----------------------------------------------------------------------------
(* The next completion of the harvest, and what is left without it.        *)
LEMMA HarvestHead ==
  ASSUME Inv, pc = "harvest", harvest # <<>>, NEW c, c = Done.id, Consume, UNCHANGED engine
  PROVE  /\ Serving /\ Always
         /\ Done \in Completion /\ c \in Chunks /\ Excused(c, Done.err)
         /\ c \in Reads /\ c \in tracked /\ c \in Slots /\ Staging = {}
         /\ c \notin Members(pending) /\ c \notin Members(waiting) /\ c \notin copying /\ c \notin IdsIn(copyDone)
         /\ harvest' \in Seq(Completion) /\ IdsIn(harvest)' = IdsIn(harvest) \ {c} /\ OneIn(harvest)'
         /\ \A i \in DOMAIN harvest' : \E j \in DOMAIN harvest : harvest'[i] = harvest[j]
         /\ Reads' = Reads \ {c} /\ issued' \in Nat /\ Counted' /\ stalls = 0
<1>1. Serving /\ Always /\ TypeOK
  BY DEF Inv, Always, GivenUp
<1>2. harvest \in Seq(Completion) /\ OneIn(harvest) /\ issued \in Nat
  BY <1>1 DEF TypeOK, ControlType, Serving, Spread, OneRead
<1>3. harvest' = Tail(harvest) /\ issued' = issued - 1
  BY DEF Consume
<1>4. /\ Done \in Completion /\ c \in IdsIn(harvest) /\ harvest' \in Seq(Completion)
      /\ IdsIn(harvest)' = IdsIn(harvest) \ {c} /\ OneIn(harvest)'
      /\ \A i \in DOMAIN harvest' : \E j \in DOMAIN harvest : harvest'[i] = harvest[j]
  <2>1. PICK q : q = Tail(harvest)
    OBVIOUS
  <2>2. /\ Head(harvest) \in Completion /\ q \in Seq(Completion) /\ c \in IdsIn(harvest)
        /\ \A i \in DOMAIN q : \E j \in DOMAIN harvest : q[i] = harvest[j]
        /\ OneIn(q) /\ IdsIn(q) = IdsIn(harvest) \ {c}
    BY <1>2, <2>1, IdsTail DEF Done
  <2>3. harvest' = q
    BY <1>3, <2>1
  <2>4. IdsIn(harvest)' = IdsIn(q) /\ (OneIn(harvest)' <=> OneIn(q))
    BY <2>3 DEF IdsIn, OneIn
  <2> QED BY <2>2, <2>3, <2>4 DEF Done
<1>5. c \in Chunks
  BY <1>4, RecordIds
<1>6. Excused(c, Done.err)
  <2>1. PICK j \in DOMAIN harvest : Head(harvest) = harvest[j]
    BY <1>2, IdsTail
  <2> QED BY <1>1, <2>1 DEF Serving, Refusals, Done
<1>7. c \in Reads /\ c \in tracked /\ Staging = {}
  BY <1>1, <1>4 DEF Reads, Serving, Recorded, Staging
<1>8. c \notin Members(pending) /\ c \notin Members(waiting) /\ c \notin copying /\ c \notin IdsIn(copyDone)
  BY <1>1, <1>7, OnePlace DEF Serving
<1>9. c \in Slots
  BY <1>7, <1>8, SlotsAre
<1>10. Reads' = Reads \ {c}
  <2>1. /\ IdsIn(staged)' = IdsIn(staged) /\ IdsOf(kernel)' = IdsOf(kernel)
        /\ IdsIn(ring)' = IdsIn(ring) /\ IdsIn(refused)' = IdsIn(refused)
    BY DEF engine, IdsIn, IdsOf
  <2>2. /\ c \notin IdsIn(staged) /\ c \notin IdsOf(kernel) /\ c \notin IdsIn(ring) /\ c \notin IdsIn(refused)
    BY <1>1, <1>4, OnePlace DEF Serving
  <2> QED BY <1>4, <2>1, <2>2 DEF Reads, AtEngine
<1>11. issued' \in Nat /\ Counted' /\ issued > 0
  <2>1. Len(harvest) \in Nat /\ Len(harvest') = Len(harvest) - 1 /\ Len(harvest) > 0
    BY <1>2, <1>3, SeqFacts, TailFacts
  <2>2. Owed \in Nat /\ Owed' = Owed
    <3>1. ring \in Seq(Completion) /\ refused \in Seq(Completion) /\ OneEach(kernel) /\ IdsOf(kernel) \subseteq Chunks
      BY <1>1, Sites DEF TypeOK, EngineType, Serving, Spread, OneRead
    <3>2. Cardinality(kernel) \in Nat
      BY <3>1, Countable, OneCount
    <3>3. Len(ring) \in Nat /\ Len(refused) \in Nat
      BY <3>1, SeqFacts
    <3> QED BY <3>2, <3>3 DEF Owed, engine
  <2>3. issued = Owed + Len(harvest)
    BY <1>1 DEF Serving, Counted
  <2>4. issued' \in Nat /\ issued > 0 /\ issued' = Owed' + Len(harvest')
    BY <1>3, <2>1, <2>2, <2>3
  <2> QED BY <2>4 DEF Counted
<1>12. stalls = 0
  BY <1>1, <1>2, <1>11 DEF Always, StallIsReal, TypeOK, ControlType
<1> QED BY <1>1, <1>4, <1>5, <1>6, <1>7, <1>8, <1>9, <1>10, <1>11, <1>12

(* The excuses of the other completions.                                   *)
LEMMA HarvestRefusals ==
  ASSUME Inv, pc = "harvest", harvest # <<>>, NEW c, c = Done.id, Consume, UNCHANGED engine,
         \A x \in Reads : x # c => tries'[x] = tries[x] /\ StaysDirect(x),
         faults' \in Nat, faults <= faults', late \subseteq late'
  PROVE  Refusals'
<1>1. /\ Serving /\ Always /\ Reads' = Reads \ {c}
      /\ \A i \in DOMAIN harvest' : \E j \in DOMAIN harvest : harvest'[i] = harvest[j]
  BY HarvestHead
<1>2. faults \in Nat
  BY <1>1 DEF Always, TypeOK, ControlType
<1>3. \A x, e : x \in Reads' /\ Excused(x, e) => Excused(x, e)'
  BY <1>1, <1>2, ExcusedKept
<1>4. /\ \A rd \in kernel' : rd.id \in Reads'
      /\ \A i \in DOMAIN ring' : ring'[i].id \in Reads'
      /\ \A i \in DOMAIN refused' : refused'[i].id \in Reads'
      /\ \A i \in DOMAIN harvest' : harvest'[i].id \in Reads'
  BY DEF Reads, AtEngine, IdsIn, IdsOf
<1>5. /\ \A rd \in kernel' : rd.direct => Excused(rd.id, "einval")
      /\ \A i \in DOMAIN ring' : Excused(ring'[i].id, ring'[i].err)
      /\ \A i \in DOMAIN refused' : Excused(refused'[i].id, refused'[i].err)
      /\ \A i \in DOMAIN harvest' : Excused(harvest'[i].id, harvest'[i].err)
  BY <1>1 DEF Serving, Refusals, engine
<1> QED BY <1>3, <1>4, <1>5 DEF Refusals

(* A scratch buffer comes back, if the read bounced.                       *)
LEMMA ScratchFree ==
  ASSUME TypeOK, Pools, NEW c \in Chunks, ScratchBack(c)
  PROVE  /\ bounce' = bounce \ {c} /\ bounce' \subseteq Chunks /\ scratch' \in Nat
         /\ scratch' + Cardinality(bounce') = Depth
<1>1. /\ scratch \in Nat /\ bounce \subseteq Chunks /\ Depth \in Nat
      /\ scratch + Cardinality(bounce) = Depth
  BY DepthAssumption DEF TypeOK, RecordType, Pools
<1>2. Cardinality(bounce) \in Nat
  BY <1>1, Countable
<1>3. bounce' = bounce \ {c} /\ scratch' = IF c \in bounce THEN scratch + 1 ELSE scratch
  BY DEF ScratchBack
<1>4. CASE c \in bounce
  <2>1. Cardinality(bounce') = Cardinality(bounce) - 1 /\ scratch' = scratch + 1
    BY <1>1, <1>3, <1>4, OneChunk
  <2>2. scratch' \in Nat /\ scratch' + Cardinality(bounce') = Depth
    BY <1>1, <1>2, <2>1
  <2> QED BY <1>1, <1>3, <2>2
<1>5. CASE c \notin bounce
  <2>1. bounce' = bounce /\ scratch' = scratch
    BY <1>1, <1>3, <1>5, OneChunk
  <2> QED BY <1>1, <1>3, <2>1
<1> QED BY <1>4, <1>5

(* A read has ended, and its chunk with it.                                *)
LEMMA HarvestEnds ==
  ASSUME Inv, pc = "harvest", harvest # <<>>, NEW c, c = Done.id, NEW r \in Codes,
         Consume, ScratchBack(c), EndChunk(c, r, TRUE, fds),
         holds' \subseteq Chunks, holds \ {c} \subseteq holds', buffers' \in Nat,
         buffers' + Cardinality(holds') + Cardinality(copying') = Depth + CopyDepth,
         UNCHANGED <<engine, up, pending, tries, copying, copiesIssued, copyDone, waiting, flags,
                     pc, ret, back, cur, quota, code, late, taken, stopped, refusals>>,
         left' \in [Chunks -> Nat], faults' \in Nat, faults <= faults',
         landed \subseteq landed', landed' \subseteq Chunks, r = "Success" => c \in landed',
         r = "FileAccessError" => faults' > 0 \/ <<c[1], File(c)>> \in late'
  PROVE  Inv'
<1>1. /\ Serving /\ Always
      /\ c \in Chunks /\ c \in Reads /\ c \in tracked /\ c \in Slots /\ Staging = {}
      /\ c \notin Members(pending) /\ c \notin Members(waiting) /\ c \notin copying /\ c \notin IdsIn(copyDone)
      /\ harvest' \in Seq(Completion) /\ IdsIn(harvest)' = IdsIn(harvest) \ {c} /\ OneIn(harvest)'
      /\ Reads' = Reads \ {c} /\ issued' \in Nat /\ Counted' /\ stalls = 0
  BY HarvestHead
<1>2. TypeOK /\ Control /\ fds \in [DOMAIN Work -> [Files -> Modes]] /\ faults \in Nat
  BY <1>1 DEF Always, TypeOK, TableType, ControlType
<1>3. /\ TableType' /\ live' \subseteq live /\ tracked' = tracked \ {c}
      /\ \A v \in DOMAIN Work, f \in Files : ferr'[v][f] # "Success"
      /\ Answering' /\ Blamed' /\ Remaining'
      /\ \A x \in tracked' : fds'[x[1]] = fds[x[1]]
  <2>1. PICK opened \in [DOMAIN Work -> [Files -> Modes]] : opened = fds
    BY <1>2
  <2>2. \A v \in DOMAIN Work, f \in Files : opened[v][f] = "error" => faults > 0
    BY <1>1, <2>1 DEF Always, Blamed
  <2>3. \A v \in DOMAIN Work, f \in Files : opened[v][f] = "error" => faults' > 0
    BY <1>2, <2>2
  <2>4. live \subseteq 1..taken /\ Answering /\ NoFalseSuccess /\ Blamed /\ Remaining
    BY <1>1 DEF Always, Control
  <2>5. EndChunk(c, r, TRUE, opened) /\ taken' = taken /\ late \subseteq late'
    BY <2>1
  <2>6. /\ TableType' /\ live' \subseteq live /\ tracked' = tracked \ {c}
        /\ \A v \in DOMAIN Work, f \in Files : ferr'[v][f] # "Success"
        /\ Answering' /\ Blamed' /\ Remaining'
        /\ \A x \in tracked' : fds'[x[1]] = opened[x[1]]
    BY <1>1, <1>2, <2>3, <2>4, <2>5, Ends, ZenonT(40)
  <2> QED BY <2>1, <2>6
<1>4. bounce' = bounce \ {c} /\ bounce' \subseteq Chunks /\ scratch' \in Nat
      /\ scratch' + Cardinality(bounce') = Depth
  BY <1>1, <1>2, ScratchFree DEF Always
<1>5. Pools'
  <2>1. copiesIssued' = Cardinality(copying') + Len(copyDone')
    BY <1>1 DEF Always, Pools
  <2> QED BY <1>4, <2>1 DEF Pools
<1>6. NoFalseSuccess'
  BY <1>1, <1>3 DEF Always, NoFalseSuccess
<1>7. /\ Members(pending)' = Members(pending) /\ Members(waiting)' = Members(waiting)
      /\ IdsIn(copyDone)' = IdsIn(copyDone) /\ copying' = copying /\ Staging' = {}
  BY <1>1 DEF Members, IdsIn, Staging
<1>8. Slots' = Slots \ {c}
  BY <1>1, <1>3, <1>7, SlotsAre
<1>9. Credit' /\ credit' \in Nat
  <2>1. Complete
    BY DEF EndChunk
  <2> QED BY <1>1, <1>2, <1>8, <2>1, SlotBack DEF Serving, Quiescing
<1>10. TypeOK'
  <2>1. EngineType'
    BY <1>2 DEF TypeOK, EngineType, engine
  <2>2. QueueType'
    BY <1>2, <1>9 DEF TypeOK, QueueType
  <2>3. tracked' \subseteq Chunks
    BY <1>2, <1>3 DEF TypeOK, RecordType
  <2>4. RecordType'
    BY <1>2, <1>4, <2>3 DEF TypeOK, RecordType
  <2>5. ControlType'
    BY <1>1, <1>2 DEF TypeOK, ControlType, flags
  <2> QED BY <1>3, <2>1, <2>2, <2>4, <2>5 DEF TypeOK
<1>11. Control'
  BY <1>2, <1>3 DEF Control, Quiescing, Resuming, Harvesting, flags
<1>12. StallIsReal'
  BY <1>1 DEF StallIsReal, flags
<1>13. Spread'
  <2>1. OneQueued'
    BY <1>1 DEF Serving, Spread, OneQueued, Distinct, OneIn
  <2>2. OneRead'
    BY <1>1 DEF Serving, Spread, OneRead, OneEach, OneIn, engine
  <2>3. "done" \in Places /\ {} \in SUBSET Chunks
    BY DEF Places
  <2>4. /\ IdsIn(staged)' = IdsIn(staged) /\ IdsOf(kernel)' = IdsOf(kernel)
        /\ IdsIn(ring)' = IdsIn(ring) /\ IdsIn(refused)' = IdsIn(refused)
    BY DEF engine, IdsIn, IdsOf
  <2> QED BY <1>1, <1>2, <1>7, <2>1, <2>2, <2>3, <2>4, Moved DEF Serving
<1>14. Recorded'
  BY <1>1, <1>3, <1>7 DEF Serving, Recorded
<1>15. Bounced'
  BY <1>1, <1>4, <1>7, <1>8 DEF Serving, Bounced
<1>16. Holding'
  BY <1>1 DEF Serving, Holding
<1>17. Refusals'
  <2>1. \A x \in Reads : x # c => x \in tracked'
    BY <1>1, <1>3 DEF Serving, Recorded
  <2>2. \A x \in Reads : x # c => tries'[x] = tries[x] /\ StaysDirect(x)
    BY <1>3, <2>1 DEF StaysDirect
  <2> QED BY <2>2, HarvestRefusals
<1> QED BY <1>1, <1>3, <1>5, <1>6, <1>9, <1>10, <1>11, <1>12, <1>13, <1>14, <1>15, <1>16, <1>17
        DEF Inv, Always, Serving

(* A read is to be done again, or the rest of it.                          *)
LEMMA HarvestRestages ==
  ASSUME Inv, pc = "harvest", harvest # <<>>, NEW c, c = Done.id,
         Consume, ScratchBack(c), Restage(c),
         UNCHANGED <<engine, queue, table, tracked, staging, copyDone, waiting, stalls, dead,
                     engineError, ret, quota, code, world, landed>>,
         left' \in [Chunks -> Nat], tries' \in [Chunks -> Nat], directRefused' \in BOOLEAN,
         fds' \in [DOMAIN Work -> [Files -> Modes]],
         \A v \in DOMAIN Work, f \in Files : fds'[v][f] = "error" => fds[v][f] = "error",
         late \subseteq late', late' \subseteq (DOMAIN Work) \X Files, Refusals'
  PROVE  Inv'
<1>1. /\ Serving /\ Always
      /\ c \in Chunks /\ c \in Reads /\ c \in tracked /\ c \in Slots /\ Staging = {}
      /\ c \notin Members(pending) /\ c \notin Members(waiting) /\ c \notin copying /\ c \notin IdsIn(copyDone)
      /\ harvest' \in Seq(Completion) /\ IdsIn(harvest)' = IdsIn(harvest) \ {c} /\ OneIn(harvest)'
      /\ Reads' = Reads \ {c} /\ issued' \in Nat /\ Counted' /\ stalls = 0
  BY HarvestHead
<1>2. TypeOK /\ Control /\ faults \in Nat /\ faults' = faults
  BY <1>1 DEF Always, TypeOK, ControlType, world
<1>3. bounce' = bounce \ {c} /\ bounce' \subseteq Chunks /\ scratch' \in Nat
      /\ scratch' + Cardinality(bounce') = Depth
  BY <1>1, <1>2, ScratchFree DEF Always
<1>4. Pools'
  <2>1. copiesIssued' = Cardinality(copying') + Len(copyDone')
    BY <1>1 DEF Always, Pools, staging
  <2>2. buffers' + Cardinality(holds') + Cardinality(copying') = Depth + CopyDepth
    BY <1>1 DEF Always, Pools, staging
  <2> QED BY <1>3, <2>1, <2>2 DEF Pools
<1>5. cur' = c /\ back' = "harvest" /\ pc' = "stage"
  BY DEF Restage
<1>6. /\ Members(pending)' = Members(pending) /\ Members(waiting)' = Members(waiting)
      /\ IdsIn(copyDone)' = IdsIn(copyDone) /\ copying' = copying
  BY DEF Members, IdsIn, queue, staging
<1>7. Staging' = {c}
  BY <1>1, <1>5 DEF Staging
<1>8. Slots' = Slots
  BY <1>6, SlotsAre
<1>9. TypeOK'
  <2>1. EngineType'
    BY <1>2 DEF TypeOK, EngineType, engine
  <2>2. QueueType'
    BY <1>2 DEF TypeOK, QueueType, queue
  <2>3. TableType'
    BY <1>2 DEF TypeOK, TableType, table
  <2>4. RecordType'
    BY <1>2, <1>3 DEF TypeOK, RecordType, staging
  <2>5. ControlType'
    BY <1>1, <1>2, <1>5 DEF TypeOK, ControlType, Pcs, world
  <2> QED BY <2>1, <2>2, <2>3, <2>4, <2>5 DEF TypeOK
<1>10. Control'
  BY <1>1, <1>2, <1>5 DEF Control, Quiescing, Resuming, Harvesting, table, world, staging, queue
<1>11. Answering' /\ NoFalseSuccess' /\ Remaining'
  BY <1>1, AnsweringSame, NoFalseSame, RemainingSame DEF Always, table, world
<1>12. Blamed'
  <2>1. \A v \in DOMAIN Work, f \in Files : fds'[v][f] = "error" => faults' > 0
    BY <1>1, <1>2 DEF Always, Blamed
  <2>2. answer' = answer /\ ferr' = ferr
    BY DEF table
  <2> QED BY <1>1, <1>2, <2>1, <2>2 DEF Always, Blamed, RefusalForgiven
<1>13. StallIsReal'
  BY <1>1 DEF StallIsReal
<1>14. Spread'
  <2>1. OneQueued'
    BY <1>1 DEF Serving, Spread, OneQueued, Distinct, OneIn, queue
  <2>2. OneRead'
    BY <1>1 DEF Serving, Spread, OneRead, OneEach, OneIn, engine
  <2>3. "stage" \in Places /\ {c} \in SUBSET Chunks
    BY <1>1 DEF Places
  <2>4. /\ IdsIn(staged)' = IdsIn(staged) /\ IdsOf(kernel)' = IdsOf(kernel)
        /\ IdsIn(ring)' = IdsIn(ring) /\ IdsIn(refused)' = IdsIn(refused)
    BY DEF engine, IdsIn, IdsOf
  <2>5. /\ Members(pending)' \cap {c} = {} /\ Members(waiting)' \cap {c} = {}
        /\ copying' \cap {c} = {} /\ IdsIn(copyDone)' \cap {c} = {}
    BY <1>1, <1>6
  <2>6. /\ IdsIn(staged)' \cap {c} = {} /\ IdsOf(kernel)' \cap {c} = {} /\ IdsIn(ring)' \cap {c} = {}
        /\ IdsIn(refused)' \cap {c} = {} /\ IdsIn(harvest)' \cap {c} = {}
    BY <1>1 DEF Reads, AtEngine
  <2> QED BY <1>1, <1>2, <1>6, <1>7, <2>1, <2>2, <2>3, <2>4, <2>5, <2>6, Moved DEF Serving
<1>15. Recorded'
  BY <1>1, <1>6, <1>7 DEF Serving, Recorded
<1>16. Credit'
  BY <1>1, <1>5, <1>8 DEF Serving, Credit, Quiescing, queue
<1>17. Bounced'
  BY <1>1, <1>3, <1>6, <1>7, <1>8 DEF Serving, Bounced
<1>18. Holding'
  BY <1>1 DEF Serving, Holding, staging
<1> QED BY <1>1, <1>4, <1>9, <1>10, <1>11, <1>12, <1>13, <1>14, <1>15, <1>16, <1>17, <1>18
        DEF Inv, Always, Serving

-----------------------------------------------------------------------------
(* A chunk's bytes go to the device, and its slot comes back.              *)
LEMMA HarvestCopies ==
  ASSUME Inv, pc = "harvest", harvest # <<>>, NEW c, c = Done.id, IsDevice(c),
         Consume, ScratchBack(c), Complete,
         copying' = copying \cup {c}, copiesIssued' = copiesIssued + 1, holds' = holds \ {c},
         UNCHANGED <<engine, up, pending, tries, copyDone, waiting, flags, pc, ret, back, cur, quota,
                     code, late, world, buffers, tracked, ferr, remaining, answer, live, fds, landed>>,
         left' \in [Chunks -> Nat]
  PROVE  Inv'
<1>1. /\ Serving /\ Always
      /\ c \in Chunks /\ c \in Reads /\ c \in tracked /\ c \in Slots /\ Staging = {}
      /\ c \notin Members(pending) /\ c \notin Members(waiting) /\ c \notin copying /\ c \notin IdsIn(copyDone)
      /\ harvest' \in Seq(Completion) /\ IdsIn(harvest)' = IdsIn(harvest) \ {c} /\ OneIn(harvest)'
      /\ Reads' = Reads \ {c} /\ issued' \in Nat /\ Counted' /\ stalls = 0
  BY HarvestHead
<1>2. TypeOK /\ Control /\ faults \in Nat /\ faults' = faults /\ taken' = taken
  BY <1>1 DEF Always, TypeOK, ControlType, world
<1>3. bounce' = bounce \ {c} /\ bounce' \subseteq Chunks /\ scratch' \in Nat
      /\ scratch' + Cardinality(bounce') = Depth
  BY <1>1, <1>2, ScratchFree DEF Always
<1>4. c \in holds
  BY <1>1 DEF Serving, Holding
<1>5. Pools' /\ holds' \subseteq Chunks /\ copying' \subseteq Chunks /\ copiesIssued' \in Nat
  <2>1. /\ holds \subseteq Chunks /\ copying \subseteq Chunks /\ buffers \in Nat /\ Depth \in Nat
        /\ CopyDepth \in Nat /\ copyDone \in Seq(CopyReport)
        /\ buffers + Cardinality(holds) + Cardinality(copying) = Depth + CopyDepth
        /\ copiesIssued = Cardinality(copying) + Len(copyDone)
    BY <1>1, <1>2, DepthAssumption, BoundsAssumption DEF TypeOK, RecordType, Always, Pools
  <2>2. Cardinality(holds) \in Nat /\ Cardinality(copying) \in Nat /\ Len(copyDone) \in Nat
    BY <2>1, Countable, SeqFacts
  <2>3. Cardinality(holds') = Cardinality(holds) - 1 /\ Cardinality(copying') = Cardinality(copying) + 1
    BY <1>1, <1>4, <2>1, OneChunk
  <2>4. buffers' + Cardinality(holds') + Cardinality(copying') = Depth + CopyDepth
    BY <2>1, <2>2, <2>3
  <2>5. copiesIssued' = Cardinality(copying') + Len(copyDone') /\ copiesIssued' \in Nat
    BY <2>1, <2>2, <2>3
  <2> QED BY <1>1, <1>3, <2>1, <2>4, <2>5 DEF Pools
<1>6. /\ Members(pending)' = Members(pending) /\ Members(waiting)' = Members(waiting)
      /\ IdsIn(copyDone)' = IdsIn(copyDone) /\ Staging' = {}
  BY <1>1 DEF Members, IdsIn, Staging
<1>7. Slots' = Slots \ {c}
  BY <1>1, <1>6, SlotsAre
<1>8. Credit' /\ credit' \in Nat
  BY <1>1, <1>2, <1>7, SlotBack DEF Serving, Quiescing
<1>9. TypeOK'
  <2>1. EngineType'
    BY <1>2 DEF TypeOK, EngineType, engine
  <2>2. QueueType'
    BY <1>2, <1>8 DEF TypeOK, QueueType
  <2>3. TableType'
    BY <1>2 DEF TypeOK, TableType
  <2>4. RecordType'
    BY <1>2, <1>3, <1>5 DEF TypeOK, RecordType
  <2>5. ControlType'
    BY <1>1, <1>2 DEF TypeOK, ControlType, flags, world
  <2> QED BY <2>1, <2>2, <2>3, <2>4, <2>5 DEF TypeOK
<1>10. Control'
  BY <1>2 DEF Control, Quiescing, Resuming, Harvesting, flags
<1>11. Answering' /\ NoFalseSuccess' /\ Remaining' /\ Blamed'
  BY <1>1, <1>2, AnsweringSame, NoFalseSame, RemainingSame, BlamedSame DEF Always
<1>12. StallIsReal'
  BY <1>1 DEF StallIsReal, flags
<1>13. Spread'
  <2>1. OneQueued'
    BY <1>1 DEF Serving, Spread, OneQueued, Distinct, OneIn
  <2>2. OneRead'
    BY <1>1 DEF Serving, Spread, OneRead, OneEach, OneIn, engine
  <2>3. "copying" \in Places /\ {c} \in SUBSET Chunks
    BY <1>1 DEF Places
  <2>4. /\ IdsIn(staged)' = IdsIn(staged) /\ IdsOf(kernel)' = IdsOf(kernel)
        /\ IdsIn(ring)' = IdsIn(ring) /\ IdsIn(refused)' = IdsIn(refused)
    BY DEF engine, IdsIn, IdsOf
  <2>5. /\ Members(pending)' \cap {c} = {} /\ Members(waiting)' \cap {c} = {}
        /\ Staging' \cap {c} = {} /\ IdsIn(copyDone)' \cap {c} = {}
    BY <1>1, <1>6
  <2>6. /\ IdsIn(staged)' \cap {c} = {} /\ IdsOf(kernel)' \cap {c} = {} /\ IdsIn(ring)' \cap {c} = {}
        /\ IdsIn(refused)' \cap {c} = {} /\ IdsIn(harvest)' \cap {c} = {}
    BY <1>1 DEF Reads, AtEngine
  <2> QED BY <1>1, <1>2, <1>6, <2>1, <2>2, <2>3, <2>4, <2>5, <2>6, Moved DEF Serving
<1>14. Recorded'
  BY <1>1, <1>6 DEF Serving, Recorded
<1>15. Bounced'
  BY <1>1, <1>3, <1>6, <1>7 DEF Serving, Bounced
<1>16. Holding'
  BY <1>1 DEF Serving, Holding
<1>17. Refusals'
  <2>1. \A x \in Reads : x # c => tries'[x] = tries[x] /\ StaysDirect(x)
    BY DEF StaysDirect
  <2> QED BY <1>2, <2>1, HarvestRefusals
<1> QED BY <1>1, <1>5, <1>8, <1>9, <1>10, <1>11, <1>12, <1>13, <1>14, <1>15, <1>16, <1>17
        DEF Inv, Always, Serving

(* A chunk's record of what is owed, one read later.                       *)
LEMMA LeftLess ==
  ASSUME TypeOK, NEW c \in Chunks, NEW n \in Nat, n <= left[c], left' = [left EXCEPT ![c] = @ - n]
  PROVE  left' \in [Chunks -> Nat]
<1>1. left \in [Chunks -> Nat]
  BY DEF TypeOK, RecordType
<1>2. left[c] - n \in Nat
  BY <1>1
<1> QED BY <1>1, <1>2

(* A read that transferred.                                                *)
LEMMA HarvestReadStep ==
  ASSUME Inv, HarvestRead
  PROVE  Inv'
<1>1. PICK c : c = Done.id
  OBVIOUS
<1>2. /\ pc = "harvest" /\ harvest # <<>> /\ Consume /\ ScratchBack(c)
      /\ left' = [left EXCEPT ![c] = @ - Done.got]
      /\ UNCHANGED <<engine, up, pending, tries, copyDone, waiting, flags, ret, quota, code, late>>
  BY <1>1 DEF HarvestRead
<1>3. \/ /\ Done.got = left[c]
         /\ LandChunk(c)
         /\ landed' = IF IsDevice(c) THEN landed ELSE landed \cup {c}
         /\ UNCHANGED <<pc, cur, back>>
      \/ /\ Done.got = 0
         /\ FailChunk(c, "EofError")
         /\ UNCHANGED <<pc, cur, back, landed, world>>
      \/ /\ Done.got \in 1..(left[c] - 1)
         /\ Restage(c)
         /\ UNCHANGED <<tracked, credit, table, fds, staging, landed, world>>
  BY <1>1 DEF HarvestRead
<1>4. Serving /\ Always /\ TypeOK /\ Done \in Completion /\ c \in Chunks /\ c \in tracked
  BY <1>1, <1>2, HarvestHead DEF Always
<1>5. Done.got \in Nat /\ left[c] \in Nat /\ faults \in Nat /\ landed \subseteq Chunks /\ holds \subseteq Chunks
      /\ Pools /\ buffers \in Nat
  BY <1>4, RecordIds DEF TypeOK, RecordType, ControlType, Always
<1>6. left' \in [Chunks -> Nat]
  <2>1. Done.got <= left[c]
    BY <1>3, <1>5
  <2> QED BY <1>2, <1>4, <1>5, <2>1, LeftLess
<1>7. ASSUME NEW r \in {"EofError", "DeviceTransferError"}, FailChunk(c, r), UNCHANGED <<pc, cur, back, landed>>,
             UNCHANGED world \/ Fault
      PROVE  Inv'
  <2>1. EndChunk(c, r, TRUE, fds) /\ GiveBuffer(c) /\ UNCHANGED <<copying, copiesIssued>>
    BY <1>7 DEF FailChunk
  <2>2. holds' = holds \ {c} /\ holds' \subseteq Chunks /\ buffers' \in Nat
        /\ buffers' + Cardinality(holds') + Cardinality(copying') = Depth + CopyDepth
    BY <1>4, <1>5, <2>1, BufferBack
  <2>3. faults' \in Nat /\ faults <= faults' /\ UNCHANGED <<taken, stopped, refusals>>
    BY <1>5, <1>7 DEF world, Fault
  <2>4. r \in Codes /\ r # "Success" /\ r # "FileAccessError"
    BY <1>7 DEF Codes
  <2> QED BY <1>1, <1>2, <1>5, <1>6, <1>7, <2>1, <2>2, <2>3, <2>4, HarvestEnds
<1>8. CASE /\ Done.got = left[c]
           /\ LandChunk(c)
           /\ landed' = IF IsDevice(c) THEN landed ELSE landed \cup {c}
           /\ UNCHANGED <<pc, cur, back>>
  <2>1. CASE ~IsDevice(c) /\ EndChunk(c, "Success", TRUE, fds) /\ UNCHANGED <<staging, world>>
    <3>1. landed' = landed \cup {c} /\ landed' \subseteq Chunks
      BY <1>4, <1>5, <1>8, <2>1
    <3>2. UNCHANGED <<holds, buffers, copying, copiesIssued>> /\ UNCHANGED <<taken, stopped, refusals, faults>>
      BY <2>1 DEF staging, world
    <3>3. buffers' + Cardinality(holds') + Cardinality(copying') = Depth + CopyDepth
      BY <1>5, <3>2 DEF Pools
    <3>4. "Success" \in Codes /\ holds' \subseteq Chunks /\ buffers' \in Nat /\ faults' \in Nat /\ faults <= faults'
      BY <1>5, <3>2 DEF Codes
    <3>5. c \in landed' /\ landed \subseteq landed' /\ holds \ {c} \subseteq holds' /\ "Success" # "FileAccessError"
      BY <3>1, <3>2
    <3>6. EndChunk(c, "Success", TRUE, fds)
      BY <2>1
    <3>7. UNCHANGED <<engine, up, pending, tries, copying, copiesIssued, copyDone, waiting, flags,
                      pc, ret, back, cur, quota, code, late, taken, stopped, refusals>>
      BY <1>2, <1>8, <3>2
    <3> QED BY <1>1, <1>2, <1>6, <3>1, <3>3, <3>4, <3>5, <3>6, <3>7, HarvestEnds
  <2>2. CASE /\ IsDevice(c)
             /\ copying' = copying \cup {c} /\ copiesIssued' = copiesIssued + 1
             /\ holds' = holds \ {c}
             /\ Complete
             /\ UNCHANGED <<buffers, tracked, ferr, remaining, answer, live, fds, world>>
    <3>1. landed' = landed
      BY <1>8, <2>2
    <3> QED BY <1>1, <1>2, <1>6, <1>8, <2>2, <3>1, HarvestCopies
  <2>3. CASE IsDevice(c) /\ Fault /\ FailChunk(c, "DeviceTransferError")
    BY <1>7, <1>8, <2>3
  <2> QED BY <1>8, <2>1, <2>2, <2>3 DEF LandChunk
<1>9. CASE Done.got = 0 /\ FailChunk(c, "EofError") /\ UNCHANGED <<pc, cur, back, landed, world>>
  BY <1>7, <1>9
<1>10. CASE /\ Done.got \in 1..(left[c] - 1)
            /\ Restage(c)
            /\ UNCHANGED <<tracked, credit, table, fds, staging, landed, world>>
  <2>1. /\ tries' \in [Chunks -> Nat] /\ directRefused' \in BOOLEAN /\ fds' \in [DOMAIN Work -> [Files -> Modes]]
        /\ late' \subseteq (DOMAIN Work) \X Files
    BY <1>2, <1>4, <1>10 DEF TypeOK, RecordType, ControlType, TableType, flags
  <2>2. Refusals'
    <3>1. \A x \in Reads : x # c => tries'[x] = tries[x] /\ StaysDirect(x)
      BY <1>2, <1>10 DEF StaysDirect
    <3> QED BY <1>1, <1>2, <1>5, <1>10, <3>1, HarvestRefusals DEF world
  <2> QED BY <1>1, <1>2, <1>6, <1>10, <2>1, <2>2, HarvestRestages DEF queue, flags
<1> QED BY <1>3, <1>8, <1>9, <1>10

(* An interrupted read is tried again.                                     *)
LEMMA HarvestTransientStep ==
  ASSUME Inv, HarvestTransient
  PROVE  Inv'
<1>1. PICK c : c = Done.id
  OBVIOUS
<1>2. /\ pc = "harvest" /\ harvest # <<>> /\ Consume /\ ScratchBack(c) /\ Restage(c)
      /\ tries' = [tries EXCEPT ![c] = @ + 1]
      /\ UNCHANGED <<engine, queue, table, fds, tracked, left, staging, copyDone, waiting, flags,
                     ret, quota, code, world, landed, late>>
  BY <1>1 DEF HarvestTransient
<1>3. Serving /\ Always /\ TypeOK /\ c \in Chunks
  BY <1>1, <1>2, HarvestHead DEF Always
<1>4. /\ tries \in [Chunks -> Nat] /\ left \in [Chunks -> Nat] /\ faults \in Nat
      /\ directRefused' \in BOOLEAN /\ fds' \in [DOMAIN Work -> [Files -> Modes]]
      /\ late' \subseteq (DOMAIN Work) \X Files
  BY <1>2, <1>3 DEF TypeOK, RecordType, ControlType, TableType, flags
<1>5. tries' \in [Chunks -> Nat] /\ \A x : x # c => tries'[x] = tries[x]
  BY <1>2, <1>3, <1>4
<1>6. Refusals'
  <2>1. \A x \in Reads : x # c => tries'[x] = tries[x] /\ StaysDirect(x)
    BY <1>2, <1>5 DEF StaysDirect
  <2> QED BY <1>1, <1>2, <1>4, <2>1, HarvestRefusals DEF world
<1> QED BY <1>1, <1>2, <1>4, <1>5, <1>6, HarvestRestages DEF flags

(* A failed read is the end of its chunk.                                  *)
LEMMA HarvestFailedStep ==
  ASSUME Inv, HarvestFailed
  PROVE  Inv'
<1>1. PICK c : c = Done.id
  OBVIOUS
<1>2. /\ pc = "harvest" /\ harvest # <<>> /\ Consume /\ ScratchBack(c) /\ FailChunk(c, "FileAccessError")
      /\ \/ Done.err = "error"
         \/ Done.err = "eintr" /\ tries[c] >= MaxTransient
         \/ Done.err = "einval" /\ fds[c[1]][File(c)] # "direct"
      /\ UNCHANGED <<engine, up, pending, left, tries, copyDone, waiting, flags, pc, ret, back, cur,
                     quota, code, world, landed, late>>
  BY <1>1 DEF HarvestFailed
<1>3. Serving /\ Always /\ TypeOK /\ c \in Chunks /\ Excused(c, Done.err)
  BY <1>1, <1>2, HarvestHead DEF Always
<1>4. /\ tries[c] \in Nat /\ MaxTransient \in Nat /\ left \in [Chunks -> Nat] /\ faults \in Nat
      /\ landed \subseteq Chunks /\ Pools
  BY <1>3, BoundsAssumption DEF TypeOK, RecordType, ControlType, Always
<1>5. faults > 0 \/ <<c[1], File(c)>> \in late
  BY <1>2, <1>3, <1>4 DEF Excused
<1>6. EndChunk(c, "FileAccessError", TRUE, fds) /\ GiveBuffer(c) /\ UNCHANGED <<copying, copiesIssued>>
  BY <1>2 DEF FailChunk
<1>7. holds' = holds \ {c} /\ holds' \subseteq Chunks /\ buffers' \in Nat
      /\ buffers' + Cardinality(holds') + Cardinality(copying') = Depth + CopyDepth
  BY <1>3, <1>4, <1>6, BufferBack
<1>8. faults' = faults /\ UNCHANGED <<taken, stopped, refusals>> /\ left' = left
  BY <1>2 DEF world
<1>9. "FileAccessError" \in Codes /\ "FileAccessError" # "Success"
  BY DEF Codes
<1>10. /\ left' \in [Chunks -> Nat] /\ faults' \in Nat /\ faults <= faults' /\ landed \subseteq landed'
       /\ landed' \subseteq Chunks /\ holds \ {c} \subseteq holds'
       /\ faults' > 0 \/ <<c[1], File(c)>> \in late'
  BY <1>2, <1>4, <1>5, <1>7, <1>8
<1>11. UNCHANGED <<engine, up, pending, tries, copying, copiesIssued, copyDone, waiting, flags,
                   pc, ret, back, cur, quota, code, late, taken, stopped, refusals>>
  BY <1>2, <1>6, <1>8
<1> QED BY <1>1, <1>2, <1>6, <1>7, <1>9, <1>10, <1>11, HarvestEnds

-----------------------------------------------------------------------------
(* A refused direct read demotes its file, or fails with it.               *)
LEMMA HarvestRefusedStep ==
  ASSUME Inv, HarvestRefused
  PROVE  Inv'
<1>1. PICK c : c = Done.id
  OBVIOUS
<1>2. /\ pc = "harvest" /\ harvest # <<>> /\ Consume /\ ScratchBack(c)
      /\ UNCHANGED <<engine, up, pending, left, tries, copyDone, waiting, stalls, dead, engineError,
                     ret, quota, code, landed>>
  BY <1>1 DEF HarvestRefused
<1>3. PICK b : b = <<c[1], File(c)>>
  OBVIOUS
<1>4. \/ /\ fds' = [fds EXCEPT ![c[1]][File(c)] = "buffered"]
         /\ directRefused' = TRUE
         /\ late' = IF AtKernel(b) THEN late \cup {b} ELSE late
         /\ Restage(c)
         /\ UNCHANGED <<tracked, credit, table, staging, world>>
      \/ /\ Fault
         /\ FailChunk(c, "FileAccessError")
         /\ UNCHANGED <<pc, cur, back, directRefused, late>>
  BY <1>1, <1>3 DEF HarvestRefused
<1>5. Serving /\ Always /\ TypeOK /\ c \in Chunks
  BY <1>1, <1>2, HarvestHead DEF Always
<1>6. /\ tries \in [Chunks -> Nat] /\ left \in [Chunks -> Nat] /\ faults \in Nat
      /\ landed \subseteq Chunks /\ fds \in [DOMAIN Work -> [Files -> Modes]]
      /\ late \subseteq (DOMAIN Work) \X Files /\ Pools
  BY <1>5 DEF TypeOK, RecordType, ControlType, TableType, Always
<1>7. c[1] \in DOMAIN Work /\ File(c) \in Files /\ b \in (DOMAIN Work) \X Files
  BY <1>3, <1>5, ChunkFacts
<1>8. CASE /\ fds' = [fds EXCEPT ![c[1]][File(c)] = "buffered"]
           /\ directRefused' = TRUE
           /\ late' = IF AtKernel(b) THEN late \cup {b} ELSE late
           /\ Restage(c)
           /\ UNCHANGED <<tracked, credit, table, staging, world>>
  <2>1. directRefused' \in BOOLEAN
    BY <1>8, Zenon
  <2>2. late \subseteq late' /\ late' \subseteq (DOMAIN Work) \X Files /\ (AtKernel(b) => b \in late')
    BY <1>6, <1>7, <1>8
  <2>3. /\ fds' \in [DOMAIN Work -> [Files -> Modes]]
        /\ \A v \in DOMAIN Work, f \in Files :
             fds'[v][f] = IF v = c[1] /\ f = File(c) THEN "buffered" ELSE fds[v][f]
    BY <1>6, <1>7, <1>8 DEF Modes
  <2>4. \A v \in DOMAIN Work, f \in Files : fds'[v][f] = "error" => fds[v][f] = "error"
    BY <2>3
  <2>5. ASSUME NEW x \in Chunks, NEW e, Excused(x, e), e = "einval" => (<<x[1], File(x)>> = b => AtKernel(b))
        PROVE  Excused(x, e)'
    <3>1. x[1] \in DOMAIN Work /\ File(x) \in Files
      BY ChunkFacts
    <3>2. e = "einval" => fds'[x[1]][File(x)] = "direct" \/ <<x[1], File(x)>> \in late'
      <4> SUFFICES ASSUME e = "einval" PROVE fds'[x[1]][File(x)] = "direct" \/ <<x[1], File(x)>> \in late'
        OBVIOUS
      <4>1. fds[x[1]][File(x)] = "direct" \/ <<x[1], File(x)>> \in late
        BY <2>5 DEF Excused
      <4>2. CASE <<x[1], File(x)>> = b
        BY <2>2, <2>5, <4>2
      <4>3. CASE <<x[1], File(x)>> # b
        BY <1>3, <2>2, <2>3, <3>1, <4>1, <4>3
      <4> QED BY <4>2, <4>3
    <3>3. faults' = faults /\ tries' = tries
      BY <1>2, <1>8 DEF world
    <3> QED BY <2>5, <3>2, <3>3 DEF Excused
  <2>6. /\ harvest' = Tail(harvest) /\ UNCHANGED <<kernel, ring, refused>>
    BY <1>2 DEF Consume, engine
  <2>7. /\ \A rd \in kernel : rd.id \in Chunks
        /\ \A i \in DOMAIN ring : ring[i].id \in Chunks
        /\ \A i \in DOMAIN refused : refused[i].id \in Chunks
        /\ \A i \in DOMAIN Tail(harvest) :
             Tail(harvest)[i].id \in Chunks /\ Excused(Tail(harvest)[i].id, Tail(harvest)[i].err)
    <3>1. IdsOf(kernel) \subseteq Chunks /\ IdsIn(ring) \subseteq Chunks /\ IdsIn(refused) \subseteq Chunks
          /\ IdsIn(harvest) \subseteq Chunks
      BY <1>5, Sites
    <3>2. \A i \in DOMAIN harvest' : \E j \in DOMAIN harvest : harvest'[i] = harvest[j]
      BY <1>1, <1>2, HarvestHead
    <3>3. \A j \in DOMAIN harvest : harvest[j].id \in Chunks /\ Excused(harvest[j].id, harvest[j].err)
      BY <1>5, <3>1 DEF IdsIn, Serving, Refusals
    <3>4. \A i \in DOMAIN Tail(harvest) :
             Tail(harvest)[i].id \in Chunks /\ Excused(Tail(harvest)[i].id, Tail(harvest)[i].err)
      BY <2>6, <3>2, <3>3
    <3> QED BY <3>1, <3>4 DEF IdsOf, IdsIn
  <2>8. \A rd \in kernel' : rd.direct =>
          /\ rd.id \in Chunks /\ Excused(rd.id, "einval")
          /\ <<rd.id[1], File(rd.id)>> = b => AtKernel(b)
    BY <1>5, <2>6, <2>7 DEF AtKernel, Serving, Refusals
  <2>9. \A i \in DOMAIN ring' :
          /\ ring'[i].id \in Chunks /\ Excused(ring'[i].id, ring'[i].err)
          /\ ring'[i].err = "einval" => (<<ring'[i].id[1], File(ring'[i].id)>> = b => AtKernel(b))
    BY <1>5, <2>6, <2>7 DEF AtKernel, Serving, Refusals
  <2>10. \A i \in DOMAIN refused' :
           /\ refused'[i].id \in Chunks /\ Excused(refused'[i].id, refused'[i].err)
           /\ refused'[i].err = "einval" => (<<refused'[i].id[1], File(refused'[i].id)>> = b => AtKernel(b))
    BY <1>5, <2>6, <2>7 DEF AtKernel, Serving, Refusals
  <2>11. \A i \in DOMAIN harvest' :
           /\ harvest'[i].id \in Chunks /\ Excused(harvest'[i].id, harvest'[i].err)
           /\ harvest'[i].err = "einval" => (<<harvest'[i].id[1], File(harvest'[i].id)>> = b => AtKernel(b))
    BY <2>6, <2>7 DEF AtKernel
  <2>12. Refusals'
    <3>1. (\A rd \in kernel : rd.direct => Excused(rd.id, "einval"))'
      BY <2>5, <2>8
    <3>2. (\A i \in DOMAIN ring : Excused(ring[i].id, ring[i].err))'
      BY <2>5, <2>9
    <3>3. (\A i \in DOMAIN refused : Excused(refused[i].id, refused[i].err))'
      BY <2>5, <2>10
    <3>4. (\A i \in DOMAIN harvest : Excused(harvest[i].id, harvest[i].err))'
      BY <2>5, <2>11
    <3> QED BY <3>1, <3>2, <3>3, <3>4 DEF Refusals
  <2>13. tries' \in [Chunks -> Nat] /\ left' \in [Chunks -> Nat]
    BY <1>2, <1>6
  <2>14. UNCHANGED <<engine, queue, table, tracked, staging, copyDone, waiting, stalls, dead,
                     engineError, ret, quota, code, world, landed>>
    BY <1>2, <1>8 DEF queue
  <2>15. Restage(c)
    BY <1>8
  <2> QED BY <1>1, <1>2, <2>1, <2>2, <2>3, <2>4, <2>12, <2>13, <2>14, <2>15, HarvestRestages
<1>9. CASE Fault /\ FailChunk(c, "FileAccessError") /\ UNCHANGED <<pc, cur, back, directRefused, late>>
  <2>1. EndChunk(c, "FileAccessError", TRUE, fds) /\ GiveBuffer(c) /\ UNCHANGED <<copying, copiesIssued>>
    BY <1>9 DEF FailChunk
  <2>2. holds' = holds \ {c} /\ holds' \subseteq Chunks /\ buffers' \in Nat
        /\ buffers' + Cardinality(holds') + Cardinality(copying') = Depth + CopyDepth
    BY <1>5, <1>6, <2>1, BufferBack
  <2>3. faults' = faults + 1 /\ UNCHANGED <<taken, stopped, refusals>>
    BY <1>9 DEF Fault
  <2>4. "FileAccessError" \in Codes /\ "FileAccessError" # "Success"
    BY DEF Codes
  <2>5. /\ left' \in [Chunks -> Nat] /\ faults' \in Nat /\ faults <= faults' /\ landed \subseteq landed'
        /\ landed' \subseteq Chunks /\ holds \ {c} \subseteq holds' /\ faults' > 0
    BY <1>2, <1>6, <2>2, <2>3
  <2>6. UNCHANGED <<engine, up, pending, tries, copying, copiesIssued, copyDone, waiting, flags,
                    pc, ret, back, cur, quota, code, late, taken, stopped, refusals>>
    BY <1>2, <1>9, <2>1, <2>3 DEF flags
  <2> QED BY <1>1, <1>2, <2>1, <2>2, <2>4, <2>5, <2>6, HarvestEnds
<1> QED BY <1>4, <1>8, <1>9

-----------------------------------------------------------------------------
(* The engine's counts.                                                    *)
LEMMA OwedNat ==
  ASSUME TypeOK, Spread
  PROVE  /\ Cardinality(kernel) \in Nat /\ Len(ring) \in Nat /\ Len(refused) \in Nat /\ Owed \in Nat
         /\ IsFiniteSet(kernel) /\ Cardinality(kernel) = Cardinality(IdsOf(kernel))
         /\ Len(harvest) \in Nat /\ issued \in Nat
<1>1. /\ ring \in Seq(Completion) /\ refused \in Seq(Completion) /\ harvest \in Seq(Completion)
      /\ OneEach(kernel) /\ IdsOf(kernel) \subseteq Chunks /\ issued \in Nat
  BY Sites DEF TypeOK, EngineType, ControlType, Spread, OneRead
<1>2. Cardinality(kernel) \in Nat /\ IsFiniteSet(kernel) /\ Cardinality(kernel) = Cardinality(IdsOf(kernel))
  BY <1>1, Countable, OneCount
<1>3. Len(ring) \in Nat /\ Len(refused) \in Nat /\ Len(harvest) \in Nat
  BY <1>1, SeqFacts
<1> QED BY <1>1, <1>2, <1>3 DEF Owed

(* What the engine has to give is taken as the harvest.                    *)
LEMMA WaitStep ==
  ASSUME Inv, Wait, ~ReapFails
  PROVE  Inv'
<1>1. /\ pc = "wait" /\ ~broken /\ harvest' = Reaped /\ pc' = "harvest" /\ UNCHANGED code
      /\ refused' = <<>> /\ ring' = (IF refused # <<>> THEN ring ELSE <<>>)
      /\ UNCHANGED <<staged, kernel, broken>>
      /\ UNCHANGED <<queue, table, fds, record, staging, copyDone, waiting, issued, flags,
                     ret, back, cur, quota, world, landed, late>>
  BY DEF Wait, Reap
<1>2. Serving /\ TypeOK /\ Control /\ Always
  BY <1>1 DEF Inv, Always, GivenUp
<1>3. harvest = <<>> /\ Staging = {} /\ Staging' = {}
  BY <1>1, <1>2 DEF Control, Harvesting, Staging
<1>4. /\ ring \in Seq(Completion) /\ refused \in Seq(Completion) /\ <<>> \in Seq(Completion)
      /\ faults \in Nat /\ faults' = faults /\ OneIn(ring) /\ OneIn(refused)
  BY <1>1, <1>2 DEF TypeOK, EngineType, ControlType, world, Serving, Spread, OneRead
<1>5. PICK k : k = IF refused # <<>> THEN refused ELSE ring
  OBVIOUS
<1>6. PICK rest : rest = IF refused # <<>> THEN ring ELSE <<>>
  OBVIOUS
<1>7. harvest' = k /\ ring' = rest
  BY <1>1, <1>5, <1>6 DEF Reaped
<1>8. /\ k \in Seq(Completion) /\ rest \in Seq(Completion) /\ OneIn(k) /\ OneIn(rest)
      /\ IdsIn(rest) \subseteq IdsIn(ring) /\ IdsIn(rest) \cap IdsIn(k) = {}
      /\ IdsIn(k) \cup IdsIn(rest) = IdsIn(ring) \cup IdsIn(refused)
      /\ Len(k) + Len(rest) = Len(ring) + Len(refused)
  <2>1. Len(ring) \in Nat /\ Len(refused) \in Nat /\ Len(<<>>) = 0
    BY <1>4, SeqFacts
  <2>2. IdsIn(ring) \cap IdsIn(refused) = {} /\ IdsIn(<<>>) = {} /\ OneIn(<<>>)
    BY <1>2, OnePlace, IdsNone DEF Serving
  <2>3. CASE refused # <<>>
    <3>1. k = refused /\ rest = ring
      BY <1>5, <1>6, <2>3
    <3> QED BY <1>4, <2>1, <2>2, <3>1
  <2>4. CASE refused = <<>>
    <3>1. k = ring /\ rest = <<>> /\ Len(refused) = 0 /\ IdsIn(refused) = {}
      BY <1>5, <1>6, <2>2, <2>4, <2>1
    <3> QED BY <1>4, <2>1, <2>2, <3>1
  <2> QED BY <2>3, <2>4
<1>9. /\ IdsIn(harvest)' = IdsIn(k) /\ OneIn(harvest)' /\ IdsIn(ring)' = IdsIn(rest) /\ OneIn(ring)'
      /\ IdsIn(refused)' = {} /\ OneIn(refused)' /\ IdsIn(harvest) = {}
  BY <1>1, <1>3, <1>7, <1>8, IdsNone DEF IdsIn, OneIn
<1>10. /\ Members(pending)' = Members(pending) /\ Members(waiting)' = Members(waiting)
       /\ IdsIn(copyDone)' = IdsIn(copyDone) /\ copying' = copying /\ tracked' = tracked
       /\ IdsOf(kernel)' = IdsOf(kernel) /\ IdsIn(staged)' = IdsIn(staged)
  BY <1>1 DEF Members, IdsIn, IdsOf, queue, staging, record
<1>11. Reads' = Reads
  BY <1>8, <1>9, <1>10 DEF Reads, AtEngine
<1>12. TypeOK'
  <2>1. EngineType'
    BY <1>1, <1>2, <1>4, <1>7, <1>8 DEF TypeOK, EngineType
  <2>2. QueueType' /\ TableType' /\ RecordType'
    BY <1>1, <1>2 DEF TypeOK, QueueType, TableType, RecordType, queue, table, record, staging
  <2>3. ControlType'
    BY <1>1, <1>2, <1>7, <1>8 DEF TypeOK, ControlType, Pcs, flags, world
  <2> QED BY <2>1, <2>2, <2>3 DEF TypeOK
<1>13. Control'
  BY <1>1, <1>2 DEF Control, Quiescing, Resuming, Harvesting, table, flags, world, staging, queue
<1>14. Pools' /\ Answering' /\ NoFalseSuccess' /\ Remaining' /\ Blamed'
  BY <1>1, <1>2, <1>4, PoolsSame, AnsweringSame, NoFalseSame, RemainingSame, BlamedSame
     DEF Always, record, staging, table, world
<1>15. /\ Owed \in Nat /\ Owed' \in Nat /\ Owed = Owed' + Len(k) /\ Len(k) \in Nat
  <2>1. Cardinality(kernel) \in Nat /\ Len(ring) \in Nat /\ Len(refused) \in Nat /\ Owed \in Nat
    BY <1>2, OwedNat DEF Serving
  <2>2. Len(k) \in Nat /\ Len(rest) \in Nat /\ Len(<<>>) = 0
    BY <1>8, SeqFacts
  <2>3. Owed = Cardinality(kernel) + Len(ring) + Len(refused)
    BY DEF Owed
  <2>4. Owed' = Cardinality(kernel) + Len(rest) + 0
    BY <1>1, <1>7, <2>2 DEF Owed
  <2> QED BY <1>8, <2>1, <2>2, <2>3, <2>4, SMTT(30)
<1>16. Counted'
  <2>1. issued = Owed + 0
    BY <1>2, <1>3 DEF Serving, Counted
  <2>2. issued' = Owed' + Len(harvest')
    BY <1>1, <1>7, <1>15, <2>1
  <2> QED BY <2>2 DEF Counted
<1>17. StallIsReal'
  <2>1. stalls' = stalls /\ issued' = issued
    BY <1>1 DEF flags
  <2>2. Owed = 0 => Owed' = 0
    BY <1>15
  <2> QED BY <1>2, <2>1, <2>2 DEF Always, StallIsReal
<1>18. Spread'
  <2>1. OneQueued'
    BY <1>1, <1>2 DEF Serving, Spread, OneQueued, Distinct, OneIn, queue
  <2>2. OneRead'
    BY <1>1, <1>2, <1>9 DEF Serving, Spread, OneRead, OneEach, OneIn
  <2>3. "harvest" \in Places /\ IdsIn(k) \in SUBSET Chunks
    BY <1>8, <1>2, Sites DEF Places
  <2>4. IdsIn(k) \subseteq Reads /\ IdsIn(k) \subseteq IdsIn(ring) \cup IdsIn(refused)
    BY <1>8 DEF Reads, AtEngine
  <2>5. /\ Members(pending)' \cap IdsIn(k) = {} /\ Members(waiting)' \cap IdsIn(k) = {}
        /\ copying' \cap IdsIn(k) = {} /\ IdsIn(copyDone)' \cap IdsIn(k) = {}
    BY <1>2, <1>10, <2>4, OnePlace DEF Serving
  <2>6. IdsIn(staged)' \cap IdsIn(k) = {} /\ IdsOf(kernel)' \cap IdsIn(k) = {}
    BY <1>2, <1>10, <2>4, OnePlace DEF Serving
  <2>7. PICK C : C = IdsIn(k)
    OBVIOUS
  <2> QED BY <1>2, <1>3, <1>8, <1>9, <1>10, <2>1, <2>2, <2>3, <2>5, <2>6, <2>7, Moved DEF Serving
<1>19. Recorded'
  BY <1>2, <1>3, <1>10, <1>11 DEF Serving, Recorded
<1>20. Credit' /\ Bounced'
  BY <1>1, <1>2, <1>3, CreditSame, BouncedSame DEF Serving, Quiescing, queue, staging, record
<1>21. Holding'
  BY <1>1, <1>2, <1>11, HoldingSame DEF Serving, staging
<1>22. Refusals'
  <2>1. \A c, e : Excused(c, e) => Excused(c, e)'
    BY <1>1, <1>4, ExcusedSame DEF record
  <2>2. /\ \A i \in DOMAIN k : Excused(k[i].id, k[i].err)
        /\ \A i \in DOMAIN rest : Excused(rest[i].id, rest[i].err)
    BY <1>2, <1>5, <1>6 DEF Serving, Refusals
  <2>3. DOMAIN refused' = {}
    BY <1>1
  <2>4. /\ \A i \in DOMAIN ring' : Excused(ring'[i].id, ring'[i].err)
        /\ \A i \in DOMAIN harvest' : Excused(harvest'[i].id, harvest'[i].err)
        /\ \A rd \in kernel' : rd.direct => Excused(rd.id, "einval")
    BY <1>1, <1>2, <1>7, <2>2 DEF Serving, Refusals
  <2> QED BY <2>1, <2>3, <2>4 DEF Refusals
<1> QED BY <1>12, <1>13, <1>14, <1>16, <1>17, <1>18, <1>19, <1>20, <1>21, <1>22 DEF Inv, Always, Serving

-----------------------------------------------------------------------------
(* There are finitely many reads the kernel could have.                    *)
LEMMA EntriesFinite == IsFiniteSet(Entry)
<1> DEFINE f == [x \in Chunks \X BOOLEAN |-> [id |-> x[1], direct |-> x[2]]]
<1>1. IsFiniteSet(BOOLEAN)
  <2>1. BOOLEAN = {TRUE, FALSE}
    BY Zenon
  <2>2. IsFiniteSet({FALSE}) /\ IsFiniteSet({TRUE} \cup {FALSE})
    BY FS_Singleton, FS_AddElement, FS_Union
  <2>3. {TRUE} \cup {FALSE} = {TRUE, FALSE}
    BY Zenon
  <2> QED BY <2>1, <2>2, <2>3
<1>2. IsFiniteSet(Chunks \X BOOLEAN)
  BY <1>1, ChunksFinite, FS_Product
<1>3. f \in Surjection(Chunks \X BOOLEAN, Entry)
  <2>1. f \in [Chunks \X BOOLEAN -> Entry]
    BY DEF Entry
  <2>2. ASSUME NEW e \in Entry PROVE \E x \in Chunks \X BOOLEAN : f[x] = e
    <3>1. e.id \in Chunks /\ e.direct \in BOOLEAN /\ e = [id |-> e.id, direct |-> e.direct]
      BY DEF Entry
    <3>2. <<e.id, e.direct>> \in Chunks \X BOOLEAN /\ f[<<e.id, e.direct>>] = e
      BY <3>1
    <3> QED BY <3>2
  <2> QED BY <2>1, <2>2, Fun_IsSurj
<1> QED BY <1>2, <1>3, FS_Surjection

(* A read at the kernel is owed.                                           *)
LEMMA KernelOwes ==
  ASSUME TypeOK, NEW rd \in kernel
  PROVE  /\ IsFiniteSet(kernel) /\ Cardinality(kernel) \in Nat \ {0} /\ Owed \in Nat /\ Owed > 0
         /\ Cardinality(kernel \ {rd}) = Cardinality(kernel) - 1
<1>1. kernel \subseteq Entry /\ ring \in Seq(Completion) /\ refused \in Seq(Completion)
  BY DEF TypeOK, EngineType
<1>2. IsFiniteSet(kernel) /\ Cardinality(kernel) \in Nat
  BY <1>1, EntriesFinite, FS_Subset, FS_CardinalityType
<1>3. Cardinality(kernel) # 0 /\ Cardinality(kernel \ {rd}) = Cardinality(kernel) - 1
  BY <1>2, FS_EmptySet, FS_RemoveElement
<1>4. Len(ring) \in Nat /\ Len(refused) \in Nat
  BY <1>1, SeqFacts
<1> QED BY <1>2, <1>3, <1>4 DEF Owed

(* A completion the kernel posts.                                          *)
Posted(rd, k) ==
  /\ k \in Completion /\ k.id = rd.id /\ Post(rd, k)
  /\ k.err = "error" => faults' > 0
  /\ k.err = "eintr" => tries[rd.id] < MaxTransient \/ faults' > 0
  /\ k.err = "einval" => rd.direct

(* The kernel posts one of the completions a read can have.                *)
LEMMA PostedOne ==
  ASSUME TypeOK, NEW rd \in kernel, ReadEnds(rd)
  PROVE  /\ \E k : Posted(rd, k)
         /\ faults' \in Nat /\ faults <= faults' /\ refusals' \in Nat /\ UNCHANGED <<taken, stopped>>
<1>1. rd.id \in Chunks /\ faults \in Nat /\ refusals \in Nat /\ left \in [Chunks -> Nat]
  BY RecordIds DEF TypeOK, EngineType, ControlType, RecordType
<1>2. \A n \in Nat : Result(rd.id, n) \in Completion /\ Result(rd.id, n).id = rd.id /\ Result(rd.id, n).err = "none"
  BY <1>1 DEF Result, Completion
<1>3. \A e \in {"eintr", "einval", "error"} :
        Failure(rd.id, e) \in Completion /\ Failure(rd.id, e).id = rd.id /\ Failure(rd.id, e).err = e
  BY <1>1 DEF Failure, Completion
<1>4. Wanted(rd.id) \in Nat
  BY <1>1 DEF Wanted
<1>5. CASE \E n \in 1..Wanted(rd.id) : Post(rd, Result(rd.id, n)) /\ UNCHANGED world
  <2>1. PICK n \in 1..Wanted(rd.id) : Post(rd, Result(rd.id, n)) /\ UNCHANGED world
    BY <1>5
  <2>2. n \in Nat
    BY <1>4
  <2>3. Posted(rd, Result(rd.id, n))
    BY <1>2, <2>1, <2>2 DEF Posted
  <2> QED BY <1>1, <2>1, <2>3 DEF world
<1>6. CASE Post(rd, Result(rd.id, 0)) /\ Fault
  <2>1. Posted(rd, Result(rd.id, 0))
    BY <1>2, <1>6 DEF Posted
  <2> QED BY <1>1, <1>6, <2>1 DEF Fault
<1>7. CASE Post(rd, Failure(rd.id, "error")) /\ Fault
  <2>1. faults' = faults + 1 /\ UNCHANGED <<taken, stopped, refusals>>
    BY <1>7 DEF Fault
  <2>2. Posted(rd, Failure(rd.id, "error"))
    BY <1>1, <1>3, <1>7, <2>1 DEF Posted
  <2> QED BY <1>1, <2>1, <2>2
<1>8. CASE /\ Post(rd, Failure(rd.id, "eintr"))
           /\ \/ tries[rd.id] < MaxTransient /\ UNCHANGED world
              \/ tries[rd.id] >= MaxTransient /\ Fault
  <2>1. /\ faults' \in Nat /\ faults <= faults' /\ refusals' \in Nat /\ UNCHANGED <<taken, stopped>>
        /\ tries[rd.id] < MaxTransient \/ faults' > 0
    BY <1>1, <1>8 DEF Fault, world
  <2>2. Posted(rd, Failure(rd.id, "eintr"))
    BY <1>3, <1>8, <2>1 DEF Posted
  <2> QED BY <2>1, <2>2
<1>9. CASE /\ rd.direct /\ refusals < MaxRefusals /\ refusals' = refusals + 1
           /\ Post(rd, Failure(rd.id, "einval"))
           /\ UNCHANGED <<taken, stopped, faults>>
  <2>1. Posted(rd, Failure(rd.id, "einval"))
    BY <1>3, <1>9 DEF Posted
  <2>2. faults' \in Nat /\ faults <= faults' /\ refusals' \in Nat
    BY <1>1, <1>9
  <2> QED BY <1>9, <2>1, <2>2
<1> QED BY <1>5, <1>6, <1>7, <1>8, <1>9 DEF ReadEnds

(* The kernel ends a read.                                                 *)
LEMMA ReadEndsStep ==
  ASSUME Inv, NEW rd \in kernel, ReadEnds(rd)
  PROVE  Inv'
<1>1. TypeOK /\ Always /\ Control
  BY DEF Inv, Always
<1>2. PICK k : Posted(rd, k)
  BY <1>1, PostedOne
<1>3. /\ faults \in Nat /\ faults' \in Nat /\ faults <= faults' /\ refusals' \in Nat
      /\ UNCHANGED <<taken, stopped>>
  BY <1>1, PostedOne DEF TypeOK, ControlType
<1>4. /\ k \in Completion /\ k.id = rd.id /\ kernel' = kernel \ {rd} /\ ring' = Append(ring, k)
      /\ UNCHANGED <<staged, refused, broken>>
  BY <1>2 DEF Posted, Post
<1>5. UNCHANGED <<queue, table, fds, record, staging, copyDone, waiting, issued, flags, control,
                  landed, late>>
  BY DEF ReadEnds
<1>6. /\ kernel \subseteq Entry /\ ring \in Seq(Completion) /\ ring' \in Seq(Completion)
      /\ Len(ring') = Len(ring) + 1 /\ Len(ring) \in Nat /\ refused \in Seq(Completion)
  <2>1. kernel \subseteq Entry /\ ring \in Seq(Completion) /\ refused \in Seq(Completion)
    BY <1>1 DEF TypeOK, EngineType
  <2> QED BY <1>4, <2>1, IdsAppend, AppendLen
<1>7. Owed' = Owed /\ Owed > 0
  <2>1. /\ Cardinality(kernel) \in Nat \ {0} /\ Owed > 0
        /\ Cardinality(kernel \ {rd}) = Cardinality(kernel) - 1
    BY <1>1, KernelOwes
  <2>2. Len(refused) \in Nat
    BY <1>6, SeqFacts
  <2>3. Owed = Cardinality(kernel) + Len(ring) + Len(refused)
    BY DEF Owed
  <2>4. Owed' = (Cardinality(kernel) - 1) + (Len(ring) + 1) + Len(refused)
    BY <1>4, <1>6, <2>1 DEF Owed
  <2> QED BY <1>6, <2>1, <2>2, <2>3, <2>4
<1>8. TypeOK'
  <2>1. EngineType'
    BY <1>1, <1>4, <1>6 DEF TypeOK, EngineType
  <2>2. QueueType' /\ TableType' /\ RecordType'
    BY <1>1, <1>5 DEF TypeOK, QueueType, TableType, RecordType, queue, table, record, staging
  <2>3. ControlType'
    BY <1>1, <1>3, <1>5 DEF TypeOK, ControlType, flags, control
  <2> QED BY <2>1, <2>2, <2>3 DEF TypeOK
<1>9. Control'
  BY <1>1, <1>3, <1>5 DEF Control, Quiescing, Resuming, Harvesting, table, flags, control, staging, queue
<1>10. Pools' /\ Answering' /\ NoFalseSuccess' /\ Remaining' /\ Blamed'
  BY <1>1, <1>3, <1>5, PoolsSame, AnsweringSame, NoFalseSame, RemainingSame, BlamedSame
     DEF Always, record, staging, table
<1>11. StallIsReal'
  BY <1>1, <1>5, <1>7 DEF Always, StallIsReal, flags
<1>12. ASSUME GivenUp PROVE GivenUp'
  <2>1. broken
    BY <1>7, <1>12 DEF GivenUp
  <2> QED BY <1>3, <1>4, <1>5, <1>12, <2>1 DEF GivenUp, record, table, queue, staging, flags, control
<1>13. ASSUME Serving PROVE Serving'
  <2>1. PICK c : c = rd.id
    OBVIOUS
  <2>2. OneEach(kernel) /\ OneIn(ring) /\ c \in IdsOf(kernel)
    BY <1>13, <2>1 DEF Serving, Spread, OneRead, IdsOf
  <2>3. /\ c \notin IdsIn(staged) /\ c \notin IdsIn(ring) /\ c \notin IdsIn(refused) /\ c \notin IdsIn(harvest)
        /\ c \in Reads /\ c \in Chunks
    BY <1>1, <1>13, <2>2, OnePlace, Sites DEF Serving, Reads, AtEngine
  <2>4. /\ c \notin Members(pending) /\ c \notin Members(waiting) /\ c \notin Staging /\ c \notin copying
        /\ c \notin IdsIn(copyDone)
    BY <1>13, <2>3, OnePlace DEF Serving
  <2>5. IdsOf(kernel)' = IdsOf(kernel) \ {c} /\ OneEach(kernel)'
    <3>1. PICK q : q = kernel \ {rd}
      OBVIOUS
    <3>2. IdsOf(q) = IdsOf(kernel) \ {c} /\ OneEach(q)
      BY <2>1, <2>2, <3>1, OneLess
    <3> QED BY <1>4, <3>1, <3>2 DEF IdsOf, OneEach
  <2>6. /\ IdsIn(ring)' = IdsIn(ring) \cup {c} /\ OneIn(ring)'
        /\ \A i \in DOMAIN ring' : ring'[i] = k \/ \E j \in DOMAIN ring : ring'[i] = ring[j]
    <3>1. PICK q : q = Append(ring, k)
      OBVIOUS
    <3>2. /\ IdsIn(q) = IdsIn(ring) \cup {c} /\ OneIn(q)
          /\ \A i \in DOMAIN q : q[i] = k \/ \E j \in DOMAIN ring : q[i] = ring[j]
      BY <1>4, <1>6, <2>1, <2>2, <2>3, <3>1, IdsAppend
    <3> QED BY <1>4, <3>1, <3>2 DEF IdsIn, OneIn
  <2>7. /\ Members(pending)' = Members(pending) /\ Members(waiting)' = Members(waiting) /\ Staging' = Staging
        /\ IdsIn(copyDone)' = IdsIn(copyDone) /\ copying' = copying /\ tracked' = tracked
        /\ IdsIn(staged)' = IdsIn(staged) /\ IdsIn(refused)' = IdsIn(refused) /\ IdsIn(harvest)' = IdsIn(harvest)
    BY <1>4, <1>5 DEF Members, IdsIn, Staging, queue, staging, record, control
  <2>8. Reads' = Reads
    BY <2>2, <2>5, <2>6, <2>7 DEF Reads, AtEngine
  <2>9. Spread'
    <3>1. OneQueued'
      BY <1>5, <1>13 DEF Serving, Spread, OneQueued, Distinct, OneIn, queue
    <3>2. OneRead'
      BY <1>4, <1>5, <1>13, <2>5, <2>6 DEF Serving, Spread, OneRead, OneIn, control
    <3>3. "ring" \in Places /\ {c} \in SUBSET Chunks
      BY <2>3 DEF Places
    <3>4. /\ Members(pending)' \cap {c} = {} /\ Members(waiting)' \cap {c} = {} /\ Staging' \cap {c} = {}
          /\ copying' \cap {c} = {} /\ IdsIn(copyDone)' \cap {c} = {}
      BY <2>4, <2>7
    <3>5. /\ IdsIn(staged)' \cap {c} = {} /\ IdsOf(kernel)' \cap {c} = {}
          /\ IdsIn(refused)' \cap {c} = {} /\ IdsIn(harvest)' \cap {c} = {}
      BY <2>3, <2>5, <2>7
    <3> QED BY <1>1, <1>13, <2>5, <2>6, <2>7, <3>1, <3>2, <3>3, <3>4, <3>5, Moved DEF Serving
  <2>10. Recorded'
    BY <1>13, <2>7, <2>8 DEF Serving, Recorded
  <2>11. Credit' /\ Bounced'
    BY <1>5, <1>13, <2>7, CreditSame, BouncedSame DEF Serving, Quiescing, queue, staging, record, control
  <2>12. Holding'
    BY <1>5, <1>13, <2>8, HoldingSame DEF Serving, staging
  <2>13. Counted'
    BY <1>5, <1>7, <1>13 DEF Serving, Counted, control
  <2>14. Refusals'
    <3>1. \A x, e : Excused(x, e) => Excused(x, e)'
      BY <1>3, <1>5, ExcusedSame DEF record
    <3>2. Excused(k.id, k.err)'
      <4>1. k.err = "einval" => Excused(c, "einval")
        BY <1>2, <1>13, <2>1 DEF Posted, Serving, Refusals
      <4>2. k.err = "einval" => Excused(c, "einval")'
        BY <3>1, <4>1
      <4>3. tries' = tries
        BY <1>5 DEF record
      <4> QED BY <1>2, <1>4, <2>1, <4>2, <4>3 DEF Posted, Excused
    <3>3. (\A x \in kernel : x.direct => Excused(x.id, "einval"))'
      BY <1>4, <1>13, <3>1 DEF Serving, Refusals
    <3>4. (\A i \in DOMAIN ring : Excused(ring[i].id, ring[i].err))'
      BY <1>13, <2>6, <3>1, <3>2 DEF Serving, Refusals
    <3>5. (\A i \in DOMAIN refused : Excused(refused[i].id, refused[i].err))'
      BY <1>4, <1>13, <3>1 DEF Serving, Refusals
    <3>6. (\A i \in DOMAIN harvest : Excused(harvest[i].id, harvest[i].err))'
      BY <1>5, <1>13, <3>1 DEF Serving, Refusals, control
    <3> QED BY <3>3, <3>4, <3>5, <3>6 DEF Refusals
  <2> QED BY <2>9, <2>10, <2>11, <2>12, <2>13, <2>14 DEF Serving
<1> QED BY <1>8, <1>9, <1>10, <1>11, <1>12, <1>13 DEF Inv, Always

-----------------------------------------------------------------------------
(* A copy ends, and is reported.                                           *)
LEMMA CopyEndsStep ==
  ASSUME Inv, NEW c \in copying, CopyEnds(c)
  PROVE  Inv'
<1>1. /\ copying' = copying \ {c} /\ buffers' = buffers + 1
      /\ UNCHANGED <<engine, queue, table, fds, record, holds, copiesIssued, waiting, issued, flags,
                     control, late>>
  BY DEF CopyEnds
<1>2. TypeOK /\ Always /\ Control
  BY DEF Inv, Always
<1>3. /\ copying \subseteq Chunks /\ c \in Chunks /\ holds \subseteq Chunks /\ buffers \in Nat
      /\ copyDone \in Seq(CopyReport) /\ landed \subseteq Chunks /\ faults \in Nat /\ refusals \in Nat
      /\ Depth \in Nat /\ CopyDepth \in Nat
  BY <1>2, DepthAssumption, BoundsAssumption DEF TypeOK, RecordType, ControlType
<1>4. PICK k \in CopyReport :
        /\ copyDone' = Append(copyDone, k) /\ k.id = c /\ (k.ret = "Success" => c \in landed')
        /\ landed \subseteq landed' /\ landed' \subseteq Chunks
        /\ faults' \in Nat /\ faults <= faults' /\ UNCHANGED <<taken, stopped, refusals>>
  <2>1. \A e \in {"Success", "DeviceDriverError"} :
          [id |-> c, ret |-> e] \in CopyReport /\ [id |-> c, ret |-> e].id = c /\ [id |-> c, ret |-> e].ret = e
    BY <1>3 DEF CopyReport
  <2>2. CASE /\ copyDone' = Append(copyDone, [id |-> c, ret |-> "Success"])
             /\ landed' = landed \cup {c} /\ UNCHANGED world
    <3>1. PICK k \in CopyReport : k = [id |-> c, ret |-> "Success"] /\ k.id = c
      BY <2>1
    <3> QED BY <1>3, <2>2, <3>1 DEF world
  <2>3. CASE /\ copyDone' = Append(copyDone, [id |-> c, ret |-> "DeviceDriverError"])
             /\ Fault /\ UNCHANGED landed
    <3>1. PICK k \in CopyReport : k = [id |-> c, ret |-> "DeviceDriverError"] /\ k.id = c
                                  /\ k.ret = "DeviceDriverError"
      BY <2>1
    <3>2. faults' = faults + 1 /\ UNCHANGED <<taken, stopped, refusals>>
      BY <2>3 DEF Fault
    <3>3. faults' \in Nat /\ faults <= faults'
      BY <1>3, <3>2
    <3> QED BY <1>3, <2>3, <3>1, <3>2, <3>3
  <2> QED BY <2>2, <2>3 DEF CopyEnds
<1>5. /\ Cardinality(copying) \in Nat /\ Cardinality(copying) > 0
      /\ Cardinality(copying') = Cardinality(copying) - 1
      /\ Cardinality(holds) \in Nat /\ Len(copyDone) \in Nat /\ Len(copyDone') = Len(copyDone) + 1
      /\ copyDone' \in Seq(CopyReport)
  <2>1. Cardinality(copying) \in Nat /\ Cardinality(holds) \in Nat
    BY <1>3, Countable
  <2>2. Cardinality(copying) > 0 /\ Cardinality(copying') = Cardinality(copying) - 1
    BY <1>1, <1>3, OneChunk
  <2>3. Len(copyDone) \in Nat /\ Len(copyDone') = Len(copyDone) + 1 /\ copyDone' \in Seq(CopyReport)
    BY <1>3, <1>4, AppendLen, IdsAppend
  <2> QED BY <2>1, <2>2, <2>3
<1>6. Serving
  <2>1. copiesIssued # 0
    BY <1>2, <1>5 DEF Always, Pools
  <2> QED BY <2>1 DEF Inv, GivenUp
<1>7. Pools'
  <2>1. scratch' + Cardinality(bounce') = Depth
    BY <1>1, <1>2 DEF Always, Pools, record
  <2>2. buffers' + Cardinality(holds') + Cardinality(copying') = Depth + CopyDepth
    <3>1. buffers + Cardinality(holds) + Cardinality(copying) = Depth + CopyDepth
      BY <1>2 DEF Always, Pools
    <3>2. holds' = holds
      BY <1>1
    <3> QED BY <1>1, <1>3, <1>5, <3>1, <3>2
  <2>3. copiesIssued' = Cardinality(copying') + Len(copyDone')
    <3>1. copiesIssued = Cardinality(copying) + Len(copyDone)
      BY <1>2 DEF Always, Pools
    <3> QED BY <1>1, <1>5, <3>1
  <2> QED BY <2>1, <2>2, <2>3 DEF Pools
<1>8. /\ c \notin IdsIn(copyDone) /\ c \notin Members(pending) /\ c \notin Members(waiting)
      /\ c \notin Staging /\ c \notin Reads /\ c \in tracked
  BY <1>6, OnePlace DEF Serving, Recorded
<1>9. /\ IdsIn(copyDone)' = IdsIn(copyDone) \cup {c} /\ OneIn(copyDone)'
      /\ \A i \in DOMAIN copyDone' : copyDone'[i] = k \/ \E j \in DOMAIN copyDone : copyDone'[i] = copyDone[j]
  <2>1. PICK q : q = Append(copyDone, k)
    OBVIOUS
  <2>2. OneIn(copyDone)
    BY <1>6 DEF Serving, Spread, OneQueued
  <2>3. /\ IdsIn(q) = IdsIn(copyDone) \cup {c} /\ OneIn(q)
        /\ \A i \in DOMAIN q : q[i] = k \/ \E j \in DOMAIN copyDone : q[i] = copyDone[j]
    BY <1>3, <1>4, <1>8, <2>1, <2>2, IdsAppend
  <2> QED BY <1>4, <2>1, <2>3 DEF IdsIn, OneIn
<1>10. TypeOK'
  <2>1. EngineType' /\ QueueType' /\ TableType'
    BY <1>1, <1>2 DEF TypeOK, EngineType, QueueType, TableType, engine, queue, table
  <2>2. RecordType'
    BY <1>1, <1>2, <1>3, <1>4, <1>5 DEF TypeOK, RecordType, record
  <2>3. ControlType'
    BY <1>1, <1>2, <1>4 DEF TypeOK, ControlType, flags, control
  <2> QED BY <2>1, <2>2, <2>3 DEF TypeOK
<1>11. Control'
  BY <1>1, <1>2, <1>4 DEF Control, Quiescing, Resuming, Harvesting, table, flags, control, queue
<1>12. Answering' /\ Remaining' /\ Blamed'
  BY <1>1, <1>2, <1>3, <1>4, AnsweringSame, RemainingSame, BlamedSame DEF Always, record, table
<1>13. NoFalseSuccess'
  <2>1. \A i \in DOMAIN copyDone' : copyDone'[i].ret = "Success" => copyDone'[i].id \in landed'
    BY <1>2, <1>4, <1>9 DEF Always, NoFalseSuccess
  <2> QED BY <1>1, <1>2, <2>1 DEF Always, NoFalseSuccess, table
<1>14. StallIsReal'
  BY <1>1, <1>2, StallSame DEF Always, engine, flags
<1>15. /\ Members(pending)' = Members(pending) /\ Members(waiting)' = Members(waiting) /\ Staging' = Staging
       /\ Reads' = Reads /\ tracked' = tracked
  BY <1>1, ReadsSame DEF Members, Staging, queue, record, control, engine
<1>16. Spread'
  <2>1. OneQueued'
    BY <1>1, <1>6, <1>9 DEF Serving, Spread, OneQueued, Distinct, queue
  <2>2. "done" \in Places /\ {c} \in SUBSET Chunks
    BY <1>3 DEF Places
  <2>3. /\ Members(pending)' \cap {c} = {} /\ Members(waiting)' \cap {c} = {} /\ Staging' \cap {c} = {}
        /\ copying' \cap {c} = {} /\ {c} \cap Reads = {}
    BY <1>1, <1>8, <1>15
  <2> QED BY <1>1, <1>2, <1>6, <1>9, <1>15, <2>1, <2>2, <2>3, MovedInside DEF Serving, engine, control
<1>17. Recorded'
  BY <1>1, <1>6, <1>8, <1>9, <1>15 DEF Serving, Recorded
<1>18. Slots' = Slots
  BY <1>1, <1>9, <1>15, SlotsAre
<1>19. Credit'
  BY <1>1, <1>6, <1>18 DEF Serving, Credit, Quiescing, control, queue
<1>20. Bounced'
  BY <1>1, <1>6, <1>15, <1>18 DEF Serving, Bounced, record
<1>21. Holding'
  BY <1>1, <1>6, <1>15, HoldingSame DEF Serving
<1>22. Counted'
  BY <1>1, <1>6, CountedSame DEF Serving, engine, control
<1>23. Refusals'
  BY <1>1, <1>3, <1>4, <1>6, RefusalsSame DEF Serving, engine, record, control
<1> QED BY <1>7, <1>10, <1>11, <1>12, <1>13, <1>14, <1>16, <1>17, <1>19, <1>20, <1>21, <1>22, <1>23
        DEF Inv, Always, Serving

(* The ring or the context is lost.                                        *)
LEMMA EngineBreaksStep ==
  ASSUME Inv, EngineBreaks
  PROVE  Inv'
<1>1. /\ broken' = TRUE /\ faults' = faults + 1 /\ UNCHANGED <<taken, stopped, refusals>>
      /\ UNCHANGED <<staged, kernel, ring, refused>>
      /\ UNCHANGED <<queue, table, fds, record, staging, copyDone, waiting, issued, flags, control,
                     landed, late>>
  BY DEF EngineBreaks, Break, Fault
<1>2. TypeOK /\ Always /\ Control /\ faults \in Nat
  BY DEF Inv, Always, TypeOK, ControlType
<1>3. faults' \in Nat /\ faults <= faults'
  BY <1>1, <1>2
<1>4. broken' \in BOOLEAN
  BY <1>1, Zenon
<1>5. TypeOK'
  <2>1. EngineType'
    BY <1>1, <1>2, <1>4 DEF TypeOK, EngineType
  <2>2. QueueType' /\ TableType' /\ RecordType'
    BY <1>1, <1>2 DEF TypeOK, QueueType, TableType, RecordType, queue, table, record, staging
  <2>3. ControlType'
    BY <1>1, <1>2, <1>3 DEF TypeOK, ControlType, flags, control
  <2> QED BY <2>1, <2>2, <2>3 DEF TypeOK
<1>6. Control'
  BY <1>1, <1>2 DEF Control, Quiescing, Resuming, Harvesting, table, flags, control, staging, queue
<1>7. Pools' /\ Answering' /\ NoFalseSuccess' /\ Remaining' /\ Blamed'
  BY <1>1, <1>2, <1>3, PoolsSame, AnsweringSame, NoFalseSame, RemainingSame, BlamedSame
     DEF Always, record, staging, table
<1>8. StallIsReal'
  BY <1>1, <1>2, StallSame DEF Always, flags
<1>9. ASSUME GivenUp PROVE GivenUp'
  BY <1>1, <1>9 DEF GivenUp, record, table, queue, staging, flags, control
<1>10. ASSUME Serving PROVE Serving'
  <2>1. Staging' \subseteq Staging
    BY <1>1 DEF Staging, control
  <2>2. Spread' /\ Recorded'
    BY <1>1, <1>10, <2>1, SpreadSame, RecordedSame DEF Serving, seats, queue, staging, record, control
  <2>3. Credit' /\ Bounced'
    BY <1>1, <1>10, <2>1, CreditSame, BouncedSame DEF Serving, queue, staging, record, control, Quiescing
  <2>4. Holding' /\ Counted'
    BY <1>1, <1>10, ReadsSame, HoldingSame, CountedSame DEF Serving, staging, control
  <2>5. Refusals'
    BY <1>1, <1>2, <1>3, <1>10, RefusalsSame DEF Serving, record, control
  <2> QED BY <2>2, <2>3, <2>4, <2>5 DEF Serving
<1> QED BY <1>5, <1>6, <1>7, <1>8, <1>9, <1>10 DEF Inv, Always

-----------------------------------------------------------------------------
(* The queue is emptied, and the engine is not used again.                 *)
LEMMA AbortStep ==
  ASSUME Inv, Abort
  PROVE  Inv'
<1>1. /\ pc = "abort" /\ dead' = (dead \/ code # "FinishedError")
      /\ engineError' = (IF code # "FinishedError" /\ ~dead THEN code ELSE engineError)
      /\ pending' = <<>> /\ credit' = 0 /\ pc' = "quiesceCopies"
      /\ UNCHANGED <<engine, up, table, fds, record, staging, copyDone, waiting, issued, stalls,
                     directRefused, ret, back, cur, harvest, quota, code, world, landed, late>>
  BY DEF Abort
<1>2. TypeOK /\ Always /\ Control /\ Serving
  BY <1>1 DEF Inv, Always, GivenUp
<1>3. /\ code # None /\ (code = "FinishedError" => stopped) /\ code \in {None, "FinishedError", "FsAsyncEngineError"}
      /\ engineError \in {None, "FsAsyncEngineError"} /\ (dead => engineError # None)
      /\ faults \in Nat /\ faults' = faults /\ UNCHANGED <<taken, stopped>>
  BY <1>1, <1>2 DEF Control, TypeOK, ControlType, world
<1>4. dead' \in BOOLEAN
  BY <1>1, Zenon
<1>5. engineError' \in {None, "FsAsyncEngineError"} /\ (dead' => engineError' # None) /\ (dead' \/ stopped')
  BY <1>1, <1>3
<1>6. <<>> \in Seq(Chunks) /\ Members(pending)' = {} /\ Distinct(pending)'
  BY <1>1, MembersNone DEF Members, Distinct
<1>7. TypeOK'
  <2>1. EngineType' /\ TableType' /\ RecordType'
    BY <1>1, <1>2 DEF TypeOK, EngineType, TableType, RecordType, engine, table, record, staging
  <2>2. QueueType'
    BY <1>1, <1>2, <1>6 DEF TypeOK, QueueType
  <2>3. ControlType'
    BY <1>1, <1>2, <1>4, <1>5 DEF TypeOK, ControlType, Pcs, world
  <2> QED BY <2>1, <2>2, <2>3 DEF TypeOK
<1>8. Control'
  BY <1>1, <1>2, <1>3, <1>5 DEF Control, Quiescing, Resuming, Harvesting, table, staging
<1>9. Pools' /\ Answering' /\ NoFalseSuccess' /\ Remaining' /\ Blamed' /\ StallIsReal'
  BY <1>1, <1>2, <1>3, PoolsSame, AnsweringSame, NoFalseSame, RemainingSame, BlamedSame, StallSame
     DEF Always, record, staging, table, engine
<1>10. /\ Members(waiting)' = Members(waiting) /\ Staging' = {} /\ Reads' = Reads /\ tracked' = tracked
       /\ IdsIn(copyDone)' = IdsIn(copyDone) /\ copying' = copying
  BY <1>1, ReadsSame DEF Members, IdsIn, Staging, staging, record, engine
<1>11. Spread'
  <2>1. OneQueued'
    BY <1>1, <1>2, <1>6 DEF Serving, Spread, OneQueued, Distinct, OneIn
  <2>2. "pending" \in Places /\ {} \in SUBSET Chunks
    BY DEF Places
  <2> QED BY <1>1, <1>2, <1>6, <1>10, <2>1, <2>2, MovedInside DEF Serving, engine
<1>12. Recorded'
  BY <1>2, <1>6, <1>10 DEF Serving, Recorded
<1>13. Credit'
  <2>1. Quiescing' /\ 0 <= Depth
    BY <1>1, DepthAssumption DEF Quiescing
  <2> QED BY <1>1, <2>1 DEF Credit
<1>14. Slots \subseteq Slots'
  BY <1>6, <1>10, SlotsAre
<1>15. Bounced'
  BY <1>1, <1>2, <1>10, <1>14 DEF Serving, Bounced, record
<1>16. Holding' /\ Counted'
  BY <1>1, <1>2, <1>10, HoldingSame, CountedSame DEF Serving, engine, staging
<1>17. Refusals'
  BY <1>1, <1>2, <1>3, RefusalsSame DEF Serving, engine, record
<1> QED BY <1>7, <1>8, <1>9, <1>11, <1>12, <1>13, <1>15, <1>16, <1>17 DEF Inv, Always, Serving

(* What the engine gives is thrown away, and counted off.                  *)
LEMMA QuiesceReadsStep ==
  ASSUME Inv, QuiesceReads
  PROVE  Inv'
<1>1. /\ pc = "quiesceReads" /\ issued' = issued - Len(Reaped)
      /\ refused' = <<>> /\ ring' = (IF refused # <<>> THEN ring ELSE <<>>)
      /\ UNCHANGED <<staged, kernel, broken>>
      /\ UNCHANGED <<queue, table, fds, record, staging, copyDone, waiting, flags, control, world,
                     landed, late>>
  BY DEF QuiesceReads, Reap, Quieted
<1>2. TypeOK /\ Always /\ Control /\ Serving
  BY <1>1 DEF Inv, Always, GivenUp
<1>3. harvest = <<>> /\ harvest' = <<>>
  BY <1>1, <1>2 DEF Control, Harvesting, control
<1>4. /\ ring \in Seq(Completion) /\ refused \in Seq(Completion) /\ <<>> \in Seq(Completion)
      /\ faults \in Nat /\ faults' = faults /\ OneIn(ring) /\ OneIn(refused)
  BY <1>1, <1>2 DEF TypeOK, EngineType, ControlType, world, Serving, Spread, OneRead
<1>5. PICK rest : rest = IF refused # <<>> THEN ring ELSE <<>>
  OBVIOUS
<1>6. /\ rest \in Seq(Completion) /\ OneIn(rest) /\ IdsIn(rest) \subseteq IdsIn(ring) /\ ring' = rest
      /\ Len(Reaped) + Len(rest) = Len(ring) + Len(refused) /\ Len(Reaped) \in Nat /\ Len(rest) \in Nat
  <2>1. Len(ring) \in Nat /\ Len(refused) \in Nat /\ Len(<<>>) = 0
    BY <1>4, SeqFacts
  <2>2. IdsIn(<<>>) = {} /\ OneIn(<<>>)
    BY IdsNone
  <2>3. CASE refused # <<>>
    <3>1. Reaped = refused /\ rest = ring
      BY <1>5, <2>3 DEF Reaped
    <3> QED BY <1>1, <1>4, <1>5, <2>1, <3>1
  <2>4. CASE refused = <<>>
    <3>1. Reaped = ring /\ rest = <<>> /\ Len(refused) = 0
      BY <1>5, <2>1, <2>4 DEF Reaped
    <3> QED BY <1>1, <1>4, <1>5, <2>1, <2>2, <3>1
  <2> QED BY <2>3, <2>4
<1>7. IdsIn(ring)' \subseteq IdsIn(ring) /\ OneIn(ring)' /\ IdsIn(refused)' = {} /\ OneIn(refused)'
  BY <1>1, <1>6, IdsNone DEF IdsIn, OneIn
<1>8. /\ Members(pending)' = Members(pending) /\ Members(waiting)' = Members(waiting) /\ Staging' = Staging
      /\ IdsIn(copyDone)' = IdsIn(copyDone) /\ copying' = copying /\ tracked' = tracked
      /\ IdsOf(kernel)' = IdsOf(kernel) /\ IdsIn(staged)' = IdsIn(staged) /\ IdsIn(harvest)' = IdsIn(harvest)
  BY <1>1 DEF Members, IdsIn, IdsOf, Staging, queue, staging, record, control
<1>9. Reads' \subseteq Reads
  BY <1>7, <1>8 DEF Reads, AtEngine
<1>10. issued' \in Nat /\ issued' = Owed' /\ (Owed = 0 => Owed' = 0 /\ issued' = 0)
  <2>1. Cardinality(kernel) \in Nat /\ Len(ring) \in Nat /\ Len(refused) \in Nat
    BY <1>2, OwedNat DEF Serving
  <2>2. issued = Cardinality(kernel) + Len(ring) + Len(refused) + 0
    BY <1>2, <1>3 DEF Serving, Counted, Owed
  <2>3. Owed = Cardinality(kernel) + Len(ring) + Len(refused)
    BY DEF Owed
  <2>4. Owed' = Cardinality(kernel) + Len(rest) + 0
    BY <1>1, <1>6 DEF Owed
  <2>5. issued' = issued - Len(Reaped)
    BY <1>1
  <2>6. issued' \in Nat /\ issued' = Cardinality(kernel) + Len(rest)
    BY <1>6, <2>1, <2>2, <2>5
  <2>7. Owed' = issued'
    BY <1>6, <2>1, <2>4, <2>6
  <2>8. Owed = 0 => issued' = 0
    BY <1>6, <2>1, <2>3, <2>6
  <2> QED BY <2>6, <2>7, <2>8
<1>11. TypeOK'
  <2>1. EngineType'
    BY <1>1, <1>2, <1>4, <1>6 DEF TypeOK, EngineType
  <2>2. QueueType' /\ TableType' /\ RecordType'
    BY <1>1, <1>2 DEF TypeOK, QueueType, TableType, RecordType, queue, table, record, staging
  <2>3. ControlType'
    BY <1>1, <1>2, <1>10 DEF TypeOK, ControlType, flags, world, control
  <2> QED BY <2>1, <2>2, <2>3 DEF TypeOK
<1>12. Control'
  BY <1>1, <1>2 DEF Control, Quiescing, Resuming, Harvesting, table, flags, world, staging, queue, control
<1>13. Pools' /\ Answering' /\ NoFalseSuccess' /\ Remaining' /\ Blamed'
  BY <1>1, <1>2, <1>4, PoolsSame, AnsweringSame, NoFalseSame, RemainingSame, BlamedSame
     DEF Always, record, staging, table, world
<1>14. StallIsReal'
  BY <1>1, <1>2, <1>10 DEF Always, StallIsReal, flags
<1>15. Counted'
  <2>1. Len(harvest') = 0
    BY <1>3
  <2>2. PICK o \in Nat : o = Owed'
    BY <1>10
  <2>3. o = o + Len(harvest')
    <3>1. o + 0 = o
      OBVIOUS
    <3> QED BY <2>1, <3>1, Zenon
  <2>4. issued' = o
    BY <1>10, <2>2
  <2> QED BY <2>2, <2>3, <2>4 DEF Counted
<1>16. Spread'
  <2>1. OneQueued'
    BY <1>1, <1>2 DEF Serving, Spread, OneQueued, Distinct, OneIn, queue
  <2>2. OneRead'
    BY <1>1, <1>2, <1>7 DEF Serving, Spread, OneRead, OneEach, OneIn, control
  <2>3. "ring" \in Places /\ {} \in SUBSET Chunks
    BY DEF Places
  <2> QED BY <1>2, <1>7, <1>8, <2>1, <2>2, <2>3, Moved DEF Serving
<1>17. Recorded'
  BY <1>2, <1>8, <1>9 DEF Serving, Recorded
<1>18. Credit' /\ Bounced'
  BY <1>1, <1>2, <1>8, CreditSame, BouncedSame DEF Serving, Quiescing, queue, staging, record, control
<1>19. Holding'
  BY <1>1, <1>2, <1>9, HoldingSame DEF Serving, staging
<1>20. Refusals'
  <2>1. \A c, e : Excused(c, e) => Excused(c, e)'
    BY <1>1, <1>4, ExcusedSame DEF record
  <2>2. \A i \in DOMAIN rest : Excused(rest[i].id, rest[i].err)
    BY <1>2, <1>5 DEF Serving, Refusals
  <2>3. DOMAIN refused' = {} /\ DOMAIN harvest' = {}
    BY <1>1, <1>3
  <2>4. /\ \A i \in DOMAIN ring' : Excused(ring'[i].id, ring'[i].err)
        /\ \A rd \in kernel' : rd.direct => Excused(rd.id, "einval")
    BY <1>1, <1>2, <1>6, <2>2 DEF Serving, Refusals
  <2> QED BY <2>1, <2>3, <2>4 DEF Refusals
<1> QED BY <1>11, <1>12, <1>13, <1>14, <1>15, <1>16, <1>17, <1>18, <1>19, <1>20 DEF Inv, Always, Serving

(* The wait is over: every workload is answered, and the worker lets go.   *)
LEMMA FinishAbortStep ==
  ASSUME Inv, FinishAbort
  PROVE  Inv'
<1>1. /\ pc = "quiesceReads" /\ ReadsQuiet
      /\ answer' = [c \in Ranges |-> IF c[1] \in live /\ answer[c] = None THEN code ELSE answer[c]]
      /\ fds' = [w \in DOMAIN Work |-> IF w \in live THEN Closed ELSE fds[w]]
      /\ live' = {} /\ scratch' = scratch + Cardinality(bounce) /\ bounce' = {}
      /\ buffers' = buffers + Cardinality(holds) /\ holds' = {}
      /\ tracked' = {} /\ waiting' = <<>> /\ issued' = 0 /\ harvest' = <<>> /\ pc' = Caller
      /\ UNCHANGED <<engine, queue, remaining, ferr, left, tries, copiesIssued, copying, copyDone,
                     flags, ret, back, cur, quota, code, world, landed, late>>
  BY DEF FinishAbort
<1>2. TypeOK /\ Always /\ Control /\ Serving
  BY <1>1 DEF Inv, Always, GivenUp
<1>3. /\ code \in {"FinishedError", "FsAsyncEngineError"} /\ pending = <<>> /\ credit = 0 /\ (dead \/ stopped)
      /\ copiesIssued = 0 /\ live \subseteq 1..taken /\ taken \in Nat /\ faults \in Nat
  BY <1>1, <1>2 DEF Control, Quiescing, TypeOK, ControlType
<1>4. Caller \in {"loop", "idle", "pump"}
  BY <1>2, CallerFacts
<1>5. faults' = faults /\ taken' = taken /\ stopped' = stopped /\ dead' = dead /\ engineError' = engineError
      /\ stalls' = stalls /\ ferr' = ferr /\ code' = code
  BY <1>1 DEF world, flags
<1>6. /\ answer \in [Ranges -> Codes \cup {None}] /\ fds \in [DOMAIN Work -> [Files -> Modes]]
      /\ bounce \subseteq Chunks /\ holds \subseteq Chunks /\ scratch \in Nat /\ buffers \in Nat
  BY <1>2 DEF TypeOK, TableType, RecordType
<1>7. Cardinality(bounce) \in Nat /\ Cardinality(holds) \in Nat /\ Cardinality({}) = 0
      /\ Cardinality(copying) \in Nat
  BY <1>2, <1>6, Countable, FS_EmptySet DEF TypeOK, RecordType
<1>8. \A c \in Ranges : answer'[c] = IF c[1] \in live /\ answer[c] = None THEN code ELSE answer[c]
  BY <1>1
<1>9. \A w \in DOMAIN Work, f \in Files : fds'[w][f] = fds[w][f] \/ fds'[w][f] = "closed"
  BY <1>1 DEF Closed
<1>10. TypeOK'
  <2>1. EngineType'
    BY <1>1, <1>2 DEF TypeOK, EngineType, engine
  <2>2. QueueType'
    <3>1. <<>> \in Seq(Chunks)
      OBVIOUS
    <3> QED BY <1>1, <1>2, <3>1 DEF TypeOK, QueueType, queue
  <2>3. TableType'
    <3>1. answer' \in [Ranges -> Codes \cup {None}]
      BY <1>1, <1>3, <1>6 DEF Codes
    <3>2. fds' \in [DOMAIN Work -> [Files -> Modes]]
      BY <1>1, <1>6 DEF Closed, Modes
    <3> QED BY <1>1, <1>2, <3>1, <3>2 DEF TypeOK, TableType
  <2>4. scratch' \in Nat /\ buffers' \in Nat
    BY <1>1, <1>6, <1>7
  <2>5. RecordType'
    BY <1>1, <1>2, <2>4 DEF TypeOK, RecordType
  <2>6. ControlType'
    <3>1. <<>> \in Seq(Completion)
      OBVIOUS
    <3> QED BY <1>1, <1>2, <1>4, <3>1 DEF TypeOK, ControlType, Pcs, flags, world
  <2> QED BY <2>1, <2>2, <2>3, <2>5, <2>6 DEF TypeOK
<1>11. Control'
  BY <1>1, <1>2, <1>4, <1>5 DEF Control, Quiescing, Resuming, Harvesting
<1>12. Pools'
  <2>1. scratch + Cardinality(bounce) = Depth
    BY <1>2 DEF Always, Pools
  <2>2. buffers + Cardinality(holds) + Cardinality(copying) = Depth + CopyDepth
    BY <1>2 DEF Always, Pools
  <2>3. copiesIssued = Cardinality(copying) + Len(copyDone)
    BY <1>2 DEF Always, Pools
  <2>4. Cardinality(bounce') = 0 /\ Cardinality(holds') = 0
    BY <1>1, <1>7
  <2>5. scratch' + Cardinality(bounce') = Depth
    BY <1>1, <1>6, <1>7, <2>1, <2>4
  <2>6. buffers' + Cardinality(holds') + Cardinality(copying') = Depth + CopyDepth
    <3>1. buffers' = buffers + Cardinality(holds) /\ copying' = copying
      BY <1>1
    <3> QED BY <1>6, <1>7, <2>2, <2>4, <3>1
  <2>7. copiesIssued' = Cardinality(copying') + Len(copyDone')
    BY <1>1, <2>3
  <2> QED BY <2>5, <2>6, <2>7 DEF Pools
<1>13. Answering'
  <2>1. ASSUME NEW c \in Ranges
        PROVE  /\ c[1] > taken => answer'[c] = None
               /\ c[1] <= taken => answer'[c] # None
    <3>1. c[1] \in Nat /\ (c[1] > taken => c[1] \notin live)
      BY <1>3, RangeFacts
    <3>2. /\ c[1] > taken => answer[c] = None
          /\ c[1] <= taken /\ c[1] \notin live => answer[c] # None
      BY <1>2 DEF Always, Answering
    <3> QED BY <1>3, <1>8, <3>1, <3>2 DEF None
  <2>2. ASSUME NEW c \in Chunks, answer'[c] = "Success" PROVE c \in landed'
    <3>1. c \in Ranges
      BY ChunkFacts
    <3>2. answer[c] = "Success"
      BY <1>3, <1>8, <2>2, <3>1
    <3> QED BY <1>1, <1>2, <3>2 DEF Always, Answering
  <2> QED BY <1>1, <1>5, <2>1, <2>2 DEF Answering
<1>14. NoFalseSuccess'
  BY <1>1, <1>2 DEF Always, NoFalseSuccess
<1>15. Blamed'
  <2>1. ASSUME NEW c \in Chunks, answer'[c] = "FileAccessError"
        PROVE  faults' > 0 \/ <<c[1], File(c)>> \in late'
    <3>1. c \in Ranges
      BY ChunkFacts
    <3>2. answer[c] = "FileAccessError"
      BY <1>3, <1>8, <2>1, <3>1
    <3> QED BY <1>1, <1>2, <1>5, <3>2 DEF Always, Blamed, RefusalForgiven
  <2>2. ASSUME NEW w \in DOMAIN Work, NEW f \in Files
        PROVE  /\ ferr'[w][f] = "FileAccessError" => faults' > 0 \/ <<w, f>> \in late'
               /\ fds'[w][f] = "error" => faults' > 0
    BY <1>1, <1>2, <1>5, <1>9 DEF Always, Blamed
  <2> QED BY <2>1, <2>2 DEF Blamed, RefusalForgiven
<1>16. Remaining'
  BY <1>1 DEF Remaining
<1>17. StallIsReal'
  BY <1>1, <1>2, <1>5 DEF Always, StallIsReal, Owed, engine
<1>18. GivenUp'
  <2>1. ~broken => Owed = 0
    <3> SUFFICES ASSUME ~broken PROVE Owed = 0
      OBVIOUS
    <3>1. issued = 0
      BY <1>1 DEF ReadsQuiet
    <3>2. Owed \in Nat /\ Len(harvest) \in Nat
      BY <1>2, OwedNat DEF Serving
    <3> QED BY <1>2, <3>1, <3>2 DEF Serving, Counted
  <2>2. broken' = broken /\ Owed' = Owed
    BY <1>1 DEF engine, Owed
  <2> QED BY <1>1, <1>3, <1>4, <1>5, <2>1, <2>2 DEF GivenUp, queue
<1> QED BY <1>10, <1>11, <1>12, <1>13, <1>14, <1>15, <1>16, <1>17, <1>18 DEF Inv, Always

-----------------------------------------------------------------------------
(* A sequence without its first elements.                                  *)
LEMMA SubSeqTail ==
  ASSUME NEW S, NEW s \in Seq(S), NEW m \in Nat, m <= Len(s), NEW t, t = SubSeq(s, m + 1, Len(s))
  PROVE  /\ t \in Seq(S) /\ DOMAIN t = 1..(Len(s) - m)
         /\ \A i \in DOMAIN t : i + m \in DOMAIN s /\ t[i] = s[i + m] /\ i + m > m /\ i \in Nat
<1>1. Len(s) \in Nat /\ DOMAIN s = 1..Len(s) /\ \A i \in DOMAIN s : s[i] \in S
  BY SeqFacts
<1>2. PICK l \in Nat : l = Len(s)
  BY <1>1
<1>3. PICK a \in Nat : a = m + 1
  OBVIOUS
<1>4. t = SubSeq(s, a, l) /\ m <= l
  BY <1>2, <1>3
<1>5. \A i \in a..l : s[i] \in S
  BY <1>1, <1>2, <1>3
<1>6. /\ t \in Seq(S) /\ Len(t) = IF a <= l THEN l - a + 1 ELSE 0
      /\ \A i \in 1..(l - a + 1) : t[i] = s[a + i - 1]
  <2>1. a \in Int /\ l \in Int
    OBVIOUS
  <2>2. SubSeq(s, a, l) \in Seq(S) /\ Len(SubSeq(s, a, l)) = IF a <= l THEN l - a + 1 ELSE 0
    BY <1>1, <1>2, <1>3, <2>1, SubSeqProperties
  <2>3. \A i \in 1..(l - a + 1) : SubSeq(s, a, l)[i] = s[a + i - 1]
    BY <1>1, <1>2, <1>3, <2>1, SubSeqProperties
  <2> QED BY <1>4, <2>2, <2>3, Zenon
<1>7. (IF a <= l THEN l - a + 1 ELSE 0) = l - m /\ l - a + 1 = l - m /\ l - m \in Nat
  BY <1>3, <1>4
<1>8. Len(t) = l - m /\ DOMAIN t = 1..(l - m)
  BY <1>6, <1>7, SeqFacts
<1>9. \A i \in 1..(l - m) : t[i] = s[i + m] /\ i + m \in 1..l /\ i + m > m /\ i \in Nat
  <2> SUFFICES ASSUME NEW i \in 1..(l - m)
               PROVE  t[i] = s[i + m] /\ i + m \in 1..l /\ i + m > m /\ i \in Nat
    OBVIOUS
  <2>1. a + i - 1 = i + m /\ i + m \in 1..l /\ i + m > m /\ i \in Nat
    BY <1>3, <1>7
  <2>2. t[i] = s[a + i - 1]
    BY <1>6, <1>7
  <2> QED BY <2>1, <2>2
<1> QED BY <1>1, <1>2, <1>6, <1>8, <1>9

(* The entries a flush takes.                                              *)
Issuing(s, n, d) == {[id |-> s[i].id, direct |-> d[i]] : i \in 1..n}

(* They are taken from the front, and the rest stays as it was.            *)
Parted(s, n, m, d, G, t) ==
  /\ G \subseteq Entry /\ OneEach(G) /\ IdsOf(G) \subseteq IdsIn(s)
  /\ IsFiniteSet(IdsOf(G)) /\ Cardinality(IdsOf(G)) = n
  /\ t \in Seq(Entry) /\ OneIn(t) /\ IdsIn(t) \subseteq IdsIn(s) \ IdsOf(G)
  /\ m = n + 1 => /\ n + 1 \in DOMAIN s /\ s[n + 1].id \in IdsIn(s)
                  /\ s[n + 1].id \notin IdsOf(G) /\ s[n + 1].id \notin IdsIn(t)
  /\ \A e \in G : \E i \in DOMAIN s : e.id = s[i].id /\ e.direct = d[i]

(* The head of the staged entries, with what their descriptors refer to,   *)
(* and the tail.                                                           *)
LEMMA Split ==
  ASSUME NEW s \in Seq(Entry), OneIn(s), NEW n \in Nat, NEW m \in {n, n + 1}, m <= Len(s),
         NEW d \in [DOMAIN s -> BOOLEAN], NEW G, G = Issuing(s, n, d),
         NEW t, t = SubSeq(s, m + 1, Len(s))
  PROVE  Parted(s, n, m, d, G, t)
<1> USE DEF Issuing
<1>1. Len(s) \in Nat /\ DOMAIN s = 1..Len(s) /\ \A i \in DOMAIN s : s[i] \in Entry /\ s[i].id \in Chunks
  BY SeqFacts, RecordIds
<1>2. m \in Nat /\ n <= m /\ n <= Len(s) /\ 1..n \subseteq DOMAIN s
  BY <1>1
<1>3. \A i \in 1..n : [id |-> s[i].id, direct |-> d[i]] \in Entry
  BY <1>1, <1>2 DEF Entry
<1>4. \A e \in G : \E i \in 1..n : e = [id |-> s[i].id, direct |-> d[i]] /\ e.id = s[i].id /\ e.direct = d[i]
  OBVIOUS
<1>5. IdsOf(G) = {s[i].id : i \in 1..n}
  <2>1. \A i \in 1..n : s[i].id \in IdsOf(G)
    <3> SUFFICES ASSUME NEW i \in 1..n PROVE s[i].id \in IdsOf(G)
      OBVIOUS
    <3>1. PICK e : e = [id |-> s[i].id, direct |-> d[i]]
      OBVIOUS
    <3>2. e \in G /\ e.id = s[i].id
      BY <3>1
    <3> QED BY <3>2 DEF IdsOf
  <2>2. \A x \in IdsOf(G) : \E i \in 1..n : x = s[i].id
    BY <1>4 DEF IdsOf
  <2> QED BY <2>1, <2>2
<1>6. OneEach(G)
  <2> SUFFICES ASSUME NEW x \in G, NEW y \in G, x.id = y.id PROVE x = y
    BY DEF OneEach
  <2>1. PICK i \in 1..n : x = [id |-> s[i].id, direct |-> d[i]] /\ x.id = s[i].id
    BY <1>4
  <2>2. PICK j \in 1..n : y = [id |-> s[j].id, direct |-> d[j]] /\ y.id = s[j].id
    BY <1>4
  <2>3. i = j
    BY <1>2, <2>1, <2>2 DEF OneIn
  <2> QED BY <2>1, <2>2, <2>3
<1>7. IsFiniteSet(IdsOf(G)) /\ Cardinality(IdsOf(G)) = n
  <2>1. PICK h : h = SubSeq(s, 1, n)
    OBVIOUS
  <2>2. h \in Seq(Entry) /\ Len(h) = n /\ DOMAIN h = 1..n /\ \A i \in 1..n : h[i] = s[i]
    <3>1. h \in Seq(Entry) /\ Len(h) = n
      BY <1>1, <1>2, <2>1, SubSeqProperties
    <3>2. \A i \in 1..n : h[i] = s[1 + i - 1]
      BY <1>1, <1>2, <2>1, SubSeqProperties
    <3>3. \A i \in 1..n : 1 + i - 1 = i
      BY <1>2
    <3> QED BY <3>1, <3>2, <3>3, SeqFacts
  <2>3. OneIn(h)
    BY <1>2, <2>2 DEF OneIn
  <2>4. IdsIn(h) = IdsOf(G)
    BY <1>5, <2>2 DEF IdsIn
  <2> QED BY <2>2, <2>3, <2>4, IdsCount
<1>8. /\ t \in Seq(Entry) /\ DOMAIN t = 1..(Len(s) - m)
      /\ \A i \in DOMAIN t : i + m \in DOMAIN s /\ t[i] = s[i + m] /\ i + m > m /\ i \in Nat
  BY <1>2, SubSeqTail
<1>9. OneIn(t)
  <2> SUFFICES ASSUME NEW i \in DOMAIN t, NEW j \in DOMAIN t, t[i].id = t[j].id PROVE i = j
    BY DEF OneIn
  <2>1. i + m = j + m /\ i \in Nat /\ j \in Nat
    BY <1>8 DEF OneIn
  <2> QED BY <1>2, <2>1
<1>10. IdsIn(t) \subseteq IdsIn(s) \ IdsOf(G)
  <2> SUFFICES ASSUME NEW i \in DOMAIN t PROVE t[i].id \in IdsIn(s) /\ t[i].id \notin IdsOf(G)
    BY DEF IdsIn
  <2>1. i + m \in DOMAIN s /\ t[i] = s[i + m] /\ i + m > m
    BY <1>8
  <2>2. ASSUME NEW j \in 1..n, s[j].id = s[i + m].id PROVE FALSE
    <3>1. j = i + m
      BY <1>2, <2>1, <2>2 DEF OneIn
    <3> QED BY <1>2, <2>1, <3>1
  <2> QED BY <1>5, <2>1, <2>2 DEF IdsIn
<1>11. ASSUME m = n + 1
       PROVE  /\ n + 1 \in DOMAIN s /\ s[n + 1].id \in IdsIn(s)
              /\ s[n + 1].id \notin IdsOf(G) /\ s[n + 1].id \notin IdsIn(t)
  <2>1. n + 1 \in DOMAIN s
    BY <1>1, <1>2, <1>11
  <2>2. ASSUME NEW j \in 1..n, s[j].id = s[n + 1].id PROVE FALSE
    <3>1. j = n + 1
      BY <1>2, <2>1, <2>2 DEF OneIn
    <3> QED BY <3>1
  <2>3. ASSUME NEW i \in DOMAIN t, t[i].id = s[n + 1].id PROVE FALSE
    <3>1. i + m \in DOMAIN s /\ t[i] = s[i + m] /\ i + m > m
      BY <1>8
    <3>2. i + m = n + 1
      BY <2>1, <2>3, <3>1 DEF OneIn
    <3> QED BY <1>2, <1>11, <3>1, <3>2
  <2> QED BY <1>5, <2>1, <2>2, <2>3 DEF IdsIn
<1>12. G \subseteq Entry /\ IdsOf(G) \subseteq IdsIn(s)
  BY <1>2, <1>3, <1>5 DEF IdsIn
<1>13. \A e \in G : \E i \in DOMAIN s : e.id = s[i].id /\ e.direct = d[i]
  BY <1>2, <1>4
<1> QED BY <1>6, <1>7, <1>8, <1>9, <1>10, <1>11, <1>12, <1>13 DEF Parted

(* Entries go to the kernel, in their order, and one more may be refused.  *)
LEMMA FlushMoves ==
  ASSUME Inv, pc = "flush", NEW n \in Nat, NEW m \in {n, n + 1}, m <= Len(staged),
         NEW d, d = [i \in DOMAIN staged |-> Descriptor(staged[i])],
         Take(n, d), staged' = SubSeq(staged, m + 1, Len(staged)),
         NEW k, m = n => refused' = refused,
         m = n + 1 => k \in Completion /\ refused' = Append(refused, k) /\ k.id = staged[n + 1].id /\ Excused(k.id, k.err)',
         UNCHANGED <<ring, broken>>, issued' = issued + m, stalls' \in Nat, stalls' > 0 => issued' = 0,
         pc' \in {"abort", "wait"}, code' \in {None, "FinishedError", "FsAsyncEngineError"},
         pc' = "abort" => code' = "FsAsyncEngineError",
         UNCHANGED <<taken, stopped>>, faults' \in Nat, faults <= faults', refusals' \in Nat,
         UNCHANGED <<queue, table, fds, record, staging, copyDone, waiting, directRefused, dead,
                     engineError, ret, back, cur, harvest, quota, landed, late>>
  PROVE  Inv'
<1>1. TypeOK /\ Always /\ Control /\ Serving
  BY DEF Inv, Always, GivenUp
<1>2. harvest = <<>> /\ Staging = {} /\ Staging' = {} /\ harvest' = <<>>
  BY <1>1 DEF Control, Harvesting, Staging
<1>3. /\ staged \in Seq(Entry) /\ OneIn(staged) /\ kernel \subseteq Entry /\ OneEach(kernel)
      /\ refused \in Seq(Completion) /\ OneIn(refused) /\ faults \in Nat
  BY <1>1 DEF TypeOK, EngineType, ControlType, Serving, Spread, OneRead
<1>4. d \in [DOMAIN staged -> BOOLEAN]
  BY DEF Descriptor
<1>5. PICK G : G = Issuing(staged, n, d)
  OBVIOUS
<1>6. PICK t : t = SubSeq(staged, m + 1, Len(staged))
  OBVIOUS
<1>7. PICK s \in Seq(Entry) : s = staged
  BY <1>3
<1>8. /\ G \subseteq Entry /\ OneEach(G) /\ IdsOf(G) \subseteq IdsIn(s)
      /\ IsFiniteSet(IdsOf(G)) /\ Cardinality(IdsOf(G)) = n
      /\ t \in Seq(Entry) /\ OneIn(t) /\ IdsIn(t) \subseteq IdsIn(s) \ IdsOf(G)
      /\ m = n + 1 => /\ n + 1 \in DOMAIN s /\ s[n + 1].id \in IdsIn(s)
                      /\ s[n + 1].id \notin IdsOf(G) /\ s[n + 1].id \notin IdsIn(t)
      /\ \A e \in G : \E i \in DOMAIN s : e.id = s[i].id /\ e.direct = d[i]
  <2>1. /\ OneIn(s) /\ m <= Len(s) /\ d \in [DOMAIN s -> BOOLEAN]
        /\ G = Issuing(s, n, d) /\ t = SubSeq(s, m + 1, Len(s))
    BY <1>3, <1>4, <1>5, <1>6, <1>7
  <2>2. n \in Nat /\ m \in {n, n + 1} /\ s \in Seq(Entry)
    OBVIOUS
  <2>3. Parted(s, n, m, d, G, t)
    BY <2>1, <2>2, Split
  <2> QED BY <2>3 DEF Parted
<1>9. kernel' = kernel \cup G /\ staged' = t
  BY <1>5, <1>6 DEF Take, Issuing
<1>10. PICK R : R = IF m = n THEN {} ELSE {k.id}
  OBVIOUS
<1>11. /\ R \subseteq IdsIn(staged) /\ R \cap IdsOf(G) = {} /\ R \cap IdsIn(t) = {}
       /\ IdsOf(G) \subseteq IdsIn(staged) /\ IdsIn(t) \subseteq IdsIn(staged) /\ IdsOf(G) \cap IdsIn(t) = {}
  BY <1>7, <1>8, <1>10
<1>12. /\ \A x \in IdsIn(staged) : /\ x \notin IdsOf(kernel) /\ x \notin IdsIn(ring) /\ x \notin IdsIn(refused)
                                   /\ x \in Reads /\ x \in Chunks
       /\ IdsOf(kernel) \subseteq Chunks
  BY <1>1, OnePlace, Sites DEF Serving, Reads, AtEngine
<1>13. /\ IdsOf(kernel)' = IdsOf(kernel) \cup IdsOf(G) /\ OneEach(kernel)' /\ kernel' \subseteq Entry
       /\ IdsIn(staged)' = IdsIn(t) /\ OneIn(staged)'
  <2>1. IdsOf(kernel \cup G) = IdsOf(kernel) \cup IdsOf(G)
    BY DEF IdsOf
  <2>2. IdsOf(kernel) \cap IdsOf(G) = {}
    BY <1>11, <1>12
  <2>3. OneEach(kernel \cup G)
    <3> SUFFICES ASSUME NEW x \in kernel \cup G, NEW y \in kernel \cup G, x.id = y.id PROVE x = y
      BY DEF OneEach
    <3>1. \A e \in kernel : e.id \in IdsOf(kernel)
      BY DEF IdsOf
    <3>2. \A e \in G : e.id \in IdsOf(G)
      BY DEF IdsOf
    <3>3. CASE x \in kernel /\ y \in kernel
      BY <1>3, <3>3 DEF OneEach
    <3>4. CASE x \in G /\ y \in G
      BY <1>8, <3>4 DEF OneEach
    <3> QED BY <2>2, <3>1, <3>2, <3>3, <3>4
  <2>4. kernel \cup G \subseteq Entry
    BY <1>3, <1>8
  <2>5. PICK q : q = kernel \cup G
    OBVIOUS
  <2>6. IdsOf(q) = IdsOf(kernel) \cup IdsOf(G) /\ OneEach(q) /\ q \subseteq Entry /\ kernel' = q
    BY <1>9, <2>1, <2>3, <2>4, <2>5
  <2>7. IdsOf(kernel)' = IdsOf(q) /\ OneEach(kernel)'
    BY <2>6 DEF IdsOf, OneEach
  <2>8. IdsIn(staged)' = IdsIn(t) /\ OneIn(staged)'
    <3>1. IdsIn(staged)' = IdsIn(t)
      BY <1>9 DEF IdsIn
    <3>2. OneIn(t)
      BY <1>8
    <3>3. OneIn(staged)'
      BY <1>9, <3>2 DEF OneIn
    <3> QED BY <3>1, <3>3
  <2> QED BY <2>6, <2>7, <2>8
<1>14. /\ IdsIn(refused)' = IdsIn(refused) \cup R /\ OneIn(refused)' /\ refused' \in Seq(Completion)
       /\ Len(refused') = Len(refused) + (m - n) /\ Len(refused) \in Nat
       /\ \A i \in DOMAIN refused' :
            \/ m = n + 1 /\ refused'[i] = k
            \/ \E j \in DOMAIN refused : refused'[i] = refused[j]
  <2>1. Len(refused) \in Nat
    BY <1>3, SeqFacts
  <2>2. CASE m = n
    <3>1. R = {} /\ refused' = refused /\ m - n = 0
      BY <1>10, <2>2
    <3> QED BY <1>3, <2>1, <3>1 DEF IdsIn, OneIn
  <2>3. CASE m = n + 1
    <3>1. PICK q : q = Append(refused, k)
      OBVIOUS
    <3>2. R = {k.id} /\ refused' = q /\ m - n = 1
      BY <1>10, <2>3, <3>1
    <3>3. k.id \notin IdsIn(refused)
      BY <1>11, <1>12, <3>2
    <3>4. /\ q \in Seq(Completion) /\ IdsIn(q) = IdsIn(refused) \cup {k.id} /\ OneIn(q)
          /\ \A i \in DOMAIN q : q[i] = k \/ \E j \in DOMAIN refused : q[i] = refused[j]
      <4>1. PICK old : old = refused
        OBVIOUS
      <4>2. old \in Seq(Completion) /\ k \in Completion /\ OneIn(old) /\ k.id \notin IdsIn(old) /\ q = Append(old, k)
        BY <1>3, <2>3, <3>1, <3>3, <4>1 DEF IdsIn, OneIn
      <4>3. /\ q \in Seq(Completion) /\ IdsIn(q) = IdsIn(old) \cup {k.id} /\ OneIn(q)
            /\ \A i \in DOMAIN q : q[i] = k \/ \E j \in DOMAIN old : q[i] = old[j]
        <5>1. /\ Append(old, k) \in Seq(Completion) /\ IdsIn(Append(old, k)) = IdsIn(old) \cup {k.id}
              /\ \A i \in DOMAIN Append(old, k) :
                   Append(old, k)[i] = k \/ \E j \in DOMAIN old : Append(old, k)[i] = old[j]
              /\ OneIn(old) /\ k.id \notin IdsIn(old) => OneIn(Append(old, k))
          BY <4>2, IdsAppend, Zenon
        <5> QED BY <4>2, <5>1, Zenon
      <4> QED BY <4>1, <4>3
    <3>5. Len(q) = Len(refused) + 1
      BY <1>3, <2>3, <3>1, AppendLen
    <3>6. IdsIn(refused)' = IdsIn(q) /\ OneIn(refused)'
      BY <3>2, <3>4 DEF IdsIn, OneIn
    <3>7. Len(refused') = Len(refused) + (m - n)
      BY <3>2, <3>5
    <3>8. \A i \in DOMAIN refused' : refused'[i] = k \/ \E j \in DOMAIN refused : refused'[i] = refused[j]
      BY <3>2, <3>4
    <3> QED BY <2>1, <2>3, <3>2, <3>4, <3>6, <3>7, <3>8
  <2> QED BY <2>2, <2>3
<1>15. /\ Members(pending)' = Members(pending) /\ Members(waiting)' = Members(waiting)
       /\ IdsIn(copyDone)' = IdsIn(copyDone) /\ copying' = copying /\ tracked' = tracked
       /\ IdsIn(ring)' = IdsIn(ring) /\ IdsIn(harvest)' = IdsIn(harvest)
  BY DEF Members, IdsIn, queue, staging, record
<1>16. Reads' \subseteq Reads
  BY <1>11, <1>13, <1>14, <1>15 DEF Reads, AtEngine
<1>17. Owed' = Owed + m /\ Owed \in Nat
  <2>1. /\ Cardinality(kernel) \in Nat /\ Len(ring) \in Nat /\ Owed \in Nat
        /\ Cardinality(kernel) = Cardinality(IdsOf(kernel))
    BY <1>1, OwedNat DEF Serving
  <2>2. IsFiniteSet(IdsOf(kernel)) /\ IdsOf(kernel) \cap IdsOf(G) = {}
    BY <1>11, <1>12, Countable
  <2>3. /\ IsFiniteSet(IdsOf(kernel) \cup IdsOf(G))
        /\ Cardinality(IdsOf(kernel) \cup IdsOf(G))
             = Cardinality(IdsOf(kernel)) + Cardinality(IdsOf(G)) - Cardinality(IdsOf(kernel) \cap IdsOf(G))
    BY <1>8, <2>2, FS_Union
  <2>4. Cardinality({}) = 0
    BY FS_EmptySet
  <2>5. Cardinality(IdsOf(kernel) \cup IdsOf(G)) = Cardinality(kernel) + n
    <3>1. PICK a \in Nat : a = Cardinality(kernel)
      BY <2>1
    <3>2. Cardinality(IdsOf(kernel)) = a /\ Cardinality(IdsOf(G)) = n
          /\ Cardinality(IdsOf(kernel) \cap IdsOf(G)) = 0
      BY <1>8, <2>1, <2>2, <2>4, <3>1
    <3>3. Cardinality(IdsOf(kernel) \cup IdsOf(G)) = a + n - 0
      BY <2>3, <3>2
    <3>4. a + n - 0 = a + n
      OBVIOUS
    <3> QED BY <3>1, <3>3, <3>4
  <2>6. Cardinality(kernel') = Cardinality(kernel) + n
    <3>1. PICK q : q = kernel'
      OBVIOUS
    <3>2. OneEach(q) /\ IdsOf(q) = IdsOf(kernel) \cup IdsOf(G)
      BY <1>13, <3>1 DEF OneEach, IdsOf
    <3>3. Cardinality(q) = Cardinality(IdsOf(q))
      BY <2>3, <3>2, OneCount
    <3> QED BY <2>5, <3>1, <3>2, <3>3
  <2>7. Owed = Cardinality(kernel) + Len(ring) + Len(refused)
    BY DEF Owed
  <2>8. Owed' = (Cardinality(kernel) + n) + Len(ring) + (Len(refused) + (m - n))
    BY <1>14, <2>6 DEF Owed
  <2>9. m \in Nat
    OBVIOUS
  <2>10. PICK a \in Nat, b \in Nat, z \in Nat : a = Cardinality(kernel) /\ b = Len(ring) /\ z = Len(refused)
    BY <1>14, <2>1
  <2>11. Owed = a + b + z /\ Owed' = (a + n) + b + (z + (m - n))
    BY <2>7, <2>8, <2>10
  <2>12. (a + n) + b + (z + (m - n)) = (a + b + z) + m
    BY <2>9
  <2> QED BY <2>1, <2>11, <2>12
<1>18. Counted' /\ issued' \in Nat
  <2>1. issued = Owed + 0
    BY <1>1, <1>2 DEF Serving, Counted
  <2>2. PICK o \in Nat : o = Owed
    BY <1>17
  <2>3. issued' = o + m /\ Owed' = o + m /\ o + m \in Nat
    BY <1>17, <2>1, <2>2
  <2>4. Len(harvest') = 0
    BY <1>2
  <2>5. (o + m) + 0 = o + m
    BY <2>3
  <2> QED BY <2>3, <2>4, <2>5, Zenon DEF Counted
<1>19. StallIsReal'
  <2>1. issued' = Owed'
    BY <1>1, <1>2, <1>17 DEF Serving, Counted
  <2> QED BY <2>1 DEF StallIsReal
<1>20. TypeOK'
  <2>1. EngineType'
    BY <1>1, <1>8, <1>9, <1>13, <1>14 DEF TypeOK, EngineType
  <2>2. QueueType' /\ TableType' /\ RecordType'
    BY <1>1 DEF TypeOK, QueueType, TableType, RecordType, queue, table, record, staging
  <2>3. ControlType'
    BY <1>1, <1>18 DEF TypeOK, ControlType, Pcs
  <2> QED BY <2>1, <2>2, <2>3 DEF TypeOK
<1>21. Control'
  BY <1>1, <1>2 DEF Control, Quiescing, Resuming, Harvesting, table, staging, queue, None
<1>22. Pools' /\ Answering' /\ NoFalseSuccess' /\ Remaining' /\ Blamed'
  BY <1>1, <1>3, PoolsSame, AnsweringSame, NoFalseSame, RemainingSame, BlamedSame
     DEF Always, record, staging, table
<1>23. Spread'
  <2>1. OneQueued'
    BY <1>1 DEF Serving, Spread, OneQueued, Distinct, OneIn, queue
  <2>2. OneRead'
    BY <1>1, <1>13, <1>14 DEF Serving, Spread, OneRead, OneIn
  <2>3. PICK p \in [Chunks -> Places] : WorkerAt(p) /\ ReadsAt(p)
    BY <1>1 DEF Serving, Spread
  <2>4. PICK q : q = [c \in Chunks |-> IF c \in IdsOf(G) THEN "kernel" ELSE IF c \in R THEN "refused" ELSE p[c]]
    OBVIOUS
  <2>5. q \in [Chunks -> Places]
    BY <2>3, <2>4 DEF Places
  <2>6. ASSUME NEW c \in Chunks, c \notin IdsIn(staged) PROVE q[c] = p[c]
    BY <1>11, <2>4, <2>6
  <2>7. ASSUME NEW c \in Members(pending) \cup Members(waiting) \cup copying \cup IdsIn(copyDone)
               \cup IdsOf(kernel) \cup IdsIn(ring) \cup IdsIn(refused) \cup IdsIn(harvest)
        PROVE  c \in Chunks /\ c \notin IdsIn(staged)
    <3>1. c \in Chunks
      BY <1>1, <2>7, Sites
    <3>2. IdsIn(staged) \subseteq Reads
      BY DEF Reads, AtEngine
    <3> QED BY <1>1, <2>7, <3>1, <3>2, OnePlace DEF Serving
  <2>8. WorkerAt(q)'
    BY <1>2, <1>15, <2>3, <2>6, <2>7 DEF WorkerAt
  <2>9. ReadsAt(q)'
    <3>1. \A c \in IdsIn(staged)' : q[c] = "staged"
      BY <1>11, <1>12, <1>13, <2>3, <2>4 DEF ReadsAt
    <3>2. \A c \in IdsOf(kernel)' : q[c] = "kernel"
      <4>1. \A c \in IdsOf(G) : q[c] = "kernel"
        BY <1>11, <1>12, <2>4
      <4>2. \A c \in IdsOf(kernel) : q[c] = "kernel"
        BY <2>3, <2>6, <2>7 DEF ReadsAt
      <4> QED BY <1>13, <4>1, <4>2
    <3>3. \A c \in IdsIn(refused)' : q[c] = "refused"
      <4>1. \A c \in R : q[c] = "refused"
        BY <1>11, <1>12, <2>4
      <4>2. \A c \in IdsIn(refused) : q[c] = "refused"
        BY <2>3, <2>6, <2>7 DEF ReadsAt
      <4> QED BY <1>14, <4>1, <4>2
    <3>4. \A c \in IdsIn(ring)' : q[c] = "ring"
      BY <1>15, <2>3, <2>6, <2>7 DEF ReadsAt
    <3>5. \A c \in IdsIn(harvest)' : q[c] = "harvest"
      BY <1>15, <2>3, <2>6, <2>7 DEF ReadsAt
    <3> QED BY <3>1, <3>2, <3>3, <3>4, <3>5 DEF ReadsAt
  <2> QED BY <2>1, <2>2, <2>5, <2>8, <2>9 DEF Spread
<1>24. Recorded'
  BY <1>1, <1>2, <1>15, <1>16 DEF Serving, Recorded
<1>25. Credit' /\ Bounced'
  BY <1>1, <1>2, CreditSame, BouncedSame DEF Serving, Quiescing, queue, staging, record
<1>26. Holding'
  BY <1>1, <1>16, HoldingSame DEF Serving, staging
<1>27. Refusals'
  <2>1. \A x, e : Excused(x, e) => Excused(x, e)'
    BY <1>3, ExcusedSame DEF record
  <2>2. \A e \in G : e.direct => Excused(e.id, "einval")
    BY <1>7, <1>8 DEF Descriptor, Excused
  <2>3. (\A rd \in kernel : rd.direct => Excused(rd.id, "einval"))'
    <3>1. \A rd \in kernel' : rd.direct => Excused(rd.id, "einval")
      BY <1>1, <1>9, <2>2 DEF Serving, Refusals
    <3> QED BY <2>1, <3>1
  <2>4. (\A i \in DOMAIN ring : Excused(ring[i].id, ring[i].err))'
    BY <1>1, <2>1 DEF Serving, Refusals
  <2>5. (\A i \in DOMAIN refused : Excused(refused[i].id, refused[i].err))'
    BY <1>1, <1>14, <2>1 DEF Serving, Refusals
  <2>6. (\A i \in DOMAIN harvest : Excused(harvest[i].id, harvest[i].err))'
    BY <1>1, <2>1 DEF Serving, Refusals
  <2> QED BY <2>3, <2>4, <2>5, <2>6 DEF Refusals
<1> QED BY <1>18, <1>19, <1>20, <1>21, <1>22, <1>23, <1>24, <1>25, <1>26, <1>27 DEF Inv, Always, Serving

(* The ring fails for good: the engine is given up.                        *)
LEMMA FlushFailsStep ==
  ASSUME Inv, pc = "flush", UNCHANGED engine, Fault, code' = "FsAsyncEngineError", pc' = "abort",
         UNCHANGED <<stalls, issued>>,
         UNCHANGED <<queue, table, fds, record, staging, copyDone, waiting, directRefused, dead,
                     engineError, ret, back, cur, harvest, quota, landed, late>>
  PROVE  Inv'
<1>1. TypeOK /\ Always /\ Control /\ Serving /\ faults \in Nat
  BY DEF Inv, Always, GivenUp, TypeOK, ControlType
<1>2. faults' \in Nat /\ faults <= faults' /\ UNCHANGED <<taken, stopped, refusals>>
  BY <1>1 DEF Fault
<1>3. harvest = <<>> /\ Staging' = {}
  BY <1>1 DEF Control, Harvesting, Staging
<1>4. TypeOK'
  <2>1. EngineType' /\ QueueType' /\ TableType'
    BY <1>1 DEF TypeOK, EngineType, QueueType, TableType, engine, queue, table
  <2>2. RecordType'
    BY <1>1 DEF TypeOK, RecordType, record, staging
  <2>3. ControlType'
    BY <1>1, <1>2 DEF TypeOK, ControlType, Pcs
  <2> QED BY <2>1, <2>2, <2>3 DEF TypeOK
<1>5. Control'
  BY <1>1, <1>2, <1>3 DEF Control, Quiescing, Resuming, Harvesting, table, staging, queue, None
<1>6. Pools' /\ Answering' /\ NoFalseSuccess' /\ Remaining' /\ Blamed'
  BY <1>1, <1>2, PoolsSame, AnsweringSame, NoFalseSame, RemainingSame, BlamedSame
     DEF Always, record, staging, table
<1>7. StallIsReal'
  BY <1>1, StallSame DEF Always, engine
<1>8. Spread' /\ Recorded'
  BY <1>1, <1>3, SpreadSame, RecordedSame DEF Serving, seats, engine, queue, staging, record
<1>9. Credit' /\ Bounced'
  BY <1>1, <1>3, CreditSame, BouncedSame DEF Serving, queue, staging, record, Quiescing
<1>10. Holding' /\ Counted'
  BY <1>1, ReadsSame, HoldingSame, CountedSame DEF Serving, staging, engine
<1>11. Refusals'
  BY <1>1, <1>2, RefusalsSame DEF Serving, record, engine
<1> QED BY <1>4, <1>5, <1>6, <1>7, <1>8, <1>9, <1>10, <1>11 DEF Inv, Always, Serving

(* What a flush counts, and where it goes next.                            *)
LEMMA FlushedFacts ==
  ASSUME TypeOK, NEW m \in Nat, NEW b \in BOOLEAN, Flushed(m, b)
  PROVE  /\ issued' = issued + m /\ stalls' \in Nat /\ (stalls' > 0 => issued' = 0)
         /\ pc' \in {"abort", "wait"} /\ code' \in {None, "FinishedError", "FsAsyncEngineError"}
         /\ pc' = "abort" => code' = "FsAsyncEngineError"
<1>1. issued \in Nat /\ stalls \in Nat /\ code \in {None, "FinishedError", "FsAsyncEngineError"}
  BY DEF TypeOK, ControlType
<1>2. issued' = issued + m
  BY DEF Flushed
<1>3. \/ stalls' = 0 /\ code' = "FsAsyncEngineError" /\ pc' = "abort"
      \/ CountStalls(m, b) /\ pc' = "wait" /\ UNCHANGED code
  BY DEF Flushed
<1>4. CASE stalls' = 0 /\ code' = "FsAsyncEngineError" /\ pc' = "abort"
  BY <1>2, <1>4
<1>5. CASE CountStalls(m, b) /\ pc' = "wait" /\ UNCHANGED code
  <2>1. (stalls' = stalls + 1 /\ m = 0 /\ issued = 0) \/ stalls' = 0
    BY <1>5 DEF CountStalls
  <2> QED BY <1>1, <1>2, <1>5, <2>1
<1> QED BY <1>3, <1>4, <1>5

(* A flush.                                                                *)
LEMMA FlushStep ==
  ASSUME Inv, Flush
  PROVE  Inv'
<1>1. PICK d : d = [i \in DOMAIN staged |-> Descriptor(staged[i])]
  OBVIOUS
<1>2. /\ pc = "flush"
      /\ UNCHANGED <<queue, table, fds, record, staging, copyDone, waiting, directRefused, dead,
                     engineError, ret, back, cur, harvest, quota, landed, late>>
      /\ \/ \E n \in 0..Len(staged) :
              FlushIssues(n, d) /\ Flushed(n, n < Len(staged)) /\ UNCHANGED world
         \/ \E n \in 0..Len(staged), err \in {"einval", "error"} :
              /\ FlushRefuses(n, err, d)
              /\ Flushed(RefusedCounted(n), FALSE)
              /\ \/ err = "error" /\ Fault
                 \/ /\ err = "einval" /\ refusals < MaxRefusals /\ refusals' = refusals + 1
                    /\ UNCHANGED <<taken, stopped, faults>>
         \/ /\ FlushFails /\ Fault
            /\ code' = "FsAsyncEngineError" /\ pc' = "abort"
            /\ UNCHANGED <<stalls, issued>>
  BY <1>1 DEF Flush
<1>3. /\ TypeOK /\ faults \in Nat /\ refusals \in Nat /\ staged \in Seq(Entry) /\ Len(staged) \in Nat
      /\ DOMAIN staged = 1..Len(staged) /\ \A i \in DOMAIN staged : staged[i].id \in Chunks
  BY SeqFacts, RecordIds DEF Inv, Always, TypeOK, ControlType, EngineType
<1>4. ASSUME NEW n \in 0..Len(staged), FlushIssues(n, d), Flushed(n, n < Len(staged)), UNCHANGED world
      PROVE  Inv'
  <2>1. n \in Nat /\ n <= Len(staged) /\ (n < Len(staged)) \in BOOLEAN
    BY <1>3
  <2>2. /\ issued' = issued + n /\ stalls' \in Nat /\ (stalls' > 0 => issued' = 0)
        /\ pc' \in {"abort", "wait"} /\ code' \in {None, "FinishedError", "FsAsyncEngineError"}
        /\ pc' = "abort" => code' = "FsAsyncEngineError"
    BY <1>3, <1>4, <2>1, FlushedFacts
  <2>3. /\ Take(n, d) /\ staged' = SubSeq(staged, n + 1, Len(staged)) /\ refused' = refused
        /\ UNCHANGED <<ring, broken>>
    BY <1>4 DEF FlushIssues
  <2>4. faults' \in Nat /\ faults <= faults' /\ refusals' \in Nat /\ UNCHANGED <<taken, stopped>>
    BY <1>3, <1>4 DEF world
  <2>5. PICK m \in {n, n + 1} : m = n
    OBVIOUS
  <2>6. /\ m <= Len(staged) /\ staged' = SubSeq(staged, m + 1, Len(staged)) /\ issued' = issued + m
        /\ (m = n => refused' = refused) /\ m # n + 1
    BY <2>1, <2>2, <2>3, <2>5
  <2>7. PICK k : k = <<>>
    OBVIOUS
  <2>8. m = n + 1 => k \in Completion /\ refused' = Append(refused, k) /\ k.id = staged[n + 1].id
                     /\ Excused(k.id, k.err)'
    BY <2>6
  <2> HIDE DEF Inv
  <2> QED BY <1>1, <1>2, <2>1, <2>2, <2>3, <2>4, <2>6, <2>8, FlushMoves
<1>5. ASSUME NEW n \in 0..Len(staged), NEW err \in {"einval", "error"},
             FlushRefuses(n, err, d), Flushed(RefusedCounted(n), FALSE),
             \/ err = "error" /\ Fault
             \/ /\ err = "einval" /\ refusals < MaxRefusals /\ refusals' = refusals + 1
                /\ UNCHANGED <<taken, stopped, faults>>
      PROVE  Inv'
  <2>1. n \in Nat /\ n < Len(staged) /\ n + 1 \in DOMAIN staged /\ n + 1 \in Nat
    BY <1>3, <1>5 DEF FlushRefuses
  <2>2. /\ issued' = issued + (n + 1) /\ stalls' \in Nat /\ (stalls' > 0 => issued' = 0)
        /\ pc' \in {"abort", "wait"} /\ code' \in {None, "FinishedError", "FsAsyncEngineError"}
        /\ pc' = "abort" => code' = "FsAsyncEngineError"
    BY <1>3, <1>5, <2>1, FlushedFacts DEF RefusedCounted
  <2>3. PICK k : k = Failure(staged[n + 1].id, err)
    OBVIOUS
  <2>4. k \in Completion /\ k.id = staged[n + 1].id /\ k.err = err
    BY <1>3, <2>1, <2>3 DEF Completion, Failure
  <2>5. /\ Take(n, d) /\ staged' = SubSeq(staged, n + 2, Len(staged)) /\ refused' = Append(refused, k)
        /\ UNCHANGED <<ring, broken>> /\ (err = "einval" => d[n + 1])
    BY <1>5, <2>3 DEF FlushRefuses
  <2>6. /\ faults' \in Nat /\ faults <= faults' /\ refusals' \in Nat /\ UNCHANGED <<taken, stopped>>
        /\ (err = "error" => faults' > 0)
    BY <1>3, <1>5 DEF Fault
  <2>7. err = "einval" => fds[k.id[1]][File(k.id)] = "direct"
    BY <1>1, <2>1, <2>4, <2>5 DEF Descriptor
  <2>8. Excused(k.id, k.err)'
    BY <1>2, <2>4, <2>6, <2>7 DEF Excused
  <2>9. PICK m \in {n, n + 1} : m = n + 1
    OBVIOUS
  <2>10. m + 1 = n + 2 /\ m <= Len(staged) /\ m # n
    BY <1>3, <2>1, <2>9
  <2>11. /\ staged' = SubSeq(staged, m + 1, Len(staged)) /\ issued' = issued + m
         /\ (m = n => refused' = refused)
         /\ m = n + 1 => k \in Completion /\ refused' = Append(refused, k) /\ k.id = staged[n + 1].id
                         /\ Excused(k.id, k.err)'
    BY <2>2, <2>4, <2>5, <2>8, <2>9, <2>10
  <2> QED BY <1>1, <1>2, <2>1, <2>2, <2>5, <2>6, <2>10, <2>11, FlushMoves
<1>6. ASSUME FlushFails, Fault, code' = "FsAsyncEngineError", pc' = "abort", UNCHANGED <<stalls, issued>>
      PROVE  Inv'
  BY <1>2, <1>6, FlushFailsStep DEF FlushFails
<1> QED BY <1>2, <1>4, <1>5, <1>6

-----------------------------------------------------------------------------
(* Nothing changes.                                                        *)
LEMMA RestStep ==
  ASSUME Inv, UNCHANGED vars
  PROVE  Inv'
<1>1. UNCHANGED <<engine, queue, table, fds, record, staging, copyDone, waiting, issued, flags, control,
                  world, landed, late>>
  BY DEF vars
<1>2. /\ pc' = pc /\ ret' = ret /\ quota' = quota /\ stopped' = stopped /\ code' = code
      /\ UNCHANGED <<back, cur, harvest, taken, faults, refusals>>
  BY <1>1 DEF control, world
<1>3. Control'
  BY <1>1, <1>2 DEF Inv, Always, Control, Quiescing, Resuming, Harvesting, queue, table, flags, staging
<1>4. TypeOK
  BY DEF Inv, Always
<1>5. GivenUp => pc \in {"idle", "loop", "pump", "exit"}
  BY DEF GivenUp
<1>6. Quiescing => Quiescing'
  BY <1>2 DEF Quiescing
<1>7. /\ pc' \in Pcs /\ ret' \in {"loop", "tail", "drain"} /\ quota' \in Nat
      /\ code' \in {None, "FinishedError", "FsAsyncEngineError"}
  BY <1>2, <1>4 DEF TypeOK, ControlType
<1>8. stopped' \in BOOLEAN
  BY <1>2, <1>4, Zenon DEF TypeOK, ControlType
<1> QED BY <1>1, <1>2, <1>3, <1>5, <1>6, <1>7, <1>8, Steered

(* Every step of the thread, the kernel, the device and the pool keeps the *)
(* invariant.                                                              *)
LEMMA NextStep ==
  ASSUME Inv, [Next]_vars
  PROVE  Inv'
<1>1. CASE worker
  <2>1. CASE Loop \/ Drain \/ Turn \/ EndCopies \/ EndHarvest \/ CopiesQuiet \/ Exit
    BY <2>1, SteeringStep
  <2>2. CASE Pump
    BY <2>2, PumpStep, SteeringStep
  <2>3. CASE Resume
    <3>1. quota > 0 \/ quota = 0
      BY <2>3 DEF Resume
    <3> QED BY <2>3, <3>1, ResumeStep, SteeringStep
  <2>4. CASE Wait
    BY <2>4, WaitStep, SteeringStep
  <2>5. CASE Discard \/ EnqueueDead
    BY <2>5, DismissedStep
  <2>6. CASE Enqueue
    BY <2>6, EnqueueStep
  <2>7. CASE StageParks \/ StageFails \/ StageRead
    BY <2>7, StageParksStep, StageFailsStep, StageReadStep
  <2>8. CASE DrainCopy
    BY <2>8, DrainCopyStep
  <2>9. CASE Flush
    BY <2>9, FlushStep
  <2>10. CASE HarvestRead \/ HarvestTransient
    BY <2>10, HarvestReadStep, HarvestTransientStep
  <2>11. CASE HarvestRefused \/ HarvestFailed
    BY <2>11, HarvestRefusedStep, HarvestFailedStep
  <2>12. CASE Abort \/ QuiesceReads \/ FinishAbort
    BY <2>12, AbortStep, QuiesceReadsStep, FinishAbortStep
  <2> QED BY <1>1, <2>1, <2>2, <2>3, <2>4, <2>5, <2>6, <2>7, <2>8, <2>9, <2>10, <2>11, <2>12 DEF worker
<1>2. CASE \E rd \in kernel : ReadEnds(rd)
  BY <1>2, ReadEndsStep
<1>3. CASE \E c \in copying : CopyEnds(c)
  BY <1>3, CopyEndsStep
<1>4. CASE EngineBreaks
  BY <1>4, EngineBreaksStep
<1>5. CASE Stop
  BY <1>5, SteeringStep
<1>6. CASE Rest \/ UNCHANGED vars
  BY <1>6, RestStep DEF Rest
<1> QED BY <1>1, <1>2, <1>3, <1>4, <1>5, <1>6 DEF Next

(* The invariant holds in every reachable state.                           *)
THEOREM Invariance == Spec => []Inv
<1>1. Inv /\ [Next]_vars => Inv'
  BY NextStep
<1> QED BY <1>1, InitHolds, PTL DEF Spec

(* The worker's state keeps its type: every queue, pool and counter of the *)
(* thread, its table and its engine.                                       *)
THEOREM TypeCorrect == Spec => []TypeOK
<1>1. Inv => TypeOK
  BY DEF Inv, Always
<1> QED BY <1>1, Invariance, PTL

-----------------------------------------------------------------------------
(* While a chunk is being staged, every read the engine has is in a slot   *)
(* other than its own.                                                     *)
LEMMA RoomLeft ==
  ASSUME Inv, pc = "stage"
  PROVE  Room /\ cur \in tracked /\ cur[1] \in live /\ scratch > 0
<1>1. TypeOK /\ Always /\ Control /\ Serving
  BY DEF Inv, Always, GivenUp
<1>2. cur \in Chunks /\ cur \in Staging
  BY <1>1 DEF Control, Staging
<1>3. cur \in tracked /\ cur[1] \in live
  BY <1>1, <1>2 DEF Serving, Recorded, Always, Answering
<1>4. tracked \subseteq Chunks /\ scratch \in Nat /\ bounce \subseteq Chunks /\ credit \in Nat
  BY <1>1 DEF TypeOK, RecordType, QueueType
<1>5. PICK T : T = Slots \ {cur}
  OBVIOUS
<1>6. Slots \subseteq Chunks /\ T \subseteq Chunks
  BY <1>4, <1>5 DEF Slots
<1>7. cur \in Slots /\ Reads \subseteq T
  <2>1. cur \in Slots
    BY <1>1, <1>2, <1>3, OnePlace, SlotsAre DEF Serving
  <2>2. ASSUME NEW x \in Reads PROVE x \in T
    <3>1. x \in tracked
      BY <1>1, <2>2 DEF Serving, Recorded
    <3>2. x \notin copying /\ x \notin Members(pending) /\ x \notin IdsIn(copyDone) /\ x # cur
      BY <1>1, <1>2, <2>2, OnePlace DEF Serving
    <3> QED BY <1>5, <3>1, <3>2, SlotsAre
  <2> QED BY <2>1, <2>2
<1>8. Cardinality(T) \in Nat /\ IsFiniteSet(T) /\ Cardinality(T) < Depth
  <2>1. Cardinality(Slots) \in Nat /\ IsFiniteSet(T) /\ Cardinality(T) \in Nat
    BY <1>6, Countable
  <2>2. Cardinality(T) = Cardinality(Slots) - 1
    BY <1>5, <1>6, <1>7, OneChunk
  <2>3. Cardinality(Slots) <= Depth
    BY <1>1 DEF Serving, Credit, Quiescing
  <2> QED BY <2>1, <2>2, <2>3, DepthAssumption
<1>9. scratch > 0
  <2>1. bounce \subseteq T
    BY <1>1, <1>2, <1>5 DEF Serving, Bounced
  <2>2. Cardinality(bounce) <= Cardinality(T) /\ Cardinality(bounce) \in Nat
    BY <1>4, <1>8, <2>1, FS_Subset, Countable
  <2>3. scratch + Cardinality(bounce) = Depth
    BY <1>1 DEF Always, Pools
  <2> QED BY <1>4, <1>8, <2>2, <2>3, DepthAssumption
<1>10. PICK p \in [Chunks -> Places] : ReadsAt(p)
  BY <1>1 DEF Serving, Spread
<1>11. PICK X \in SUBSET Chunks, Y \in SUBSET Chunks, Z \in SUBSET Chunks :
         X = IdsIn(staged) /\ Y = IdsOf(kernel) /\ Z = IdsIn(ring)
  BY <1>1, Sites
<1>12. X \cap Y = {} /\ (X \cup Y) \cap Z = {} /\ X \cup Y \cup Z \subseteq T
  <2>1. \A x \in X : p[x] = "staged"
    BY <1>10, <1>11 DEF ReadsAt
  <2>2. \A x \in Y : p[x] = "kernel"
    BY <1>10, <1>11 DEF ReadsAt
  <2>3. \A x \in Z : p[x] = "ring"
    BY <1>10, <1>11 DEF ReadsAt
  <2>4. X \cup Y \cup Z \subseteq T
    BY <1>7, <1>11 DEF Reads, AtEngine
  <2> QED BY <2>1, <2>2, <2>3, <2>4
<1>13. Len(staged) = Cardinality(X) /\ Cardinality(kernel) = Cardinality(Y) /\ Len(ring) = Cardinality(Z)
  <2>1. /\ staged \in Seq(Entry) /\ ring \in Seq(Completion) /\ OneIn(staged) /\ OneIn(ring)
    BY <1>1 DEF TypeOK, EngineType, Serving, Spread, OneRead
  <2>2. Len(staged) = Cardinality(X)
    BY <1>11, <2>1, IdsCount
  <2>3. Len(ring) = Cardinality(Z)
    BY <1>11, <2>1, IdsCount
  <2>4. Cardinality(kernel) = Cardinality(Y)
    BY <1>1, <1>11, OwedNat DEF Serving
  <2> QED BY <2>2, <2>3, <2>4
<1>14. Cardinality(X) + Cardinality(Y) + Cardinality(Z) < Depth
  <2>1. PICK x \in Nat, y \in Nat, z \in Nat : x = Cardinality(X) /\ y = Cardinality(Y) /\ z = Cardinality(Z)
    BY Countable
  <2>2. IsFiniteSet(X) /\ IsFiniteSet(Y) /\ IsFiniteSet(Z) /\ IsFiniteSet(X \cup Y)
    BY Countable
  <2>3. Cardinality({}) = 0
    BY FS_EmptySet
  <2>4. Cardinality(X \cup Y) = x + y - 0
    BY <1>12, <2>1, <2>2, <2>3, FS_Union
  <2>5. Cardinality((X \cup Y) \cup Z) = (x + y - 0) + z - 0
    <3>1. PICK V : V = X \cup Y
      OBVIOUS
    <3>2. IsFiniteSet(V) /\ V \cap Z = {} /\ Cardinality(V) = x + y - 0
      BY <1>12, <2>2, <2>4, <3>1
    <3>3. Cardinality(V \cup Z) = Cardinality(V) + Cardinality(Z) - Cardinality(V \cap Z)
      BY <2>2, <3>2, FS_Union
    <3> QED BY <2>1, <2>3, <3>1, <3>2, <3>3
  <2>6. Cardinality((X \cup Y) \cup Z) <= Cardinality(T)
    BY <1>8, <1>12, FS_Subset
  <2>7. (x + y - 0) + z - 0 = x + y + z
    OBVIOUS
  <2>8. x + y + z <= Cardinality(T)
    BY <2>5, <2>6, <2>7
  <2> QED BY <1>8, <2>1, <2>8, DepthAssumption
<1>15. Room
  <2>1. PICK x \in Nat, y \in Nat, z \in Nat : x = Cardinality(X) /\ y = Cardinality(Y) /\ z = Cardinality(Z)
    BY Countable
  <2>2. x + y + z < Depth /\ x < Depth
    BY <1>14, <2>1, DepthAssumption
  <2> QED BY <1>13, <2>1, <2>2, EngineAssumption DEF Room
<1> QED BY <1>3, <1>9, <1>15

(* The invariant keeps the books.                                          *)
LEMMA BooksKept ==
  ASSUME Inv
  PROVE  LedgersExact
<1>1. TypeOK /\ Always /\ Control /\ (Serving \/ GivenUp)
  BY DEF Inv, Always
<1>2. GivenUp => harvest = <<>> /\ pc # "stage" /\ Slots = {}
  BY <1>1 DEF GivenUp, Control, Harvesting, Slots
<1>3. pc \notin {"quiesceCopies", "quiesceReads"} => credit = Cardinality(Slots)
  <2>1. CASE Serving
    BY <2>1 DEF Serving, Credit, Quiescing
  <2>2. CASE GivenUp
    BY <1>2, <2>2, FS_EmptySet DEF GivenUp
  <2> QED BY <1>1, <2>1, <2>2
<1>4. /\ scratch + Cardinality(bounce) = Depth
      /\ buffers + Cardinality(holds) + Cardinality(copying) = Depth + CopyDepth
  BY <1>1 DEF Always, Pools
<1>5. ~broken => issued = Owed + Len(harvest)
  <2>1. CASE Serving
    BY <2>1 DEF Serving, Counted
  <2>2. CASE GivenUp
    <3>1. Len(harvest) = 0 /\ issued = 0 /\ (~broken => Owed = 0)
      BY <1>2, <2>2 DEF GivenUp
    <3> QED BY <3>1
  <2> QED BY <1>1, <2>1, <2>2
<1>6. pc = "stage" => Room /\ cur \in tracked /\ cur[1] \in live /\ scratch > 0
  BY RoomLeft
<1>7. \A i \in DOMAIN harvest : harvest[i].id \in tracked
  <2>1. CASE Serving
    BY <2>1 DEF Serving, Recorded, Reads, IdsIn
  <2>2. CASE GivenUp
    BY <1>2, <2>2
  <2> QED BY <1>1, <2>1, <2>2
<1> QED BY <1>1, <1>3, <1>4, <1>5, <1>6, <1>7 DEF LedgersExact, Always

(* The invariant keeps the answers true.                                   *)
LEMMA AnswersKept ==
  ASSUME Inv
  PROVE  AnswersHonest
<1>1. TypeOK /\ Always /\ Control /\ (Serving \/ GivenUp)
  BY DEF Inv, Always
<1>2. /\ \A c \in tracked : answer[c] = None
      /\ \A c \in Chunks : answer[c] = "Success" => c \in landed
      /\ \A c \in Ranges : c[1] <= taken /\ c[1] \notin live => answer[c] # None
      /\ RefusalForgiven
  BY <1>1 DEF Always, Answering, Blamed
<1>3. ASSUME NEW c \in Chunks, answer[c] # None
      PROVE  c \notin copying /\ (~broken => \A rd \in kernel : rd.id # c)
  <2>1. CASE Serving
    <3>1. copying \subseteq tracked /\ IdsOf(kernel) \subseteq tracked
      BY <2>1 DEF Serving, Recorded, Reads, AtEngine
    <3> QED BY <1>2, <1>3, <3>1 DEF IdsOf
  <2>2. CASE GivenUp
    <3>1. copying = {}
      <4>1. copying \subseteq Chunks /\ copyDone \in Seq(CopyReport)
        BY <1>1 DEF TypeOK, RecordType
      <4>2. IsFiniteSet(copying) /\ Cardinality(copying) \in Nat /\ Len(copyDone) \in Nat
        BY <4>1, Countable, SeqFacts
      <4>3. Cardinality(copying) + Len(copyDone) = 0
        BY <1>1, <2>2 DEF GivenUp, Always, Pools
      <4>4. Cardinality(copying) = 0
        BY <4>2, <4>3
      <4> QED BY <4>2, <4>4, FS_EmptySet
    <3>2. ASSUME ~broken, NEW rd \in kernel PROVE FALSE
      <4>1. Owed > 0 /\ Owed = 0
        BY <1>1, <2>2, <3>2, KernelOwes DEF GivenUp
      <4> QED BY <4>1
    <3> QED BY <3>1, <3>2
  <2> QED BY <1>1, <2>1, <2>2
<1> QED BY <1>2, <1>3 DEF AnswersHonest

(* For any workloads, depth, engine and number of failures: credit, scratch*)
(* buffers, staging buffers and the count of reads out are exact on every  *)
(* path of short reads, retries, fallbacks, copies and failures, and       *)
(* stage_pending always finds an entry and a scratch buffer free.          *)
THEOREM LedgersAreExact == Spec => []LedgersExact
<1>1. Inv => LedgersExact
  BY BooksKept
<1> QED BY <1>1, Invariance, PTL

(* For any workloads, depth, engine and number of failures: no answer is   *)
(* given for a range that the kernel or a copy may still write, Success    *)
(* means the bytes are there, a refused direct read fails no file by       *)
(* itself, and a workload let go of is answered whole.                     *)
THEOREM AnswersAreHonest == Spec => []AnswersHonest
<1>1. Inv => AnswersHonest
  BY AnswersKept
<1> QED BY <1>1, Invariance, PTL

(* Both: the worker's books are exact and its answers true.                *)
THEOREM Soundness == Spec => []Sound
<1>1. Inv => Sound
  BY BooksKept, AnswersKept DEF Sound
<1> QED BY <1>1, Invariance, PTL
=============================================================================
