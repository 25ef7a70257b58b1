-------------------------- MODULE DevicePathProofs --------------------------
(***************************************************************************)
(* Proofs about DevicePath, for any readers, loads, numbers of buffers and *)
(* events, and any faults: AnsweredOnDevice and MemoryOwned hold in every  *)
(* reachable state.                                                        *)
(*                                                                         *)
(* The copies of the readers form one line, from the lane's queue to the   *)
(* report of the waiter.  The inductive invariant says that the line keeps *)
(* each reader's blocks in order (InOrder), that what a reader has in it   *)
(* is what it has submitted and not been told (Lined, Counted), and, until *)
(* the first failure, that the blocks it was told of are the first ones    *)
(* (Prefix); that each buffer is in one place and holds the block of the   *)
(* copy that reads it (Pools, Filled, Streaming); and that a copy whose    *)
(* end is reported has landed (Landing, Landed).                           *)
(***************************************************************************)
EXTENDS DevicePath, FiniteSetTheorems, SequenceTheorems, TLAPS

(* What a task may be answered with, and "none" before that. *)
Code == {"none", Success, Driver, Transfer, "DeviceUnavailable", "DeviceOutOfMemory", "FileAccessError",
         "FinishedError"}
Buffer == 1 .. MaxBuffers
Block == [reader : Readers, batch : Nat \ {0}, block : Nat \ {0}]
Copy == [block : Block, buffer : Buffer]
Bytes == Block \cup {NoBytes}
Pool == [made : 0 .. MaxBuffers, free : Seq(Buffer), retired : SUBSET Buffer, code : Code,
         parked : BOOLEAN, freed : BOOLEAN]
Reader == [at : {"next", "loop", "read", "submit", "answer", "drain", "gone"}, batch : Nat,
           block : Nat, buffer : 0 .. MaxBuffers, submitted : Nat, landed : Nat, failure : Code,
           posts : Nat, thrown : Code]

(* What a thread has in its hands, by what it is doing. *)
Hands(at, stages) ==
  /\ at.doing \in {"idle", "joined", "report"} \cup stages
  /\ at.doing \in {"idle", "joined"} => at = [doing |-> at.doing]
  /\ at.doing \in stages => at = [doing |-> at.doing, copy |-> at.copy] /\ at.copy \in Copy
  /\ at.doing = "report" =>
       /\ at = [doing |-> "report", copy |-> at.copy, code |-> at.code]
       /\ at.copy \in Copy /\ at.code \in Code

(* The type of every variable. *)
TypeOK ==
  /\ pool \in [Readers -> Pool]
  /\ reader \in [Readers -> Reader]
  /\ told \in [Readers -> Seq(Seq(Code))]
  /\ filled \in [Readers -> [Buffer -> Bytes]]
  /\ dest \in [Readers -> Seq(Seq(Bytes))]
  /\ \A r \in Readers : /\ DOMAIN dest[r] = DOMAIN told[r]
                        /\ \A b \in DOMAIN told[r] : DOMAIN dest[r][b] = DOMAIN told[r][b]
  /\ opened \in BOOLEAN /\ broken \in BOOLEAN /\ stopped \in BOOLEAN
  /\ lane \in Seq(Copy \cup {Sentinel}) /\ waiter \in Seq(Copy \cup {Sentinel})
  /\ Hands(laneAt, {"bind", "copy", "record", "sync"}) /\ laneBound \in BOOLEAN
  /\ Hands(waiterAt, {"wait"}) /\ waiterBound \in BOOLEAN
  /\ stream \in Seq(Copy) /\ events \in Int

(* The blocks there are. *)
Exists(b) == b.batch \in DOMAIN told[b.reader] /\ b.block \in DOMAIN told[b.reader][b.batch]

(* The bytes of a block are at its destination. *)
Arrived(b) == dest[b.reader][b.batch][b.block] = b

(* A reader is in a batch: its locals are those of a read_to_device. *)
Within(r) == reader[r].at \notin {"next", "gone"}

(* A reader is inside a batch of its load, has submitted the blocks before *)
(* the one it is at, and leaves the loop early for a reason.               *)
Walking ==
  \A r \in Readers :
    /\ reader[r].batch <= Len(told[r])
    /\ Within(r) => /\ reader[r].batch \in DOMAIN told[r]
                    /\ reader[r].block <= Blocks(r) /\ reader[r].submitted = reader[r].block
    /\ reader[r].at \in {"read", "submit"} => reader[r].block < Blocks(r)
    /\ reader[r].at = "drain" /\ reader[r].thrown = Success /\ ~stopped => reader[r].block = Blocks(r)

Line == InLane \cup InWaiter
Pending(r) == {c \in Line : c.block.reader = r}

(* Everything in the line is of its reader's current batch. *)
Lined ==
  \A c \in Line : /\ Exists(c.block) /\ Within(c.block.reader)
                  /\ c.block.batch = reader[c.block.reader].batch
                  /\ c.block.block <= reader[c.block.reader].submitted

(* The line keeps the blocks of a reader in order. *)
Earlier(c, d) == c.block.reader = d.block.reader => c.block.block < d.block.block
Sorted(q) == \A i, j \in 1 .. Len(q) : i < j /\ q[i] # Sentinel /\ q[j] # Sentinel => Earlier(q[i], q[j])
InOrder ==
  /\ Sorted(lane) /\ Sorted(waiter)
  /\ \A c \in InHands(waiterAt) : \A d \in Queued(waiter) \cup InHands(laneAt) \cup Queued(lane) : Earlier(c, d)
  /\ \A c \in Queued(waiter) : \A d \in InHands(laneAt) \cup Queued(lane) : Earlier(c, d)
  /\ \A c \in InHands(laneAt) : \A d \in Queued(lane) : Earlier(c, d)

(* A reader has in the line what it submitted and was not told of. *)
Counted ==
  \A r \in Readers : Within(r) =>
    /\ IsFiniteSet(Pending(r))
    /\ reader[r].posts + Cardinality(Pending(r)) = reader[r].submitted

(* Until something fails it has been told of the first blocks, and the     *)
(* others are in the line.                                                 *)
Prefix ==
  \A r \in Readers : Within(r) /\ reader[r].failure = Success =>
    /\ reader[r].landed = reader[r].posts
    /\ \A c \in Pending(r) : c.block.block > reader[r].posts
    /\ \A k \in 1 .. reader[r].submitted : k > reader[r].posts => \E c \in Pending(r) : c.block.block = k

(* What a reader counts as landed has arrived. *)
Landed ==
  \A r \in Readers : Within(r) =>
    /\ reader[r].landed <= reader[r].submitted
    /\ \A k \in 1 .. reader[r].landed : Arrived([reader |-> r, batch |-> reader[r].batch, block |-> k])

(* The copies that still need their buffer, and those that were enqueued. *)
LaneHolds == IF laneAt.doing \in {"bind", "copy", "record", "sync"} THEN {laneAt.copy} ELSE {}
LaneEnqueued == IF laneAt.doing \in {"record", "sync"} THEN {laneAt.copy} ELSE {}
WaiterHolds == IF waiterAt.doing = "wait" THEN {waiterAt.copy} ELSE {}
Holding == Queued(lane) \cup LaneHolds \cup Queued(waiter) \cup WaiterHolds
Enqueued == LaneEnqueued \cup Queued(waiter) \cup WaiterHolds

(* An enqueued copy is on the stream or has landed; what is reported a     *)
(* success has landed, and the lane reports only failures.                 *)
Landing ==
  /\ \A c \in Enqueued : c \in Range(stream) \/ Arrived(c.block)
  /\ waiterAt.doing = "report" /\ waiterAt.code = Success => Arrived(waiterAt.copy.block)
  /\ laneAt.doing = "report" => laneAt.code # Success

(* A reader's buffers: free ones are listed once, retired ones never come  *)
(* back, and the one the reader has in its hands is neither.               *)
HasBuffer(r) == reader[r].at \in {"read", "submit"}
PoolOf(r) ==
  /\ \A i \in 1 .. Len(pool[r].free) : pool[r].free[i] <= pool[r].made /\ pool[r].free[i] \notin pool[r].retired
  /\ \A i, j \in 1 .. Len(pool[r].free) : pool[r].free[i] = pool[r].free[j] => i = j
  /\ \A i \in pool[r].retired : i <= pool[r].made
  /\ HasBuffer(r) => /\ reader[r].buffer \in 1 .. pool[r].made /\ reader[r].buffer \notin pool[r].retired
                     /\ \A i \in 1 .. Len(pool[r].free) : pool[r].free[i] # reader[r].buffer
  /\ pool[r].retired # {} => pool[r].code # Success
  /\ pool[r].freed => reader[r].at = "gone"
Pools == \A r \in Readers : PoolOf(r)

(* The buffer of a copy that needs it is nobody else's and holds its block. *)
Kept(c) ==
  /\ c.buffer <= pool[c.block.reader].made /\ c.buffer \notin pool[c.block.reader].retired
  /\ \A i \in 1 .. Len(pool[c.block.reader].free) : pool[c.block.reader].free[i] # c.buffer
  /\ HasBuffer(c.block.reader) => reader[c.block.reader].buffer # c.buffer
  /\ filled[c.block.reader][c.buffer] = c.block
Filled ==
  /\ \A c \in Holding : Kept(c)
  /\ \A r \in Readers : reader[r].at = "submit" => filled[r][reader[r].buffer] = Current(r)

(* What is on the stream is still enqueued, or nobody knows when it ends   *)
(* and its buffer is retired.                                              *)
Streaming ==
  \A c \in Range(stream) :
    /\ Exists(c.block)
    /\ \/ c \in Enqueued
       \/ /\ c.buffer \in pool[c.block.reader].retired
          /\ filled[c.block.reader][c.buffer] = c.block

(* The inductive invariant. *)
Inv ==
  /\ TypeOK /\ Walking /\ Lined /\ InOrder /\ Counted /\ Prefix /\ Landed /\ Landing /\ Pools /\ Filled
  /\ Streaming /\ AnsweredOnDevice
-----------------------------------------------------------------------------
(* The sentinel that ends a queue is no copy.                              *)
LEMMA SentinelApart == Sentinel \notin Copy
  BY DEF Sentinel, Copy

(* What is queued, after something is appended and after the head is taken. *)
LEMMA QueuedAppend ==
  ASSUME NEW S, NEW q \in Seq(S), NEW x \in S
  PROVE  Queued(Append(q, x)) = Queued(q) \cup ({x} \ {Sentinel})
<1>1. Range(Append(q, x)) = Range(q) \cup {x}
  <2>1. DOMAIN Append(q, x) = 1 .. (Len(q) + 1) /\ DOMAIN q = 1 .. Len(q)
    OBVIOUS
  <2>2. \A i \in 1 .. (Len(q) + 1) : Append(q, x)[i] = IF i = Len(q) + 1 THEN x ELSE q[i]
    OBVIOUS
  <2> QED
    BY <2>1, <2>2 DEF Range
<1> QED
  BY <1>1 DEF Queued

(* What is queued is the head and what is queued behind it.                 *)
LEMMA QueuedTail ==
  ASSUME NEW S, NEW q \in Seq(S), q # <<>>
  PROVE  Queued(q) = Queued(Tail(q)) \cup ({Head(q)} \ {Sentinel})
<1>1. Range(q) = Range(Tail(q)) \cup {Head(q)}
  <2>1. DOMAIN Tail(q) = 1 .. (Len(q) - 1) /\ DOMAIN q = 1 .. Len(q) /\ Len(q) > 0
    OBVIOUS
  <2>2. \A i \in 1 .. (Len(q) - 1) : Tail(q)[i] = q[i + 1]
    OBVIOUS
  <2>3. Head(q) = q[1]
    OBVIOUS
  <2>4. ASSUME NEW i \in 1 .. Len(q)
        PROVE  q[i] \in Range(Tail(q)) \cup {Head(q)}
    <3>1. CASE i = 1
      BY <2>3, <3>1
    <3>2. CASE i # 1
      <4>1. i - 1 \in 1 .. (Len(q) - 1) /\ (i - 1) + 1 = i
        BY <2>1, <3>2
      <4>2. Tail(q)[i - 1] = q[i]
        BY <2>2, <4>1
      <4> QED
        BY <2>1, <4>1, <4>2 DEF Range
    <3> QED
      BY <3>1, <3>2
  <2>5. ASSUME NEW i \in 1 .. (Len(q) - 1)
        PROVE  Tail(q)[i] \in Range(q)
    <3>1. i + 1 \in 1 .. Len(q)
      BY <2>1
    <3> QED
      BY <2>1, <2>2, <3>1 DEF Range
  <2>6. Head(q) \in Range(q)
    BY <2>1, <2>3 DEF Range
  <2>7. Range(q) \subseteq Range(Tail(q)) \cup {Head(q)}
    BY <2>1, <2>4 DEF Range
  <2>8. Range(Tail(q)) \subseteq Range(q)
    BY <2>1, <2>5 DEF Range
  <2> QED
    BY <2>6, <2>7, <2>8
<1> QED
  BY <1>1 DEF Queued

(* A queue holds copies and the sentinel.                                   *)
LEMMA QueuedIsCopies ==
  ASSUME NEW q \in Seq(Copy \cup {Sentinel})
  PROVE  Queued(q) \subseteq Copy
  BY DEF Queued, Range

(* A sorted queue stays sorted when its head is taken, and when a later    *)
(* copy is appended.                                                       *)
LEMMA SortedTail ==
  ASSUME NEW S, NEW q \in Seq(S), q # <<>>, Sorted(q)
  PROVE  Sorted(Tail(q))
<1>1. Tail(q) \in Seq(S) /\ Len(Tail(q)) = Len(q) - 1 /\ \A i \in 1 .. Len(Tail(q)) : Tail(q)[i] = q[i + 1]
  OBVIOUS
<1> QED
  BY <1>1 DEF Sorted

(* The head of a sorted queue is earlier than what is behind it.            *)
LEMMA HeadFirst ==
  ASSUME NEW S, NEW q \in Seq(S), q # <<>>, Sorted(q), Head(q) # Sentinel
  PROVE  \A d \in Queued(Tail(q)) : Earlier(Head(q), d)
<1>1. Tail(q) \in Seq(S) /\ Len(Tail(q)) = Len(q) - 1 /\ \A i \in 1 .. Len(Tail(q)) : Tail(q)[i] = q[i + 1]
  OBVIOUS
<1>2. ASSUME NEW d \in Queued(Tail(q))
      PROVE  Earlier(Head(q), d)
  <2>1. PICK i \in 1 .. Len(Tail(q)) : d = Tail(q)[i]
    BY <1>1 DEF Queued, Range
  <2>2. d = q[i + 1] /\ Head(q) = q[1] /\ i + 1 \in 1 .. Len(q) /\ 1 \in 1 .. Len(q) /\ 1 < i + 1
    BY <1>1, <2>1
  <2>3. d # Sentinel
    BY DEF Queued
  <2> QED
    BY <2>2, <2>3 DEF Sorted
<1> QED
  BY <1>2

(* And a copy later than all of it may be appended.                         *)
LEMMA SortedAppend ==
  ASSUME NEW S, NEW q \in Seq(S), Sorted(q), NEW x \in S, x # Sentinel => \A c \in Queued(q) : Earlier(c, x)
  PROVE  Sorted(Append(q, x))
<1>1. /\ Len(Append(q, x)) = Len(q) + 1 /\ Append(q, x)[Len(q) + 1] = x
      /\ \A i \in 1 .. Len(q) : Append(q, x)[i] = q[i]
  OBVIOUS
<1>2. \A i \in 1 .. Len(q) : q[i] # Sentinel => q[i] \in Queued(q)
  BY DEF Queued, Range
<1> QED
  BY <1>1, <1>2 DEF Sorted
-----------------------------------------------------------------------------
(* Types.                                                                  *)

(* A function on an initial segment is a sequence.                         *)
LEMMA MakesSeq ==
  ASSUME NEW S, NEW n \in Nat, NEW f \in [1 .. n -> S]
  PROVE  f \in Seq(S) /\ Len(f) = n
  BY SeqDef, LenProperties

(* The initial state has its type.                                         *)
LEMMA TypeInit == Init => TypeOK
<1> SUFFICES ASSUME Init PROVE TypeOK
  OBVIOUS
<1>1. PICK load \in Loads : told = [r \in Readers |-> [b \in DOMAIN load[r] |-> [k \in 1 .. load[r][b] |-> "none"]]]
  BY DEF Init
<1>2. load \in [Readers -> Seq(Nat \ {0})]
  BY DeviceAssumption
<1>3. ASSUME NEW r \in Readers
      PROVE  /\ told[r] \in Seq(Seq(Code)) /\ dest[r] \in Seq(Seq(Bytes)) /\ DOMAIN dest[r] = DOMAIN told[r]
             /\ \A b \in DOMAIN told[r] : DOMAIN dest[r][b] = DOMAIN told[r][b]
  <2>1. load[r] \in Seq(Nat \ {0}) /\ DOMAIN load[r] = 1 .. Len(load[r]) /\ Len(load[r]) \in Nat
    BY <1>2
  <2>2. told[r] = [b \in 1 .. Len(load[r]) |-> [k \in 1 .. load[r][b] |-> "none"]]
    BY <1>1, <2>1
  <2>3. dest[r] = [b \in DOMAIN told[r] |-> [k \in DOMAIN told[r][b] |-> NoBytes]]
    BY DEF Init
  <2>4. ASSUME NEW b \in 1 .. Len(load[r])
        PROVE  [k \in 1 .. load[r][b] |-> "none"] \in Seq(Code) /\ [k \in 1 .. load[r][b] |-> NoBytes] \in Seq(Bytes)
    <3>1. load[r][b] \in Nat
      BY <2>1
    <3>2. [k \in 1 .. load[r][b] |-> "none"] \in [1 .. load[r][b] -> Code]
      BY DEF Code
    <3>3. [k \in 1 .. load[r][b] |-> NoBytes] \in [1 .. load[r][b] -> Bytes]
      BY DEF Bytes
    <3> QED
      BY <3>1, <3>2, <3>3, MakesSeq
  <2>5. told[r] \in Seq(Seq(Code))
    <3>1. told[r] \in [1 .. Len(load[r]) -> Seq(Code)]
      BY <2>2, <2>4
    <3> QED
      BY <2>1, <3>1, MakesSeq
  <2>6. dest[r] = [b \in 1 .. Len(load[r]) |-> [k \in 1 .. load[r][b] |-> NoBytes]]
    BY <2>2, <2>3
  <2>7. dest[r] \in Seq(Seq(Bytes))
    <3>1. dest[r] \in [1 .. Len(load[r]) -> Seq(Bytes)]
      BY <2>4, <2>6
    <3> QED
      BY <2>1, <3>1, MakesSeq
  <2> QED
    BY <2>2, <2>5, <2>6, <2>7
<1>4. told \in [Readers -> Seq(Seq(Code))]
  BY <1>1, <1>3
<1>5. dest \in [Readers -> Seq(Seq(Bytes))]
  <2>1. dest = [r \in Readers |-> dest[r]]
    BY DEF Init
  <2> QED
    BY <1>3, <2>1
<1>6. pool \in [Readers -> Pool]
  <2>1. NoPool \in Pool
    BY DeviceAssumption DEF NoPool, Pool, Code
  <2> QED
    BY <2>1 DEF Init
<1>7. reader \in [Readers -> Reader]
  <2>1. NoBatch \in Reader
    BY DeviceAssumption DEF NoBatch, Reader, Code, NoBuffer
  <2> QED
    BY <2>1 DEF Init
<1>8. filled \in [Readers -> [Buffer -> Bytes]]
  BY DEF Init, Buffer, Bytes
<1>9. Hands(laneAt, {"bind", "copy", "record", "sync"}) /\ Hands(waiterAt, {"wait"})
  BY DEF Init, Idle, Hands
<1>10. /\ lane \in Seq(Copy \cup {Sentinel}) /\ waiter \in Seq(Copy \cup {Sentinel}) /\ stream \in Seq(Copy)
       /\ events \in Int
  BY DEF Init
<1>11. /\ opened \in BOOLEAN /\ broken \in BOOLEAN /\ stopped \in BOOLEAN
       /\ laneBound \in BOOLEAN /\ waiterBound \in BOOLEAN
  BY DEF Init
<1>12. \A r \in Readers : /\ DOMAIN dest[r] = DOMAIN told[r]
                          /\ \A b \in DOMAIN told[r] : DOMAIN dest[r][b] = DOMAIN told[r][b]
  BY <1>3
<1> QED
  BY <1>4, <1>5, <1>6, <1>7, <1>8, <1>9, <1>10, <1>11, <1>12 DEF TypeOK

(* A buffer given back, or retired.                                        *)
LEMMA PoolTypes ==
  ASSUME NEW p \in Pool, NEW i \in Buffer
  PROVE  /\ Release(p, i) \in Pool /\ Retire(p, i) \in Pool
         /\ Release(p, i).free = Append(p.free, i) /\ Release(p, i).made = p.made
         /\ Release(p, i).retired = p.retired /\ Release(p, i).code = p.code /\ Release(p, i).freed = p.freed
         /\ Retire(p, i).free = p.free /\ Retire(p, i).made = p.made /\ Retire(p, i).retired = p.retired \cup {i}
         /\ Retire(p, i).freed = p.freed /\ Retire(p, i).code # Success
<1>1. Append(p.free, i) \in Seq(Buffer) /\ p.retired \cup {i} \in SUBSET Buffer
  BY DEF Pool
<1>2. Release(p, i) \in Pool
  BY <1>1 DEF Release, Pool
<1>3. Driver \in Code /\ Driver # Success
  BY DEF Driver, Success, Code
<1>4. (IF p.code = Success THEN Driver ELSE p.code) \in Code
  BY <1>3 DEF Pool
<1>5. Retire(p, i) \in Pool
  BY <1>1, <1>4 DEF Retire, Pool
<1>6. /\ Release(p, i).free = Append(p.free, i) /\ Release(p, i).made = p.made
      /\ Release(p, i).retired = p.retired /\ Release(p, i).code = p.code /\ Release(p, i).freed = p.freed
  BY Zenon DEF Release, Pool
<1>7. /\ Retire(p, i).free = p.free /\ Retire(p, i).made = p.made /\ Retire(p, i).retired = p.retired \cup {i}
      /\ Retire(p, i).freed = p.freed
  BY Zenon DEF Retire, Pool
<1>8. Retire(p, i).code # Success
  BY <1>3 DEF Retire, Pool
<1> QED
  BY <1>2, <1>5, <1>6, <1>7, <1>8

(* A completion counts.                                                    *)
LEMMA OnDoneTypes ==
  ASSUME NEW d \in Reader, NEW code \in Code
  PROVE  /\ OnDone(d, code) \in Reader
         /\ OnDone(d, code).at = d.at /\ OnDone(d, code).batch = d.batch /\ OnDone(d, code).block = d.block
         /\ OnDone(d, code).buffer = d.buffer /\ OnDone(d, code).submitted = d.submitted
         /\ OnDone(d, code).thrown = d.thrown /\ OnDone(d, code).posts = d.posts + 1
         /\ OnDone(d, code).failure = (IF d.failure = Success THEN code ELSE d.failure)
         /\ OnDone(d, code).landed = (IF code = Success /\ d.failure = Success THEN d.landed + 1 ELSE d.landed)
<1>1. d.posts + 1 \in Nat /\ d.landed + 1 \in Nat
  BY DEF Reader
<1>2. /\ (IF d.failure = Success THEN code ELSE d.failure) \in Code
      /\ (IF code = Success /\ d.failure = Success THEN d.landed + 1 ELSE d.landed) \in Nat
  BY <1>1 DEF Reader
<1>3. OnDone(d, code) \in Reader
  BY <1>1, <1>2 DEF OnDone, Reader
<1>4. /\ OnDone(d, code).at = d.at /\ OnDone(d, code).batch = d.batch /\ OnDone(d, code).block = d.block
      /\ OnDone(d, code).buffer = d.buffer /\ OnDone(d, code).submitted = d.submitted
      /\ OnDone(d, code).thrown = d.thrown /\ OnDone(d, code).posts = d.posts + 1
  BY DEF OnDone, Reader
<1>5. /\ OnDone(d, code).failure = (IF d.failure = Success THEN code ELSE d.failure)
      /\ OnDone(d, code).landed = (IF code = Success /\ d.failure = Success THEN d.landed + 1 ELSE d.landed)
  BY DEF OnDone, Reader
<1> QED
  BY <1>3, <1>4, <1>5

(* No step changes what there is to read.                                  *)
SameShape ==
  \A s \in Readers : /\ Len(told'[s]) = Len(told[s])
                     /\ \A b \in 1 .. Len(told[s]) : Len(told'[s][b]) = Len(told[s][b])

(* The answers of one batch are written.                                   *)
LEMMA ToldWrite ==
  ASSUME TypeOK, NEW r \in Readers, NEW b \in 1 .. Len(told[r]), NEW f \in [1 .. Len(told[r][b]) -> Code],
         told' = [told EXCEPT ![r][b] = f]
  PROVE  /\ told' \in [Readers -> Seq(Seq(Code))] /\ SameShape /\ told'[r][b] = f
         /\ \A s \in Readers : \A d \in 1 .. Len(told[s]) : s # r \/ d # b => told'[s][d] = told[s][d]
<1>1. told \in [Readers -> Seq(Seq(Code))] /\ told[r] \in Seq(Seq(Code)) /\ told[r][b] \in Seq(Code)
  BY DEF TypeOK
<1>2. f \in Seq(Code) /\ Len(f) = Len(told[r][b])
  <2>1. Len(told[r][b]) \in Nat
    BY <1>1
  <2> QED
    BY <2>1, MakesSeq
<1>3. PICK t : t = [told[r] EXCEPT ![b] = f]
  OBVIOUS
<1>4. /\ t \in Seq(Seq(Code)) /\ Len(t) = Len(told[r])
      /\ \A j \in 1 .. Len(told[r]) : t[j] = IF j = b THEN f ELSE told[r][j]
  BY <1>1, <1>2, <1>3, ExceptSeq
<1>5. told' = [told EXCEPT ![r] = t]
  BY <1>3
<1>6. told'[r] = t /\ \A s \in Readers \ {r} : told'[s] = told[s]
  BY <1>1, <1>5
<1>7. told' \in [Readers -> Seq(Seq(Code))]
  BY <1>1, <1>4, <1>5
<1>8. ASSUME NEW s \in Readers
      PROVE  Len(told'[s]) = Len(told[s]) /\ \A d \in 1 .. Len(told[s]) : Len(told'[s][d]) = Len(told[s][d])
  <2>1. CASE s # r
    BY <1>6, <2>1
  <2>2. CASE s = r
    BY <1>2, <1>4, <1>6, <2>2
  <2> QED
    BY <2>1, <2>2
<1> QED
  BY <1>4, <1>6, <1>7, <1>8 DEF SameShape

(* One destination is written.                                             *)
LEMMA DestWrite ==
  ASSUME TypeOK, NEW r \in Readers, NEW b \in 1 .. Len(told[r]), NEW k \in 1 .. Len(told[r][b]), NEW v \in Bytes,
         dest' = [dest EXCEPT ![r][b][k] = v]
  PROVE  /\ dest' \in [Readers -> Seq(Seq(Bytes))] /\ dest'[r][b][k] = v
         /\ \A s \in Readers : /\ Len(dest'[s]) = Len(dest[s])
                               /\ \A d \in 1 .. Len(dest[s]) : Len(dest'[s][d]) = Len(dest[s][d])
         /\ \A s \in Readers : \A d \in 1 .. Len(dest[s]) : \A j \in 1 .. Len(dest[s][d]) :
              s # r \/ d # b \/ j # k => dest'[s][d][j] = dest[s][d][j]
<1>1. dest \in [Readers -> Seq(Seq(Bytes))] /\ dest[r] \in Seq(Seq(Bytes)) /\ told[r] \in Seq(Seq(Code))
  BY DEF TypeOK
<1>2. DOMAIN dest[r] = DOMAIN told[r] /\ \A d \in DOMAIN told[r] : DOMAIN dest[r][d] = DOMAIN told[r][d]
  BY DEF TypeOK
<1>3. b \in 1 .. Len(dest[r]) /\ dest[r][b] \in Seq(Bytes) /\ told[r][b] \in Seq(Code)
  BY <1>1, <1>2
<1>4. k \in 1 .. Len(dest[r][b])
  BY <1>1, <1>2, <1>3
<1>5. PICK u : u = [dest[r][b] EXCEPT ![k] = v]
  OBVIOUS
<1>6. /\ u \in Seq(Bytes) /\ Len(u) = Len(dest[r][b])
      /\ \A j \in 1 .. Len(dest[r][b]) : u[j] = IF j = k THEN v ELSE dest[r][b][j]
  BY <1>3, <1>4, <1>5, ExceptSeq
<1>7. PICK t : t = [dest[r] EXCEPT ![b] = u]
  OBVIOUS
<1>8. /\ t \in Seq(Seq(Bytes)) /\ Len(t) = Len(dest[r])
      /\ \A j \in 1 .. Len(dest[r]) : t[j] = IF j = b THEN u ELSE dest[r][j]
  BY <1>1, <1>3, <1>6, <1>7, ExceptSeq
<1>9. dest' = [dest EXCEPT ![r] = t]
  BY <1>5, <1>7
<1>10. dest'[r] = t /\ \A s \in Readers \ {r} : dest'[s] = dest[s]
  BY <1>1, <1>9
<1>11. dest' \in [Readers -> Seq(Seq(Bytes))]
  BY <1>1, <1>8, <1>9
<1>12. ASSUME NEW s \in Readers
       PROVE  Len(dest'[s]) = Len(dest[s]) /\ \A d \in 1 .. Len(dest[s]) : Len(dest'[s][d]) = Len(dest[s][d])
  <2>1. CASE s # r
    BY <1>10, <2>1
  <2>2. CASE s = r
    BY <1>6, <1>8, <1>10, <2>2
  <2> QED
    BY <2>1, <2>2
<1>13. ASSUME NEW s \in Readers, NEW d \in 1 .. Len(dest[s]), NEW j \in 1 .. Len(dest[s][d]), s # r \/ d # b \/ j # k
       PROVE  dest'[s][d][j] = dest[s][d][j]
  <2>1. CASE s # r
    BY <1>10, <2>1
  <2>2. CASE s = r /\ d # b
    BY <1>8, <1>10, <2>2
  <2>3. CASE s = r /\ d = b /\ j # k
    BY <1>6, <1>8, <1>10, <2>3
  <2> QED
    BY <1>13, <2>1, <2>2, <2>3
<1>14. dest'[r][b][k] = v
  BY <1>3, <1>4, <1>6, <1>8, <1>10
<1> QED
  BY <1>11, <1>12, <1>13, <1>14

(* The shape of what there is, in terms of indices.                        *)
LEMMA Shapes ==
  ASSUME TypeOK
  PROVE  \A r \in Readers :
           /\ DOMAIN told[r] = 1 .. Len(told[r]) /\ Len(told[r]) \in Nat
           /\ Len(dest[r]) = Len(told[r]) /\ DOMAIN dest[r] = 1 .. Len(told[r])
           /\ \A b \in 1 .. Len(told[r]) :
                /\ told[r][b] \in Seq(Code) /\ DOMAIN told[r][b] = 1 .. Len(told[r][b]) /\ Len(told[r][b]) \in Nat
                /\ Len(dest[r][b]) = Len(told[r][b]) /\ DOMAIN dest[r][b] = 1 .. Len(told[r][b])
<1> TAKE r \in Readers
<1>1. told[r] \in Seq(Seq(Code)) /\ dest[r] \in Seq(Seq(Bytes))
  BY DEF TypeOK
<1>2. DOMAIN dest[r] = DOMAIN told[r] /\ \A d \in DOMAIN told[r] : DOMAIN dest[r][d] = DOMAIN told[r][d]
  BY DEF TypeOK
<1>3. ASSUME NEW m \in Nat, NEW n \in Nat, 1 .. m = 1 .. n
      PROVE  m = n
  <2>1. m \in 1 .. m \/ m = 0
    OBVIOUS
  <2>2. n \in 1 .. n \/ n = 0
    OBVIOUS
  <2>3. m <= n
    BY <1>3, <2>1
  <2>4. n <= m
    BY <1>3, <2>2
  <2> QED
    BY <2>3, <2>4
<1>4. /\ Len(told[r]) \in Nat /\ Len(dest[r]) \in Nat /\ DOMAIN told[r] = 1 .. Len(told[r])
      /\ DOMAIN dest[r] = 1 .. Len(dest[r])
  BY <1>1
<1>5. Len(dest[r]) = Len(told[r])
  BY <1>2, <1>3, <1>4
<1>6. ASSUME NEW b \in 1 .. Len(told[r])
      PROVE  /\ told[r][b] \in Seq(Code) /\ DOMAIN told[r][b] = 1 .. Len(told[r][b]) /\ Len(told[r][b]) \in Nat
             /\ Len(dest[r][b]) = Len(told[r][b]) /\ DOMAIN dest[r][b] = 1 .. Len(told[r][b])
  <2>1. told[r][b] \in Seq(Code) /\ dest[r][b] \in Seq(Bytes)
    BY <1>1, <1>4, <1>5
  <2>2. /\ Len(told[r][b]) \in Nat /\ Len(dest[r][b]) \in Nat /\ DOMAIN told[r][b] = 1 .. Len(told[r][b])
        /\ DOMAIN dest[r][b] = 1 .. Len(dest[r][b])
    BY <2>1
  <2>3. DOMAIN dest[r][b] = DOMAIN told[r][b]
    BY <1>2, <1>4
  <2>4. Len(dest[r][b]) = Len(told[r][b])
    BY <1>3, <2>2, <2>3
  <2> QED
    BY <2>1, <2>2, <2>4
<1> QED
  BY <1>4, <1>5, <1>6

(* The only answers written are those of the first k blocks of the batch.  *)
WrittenUpTo(r, k, code) ==
  \A s \in Readers : \A b \in 1 .. Len(told[s]) : \A j \in 1 .. Len(told[s][b]) :
    \/ told'[s][b][j] = told[s][b][j]
    \/ s = r /\ b = reader[r].batch /\ j <= k /\ told'[s][b][j] = code

(* finished_until answers the first tasks of a batch that have no answer.  *)
LEMMA AnswersEffect ==
  ASSUME TypeOK, NEW r \in Readers, reader[r].batch \in 1 .. Len(told[r]), NEW k \in Nat, NEW code \in Code,
         AnswersTo(r, k, code)
  PROVE  told' \in [Readers -> Seq(Seq(Code))] /\ SameShape /\ WrittenUpTo(r, k, code)
<1>1. PICK b : b = reader[r].batch
  OBVIOUS
<1>2. b \in 1 .. Len(told[r]) /\ DOMAIN told[r][b] = 1 .. Len(told[r][b]) /\ told[r][b] \in Seq(Code)
  BY <1>1, Shapes
<1>3. PICK f : f = [j \in 1 .. Len(told[r][b]) |-> IF j <= k /\ told[r][b][j] = "none" THEN code ELSE told[r][b][j]]
  OBVIOUS
<1>4. f \in [1 .. Len(told[r][b]) -> Code]
  BY <1>2, <1>3
<1>5. told' = [told EXCEPT ![r][b] = f]
  BY <1>1, <1>2, <1>3 DEF AnswersTo
<1>6. /\ told' \in [Readers -> Seq(Seq(Code))] /\ SameShape /\ told'[r][b] = f
      /\ \A s \in Readers : \A d \in 1 .. Len(told[s]) : s # r \/ d # b => told'[s][d] = told[s][d]
  <2>1. b \in 1 .. Len(told[r])
    BY <1>2
  <2>2. told' \in [Readers -> Seq(Seq(Code))] /\ SameShape
    BY <1>4, <1>5, <2>1, ToldWrite
  <2>3. told'[r][b] = f
    BY <1>4, <1>5, <2>1, ToldWrite
  <2>4. \A s \in Readers : \A d \in 1 .. Len(told[s]) : s # r \/ d # b => told'[s][d] = told[s][d]
    BY <1>4, <1>5, <2>1, ToldWrite
  <2> QED
    BY <2>2, <2>3, <2>4
<1>7. ASSUME NEW s \in Readers, NEW d \in 1 .. Len(told[s]), NEW j \in 1 .. Len(told[s][d])
      PROVE  \/ told'[s][d][j] = told[s][d][j]
             \/ s = r /\ d = reader[r].batch /\ j <= k /\ told'[s][d][j] = code
  <2>1. CASE s # r \/ d # b
    BY <1>6, <2>1
  <2>2. CASE s = r /\ d = b
    BY <1>1, <1>3, <1>6, <2>2
  <2> QED
    BY <2>1, <2>2
<1> QED
  BY <1>6, <1>7 DEF WrittenUpTo

(* The code of a batch that ends.                                          *)
LEMMA VerdictTypes ==
  ASSUME TypeOK, NEW r \in Readers
  PROVE  /\ Verdict(reader[r]) \in Code
         /\ Verdict(reader[r]) = Success => reader[r].thrown = Success /\ reader[r].failure = Success /\ ~stopped
<1>1. reader[r].thrown \in Code /\ reader[r].failure \in Code
  BY DEF TypeOK, Reader
<1> QED
  BY <1>1 DEF Verdict, Code, Success

(* The answers of a step of a reader.                                      *)
LEMMA ToldStep ==
  ASSUME TypeOK, Walking, NEW r \in Readers, ReadStep(r)
  PROVE  told' \in [Readers -> Seq(Seq(Code))] /\ SameShape
<1>0. told \in [Readers -> Seq(Seq(Code))]
  BY DEF TypeOK
<1>1. CASE UNCHANGED told
  BY <1>0, <1>1 DEF SameShape
<1>2. CASE RefuseBatch(r)
  <2>1. PICK b : b = reader[r].batch + 1
    OBVIOUS
  <2>2. b \in 1 .. Len(told[r])
    <3>1. reader[r].batch \in Nat /\ reader[r].batch < Len(told[r])
      BY <1>2 DEF RefuseBatch, TypeOK, Reader
    <3>2. Len(told[r]) \in Nat
      BY Shapes
    <3> QED
      BY <2>1, <3>1, <3>2
  <2>3. PICK f : f = [k \in 1 .. Len(told[r][b]) |-> IF opened THEN Driver ELSE "DeviceUnavailable"]
    OBVIOUS
  <2>4. f \in [1 .. Len(told[r][b]) -> Code]
    BY <2>3 DEF Code
  <2>5. DOMAIN told[r][b] = 1 .. Len(told[r][b])
    BY <2>2, Shapes
  <2>6. told' = [told EXCEPT ![r][b] = f]
    BY <1>2, <2>1, <2>3, <2>5 DEF RefuseBatch
  <2> QED
    BY <2>2, <2>4, <2>6, ToldWrite
<1>3. ASSUME reader[r].at \in {"answer", "drain"}
      PROVE  /\ reader[r].batch \in 1 .. Len(told[r]) /\ reader[r].landed \in Nat /\ Blocks(r) \in Nat
             /\ Success \in Code
  BY <1>3, Shapes DEF Walking, Within, TypeOK, Reader, Blocks, Code
<1>4. CASE AnswerLanded(r)
  <2>1. reader[r].at = "answer" /\ AnswersTo(r, reader[r].landed, Success)
    BY <1>4 DEF AnswerLanded, At
  <2> QED
    BY <1>3, <2>1, AnswersEffect
<1>5. CASE EndBatch(r)
  <2>1. reader[r].at = "drain" /\ AnswersTo(r, Blocks(r), Verdict(reader[r]))
    BY <1>5 DEF EndBatch, At
  <2>2. Verdict(reader[r]) \in Code
    BY VerdictTypes
  <2> QED
    BY <1>3, <2>1, <2>2, AnswersEffect
<1> QED
  BY <1>1, <1>2, <1>4, <1>5 DEF ReadStep, BeginBatch, TakeBuffer, GrowPool, RefuseSlab, PoolGone, Park, ReadBlock,
     ReadThrows, Submit, LeaveLoop, ExitReader

(* A step of a reader keeps the types of its locals, its pool and its      *)
(* buffers, and leaves those of the others alone.                          *)
LEMMA ReaderTypes ==
  ASSUME TypeOK, Walking, Pools, NEW r \in Readers, ReadStep(r)
  PROVE  /\ reader' \in [Readers -> Reader] /\ pool' \in [Readers -> Pool]
         /\ filled' \in [Readers -> [Buffer -> Bytes]]
         /\ \A s \in Readers \ {r} : reader'[s] = reader[s] /\ pool'[s] = pool[s] /\ filled'[s] = filled[s]
<1>1. /\ reader \in [Readers -> Reader] /\ pool \in [Readers -> Pool]
      /\ filled \in [Readers -> [Buffer -> Bytes]]
      /\ reader[r] \in Reader /\ pool[r] \in Pool
  BY DEF TypeOK
<1>2. ASSUME NEW d \in Reader, NEW p \in Pool, reader' = [reader EXCEPT ![r] = d], pool' = [pool EXCEPT ![r] = p],
             UNCHANGED filled
      PROVE  /\ reader' \in [Readers -> Reader] /\ pool' \in [Readers -> Pool]
             /\ filled' \in [Readers -> [Buffer -> Bytes]]
             /\ \A s \in Readers \ {r} : reader'[s] = reader[s] /\ pool'[s] = pool[s] /\ filled'[s] = filled[s]
  BY <1>1, <1>2
<1>3. reader = [reader EXCEPT ![r] = reader[r]] /\ pool = [pool EXCEPT ![r] = pool[r]]
  BY <1>1
<1>4. ASSUME NEW at \in {"next", "loop", "read", "submit", "answer", "drain", "gone"}
      PROVE  [reader[r] EXCEPT !.at = at] \in Reader
  BY <1>1 DEF Reader
<1>5. CASE BeginBatch(r)
  <2>1. reader[r].batch + 1 \in Nat
    BY <1>1 DEF Reader
  <2>2. [NoBatch EXCEPT !.at = "loop", !.batch = reader[r].batch + 1] \in Reader
    <3>1. NoBatch \in Reader
      BY DeviceAssumption DEF NoBatch, Reader, Code, NoBuffer
    <3> QED
      BY <2>1, <3>1 DEF Reader
  <2> QED
    BY <1>1, <1>2, <1>3, <1>5, <2>2 DEF BeginBatch
<1>6. CASE RefuseBatch(r)
  <2>1. reader[r].batch + 1 \in Nat
    BY <1>1 DEF Reader
  <2>2. [reader[r] EXCEPT !.batch = reader[r].batch + 1] \in Reader
    BY <1>1, <2>1 DEF Reader
  <2>3. reader' = [reader EXCEPT ![r] = [reader[r] EXCEPT !.batch = reader[r].batch + 1]]
    BY <1>6 DEF RefuseBatch
  <2> QED
    BY <1>1, <1>2, <1>3, <1>6, <2>2, <2>3 DEF RefuseBatch
<1>7. CASE TakeBuffer(r)
  <2>1. pool[r].free \in Seq(Buffer) /\ pool[r].free # <<>>
    BY <1>1, <1>7 DEF TakeBuffer, HasFree, Pool
  <2>2. Tail(pool[r].free) \in Seq(Buffer) /\ Head(pool[r].free) \in Buffer
    BY <2>1
  <2>3. [pool[r] EXCEPT !.free = Tail(pool[r].free)] \in Pool
    BY <1>1, <2>2 DEF Pool
  <2>4. Head(pool[r].free) \in 0 .. MaxBuffers
    BY <2>2, DeviceAssumption DEF Buffer
  <2>5. [reader[r] EXCEPT !.at = "read", !.buffer = Head(pool[r].free)] \in Reader
    BY <1>1, <2>4 DEF Reader
  <2>6. /\ reader' = [reader EXCEPT ![r] = [reader[r] EXCEPT !.at = "read", !.buffer = Head(pool[r].free)]]
        /\ pool' = [pool EXCEPT ![r] = [pool[r] EXCEPT !.free = Tail(pool[r].free)]]
        /\ UNCHANGED filled
    BY <1>7 DEF TakeBuffer
  <2> QED
    BY <1>2, <2>3, <2>5, <2>6
<1>8. CASE GrowPool(r)
  <2>1. pool[r].made + 1 \in 0 .. MaxBuffers
    BY <1>1, <1>8, DeviceAssumption DEF GrowPool, HasRoom, Pool
  <2>2. [pool[r] EXCEPT !.made = pool[r].made + 1] \in Pool
    BY <1>1, <2>1 DEF Pool
  <2>3. [reader[r] EXCEPT !.at = "read", !.buffer = pool[r].made + 1] \in Reader
    BY <1>1, <2>1 DEF Reader
  <2>4. /\ reader' = [reader EXCEPT ![r] = [reader[r] EXCEPT !.at = "read", !.buffer = pool[r].made + 1]]
        /\ pool' = [pool EXCEPT ![r] = [pool[r] EXCEPT !.made = pool[r].made + 1]]
        /\ UNCHANGED filled
    BY <1>8 DEF GrowPool
  <2> QED
    BY <1>2, <2>2, <2>3, <2>4
<1>9. ASSUME NEW code \in Code, NEW p \in Pool, Throws(r, code), pool' = [pool EXCEPT ![r] = p], UNCHANGED filled
      PROVE  /\ reader' \in [Readers -> Reader] /\ pool' \in [Readers -> Pool]
             /\ filled' \in [Readers -> [Buffer -> Bytes]]
             /\ \A s \in Readers \ {r} : reader'[s] = reader[s] /\ pool'[s] = pool[s] /\ filled'[s] = filled[s]
  <2>1. NoBuffer \in 0 .. MaxBuffers
    BY DeviceAssumption DEF NoBuffer
  <2>2. [reader[r] EXCEPT !.at = "drain", !.thrown = code, !.buffer = NoBuffer] \in Reader
    BY <1>1, <2>1 DEF Reader
  <2>3. reader' = [reader EXCEPT ![r] = [reader[r] EXCEPT !.at = "drain", !.thrown = code, !.buffer = NoBuffer]]
    BY <1>9 DEF Throws
  <2> QED
    BY <1>2, <1>9, <2>2, <2>3
<1>10. CASE RefuseSlab(r)
  <2>1. (IF broken THEN Driver ELSE "DeviceOutOfMemory") \in Code
    BY DEF Code
  <2> QED
    BY <1>1, <1>3, <1>9, <1>10, <2>1 DEF RefuseSlab
<1>11. CASE PoolGone(r)
  <2>1. pool[r].code \in Code
    BY <1>1 DEF Pool
  <2> QED
    BY <1>1, <1>3, <1>9, <1>11, <2>1 DEF PoolGone
<1>12. CASE Park(r)
  <2>1. [pool[r] EXCEPT !.parked = TRUE] \in Pool
    BY <1>1 DEF Pool
  <2>2. pool' = [pool EXCEPT ![r] = [pool[r] EXCEPT !.parked = TRUE]]
    BY <1>12 DEF Park
  <2> QED
    BY <1>1, <1>2, <1>3, <1>12, <2>1, <2>2 DEF Park
<1>13. CASE ReadBlock(r)
  <2>1. reader[r].buffer \in Buffer
    BY <1>1, <1>13, DeviceAssumption DEF ReadBlock, At, Pools, PoolOf, HasBuffer, Buffer, Pool
  <2>2. Current(r) \in Bytes
    <3>1. reader[r].block + 1 \in Nat \ {0} /\ reader[r].batch \in Nat \ {0}
      <4>1. reader[r].block \in Nat /\ reader[r].batch \in Nat
        BY <1>1 DEF Reader
      <4>2. reader[r].batch \in DOMAIN told[r] /\ DOMAIN told[r] = 1 .. Len(told[r])
        BY <1>13, Shapes DEF ReadBlock, At, Walking, Within
      <4> QED
        BY <4>1, <4>2
    <3> QED
      BY <3>1 DEF Current, Bytes, Block
  <2>3. filled' = [filled EXCEPT ![r] = [filled[r] EXCEPT ![reader[r].buffer] = Current(r)]]
    BY <1>13 DEF ReadBlock
  <2>4. [filled[r] EXCEPT ![reader[r].buffer] = Current(r)] \in [Buffer -> Bytes]
    BY <1>1, <2>1, <2>2
  <2>5. reader' = [reader EXCEPT ![r] = [reader[r] EXCEPT !.at = "submit"]] /\ UNCHANGED pool
    BY <1>13 DEF ReadBlock, Goes
  <2>6. [reader[r] EXCEPT !.at = "submit"] \in Reader
    BY <1>4
  <2> QED
    BY <1>1, <2>3, <2>4, <2>5, <2>6
<1>14. CASE ReadThrows(r)
  <2>1. reader[r].buffer \in Buffer
    BY <1>1, <1>14, DeviceAssumption DEF ReadThrows, At, Pools, PoolOf, HasBuffer, Buffer, Pool
  <2>2. Release(pool[r], reader[r].buffer) \in Pool
    BY <1>1, <2>1, PoolTypes
  <2>3. /\ pool' = [pool EXCEPT ![r] = Release(pool[r], reader[r].buffer)]
        /\ Throws(r, "FileAccessError") /\ UNCHANGED filled
    BY <1>14 DEF ReadThrows
  <2>4. "FileAccessError" \in Code
    BY DEF Code
  <2> QED
    BY <1>9, <2>2, <2>3, <2>4
<1>15. CASE Submit(r)
  <2>1. NoBuffer \in 0 .. MaxBuffers /\ reader[r].submitted + 1 \in Nat /\ reader[r].block + 1 \in Nat
    BY <1>1, DeviceAssumption DEF NoBuffer, Reader
  <2>2. [reader[r] EXCEPT !.at = "answer", !.buffer = NoBuffer, !.submitted = reader[r].submitted + 1,
                          !.block = reader[r].block + 1] \in Reader
    BY <1>1, <2>1 DEF Reader
  <2>3. reader' = [reader EXCEPT ![r] = [reader[r] EXCEPT !.at = "answer", !.buffer = NoBuffer,
                       !.submitted = reader[r].submitted + 1, !.block = reader[r].block + 1]]
    BY <1>15 DEF Submit
  <2> QED
    BY <1>1, <1>2, <1>3, <1>15, <2>2, <2>3 DEF Submit
<1>16. ASSUME NEW at \in {"next", "loop", "drain"}, Goes(r, at), UNCHANGED <<pool, filled>>
       PROVE  /\ reader' \in [Readers -> Reader] /\ pool' \in [Readers -> Pool]
              /\ filled' \in [Readers -> [Buffer -> Bytes]]
              /\ \A s \in Readers \ {r} : reader'[s] = reader[s] /\ pool'[s] = pool[s] /\ filled'[s] = filled[s]
  <2>1. reader' = [reader EXCEPT ![r] = [reader[r] EXCEPT !.at = at]]
    BY <1>16 DEF Goes
  <2> QED
    BY <1>1, <1>2, <1>3, <1>4, <1>16, <2>1
<1>17. CASE AnswerLanded(r) \/ LeaveLoop(r) \/ EndBatch(r)
  BY <1>16, <1>17 DEF AnswerLanded, LeaveLoop, EndBatch
<1>18. CASE ExitReader(r)
  <2>1. [pool[r] EXCEPT !.freed = TRUE] \in Pool /\ [reader[r] EXCEPT !.at = "gone"] \in Reader
    BY <1>1, <1>4 DEF Pool
  <2>2. /\ reader' = [reader EXCEPT ![r] = [reader[r] EXCEPT !.at = "gone"]]
        /\ pool' = [pool EXCEPT ![r] = [pool[r] EXCEPT !.freed = TRUE]] /\ UNCHANGED filled
    BY <1>18 DEF ExitReader, Goes
  <2> QED
    BY <1>2, <2>1, <2>2
<1> QED
  BY <1>5, <1>6, <1>7, <1>8, <1>10, <1>11, <1>12, <1>13, <1>14, <1>15, <1>17, <1>18 DEF ReadStep
-----------------------------------------------------------------------------
(* The line, and what leaves it alone.                                     *)

(* What holds of the readers when neither they nor the line change.        *)
LEMMA StillFrame ==
  ASSUME Inv, UNCHANGED <<reader, told, dest>>, stopped => stopped', Line' = Line
  PROVE  Walking' /\ Lined' /\ Counted' /\ Prefix' /\ Landed' /\ AnsweredOnDevice'
<1>1. Walking'
  BY DEF Inv, Walking, Within, Blocks
<1>2. Lined'
  BY DEF Inv, Lined, Exists, Within
<1>3. \A r \in Readers : Pending(r)' = Pending(r)
  BY DEF Pending
<1>4. Counted'
  BY <1>3 DEF Inv, Counted, Within
<1>5. Prefix'
  BY <1>3 DEF Inv, Prefix, Within
<1>6. Landed'
  BY DEF Inv, Landed, Within, Arrived
<1>7. AnsweredOnDevice'
  BY DEF Inv, AnsweredOnDevice
<1> QED
  BY <1>1, <1>2, <1>4, <1>5, <1>6, <1>7

(* What a thread has in its hands is a copy.                               *)
LEMMA HandsAreCopies ==
  ASSUME TypeOK
  PROVE  /\ InHands(laneAt) \subseteq Copy /\ InHands(waiterAt) \subseteq Copy
         /\ Queued(lane) \subseteq Copy /\ Queued(waiter) \subseteq Copy
         /\ LaneHolds \subseteq InHands(laneAt) /\ WaiterHolds \subseteq InHands(waiterAt)
         /\ LaneEnqueued \subseteq LaneHolds
         /\ Enqueued \subseteq Holding /\ Holding \subseteq Line /\ Line \subseteq Copy
<1>1. InHands(laneAt) \subseteq Copy /\ InHands(waiterAt) \subseteq Copy
  BY DEF TypeOK, Hands, InHands
<1>2. Queued(lane) \subseteq Copy /\ Queued(waiter) \subseteq Copy
  BY QueuedIsCopies DEF TypeOK
<1>3. /\ LaneHolds \subseteq InHands(laneAt) /\ WaiterHolds \subseteq InHands(waiterAt)
      /\ LaneEnqueued \subseteq LaneHolds
  BY DEF LaneHolds, WaiterHolds, InHands, LaneEnqueued
<1> QED
  BY <1>1, <1>2, <1>3 DEF Enqueued, Holding, Line, InLane, InWaiter

(* The places of the line have nothing in common.                          *)
LEMMA PlacesApart ==
  ASSUME TypeOK, InOrder
  PROVE  /\ \A c \in InHands(laneAt) : c \notin Queued(lane) /\ c \notin Queued(waiter) /\ c \notin InHands(waiterAt)
         /\ \A c \in InHands(waiterAt) : c \notin Queued(lane) /\ c \notin Queued(waiter) /\ c \notin InHands(laneAt)
<1>1. ASSUME NEW c \in Copy
      PROVE  ~Earlier(c, c)
  <2>1. c.block.block \in Nat
    BY DEF Copy, Block
  <2> QED
    BY <2>1 DEF Earlier
<1> QED
  BY <1>1, HandsAreCopies DEF InOrder

(* Two copies that need their buffers have different ones.                 *)
LEMMA BuffersApart ==
  ASSUME TypeOK, Filled, NEW c \in Holding, NEW d \in Holding, c # d, c.block.reader = d.block.reader
  PROVE  c.buffer # d.buffer
<1>1. c \in Copy /\ d \in Copy
  BY HandsAreCopies
<1>2. filled[c.block.reader][c.buffer] = c.block /\ filled[d.block.reader][d.buffer] = d.block
  BY DEF Filled, Kept
<1>3. c = [block |-> c.block, buffer |-> c.buffer] /\ d = [block |-> d.block, buffer |-> d.buffer]
  BY <1>1 DEF Copy
<1> QED
  BY <1>2, <1>3

(* A copy that needs its buffer no more gives it back.                     *)
LEMMA GivenBack ==
  ASSUME TypeOK, Pools, Filled, Lined, NEW c \in Holding, GivesBack(c), UNCHANGED <<reader, filled>>,
         Holding' \subseteq Holding \ {c}
  PROVE  /\ pool' \in [Readers -> Pool] /\ Pools' /\ Filled'
         /\ \A r \in Readers : pool'[r].retired = pool[r].retired
<1>1. c \in Copy /\ c.block.reader \in Readers /\ c.buffer \in Buffer
  BY HandsAreCopies DEF Copy, Block
<1>2. PICK r \in Readers : r = c.block.reader
  BY <1>1
<1>3. pool \in [Readers -> Pool] /\ pool[r] \in Pool /\ pool[r].free \in Seq(Buffer)
  BY DEF TypeOK, Pool
<1>4. /\ pool' \in [Readers -> Pool] /\ pool'[r] = Release(pool[r], c.buffer)
      /\ \A s \in Readers \ {r} : pool'[s] = pool[s]
  <2>1. Release(pool[r], c.buffer) \in Pool
    BY <1>1, <1>3, PoolTypes
  <2> QED
    BY <1>2, <1>3, <2>1 DEF GivesBack
<1>5. /\ pool'[r].free = Append(pool[r].free, c.buffer) /\ pool'[r].made = pool[r].made
      /\ pool'[r].retired = pool[r].retired /\ pool'[r].code = pool[r].code /\ pool'[r].freed = pool[r].freed
  <2>1. PICK p : p = Release(pool[r], c.buffer)
    OBVIOUS
  <2>2. /\ p.free = Append(pool[r].free, c.buffer) /\ p.made = pool[r].made
        /\ p.retired = pool[r].retired /\ p.code = pool[r].code /\ p.freed = pool[r].freed
    BY <1>1, <1>3, <2>1, PoolTypes
  <2> QED
    BY <1>4, <2>1, <2>2
<1>6. /\ Len(Append(pool[r].free, c.buffer)) = Len(pool[r].free) + 1
      /\ Append(pool[r].free, c.buffer)[Len(pool[r].free) + 1] = c.buffer
      /\ \A i \in 1 .. Len(pool[r].free) : Append(pool[r].free, c.buffer)[i] = pool[r].free[i]
      /\ Len(pool[r].free) \in Nat
  BY <1>1, <1>3
<1>7. Kept(c)
  BY DEF Filled
<1>8. ASSUME NEW s \in Readers
      PROVE  /\ \A i \in 1 .. Len(pool'[s].free) : pool'[s].free[i] <= pool'[s].made /\ pool'[s].free[i] \notin pool'[s].retired
             /\ \A i, j \in 1 .. Len(pool'[s].free) : pool'[s].free[i] = pool'[s].free[j] => i = j
             /\ \A i \in pool'[s].retired : i <= pool'[s].made
             /\ HasBuffer(s) => /\ reader[s].buffer \in 1 .. pool'[s].made /\ reader[s].buffer \notin pool'[s].retired
                                /\ \A i \in 1 .. Len(pool'[s].free) : pool'[s].free[i] # reader[s].buffer
             /\ pool'[s].retired # {} => pool'[s].code # Success
             /\ pool'[s].freed => reader[s].at = "gone"
  <2>1. CASE s # r
    BY <1>4, <2>1 DEF Pools, PoolOf
  <2>2. CASE s = r
    <3>0. PICK n \in Nat : n = Len(pool[r].free)
      BY <1>6
    <3>1. ASSUME NEW i \in 1 .. (n + 1)
          PROVE  pool'[r].free[i] <= pool'[r].made /\ pool'[r].free[i] \notin pool'[r].retired
      <4>1. CASE i = n + 1
        BY <1>2, <1>5, <1>6, <1>7, <3>0, <4>1 DEF Kept
      <4>2. CASE i \in 1 .. n
        BY <1>5, <1>6, <3>0, <4>2 DEF Pools, PoolOf
      <4> QED
        BY <3>0, <4>1, <4>2
    <3>2. ASSUME NEW i \in 1 .. (n + 1), NEW j \in 1 .. (n + 1), pool'[r].free[i] = pool'[r].free[j]
          PROVE  i = j
      <4>1. \A k \in 1 .. n : pool'[r].free[k] = pool[r].free[k] /\ pool[r].free[k] # c.buffer
        BY <1>2, <1>5, <1>6, <1>7, <3>0 DEF Kept
      <4>2. pool'[r].free[n + 1] = c.buffer
        BY <1>5, <1>6, <3>0
      <4>3. \A k, l \in 1 .. n : pool[r].free[k] = pool[r].free[l] => k = l
        BY <3>0 DEF Pools, PoolOf
      <4>4. CASE i = n + 1 \/ j = n + 1
        BY <3>2, <4>1, <4>2, <4>4
      <4>5. CASE i \in 1 .. n /\ j \in 1 .. n
        BY <3>2, <4>1, <4>3, <4>5
      <4> QED
        BY <4>4, <4>5
    <3>3. \A i \in pool'[r].retired : i <= pool'[r].made
      BY <1>5 DEF Pools, PoolOf
    <3>4. HasBuffer(r) => /\ reader[r].buffer \in 1 .. pool'[r].made /\ reader[r].buffer \notin pool'[r].retired
                          /\ \A i \in 1 .. (n + 1) : pool'[r].free[i] # reader[r].buffer
      <4> SUFFICES ASSUME HasBuffer(r)
                   PROVE  /\ reader[r].buffer \in 1 .. pool'[r].made /\ reader[r].buffer \notin pool'[r].retired
                          /\ \A i \in 1 .. (n + 1) : pool'[r].free[i] # reader[r].buffer
        OBVIOUS
      <4>1. \A k \in 1 .. n : pool'[r].free[k] = pool[r].free[k] /\ pool[r].free[k] # reader[r].buffer
        BY <1>5, <1>6, <3>0 DEF Pools, PoolOf
      <4>2. pool'[r].free[n + 1] = c.buffer /\ c.buffer # reader[r].buffer
        BY <1>2, <1>5, <1>6, <1>7, <3>0 DEF Kept
      <4>3. reader[r].buffer \in 1 .. pool'[r].made /\ reader[r].buffer \notin pool'[r].retired
        BY <1>5 DEF Pools, PoolOf
      <4> QED
        BY <4>1, <4>2, <4>3
    <3>5. pool'[r].retired # {} => pool'[r].code # Success
      BY <1>5 DEF Pools, PoolOf
    <3>6. pool'[r].freed => reader[r].at = "gone"
      BY <1>5 DEF Pools, PoolOf
    <3>7. Len(pool'[r].free) = n + 1
      BY <1>5, <1>6, <3>0
    <3> QED
      BY <2>2, <3>1, <3>2, <3>3, <3>4, <3>5, <3>6, <3>7
  <2> QED
    BY <2>1, <2>2
<1>9. Pools'
  BY <1>8 DEF Pools, PoolOf, HasBuffer
<1>10. ASSUME NEW d \in Holding' PROVE Kept(d)'
  <2>1. d \in Holding /\ d # c /\ Kept(d) /\ d \in Copy
    BY HandsAreCopies DEF Filled
  <2>2. d.block.reader \in Readers
    BY <2>1 DEF Copy, Block
  <2>3. CASE d.block.reader # r
    BY <1>4, <2>1, <2>2, <2>3 DEF Kept, HasBuffer
  <2>4. CASE d.block.reader = r
    <3>1. d.buffer # c.buffer
      BY <1>2, <2>1, <2>4, BuffersApart
    <3>2. /\ d.buffer <= pool'[r].made /\ d.buffer \notin pool'[r].retired
          /\ HasBuffer(r) => reader[r].buffer # d.buffer
          /\ filled[r][d.buffer] = d.block
      BY <1>5, <2>1, <2>4 DEF Kept
    <3>3. \A i \in 1 .. Len(pool'[r].free) : pool'[r].free[i] # d.buffer
      BY <1>5, <1>6, <2>1, <2>4, <3>1 DEF Kept
    <3> QED
      BY <2>4, <3>2, <3>3 DEF Kept, HasBuffer
  <2> QED
    BY <2>3, <2>4
<1>11. Filled'
  <2>1. \A s \in Readers : reader'[s].at = "submit" => filled'[s][reader'[s].buffer] = Current(s)'
    BY DEF Filled, Current
  <2> QED
    BY <1>10, <2>1 DEF Filled
<1> QED
  BY <1>4, <1>5, <1>9, <1>11

(* One that nobody knows the end of retires it.                            *)
LEMMA Retired ==
  ASSUME TypeOK, Pools, Filled, Lined, NEW c \in Holding, Retires(c), UNCHANGED <<reader, filled>>,
         Holding' \subseteq Holding \ {c}
  PROVE  /\ pool' \in [Readers -> Pool] /\ Pools' /\ Filled'
         /\ \A r \in Readers : pool[r].retired \subseteq pool'[r].retired
         /\ c.buffer \in pool'[c.block.reader].retired
<1>1. c \in Copy /\ c.block.reader \in Readers /\ c.buffer \in Buffer
  BY HandsAreCopies DEF Copy, Block
<1>2. PICK r \in Readers : r = c.block.reader
  BY <1>1
<1>3. pool \in [Readers -> Pool] /\ pool[r] \in Pool
  BY DEF TypeOK
<1>4. /\ pool' \in [Readers -> Pool] /\ pool'[r] = Retire(pool[r], c.buffer)
      /\ \A s \in Readers \ {r} : pool'[s] = pool[s]
  <2>1. Retire(pool[r], c.buffer) \in Pool
    BY <1>1, <1>3, PoolTypes
  <2> QED
    BY <1>2, <1>3, <2>1 DEF Retires
<1>5. /\ pool'[r].free = pool[r].free /\ pool'[r].made = pool[r].made
      /\ pool'[r].retired = pool[r].retired \cup {c.buffer} /\ pool'[r].code # Success /\ pool'[r].freed = pool[r].freed
  BY <1>1, <1>3, <1>4, PoolTypes
<1>6. Kept(c)
  BY DEF Filled
<1>7. ASSUME NEW s \in Readers
      PROVE  /\ \A i \in 1 .. Len(pool'[s].free) : pool'[s].free[i] <= pool'[s].made /\ pool'[s].free[i] \notin pool'[s].retired
             /\ \A i, j \in 1 .. Len(pool'[s].free) : pool'[s].free[i] = pool'[s].free[j] => i = j
             /\ \A i \in pool'[s].retired : i <= pool'[s].made
             /\ HasBuffer(s) => /\ reader[s].buffer \in 1 .. pool'[s].made /\ reader[s].buffer \notin pool'[s].retired
                                /\ \A i \in 1 .. Len(pool'[s].free) : pool'[s].free[i] # reader[s].buffer
             /\ pool'[s].retired # {} => pool'[s].code # Success
             /\ pool'[s].freed => reader[s].at = "gone"
  <2>1. CASE s # r
    BY <1>4, <2>1 DEF Pools, PoolOf
  <2>2. CASE s = r
    <3>1. \A i \in 1 .. Len(pool'[r].free) : pool'[r].free[i] <= pool'[r].made /\ pool'[r].free[i] \notin pool'[r].retired
      BY <1>2, <1>5, <1>6 DEF Pools, PoolOf, Kept
    <3>2. \A i, j \in 1 .. Len(pool'[r].free) : pool'[r].free[i] = pool'[r].free[j] => i = j
      BY <1>5 DEF Pools, PoolOf
    <3>3. \A i \in pool'[r].retired : i <= pool'[r].made
      BY <1>2, <1>5, <1>6 DEF Pools, PoolOf, Kept
    <3>4. HasBuffer(r) => /\ reader[r].buffer \in 1 .. pool'[r].made /\ reader[r].buffer \notin pool'[r].retired
                          /\ \A i \in 1 .. Len(pool'[r].free) : pool'[r].free[i] # reader[r].buffer
      BY <1>2, <1>5, <1>6 DEF Pools, PoolOf, Kept
    <3>5. pool'[r].retired # {} => pool'[r].code # Success
      BY <1>5
    <3>6. pool'[r].freed => reader[r].at = "gone"
      BY <1>5 DEF Pools, PoolOf
    <3> QED
      BY <2>2, <3>1, <3>2, <3>3, <3>4, <3>5, <3>6
  <2> QED
    BY <2>1, <2>2
<1>8. Pools'
  BY <1>7 DEF Pools, PoolOf, HasBuffer
<1>9. ASSUME NEW d \in Holding' PROVE Kept(d)'
  <2>1. d \in Holding /\ d # c /\ Kept(d) /\ d \in Copy
    BY HandsAreCopies DEF Filled
  <2>2. d.block.reader \in Readers
    BY <2>1 DEF Copy, Block
  <2>3. CASE d.block.reader # r
    BY <1>4, <2>1, <2>2, <2>3 DEF Kept, HasBuffer
  <2>4. CASE d.block.reader = r
    <3>1. d.buffer # c.buffer
      BY <1>2, <2>1, <2>4, BuffersApart
    <3>2. /\ d.buffer <= pool'[r].made /\ d.buffer \notin pool'[r].retired
          /\ HasBuffer(r) => reader[r].buffer # d.buffer
          /\ filled[r][d.buffer] = d.block
          /\ \A i \in 1 .. Len(pool'[r].free) : pool'[r].free[i] # d.buffer
      BY <1>5, <2>1, <2>4, <3>1 DEF Kept
    <3> QED
      BY <2>4, <3>2 DEF Kept, HasBuffer
  <2> QED
    BY <2>3, <2>4
<1>10. Filled'
  <2>1. \A s \in Readers : reader'[s].at = "submit" => filled'[s][reader'[s].buffer] = Current(s)'
    BY DEF Filled, Current
  <2> QED
    BY <1>9, <2>1 DEF Filled
<1> QED
  BY <1>2, <1>4, <1>5, <1>8, <1>10

(* Otherwise the buffers stay where they are.                              *)
LEMMA PoolFrame ==
  ASSUME Pools, Filled, UNCHANGED <<reader, filled, pool>>, Holding' \subseteq Holding
  PROVE  Pools' /\ Filled'
<1>1. Pools'
  BY DEF Pools, PoolOf, HasBuffer
<1>2. \A d \in Holding' : Kept(d)'
  BY DEF Filled, Kept, HasBuffer
<1>3. \A s \in Readers : reader'[s].at = "submit" => filled'[s][reader'[s].buffer] = Current(s)'
  BY DEF Filled, Current
<1> QED
  BY <1>1, <1>2, <1>3 DEF Filled

(* The stream, when nothing new is on it.                                  *)
LEMMA StreamFrame ==
  ASSUME TypeOK, Filled, Streaming, UNCHANGED <<told, filled>>, Range(stream') \subseteq Range(stream),
         \A r \in Readers : pool[r].retired \subseteq pool'[r].retired,
         \A c \in Range(stream') : c \in Enqueued => c \in Enqueued' \/ c.buffer \in pool'[c.block.reader].retired
  PROVE  Streaming'
<1>1. Range(stream) \subseteq Copy
  BY DEF TypeOK, Range
<1>2. ASSUME NEW c \in Range(stream')
      PROVE  /\ Exists(c.block)'
             /\ \/ c \in Enqueued'
                \/ c.buffer \in pool'[c.block.reader].retired /\ filled'[c.block.reader][c.buffer] = c.block
  <2>1. c \in Copy /\ c.block.reader \in Readers
    BY <1>1 DEF Copy, Block
  <2>2. Exists(c.block)'
    BY DEF Streaming, Exists
  <2>3. CASE c \in Enqueued
    <3>1. filled[c.block.reader][c.buffer] = c.block
      BY <2>3, HandsAreCopies DEF Filled, Kept
    <3> QED
      BY <2>2, <2>3, <3>1
  <2>4. CASE c \notin Enqueued
    BY <2>1, <2>2, <2>4 DEF Streaming
  <2> QED
    BY <2>3, <2>4
<1> QED
  BY <1>2 DEF Streaming

(* The copies enqueued, when none lands.                                   *)
LEMMA LandingFrame ==
  ASSUME Landing, UNCHANGED dest, Range(stream) \subseteq Range(stream'),
         Enqueued' \subseteq Enqueued \cup Range(stream'),
         waiterAt'.doing = "report" /\ waiterAt'.code = Success => Arrived(waiterAt'.copy.block),
         laneAt'.doing = "report" => laneAt'.code # Success
  PROVE  Landing'
<1>1. \A c \in Enqueued' : c \in Range(stream') \/ Arrived(c.block)
  BY DEF Landing
<1> QED
  BY <1>1 DEF Landing, Arrived

(* A step of the lane, the waiter or the device that no reader sees.       *)
LEMMA Unseen ==
  ASSUME Inv, TypeOK', UNCHANGED <<reader, told, dest>>, stopped => stopped', Line' = Line, InOrder', Landing', Pools', Filled',
         Streaming'
  PROVE  Inv'
  BY StillFrame DEF Inv

-----------------------------------------------------------------------------
(* The lane.                                                               *)

(* It takes the next request: the copy goes from its queue to its hands.    *)
LEMMA LaneTakesKeeps == ASSUME Inv, LaneTakes PROVE Inv'
<1>0. TypeOK /\ InOrder /\ Landing /\ Pools /\ Filled /\ Streaming
  BY DEF Inv
<1>1. PICK c : c = Head(lane)
  OBVIOUS
<1>2. lane \in Seq(Copy \cup {Sentinel}) /\ lane # <<>> /\ c # Sentinel
  BY <1>0, <1>1 DEF LaneTakes, TypeOK
<1>3. /\ c \in Copy /\ lane' = Tail(lane) /\ lane' \in Seq(Copy \cup {Sentinel})
      /\ laneAt' = [doing |-> "bind", copy |-> c]
  BY <1>1, <1>2 DEF LaneTakes
<1>4. Queued(lane) = Queued(lane') \cup {c}
  BY <1>1, <1>2, <1>3, QueuedTail
<1>5. /\ InHands(laneAt) = {} /\ LaneHolds = {} /\ LaneEnqueued = {}
      /\ InHands(laneAt') = {c} /\ LaneHolds' = {c} /\ LaneEnqueued' = {}
  BY <1>3 DEF LaneTakes, Idle, InHands, LaneHolds, LaneEnqueued
<1>6. waiter' = waiter /\ waiterAt' = waiterAt /\ stream' = stream
  BY DEF LaneTakes, waiterVars, deviceVars
<1>7. Line' = Line /\ Holding' = Holding /\ Enqueued' = Enqueued
  BY <1>4, <1>5, <1>6 DEF Line, InLane, InWaiter, Holding, Enqueued, WaiterHolds
<1>8. TypeOK'
  <2>1. Hands(laneAt', {"bind", "copy", "record", "sync"})
    BY <1>3 DEF Hands
  <2> QED
    BY <1>0, <1>3, <2>1 DEF TypeOK, LaneTakes, waiterVars, deviceVars
<1>9. InOrder'
  <2>1. Sorted(lane') /\ \A d \in Queued(lane') : Earlier(c, d)
    BY <1>0, <1>1, <1>2, <1>3, SortedTail, HeadFirst DEF InOrder
  <2> QED
    BY <1>0, <1>4, <1>5, <1>6, <2>1 DEF InOrder
<1>10. Landing' /\ Pools' /\ Filled' /\ Streaming'
  <2>1. UNCHANGED <<reader, told, filled, dest, pool>>
    BY DEF LaneTakes, deviceVars
  <2>2. Landing'
    BY <1>0, <1>3, <1>6, <1>7, <2>1, LandingFrame DEF Landing
  <2> QED
    BY <1>0, <1>6, <1>7, <2>1, <2>2, PoolFrame, StreamFrame
<1>11. UNCHANGED <<reader, told, dest, stopped>>
  BY DEF LaneTakes, deviceVars
<1> QED
  BY <1>7, <1>8, <1>9, <1>10, <1>11, Unseen

(* It goes on with the copy in its hands.                                  *)
LEMMA LaneAdvances ==
  ASSUME Inv, laneAt.doing \in {"bind", "copy", "record", "sync"},
         NEW next \in {"bind", "copy", "record", "sync"}, laneAt' = [laneAt EXCEPT !.doing = next],
         next \in {"record", "sync"} <=> laneAt.doing \in {"record", "sync"},
         laneBound' \in BOOLEAN, events' \in Int,
         UNCHANGED <<pool, reader, told, filled, dest, opened, lane, waiterVars, stream, broken, stopped>>
  PROVE  Inv'
<1>0. TypeOK /\ InOrder /\ Landing /\ Pools /\ Filled /\ Streaming
  BY DEF Inv
<1>1. PICK c : c = laneAt.copy
  OBVIOUS
<1>2. c \in Copy /\ laneAt = [doing |-> laneAt.doing, copy |-> c]
  BY <1>0, <1>1 DEF TypeOK, Hands
<1>3. laneAt' = [doing |-> next, copy |-> c]
  BY <1>2
<1>4. /\ InHands(laneAt) = {c} /\ LaneHolds = {c} /\ InHands(laneAt') = {c} /\ LaneHolds' = {c}
      /\ LaneEnqueued' = LaneEnqueued
  BY <1>1, <1>3 DEF InHands, LaneHolds, LaneEnqueued
<1>5. waiter' = waiter /\ waiterAt' = waiterAt /\ lane' = lane /\ waiterBound' = waiterBound
  BY DEF waiterVars
<1>6. Line' = Line /\ Holding' = Holding /\ Enqueued' = Enqueued
  BY <1>4, <1>5 DEF Line, InLane, InWaiter, Holding, Enqueued, WaiterHolds
<1>7. TypeOK'
  <2>1. Hands(laneAt', {"bind", "copy", "record", "sync"})
    BY <1>2, <1>3 DEF Hands
  <2> QED
    BY <1>0, <1>5, <2>1 DEF TypeOK
<1>8. InOrder'
  BY <1>0, <1>4, <1>5 DEF InOrder
<1>9. Landing'
  BY <1>0, <1>3, <1>5, <1>6, LandingFrame DEF Landing
<1>10. Pools' /\ Filled' /\ Streaming'
  BY <1>0, <1>5, <1>6, PoolFrame, StreamFrame
<1> QED
  BY <1>6, <1>7, <1>8, <1>9, <1>10, Unseen

(* It cannot enqueue it, or knows that it has ended: the buffer is back.   *)
LEMMA LaneRefuses ==
  ASSUME Inv, laneAt.doing \in {"bind", "copy", "record", "sync"},
         laneAt.doing \in {"record", "sync"} => stream = <<>>,
         NEW code \in Code, code # Success, Refused(laneAt.copy, code),
         laneBound' \in BOOLEAN, events' \in Int,
         UNCHANGED <<reader, told, filled, dest, opened, lane, waiterVars, stream, broken, stopped>>
  PROVE  Inv'
<1>0. TypeOK /\ InOrder /\ Landing /\ Pools /\ Filled /\ Streaming /\ Lined
  BY DEF Inv
<1>1. PICK c : c = laneAt.copy
  OBVIOUS
<1>2. c \in Copy
  BY <1>0, <1>1 DEF TypeOK, Hands
<1>3. laneAt' = [doing |-> "report", copy |-> c, code |-> code] /\ GivesBack(c)
  BY <1>1 DEF Refused
<1>4. /\ InHands(laneAt) = {c} /\ LaneHolds = {c} /\ InHands(laneAt') = {c} /\ LaneHolds' = {}
      /\ LaneEnqueued' = {} /\ LaneEnqueued \subseteq {c}
  BY <1>1, <1>3 DEF InHands, LaneHolds, LaneEnqueued
<1>5. waiter' = waiter /\ waiterAt' = waiterAt /\ lane' = lane /\ waiterBound' = waiterBound
  BY DEF waiterVars
<1>6. c \notin Queued(lane) /\ c \notin Queued(waiter) /\ c \notin InHands(waiterAt)
  BY <1>0, <1>4, PlacesApart
<1>7. Line' = Line
  BY <1>4, <1>5 DEF Line, InLane, InWaiter
<1>8. c \in Holding /\ Holding' \subseteq Holding \ {c} /\ Enqueued' \subseteq Enqueued
  <2>1. WaiterHolds \subseteq InHands(waiterAt)
    BY <1>0, HandsAreCopies
  <2> QED
    BY <1>4, <1>5, <1>6, <2>1 DEF Holding, Enqueued, WaiterHolds
<1>9. pool' \in [Readers -> Pool] /\ Pools' /\ Filled' /\ \A r \in Readers : pool'[r].retired = pool[r].retired
  BY <1>0, <1>3, <1>8, GivenBack
<1>10. TypeOK'
  <2>1. Hands(laneAt', {"bind", "copy", "record", "sync"})
    BY <1>2, <1>3 DEF Hands
  <2> QED
    BY <1>0, <1>5, <1>9, <2>1 DEF TypeOK
<1>11. InOrder'
  BY <1>0, <1>4, <1>5 DEF InOrder
<1>12. Landing'
  BY <1>0, <1>3, <1>5, <1>8, LandingFrame DEF Landing
<1>13. Streaming'
  <2>1. CASE stream = <<>>
    BY <2>1 DEF Streaming, Range
  <2>2. CASE laneAt.doing \notin {"record", "sync"}
    <3>1. Enqueued' = Enqueued
      BY <1>4, <1>5, <2>2 DEF Enqueued, LaneEnqueued, WaiterHolds
    <3> QED
      BY <1>0, <1>9, <3>1, StreamFrame
  <2> QED
    BY <2>1, <2>2
<1> QED
  BY <1>7, <1>9, <1>10, <1>11, <1>12, <1>13, Unseen

(* It binds the context and takes an event, or refuses the copy.            *)
LEMMA LaneBindsKeeps == ASSUME Inv, LaneBinds PROVE Inv'
<1>1. TypeOK /\ events \in Int /\ events + 1 \in Int /\ laneBound \in BOOLEAN
  BY DEF Inv, TypeOK
<1>2. Driver \in Code /\ Transfer \in Code /\ Driver # Success /\ Transfer # Success
  BY DEF Driver, Transfer, Success, Code
<1>3. /\ laneAt.doing = "bind"
      /\ UNCHANGED <<reader, told, filled, dest, opened, lane, waiterVars, stream, broken, stopped>>
  BY DEF LaneBinds
<1>4. CASE laneBound' = TRUE /\ events' = events + 1 /\ laneAt' = [laneAt EXCEPT !.doing = "copy"] /\ UNCHANGED pool
  BY <1>1, <1>3, <1>4, LaneAdvances
<1>5. CASE Refused(laneAt.copy, Driver) /\ UNCHANGED <<laneBound, events>>
  <2>1. laneBound' \in BOOLEAN /\ events' \in Int
    BY <1>1, <1>5
  <2> QED
    BY <1>2, <1>3, <1>5, <2>1, LaneRefuses
<1>6. CASE laneBound' = TRUE /\ Refused(laneAt.copy, Transfer) /\ UNCHANGED events
  BY <1>1, <1>2, <1>3, <1>6, LaneRefuses
<1> QED
  BY <1>4, <1>5, <1>6 DEF LaneBinds

(* A copy goes on the stream.                                              *)
LEMMA LaneCopiesKeeps == ASSUME Inv, LaneCopies PROVE Inv'
<1>0. /\ TypeOK /\ InOrder /\ Landing /\ Pools /\ Filled /\ Streaming /\ Lined /\ events \in Int
      /\ events - 1 \in Int /\ laneBound \in BOOLEAN
  BY DEF Inv, TypeOK
<1>1. /\ laneAt.doing = "copy"
      /\ UNCHANGED <<reader, told, filled, dest, opened, lane, laneBound, waiterVars, broken, stopped>>
  BY DEF LaneCopies
<1>2. CASE Refused(laneAt.copy, Transfer) /\ EventBack /\ UNCHANGED stream
  <2>1. Transfer \in Code /\ Transfer # Success
    BY DEF Transfer, Success, Code
  <2>2. laneBound' \in BOOLEAN /\ events' \in Int
    BY <1>0, <1>1, <1>2 DEF EventBack
  <2> QED
    BY <1>1, <1>2, <2>1, <2>2, LaneRefuses
<1>3. CASE /\ stream' = Append(stream, laneAt.copy) /\ laneAt' = [laneAt EXCEPT !.doing = "record"]
           /\ UNCHANGED <<pool, events>>
  <2>1. PICK c : c = laneAt.copy
    OBVIOUS
  <2>2. c \in Copy /\ laneAt = [doing |-> "copy", copy |-> c]
    BY <1>0, <1>1, <2>1 DEF TypeOK, Hands
  <2>3. laneAt' = [doing |-> "record", copy |-> c]
    BY <1>3, <2>2
  <2>4. /\ InHands(laneAt) = {c} /\ LaneHolds = {c} /\ InHands(laneAt') = {c} /\ LaneHolds' = {c}
        /\ LaneEnqueued' = {c} /\ LaneEnqueued = {}
    BY <2>2, <2>3 DEF InHands, LaneHolds, LaneEnqueued
  <2>5. waiter' = waiter /\ waiterAt' = waiterAt /\ lane' = lane /\ waiterBound' = waiterBound
    BY <1>1 DEF waiterVars
  <2>6. Line' = Line /\ Holding' = Holding /\ Enqueued' = Enqueued \cup {c}
    BY <2>4, <2>5 DEF Line, InLane, InWaiter, Holding, Enqueued, WaiterHolds
  <2>7. stream \in Seq(Copy) /\ stream' \in Seq(Copy) /\ Range(stream') = Range(stream) \cup {c}
    <3>1. stream \in Seq(Copy) /\ stream' \in Seq(Copy)
      BY <1>0, <1>3, <2>1, <2>2 DEF TypeOK
    <3>2. /\ DOMAIN stream' = 1 .. (Len(stream) + 1) /\ DOMAIN stream = 1 .. Len(stream)
          /\ \A i \in 1 .. (Len(stream) + 1) : stream'[i] = IF i = Len(stream) + 1 THEN c ELSE stream[i]
      BY <1>3, <2>1, <2>2, <3>1
    <3> QED
      BY <3>1, <3>2 DEF Range
  <2>8. TypeOK'
    <3>1. Hands(laneAt', {"bind", "copy", "record", "sync"})
      BY <2>2, <2>3 DEF Hands
    <3> QED
      BY <1>0, <1>1, <1>3, <2>5, <2>7, <3>1 DEF TypeOK
  <2>9. InOrder'
    BY <1>0, <2>4, <2>5 DEF InOrder
  <2>10. Landing'
    BY <1>0, <1>1, <2>3, <2>5, <2>6, <2>7, LandingFrame DEF Landing
  <2>11. Pools' /\ Filled'
    BY <1>0, <1>1, <1>3, <2>6, PoolFrame
  <2>12. Streaming'
    <3>1. Exists(c.block)
      BY <1>0, <2>4 DEF Lined, Line, InLane
    <3> QED
      BY <1>0, <1>1, <1>3, <2>6, <2>7, <3>1 DEF Streaming, Exists
  <2> QED
    BY <1>1, <2>6, <2>8, <2>9, <2>10, <2>11, <2>12, Unseen
<1> QED
  BY <1>2, <1>3 DEF LaneCopies

(* It is handed to the waiter, or must be waited for here.                 *)
LEMMA LaneRecordsKeeps == ASSUME Inv, LaneRecords PROVE Inv'
<1>0. TypeOK /\ InOrder /\ Landing /\ Pools /\ Filled /\ Streaming /\ events \in Int /\ laneBound \in BOOLEAN
  BY DEF Inv, TypeOK
<1>1. /\ laneAt.doing = "record"
      /\ UNCHANGED <<pool, reader, told, filled, opened, lane, laneBound, waiterAt, waiterBound, stream, events, broken,
                     dest, stopped>>
  BY DEF LaneRecords, deviceVars
<1>2. CASE laneAt' = [laneAt EXCEPT !.doing = "sync"] /\ UNCHANGED waiter
  <2>1. UNCHANGED waiterVars /\ laneBound' \in BOOLEAN /\ events' \in Int
    BY <1>0, <1>1, <1>2 DEF waiterVars
  <2> QED
    BY <1>1, <1>2, <2>1, LaneAdvances
<1>3. CASE waiter' = Append(waiter, laneAt.copy) /\ laneAt' = Idle
  <2>1. PICK c : c = laneAt.copy
    OBVIOUS
  <2>2. c \in Copy /\ laneAt = [doing |-> "record", copy |-> c]
    BY <1>0, <1>1, <2>1 DEF TypeOK, Hands
  <2>3. /\ InHands(laneAt) = {c} /\ LaneHolds = {c} /\ InHands(laneAt') = {} /\ LaneHolds' = {}
        /\ LaneEnqueued' = {} /\ LaneEnqueued = {c}
    BY <1>3, <2>2 DEF InHands, LaneHolds, LaneEnqueued, Idle
  <2>4. /\ waiter \in Seq(Copy \cup {Sentinel}) /\ waiter' \in Seq(Copy \cup {Sentinel})
        /\ Queued(waiter') = Queued(waiter) \cup {c}
    <3>1. waiter \in Seq(Copy \cup {Sentinel}) /\ c \in Copy \cup {Sentinel} /\ c # Sentinel
      BY <1>0, <2>2, SentinelApart DEF TypeOK
    <3> QED
      BY <1>3, <2>1, <3>1, QueuedAppend
  <2>5. Line' = Line /\ Holding' = Holding /\ Enqueued' = Enqueued
    BY <1>1, <2>3, <2>4 DEF Line, InLane, InWaiter, Holding, Enqueued, WaiterHolds
  <2>6. TypeOK'
    <3>1. Hands(laneAt', {"bind", "copy", "record", "sync"})
      BY <1>3 DEF Hands, Idle
    <3> QED
      BY <1>0, <1>1, <2>4, <3>1 DEF TypeOK
  <2>7. InOrder'
    <3>1. Sorted(waiter')
      <4>1. \A d \in Queued(waiter) : Earlier(d, c)
        BY <1>0, <2>3 DEF InOrder
      <4>2. c \in Copy \cup {Sentinel} /\ Sorted(waiter)
        BY <1>0, <2>2 DEF InOrder
      <4> QED
        BY <1>3, <2>1, <2>4, <4>1, <4>2, SortedAppend
    <3> QED
      BY <1>0, <1>1, <2>3, <2>4, <3>1 DEF InOrder
  <2>8. Landing'
    BY <1>0, <1>1, <1>3, <2>5, LandingFrame DEF Landing, Idle
  <2>9. Pools' /\ Filled' /\ Streaming'
    BY <1>0, <1>1, <2>5, PoolFrame, StreamFrame
  <2> QED
    BY <1>1, <2>5, <2>6, <2>7, <2>8, <2>9, Unseen
<1> QED
  BY <1>2, <1>3 DEF LaneRecords

(* The copy has no event: the lane waits for the stream, or retires the    *)
(* buffer.                                                                 *)
LEMMA LaneSyncsKeeps == ASSUME Inv, LaneSyncs PROVE Inv'
<1>0. /\ TypeOK /\ InOrder /\ Landing /\ Pools /\ Filled /\ Streaming /\ Lined /\ events \in Int
      /\ events - 1 \in Int /\ laneBound \in BOOLEAN
  BY DEF Inv, TypeOK
<1>1. /\ laneAt.doing = "sync" /\ EventBack
      /\ UNCHANGED <<reader, told, filled, dest, opened, lane, laneBound, waiterVars, stream, broken, stopped>>
  BY DEF LaneSyncs
<1>2. laneBound' \in BOOLEAN /\ events' \in Int
  BY <1>0, <1>1 DEF EventBack
<1>3. Driver \in Code /\ Transfer \in Code /\ Driver # Success /\ Transfer # Success
  BY DEF Driver, Transfer, Success, Code
<1>4. CASE stream = <<>> /\ Refused(laneAt.copy, Transfer)
  BY <1>1, <1>2, <1>3, <1>4, LaneRefuses
<1>5. CASE Retires(laneAt.copy) /\ laneAt' = [doing |-> "report", copy |-> laneAt.copy, code |-> Driver]
  <2>1. PICK c : c = laneAt.copy
    OBVIOUS
  <2>2. c \in Copy
    BY <1>0, <1>1, <2>1 DEF TypeOK, Hands
  <2>3. laneAt' = [doing |-> "report", copy |-> c, code |-> Driver] /\ Retires(c)
    BY <1>5, <2>1
  <2>4. /\ InHands(laneAt) = {c} /\ LaneHolds = {c} /\ InHands(laneAt') = {c} /\ LaneHolds' = {}
        /\ LaneEnqueued' = {} /\ LaneEnqueued = {c}
    BY <1>1, <2>1, <2>3 DEF InHands, LaneHolds, LaneEnqueued
  <2>5. waiter' = waiter /\ waiterAt' = waiterAt /\ lane' = lane /\ waiterBound' = waiterBound
    BY <1>1 DEF waiterVars
  <2>6. c \notin Queued(lane) /\ c \notin Queued(waiter) /\ c \notin InHands(waiterAt)
    BY <1>0, <2>4, PlacesApart
  <2>7. Line' = Line
    BY <2>4, <2>5 DEF Line, InLane, InWaiter
  <2>8. /\ c \in Holding /\ Holding' \subseteq Holding \ {c} /\ Enqueued' \subseteq Enqueued
        /\ Enqueued \subseteq Enqueued' \cup {c}
    <3>1. WaiterHolds \subseteq InHands(waiterAt)
      BY <1>0, HandsAreCopies
    <3> QED
      BY <2>4, <2>5, <2>6, <3>1 DEF Holding, Enqueued, WaiterHolds
  <2>9. /\ pool' \in [Readers -> Pool] /\ Pools' /\ Filled'
        /\ \A r \in Readers : pool[r].retired \subseteq pool'[r].retired
        /\ c.buffer \in pool'[c.block.reader].retired
    BY <1>0, <1>1, <2>3, <2>8, Retired
  <2>10. TypeOK'
    <3>1. Hands(laneAt', {"bind", "copy", "record", "sync"})
      BY <1>3, <2>2, <2>3 DEF Hands
    <3> QED
      BY <1>0, <1>1, <1>2, <2>5, <2>9, <3>1 DEF TypeOK
  <2>11. InOrder'
    BY <1>0, <2>4, <2>5 DEF InOrder
  <2>12. Landing'
    BY <1>0, <1>1, <1>3, <2>3, <2>5, <2>8, LandingFrame DEF Landing
  <2>13. Streaming'
    BY <1>0, <1>1, <2>8, <2>9, StreamFrame
  <2> QED
    BY <1>1, <2>7, <2>9, <2>10, <2>11, <2>12, <2>13, Unseen
<1> QED
  BY <1>4, <1>5 DEF LaneSyncs

-----------------------------------------------------------------------------
(* A completion.  Until something has failed it is of the first block the  *)
(* reader has not been told of.                                            *)
LEMMA ReportKeeps ==
  ASSUME Inv, NEW c \in Line, NEW code \in Code, Reports(c, code), Line' = Line \ {c},
         code = Success => Arrived(c.block) /\ \A d \in Line \ {c} : Earlier(c, d),
         UNCHANGED <<pool, told, filled, dest, stopped>>, Holding' \subseteq Holding
  PROVE  /\ reader' \in [Readers -> Reader] /\ Walking' /\ Lined' /\ Counted' /\ Prefix' /\ Landed' /\ AnsweredOnDevice'
         /\ Pools' /\ Filled'
<1>0. TypeOK /\ Walking /\ Lined /\ Counted /\ Prefix /\ Landed /\ AnsweredOnDevice /\ Pools /\ Filled
  BY DEF Inv
<1>1. c \in Copy /\ c.block \in Block /\ c.block.reader \in Readers
  BY <1>0, HandsAreCopies DEF Copy, Block
<1>2. PICK r \in Readers : r = c.block.reader
  BY <1>1
<1>3. reader \in [Readers -> Reader] /\ reader[r] \in Reader
  BY <1>0 DEF TypeOK
<1>4. PICK e : e = OnDone(reader[r], code)
  OBVIOUS
<1>5. /\ e \in Reader
      /\ e.at = reader[r].at /\ e.batch = reader[r].batch /\ e.block = reader[r].block
      /\ e.buffer = reader[r].buffer /\ e.submitted = reader[r].submitted
      /\ e.thrown = reader[r].thrown /\ e.posts = reader[r].posts + 1
      /\ e.failure = (IF reader[r].failure = Success THEN code ELSE reader[r].failure)
      /\ e.landed = (IF code = Success /\ reader[r].failure = Success THEN reader[r].landed + 1 ELSE reader[r].landed)
  BY <1>3, <1>4, OnDoneTypes
<1>6. reader' \in [Readers -> Reader] /\ reader'[r] = e /\ \A s \in Readers \ {r} : reader'[s] = reader[s]
  BY <1>2, <1>3, <1>4, <1>5 DEF Reports
<1>7. \A s \in Readers : /\ reader'[s].at = reader[s].at /\ reader'[s].batch = reader[s].batch
                         /\ reader'[s].block = reader[s].block /\ reader'[s].buffer = reader[s].buffer
                         /\ reader'[s].submitted = reader[s].submitted /\ reader'[s].thrown = reader[s].thrown
  BY <1>5, <1>6
<1>8. Walking'
  BY <1>0, <1>7 DEF Walking, Within, Blocks
<1>9. Lined'
  <2>1. \A d \in Line : d.block.reader \in Readers
    BY <1>0, HandsAreCopies DEF Copy, Block
  <2> QED
    BY <1>0, <1>7, <2>1 DEF Lined, Exists, Within
<1>10. AnsweredOnDevice'
  BY <1>0 DEF AnsweredOnDevice
<1>11. Pools'
  BY <1>0, <1>7 DEF Pools, PoolOf, HasBuffer
<1>12. Filled'
  <2>1. ASSUME NEW d \in Holding' PROVE Kept(d)'
    <3>1. d \in Holding /\ Kept(d) /\ d.block.reader \in Readers
      BY <1>0, HandsAreCopies DEF Filled, Copy, Block
    <3> QED
      BY <1>7, <3>1 DEF Kept, HasBuffer
  <2>2. \A s \in Readers : reader'[s].at = "submit" => filled'[s][reader'[s].buffer] = Current(s)'
    BY <1>0, <1>7 DEF Filled, Current
  <2> QED
    BY <2>1, <2>2 DEF Filled
<1>13. Pending(r)' = Pending(r) \ {c} /\ c \in Pending(r) /\ \A s \in Readers \ {r} : Pending(s)' = Pending(s)
  BY <1>2 DEF Pending
<1>14. Within(r) /\ c.block.batch = reader[r].batch /\ c.block.block <= reader[r].submitted
  BY <1>0, <1>2 DEF Lined
<1>15. /\ IsFiniteSet(Pending(r)) /\ Cardinality(Pending(r)) \in Nat \ {0}
       /\ reader[r].posts + Cardinality(Pending(r)) = reader[r].submitted
       /\ IsFiniteSet(Pending(r)') /\ Cardinality(Pending(r)') = Cardinality(Pending(r)) - 1
  <2>1. IsFiniteSet(Pending(r)) /\ reader[r].posts + Cardinality(Pending(r)) = reader[r].submitted
    BY <1>0, <1>14 DEF Counted
  <2>2. Cardinality(Pending(r)) \in Nat /\ Cardinality(Pending(r)) # 0
    BY <1>13, <2>1, FS_CardinalityType, FS_EmptySet
  <2>3. IsFiniteSet(Pending(r) \ {c}) /\ Cardinality(Pending(r) \ {c}) = Cardinality(Pending(r)) - 1
    BY <1>13, <2>1, FS_RemoveElement
  <2> QED
    BY <1>13, <2>1, <2>2, <2>3
<1>16. reader[r].posts \in Nat /\ reader[r].submitted \in Nat /\ reader[r].landed \in Nat /\ c.block.block \in Nat
  BY <1>1, <1>3 DEF Reader, Block
<1>17. Counted'
  <2>1. e.posts + Cardinality(Pending(r)') = e.submitted
    BY <1>5, <1>15, <1>16
  <2>2. ASSUME NEW s \in Readers, Within(s)'
        PROVE  IsFiniteSet(Pending(s)') /\ reader'[s].posts + Cardinality(Pending(s)') = reader'[s].submitted
    <3>1. CASE s = r
      BY <1>6, <1>15, <2>1, <3>1
    <3>2. CASE s # r
      BY <1>0, <1>6, <1>13, <2>2, <3>2 DEF Counted, Within
    <3> QED
      BY <3>1, <3>2
  <2> QED
    BY <2>2 DEF Counted
<1>18. ASSUME code = Success, reader[r].failure = Success
       PROVE  /\ c.block.block = reader[r].posts + 1 /\ reader[r].landed = reader[r].posts
              /\ \A d \in Pending(r) \ {c} : d.block.block > reader[r].posts + 1
              /\ \A k \in 1 .. reader[r].submitted : k > reader[r].posts + 1 => \E d \in Pending(r) \ {c} : d.block.block = k
  <2>1. /\ reader[r].landed = reader[r].posts
        /\ \A d \in Pending(r) : d.block.block > reader[r].posts
        /\ \A k \in 1 .. reader[r].submitted : k > reader[r].posts => \E d \in Pending(r) : d.block.block = k
    BY <1>0, <1>14, <1>18 DEF Prefix
  <2>2. \A d \in Pending(r) \ {c} : c.block.block < d.block.block /\ d.block.block \in Nat
    <3>1. \A d \in Pending(r) \ {c} : Earlier(c, d) /\ d.block.reader = r /\ d \in Copy
      BY <1>0, <1>18, HandsAreCopies DEF Pending
    <3> QED
      BY <1>2, <3>1 DEF Earlier, Copy, Block
  <2>3. reader[r].posts + 1 \in 1 .. reader[r].submitted /\ reader[r].posts + 1 > reader[r].posts
    BY <1>15, <1>16
  <2>4. PICK d \in Pending(r) : d.block.block = reader[r].posts + 1
    BY <2>1, <2>3
  <2>5. c.block.block > reader[r].posts
    BY <1>13, <2>1
  <2>6. c.block.block = reader[r].posts + 1
    <3>1. CASE d = c
      BY <2>4, <3>1
    <3>2. CASE d # c
      BY <1>16, <2>2, <2>4, <2>5, <3>2
    <3> QED
      BY <3>1, <3>2
  <2>7. \A f \in Pending(r) \ {c} : f.block.block > reader[r].posts + 1
    BY <2>2, <2>6
  <2>8. ASSUME NEW k \in 1 .. reader[r].submitted, k > reader[r].posts + 1
        PROVE  \E f \in Pending(r) \ {c} : f.block.block = k
    <3>1. k > reader[r].posts
      BY <1>16, <2>8
    <3>2. PICK f \in Pending(r) : f.block.block = k
      BY <2>1, <3>1
    <3>3. f # c
      BY <1>16, <2>6, <2>8, <3>2
    <3> QED
      BY <3>2, <3>3
  <2> QED
    BY <2>1, <2>6, <2>7, <2>8
<1>19. Prefix'
  <2>1. ASSUME NEW s \in Readers, Within(s)', reader'[s].failure = Success
        PROVE  /\ reader'[s].landed = reader'[s].posts
               /\ \A d \in Pending(s)' : d.block.block > reader'[s].posts
               /\ \A k \in 1 .. reader'[s].submitted : k > reader'[s].posts => \E d \in Pending(s)' : d.block.block = k
    <3>1. CASE s # r
      BY <1>0, <1>6, <1>13, <2>1, <3>1 DEF Prefix, Within
    <3>2. CASE s = r
      <4>1. code = Success /\ reader[r].failure = Success
        BY <1>5, <1>6, <2>1, <3>2
      <4>2. /\ reader'[r].landed = reader[r].landed + 1 /\ reader'[r].posts = reader[r].posts + 1
            /\ reader'[r].submitted = reader[r].submitted
        BY <1>5, <1>6, <4>1
      <4> QED
        BY <1>13, <1>18, <3>2, <4>1, <4>2
    <3> QED
      BY <3>1, <3>2
  <2> QED
    BY <2>1 DEF Prefix
<1>20. Landed'
  <2>1. ASSUME NEW s \in Readers, Within(s)'
        PROVE  /\ reader'[s].landed <= reader'[s].submitted
               /\ \A k \in 1 .. reader'[s].landed :
                    Arrived([reader |-> s, batch |-> reader'[s].batch, block |-> k])
    <3>1. CASE s # r
      BY <1>0, <1>6, <2>1, <3>1 DEF Landed, Within
    <3>2. /\ reader[r].landed <= reader[r].submitted
          /\ \A k \in 1 .. reader[r].landed : Arrived([reader |-> r, batch |-> reader[r].batch, block |-> k])
      BY <1>0, <1>14 DEF Landed
    <3>3. CASE s = r /\ ~(code = Success /\ reader[r].failure = Success)
      BY <1>5, <1>6, <3>2, <3>3
    <3>4. CASE s = r /\ code = Success /\ reader[r].failure = Success
      <4>1. /\ reader'[r].landed = reader[r].landed + 1 /\ reader'[r].batch = reader[r].batch
            /\ reader'[r].submitted = reader[r].submitted
        BY <1>5, <1>6, <3>4
      <4>2. reader[r].landed + 1 = c.block.block
        BY <1>18, <3>4
      <4>3. c.block = [reader |-> r, batch |-> reader[r].batch, block |-> c.block.block]
        BY <1>1, <1>2, <1>14 DEF Block
      <4>4. Arrived([reader |-> r, batch |-> reader[r].batch, block |-> reader[r].landed + 1])
        BY <3>4, <4>2, <4>3
      <4>5. ASSUME NEW k \in 1 .. (reader[r].landed + 1)
            PROVE  Arrived([reader |-> r, batch |-> reader[r].batch, block |-> k])
        <5>1. CASE k = reader[r].landed + 1
          BY <4>4, <5>1
        <5>2. CASE k \in 1 .. reader[r].landed
          BY <3>2, <5>2
        <5> QED
          BY <1>16, <5>1, <5>2
      <4>6. reader[r].landed + 1 <= reader[r].submitted
        BY <1>14, <4>2
      <4> QED
        BY <3>4, <4>1, <4>5, <4>6
    <3> QED
      BY <3>1, <3>3, <3>4
  <2> QED
    BY <2>1 DEF Landed, Arrived
<1> QED
  BY <1>6, <1>8, <1>9, <1>10, <1>11, <1>12, <1>17, <1>19, <1>20

(* The lane reports only failures.                                         *)
LEMMA LaneReportsKeeps == ASSUME Inv, LaneReports PROVE Inv'
<1>0. TypeOK /\ InOrder /\ Landing /\ Pools /\ Filled /\ Streaming
  BY DEF Inv
<1>1. /\ laneAt.doing = "report" /\ laneAt' = Idle
      /\ UNCHANGED <<pool, told, filled, opened, lane, laneBound, waiter, waiterAt, waiterBound, stream, events, broken,
                     dest, stopped>>
  BY DEF LaneReports, waiterVars, deviceVars
<1>2. PICK c : c = laneAt.copy
  OBVIOUS
<1>3. PICK code : code = laneAt.code
  OBVIOUS
<1>4. c \in Copy /\ code \in Code /\ code # Success /\ Reports(c, code)
  BY <1>0, <1>1, <1>2, <1>3 DEF TypeOK, Hands, Landing, LaneReports
<1>5. /\ InHands(laneAt) = {c} /\ LaneHolds = {} /\ LaneEnqueued = {}
      /\ InHands(laneAt') = {} /\ LaneHolds' = {} /\ LaneEnqueued' = {}
  BY <1>1, <1>2 DEF InHands, LaneHolds, LaneEnqueued, Idle
<1>6. c \notin Queued(lane) /\ c \notin Queued(waiter) /\ c \notin InHands(waiterAt)
  BY <1>0, <1>5, PlacesApart
<1>7. c \in Line /\ Line' = Line \ {c} /\ Holding' = Holding /\ Enqueued' = Enqueued
  BY <1>1, <1>5, <1>6 DEF Line, InLane, InWaiter, Holding, Enqueued, WaiterHolds
<1>8. /\ reader' \in [Readers -> Reader] /\ Walking' /\ Lined' /\ Counted' /\ Prefix' /\ Landed' /\ AnsweredOnDevice'
      /\ Pools' /\ Filled'
  BY <1>1, <1>4, <1>7, ReportKeeps
<1>9. TypeOK'
  <2>1. Hands(laneAt', {"bind", "copy", "record", "sync"})
    BY <1>1 DEF Hands, Idle
  <2> QED
    BY <1>0, <1>1, <1>8, <2>1 DEF TypeOK
<1>10. InOrder'
  BY <1>0, <1>1, <1>5 DEF InOrder
<1>11. Landing'
  BY <1>0, <1>1, <1>7, LandingFrame DEF Landing, Idle
<1>12. Streaming'
  BY <1>0, <1>1, <1>7, StreamFrame
<1> QED
  BY <1>8, <1>9, <1>10, <1>11, <1>12 DEF Inv

(* A thread that ends has nothing in its hands.                            *)
LEMMA LaneJoinsKeeps == ASSUME Inv, LaneJoins PROVE Inv'
<1>0. TypeOK /\ InOrder /\ Landing /\ Pools /\ Filled /\ Streaming
  BY DEF Inv
<1>1. /\ laneAt = Idle /\ laneAt' = [doing |-> "joined"]
      /\ UNCHANGED <<pool, reader, told, filled, opened, lane, laneBound, waiter, waiterAt, waiterBound, stream, events,
                     broken, dest, stopped>>
  BY DEF LaneJoins, waiterVars, deviceVars
<1>2. /\ InHands(laneAt) = {} /\ LaneHolds = {} /\ LaneEnqueued = {}
      /\ InHands(laneAt') = {} /\ LaneHolds' = {} /\ LaneEnqueued' = {}
  BY <1>1 DEF InHands, LaneHolds, LaneEnqueued, Idle
<1>3. Line' = Line /\ Holding' = Holding /\ Enqueued' = Enqueued
  BY <1>1, <1>2 DEF Line, InLane, InWaiter, Holding, Enqueued, WaiterHolds
<1>4. TypeOK'
  <2>1. Hands(laneAt', {"bind", "copy", "record", "sync"})
    BY <1>1 DEF Hands
  <2> QED
    BY <1>0, <1>1, <2>1 DEF TypeOK
<1>5. InOrder'
  BY <1>0, <1>1, <1>2 DEF InOrder
<1>6. Landing'
  BY <1>0, <1>1, <1>3, LandingFrame DEF Landing
<1>7. Pools' /\ Filled' /\ Streaming'
  BY <1>0, <1>1, <1>3, PoolFrame, StreamFrame
<1> QED
  BY <1>1, <1>3, <1>4, <1>5, <1>6, <1>7, Unseen

-----------------------------------------------------------------------------
(* The waiter.                                                             *)

(* It takes the next copy: the line does not change.                        *)
LEMMA WaiterTakesKeeps == ASSUME Inv, WaiterTakes PROVE Inv'
<1>0. TypeOK /\ InOrder /\ Landing /\ Pools /\ Filled /\ Streaming
  BY DEF Inv
<1>1. PICK c : c = Head(waiter)
  OBVIOUS
<1>2. waiter \in Seq(Copy \cup {Sentinel}) /\ waiter # <<>> /\ c # Sentinel
  BY <1>0, <1>1 DEF WaiterTakes, TypeOK
<1>3. /\ c \in Copy /\ waiter' = Tail(waiter) /\ waiter' \in Seq(Copy \cup {Sentinel})
      /\ waiterAt' = [doing |-> "wait", copy |-> c]
  BY <1>1, <1>2 DEF WaiterTakes
<1>4. Queued(waiter) = Queued(waiter') \cup {c}
  BY <1>1, <1>2, <1>3, QueuedTail
<1>5. InHands(waiterAt) = {} /\ WaiterHolds = {} /\ InHands(waiterAt') = {c} /\ WaiterHolds' = {c}
  BY <1>3 DEF WaiterTakes, Idle, InHands, WaiterHolds
<1>6. UNCHANGED <<pool, reader, told, filled, opened, lane, laneAt, laneBound, waiterBound, stream, events, broken, dest,
                  stopped>>
  BY DEF WaiterTakes, laneVars, deviceVars
<1>7. Line' = Line /\ Holding' = Holding /\ Enqueued' = Enqueued
  BY <1>4, <1>5, <1>6 DEF Line, InLane, InWaiter, Holding, Enqueued, LaneHolds, LaneEnqueued
<1>8. TypeOK'
  <2>1. Hands(waiterAt', {"wait"})
    BY <1>3 DEF Hands
  <2> QED
    BY <1>0, <1>3, <1>6, <2>1 DEF TypeOK
<1>9. InOrder'
  <2>1. Sorted(waiter') /\ \A d \in Queued(waiter') : Earlier(c, d)
    BY <1>0, <1>1, <1>2, <1>3, SortedTail, HeadFirst DEF InOrder
  <2> QED
    BY <1>0, <1>4, <1>5, <1>6, <2>1 DEF InOrder
<1>10. Landing'
  BY <1>0, <1>3, <1>6, <1>7, LandingFrame DEF Landing
<1>11. Pools' /\ Filled' /\ Streaming'
  BY <1>0, <1>6, <1>7, PoolFrame, StreamFrame
<1> QED
  BY <1>6, <1>7, <1>8, <1>9, <1>10, <1>11, Unseen

(* Its copy has left the stream: the buffer is back, the bytes are there.  *)
LEMMA WaiterReturnsKeeps == ASSUME Inv, WaiterReturns PROVE Inv'
<1>0. TypeOK /\ InOrder /\ Landing /\ Pools /\ Filled /\ Streaming /\ Lined /\ events \in Int /\ events - 1 \in Int
  BY DEF Inv, TypeOK
<1>1. /\ waiterAt.doing = "wait" /\ ~OnStream(waiterAt.copy) /\ waiterBound' = TRUE /\ events' = events - 1
      /\ UNCHANGED <<reader, told, filled, dest, opened, lane, laneAt, laneBound, waiter, stream, broken, stopped>>
  BY DEF WaiterReturns, laneVars, EventBack
<1>2. PICK c : c = waiterAt.copy
  OBVIOUS
<1>3. c \in Copy /\ c \notin Range(stream)
  BY <1>0, <1>1, <1>2 DEF TypeOK, Hands, OnStream, Range
<1>4. waiterAt' = [doing |-> "report", copy |-> c, code |-> Success] /\ GivesBack(c)
  BY <1>2 DEF WaiterReturns
<1>5. InHands(waiterAt) = {c} /\ WaiterHolds = {c} /\ InHands(waiterAt') = {c} /\ WaiterHolds' = {}
  BY <1>1, <1>2, <1>4 DEF InHands, WaiterHolds
<1>6. c \notin Queued(lane) /\ c \notin Queued(waiter) /\ c \notin InHands(laneAt)
  BY <1>0, <1>5, PlacesApart
<1>7. Line' = Line
  BY <1>1, <1>5 DEF Line, InLane, InWaiter
<1>8. /\ c \in Holding /\ Holding' \subseteq Holding \ {c} /\ Enqueued' \subseteq Enqueued
      /\ Enqueued \subseteq Enqueued' \cup {c} /\ c \in Enqueued
  <2>1. LaneHolds \subseteq InHands(laneAt)
    BY <1>0, HandsAreCopies
  <2> QED
    BY <1>1, <1>5, <1>6, <2>1 DEF Holding, Enqueued, LaneHolds, LaneEnqueued
<1>9. pool' \in [Readers -> Pool] /\ Pools' /\ Filled' /\ \A r \in Readers : pool'[r].retired = pool[r].retired
  BY <1>0, <1>1, <1>4, <1>8, GivenBack
<1>10. TypeOK'
  <2>1. Hands(waiterAt', {"wait"})
    BY <1>3, <1>4 DEF Hands, Code
  <2> QED
    BY <1>0, <1>1, <1>9, <2>1 DEF TypeOK
<1>11. InOrder'
  BY <1>0, <1>1, <1>5 DEF InOrder
<1>12. Landing'
  <2>1. Arrived(c.block)
    BY <1>0, <1>3, <1>8 DEF Landing
  <2> QED
    BY <1>0, <1>1, <1>4, <1>8, <2>1, LandingFrame DEF Landing
<1>13. Streaming'
  BY <1>0, <1>1, <1>3, <1>8, <1>9, StreamFrame
<1> QED
  BY <1>1, <1>7, <1>9, <1>10, <1>11, <1>12, <1>13, Unseen

(* The context is broken: the buffer is retired and the copy fails.         *)
LEMMA WaiterRetiresKeeps == ASSUME Inv, WaiterRetires PROVE Inv'
<1>0. TypeOK /\ InOrder /\ Landing /\ Pools /\ Filled /\ Streaming /\ Lined /\ events \in Int /\ events - 1 \in Int
  BY DEF Inv, TypeOK
<1>1. /\ waiterAt.doing = "wait" /\ events' = events - 1
      /\ UNCHANGED <<reader, told, filled, dest, opened, lane, laneAt, laneBound, waiter, waiterBound, stream, broken, stopped>>
  BY DEF WaiterRetires, laneVars, EventBack
<1>2. PICK c : c = waiterAt.copy
  OBVIOUS
<1>3. c \in Copy /\ Driver \in Code /\ Driver # Success
  BY <1>0, <1>1, <1>2 DEF TypeOK, Hands, Code, Driver, Success
<1>4. waiterAt' = [doing |-> "report", copy |-> c, code |-> Driver] /\ Retires(c)
  BY <1>2 DEF WaiterRetires
<1>5. InHands(waiterAt) = {c} /\ WaiterHolds = {c} /\ InHands(waiterAt') = {c} /\ WaiterHolds' = {}
  BY <1>1, <1>2, <1>4 DEF InHands, WaiterHolds
<1>6. c \notin Queued(lane) /\ c \notin Queued(waiter) /\ c \notin InHands(laneAt)
  BY <1>0, <1>5, PlacesApart
<1>7. Line' = Line
  BY <1>1, <1>5 DEF Line, InLane, InWaiter
<1>8. /\ c \in Holding /\ Holding' \subseteq Holding \ {c} /\ Enqueued' \subseteq Enqueued
      /\ Enqueued \subseteq Enqueued' \cup {c}
  <2>1. LaneHolds \subseteq InHands(laneAt)
    BY <1>0, HandsAreCopies
  <2> QED
    BY <1>1, <1>5, <1>6, <2>1 DEF Holding, Enqueued, LaneHolds, LaneEnqueued
<1>9. /\ pool' \in [Readers -> Pool] /\ Pools' /\ Filled'
      /\ \A r \in Readers : pool[r].retired \subseteq pool'[r].retired
      /\ c.buffer \in pool'[c.block.reader].retired
  BY <1>0, <1>1, <1>4, <1>8, Retired
<1>10. TypeOK'
  <2>1. Hands(waiterAt', {"wait"})
    BY <1>3, <1>4 DEF Hands
  <2> QED
    BY <1>0, <1>1, <1>9, <2>1 DEF TypeOK
<1>11. InOrder'
  BY <1>0, <1>1, <1>5 DEF InOrder
<1>12. Landing'
  BY <1>0, <1>1, <1>3, <1>4, <1>8, LandingFrame DEF Landing
<1>13. Streaming'
  BY <1>0, <1>1, <1>8, <1>9, StreamFrame
<1> QED
  BY <1>1, <1>7, <1>9, <1>10, <1>11, <1>12, <1>13, Unseen

(* It reports the first copy of the line.                                  *)
LEMMA WaiterReportsKeeps == ASSUME Inv, WaiterReports PROVE Inv'
<1>0. TypeOK /\ InOrder /\ Landing /\ Pools /\ Filled /\ Streaming
  BY DEF Inv
<1>1. /\ waiterAt.doing = "report" /\ waiterAt' = Idle
      /\ UNCHANGED <<pool, told, filled, opened, lane, laneAt, laneBound, waiter, waiterBound, stream, events, broken,
                     dest, stopped>>
  BY DEF WaiterReports, laneVars, deviceVars
<1>2. PICK c : c = waiterAt.copy
  OBVIOUS
<1>3. PICK code : code = waiterAt.code
  OBVIOUS
<1>4. c \in Copy /\ code \in Code /\ Reports(c, code)
  BY <1>0, <1>1, <1>2, <1>3 DEF TypeOK, Hands, WaiterReports
<1>5. InHands(waiterAt) = {c} /\ WaiterHolds = {} /\ InHands(waiterAt') = {} /\ WaiterHolds' = {}
  BY <1>1, <1>2 DEF InHands, WaiterHolds, Idle
<1>6. c \notin Queued(lane) /\ c \notin Queued(waiter) /\ c \notin InHands(laneAt)
  BY <1>0, <1>5, PlacesApart
<1>7. c \in Line /\ Line' = Line \ {c} /\ Holding' = Holding /\ Enqueued' = Enqueued
  BY <1>1, <1>5, <1>6 DEF Line, InLane, InWaiter, Holding, Enqueued, LaneHolds, LaneEnqueued
<1>8. code = Success => Arrived(c.block)
  BY <1>0, <1>1, <1>2, <1>3 DEF Landing
<1>9. \A d \in Line \ {c} : Earlier(c, d)
  BY <1>0, <1>5 DEF InOrder, Line, InLane, InWaiter
<1>10. /\ reader' \in [Readers -> Reader] /\ Walking' /\ Lined' /\ Counted' /\ Prefix' /\ Landed' /\ AnsweredOnDevice'
       /\ Pools' /\ Filled'
  BY <1>1, <1>4, <1>7, <1>8, <1>9, ReportKeeps
<1>11. TypeOK'
  <2>1. Hands(waiterAt', {"wait"})
    BY <1>1 DEF Hands, Idle
  <2> QED
    BY <1>0, <1>1, <1>10, <2>1 DEF TypeOK
<1>12. InOrder'
  BY <1>0, <1>1, <1>5 DEF InOrder
<1>13. Landing'
  BY <1>0, <1>1, <1>7, LandingFrame DEF Landing, Idle
<1>14. Streaming'
  BY <1>0, <1>1, <1>7, StreamFrame
<1> QED
  BY <1>10, <1>11, <1>12, <1>13, <1>14 DEF Inv

(* The waiter ends with nothing in its hands.                               *)
LEMMA WaiterJoinsKeeps == ASSUME Inv, WaiterJoins PROVE Inv'
<1>0. TypeOK /\ InOrder /\ Landing /\ Pools /\ Filled /\ Streaming
  BY DEF Inv
<1>1. /\ waiterAt = Idle /\ waiterAt' = [doing |-> "joined"]
      /\ UNCHANGED <<pool, reader, told, filled, opened, lane, laneAt, laneBound, waiter, waiterBound, stream, events,
                     broken, dest, stopped>>
  BY DEF WaiterJoins, laneVars, deviceVars
<1>2. InHands(waiterAt) = {} /\ WaiterHolds = {} /\ InHands(waiterAt') = {} /\ WaiterHolds' = {}
  BY <1>1 DEF InHands, WaiterHolds, Idle
<1>3. Line' = Line /\ Holding' = Holding /\ Enqueued' = Enqueued
  BY <1>1, <1>2 DEF Line, InLane, InWaiter, Holding, Enqueued, LaneHolds, LaneEnqueued
<1>4. TypeOK'
  <2>1. Hands(waiterAt', {"wait"})
    BY <1>1 DEF Hands
  <2> QED
    BY <1>0, <1>1, <2>1 DEF TypeOK
<1>5. InOrder'
  BY <1>0, <1>1, <1>2 DEF InOrder
<1>6. Landing'
  BY <1>0, <1>1, <1>3, LandingFrame DEF Landing
<1>7. Pools' /\ Filled' /\ Streaming'
  BY <1>0, <1>1, <1>3, PoolFrame, StreamFrame
<1> QED
  BY <1>1, <1>3, <1>4, <1>5, <1>6, <1>7, Unseen

-----------------------------------------------------------------------------
(* The device, and the teardown.                                           *)

(* A copy that lands writes the block it was submitted for.                *)
LEMMA CopyLandsKeeps == ASSUME Inv, CopyLands PROVE Inv'
<1>0. /\ TypeOK /\ Walking /\ Lined /\ InOrder /\ Counted /\ Prefix /\ Landed /\ Landing /\ Pools /\ Filled /\ Streaming
      /\ AnsweredOnDevice
  BY DEF Inv
<1>1. /\ stream # <<>> /\ stream' = Tail(stream)
      /\ UNCHANGED <<pool, reader, told, filled, opened, lane, laneAt, laneBound, waiter, waiterAt, waiterBound, events,
                     broken, stopped>>
  BY DEF CopyLands, laneVars, waiterVars
<1>2. PICK c : c = Head(stream)
  OBVIOUS
<1>3. /\ stream \in Seq(Copy) /\ stream' \in Seq(Copy) /\ c \in Copy /\ c.block \in Block
      /\ c.block.reader \in Readers /\ c.buffer \in Buffer
  <2>1. stream \in Seq(Copy) /\ stream' \in Seq(Copy) /\ c \in Copy
    BY <1>0, <1>1, <1>2 DEF TypeOK
  <2> QED
    BY <2>1 DEF Copy, Block
<1>4. c \in Range(stream) /\ Range(stream') \subseteq Range(stream) /\ Range(stream) \subseteq Range(stream') \cup {c}
  <2>1. Sentinel \notin Range(stream) /\ Sentinel \notin Range(stream')
    BY <1>3, SentinelApart DEF Range
  <2>2. Queued(stream) = Range(stream) /\ Queued(stream') = Range(stream')
    BY <2>1 DEF Queued
  <2>3. Queued(stream) = Queued(stream') \cup ({c} \ {Sentinel})
    BY <1>1, <1>2, <1>3, QueuedTail
  <2>4. c # Sentinel
    BY <1>3, SentinelApart
  <2> QED
    BY <2>2, <2>3, <2>4
<1>5. PICK r \in Readers : r = c.block.reader
  BY <1>3
<1>6. PICK b : b = c.block.batch
  OBVIOUS
<1>7. PICK k : k = c.block.block
  OBVIOUS
<1>8. b \in 1 .. Len(told[r]) /\ k \in 1 .. Len(told[r][b]) /\ c.block = [reader |-> r, batch |-> b, block |-> k]
  <2>1. Exists(c.block)
    BY <1>0, <1>4 DEF Streaming
  <2>2. b \in DOMAIN told[r] /\ k \in DOMAIN told[r][b]
    BY <1>5, <1>6, <1>7, <2>1 DEF Exists
  <2>3. c.block = [reader |-> r, batch |-> b, block |-> k]
    BY <1>3, <1>5, <1>6, <1>7 DEF Block
  <2> QED
    BY <1>0, <2>2, <2>3, Shapes
<1>9. filled[r][c.buffer] = c.block
  BY <1>0, <1>4, <1>5, HandsAreCopies DEF Streaming, Filled, Kept
<1>10. dest' = [dest EXCEPT ![r][b][k] = c.block] /\ c.block \in Bytes
  BY <1>2, <1>3, <1>5, <1>6, <1>7, <1>9 DEF CopyLands, Bytes
<1>11. dest' \in [Readers -> Seq(Seq(Bytes))] /\ dest'[r][b][k] = c.block
  <2>1. PICK v \in Bytes : v = c.block
    BY <1>10
  <2>2. dest' = [dest EXCEPT ![r][b][k] = v]
    BY <1>10, <2>1
  <2>3. dest' \in [Readers -> Seq(Seq(Bytes))]
    BY <1>0, <1>8, <2>2, DestWrite
  <2>4. dest'[r][b][k] = v
    <3>1. dest \in [Readers -> Seq(Seq(Bytes))] /\ b \in DOMAIN dest[r] /\ k \in DOMAIN dest[r][b]
      BY <1>0, <1>8, Shapes DEF TypeOK
    <3> QED
      BY <2>2, <3>1
  <2> QED
    BY <2>1, <2>3, <2>4
<1>12. \A s \in Readers : /\ Len(dest'[s]) = Len(dest[s])
                          /\ \A d \in 1 .. Len(dest[s]) : Len(dest'[s][d]) = Len(dest[s][d])
  BY <1>0, <1>8, <1>10, DestWrite
<1>13. \A s \in Readers : \A d \in 1 .. Len(dest[s]) : \A j \in 1 .. Len(dest[s][d]) :
         s # r \/ d # b \/ j # k => dest'[s][d][j] = dest[s][d][j]
  BY <1>0, <1>8, <1>10, DestWrite
<1>14. ASSUME NEW s \in Readers, NEW d \in 1 .. Len(told[s]), NEW j \in 1 .. Len(told[s][d]),
              Arrived([reader |-> s, batch |-> d, block |-> j])
       PROVE  Arrived([reader |-> s, batch |-> d, block |-> j])'
  <2>1. d \in 1 .. Len(dest[s]) /\ j \in 1 .. Len(dest[s][d])
    BY <1>0, Shapes
  <2>2. CASE s # r \/ d # b \/ j # k
    BY <1>13, <1>14, <2>1, <2>2 DEF Arrived
  <2>3. CASE s = r /\ d = b /\ j = k
    BY <1>8, <1>11, <2>3 DEF Arrived
  <2> QED
    BY <2>2, <2>3
<1>15. ASSUME NEW x \in Block, Exists(x), Arrived(x)
       PROVE  Arrived(x)'
  <2>1. x = [reader |-> x.reader, batch |-> x.batch, block |-> x.block] /\ x.reader \in Readers
    BY DEF Block
  <2>2. x.batch \in 1 .. Len(told[x.reader]) /\ x.block \in 1 .. Len(told[x.reader][x.batch])
    BY <1>0, <1>15, <2>1, Shapes DEF Exists
  <2>3. Arrived([reader |-> x.reader, batch |-> x.batch, block |-> x.block])'
    BY <1>14, <1>15, <2>1, <2>2
  <2> QED
    BY <2>1, <2>3
<1>16. Arrived(c.block)'
  BY <1>8, <1>11 DEF Arrived
<1>17. Line' = Line /\ Holding' = Holding /\ Enqueued' = Enqueued
  BY <1>1 DEF Line, InLane, InWaiter, Holding, Enqueued, LaneHolds, LaneEnqueued, WaiterHolds
<1>18. TypeOK'
  <2>1. ASSUME NEW s \in Readers
        PROVE  DOMAIN dest'[s] = DOMAIN told[s] /\ \A d \in DOMAIN told[s] : DOMAIN dest'[s][d] = DOMAIN told[s][d]
    <3>1. dest'[s] \in Seq(Seq(Bytes))
      BY <1>11
    <3>2. DOMAIN dest'[s] = 1 .. Len(told[s])
      BY <1>0, <1>12, <3>1, Shapes
    <3>3. \A d \in 1 .. Len(told[s]) : DOMAIN dest'[s][d] = 1 .. Len(told[s][d])
      <4> TAKE d \in 1 .. Len(told[s])
      <4>1. dest'[s][d] \in Seq(Bytes)
        BY <3>1, <3>2
      <4>2. d \in 1 .. Len(dest[s]) /\ Len(dest[s][d]) = Len(told[s][d])
        BY <1>0, Shapes
      <4>3. Len(dest'[s][d]) = Len(told[s][d])
        BY <1>12, <4>2
      <4> QED
        BY <4>1, <4>3
    <3> QED
      BY <1>0, <3>2, <3>3, Shapes
  <2> QED
    BY <1>0, <1>1, <1>3, <1>11, <2>1 DEF TypeOK
<1>19. Walking'
  BY <1>0, <1>1 DEF Walking, Within, Blocks
<1>20. Lined'
  BY <1>0, <1>1, <1>17 DEF Lined, Exists, Within
<1>21. InOrder'
  BY <1>0, <1>1 DEF InOrder
<1>22. Counted' /\ Prefix'
  <2>1. \A s \in Readers : Pending(s)' = Pending(s)
    BY <1>17 DEF Pending
  <2>2. Counted'
    BY <1>0, <1>1, <2>1 DEF Counted, Within
  <2>3. Prefix'
    BY <1>0, <1>1, <2>1 DEF Prefix, Within
  <2> QED
    BY <2>2, <2>3
<1>23. Landed'
  <2>1. ASSUME NEW s \in Readers, Within(s), NEW j \in 1 .. reader[s].landed
        PROVE  dest'[s][reader[s].batch][j] = [reader |-> s, batch |-> reader[s].batch, block |-> j]
    <3>1. Arrived([reader |-> s, batch |-> reader[s].batch, block |-> j]) /\ reader[s].landed <= reader[s].submitted
      BY <1>0, <2>1 DEF Landed
    <3>2. /\ reader[s].batch \in DOMAIN told[s]
          /\ reader[s].block <= Len(told[s][reader[s].batch]) /\ reader[s].submitted = reader[s].block
      BY <1>0, <2>1 DEF Walking, Blocks
    <3>3. reader[s].batch \in 1 .. Len(told[s]) /\ Len(told[s][reader[s].batch]) \in Nat
      BY <1>0, <3>2, Shapes
    <3>4. reader[s].landed \in Nat /\ reader[s].submitted \in Nat
      BY <1>0 DEF TypeOK, Reader
    <3>5. j \in 1 .. Len(told[s][reader[s].batch])
      BY <3>1, <3>2, <3>3, <3>4
    <3>6. PICK d \in 1 .. Len(told[s]) : d = reader[s].batch
      BY <3>3
    <3>7. Arrived([reader |-> s, batch |-> d, block |-> j])'
      BY <1>14, <3>1, <3>5, <3>6
    <3> QED
      BY <3>6, <3>7 DEF Arrived
  <2> QED
    BY <1>0, <1>1, <2>1 DEF Landed, Within, Arrived
<1>24. Landing'
  <2>1. ASSUME NEW d \in Enqueued PROVE d \in Range(stream') \/ Arrived(d.block)'
    <3>1. d \in Line /\ d.block \in Block /\ Exists(d.block)
      BY <1>0, HandsAreCopies DEF Lined, Copy
    <3> QED
      BY <1>0, <1>4, <1>15, <1>16, <3>1 DEF Landing
  <2>2. waiterAt.doing = "report" /\ waiterAt.code = Success => Arrived(waiterAt.copy.block)'
    <3> SUFFICES ASSUME waiterAt.doing = "report", waiterAt.code = Success
                 PROVE  Arrived(waiterAt.copy.block)'
      OBVIOUS
    <3>1. PICK d : d = waiterAt.copy
      OBVIOUS
    <3>2. d \in InHands(waiterAt)
      BY <3>1 DEF InHands
    <3>3. d \in Line /\ d.block \in Block /\ Exists(d.block)
      BY <1>0, <3>2, HandsAreCopies DEF Lined, Copy, Line, InWaiter
    <3>4. Arrived(d.block)
      BY <1>0, <3>1 DEF Landing
    <3>5. Arrived(d.block)'
      BY <1>15, <3>3, <3>4
    <3> QED
      BY <1>1, <3>1, <3>5
  <2>3. laneAt.doing = "report" => laneAt.code # Success
    BY <1>0 DEF Landing
  <2> QED
    BY <1>1, <1>17, <2>1, <2>2, <2>3 DEF Landing
<1>25. Pools' /\ Filled' /\ Streaming'
  BY <1>0, <1>1, <1>4, <1>17, PoolFrame, StreamFrame
<1>26. AnsweredOnDevice'
  <2>1. ASSUME NEW s \in Readers, NEW d \in DOMAIN told[s], NEW j \in DOMAIN told[s][d], told[s][d][j] = Success
        PROVE  dest'[s][d][j] = [reader |-> s, batch |-> d, block |-> j]
    <3>1. d \in 1 .. Len(told[s]) /\ j \in 1 .. Len(told[s][d])
      BY <1>0, Shapes
    <3>2. Arrived([reader |-> s, batch |-> d, block |-> j])
      BY <1>0, <2>1 DEF AnsweredOnDevice, Arrived
    <3>3. Arrived([reader |-> s, batch |-> d, block |-> j])'
      BY <1>14, <3>1, <3>2
    <3> QED
      BY <3>3 DEF Arrived
  <2> QED
    BY <1>1, <2>1 DEF AnsweredOnDevice
<1> QED
  BY <1>18, <1>19, <1>20, <1>21, <1>22, <1>23, <1>24, <1>25, <1>26 DEF Inv

(* Steps that no copy and no buffer is part of.                            *)
LEMMA OutsideKeeps ==
  ASSUME Inv, ContextBreaks \/ Stop \/ UNCHANGED vars
  PROVE  Inv'
<1>0. TypeOK /\ InOrder /\ Landing /\ Pools /\ Filled /\ Streaming
  BY DEF Inv
<1>1. /\ UNCHANGED <<pool, reader, told, filled, dest, opened, lane, laneAt, laneBound, waiter, waiterAt, waiterBound, stream,
                     events>>
      /\ broken' \in BOOLEAN /\ stopped' \in BOOLEAN /\ (stopped => stopped')
  BY <1>0 DEF ContextBreaks, Stop, vars, laneVars, waiterVars, deviceVars, TypeOK
<1>2. Line' = Line /\ Holding' = Holding /\ Enqueued' = Enqueued
  BY <1>1 DEF Line, InLane, InWaiter, Holding, Enqueued, LaneHolds, LaneEnqueued, WaiterHolds
<1>3. TypeOK'
  BY <1>0, <1>1 DEF TypeOK
<1>4. InOrder'
  BY <1>0, <1>1 DEF InOrder
<1>5. Landing'
  BY <1>0, <1>1, <1>2, LandingFrame DEF Landing
<1>6. Pools' /\ Filled' /\ Streaming'
  BY <1>0, <1>1, <1>2, PoolFrame, StreamFrame
<1> QED
  BY <1>1, <1>2, <1>3, <1>4, <1>5, <1>6, Unseen

(* The sentinels go to the end of the queues.                              *)
LEMMA StopLaneKeeps == ASSUME Inv, StopLane PROVE Inv'
<1>0. TypeOK /\ InOrder /\ Landing /\ Pools /\ Filled /\ Streaming
  BY DEF Inv
<1>1. /\ lane' = Append(lane, Sentinel)
      /\ UNCHANGED <<pool, reader, told, filled, opened, laneAt, laneBound, waiter, waiterAt, waiterBound, stream, events,
                     broken, dest, stopped>>
  BY DEF StopLane, waiterVars, deviceVars
<1>2. /\ lane \in Seq(Copy \cup {Sentinel}) /\ lane' \in Seq(Copy \cup {Sentinel})
      /\ Queued(lane') = Queued(lane) /\ Sorted(lane')
  <2>1. lane \in Seq(Copy \cup {Sentinel}) /\ Sentinel \in Copy \cup {Sentinel} /\ Sorted(lane)
    BY <1>0 DEF TypeOK, InOrder
  <2>2. lane' \in Seq(Copy \cup {Sentinel})
    BY <1>1, <2>1
  <2>3. Queued(lane') = Queued(lane)
    <3>1. Queued(Append(lane, Sentinel)) = Queued(lane) \cup ({Sentinel} \ {Sentinel})
      BY <2>1, QueuedAppend
    <3> QED
      BY <1>1, <3>1
  <2>4. Sorted(lane')
    BY <1>1, <2>1, SortedAppend
  <2> QED
    BY <2>1, <2>2, <2>3, <2>4
<1>3. Line' = Line /\ Holding' = Holding /\ Enqueued' = Enqueued
  BY <1>1, <1>2 DEF Line, InLane, InWaiter, Holding, Enqueued, LaneHolds, LaneEnqueued, WaiterHolds
<1>4. TypeOK'
  BY <1>0, <1>1, <1>2 DEF TypeOK
<1>5. InOrder'
  BY <1>0, <1>1, <1>2 DEF InOrder
<1>6. Landing'
  BY <1>0, <1>1, <1>3, LandingFrame DEF Landing
<1>7. Pools' /\ Filled' /\ Streaming'
  BY <1>0, <1>1, <1>3, PoolFrame, StreamFrame
<1> QED
  BY <1>1, <1>3, <1>4, <1>5, <1>6, <1>7, Unseen

(* The same for the queue of the waiter.                                    *)
LEMMA StopWaiterKeeps == ASSUME Inv, StopWaiter PROVE Inv'
<1>0. TypeOK /\ InOrder /\ Landing /\ Pools /\ Filled /\ Streaming
  BY DEF Inv
<1>1. /\ waiter' = Append(waiter, Sentinel)
      /\ UNCHANGED <<pool, reader, told, filled, opened, lane, laneAt, laneBound, waiterAt, waiterBound, stream, events,
                     broken, dest, stopped>>
  BY DEF StopWaiter, laneVars, deviceVars
<1>2. /\ waiter \in Seq(Copy \cup {Sentinel}) /\ waiter' \in Seq(Copy \cup {Sentinel})
      /\ Queued(waiter') = Queued(waiter) /\ Sorted(waiter')
  <2>1. waiter \in Seq(Copy \cup {Sentinel}) /\ Sentinel \in Copy \cup {Sentinel} /\ Sorted(waiter)
    BY <1>0 DEF TypeOK, InOrder
  <2>2. waiter' \in Seq(Copy \cup {Sentinel})
    BY <1>1, <2>1
  <2>3. Queued(waiter') = Queued(waiter)
    <3>1. Queued(Append(waiter, Sentinel)) = Queued(waiter) \cup ({Sentinel} \ {Sentinel})
      BY <2>1, QueuedAppend
    <3> QED
      BY <1>1, <3>1
  <2>4. Sorted(waiter')
    BY <1>1, <2>1, SortedAppend
  <2> QED
    BY <2>1, <2>2, <2>3, <2>4
<1>3. Line' = Line /\ Holding' = Holding /\ Enqueued' = Enqueued
  BY <1>1, <1>2 DEF Line, InLane, InWaiter, Holding, Enqueued, LaneHolds, LaneEnqueued, WaiterHolds
<1>4. TypeOK'
  BY <1>0, <1>1, <1>2 DEF TypeOK
<1>5. InOrder'
  BY <1>0, <1>1, <1>2 DEF InOrder
<1>6. Landing'
  BY <1>0, <1>1, <1>3, LandingFrame DEF Landing
<1>7. Pools' /\ Filled' /\ Streaming'
  BY <1>0, <1>1, <1>3, PoolFrame, StreamFrame
<1> QED
  BY <1>1, <1>3, <1>4, <1>5, <1>6, <1>7, Unseen

-----------------------------------------------------------------------------
(* The readers.                                                            *)

(* The same blocks exist after a step that writes answers.                 *)
LEMMA SameDomains ==
  ASSUME TypeOK, told' \in [Readers -> Seq(Seq(Code))], SameShape, NEW s \in Readers
  PROVE  /\ DOMAIN told'[s] = DOMAIN told[s] /\ Len(told'[s]) = Len(told[s])
         /\ \A b \in DOMAIN told[s] : DOMAIN told'[s][b] = DOMAIN told[s][b] /\ Len(told'[s][b]) = Len(told[s][b])
<1>1. told'[s] \in Seq(Seq(Code)) /\ Len(told'[s]) = Len(told[s])
  BY DEF SameShape
<1>2. DOMAIN told'[s] = 1 .. Len(told[s]) /\ DOMAIN told[s] = 1 .. Len(told[s])
  BY <1>1, Shapes
<1>3. ASSUME NEW b \in 1 .. Len(told[s])
      PROVE  DOMAIN told'[s][b] = DOMAIN told[s][b] /\ Len(told'[s][b]) = Len(told[s][b])
  <2>1. told'[s][b] \in Seq(Code)
    BY <1>1, <1>2
  <2>2. Len(told'[s][b]) = Len(told[s][b])
    BY DEF SameShape
  <2>3. DOMAIN told[s][b] = 1 .. Len(told[s][b])
    BY Shapes
  <2> QED
    BY <2>1, <2>2, <2>3
<1> QED
  BY <1>1, <1>2, <1>3

(* The block a reader is at, once it has been read.                        *)
LEMMA CurrentIsBlock ==
  ASSUME TypeOK, Walking, NEW r \in Readers, reader[r].at \in {"read", "submit"}
  PROVE  Current(r) \in Block /\ Exists(Current(r))
<1>1. reader[r].block \in Nat /\ reader[r].batch \in Nat
  BY DEF TypeOK, Reader
<1>2. /\ reader[r].batch \in DOMAIN told[r] /\ reader[r].block < Len(told[r][reader[r].batch])
      /\ DOMAIN told[r] = 1 .. Len(told[r])
  BY Shapes DEF Walking, Within, Blocks
<1>3. DOMAIN told[r][reader[r].batch] = 1 .. Len(told[r][reader[r].batch]) /\ Len(told[r][reader[r].batch]) \in Nat
  BY <1>2, Shapes
<1>4. /\ reader[r].block + 1 \in Nat \ {0} /\ reader[r].batch \in Nat \ {0}
      /\ reader[r].block + 1 \in DOMAIN told[r][reader[r].batch]
  BY <1>1, <1>2, <1>3
<1> QED
  BY <1>2, <1>4 DEF Current, Block, Exists

(* A step of a reader keeps the types, and the others see nothing of it.   *)
LEMMA ReadTypes ==
  ASSUME Inv, NEW r \in Readers, ReadStep(r)
  PROVE  /\ TypeOK' /\ SameShape
         /\ \A s \in Readers \ {r} : reader'[s] = reader[s] /\ pool'[s] = pool[s] /\ filled'[s] = filled[s]
         /\ UNCHANGED <<laneAt, laneBound, waiter, waiterAt, waiterBound, stream, events, broken, dest, stopped>>
<1>1. TypeOK /\ Walking /\ Pools
  BY DEF Inv
<1>2. told' \in [Readers -> Seq(Seq(Code))] /\ SameShape
  BY <1>1, ToldStep
<1>3. /\ reader' \in [Readers -> Reader] /\ pool' \in [Readers -> Pool]
      /\ filled' \in [Readers -> [Buffer -> Bytes]]
      /\ \A s \in Readers \ {r} : reader'[s] = reader[s] /\ pool'[s] = pool[s] /\ filled'[s] = filled[s]
  BY <1>1, ReaderTypes
<1>4. UNCHANGED <<laneAt, laneBound, waiter, waiterAt, waiterBound, stream, events, broken, dest, stopped>>
  BY DEF ReadStep, BeginBatch, RefuseBatch, TakeBuffer, GrowPool, RefuseSlab, PoolGone, Park, ReadBlock, ReadThrows,
         Submit, AnswerLanded, LeaveLoop, EndBatch, ExitReader, laneVars, waiterVars, deviceVars
<1>5. opened' \in BOOLEAN
  BY <1>1 DEF TypeOK, ReadStep, BeginBatch, RefuseBatch, TakeBuffer, GrowPool, RefuseSlab, PoolGone, Park, ReadBlock,
         ReadThrows, Submit, AnswerLanded, LeaveLoop, EndBatch, ExitReader
<1>6. lane' \in Seq(Copy \cup {Sentinel})
  <2>1. CASE lane' = lane
    BY <1>1, <2>1 DEF TypeOK
  <2>2. CASE Submit(r)
    <3>1. Current(r) \in Block /\ reader[r].buffer \in Buffer
      BY <1>1, <2>2, CurrentIsBlock, DeviceAssumption DEF Submit, At, Pools, PoolOf, HasBuffer, Buffer, TypeOK, Pool
    <3>2. [block |-> Current(r), buffer |-> reader[r].buffer] \in Copy
      BY <3>1 DEF Copy
    <3> QED
      BY <1>1, <2>2, <3>2 DEF Submit, TypeOK
  <2> QED
    BY <2>1, <2>2 DEF ReadStep, BeginBatch, RefuseBatch, TakeBuffer, GrowPool, RefuseSlab, PoolGone, Park, ReadBlock,
         ReadThrows, AnswerLanded, LeaveLoop, EndBatch, ExitReader, laneVars
<1>7. \A s \in Readers : /\ DOMAIN dest'[s] = DOMAIN told'[s]
                         /\ \A b \in DOMAIN told'[s] : DOMAIN dest'[s][b] = DOMAIN told'[s][b]
  BY <1>1, <1>2, <1>4, SameDomains DEF TypeOK
<1>8. TypeOK'
  BY <1>1, <1>2, <1>3, <1>4, <1>5, <1>6, <1>7 DEF TypeOK
<1> QED
  BY <1>2, <1>3, <1>4, <1>8

(* The order of the line and what has landed, when nothing in it moves.    *)
LEMMA QuietFrame ==
  ASSUME Inv, UNCHANGED <<lane, laneAt, waiter, waiterAt, stream, dest>>
  PROVE  InOrder' /\ Landing' /\ Line' = Line /\ Holding' = Holding /\ Enqueued' = Enqueued
<1>1. Line' = Line /\ Holding' = Holding /\ Enqueued' = Enqueued
  BY DEF Line, InLane, InWaiter, Holding, Enqueued, LaneHolds, LaneEnqueued, WaiterHolds
<1>2. InOrder'
  BY DEF Inv, InOrder
<1>3. Landing'
  BY <1>1, LandingFrame DEF Inv, Landing
<1> QED
  BY <1>1, <1>2, <1>3

(* A reader goes on in its batch, begins one, or is outside any; the last  *)
(* two only when it has nothing in the line.                               *)
GoesOn(r) ==
  /\ Within(r) /\ Within(r)' /\ reader'[r].batch = reader[r].batch /\ reader'[r].submitted = reader[r].submitted
  /\ reader'[r].landed = reader[r].landed /\ reader'[r].failure = reader[r].failure
  /\ reader'[r].posts = reader[r].posts
Begins(r) == Pending(r) = {} /\ reader'[r].submitted = 0 /\ reader'[r].landed = 0 /\ reader'[r].posts = 0
Leaves(r) == Pending(r) = {} /\ ~Within(r)'

(* Each of the three keeps what the line and its reader agree on.           *)
LEMMA ReaderLine ==
  ASSUME Inv, NEW r \in Readers, TypeOK', SameShape, Line' = Line, UNCHANGED dest,
         \A s \in Readers \ {r} : reader'[s] = reader[s],
         GoesOn(r) \/ Begins(r) \/ Leaves(r)
  PROVE  Lined' /\ Counted' /\ Prefix' /\ Landed'
<1>0. TypeOK /\ Lined /\ Counted /\ Prefix /\ Landed
  BY DEF Inv
<1>1. \A s \in Readers : Pending(s)' = Pending(s)
  BY DEF Pending
<1>2. Lined'
  <2>1. ASSUME NEW c \in Line
        PROVE  /\ Exists(c.block)' /\ Within(c.block.reader)'
               /\ c.block.batch = reader'[c.block.reader].batch
               /\ c.block.block <= reader'[c.block.reader].submitted
    <3>1. c \in Copy /\ c.block.reader \in Readers
      BY <1>0, HandsAreCopies DEF Copy, Block
    <3>2. /\ Exists(c.block) /\ Within(c.block.reader) /\ c.block.batch = reader[c.block.reader].batch
          /\ c.block.block <= reader[c.block.reader].submitted
      BY <1>0 DEF Lined
    <3>3. Exists(c.block)'
      <4>1. told' \in [Readers -> Seq(Seq(Code))]
        BY DEF TypeOK
      <4> QED
        BY <1>0, <3>1, <3>2, <4>1, SameDomains DEF Exists
    <3>4. CASE c.block.reader # r
      BY <3>1, <3>2, <3>3, <3>4 DEF Within
    <3>5. CASE c.block.reader = r
      <4>1. c \in Pending(r)
        BY <3>5 DEF Pending
      <4> QED
        BY <3>2, <3>3, <3>5, <4>1 DEF GoesOn, Begins, Leaves
    <3> QED
      BY <3>4, <3>5
  <2> QED
    BY <2>1 DEF Lined
<1>3. Counted'
  <2>1. ASSUME NEW s \in Readers, Within(s)'
        PROVE  IsFiniteSet(Pending(s)) /\ reader'[s].posts + Cardinality(Pending(s)) = reader'[s].submitted
    <3>1. CASE s # r
      BY <1>0, <2>1, <3>1 DEF Counted, Within
    <3>2. CASE s = r /\ GoesOn(r)
      BY <1>0, <3>2 DEF Counted, GoesOn
    <3>3. CASE s = r /\ Begins(r)
      BY <3>3, FS_EmptySet DEF Begins
    <3> QED
      BY <2>1, <3>1, <3>2, <3>3 DEF Leaves
  <2> QED
    BY <1>1, <2>1 DEF Counted
<1>4. Prefix'
  <2>1. ASSUME NEW s \in Readers, Within(s)', reader'[s].failure = Success
        PROVE  /\ reader'[s].landed = reader'[s].posts
               /\ \A c \in Pending(s) : c.block.block > reader'[s].posts
               /\ \A k \in 1 .. reader'[s].submitted : k > reader'[s].posts => \E c \in Pending(s) : c.block.block = k
    <3>1. CASE s # r
      BY <1>0, <2>1, <3>1 DEF Prefix, Within
    <3>2. CASE s = r /\ GoesOn(r)
      BY <1>0, <2>1, <3>2 DEF Prefix, GoesOn
    <3>3. CASE s = r /\ Begins(r)
      BY <3>3 DEF Begins
    <3> QED
      BY <2>1, <3>1, <3>2, <3>3 DEF Leaves
  <2> QED
    BY <1>1, <2>1 DEF Prefix
<1>5. Landed'
  <2>1. ASSUME NEW s \in Readers, Within(s)'
        PROVE  /\ reader'[s].landed <= reader'[s].submitted
               /\ \A k \in 1 .. reader'[s].landed : Arrived([reader |-> s, batch |-> reader'[s].batch, block |-> k])
    <3>1. CASE s # r
      BY <1>0, <2>1, <3>1 DEF Landed, Within
    <3>2. CASE s = r /\ GoesOn(r)
      BY <1>0, <3>2 DEF Landed, GoesOn
    <3>3. CASE s = r /\ Begins(r)
      BY <3>3 DEF Begins
    <3> QED
      BY <2>1, <3>1, <3>2, <3>3 DEF Leaves
  <2> QED
    BY <2>1 DEF Landed, Arrived
<1> QED
  BY <1>2, <1>3, <1>4, <1>5

(* The buffers, after a step of the reader they belong to.                 *)
LEMMA ReaderBuffers ==
  ASSUME Inv, NEW r \in Readers, TypeOK', SameShape, stream' = stream, Enqueued \subseteq Enqueued',
         \A s \in Readers \ {r} : reader'[s] = reader[s] /\ pool'[s] = pool[s] /\ filled'[s] = filled[s],
         PoolOf(r)',
         \A c \in Holding' : c \in Holding \/ c.block.reader = r,
         \A c \in Holding' : c.block.reader = r => Kept(c)',
         reader'[r].at = "submit" => filled'[r][reader'[r].buffer] = Current(r)',
         \A i \in pool[r].retired : i \in pool'[r].retired /\ filled'[r][i] = filled[r][i]
  PROVE  Pools' /\ Filled' /\ Streaming'
<1>0. TypeOK /\ Pools /\ Filled /\ Streaming
  BY DEF Inv
<1>1. Pools'
  <2>1. ASSUME NEW s \in Readers PROVE PoolOf(s)'
    <3>1. CASE s = r
      BY <3>1
    <3>2. CASE s # r
      BY <1>0, <3>2 DEF Pools, PoolOf, HasBuffer
    <3> QED
      BY <3>1, <3>2
  <2> QED
    BY <2>1 DEF Pools
<1>2. Filled'
  <2>1. ASSUME NEW c \in Holding' PROVE Kept(c)'
    <3>1. CASE c.block.reader = r
      BY <3>1
    <3>2. CASE c.block.reader # r
      <4>1. c \in Holding /\ c \in Copy /\ Kept(c)
        BY <1>0, <3>2, HandsAreCopies DEF Filled
      <4>2. c.block.reader \in Readers
        BY <4>1 DEF Copy, Block
      <4> QED
        BY <3>2, <4>1, <4>2 DEF Kept, HasBuffer
    <3> QED
      BY <3>1, <3>2
  <2>2. ASSUME NEW s \in Readers PROVE reader'[s].at = "submit" => filled'[s][reader'[s].buffer] = Current(s)'
    <3>1. CASE s = r
      BY <3>1
    <3>2. CASE s # r
      BY <1>0, <3>2 DEF Filled, Current
    <3> QED
      BY <3>1, <3>2
  <2> QED
    BY <2>1, <2>2 DEF Filled
<1>3. Streaming'
  <2>1. ASSUME NEW c \in Range(stream)
        PROVE  /\ Exists(c.block)'
               /\ \/ c \in Enqueued'
                  \/ c.buffer \in pool'[c.block.reader].retired /\ filled'[c.block.reader][c.buffer] = c.block
    <3>1. c \in Copy /\ c.block.reader \in Readers
      <4>1. c \in Copy
        BY <1>0 DEF TypeOK, Range
      <4> QED
        BY <4>1 DEF Copy, Block
    <3>2. Exists(c.block)'
      <4>1. told' \in [Readers -> Seq(Seq(Code))]
        BY DEF TypeOK
      <4>2. Exists(c.block)
        BY <1>0 DEF Streaming
      <4> QED
        BY <1>0, <3>1, <4>1, <4>2, SameDomains DEF Exists
    <3>3. CASE c \in Enqueued
      BY <3>2, <3>3
    <3>4. CASE c \notin Enqueued
      <4>1. c.buffer \in pool[c.block.reader].retired /\ filled[c.block.reader][c.buffer] = c.block
        BY <1>0, <3>4 DEF Streaming
      <4>2. CASE c.block.reader = r
        BY <3>2, <4>1, <4>2
      <4>3. CASE c.block.reader # r
        BY <3>1, <3>2, <4>1, <4>3
      <4> QED
        BY <4>2, <4>3
    <3> QED
      BY <3>3, <3>4
  <2> QED
    BY <2>1 DEF Streaming
<1> QED
  BY <1>1, <1>2, <1>3

(* They stay where they are when the reader has none in its hands.         *)
LEMMA BuffersStay ==
  ASSUME Inv, NEW r \in Readers, TypeOK', SameShape, stream' = stream, Enqueued' = Enqueued, Holding' = Holding,
         \A s \in Readers \ {r} : reader'[s] = reader[s] /\ pool'[s] = pool[s] /\ filled'[s] = filled[s],
         pool'[r].made = pool[r].made, pool'[r].free = pool[r].free, pool'[r].retired = pool[r].retired,
         pool'[r].code = pool[r].code, pool'[r].freed => reader'[r].at = "gone",
         filled'[r] = filled[r], ~HasBuffer(r)'
  PROVE  Pools' /\ Filled' /\ Streaming'
<1>0. TypeOK /\ Pools /\ Filled
  BY DEF Inv
<1>1. PoolOf(r)'
  BY <1>0 DEF Pools, PoolOf
<1>2. ASSUME NEW c \in Holding, c.block.reader = r PROVE Kept(c)'
  <2>1. Kept(c)
    BY <1>0 DEF Filled
  <2> QED
    BY <1>2, <2>1 DEF Kept
<1>3. reader'[r].at = "submit" => filled'[r][reader'[r].buffer] = Current(r)'
  BY DEF HasBuffer
<1> QED
  BY <1>1, <1>2, <1>3, ReaderBuffers

(* A reader has nothing in the line outside a batch, nor when it has been  *)
(* told of all it submitted.                                               *)
LEMMA NothingPending ==
  ASSUME Inv, NEW r \in Readers, ~Within(r) \/ Drained(reader[r])
  PROVE  Pending(r) = {}
<1>0. TypeOK /\ Lined /\ Counted
  BY DEF Inv
<1>1. CASE ~Within(r)
  BY <1>0, <1>1 DEF Lined, Pending
<1>2. CASE Within(r) /\ Drained(reader[r])
  <2>1. /\ IsFiniteSet(Pending(r)) /\ reader[r].posts + Cardinality(Pending(r)) = reader[r].submitted
        /\ reader[r].posts >= reader[r].submitted
    BY <1>0, <1>2 DEF Counted, Drained
  <2>2. reader[r].posts \in Nat /\ reader[r].submitted \in Nat
    BY <1>0 DEF TypeOK, Reader
  <2>3. Cardinality(Pending(r)) \in Nat
    BY <2>1, FS_CardinalityType
  <2>4. Cardinality(Pending(r)) = 0
    BY <2>1, <2>2, <2>3
  <2> QED
    BY <2>1, <2>4, FS_EmptySet
<1> QED
  BY <1>1, <1>2

(* The walk through the load, after a step of a reader.                    *)
LEMMA WalkFrame ==
  ASSUME Inv, NEW r \in Readers, TypeOK', SameShape, stopped' = stopped,
         \A s \in Readers \ {r} : reader'[s] = reader[s],
         reader'[r].batch <= Len(told[r]),
         Within(r)' => /\ reader'[r].batch \in DOMAIN told[r] /\ reader'[r].block <= Len(told[r][reader'[r].batch])
                       /\ reader'[r].submitted = reader'[r].block,
         reader'[r].at \in {"read", "submit"} => reader'[r].block < Len(told[r][reader'[r].batch]),
         reader'[r].at = "drain" /\ reader'[r].thrown = Success /\ ~stopped =>
           reader'[r].block = Len(told[r][reader'[r].batch])
  PROVE  Walking'
<1>0. TypeOK /\ Walking /\ told' \in [Readers -> Seq(Seq(Code))]
  BY DEF Inv, TypeOK
<1>1. ASSUME NEW s \in Readers
      PROVE  /\ DOMAIN told'[s] = DOMAIN told[s] /\ Len(told'[s]) = Len(told[s])
             /\ \A b \in DOMAIN told[s] : Len(told'[s][b]) = Len(told[s][b])
  BY <1>0, SameDomains
<1>2. ASSUME NEW s \in Readers, s # r
      PROVE  /\ reader'[s].batch <= Len(told[s])
             /\ Within(s)' => /\ reader'[s].batch \in DOMAIN told[s]
                              /\ reader'[s].block <= Len(told[s][reader'[s].batch]) /\ reader'[s].submitted = reader'[s].block
             /\ reader'[s].at \in {"read", "submit"} => reader'[s].block < Len(told[s][reader'[s].batch])
             /\ reader'[s].at = "drain" /\ reader'[s].thrown = Success /\ ~stopped =>
                  reader'[s].block = Len(told[s][reader'[s].batch])
  BY <1>0, <1>2 DEF Walking, Within, Blocks
<1>3. ASSUME NEW s \in Readers
      PROVE  /\ reader'[s].batch <= Len(told[s])
             /\ Within(s)' => /\ reader'[s].batch \in DOMAIN told[s]
                              /\ reader'[s].block <= Len(told[s][reader'[s].batch]) /\ reader'[s].submitted = reader'[s].block
             /\ reader'[s].at \in {"read", "submit"} => reader'[s].block < Len(told[s][reader'[s].batch])
             /\ reader'[s].at = "drain" /\ reader'[s].thrown = Success /\ ~stopped =>
                  reader'[s].block = Len(told[s][reader'[s].batch])
  <2>1. CASE s = r
    BY <2>1
  <2>2. CASE s # r
    BY <1>2, <2>2
  <2> QED
    BY <2>1, <2>2
<1>4. ASSUME NEW s \in Readers
      PROVE  /\ reader'[s].batch <= Len(told'[s])
             /\ Within(s)' => /\ reader'[s].batch \in DOMAIN told'[s]
                              /\ reader'[s].block <= Blocks(s)' /\ reader'[s].submitted = reader'[s].block
             /\ reader'[s].at \in {"read", "submit"} => reader'[s].block < Blocks(s)'
             /\ reader'[s].at = "drain" /\ reader'[s].thrown = Success /\ ~stopped' => reader'[s].block = Blocks(s)'
  <2>1. Within(s)' => Blocks(s)' = Len(told[s][reader'[s].batch])
    BY <1>1, <1>3 DEF Blocks
  <2>2. reader'[s].at \in {"read", "submit", "drain"} => Within(s)'
    BY DEF Within
  <2> QED
    BY <1>1, <1>3, <2>1, <2>2
<1> QED
  BY <1>4 DEF Walking

(* The answers stay honest when none is written.                           *)
LEMMA AnswerFrame ==
  ASSUME Inv, UNCHANGED <<told, dest>>
  PROVE  AnsweredOnDevice'
  BY DEF Inv, AnsweredOnDevice

(* What a step of a reader that leaves the line alone has to show.         *)
LEMMA ReaderKeeps ==
  ASSUME Inv, NEW r \in Readers, ReadStep(r), lane' = lane, Walking', GoesOn(r) \/ Begins(r) \/ Leaves(r),
         Pools', Filled', Streaming', AnsweredOnDevice'
  PROVE  Inv'
<1>1. /\ TypeOK' /\ SameShape
      /\ \A s \in Readers \ {r} : reader'[s] = reader[s] /\ pool'[s] = pool[s] /\ filled'[s] = filled[s]
      /\ UNCHANGED <<laneAt, laneBound, waiter, waiterAt, waiterBound, stream, events, broken, dest, stopped>>
  BY ReadTypes
<1>2. InOrder' /\ Landing' /\ Line' = Line
  BY <1>1, QuietFrame
<1>3. Lined' /\ Counted' /\ Prefix' /\ Landed'
  BY <1>1, <1>2, ReaderLine
<1> QED
  BY <1>1, <1>2, <1>3 DEF Inv

(* Only what the reader does, its buffer and what was thrown change.       *)
Moves(r, at, buffer, thrown) ==
  /\ reader'[r].at = at /\ reader'[r].buffer = buffer /\ reader'[r].thrown = thrown
  /\ reader'[r].batch = reader[r].batch /\ reader'[r].block = reader[r].block
  /\ reader'[r].submitted = reader[r].submitted /\ reader'[r].landed = reader[r].landed
  /\ reader'[r].failure = reader[r].failure /\ reader'[r].posts = reader[r].posts

(* Such a step stays in the batch and on its walk.                          *)
LEMMA MovesGoesOn ==
  ASSUME Inv, NEW r \in Readers, ReadStep(r), NEW at \in {"loop", "read", "submit", "answer", "drain"}, NEW buffer, NEW thrown,
         Moves(r, at, buffer, thrown), Within(r),
         at \in {"read", "submit"} => reader[r].block < Blocks(r),
         at = "drain" => thrown # Success \/ stopped \/ reader[r].block = Blocks(r)
  PROVE  GoesOn(r) /\ Walking'
<1>1. GoesOn(r)
  BY DEF Moves, GoesOn, Within
<1>2. Walking'
  <2>1. /\ TypeOK' /\ SameShape /\ \A s \in Readers \ {r} : reader'[s] = reader[s]
        /\ stopped' = stopped
    BY ReadTypes
  <2>2. /\ reader[r].batch <= Len(told[r]) /\ reader[r].batch \in DOMAIN told[r]
        /\ reader[r].block <= Blocks(r) /\ reader[r].submitted = reader[r].block
    BY DEF Inv, Walking
  <2> QED
    BY <2>1, <2>2, WalkFrame DEF Moves, Blocks
<1> QED
  BY <1>1, <1>2

(* A batch begins with fresh locals.                                        *)
LEMMA BeginBatchKeeps == ASSUME Inv, NEW r \in Readers, BeginBatch(r) PROVE Inv'
<1>0. TypeOK /\ ReadStep(r) /\ lane' = lane
  BY DEF Inv, ReadStep, BeginBatch, laneVars
<1>1. /\ TypeOK' /\ SameShape
      /\ \A s \in Readers \ {r} : reader'[s] = reader[s] /\ pool'[s] = pool[s] /\ filled'[s] = filled[s]
      /\ UNCHANGED <<laneAt, laneBound, waiter, waiterAt, waiterBound, stream, events, broken, dest, stopped>>
  BY <1>0, ReadTypes
<1>2. /\ reader[r].at = "next" /\ reader[r].batch < Len(told[r])
      /\ reader' = [reader EXCEPT ![r] = [NoBatch EXCEPT !.at = "loop", !.batch = reader[r].batch + 1]]
      /\ UNCHANGED <<pool, told, filled>>
  BY DEF BeginBatch, At
<1>3. /\ reader'[r].at = "loop" /\ reader'[r].batch = reader[r].batch + 1 /\ reader'[r].block = 0
      /\ reader'[r].submitted = 0 /\ reader'[r].landed = 0 /\ reader'[r].posts = 0
  <2>1. reader \in [Readers -> Reader]
    BY <1>0 DEF TypeOK
  <2>2. reader'[r] = [NoBatch EXCEPT !.at = "loop", !.batch = reader[r].batch + 1]
    BY <1>2, <2>1
  <2> QED
    BY <2>2 DEF NoBatch
<1>4. Begins(r)
  <2>1. ~Within(r)
    BY <1>2 DEF Within
  <2> QED
    BY <1>3, <2>1, NothingPending DEF Begins
<1>5. Walking'
  <2>1. reader[r].batch \in Nat /\ Len(told[r]) \in Nat /\ DOMAIN told[r] = 1 .. Len(told[r])
    BY <1>0, Shapes DEF TypeOK, Reader
  <2>2. reader'[r].batch \in DOMAIN told[r] /\ reader'[r].batch <= Len(told[r])
    BY <1>2, <1>3, <2>1
  <2>3. Len(told[r][reader'[r].batch]) \in Nat
    BY <1>0, <2>1, <2>2, Shapes
  <2> QED
    BY <1>1, <1>3, <2>2, <2>3, WalkFrame
<1>6. Pools' /\ Filled' /\ Streaming'
  <2>1. ~HasBuffer(r)' /\ (pool'[r].freed => reader'[r].at = "gone")
    BY <1>2, <1>3 DEF HasBuffer, Inv, Pools, PoolOf
  <2>2. Holding' = Holding /\ Enqueued' = Enqueued
    BY <1>0, <1>1, QuietFrame
  <2> QED
    BY <1>1, <1>2, <2>1, <2>2, BuffersStay
<1>7. AnsweredOnDevice'
  BY <1>1, <1>2, AnswerFrame
<1> QED
  BY <1>0, <1>4, <1>5, <1>6, <1>7, ReaderKeeps

(* A batch of a device that cannot be used is answered with an error.       *)
LEMMA RefuseBatchKeeps == ASSUME Inv, NEW r \in Readers, RefuseBatch(r) PROVE Inv'
<1>0. TypeOK /\ ReadStep(r) /\ lane' = lane
  BY DEF Inv, ReadStep, RefuseBatch, laneVars
<1>1. /\ TypeOK' /\ SameShape
      /\ \A s \in Readers \ {r} : reader'[s] = reader[s] /\ pool'[s] = pool[s] /\ filled'[s] = filled[s]
      /\ UNCHANGED <<laneAt, laneBound, waiter, waiterAt, waiterBound, stream, events, broken, dest, stopped>>
  BY <1>0, ReadTypes
<1>2. /\ reader[r].at = "next" /\ reader[r].batch < Len(told[r])
      /\ reader' = [reader EXCEPT ![r] = [reader[r] EXCEPT !.batch = reader[r].batch + 1]]
      /\ UNCHANGED <<pool, filled>>
  BY DEF RefuseBatch, At
<1>3. reader'[r].at = "next" /\ reader'[r].batch = reader[r].batch + 1
  <2>1. reader \in [Readers -> Reader] /\ reader[r] \in Reader
    BY <1>0 DEF TypeOK
  <2>2. reader'[r] = [reader[r] EXCEPT !.batch = reader[r].batch + 1]
    BY <1>2, <2>1
  <2> QED
    BY <1>2, <2>1, <2>2 DEF Reader
<1>4. Leaves(r)
  <2>1. ~Within(r) /\ ~Within(r)'
    BY <1>2, <1>3 DEF Within
  <2> QED
    BY <2>1, NothingPending DEF Leaves
<1>5. reader[r].batch \in Nat /\ Len(told[r]) \in Nat /\ reader[r].batch + 1 \in 1 .. Len(told[r])
  <2>1. reader[r].batch \in Nat /\ Len(told[r]) \in Nat
    BY <1>0, Shapes DEF TypeOK, Reader
  <2> QED
    BY <1>2, <2>1
<1>6. Walking'
  BY <1>1, <1>3, <1>5, WalkFrame DEF Within
<1>7. Pools' /\ Filled' /\ Streaming'
  <2>1. ~HasBuffer(r)' /\ (pool'[r].freed => reader'[r].at = "gone")
    BY <1>2, <1>3 DEF HasBuffer, Inv, Pools, PoolOf
  <2>2. Holding' = Holding /\ Enqueued' = Enqueued
    BY <1>0, <1>1, QuietFrame
  <2> QED
    BY <1>1, <1>2, <2>1, <2>2, BuffersStay
<1>8. AnsweredOnDevice'
  <2>1. PICK b : b = reader[r].batch + 1
    OBVIOUS
  <2>2. b \in 1 .. Len(told[r]) /\ DOMAIN told[r][b] = 1 .. Len(told[r][b])
    BY <1>0, <1>5, <2>1, Shapes
  <2>3. PICK f : f = [k \in 1 .. Len(told[r][b]) |-> IF opened THEN Driver ELSE "DeviceUnavailable"]
    OBVIOUS
  <2>4. f \in [1 .. Len(told[r][b]) -> Code] /\ \A k \in 1 .. Len(told[r][b]) : f[k] # Success
    BY <2>3 DEF Code, Driver, Success
  <2>5. told' = [told EXCEPT ![r][b] = f]
    BY <2>1, <2>2, <2>3 DEF RefuseBatch
  <2>6. told'[r][b] = f
    BY <1>0, <2>2, <2>4, <2>5, ToldWrite
  <2>7. \A s \in Readers : \A d \in 1 .. Len(told[s]) : s # r \/ d # b => told'[s][d] = told[s][d]
    BY <1>0, <2>2, <2>4, <2>5, ToldWrite
  <2>8. ASSUME NEW s \in Readers, NEW d \in DOMAIN told'[s], NEW j \in DOMAIN told'[s][d], told'[s][d][j] = Success
        PROVE  dest'[s][d][j] = [reader |-> s, batch |-> d, block |-> j]
    <3>0. told' \in [Readers -> Seq(Seq(Code))]
      BY <1>1 DEF TypeOK
    <3>1. d \in DOMAIN told[s] /\ j \in DOMAIN told[s][d]
      BY <1>0, <1>1, <3>0, SameDomains
    <3>2. d \in 1 .. Len(told[s]) /\ j \in 1 .. Len(told[s][d])
      BY <1>0, <3>1, Shapes
    <3>3. s # r \/ d # b
      BY <2>4, <2>6, <2>8, <3>2
    <3>4. told[s][d][j] = Success
      BY <2>7, <2>8, <3>2, <3>3
    <3> QED
      BY <1>1, <3>1, <3>4 DEF Inv, AnsweredOnDevice
  <2> QED
    BY <2>8 DEF AnsweredOnDevice
<1> QED
  BY <1>0, <1>4, <1>6, <1>7, <1>8, ReaderKeeps

(* The reader leaves the loop, with or without an exception.               *)
LEMMA DrainKeeps ==
  ASSUME Inv, NEW r \in Readers, ReadStep(r), lane' = lane, UNCHANGED <<pool, told, filled>>, Within(r),
         NEW buffer, NEW thrown, Moves(r, "drain", buffer, thrown),
         thrown # Success \/ stopped \/ reader[r].block = Blocks(r)
  PROVE  Inv'
<1>1. /\ TypeOK' /\ SameShape
      /\ \A s \in Readers \ {r} : reader'[s] = reader[s] /\ pool'[s] = pool[s] /\ filled'[s] = filled[s]
      /\ UNCHANGED <<laneAt, laneBound, waiter, waiterAt, waiterBound, stream, events, broken, dest, stopped>>
  BY ReadTypes
<1>2. GoesOn(r) /\ Walking'
  BY MovesGoesOn
<1>3. Pools' /\ Filled' /\ Streaming'
  <2>1. ~HasBuffer(r)' /\ ~pool[r].freed
    BY DEF HasBuffer, Inv, Pools, PoolOf, Moves, Within
  <2>2. Holding' = Holding /\ Enqueued' = Enqueued
    BY <1>1, QuietFrame
  <2> QED
    BY <1>1, <2>1, <2>2, BuffersStay
<1>4. AnsweredOnDevice'
  BY <1>1, AnswerFrame
<1> QED
  BY <1>2, <1>3, <1>4, ReaderKeeps

(* What a thrown error changes in the reader.                              *)
LEMMA ThrowsMoves ==
  ASSUME TypeOK, NEW r \in Readers, NEW code, Throws(r, code)
  PROVE  Moves(r, "drain", NoBuffer, code)
<1>1. reader \in [Readers -> Reader] /\ reader[r] \in Reader
  BY DEF TypeOK
<1>2. reader'[r] = [reader[r] EXCEPT !.at = "drain", !.thrown = code, !.buffer = NoBuffer]
  BY <1>1 DEF Throws
<1> QED
  BY <1>1, <1>2 DEF Moves, Reader

(* And one that only goes elsewhere.                                        *)
LEMMA GoesMoves ==
  ASSUME TypeOK, NEW r \in Readers, NEW at, Goes(r, at)
  PROVE  Moves(r, at, reader[r].buffer, reader[r].thrown)
<1>1. reader \in [Readers -> Reader] /\ reader[r] \in Reader
  BY DEF TypeOK
<1>2. reader'[r] = [reader[r] EXCEPT !.at = at]
  BY <1>1 DEF Goes
<1> QED
  BY <1>1, <1>2 DEF Moves, Reader

(* No slab, no buffer that can come back, or no more blocks.                *)
LEMMA LeavingKeeps ==
  ASSUME Inv, NEW r \in Readers, RefuseSlab(r) \/ PoolGone(r) \/ LeaveLoop(r)
  PROVE  Inv'
<1>0. TypeOK /\ Pools
  BY DEF Inv
<1>1. /\ ReadStep(r) /\ lane' = lane /\ UNCHANGED <<pool, told, filled>> /\ Within(r)
  BY DEF ReadStep, RefuseSlab, PoolGone, LeaveLoop, laneVars, MoreToRead, At, Within
<1>2. CASE RefuseSlab(r)
  <2>1. PICK code : code = IF broken THEN Driver ELSE "DeviceOutOfMemory"
    OBVIOUS
  <2>2. code # Success /\ Throws(r, code)
    BY <1>2, <2>1 DEF RefuseSlab, Driver, Success
  <2> QED
    BY <1>0, <1>1, <2>2, ThrowsMoves, DrainKeeps
<1>3. CASE PoolGone(r)
  <2>1. PICK code : code = pool[r].code
    OBVIOUS
  <2>2. pool[r].made \in Nat /\ pool[r].made >= MaxBuffers /\ Cardinality(pool[r].retired) >= pool[r].made
    BY <1>0, <1>3, DeviceAssumption DEF PoolGone, HasRoom, AllRetired, TypeOK, Pool
  <2>3. pool[r].retired # {}
    <3>1. Cardinality({}) = 0
      BY FS_EmptySet
    <3>2. pool[r].made >= 1
      BY <2>2, DeviceAssumption
    <3>3. ASSUME pool[r].retired = {} PROVE FALSE
      <4>1. Cardinality(pool[r].retired) = 0
        BY <3>1, <3>3
      <4> QED
        BY <2>2, <3>2, <4>1
    <3> QED
      BY <3>3
  <2>4. code # Success /\ Throws(r, code)
    BY <1>0, <1>3, <2>1, <2>3 DEF PoolGone, Pools, PoolOf
  <2> QED
    BY <1>0, <1>1, <2>4, ThrowsMoves, DrainKeeps
<1>4. CASE LeaveLoop(r)
  <2>1. Goes(r, "drain") /\ (stopped \/ reader[r].block = Blocks(r))
    BY <1>4 DEF LeaveLoop
  <2>2. Moves(r, "drain", reader[r].buffer, reader[r].thrown)
    BY <1>0, <2>1, GoesMoves
  <2> QED
    BY <1>1, <2>1, <2>2, DrainKeeps
<1> QED
  BY <1>2, <1>3, <1>4

(* It waits for a buffer.                                                  *)
LEMMA ParkKeeps == ASSUME Inv, NEW r \in Readers, Park(r) PROVE Inv'
<1>0. TypeOK /\ ReadStep(r) /\ lane' = lane
  BY DEF Inv, ReadStep, Park, laneVars
<1>1. /\ TypeOK' /\ SameShape
      /\ \A s \in Readers \ {r} : reader'[s] = reader[s] /\ pool'[s] = pool[s] /\ filled'[s] = filled[s]
      /\ UNCHANGED <<laneAt, laneBound, waiter, waiterAt, waiterBound, stream, events, broken, dest, stopped>>
  BY <1>0, ReadTypes
<1>2. /\ reader[r].at = "loop" /\ pool' = [pool EXCEPT ![r] = [pool[r] EXCEPT !.parked = TRUE]]
      /\ UNCHANGED <<reader, told, filled>>
  BY DEF Park, MoreToRead, At
<1>3. /\ pool'[r].made = pool[r].made /\ pool'[r].free = pool[r].free /\ pool'[r].retired = pool[r].retired
      /\ pool'[r].code = pool[r].code
  <2>1. pool \in [Readers -> Pool] /\ pool[r] \in Pool
    BY <1>0 DEF TypeOK
  <2>2. pool'[r] = [pool[r] EXCEPT !.parked = TRUE]
    BY <1>2, <2>1
  <2> QED
    BY <2>1, <2>2 DEF Pool
<1>4. pool'[r].freed = pool[r].freed
  <2>1. pool \in [Readers -> Pool] /\ pool[r] \in Pool
    BY <1>0 DEF TypeOK
  <2> QED
    BY <1>2, <2>1, Zenon DEF Pool
<1>5. Moves(r, "loop", reader[r].buffer, reader[r].thrown) /\ Within(r)
  BY <1>2 DEF Moves, Within
<1>6. GoesOn(r) /\ Walking'
  BY <1>0, <1>5, MovesGoesOn
<1>7. Pools' /\ Filled' /\ Streaming'
  <2>1. ~HasBuffer(r)' /\ (pool'[r].freed => reader'[r].at = "gone")
    BY <1>2, <1>4 DEF HasBuffer, Inv, Pools, PoolOf
  <2>2. Holding' = Holding /\ Enqueued' = Enqueued
    BY <1>0, <1>1, QuietFrame
  <2> QED
    BY <1>1, <1>2, <1>3, <2>1, <2>2, BuffersStay
<1>8. AnsweredOnDevice'
  BY <1>1, <1>2, AnswerFrame
<1> QED
  BY <1>0, <1>6, <1>7, <1>8, ReaderKeeps

(* It takes a buffer, from the free ones or a new slab.                    *)
LEMMA TakeBufferKeeps == ASSUME Inv, NEW r \in Readers, TakeBuffer(r) PROVE Inv'
<1>0. TypeOK /\ Pools /\ Filled /\ ReadStep(r) /\ lane' = lane
  BY DEF Inv, ReadStep, TakeBuffer, laneVars
<1>1. /\ TypeOK' /\ SameShape
      /\ \A s \in Readers \ {r} : reader'[s] = reader[s] /\ pool'[s] = pool[s] /\ filled'[s] = filled[s]
      /\ UNCHANGED <<laneAt, laneBound, waiter, waiterAt, waiterBound, stream, events, broken, dest, stopped>>
  BY <1>0, ReadTypes
<1>2. PICK f : f = pool[r].free
  OBVIOUS
<1>3. /\ reader[r].at = "loop" /\ reader[r].block < Blocks(r) /\ f # <<>>
      /\ reader' = [reader EXCEPT ![r] = [reader[r] EXCEPT !.at = "read", !.buffer = Head(f)]]
      /\ pool' = [pool EXCEPT ![r] = [pool[r] EXCEPT !.free = Tail(f)]]
      /\ UNCHANGED <<told, filled>>
  BY <1>2 DEF TakeBuffer, MoreToRead, At, HasFree
<1>4. /\ pool \in [Readers -> Pool] /\ pool[r] \in Pool /\ reader \in [Readers -> Reader] /\ reader[r] \in Reader
      /\ f \in Seq(Buffer)
  BY <1>0, <1>2 DEF TypeOK, Pool
<1>5. Moves(r, "read", Head(f), reader[r].thrown)
  <2>1. reader'[r] = [reader[r] EXCEPT !.at = "read", !.buffer = Head(f)]
    BY <1>3, <1>4
  <2> QED
    BY <1>4, <2>1 DEF Moves, Reader
<1>6. GoesOn(r) /\ Walking'
  BY <1>0, <1>3, <1>5, MovesGoesOn DEF Within
<1>7. /\ pool'[r].made = pool[r].made /\ pool'[r].free = Tail(f) /\ pool'[r].retired = pool[r].retired
      /\ pool'[r].code = pool[r].code
  <2>1. pool'[r] = [pool[r] EXCEPT !.free = Tail(f)]
    BY <1>3, <1>4
  <2> QED
    BY <1>4, <2>1 DEF Pool
<1>8. pool'[r].freed = pool[r].freed
  BY <1>3, <1>4, Zenon DEF Pool
<1>9. PICK n \in Nat : n = Len(f) - 1
  BY <1>3, <1>4
<1>10. /\ Len(Tail(f)) = n /\ Head(f) = f[1] /\ Len(f) = n + 1
       /\ \A i \in 1 .. n : Tail(f)[i] = f[i + 1] /\ i + 1 \in 1 .. (n + 1)
  BY <1>3, <1>4, <1>9
<1>11. /\ \A i \in 1 .. (n + 1) : f[i] <= pool[r].made /\ f[i] \notin pool[r].retired
       /\ \A i, j \in 1 .. (n + 1) : f[i] = f[j] => i = j
       /\ \A i \in pool[r].retired : i <= pool[r].made
       /\ pool[r].retired # {} => pool[r].code # Success
       /\ ~pool[r].freed
  BY <1>0, <1>2, <1>3, <1>10 DEF Pools, PoolOf
<1>12. Head(f) \in Buffer /\ 1 \in 1 .. (n + 1)
  BY <1>3, <1>4
<1>13. Head(f) \in 1 .. pool[r].made /\ Head(f) \notin pool[r].retired
  BY <1>4, <1>10, <1>11, <1>12 DEF Buffer, Pool
<1>14. PoolOf(r)'
  <2>1. \A i \in 1 .. n : Tail(f)[i] <= pool[r].made /\ Tail(f)[i] \notin pool[r].retired
    BY <1>10, <1>11
  <2>2. \A i, j \in 1 .. n : Tail(f)[i] = Tail(f)[j] => i = j
    BY <1>10, <1>11
  <2>3. \A i \in 1 .. n : Tail(f)[i] # Head(f)
    BY <1>10, <1>11, <1>12
  <2>4. reader'[r].buffer = Head(f)
    BY <1>5 DEF Moves
  <2> QED
    BY <1>7, <1>8, <1>10, <1>11, <1>13, <2>1, <2>2, <2>3, <2>4 DEF PoolOf
<1>15. Holding' = Holding /\ Enqueued' = Enqueued
  BY <1>0, <1>1, QuietFrame
<1>16. ASSUME NEW c \in Holding, c.block.reader = r PROVE Kept(c)'
  <2>1. Kept(c)
    BY <1>0 DEF Filled
  <2>2. \A i \in 1 .. (n + 1) : f[i] # c.buffer
    BY <1>2, <1>10, <1>16, <2>1 DEF Kept
  <2>3. Head(f) # c.buffer /\ \A i \in 1 .. n : Tail(f)[i] # c.buffer
    BY <1>10, <1>12, <2>2
  <2>4. reader'[r].buffer = Head(f)
    BY <1>5 DEF Moves
  <2> QED
    BY <1>3, <1>7, <1>10, <1>16, <2>1, <2>3, <2>4 DEF Kept
<1>17. Pools' /\ Filled' /\ Streaming'
  <2>1. reader'[r].at # "submit"
    BY <1>5 DEF Moves
  <2> QED
    BY <1>1, <1>3, <1>7, <1>14, <1>15, <1>16, <2>1, ReaderBuffers
<1>18. AnsweredOnDevice'
  BY <1>1, <1>3, AnswerFrame
<1> QED
  BY <1>0, <1>6, <1>17, <1>18, ReaderKeeps

(* The number of a new buffer is one that no copy has.                      *)
LEMMA GrowPoolKeeps == ASSUME Inv, NEW r \in Readers, GrowPool(r) PROVE Inv'
<1>0. TypeOK /\ Pools /\ Filled /\ ReadStep(r) /\ lane' = lane
  BY DEF Inv, ReadStep, GrowPool, laneVars
<1>1. /\ TypeOK' /\ SameShape
      /\ \A s \in Readers \ {r} : reader'[s] = reader[s] /\ pool'[s] = pool[s] /\ filled'[s] = filled[s]
      /\ UNCHANGED <<laneAt, laneBound, waiter, waiterAt, waiterBound, stream, events, broken, dest, stopped>>
  BY <1>0, ReadTypes
<1>2. PICK n : n = pool[r].made
  OBVIOUS
<1>3. /\ reader[r].at = "loop" /\ reader[r].block < Blocks(r) /\ pool[r].free = <<>>
      /\ reader' = [reader EXCEPT ![r] = [reader[r] EXCEPT !.at = "read", !.buffer = n + 1]]
      /\ pool' = [pool EXCEPT ![r] = [pool[r] EXCEPT !.made = n + 1]]
      /\ UNCHANGED <<told, filled>>
  BY <1>2 DEF GrowPool, MoreToRead, At, HasFree
<1>4. /\ pool \in [Readers -> Pool] /\ pool[r] \in Pool /\ reader \in [Readers -> Reader] /\ reader[r] \in Reader
      /\ n \in Nat
  BY <1>0, <1>2, DeviceAssumption DEF TypeOK, Pool
<1>5. Moves(r, "read", n + 1, reader[r].thrown)
  <2>1. reader'[r] = [reader[r] EXCEPT !.at = "read", !.buffer = n + 1]
    BY <1>3, <1>4
  <2> QED
    BY <1>4, <2>1 DEF Moves, Reader
<1>6. GoesOn(r) /\ Walking'
  BY <1>0, <1>3, <1>5, MovesGoesOn DEF Within
<1>7. /\ pool'[r].made = n + 1 /\ pool'[r].free = pool[r].free /\ pool'[r].retired = pool[r].retired
      /\ pool'[r].code = pool[r].code
  <2>1. pool'[r] = [pool[r] EXCEPT !.made = n + 1]
    BY <1>3, <1>4
  <2> QED
    BY <1>4, <2>1 DEF Pool
<1>8. pool'[r].freed = pool[r].freed
  BY <1>3, <1>4, Zenon DEF Pool
<1>9. /\ \A i \in pool[r].retired : i \in Nat /\ i <= n
      /\ pool[r].retired # {} => pool[r].code # Success
      /\ ~pool[r].freed
  <2>1. pool[r].retired \subseteq Buffer /\ Buffer \subseteq Nat
    BY <1>4 DEF Pool, Buffer
  <2> QED
    BY <1>0, <1>2, <1>3, <2>1 DEF Pools, PoolOf
<1>10. PoolOf(r)'
  <2>1. Len(pool[r].free) = 0
    BY <1>3
  <2>2. reader'[r].buffer = n + 1 /\ n + 1 \in 1 .. (n + 1) /\ n + 1 \notin pool[r].retired
    BY <1>4, <1>5, <1>9 DEF Moves
  <2>3. \A i \in pool[r].retired : i <= n + 1
    BY <1>4, <1>9
  <2> QED
    BY <1>7, <1>8, <1>9, <2>1, <2>2, <2>3 DEF PoolOf
<1>11. Holding' = Holding /\ Enqueued' = Enqueued
  BY <1>0, <1>1, QuietFrame
<1>12. ASSUME NEW c \in Holding, c.block.reader = r PROVE Kept(c)'
  <2>1. Kept(c) /\ c.buffer \in Nat
    BY <1>0, HandsAreCopies DEF Filled, Copy, Buffer
  <2>2. c.buffer <= n
    BY <1>2, <1>12, <2>1 DEF Kept
  <2>3. c.buffer <= n + 1 /\ c.buffer # n + 1
    BY <1>4, <2>1, <2>2
  <2>4. reader'[r].buffer = n + 1
    BY <1>5 DEF Moves
  <2> QED
    BY <1>3, <1>7, <1>12, <2>1, <2>3, <2>4 DEF Kept
<1>13. Pools' /\ Filled' /\ Streaming'
  <2>1. reader'[r].at # "submit"
    BY <1>5 DEF Moves
  <2> QED
    BY <1>1, <1>3, <1>7, <1>10, <1>11, <1>12, <2>1, ReaderBuffers
<1>14. AnsweredOnDevice'
  BY <1>1, <1>3, AnswerFrame
<1> QED
  BY <1>0, <1>6, <1>13, <1>14, ReaderKeeps

(* It reads the block into the buffer.                                     *)
LEMMA ReadBlockKeeps == ASSUME Inv, NEW r \in Readers, ReadBlock(r) PROVE Inv'
<1>0. TypeOK /\ Walking /\ Pools /\ Filled /\ ReadStep(r) /\ lane' = lane
  BY DEF Inv, ReadStep, ReadBlock, laneVars
<1>1. /\ TypeOK' /\ SameShape
      /\ \A s \in Readers \ {r} : reader'[s] = reader[s] /\ pool'[s] = pool[s] /\ filled'[s] = filled[s]
      /\ UNCHANGED <<laneAt, laneBound, waiter, waiterAt, waiterBound, stream, events, broken, dest, stopped>>
  BY <1>0, ReadTypes
<1>2. PICK i : i = reader[r].buffer
  OBVIOUS
<1>3. PICK v : v = Current(r)
  OBVIOUS
<1>4. /\ reader[r].at = "read" /\ Goes(r, "submit") /\ filled' = [filled EXCEPT ![r] = [filled[r] EXCEPT ![i] = v]]
      /\ UNCHANGED <<pool, told>>
  BY <1>2, <1>3 DEF ReadBlock, At
<1>5. Moves(r, "submit", i, reader[r].thrown) /\ reader[r].block < Blocks(r) /\ Within(r)
  BY <1>0, <1>2, <1>4, GoesMoves DEF Walking, Within
<1>6. GoesOn(r) /\ Walking'
  BY <1>0, <1>5, MovesGoesOn
<1>7. PoolOf(r) /\ HasBuffer(r) /\ HasBuffer(r)' /\ reader'[r].buffer = i
  BY <1>0, <1>4, <1>5 DEF Pools, HasBuffer, Moves
<1>8. i \in 1 .. pool[r].made /\ i \notin pool[r].retired
  BY <1>2, <1>7 DEF PoolOf
<1>9. PoolOf(r)'
  BY <1>2, <1>4, <1>5, <1>7 DEF PoolOf, Moves
<1>10. filled'[r][i] = v /\ \A j \in Buffer \ {i} : filled'[r][j] = filled[r][j]
  <2>1. filled \in [Readers -> [Buffer -> Bytes]] /\ filled[r] \in [Buffer -> Bytes]
    BY <1>0 DEF TypeOK
  <2>2. filled'[r] = [filled[r] EXCEPT ![i] = v]
    BY <1>4, <2>1
  <2>3. i \in Buffer
    BY <1>0, <1>8, DeviceAssumption DEF TypeOK, Pool, Buffer
  <2> QED
    BY <2>1, <2>2, <2>3
<1>11. Holding' = Holding /\ Enqueued' = Enqueued
  BY <1>0, <1>1, QuietFrame
<1>12. ASSUME NEW c \in Holding, c.block.reader = r PROVE Kept(c)'
  <2>1. Kept(c) /\ c.buffer \in Buffer
    BY <1>0, HandsAreCopies DEF Filled, Copy
  <2>2. c.buffer # i
    BY <1>2, <1>7, <1>12, <2>1 DEF Kept
  <2> QED
    BY <1>4, <1>7, <1>10, <1>12, <2>1, <2>2 DEF Kept
<1>13. Current(r)' = v
  BY <1>3, <1>5 DEF Current, Moves
<1>14. \A j \in pool[r].retired : j \in pool'[r].retired /\ filled'[r][j] = filled[r][j]
  <2>1. pool[r].retired \subseteq Buffer
    BY <1>0 DEF TypeOK, Pool
  <2> QED
    BY <1>4, <1>8, <1>10, <2>1
<1>15. Pools' /\ Filled' /\ Streaming'
  BY <1>1, <1>7, <1>9, <1>10, <1>11, <1>12, <1>13, <1>14, ReaderBuffers
<1>16. AnsweredOnDevice'
  BY <1>1, <1>4, AnswerFrame
<1> QED
  BY <1>0, <1>6, <1>15, <1>16, ReaderKeeps

(* The read fails and the buffer goes back.                                *)
LEMMA ReadThrowsKeeps == ASSUME Inv, NEW r \in Readers, ReadThrows(r) PROVE Inv'
<1>0. TypeOK /\ Pools /\ Filled /\ ReadStep(r) /\ lane' = lane
  BY DEF Inv, ReadStep, ReadThrows, laneVars
<1>1. /\ TypeOK' /\ SameShape
      /\ \A s \in Readers \ {r} : reader'[s] = reader[s] /\ pool'[s] = pool[s] /\ filled'[s] = filled[s]
      /\ UNCHANGED <<laneAt, laneBound, waiter, waiterAt, waiterBound, stream, events, broken, dest, stopped>>
  BY <1>0, ReadTypes
<1>2. PICK i : i = reader[r].buffer
  OBVIOUS
<1>3. /\ reader[r].at = "read" /\ Throws(r, "FileAccessError") /\ pool' = [pool EXCEPT ![r] = Release(pool[r], i)]
      /\ UNCHANGED <<told, filled>>
  BY <1>2 DEF ReadThrows, At
<1>4. Moves(r, "drain", NoBuffer, "FileAccessError") /\ Within(r) /\ "FileAccessError" # Success
  BY <1>0, <1>3, ThrowsMoves DEF Within, Success
<1>5. GoesOn(r) /\ Walking'
  BY <1>0, <1>4, MovesGoesOn
<1>6. PoolOf(r) /\ HasBuffer(r) /\ ~HasBuffer(r)'
  BY <1>0, <1>3, <1>4 DEF Pools, HasBuffer, Moves
<1>7. PICK f : f = pool[r].free
  OBVIOUS
<1>8. /\ pool \in [Readers -> Pool] /\ pool[r] \in Pool /\ f \in Seq(Buffer) /\ i \in Buffer
      /\ i \in 1 .. pool[r].made /\ i \notin pool[r].retired /\ \A k \in 1 .. Len(f) : f[k] # i
  <2>1. i \in 1 .. pool[r].made /\ i \notin pool[r].retired /\ \A k \in 1 .. Len(f) : f[k] # i
    BY <1>2, <1>6, <1>7 DEF PoolOf
  <2>2. pool \in [Readers -> Pool] /\ pool[r] \in Pool
    BY <1>0 DEF TypeOK
  <2>3. i \in Buffer /\ f \in Seq(Buffer)
    BY <1>7, <2>1, <2>2, DeviceAssumption DEF Pool, Buffer
  <2> QED
    BY <2>1, <2>2, <2>3
<1>9. /\ pool'[r].made = pool[r].made /\ pool'[r].free = Append(f, i) /\ pool'[r].retired = pool[r].retired
      /\ pool'[r].code = pool[r].code /\ pool'[r].freed = pool[r].freed
  <2>1. PICK p : p = Release(pool[r], i)
    OBVIOUS
  <2>2. /\ p.free = Append(f, i) /\ p.made = pool[r].made
        /\ p.retired = pool[r].retired /\ p.code = pool[r].code /\ p.freed = pool[r].freed
    BY <1>7, <1>8, <2>1, PoolTypes
  <2>3. pool'[r] = p
    BY <1>3, <1>8, <2>1
  <2> QED
    BY <2>2, <2>3
<1>10. PICK n \in Nat : n = Len(f)
  BY <1>8
<1>11. Len(Append(f, i)) = n + 1 /\ Append(f, i)[n + 1] = i /\ \A k \in 1 .. n : Append(f, i)[k] = f[k]
  BY <1>8, <1>10
<1>12. /\ \A k \in 1 .. n : f[k] <= pool[r].made /\ f[k] \notin pool[r].retired
       /\ \A k, l \in 1 .. n : f[k] = f[l] => k = l
       /\ \A k \in pool[r].retired : k <= pool[r].made
       /\ pool[r].retired # {} => pool[r].code # Success
       /\ ~pool[r].freed
  BY <1>3, <1>6, <1>7, <1>10 DEF PoolOf
<1>13. PoolOf(r)'
  <2>1. \A k \in 1 .. (n + 1) : Append(f, i)[k] <= pool[r].made /\ Append(f, i)[k] \notin pool[r].retired
    <3> TAKE k \in 1 .. (n + 1)
    <3>1. CASE k = n + 1
      BY <1>8, <1>11, <3>1
    <3>2. CASE k \in 1 .. n
      BY <1>11, <1>12, <3>2
    <3>3. k = n + 1 \/ k \in 1 .. n
      BY <1>10
    <3> QED
      BY <3>1, <3>2, <3>3
  <2>2. \A k, l \in 1 .. (n + 1) : Append(f, i)[k] = Append(f, i)[l] => k = l
    <3> TAKE k, l \in 1 .. (n + 1)
    <3>1. CASE k = n + 1 \/ l = n + 1
      BY <1>8, <1>10, <1>11, <3>1
    <3>2. CASE k \in 1 .. n /\ l \in 1 .. n
      BY <1>11, <1>12, <3>2
    <3> QED
      BY <3>1, <3>2
  <2> QED
    BY <1>6, <1>9, <1>11, <1>12, <2>1, <2>2 DEF PoolOf
<1>14. Holding' = Holding /\ Enqueued' = Enqueued
  BY <1>0, <1>1, QuietFrame
<1>15. ASSUME NEW c \in Holding, c.block.reader = r PROVE Kept(c)'
  <2>1. Kept(c)
    BY <1>0 DEF Filled
  <2>2. c.buffer # i /\ \A k \in 1 .. n : f[k] # c.buffer
    BY <1>2, <1>6, <1>7, <1>10, <1>15, <2>1 DEF Kept
  <2>3. \A k \in 1 .. (n + 1) : Append(f, i)[k] # c.buffer
    BY <1>11, <2>2
  <2> QED
    BY <1>3, <1>6, <1>9, <1>11, <1>15, <2>1, <2>3 DEF Kept
<1>16. Pools' /\ Filled' /\ Streaming'
  <2>1. reader'[r].at # "submit"
    BY <1>4 DEF Moves
  <2> QED
    BY <1>1, <1>3, <1>9, <1>13, <1>14, <1>15, <2>1, ReaderBuffers
<1>17. AnsweredOnDevice'
  BY <1>1, <1>3, AnswerFrame
<1> QED
  BY <1>0, <1>5, <1>16, <1>17, ReaderKeeps

(* Answers are honest when the successes among them are of what landed.    *)
LEMMA AnswersKeep ==
  ASSUME Inv, NEW r \in Readers, Within(r), NEW k \in Nat, NEW code \in Code, AnswersTo(r, k, code), UNCHANGED dest,
         code = Success => k <= reader[r].landed
  PROVE  AnsweredOnDevice'
<1>0. TypeOK /\ Walking /\ Landed /\ AnsweredOnDevice
  BY DEF Inv
<1>1. reader[r].batch \in 1 .. Len(told[r]) /\ reader[r].landed \in Nat
  BY <1>0, Shapes DEF Walking, TypeOK, Reader
<1>2. told' \in [Readers -> Seq(Seq(Code))] /\ SameShape /\ WrittenUpTo(r, k, code)
  BY <1>0, <1>1, AnswersEffect
<1>3. ASSUME NEW s \in Readers, NEW b \in DOMAIN told'[s], NEW j \in DOMAIN told'[s][b], told'[s][b][j] = Success
      PROVE  dest[s][b][j] = [reader |-> s, batch |-> b, block |-> j]
  <2>1. b \in DOMAIN told[s] /\ j \in DOMAIN told[s][b]
    BY <1>0, <1>2, SameDomains
  <2>2. b \in 1 .. Len(told[s]) /\ j \in 1 .. Len(told[s][b]) /\ Len(told[s][b]) \in Nat
    BY <1>0, <2>1, Shapes
  <2>3. CASE told'[s][b][j] = told[s][b][j]
    BY <1>0, <1>3, <2>1, <2>3 DEF AnsweredOnDevice
  <2>4. CASE s = r /\ b = reader[r].batch /\ j <= k /\ told'[s][b][j] = code
    <3>1. j \in 1 .. reader[r].landed
      BY <1>1, <1>3, <2>2, <2>4
    <3>2. Arrived([reader |-> r, batch |-> reader[r].batch, block |-> j])
      BY <1>0, <3>1 DEF Landed
    <3> QED
      BY <2>4, <3>2 DEF Arrived
  <2> QED
    BY <1>2, <2>2, <2>3, <2>4 DEF WrittenUpTo
<1> QED
  BY <1>3 DEF AnsweredOnDevice

(* The blocks landed so far are answered.                                   *)
LEMMA AnswerLandedKeeps == ASSUME Inv, NEW r \in Readers, AnswerLanded(r) PROVE Inv'
<1>0. TypeOK /\ ReadStep(r) /\ lane' = lane
  BY DEF Inv, ReadStep, AnswerLanded, laneVars
<1>1. /\ TypeOK' /\ SameShape
      /\ \A s \in Readers \ {r} : reader'[s] = reader[s] /\ pool'[s] = pool[s] /\ filled'[s] = filled[s]
      /\ UNCHANGED <<laneAt, laneBound, waiter, waiterAt, waiterBound, stream, events, broken, dest, stopped>>
  BY <1>0, ReadTypes
<1>2. /\ reader[r].at = "answer" /\ AnswersTo(r, reader[r].landed, Success) /\ Goes(r, "loop")
      /\ UNCHANGED <<pool, filled>>
  BY DEF AnswerLanded, At
<1>3. Moves(r, "loop", reader[r].buffer, reader[r].thrown) /\ Within(r)
  BY <1>0, <1>2, GoesMoves DEF Within
<1>4. GoesOn(r) /\ Walking'
  BY <1>0, <1>3, MovesGoesOn
<1>5. Pools' /\ Filled' /\ Streaming'
  <2>1. ~HasBuffer(r)' /\ ~pool[r].freed
    BY <1>2, <1>3 DEF HasBuffer, Inv, Pools, PoolOf, Moves
  <2>2. Holding' = Holding /\ Enqueued' = Enqueued
    BY <1>0, <1>1, QuietFrame
  <2> QED
    BY <1>1, <1>2, <2>1, <2>2, BuffersStay
<1>6. AnsweredOnDevice'
  <2>1. reader[r].landed \in Nat /\ Success \in Code /\ reader[r].landed <= reader[r].landed
    BY <1>0 DEF TypeOK, Reader, Code
  <2> QED
    BY <1>1, <1>2, <1>3, <2>1, AnswersKeep
<1> QED
  BY <1>0, <1>4, <1>5, <1>6, ReaderKeeps

(* A batch that ends well has all its blocks landed.                       *)
LEMMA EndBatchKeeps == ASSUME Inv, NEW r \in Readers, EndBatch(r) PROVE Inv'
<1>0. TypeOK /\ Walking /\ Counted /\ Prefix /\ ReadStep(r) /\ lane' = lane
  BY DEF Inv, ReadStep, EndBatch, laneVars
<1>1. /\ TypeOK' /\ SameShape
      /\ \A s \in Readers \ {r} : reader'[s] = reader[s] /\ pool'[s] = pool[s] /\ filled'[s] = filled[s]
      /\ UNCHANGED <<laneAt, laneBound, waiter, waiterAt, waiterBound, stream, events, broken, dest, stopped>>
  BY <1>0, ReadTypes
<1>2. /\ reader[r].at = "drain" /\ AnswersTo(r, Blocks(r), Verdict(reader[r])) /\ Goes(r, "next") /\ Drained(reader[r])
      /\ UNCHANGED <<pool, filled>>
  BY DEF EndBatch, At
<1>3. Moves(r, "next", reader[r].buffer, reader[r].thrown) /\ Within(r)
  BY <1>0, <1>2, GoesMoves DEF Within
<1>4. Leaves(r)
  BY <1>2, <1>3, NothingPending DEF Leaves, Moves, Within
<1>5. Walking'
  <2>1. reader'[r].at = "next" /\ reader'[r].batch <= Len(told[r])
    BY <1>0, <1>3 DEF Moves, Walking
  <2> QED
    BY <1>1, <2>1, WalkFrame DEF Within
<1>6. Pools' /\ Filled' /\ Streaming'
  <2>1. ~HasBuffer(r)' /\ ~pool[r].freed
    BY <1>2, <1>3 DEF HasBuffer, Inv, Pools, PoolOf, Moves
  <2>2. Holding' = Holding /\ Enqueued' = Enqueued
    BY <1>0, <1>1, QuietFrame
  <2> QED
    BY <1>1, <1>2, <2>1, <2>2, BuffersStay
<1>7. Verdict(reader[r]) \in Code
  BY <1>0, VerdictTypes
<1>8. Blocks(r) \in Nat
  BY <1>0, <1>3, Shapes DEF Walking, Blocks
<1>9. ASSUME Verdict(reader[r]) = Success PROVE Blocks(r) <= reader[r].landed
  <2>1. reader[r].thrown = Success /\ reader[r].failure = Success /\ ~stopped
    BY <1>0, <1>9, VerdictTypes
  <2>2. reader[r].block = Blocks(r) /\ reader[r].submitted = reader[r].block
    BY <1>0, <1>2, <1>3, <2>1 DEF Walking
  <2>3. reader[r].landed = reader[r].posts
    BY <1>0, <1>3, <2>1 DEF Prefix
  <2>4. reader[r].posts >= reader[r].submitted /\ reader[r].posts \in Nat
    BY <1>0, <1>2 DEF Drained, TypeOK, Reader
  <2> QED
    BY <1>8, <2>2, <2>3, <2>4
<1>10. AnsweredOnDevice'
  BY <1>1, <1>2, <1>3, <1>7, <1>8, <1>9, AnswersKeep
<1> QED
  BY <1>0, <1>4, <1>5, <1>6, <1>10, ReaderKeeps

(* The thread ends when it has nothing in the line, and frees its buffers.  *)
LEMMA ExitReaderKeeps == ASSUME Inv, NEW r \in Readers, ExitReader(r) PROVE Inv'
<1>0. TypeOK /\ Walking /\ ReadStep(r) /\ lane' = lane
  BY DEF Inv, ReadStep, ExitReader, laneVars
<1>1. /\ TypeOK' /\ SameShape
      /\ \A s \in Readers \ {r} : reader'[s] = reader[s] /\ pool'[s] = pool[s] /\ filled'[s] = filled[s]
      /\ UNCHANGED <<laneAt, laneBound, waiter, waiterAt, waiterBound, stream, events, broken, dest, stopped>>
  BY <1>0, ReadTypes
<1>2. /\ reader[r].at = "next" /\ Goes(r, "gone") /\ pool' = [pool EXCEPT ![r] = [pool[r] EXCEPT !.freed = TRUE]]
      /\ UNCHANGED <<told, filled>>
  BY DEF ExitReader, At
<1>3. Moves(r, "gone", reader[r].buffer, reader[r].thrown) /\ ~Within(r)
  BY <1>0, <1>2, GoesMoves DEF Within
<1>4. Leaves(r)
  BY <1>3, NothingPending DEF Leaves, Moves, Within
<1>5. Walking'
  <2>1. reader'[r].at = "gone" /\ reader'[r].batch <= Len(told[r])
    BY <1>0, <1>3 DEF Moves, Walking
  <2> QED
    BY <1>1, <2>1, WalkFrame DEF Within
<1>6. /\ pool'[r].made = pool[r].made /\ pool'[r].free = pool[r].free /\ pool'[r].retired = pool[r].retired
      /\ pool'[r].code = pool[r].code
  <2>1. pool \in [Readers -> Pool] /\ pool[r] \in Pool
    BY <1>0 DEF TypeOK
  <2>2. pool'[r] = [pool[r] EXCEPT !.freed = TRUE]
    BY <1>2, <2>1
  <2> QED
    BY <2>1, <2>2 DEF Pool
<1>7. Pools' /\ Filled' /\ Streaming'
  <2>1. ~HasBuffer(r)' /\ reader'[r].at = "gone"
    BY <1>3 DEF HasBuffer, Moves
  <2>2. Holding' = Holding /\ Enqueued' = Enqueued
    BY <1>0, <1>1, QuietFrame
  <2> QED
    BY <1>1, <1>2, <1>6, <2>1, <2>2, BuffersStay
<1>8. AnsweredOnDevice'
  BY <1>1, <1>2, AnswerFrame
<1> QED
  BY <1>0, <1>4, <1>5, <1>7, <1>8, ReaderKeeps

(* A block joins the end of the line, with its buffer.                     *)
LEMMA SubmitKeeps == ASSUME Inv, NEW r \in Readers, Submit(r) PROVE Inv'
<1>0. /\ TypeOK /\ Walking /\ Lined /\ InOrder /\ Counted /\ Prefix /\ Landed /\ Landing /\ Pools /\ Filled
      /\ ReadStep(r)
  BY DEF Inv, ReadStep
<1>1. /\ TypeOK' /\ SameShape
      /\ \A s \in Readers \ {r} : reader'[s] = reader[s] /\ pool'[s] = pool[s] /\ filled'[s] = filled[s]
      /\ UNCHANGED <<laneAt, laneBound, waiter, waiterAt, waiterBound, stream, events, broken, dest, stopped>>
  BY <1>0, ReadTypes
<1>2. PICK i : i = reader[r].buffer
  OBVIOUS
<1>3. PICK v : v = Current(r)
  OBVIOUS
<1>4. PICK c : c = [block |-> v, buffer |-> i]
  OBVIOUS
<1>5. PICK n \in Nat : n = reader[r].submitted
  BY <1>0 DEF TypeOK, Reader
<1>6. /\ reader[r].at = "submit" /\ lane' = Append(lane, c)
      /\ reader' = [reader EXCEPT ![r] = [reader[r] EXCEPT !.at = "answer", !.buffer = NoBuffer, !.submitted = n + 1,
                                                           !.block = reader[r].block + 1]]
      /\ UNCHANGED <<pool, told, filled>>
  BY <1>2, <1>3, <1>4, <1>5 DEF Submit, At
<1>7. /\ reader'[r].at = "answer" /\ reader'[r].submitted = n + 1 /\ reader'[r].block = reader[r].block + 1
      /\ reader'[r].batch = reader[r].batch /\ reader'[r].landed = reader[r].landed
      /\ reader'[r].failure = reader[r].failure /\ reader'[r].posts = reader[r].posts
      /\ reader'[r].thrown = reader[r].thrown
  <2>1. reader \in [Readers -> Reader] /\ reader[r] \in Reader
    BY <1>0 DEF TypeOK
  <2>2. reader'[r] = [reader[r] EXCEPT !.at = "answer", !.buffer = NoBuffer, !.submitted = n + 1,
                                       !.block = reader[r].block + 1]
    BY <1>6, <2>1
  <2> QED
    BY <2>1, <2>2 DEF Reader
<1>8. /\ Within(r) /\ Within(r)' /\ HasBuffer(r) /\ ~HasBuffer(r)' /\ PoolOf(r)
  BY <1>0, <1>6, <1>7 DEF Within, HasBuffer, Pools
<1>9. /\ reader[r].batch \in DOMAIN told[r] /\ reader[r].batch <= Len(told[r]) /\ n = reader[r].block
      /\ reader[r].block < Blocks(r)
  BY <1>0, <1>5, <1>6, <1>8 DEF Walking
<1>10. v \in Block /\ Exists(v) /\ v.reader = r /\ v.batch = reader[r].batch /\ v.block = n + 1
  BY <1>0, <1>3, <1>6, <1>9, CurrentIsBlock DEF Current
<1>11. /\ i \in Buffer /\ i \in 1 .. pool[r].made /\ i \notin pool[r].retired
       /\ \A k \in 1 .. Len(pool[r].free) : pool[r].free[k] # i
  <2>1. i \in 1 .. pool[r].made /\ i \notin pool[r].retired /\ \A k \in 1 .. Len(pool[r].free) : pool[r].free[k] # i
    BY <1>2, <1>8 DEF PoolOf
  <2> QED
    BY <1>0, <2>1, DeviceAssumption DEF TypeOK, Pool, Buffer
<1>12. c \in Copy /\ c.block = v /\ c.buffer = i /\ c # Sentinel
  <2>1. c \in Copy /\ c.block = v /\ c.buffer = i
    BY <1>4, <1>10, <1>11 DEF Copy
  <2> QED
    BY <2>1, SentinelApart
<1>13. Queued(lane') = Queued(lane) \cup {c} /\ lane \in Seq(Copy \cup {Sentinel}) /\ c \in Copy \cup {Sentinel}
  <2>1. lane \in Seq(Copy \cup {Sentinel}) /\ c \in Copy \cup {Sentinel}
    BY <1>0, <1>12 DEF TypeOK
  <2>2. Queued(Append(lane, c)) = Queued(lane) \cup ({c} \ {Sentinel})
    BY <2>1, QueuedAppend
  <2> QED
    BY <1>6, <1>12, <2>1, <2>2
<1>14. Line' = Line \cup {c} /\ Holding' = Holding \cup {c} /\ Enqueued' = Enqueued
  BY <1>1, <1>13 DEF Line, InLane, InWaiter, Holding, Enqueued, LaneHolds, LaneEnqueued, WaiterHolds
<1>15. \A d \in Line : d \in Copy /\ d.block.block \in Nat /\ (d.block.reader = r => d.block.block <= n)
  <2>1. \A d \in Line : d \in Copy /\ d.block.block \in Nat
    BY <1>0, HandsAreCopies DEF Copy, Block
  <2> QED
    BY <1>0, <1>5, <2>1 DEF Lined
<1>16. c \notin Line /\ \A d \in Line : Earlier(d, c)
  BY <1>10, <1>12, <1>15 DEF Earlier
<1>17. InOrder'
  <2>1. Sorted(lane')
    <3>1. \A d \in Queued(lane) : Earlier(d, c)
      BY <1>16 DEF Line, InLane
    <3>2. Sorted(lane)
      BY <1>0 DEF InOrder
    <3> QED
      BY <1>6, <1>13, <3>1, <3>2, SortedAppend
  <2>2. \A d \in InHands(waiterAt) \cup Queued(waiter) \cup InHands(laneAt) : Earlier(d, c)
    BY <1>16 DEF Line, InLane, InWaiter
  <2> QED
    BY <1>0, <1>1, <1>13, <2>1, <2>2 DEF InOrder
<1>18. Walking'
  <2>1. Len(told[r][reader[r].batch]) \in Nat /\ reader[r].block \in Nat
    BY <1>0, <1>9, Shapes DEF TypeOK, Reader
  <2>2. reader'[r].block <= Len(told[r][reader'[r].batch])
    BY <1>7, <1>9, <2>1 DEF Blocks
  <2> QED
    BY <1>1, <1>7, <1>9, <2>2, WalkFrame
<1>19. Pending(r)' = Pending(r) \cup {c} /\ c \notin Pending(r) /\ \A s \in Readers \ {r} : Pending(s)' = Pending(s)
  BY <1>10, <1>12, <1>14, <1>16 DEF Pending
<1>20. /\ IsFiniteSet(Pending(r)) /\ Cardinality(Pending(r)) \in Nat
       /\ reader[r].posts + Cardinality(Pending(r)) = n
       /\ IsFiniteSet(Pending(r)') /\ Cardinality(Pending(r)') = Cardinality(Pending(r)) + 1
  <2>1. IsFiniteSet(Pending(r)) /\ reader[r].posts + Cardinality(Pending(r)) = n
    BY <1>0, <1>5, <1>8 DEF Counted
  <2>2. Cardinality(Pending(r)) \in Nat
    BY <2>1, FS_CardinalityType
  <2>3. IsFiniteSet(Pending(r) \cup {c}) /\ Cardinality(Pending(r) \cup {c}) = Cardinality(Pending(r)) + 1
    BY <1>19, <2>1, FS_AddElement
  <2> QED
    BY <1>19, <2>1, <2>2, <2>3
<1>21. reader[r].posts \in Nat /\ reader[r].landed \in Nat /\ reader[r].posts <= n
  <2>1. reader[r].posts \in Nat /\ reader[r].landed \in Nat
    BY <1>0 DEF TypeOK, Reader
  <2> QED
    BY <1>20, <2>1
<1>22. Lined'
  <2>1. ASSUME NEW d \in Line \cup {c}
        PROVE  /\ Exists(d.block)' /\ Within(d.block.reader)'
               /\ d.block.batch = reader'[d.block.reader].batch
               /\ d.block.block <= reader'[d.block.reader].submitted
    <3>1. CASE d = c
      <4>1. Exists(v)'
        BY <1>6, <1>10 DEF Exists
      <4> QED
        BY <1>7, <1>8, <1>10, <1>12, <3>1, <4>1
    <3>2. CASE d \in Line
      <4>1. /\ Exists(d.block) /\ Within(d.block.reader) /\ d.block.batch = reader[d.block.reader].batch
            /\ d.block.block <= reader[d.block.reader].submitted
        BY <1>0, <3>2 DEF Lined
      <4>2. d.block.reader \in Readers
        BY <1>15, <3>2 DEF Copy, Block
      <4>3. Exists(d.block)'
        BY <1>6, <4>1 DEF Exists
      <4>4. CASE d.block.reader # r
        BY <1>1, <4>1, <4>2, <4>3, <4>4 DEF Within
      <4>5. CASE d.block.reader = r
        BY <1>5, <1>7, <1>8, <1>15, <3>2, <4>1, <4>3, <4>5
      <4> QED
        BY <4>4, <4>5
    <3> QED
      BY <3>1, <3>2
  <2> QED
    BY <1>14, <2>1 DEF Lined
<1>23. Counted'
  <2>1. reader'[r].posts + Cardinality(Pending(r)') = reader'[r].submitted
    BY <1>7, <1>20, <1>21
  <2>2. ASSUME NEW s \in Readers, Within(s)'
        PROVE  IsFiniteSet(Pending(s)') /\ reader'[s].posts + Cardinality(Pending(s)') = reader'[s].submitted
    <3>1. CASE s = r
      BY <1>20, <2>1, <3>1
    <3>2. CASE s # r
      BY <1>0, <1>1, <1>19, <2>2, <3>2 DEF Counted, Within
    <3> QED
      BY <3>1, <3>2
  <2> QED
    BY <2>2 DEF Counted
<1>24. Prefix'
  <2>1. ASSUME NEW s \in Readers, Within(s)', reader'[s].failure = Success
        PROVE  /\ reader'[s].landed = reader'[s].posts
               /\ \A d \in Pending(s)' : d.block.block > reader'[s].posts
               /\ \A k \in 1 .. reader'[s].submitted : k > reader'[s].posts => \E d \in Pending(s)' : d.block.block = k
    <3>1. CASE s # r
      BY <1>0, <1>1, <1>19, <2>1, <3>1 DEF Prefix, Within
    <3>2. CASE s = r
      <4>1. /\ reader[r].landed = reader[r].posts
            /\ \A d \in Pending(r) : d.block.block > reader[r].posts
            /\ \A k \in 1 .. n : k > reader[r].posts => \E d \in Pending(r) : d.block.block = k
        BY <1>0, <1>5, <1>7, <1>8, <2>1, <3>2 DEF Prefix
      <4>2. c.block.block = n + 1 /\ n + 1 > reader[r].posts
        BY <1>10, <1>12, <1>21
      <4>3. \A d \in Pending(r)' : d.block.block > reader[r].posts
        BY <1>19, <4>1, <4>2
      <4>4. ASSUME NEW k \in 1 .. (n + 1), k > reader[r].posts
            PROVE  \E d \in Pending(r)' : d.block.block = k
        <5>1. CASE k = n + 1
          BY <1>19, <4>2, <5>1
        <5>2. CASE k \in 1 .. n
          BY <1>19, <4>1, <4>4, <5>2
        <5> QED
          BY <5>1, <5>2
      <4> QED
        BY <1>7, <3>2, <4>1, <4>3, <4>4
    <3> QED
      BY <3>1, <3>2
  <2> QED
    BY <2>1 DEF Prefix
<1>25. Landed'
  <2>1. ASSUME NEW s \in Readers, Within(s)'
        PROVE  /\ reader'[s].landed <= reader'[s].submitted
               /\ \A k \in 1 .. reader'[s].landed : Arrived([reader |-> s, batch |-> reader'[s].batch, block |-> k])
    <3>1. CASE s # r
      BY <1>0, <1>1, <2>1, <3>1 DEF Landed, Within
    <3>2. CASE s = r
      <4>1. reader[r].landed <= n
        BY <1>0, <1>5, <1>8 DEF Landed
      <4>2. reader[r].landed <= n + 1
        BY <1>21, <4>1
      <4> QED
        BY <1>0, <1>7, <1>8, <3>2, <4>2 DEF Landed
    <3> QED
      BY <3>1, <3>2
  <2> QED
    BY <1>1, <2>1 DEF Landed, Arrived
<1>26. Landing'
  BY <1>0, <1>1, <1>14, LandingFrame DEF Landing
<1>27. Pools' /\ Filled' /\ Streaming'
  <2>1. ~pool[r].freed
    BY <1>6, <1>8 DEF PoolOf
  <2>2. PoolOf(r)'
    BY <1>6, <1>8, <2>1 DEF PoolOf
  <2>3. ASSUME NEW d \in Holding', d.block.reader = r PROVE Kept(d)'
    <3>1. CASE d = c
      <4>1. filled[r][i] = v
        BY <1>0, <1>2, <1>3, <1>6 DEF Filled
      <4>2. i <= pool[r].made
        BY <1>0, <1>11 DEF TypeOK, Pool
      <4> QED
        BY <1>6, <1>8, <1>10, <1>11, <1>12, <3>1, <4>1, <4>2 DEF Kept
    <3>2. CASE d \in Holding
      <4>1. Kept(d)
        BY <1>0, <3>2 DEF Filled
      <4> QED
        BY <1>6, <1>8, <2>3, <4>1 DEF Kept
    <3> QED
      BY <1>14, <3>1, <3>2
  <2>4. \A d \in Holding' : d \in Holding \/ d.block.reader = r
    BY <1>10, <1>12, <1>14
  <2>5. reader'[r].at # "submit"
    BY <1>7
  <2> QED
    BY <1>1, <1>6, <1>14, <2>2, <2>3, <2>4, <2>5, ReaderBuffers
<1>28. AnsweredOnDevice'
  BY <1>1, <1>6, AnswerFrame
<1> QED
  BY <1>1, <1>17, <1>18, <1>22, <1>23, <1>24, <1>25, <1>26, <1>27, <1>28 DEF Inv

-----------------------------------------------------------------------------
(* The initial state: nothing is in the line, on the stream or pooled.     *)
LEMMA InvInit == Init => Inv
<1> SUFFICES ASSUME Init PROVE Inv
  OBVIOUS
<1>1. TypeOK
  BY TypeInit
<1>2. /\ reader = [r \in Readers |-> NoBatch] /\ pool = [r \in Readers |-> NoPool]
      /\ lane = <<>> /\ waiter = <<>> /\ stream = <<>> /\ laneAt = Idle /\ waiterAt = Idle
  BY DEF Init
<1>3. Queued(lane) = {} /\ Queued(waiter) = {} /\ Range(stream) = {}
  BY <1>2 DEF Queued, Range
<1>4. Line = {} /\ Holding = {} /\ Enqueued = {} /\ InHands(laneAt) = {} /\ InHands(waiterAt) = {}
  BY <1>2, <1>3 DEF Line, InLane, InWaiter, InHands, Holding, Enqueued, LaneHolds, LaneEnqueued, WaiterHolds, Idle
<1>5. \A r \in Readers : reader[r].at = "next" /\ reader[r].batch = 0 /\ ~Within(r)
  BY <1>2 DEF NoBatch, Within
<1>6. Walking
  <2>1. \A r \in Readers : Len(told[r]) \in Nat
    BY <1>1, Shapes
  <2> QED
    BY <1>5, <2>1 DEF Walking
<1>7. Lined /\ Counted /\ Prefix /\ Landed
  BY <1>4, <1>5 DEF Lined, Counted, Prefix, Landed
<1>8. InOrder
  <2>1. Sorted(lane) /\ Sorted(waiter)
    BY <1>2 DEF Sorted
  <2> QED
    BY <1>3, <1>4, <2>1 DEF InOrder
<1>9. Landing
  BY <1>2, <1>4 DEF Landing, Idle
<1>10. Pools
  <2>1. \A r \in Readers : pool[r].free = <<>> /\ pool[r].retired = {}
    BY <1>2 DEF NoPool
  <2>2. \A r \in Readers : ~pool[r].freed
    BY <1>2 DEF NoPool
  <2>3. \A r \in Readers : ~HasBuffer(r) /\ Len(pool[r].free) = 0
    BY <1>5, <2>1 DEF HasBuffer
  <2> QED
    BY <2>1, <2>2, <2>3 DEF Pools, PoolOf
<1>11. Filled
  BY <1>4, <1>5 DEF Filled
<1>12. Streaming
  BY <1>3 DEF Streaming
<1>13. AnsweredOnDevice
  <2>1. ASSUME NEW r \in Readers, NEW b \in DOMAIN told[r], NEW k \in DOMAIN told[r][b]
        PROVE  told[r][b][k] # Success
    <3>1. PICK load \in Loads : told = [s \in Readers |-> [d \in DOMAIN load[s] |-> [j \in 1 .. load[s][d] |-> "none"]]]
      BY DEF Init
    <3>2. told[r] = [d \in DOMAIN load[r] |-> [j \in 1 .. load[r][d] |-> "none"]]
      BY <3>1
    <3>3. told[r][b] = [j \in 1 .. load[r][b] |-> "none"]
      BY <3>2
    <3> QED
      BY <3>3 DEF Success
  <2> QED
    BY <2>1 DEF AnsweredOnDevice
<1> QED
  BY <1>1, <1>6, <1>7, <1>8, <1>9, <1>10, <1>11, <1>12, <1>13 DEF Inv

(* Every step keeps the invariant.                                         *)
LEMMA InvNext == Inv /\ [Next]_vars => Inv'
<1> SUFFICES ASSUME Inv, [Next]_vars PROVE Inv'
  OBVIOUS
<1>1. ASSUME NEW r \in Readers, ReadStep(r) PROVE Inv'
  BY <1>1, BeginBatchKeeps, RefuseBatchKeeps, TakeBufferKeeps, GrowPoolKeeps, LeavingKeeps, ParkKeeps, ReadBlockKeeps,
     ReadThrowsKeeps, SubmitKeeps, AnswerLandedKeeps, EndBatchKeeps, ExitReaderKeeps DEF ReadStep
<1>2. CASE LaneStep
  BY <1>2, LaneTakesKeeps, LaneBindsKeeps, LaneCopiesKeeps, LaneRecordsKeeps, LaneSyncsKeeps, LaneReportsKeeps,
     LaneJoinsKeeps DEF LaneStep
<1>3. CASE WaiterStep
  BY <1>3, WaiterTakesKeeps, WaiterReturnsKeeps, WaiterRetiresKeeps, WaiterReportsKeeps, WaiterJoinsKeeps DEF WaiterStep
<1>4. CASE Teardown
  BY <1>4, StopLaneKeeps, StopWaiterKeeps DEF Teardown
<1>5. CASE CopyLands
  BY <1>5, CopyLandsKeeps
<1>6. CASE ContextBreaks \/ Stop \/ UNCHANGED vars
  BY <1>6, OutsideKeeps
<1> QED
  BY <1>1, <1>2, <1>3, <1>4, <1>5, <1>6 DEF Next

(* The inductive invariant holds in every reachable state.                 *)
THEOREM Invariance == Spec => []Inv
<1>1. Init => Inv
  BY InvInit
<1>2. Inv /\ [Next]_vars => Inv'
  BY InvNext
<1> QED
  BY <1>1, <1>2, PTL DEF Spec

(* Every variable keeps its type.                                          *)
THEOREM TypeCorrect == Spec => []TypeOK
<1>1. Inv => TypeOK
  BY DEF Inv
<1> QED
  BY <1>1, Invariance, PTL

(* For any readers, loads and faults, and however the lane, the waiter and *)
(* the device interleave: a task that finished_until has answered with     *)
(* success has its own bytes at its destination.                           *)
THEOREM OnDeviceAnswers == Spec => []AnsweredOnDevice
<1>1. Inv => AnsweredOnDevice
  BY DEF Inv
<1> QED
  BY <1>1, Invariance, PTL

(* And the staging buffer a copy on the stream reads is never free, never  *)
(* freed and never read into again; nor is a copy of a batch that has been *)
(* answered still with the lane or the waiter.                             *)
THEOREM MemoryIsOwned == Spec => []MemoryOwned
<1>1. Inv => MemoryOwned
  <2> SUFFICES ASSUME Inv PROVE MemoryOwned
    OBVIOUS
  <2>0. TypeOK /\ Lined /\ Pools /\ Filled /\ Streaming
    BY DEF Inv
  <2>1. ASSUME NEW c \in Range(stream)
        PROVE  /\ filled[c.block.reader][c.buffer] = c.block
               /\ ~Contains(pool[c.block.reader].free, c.buffer)
               /\ pool[c.block.reader].freed => c.buffer \in pool[c.block.reader].retired
    <3>1. c \in Copy
      BY <2>0 DEF TypeOK, Range
    <3>2. c.block.reader \in Readers
      BY <3>1 DEF Copy, Block
    <3>3. PoolOf(c.block.reader)
      BY <2>0, <3>2 DEF Pools
    <3>4. CASE c \in Enqueued
      <4>1. c \in Holding /\ c \in Line /\ Kept(c)
        BY <2>0, <3>4, HandsAreCopies DEF Filled
      <4>2. Within(c.block.reader)
        BY <2>0, <4>1 DEF Lined
      <4>3. ~pool[c.block.reader].freed
        BY <3>3, <4>2 DEF PoolOf, Within
      <4>4. \A i \in 1 .. Len(pool[c.block.reader].free) : pool[c.block.reader].free[i] # c.buffer
        BY <4>1 DEF Kept
      <4>5. filled[c.block.reader][c.buffer] = c.block
        BY <4>1 DEF Kept
      <4> QED
        BY <4>3, <4>4, <4>5 DEF Contains
    <3>5. CASE c \notin Enqueued
      <4>1. c.buffer \in pool[c.block.reader].retired /\ filled[c.block.reader][c.buffer] = c.block
        BY <2>0, <3>5 DEF Streaming
      <4>2. \A i \in 1 .. Len(pool[c.block.reader].free) : pool[c.block.reader].free[i] # c.buffer
        BY <3>3, <4>1 DEF PoolOf
      <4> QED
        BY <4>1, <4>2 DEF Contains
    <3> QED
      BY <3>4, <3>5
  <2>2. \A c \in InLane \cup InWaiter : /\ c.block.batch = reader[c.block.reader].batch
                                        /\ reader[c.block.reader].at \notin {"next", "gone"}
    BY <2>0 DEF Lined, Line, Within
  <2> QED
    BY <2>1, <2>2 DEF MemoryOwned
<1> QED
  BY <1>1, Invariance, PTL
=============================================================================
