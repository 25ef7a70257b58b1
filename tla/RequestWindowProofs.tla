------------------------ MODULE RequestWindowProofs ------------------------
(***************************************************************************)
(* Proofs about RequestWindow, for any list of ranges, buffer size, ring   *)
(* depth and memory, and any of the faults and the consumer's habits that  *)
(* RequestWindow has, re-entering a context with a generator of an earlier *)
(* one still paused and streaming again after a drain among them.          *)
(***************************************************************************)
EXTENDS RequestWindow, Integers, FiniteSetTheorems, WellFoundedInduction, TLAPS

Slots == 1..Depth
Kinds == {"owned", "reused", "device"}
Ids == Nat \ {0}
Tag == [stream : Nat, ord : Nat]
View == [id : Ids, slot : Slots, buf : Buffers, cell : Cells, owned : BOOLEAN, home : Streams,
         tag : Tag]
Write == [id : Ids, file : Nat, index : Int, buf : Buffers, cell : Cells, tag : Tag]
Request == [id : Ids, slot : Slots, buf : Buffers, files : Seq(Nat), num : Nat,
            rangeBase : Seq(Nat), fileBase : Seq(Nat)]
Ring == [kind : Kinds, home : Streams, at : 0..N, slots : [Slots -> Buffers \cup {0}],
         free : Seq(Slots), pending : Seq(Slots)]
Order == [on : BOOLEAN, next : Ids, parked : SUBSET View]
Places == {"none", "fill", "refill", "hand", "wait", "paused", "drain"}
Generators == [at : Places, ready : Seq(View), device : BOOLEAN]
Entry == [op : {"clone"}, of : View] \cup [op : {"event"}, of : Slots]
Hows == {"none", "fresh", "refused", "raised", "clean", "outlived", "closed"}

(* Every variable has the type its comment gives.                          *)
PythonType ==
  /\ mode \in Modes /\ handle \in Nat /\ sessions \in Nat /\ number \in Nat /\ unsettled \in BOOLEAN
  /\ ring \in Ring \cup {NoRing}
  /\ live \subseteq Request /\ left \in Seq(Int) /\ reported \subseteq Ids /\ outstanding \in Nat
  /\ order \in Order /\ gen \in Generators
  /\ cloneEvent \in Slots \cup {0} /\ cloneStream \in Streams \cup {0}
WorldType ==
  /\ owed \subseteq Write /\ stray \subseteq Write
  /\ mem \in [Buffers -> [Cells -> Tag]] /\ held \subseteq View
  /\ copies \in [Streams -> Seq(Entry)] /\ current \in Streams /\ astray \in BOOLEAN
  /\ yielded \in Seq(1..N) /\ how \in Hows
TypeOK == PythonType /\ WorldType

(* The ranges answered and not handed over, and what Python waits for.     *)
Unhanded == order.parked \cup Range(gen.ready)
Due == owed \cup Unhanded

(* The stream is running: its ring is up and its generator has neither     *)
(* ended nor begun to.                                                     *)
Streaming ==
  /\ ring # NoRing
  /\ At("fill") \/ At("refill") \/ At("hand") \/ At("wait") \/ At("paused")
     \/ (At("none") /\ how = "fresh")

(* What may be about, and where the generator may be, without a handle or  *)
(* a ring.                                                                 *)
Standing ==
  /\ handle = 0 => ring = NoRing
  /\ ring = NoRing => owed = {} /\ stray = {} /\ order.parked = {} /\ ~At("fill") /\ ~At("refill")
  /\ At("none") /\ live = {} => outstanding = 0
  /\ ring = NoRing /\ At("hand") /\ ~order.on => gen.ready = <<>>
  /\ ring # NoRing => IsFiniteSet(owed) /\ outstanding = Cardinality(owed)
  /\ ring = NoRing => cloneStream = 0
  /\ ring # NoRing => ring.kind = mode.kind
Resting ==
  /\ At("none") => gen.ready = <<>> /\ ~gen.device
  /\ At("fill") => gen.ready = <<>> /\ ~gen.device /\ how = "fresh"
  /\ At("wait") => gen.ready = <<>>
  /\ At("wait") => live # {}
  /\ At("paused") => gen.ready # <<>>
  /\ At("refill") \/ At("hand") \/ At("wait") \/ At("paused") => how = "none"
  /\ At("drain") => how # "fresh"
  /\ Streaming => Strays = {}
  /\ gen.device => mode.kind = "device"

(* Writes still to come have a place each, which no tensor and no clone    *)
(* uses, in memory that is still referred to.                              *)
SamePlace(x, y) == x.buf = y.buf /\ x.cell = y.cell
Writes == owed \cup Strays
Apart ==
  /\ \A w, x \in Writes : SamePlace(w, x) => w = x
  /\ \A w \in Writes : \A v \in Views : ~SamePlace(w, v)
  /\ \A w \in Writes : \E k \in Slots : ring.slots[k] = w.buf
Intact == ~unsettled => \A v \in Views : mem[v.buf][v.cell] = v.tag

(* Only what is owned outlives the resumption.                             *)
Lent == \A v \in held : /\ v.owned = (mode.kind = "owned")
                        /\ v.owned \/ ((At("paused") \/ At("drain")) /\ gen.ready # <<>> /\ v = Head(gen.ready))
KeptKind == \A p \in Unhanded : p.owned = (mode.kind = "owned")

(* What has been handed over and resumed past.                             *)
Given == IF At("paused") THEN Len(yielded) - 1 ELSE Len(yielded)
InOrder ==
  /\ IF order.on THEN \A i \in DOMAIN yielded : yielded[i] = i ELSE IsInjective(yielded)
  /\ ~At("drain") => IF order.on THEN \A k \in DOMAIN gen.ready : gen.ready[k].tag.ord = Given + k
                     ELSE Len(gen.ready) <= 1
  /\ ~order.on => order.parked = {}
  /\ At("paused") => Len(yielded) > 0 /\ yielded[Len(yielded)] = Head(gen.ready).tag.ord
  /\ At("fill") => yielded = <<>>
  /\ \A p \in Unhanded : p.tag.ord \in 1..N /\ p.tag.stream = number
Ended == how = "clean" => Range(yielded) = 1..N

-----------------------------------------------------------------------------
(* While a stream is running.                                              *)

(* A request's slot is its own.                                            *)
LiveSlots ==
  /\ \A q \in live : /\ q.id \in DOMAIN left
                     /\ q.buf = ring.slots[q.slot]
                     /\ q.slot \notin Range(ring.free) \cup Range(ring.pending)
  /\ \A q, r \in live : q.id = r.id \/ q.slot = r.slot => q = r
SlotsApart == \A i, j \in Slots : ring.slots[i] # 0 /\ ring.slots[i] = ring.slots[j] => i = j
Once(s) == \A i, j \in DOMAIN s : s[i] = s[j] => i = j
QueuesApart ==
  /\ Once(ring.free) /\ Once(ring.pending)
  /\ Range(ring.free) \cap Range(ring.pending) = {}

(* Slots that may be taken are in nobody's use.                            *)
Spare ==
  \A k \in Range(ring.free) \cup Range(ring.pending) : \A x \in Writes \cup Views : x.buf # ring.slots[k]

(* A write belongs to a live request, which resolves it to its own range.  *)
Answers(q, w) ==
  /\ w.buf = q.buf /\ CellOf(q, w) = w.cell /\ Ordinal(Resolve(q, w)) = w.tag.ord
OwedLive ==
  \A w \in owed : /\ \E q \in live : q.id = w.id /\ Answers(q, w)
                  /\ w.tag.stream = number
KeptLive == \A p \in Unhanded : \E q \in live : q.id = p.id /\ q.slot = p.slot /\ q.buf = p.buf

(* The ranges submitted: each is due once, or has been handed over.        *)
DueOf(id) == {x.tag.ord : x \in {y \in Due : y.id = id}}
DueOnce == \A x, y \in Due : x.tag.ord = y.tag.ord => x = y
DueRange == \A x \in Due : x.tag.ord \in 1..ring.at
Counted == \A q \in live : IsFiniteSet(DueOf(q.id)) /\ left[q.id] = Cardinality(DueOf(q.id)) /\ DueOf(q.id) # {}
Covered == \A i \in 1..ring.at : i \in Range(yielded) \/ \E x \in Due : x.tag.ord = i
NotAgain == \A x \in Due : x.tag.ord \in Range(yielded) => At("paused") /\ x = Head(gen.ready)
YieldedRange == \A i \in DOMAIN yielded : yielded[i] <= ring.at

(* The next ordinal is the one after what is ready; it has not arrived.    *)
NextIsDue ==
  order.on => /\ order.next = Given + Len(gen.ready) + 1
              /\ \A p \in order.parked : p.tag.ord > order.next

(* Outside the refill, there is something in flight or nothing left.       *)
Supplied == ~At("fill") /\ ~At("refill") => ring.at = N \/ live # {}

Running ==
  /\ LiveSlots /\ SlotsApart /\ QueuesApart /\ Spare
  /\ OwedLive /\ KeptLive /\ DueOnce /\ DueRange
  /\ Counted /\ Covered /\ NotAgain /\ YieldedRange /\ NextIsDue /\ Supplied

-----------------------------------------------------------------------------
(* Clones out of the ring, of a consumer that stays on its stream.         *)
EventAfter(s, i, slot) == \E j \in DOMAIN copies[s] : j > i /\ copies[s][j] = Event(slot)

ClonesHome ==
  \A s \in Streams : \A i \in DOMAIN copies[s] : copies[s][i].op = "clone" =>
    LET c == copies[s][i].of
    IN  /\ s = cloneStream /\ ring # NoRing /\ c.buf = ring.slots[c.slot]
        /\ ~unsettled => mem[c.buf][c.cell] = c.tag
        /\ \A w \in Writes : ~SamePlace(w, c)
        /\ cloneEvent # 0 => EventAfter(s, i, cloneEvent) \/ live # {}
        /\ Streaming => /\ gen.device /\ c.slot \notin Range(ring.free)
                        /\ c.slot \in Range(ring.pending) => EventAfter(s, i, c.slot)
OnStream ==
  gen.device /\ ring # NoRing /\ ~At("drain") => current = cloneStream
Clones == ~astray => ClonesHome /\ OnStream

Always == Standing /\ Resting /\ Apart /\ Intact /\ Lent /\ KeptKind /\ InOrder /\ Ended
Inv == TypeOK /\ Always /\ (Streaming => Running) /\ Clones
-----------------------------------------------------------------------------
(* Numbers and sets.                                                       *)

(* A natural number in a set of them is least.                             *)
LEMMA Least ==
  ASSUME NEW T \in SUBSET Nat, T # {}
  PROVE  \E x \in T : \A y \in T : x <= y
<1>1. PICK x \in T : \A y \in T : ~ (<<y, x>> \in OpToRel(<, Nat))
  BY NatLessThanWellFounded, WFMin, Zenon
<1>2. ASSUME NEW y \in T PROVE x <= y
  <2>1. SUFFICES ASSUME y < x PROVE FALSE
    OBVIOUS
  <2>2. <<y, x>> \in OpToRel(<, Nat)
    BY <2>1, Zenon DEF OpToRel
  <2> QED BY <1>1, <2>2
<1> QED BY <1>2

(* Max of a bounded set of numbers is its largest.                         *)
LEMMA MaxIs ==
  ASSUME NEW k \in Nat, NEW T \in SUBSET (0..k), T # {}
  PROVE  Max(T) \in T /\ \A y \in T : y <= Max(T)
<1> DEFINE U == {k - t : t \in T}
<1>0. \A t \in T : k - t \in Nat /\ t \in Int
  OBVIOUS
<1>1. U \in SUBSET Nat /\ U # {}
  BY <1>0
<1>2. PICK u \in U : \A y \in U : u <= y
  BY <1>1, Least
<1>3. PICK t \in T : u = k - t
  BY <1>2
<1>4. \A y \in T : t >= y
  <2> TAKE y \in T
  <2>1. k - y \in U
    OBVIOUS
  <2> QED BY <1>2, <1>3, <2>1
<1>5. \E x \in T : \A y \in T : x >= y
  BY <1>4
<1>6. Max(T) \in T /\ \A y \in T : Max(T) >= y
  BY <1>5, Zenon DEF Max
<1> QED BY <1>6

(* The parts of a finite set that is cut in two add up.                    *)
LEMMA TwoParts ==
  ASSUME NEW S, NEW T, IsFiniteSet(S \cup T), S \cap T = {}
  PROVE  /\ IsFiniteSet(S) /\ IsFiniteSet(T) /\ Cardinality(S) \in Nat /\ Cardinality(T) \in Nat
         /\ Cardinality(S \cup T) = Cardinality(S) + Cardinality(T)
<1>1. IsFiniteSet(S) /\ IsFiniteSet(T)
  BY FS_Subset
<1>2. Cardinality(S) \in Nat /\ Cardinality(T) \in Nat
  BY <1>1, FS_CardinalityType
<1>3. Cardinality(S \cup T) = Cardinality(S) + Cardinality(T) - Cardinality({})
  BY <1>1, FS_Union
<1> QED BY <1>1, <1>2, <1>3, FS_EmptySet

-----------------------------------------------------------------------------
(* What a request resolves its answers to.                                 *)

(* The list has ranges of files.                                           *)
LEMMA RangeTypes ==
  /\ N \in Nat /\ N = Len(Ranges)
  /\ \A j \in 1..N : Ranges[j].file \in Nat /\ Ranges[j].index \in Nat
<1>1. N \in Nat /\ N = Len(Ranges)
  BY RangesAssumption DEF N
<1>2. \A j \in 1..N : Ranges[j] \in FileRange
  BY RangesAssumption, <1>1
<1> QED BY <1>1, <1>2 DEF FileRange

(* The ranges of a stretch before one of them are those of earlier files   *)
(* and the earlier ones of its own file.                                   *)
LEMMA Before ==
  ASSUME NEW lo \in 1..N, NEW hi \in 1..N, NEW i \in lo..hi
  PROVE  /\ Cardinality({j \in lo..hi : Ranges[j].file < Ranges[i].file})
            + Cardinality({j \in lo..(i - 1) : Ranges[j].file = Ranges[i].file}) = i - lo
         /\ Cardinality({j \in lo..hi : Ranges[j].file < Ranges[i].file}) \in Nat
         /\ Cardinality({j \in lo..(i - 1) : Ranges[j].file = Ranges[i].file}) \in Nat
<1> DEFINE f == Ranges[i].file
           S == {j \in lo..hi : Ranges[j].file < f}
           T == {j \in lo..(i - 1) : Ranges[j].file = f}
<1>0. N \in Nat /\ \A j \in 1..N : Ranges[j].file \in Nat
  BY RangeTypes
<1>1. S \cup T = lo..(i - 1)
  <2>1. ASSUME NEW j \in lo..hi, Ranges[j].file < f PROVE j \in lo..(i - 1)
    <3>1. j \in 1..N /\ i \in 1..N
      BY <1>0
    <3>2. ~(i < j)
      <4>1. i < j => Ranges[i].file <= Ranges[j].file
        BY <3>1, RangesAssumption
      <4>2. ~(Ranges[i].file <= Ranges[j].file)
        BY <1>0, <2>1, <3>1
      <4> QED BY <4>1, <4>2
    <3>3. j # i
      BY <1>0, <2>1, <3>1
    <3> QED BY <1>0, <3>1, <3>2, <3>3
  <2>2. ASSUME NEW j \in lo..(i - 1) PROVE j \in S \cup T
    <3>1. Ranges[j].file <= f
      BY <1>0, RangesAssumption
    <3>2. Ranges[j].file < f \/ Ranges[j].file = f
      BY <3>1, <1>0
    <3> QED BY <3>2, <1>0
  <2> QED BY <2>1, <2>2
<1>2. S \cap T = {}
  BY <1>0
<1>3. IsFiniteSet(lo..(i - 1)) /\ Cardinality(lo..(i - 1)) = i - lo
  BY <1>0, FS_Interval
<1> HIDE DEF S, T
<1>4. Cardinality(S) + Cardinality(T) = i - lo /\ Cardinality(S) \in Nat /\ Cardinality(T) \in Nat
  <2>1. IsFiniteSet(S \cup T) /\ Cardinality(S \cup T) = i - lo
    BY <1>1, <1>3
  <2> QED BY <2>1, <1>2, TwoParts
<1> QED BY <1>4 DEF S, T

(* The ordinal of a range is its place in the list.                        *)
LEMMA OrdinalIsPlace ==
  ASSUME NEW i \in 1..N
  PROVE  Ordinal([file |-> Ranges[i].file, index |-> Ranges[i].index]) = i
<1>0. N \in Nat /\ i \in 1..N /\ 1 \in 1..N
  BY RangeTypes
<1>1. /\ FirstOrdinal(Ranges[i].file) + Assigned(Ranges[i].file, i - 1) = i - 1
      /\ FirstOrdinal(Ranges[i].file) \in Nat /\ Assigned(Ranges[i].file, i - 1) \in Nat
  <2>1. /\ Cardinality({j \in 1..N : Ranges[j].file < Ranges[i].file})
           + Cardinality({j \in 1..(i - 1) : Ranges[j].file = Ranges[i].file}) = i - 1
        /\ Cardinality({j \in 1..N : Ranges[j].file < Ranges[i].file}) \in Nat
        /\ Cardinality({j \in 1..(i - 1) : Ranges[j].file = Ranges[i].file}) \in Nat
    <3>1. N \in 1..N /\ i \in 1..N
      BY <1>0
    <3> QED BY <3>1, <1>0, Before
  <2> QED BY <2>1, Zenon DEF FirstOrdinal, Assigned
<1>2. Ranges[i].index = Assigned(Ranges[i].file, i - 1)
  BY RangesAssumption
<1>3. Ordinal([file |-> Ranges[i].file, index |-> Ranges[i].index])
      = FirstOrdinal(Ranges[i].file) + Ranges[i].index + 1
  BY DEF Ordinal
<1> QED BY <1>0, <1>1, <1>2, <1>3

(* A request takes at least one range, and none that is not there.         *)
LEMMA SpanFits ==
  ASSUME NEW at \in 0..(N - 1)
  PROVE  NextSpan(at) \in 1..(N - at)
<1> DEFINE T == {n \in 0..(N - at) : Bytes(at, n) <= BufferSize}
<1>0. N \in Nat
  BY RangeTypes
<1>1. 1 \in T
  BY <1>0, RangesAssumption
<1>2. N - at \in Nat /\ T \in SUBSET (0..(N - at)) /\ T # {}
  BY <1>0, <1>1
<1>3. Max(T) \in T /\ \A y \in T : y <= Max(T)
  <2> HIDE DEF T
  <2> QED BY <1>2, MaxIs
<1>4. Max(T) \in 0..(N - at) /\ 1 <= Max(T)
  BY <1>1, <1>3
<1> QED BY <1>0, <1>4 DEF NextSpan

(* A file has a place of its own among a request's.                        *)
LEMMA PlaceIsOwn ==
  ASSUME NEW fs \in SUBSET Nat, IsFiniteSet(fs), NEW f \in fs
  PROVE  /\ Place(fs, f) \in 1..Cardinality(fs)
         /\ (CHOOSE g \in fs : Place(fs, g) = Place(fs, f)) = f
         /\ \A g \in fs : Place(fs, g) = Place(fs, f) => g = f
<1> DEFINE Up(g) == {h \in fs : h <= g}
<1>0. \A g \in fs : g \in Nat
  OBVIOUS
<1>1. \A g \in fs : /\ IsFiniteSet(Up(g)) /\ Cardinality(Up(g)) \in Nat
                    /\ Cardinality(Up(g)) <= Cardinality(fs)
  <2> TAKE g \in fs
  <2>1. Up(g) \in SUBSET fs
    OBVIOUS
  <2> QED BY <2>1, FS_Subset, FS_CardinalityType
<1>2. Cardinality(Up(f)) # 0
  <2>1. f \in Up(f)
    OBVIOUS
  <2> QED BY <2>1, <1>1, FS_EmptySet
<1>3. \A g \in fs : Cardinality(Up(g)) = Cardinality(Up(f)) => g = f
  <2> SUFFICES ASSUME NEW g \in fs, Cardinality(Up(g)) = Cardinality(Up(f)), g # f PROVE FALSE
    OBVIOUS
  <2>1. CASE g < f
    <3>1. Up(g) \in SUBSET Up(f) /\ f \in Up(f) /\ f \notin Up(g)
      <4>1. \A h \in fs : h <= g => h <= f
        BY <1>0, <2>1
      <4>2. ~(f <= g) /\ f <= f
        BY <1>0, <2>1
      <4> QED BY <4>1, <4>2
    <3>2. Up(f) = Up(g)
      BY <3>1, <1>1, FS_Subset
    <3> QED BY <3>1, <3>2
  <2>2. CASE f < g
    <3>1. Up(f) \in SUBSET Up(g) /\ g \in Up(g) /\ g \notin Up(f)
      <4>1. \A h \in fs : h <= f => h <= g
        BY <1>0, <2>2
      <4>2. ~(g <= f) /\ g <= g
        BY <1>0, <2>2
      <4> QED BY <4>1, <4>2
    <3>2. Up(f) = Up(g)
      BY <3>1, <1>1, FS_Subset
    <3> QED BY <3>1, <3>2
  <2>3. g < f \/ f < g
    BY <1>0
  <2> QED BY <2>1, <2>2, <2>3
<1>4. \A g \in fs : Place(fs, g) = Cardinality(Up(g))
  BY DEF Place
<1> HIDE DEF Up
<1>5. Place(fs, f) \in 1..Cardinality(fs)
  BY <1>1, <1>2, <1>4, FS_CardinalityType
<1>6. \A g \in fs : Place(fs, g) = Place(fs, f) => g = f
  BY <1>3, <1>4
<1> QED BY <1>5, <1>6

(* A function on the numbers up to n is a sequence.                        *)
LEMMA IsSeq ==
  ASSUME NEW n \in Nat, NEW S, NEW s \in [1..n -> S]
  PROVE  s \in Seq(S) /\ DOMAIN s = 1..n /\ Len(s) = n
OBVIOUS

(* The files of a request that begins at `at`, each at its place, have     *)
(* their bases there.                                                      *)
BasesFit(q, at) ==
  \A i \in (at + 1)..(at + q.num) :
    LET k == Place(FilesOf(at, q.num), Ranges[i].file)
    IN  /\ k \in Nat
        /\ q.files[k] = Ranges[i].file
        /\ q.rangeBase[k] = Assigned(Ranges[i].file, at)
        /\ q.fileBase[k] =
             Cardinality({j \in (at + 1)..(at + q.num) : Ranges[j].file < Ranges[i].file})

(* What a new request is.                                                  *)
LEMMA RequestIs ==
  ASSUME NEW at \in 0..(N - 1), NEW id \in Ids, NEW slot \in Slots, NEW buf \in Buffers,
         NEW q, q = NewRequest(id, at, slot, buf)
  PROVE  /\ q \in Request
         /\ q.id = id /\ q.slot = slot /\ q.buf = buf /\ q.num = NextSpan(at)
         /\ BasesFit(q, at)
<1> DEFINE n == NextSpan(at)
           end == at + n
           set == FilesOf(at, n)
           fs == [k \in 1..Cardinality(set) |-> CHOOSE f \in set : Place(set, f) = k]
           rb == [k \in DOMAIN fs |-> Assigned(fs[k], at)]
           fb == [k \in DOMAIN fs |-> Cardinality({i \in (at + 1)..end : Ranges[i].file < fs[k]})]
<1>0. N \in Nat /\ \A j \in 1..N : Ranges[j].file \in Nat
  BY RangeTypes
<1>1. n \in 1..(N - at) /\ n \in Nat
  BY <1>0, SpanFits
<1>2. q = [id |-> id, slot |-> slot, buf |-> buf, files |-> fs, num |-> end - at,
           rangeBase |-> rb, fileBase |-> fb]
  BY DEF NewRequest
<1>3. end - at = n
  BY <1>0, <1>1
<1>4. set \in SUBSET Nat
  BY <1>0, <1>1 DEF FilesOf
<1>5. IsFiniteSet(set)
  <2>1. IsFiniteSet((at + 1)..(at + n))
    BY <1>0, <1>1, FS_Interval
  <2>2. set = {Ranges[i].file : i \in (at + 1)..(at + n)}
    BY DEF FilesOf
  <2>3. IsFiniteSet({Ranges[i].file : i \in (at + 1)..(at + n)})
    <3> DEFINE g == [i \in (at + 1)..(at + n) |-> Ranges[i].file]
               img == {Ranges[i].file : i \in (at + 1)..(at + n)}
    <3>1. g \in Surjection((at + 1)..(at + n), img)
      BY DEF Surjection
    <3> HIDE DEF g, img
    <3>2. IsFiniteSet(img)
      BY <2>1, <3>1, FS_Surjection
    <3> QED BY <3>2 DEF img
  <2> QED BY <2>2, <2>3
<1> HIDE DEF n, set
<1>6. Cardinality(set) \in Nat
  BY <1>5, FS_CardinalityType
<1>7. \A k \in 1..Cardinality(set) : fs[k] \in Nat
  <2> SUFFICES ASSUME NEW k \in 1..Cardinality(set) PROVE fs[k] \in Nat
    OBVIOUS
  <2> DEFINE C == 1..Cardinality(set)
             g == [f \in set |-> Place(set, f)]
  <2>1. \A f \in set : Place(set, f) \in C /\ \A h \in set : Place(set, h) = Place(set, f) => h = f
    BY <1>4, <1>5, PlaceIsOwn
  <2>2. g \in [set -> C]
    BY <2>1
  <2>3. ASSUME NEW f \in set, NEW h \in set, g[f] = g[h] PROVE f = h
    <3>1. Place(set, f) = Place(set, h)
      BY <2>3
    <3> QED BY <2>1, <3>1
  <2>4. g \in Injection(set, C)
    <3>1. DOMAIN g = set
      BY <2>2
    <3> HIDE DEF g, C
    <3> QED BY <2>2, <2>3, <3>1, Zenon DEF Injection, IsInjective
  <2>5. IsFiniteSet(C) /\ Cardinality(C) = Cardinality(set)
    BY <1>6, FS_Interval
  <2> HIDE DEF g, C
  <2>6. g \in Surjection(set, C)
    BY <2>4, <2>5, FS_Injection
  <2>7. k \in C
    BY DEF C
  <2>8. \E f \in set : g[f] = k
    BY <2>6, <2>7 DEF Surjection
  <2>9. \E f \in set : Place(set, f) = k
    BY <2>8 DEF g
  <2>10. (CHOOSE f \in set : Place(set, f) = k) \in set
    BY <2>9, Zenon
  <2> QED BY <2>10, <1>4
<1>8. fs \in Seq(Nat) /\ DOMAIN fs = 1..Cardinality(set)
  <2>1. fs \in [1..Cardinality(set) -> Nat]
    BY <1>7
  <2> HIDE DEF fs
  <2> QED BY <2>1, <1>6, IsSeq
<1>9. rb \in Seq(Nat)
  <2>1. \A f : Assigned(f, at) \in Nat
    <3> TAKE f
    <3>1. IsFiniteSet(1..at)
      BY <1>0, FS_Interval
    <3>2. {i \in 1..at : Ranges[i].file = f} \in SUBSET (1..at)
      OBVIOUS
    <3> QED BY <3>1, <3>2, FS_Subset, FS_CardinalityType DEF Assigned
  <2> HIDE DEF fs
  <2>2. rb \in [1..Cardinality(set) -> Nat]
    BY <2>1, <1>8
  <2> QED BY <2>2, <1>6, IsSeq
<1>10. fb \in Seq(Nat)
  <2>1. \A f : Cardinality({i \in (at + 1)..end : Ranges[i].file < f}) \in Nat
    <3> TAKE f
    <3>1. IsFiniteSet((at + 1)..end)
      BY <1>0, <1>1, FS_Interval
    <3>2. {i \in (at + 1)..end : Ranges[i].file < f} \in SUBSET ((at + 1)..end)
      OBVIOUS
    <3> QED BY <3>1, <3>2, FS_Subset, FS_CardinalityType
  <2> HIDE DEF fs
  <2>2. \A k \in DOMAIN fs : Cardinality({i \in (at + 1)..end : Ranges[i].file < fs[k]}) \in Nat
    BY <2>1
  <2>3. fb \in [1..Cardinality(set) -> Nat]
    BY <2>2, <1>8
  <2> QED BY <2>3, <1>6, IsSeq
<1> HIDE DEF fs, rb, fb
<1>11. q \in Request
  BY <1>1, <1>2, <1>3, <1>8, <1>9, <1>10 DEF Request
<1>12. /\ q.id = id /\ q.slot = slot /\ q.buf = buf /\ q.num = n
       /\ q.files = fs /\ q.rangeBase = rb /\ q.fileBase = fb
  BY <1>2, <1>3
<1>13. ASSUME NEW i \in (at + 1)..(at + n)
       PROVE  LET k == Place(set, Ranges[i].file)
              IN  /\ k \in Nat
                  /\ fs[k] = Ranges[i].file
                  /\ rb[k] = Assigned(Ranges[i].file, at)
                  /\ fb[k] = Cardinality({j \in (at + 1)..(at + n) : Ranges[j].file < Ranges[i].file})
  <2>1. Ranges[i].file \in set
    BY DEF set, FilesOf
  <2> DEFINE k == Place(set, Ranges[i].file)
  <2>2. k \in 1..Cardinality(set) /\ (CHOOSE f \in set : Place(set, f) = k) = Ranges[i].file
    BY <2>1, <1>4, <1>5, PlaceIsOwn
  <2> HIDE DEF k
  <2>3. k \in Nat
    BY <2>2, <1>6
  <2>4. fs[k] = Ranges[i].file
    BY <2>2 DEF fs
  <2>5. k \in DOMAIN fs
    BY <2>2, <1>8
  <2>6. rb[k] = Assigned(Ranges[i].file, at)
    BY <2>4, <2>5 DEF rb
  <2>7. fb[k] = Cardinality({j \in (at + 1)..(at + n) : Ranges[j].file < Ranges[i].file})
    BY <2>4, <2>5 DEF fb
  <2> QED BY <2>3, <2>4, <2>6, <2>7 DEF k
<1>14. n = NextSpan(at) /\ set = FilesOf(at, n)
  BY DEF n, set
<1>15. BasesFit(q, at)
  BY <1>12, <1>13, <1>14 DEF BasesFit
<1> QED BY <1>11, <1>12, <1>14, <1>15

(* The writes of a request that begins at `at`: each of its ranges once,   *)
(* to a cell of its own, and an answer to any is resolved to that range    *)
(* and that cell.                                                          *)
AsksFor(S, q, at, id, buf) ==
  /\ S \subseteq Write /\ IsFiniteSet(S) /\ Cardinality(S) = q.num
  /\ \A w \in S : /\ w.id = id /\ w.buf = buf /\ w.tag.stream = number
                  /\ w.tag.ord \in (at + 1)..(at + q.num)
                  /\ w.cell = w.tag.ord - 1 - at
                  /\ Answers(q, w)
  /\ \A i \in (at + 1)..(at + q.num) : \E w \in S : w.tag.ord = i
  /\ \A w, x \in S : w.tag.ord = x.tag.ord => w = x

(* That is what a request submits.                                         *)
LEMMA SubmittedIs ==
  ASSUME NEW at \in 0..(N - 1), NEW id \in Ids, NEW slot \in Slots, NEW buf \in Buffers,
         NEW q, q = NewRequest(id, at, slot, buf), number \in Nat,
         NEW S, S = Submitted(q, at)
  PROVE  AsksFor(S, q, at, id, buf)
<1> DEFINE n == q.num
           P(i) == Place(FilesOf(at, n), Ranges[i].file)
           R(i) == [id |-> q.id, file |-> P(i), index |-> Ranges[i].index - Assigned(Ranges[i].file, at),
                    buf |-> q.buf, cell |-> i - 1 - at, tag |-> [stream |-> number, ord |-> i]]
           I == (at + 1)..(at + n)
<1>0. N \in Nat /\ \A j \in 1..N : Ranges[j].file \in Nat /\ Ranges[j].index \in Nat
  BY RangeTypes
<1>1. n = NextSpan(at) /\ n \in 1..(N - at) /\ n \in Nat
  BY <1>0, RequestIs, SpanFits
<1>2. q.id = id /\ q.buf = buf
  BY RequestIs
<1>3. \A i \in I : /\ P(i) \in Nat /\ q.files[P(i)] = Ranges[i].file
                   /\ q.rangeBase[P(i)] = Assigned(Ranges[i].file, at)
                   /\ q.fileBase[P(i)] = Cardinality({j \in I : Ranges[j].file < Ranges[i].file})
  <2>1. BasesFit(q, at)
    BY RequestIs
  <2> QED BY <2>1, Zenon DEF BasesFit
<1>4. S = {R(i) : i \in I}
  BY DEF Submitted
<1>5. \A i \in I : i \in 1..N /\ i \in Int
  BY <1>0, <1>1
<1>6. \A f : Assigned(f, at) \in Nat
  <2> TAKE f
  <2>1. IsFiniteSet(1..at)
    BY <1>0, FS_Interval
  <2>2. {i \in 1..at : Ranges[i].file = f} \in SUBSET (1..at)
    OBVIOUS
  <2> QED BY <2>1, <2>2, FS_Subset, FS_CardinalityType DEF Assigned
<1> HIDE DEF n, P, I
<1>7. ASSUME NEW i \in I
      PROVE  /\ R(i) \in Write /\ R(i).id = id /\ R(i).buf = buf /\ R(i).tag.stream = number
             /\ R(i).tag.ord = i /\ R(i).cell = i - 1 - at
             /\ Answers(q, R(i))
  <2>0. i \in 1..N /\ i \in (at + 1)..(at + n) /\ i - 1 - at \in 0..(N - 1)
    BY <1>0, <1>1, <1>5 DEF I
  <2>1. Ranges[i].index = Assigned(Ranges[i].file, i - 1) /\ Ranges[i].index \in Nat
    BY RangesAssumption, <2>0, <1>0
  <2>2. R(i) \in Write
    <3>1. Ranges[i].index - Assigned(Ranges[i].file, at) \in Int
      BY <2>1, <1>6
    <3>2. [stream |-> number, ord |-> i] \in Tag
      BY <2>0, <1>0 DEF Tag
    <3> QED BY <3>1, <3>2, <1>2, <1>3, <2>0 DEF Write, Cells
  <2>3. /\ R(i).id = id /\ R(i).buf = buf /\ R(i).tag.stream = number /\ R(i).tag.ord = i
        /\ R(i).cell = i - 1 - at /\ R(i).file = P(i)
        /\ R(i).index = Ranges[i].index - Assigned(Ranges[i].file, at)
    BY <1>2
  <2> DEFINE w == R(i)
  <2> HIDE DEF R
  <2>4. Ordinal(Resolve(q, w)) = i
    <3>1. Resolve(q, w) = [file |-> q.files[P(i)], index |-> q.rangeBase[P(i)] + w.index]
      BY <2>3 DEF Resolve
    <3>2. q.files[P(i)] = Ranges[i].file /\ q.rangeBase[P(i)] + w.index = Ranges[i].index
      <4>1. q.files[P(i)] = Ranges[i].file /\ q.rangeBase[P(i)] = Assigned(Ranges[i].file, at)
        BY <1>3
      <4>2. Assigned(Ranges[i].file, at) \in Nat /\ Ranges[i].index \in Nat
        BY <1>6, <2>1
      <4>3. w.index = Ranges[i].index - Assigned(Ranges[i].file, at)
        BY <2>3
      <4> QED BY <4>1, <4>2, <4>3
    <3>3. Resolve(q, w) = [file |-> Ranges[i].file, index |-> Ranges[i].index]
      BY <3>1, <3>2
    <3> QED BY <3>3, <2>0, OrdinalIsPlace
  <2>5. CellOf(q, w) = i - 1 - at
    <3>1. CellOf(q, w) = Cardinality({j \in I : Ranges[j].file < Ranges[i].file}) + w.index
      BY <2>3, <1>3 DEF CellOf
    <3> DEFINE A == {j \in 1..at : Ranges[j].file = Ranges[i].file}
               B == {j \in (at + 1)..(i - 1) : Ranges[j].file = Ranges[i].file}
    <3>2. A \cup B = {j \in 1..(i - 1) : Ranges[j].file = Ranges[i].file} /\ A \cap B = {}
      BY <1>0, <2>0
    <3>3. IsFiniteSet(A \cup B)
      <4>1. IsFiniteSet(1..(i - 1))
        BY <2>0, <1>0, FS_Interval
      <4>2. {j \in 1..(i - 1) : Ranges[j].file = Ranges[i].file} \in SUBSET (1..(i - 1))
        OBVIOUS
      <4> QED BY <4>1, <4>2, <3>2, FS_Subset
    <3> HIDE DEF A, B
    <3>4. /\ Cardinality(A) \in Nat /\ Cardinality(B) \in Nat
          /\ Cardinality(A \cup B) = Cardinality(A) + Cardinality(B)
      BY <3>2, <3>3, TwoParts
    <3>5. Ranges[i].index = Cardinality(A) + Cardinality(B) /\ Assigned(Ranges[i].file, at) = Cardinality(A)
      BY <2>1, <3>2, <3>4 DEF Assigned, A
    <3>6. /\ Cardinality({j \in I : Ranges[j].file < Ranges[i].file}) + Cardinality(B) = i - (at + 1)
          /\ Cardinality({j \in I : Ranges[j].file < Ranges[i].file}) \in Nat
      <4>1. at + 1 \in 1..N /\ at + n \in 1..N
        BY <1>0, <1>1
      <4> QED BY <4>1, <2>0, Before DEF I, B
    <3> QED BY <3>1, <3>4, <3>5, <3>6, <2>0, <2>3
  <2> QED BY <2>2, <2>3, <2>4, <2>5, <1>2 DEF Answers
<1> HIDE DEF R
<1>8. /\ S \subseteq Write
      /\ \A w \in S : /\ w.id = id /\ w.buf = buf /\ w.tag.stream = number
                      /\ w.tag.ord \in I /\ w.cell = w.tag.ord - 1 - at /\ Answers(q, w)
  BY <1>4, <1>7
<1>9. \A i \in I : \E w \in S : w.tag.ord = i
  BY <1>4, <1>7
<1>10. \A w, x \in S : w.tag.ord = x.tag.ord => w = x
  BY <1>4, <1>7
<1>11. IsFiniteSet(S) /\ Cardinality(S) = n
  <2> DEFINE g == [i \in I |-> R(i)]
  <2>1. g \in [I -> S] /\ \A i, j \in I : g[i] = g[j] => i = j
    BY <1>4, <1>7
  <2>2. \A w \in S : \E i \in I : g[i] = w
    BY <1>4
  <2>3. IsFiniteSet(I) /\ Cardinality(I) = n
    <3>1. at + 1 \in Int /\ at + n \in Int /\ ~(at + 1 > at + n) /\ (at + n) - (at + 1) + 1 = n
      BY <1>0, <1>1
    <3> QED BY <3>1, FS_Interval DEF I
  <2> HIDE DEF g
  <2>4. g \in Injection(I, S) /\ g \in Surjection(I, S)
    <3>1. DOMAIN g = I
      BY <2>1
    <3> QED BY <2>1, <2>2, <3>1, Zenon DEF Injection, Surjection, IsInjective
  <2>5. ExistsBijection(I, S)
    BY <2>4, Zenon DEF ExistsBijection, Bijection
  <2> QED BY <2>3, <2>5, FS_Bijection
<1> QED BY <1>8, <1>9, <1>10, <1>11 DEF n, I, AsksFor

-----------------------------------------------------------------------------
(* Sequences, and what the slot pool and the yield order make of them.     *)

(* What is in a sequence is at one of its places.                          *)
LEMMA InRange ==
  ASSUME NEW S, NEW s \in Seq(S)
  PROVE  /\ \A x : x \in Range(s) <=> \E i \in 1..Len(s) : s[i] = x
         /\ \A i \in 1..Len(s) : s[i] \in Range(s)
         /\ \A x \in Range(s) : x \in S
         /\ DOMAIN s = 1..Len(s)
BY DEF Range

(* The same of one value.                                                  *)
LEMMA IsIn ==
  ASSUME NEW S, NEW s \in Seq(S), NEW x
  PROVE  x \in Range(s) <=> \E i \in 1..Len(s) : s[i] = x
BY DEF Range

(* The first of a sequence, and the rest of one without duplicates.        *)
LEMMA HeadTail ==
  ASSUME NEW S, NEW s \in Seq(S), s # <<>>
  PROVE  /\ Head(s) \in S /\ Head(s) = s[1] /\ Head(s) \in Range(s) /\ Len(s) > 0
         /\ Tail(s) \in Seq(S) /\ Len(Tail(s)) = Len(s) - 1
         /\ \A i \in 1..Len(Tail(s)) : Tail(s)[i] = s[i + 1]
         /\ \A x : x \in Range(s) <=> x = Head(s) \/ x \in Range(Tail(s))
         /\ Once(s) => Once(Tail(s)) /\ Head(s) \notin Range(Tail(s))
<1>1. /\ Head(s) \in S /\ Head(s) = s[1] /\ Len(s) > 0
      /\ Tail(s) \in Seq(S) /\ Len(Tail(s)) = Len(s) - 1
      /\ \A i \in 1..Len(Tail(s)) : Tail(s)[i] = s[i + 1]
  OBVIOUS
<1>2. Head(s) \in Range(s)
  BY <1>1, InRange
<1>3. ASSUME NEW x PROVE x \in Range(s) <=> x = Head(s) \/ x \in Range(Tail(s))
  <2>1. ASSUME x \in Range(s), x # Head(s) PROVE x \in Range(Tail(s))
    <3>1. PICK i \in 1..Len(s) : s[i] = x
      BY <2>1, InRange
    <3>2. i - 1 \in 1..Len(Tail(s)) /\ Tail(s)[i - 1] = x
      BY <1>1, <2>1, <3>1
    <3> QED BY <3>2, <1>1, InRange
  <2>2. ASSUME x \in Range(Tail(s)) PROVE x \in Range(s)
    <3>1. PICK i \in 1..Len(Tail(s)) : Tail(s)[i] = x
      <4>1. PICK u : u = Tail(s)
        OBVIOUS
      <4>2. u \in Seq(S) /\ x \in Range(u)
        BY <1>1, <2>2, <4>1
      <4>3. \E i \in 1..Len(u) : u[i] = x
        BY <4>2, IsIn
      <4> QED BY <4>1, <4>3
    <3>2. i + 1 \in 1..Len(s) /\ s[i + 1] = x
      BY <1>1, <3>1
    <3> QED BY <3>2, InRange
  <2> QED BY <2>1, <2>2, <1>2
<1>4. ASSUME Once(s) PROVE Once(Tail(s)) /\ Head(s) \notin Range(Tail(s))
  <2>1. DOMAIN s = 1..Len(s) /\ DOMAIN Tail(s) = 1..Len(Tail(s))
    BY <1>1
  <2>2. ASSUME NEW i \in 1..Len(Tail(s)), NEW j \in 1..Len(Tail(s)), Tail(s)[i] = Tail(s)[j]
        PROVE  i = j
    <3>1. i + 1 \in 1..Len(s) /\ j + 1 \in 1..Len(s) /\ s[i + 1] = s[j + 1]
      BY <1>1, <2>2
    <3>2. i + 1 = j + 1
      BY <3>1, <2>1, <1>4 DEF Once
    <3> QED BY <3>2
  <2>3. ASSUME NEW i \in 1..Len(Tail(s)), Tail(s)[i] = Head(s) PROVE FALSE
    <3>1. i + 1 \in 1..Len(s) /\ 1 \in 1..Len(s) /\ s[i + 1] = s[1]
      BY <1>1, <2>3
    <3>2. i + 1 = 1
      BY <3>1, <2>1, <1>4 DEF Once
    <3> QED BY <3>2
  <2> QED BY <1>1, <2>1, <2>2, <2>3, InRange DEF Once
<1> QED BY <1>1, <1>2, <1>3, <1>4

(* An element at the end of a sequence.                                    *)
LEMMA Appended ==
  ASSUME NEW S, NEW s \in Seq(S), NEW e \in S
  PROVE  /\ Append(s, e) \in Seq(S) /\ Len(Append(s, e)) = Len(s) + 1
         /\ \A i \in 1..Len(s) : Append(s, e)[i] = s[i]
         /\ Append(s, e)[Len(s) + 1] = e
         /\ \A x : x \in Range(Append(s, e)) <=> x \in Range(s) \/ x = e
         /\ Once(s) /\ e \notin Range(s) => Once(Append(s, e))
<1> DEFINE t == Append(s, e)
<1>1. /\ t \in Seq(S) /\ Len(t) = Len(s) + 1 /\ Len(s) \in Nat
      /\ \A i \in 1..Len(s) : t[i] = s[i]
      /\ t[Len(s) + 1] = e
  OBVIOUS
<1> HIDE DEF t
<1>2. \A i \in 1..Len(t) : i \in 1..Len(s) \/ i = Len(s) + 1
  BY <1>1
<1>3. \A i \in 1..Len(s) : i \in 1..Len(t)
  BY <1>1
<1>4. Len(s) + 1 \in 1..Len(t)
  BY <1>1
<1>5. \A x : x \in Range(t) <=> x \in Range(s) \/ x = e
  <2> TAKE x
  <2>1. x \in Range(t) <=> \E i \in 1..Len(t) : t[i] = x
    BY <1>1, IsIn
  <2>2. x \in Range(s) <=> \E i \in 1..Len(s) : s[i] = x
    BY IsIn
  <2> QED BY <1>1, <1>2, <1>3, <1>4, <2>1, <2>2
<1>6. ASSUME Once(s), e \notin Range(s) PROVE Once(t)
  <2>1. DOMAIN s = 1..Len(s) /\ DOMAIN t = 1..Len(t)
    BY <1>1
  <2>2. \A i \in 1..Len(s) : s[i] # e
    BY <1>6, InRange
  <2> QED BY <1>1, <1>2, <1>6, <2>1, <2>2 DEF Once
<1> QED BY <1>1, <1>5, <1>6 DEF t

(* _sweep_pending(): slots move from the pending to the free only once     *)
(* their events have completed.                                            *)
LEMMA SweptIs ==
  ASSUME ring \in Ring, NEW r, r = Swept(ring)
  PROVE  /\ r \in Ring /\ r.kind = ring.kind /\ r.home = ring.home /\ r.at = ring.at
         /\ r.slots = ring.slots
         /\ Range(r.free) \subseteq Range(ring.free) \cup Range(ring.pending)
         /\ Range(r.pending) \subseteq Range(ring.pending)
         /\ \A k \in Range(r.free) : k \in Range(ring.free) \/ EventDone(k)
         /\ QueuesApart => Once(r.free) /\ Once(r.pending) /\ Range(r.free) \cap Range(r.pending) = {}
<1> DEFINE f == ring.free
           p == ring.pending
           T == {k \in 0..Len(p) : \A i \in 1..k : EventDone(p[i])}
<1>1. f \in Seq(Slots) /\ p \in Seq(Slots) /\ Len(p) \in Nat /\ Len(f) \in Nat
  BY DEF Ring
<1>2. 0 \in T /\ T \in SUBSET (0..Len(p))
  BY <1>1
<1>3. Max(T) \in T
  <2> HIDE DEF T
  <2> QED BY <1>1, <1>2, MaxIs
<1>4. PICK n : n = Max(T)
  OBVIOUS
<1>5. n \in 0..Len(p) /\ \A i \in 1..n : EventDone(p[i])
  BY <1>3, <1>4
<1> DEFINE g == f \o SubSeq(p, 1, n)
           h == SubSeq(p, n + 1, Len(p))
<1>6. r = [ring EXCEPT !.free = g, !.pending = h]
  BY <1>4 DEF Swept
<1>7. /\ SubSeq(p, 1, n) \in Seq(Slots) /\ Len(SubSeq(p, 1, n)) = n
      /\ \A i \in 1..n : SubSeq(p, 1, n)[i] = p[i]
  BY <1>1, <1>5
<1>8. /\ g \in Seq(Slots) /\ Len(g) = Len(f) + n
      /\ \A i \in 1..Len(f) : g[i] = f[i]
      /\ \A i \in (Len(f) + 1)..(Len(f) + n) : g[i] = p[i - Len(f)]
  <2>1. PICK a : a = SubSeq(p, 1, n)
    OBVIOUS
  <2>2. a \in Seq(Slots) /\ Len(a) = n /\ \A i \in 1..n : a[i] = p[i]
    BY <1>7, <2>1
  <2>3. g = f \o a
    BY <2>1
  <2> HIDE DEF f, g, p
  <2>4. /\ f \o a \in Seq(Slots) /\ Len(f \o a) = Len(f) + Len(a)
        /\ \A i \in 1..Len(f) : (f \o a)[i] = f[i]
    BY <1>1, <2>2
  <2>5. ASSUME NEW i \in (Len(f) + 1)..(Len(f) + n) PROVE g[i] = p[i - Len(f)]
    <3>1. i \in 1..(Len(f) + Len(a)) /\ i > Len(f) /\ i - Len(f) \in 1..n
      BY <2>2, <1>1, <1>5
    <3>2. (f \o a)[i] = a[i - Len(f)]
      BY <3>1, <1>1, <2>2
    <3> QED BY <3>1, <3>2, <2>2, <2>3
  <2> QED BY <2>2, <2>3, <2>4, <2>5
<1>9. /\ h \in Seq(Slots) /\ Len(h) = Len(p) - n
      /\ \A i \in 1..(Len(p) - n) : h[i] = p[i + n]
  BY <1>1, <1>5
<1> HIDE DEF g, h
<1>10. /\ r \in Ring /\ r.kind = ring.kind /\ r.home = ring.home /\ r.at = ring.at
       /\ r.slots = ring.slots /\ r.free = g /\ r.pending = h
  BY <1>6, <1>8, <1>9 DEF Ring
<1>11. \A i \in 1..Len(g) : \/ i \in 1..Len(f) /\ g[i] = f[i]
                            \/ i - Len(f) \in 1..n /\ g[i] = p[i - Len(f)]
  BY <1>8, <1>1, <1>5
<1>12. \A i \in 1..n : i \in 1..Len(p)
  BY <1>5, <1>1
<1>13. \A k \in Range(g) : k \in Range(f) \/ (k \in Range(p) /\ EventDone(k))
  <2> TAKE k \in Range(g)
  <2>1. PICK i \in 1..Len(g) : g[i] = k
    BY <1>8, InRange
  <2>2. CASE i \in 1..Len(f) /\ g[i] = f[i]
    BY <2>1, <2>2, <1>1, InRange
  <2>3. CASE i - Len(f) \in 1..n /\ g[i] = p[i - Len(f)]
    <3>1. i - Len(f) \in 1..Len(p) /\ EventDone(p[i - Len(f)])
      BY <2>3, <1>5, <1>12
    <3> QED BY <3>1, <2>1, <2>3, <1>1, InRange
  <2> QED BY <1>11, <2>2, <2>3
<1>14. \A i \in 1..Len(h) : i + n \in 1..Len(p) /\ h[i] = p[i + n]
  BY <1>9, <1>1, <1>5
<1>15. Range(h) \subseteq Range(p)
  <2> SUFFICES ASSUME NEW k \in Range(h) PROVE k \in Range(p)
    OBVIOUS
  <2>1. PICK i \in 1..Len(h) : h[i] = k
    BY <1>9, InRange
  <2> QED BY <2>1, <1>14, <1>1, InRange
<1>16. ASSUME QueuesApart
       PROVE  Once(g) /\ Once(h) /\ Range(g) \cap Range(h) = {}
  <2>1. /\ \A i, j \in 1..Len(f) : f[i] = f[j] => i = j
        /\ \A i, j \in 1..Len(p) : p[i] = p[j] => i = j
        /\ \A i \in 1..Len(f), j \in 1..Len(p) : f[i] # p[j]
    <3>1. DOMAIN f = 1..Len(f) /\ DOMAIN p = 1..Len(p)
      BY <1>1
    <3>2. \A i \in 1..Len(f), j \in 1..Len(p) : f[i] # p[j]
      BY <1>16, <1>1, InRange DEF QueuesApart
    <3> QED BY <3>1, <3>2, <1>16 DEF QueuesApart, Once
  <2>2. DOMAIN g = 1..Len(g) /\ DOMAIN h = 1..Len(h)
    BY <1>8, <1>9
  <2>3. Once(g)
    <3> SUFFICES ASSUME NEW i \in 1..Len(g), NEW j \in 1..Len(g), g[i] = g[j] PROVE i = j
      BY <2>2 DEF Once
    <3>1. CASE i \in 1..Len(f) /\ g[i] = f[i] /\ j \in 1..Len(f) /\ g[j] = f[j]
      BY <3>1, <2>1
    <3>2. CASE i - Len(f) \in 1..n /\ g[i] = p[i - Len(f)] /\ j - Len(f) \in 1..n /\ g[j] = p[j - Len(f)]
      <4>1. i - Len(f) = j - Len(f)
        BY <3>2, <2>1, <1>12
      <4> QED BY <4>1, <1>1
    <3>3. CASE i \in 1..Len(f) /\ g[i] = f[i] /\ j - Len(f) \in 1..n /\ g[j] = p[j - Len(f)]
      BY <3>3, <2>1, <1>12
    <3>4. CASE j \in 1..Len(f) /\ g[j] = f[j] /\ i - Len(f) \in 1..n /\ g[i] = p[i - Len(f)]
      BY <3>4, <2>1, <1>12
    <3> QED BY <1>11, <3>1, <3>2, <3>3, <3>4
  <2>4. Once(h)
    <3> SUFFICES ASSUME NEW i \in 1..Len(h), NEW j \in 1..Len(h), h[i] = h[j] PROVE i = j
      BY <2>2 DEF Once
    <3>1. i + n = j + n
      BY <1>14, <2>1
    <3> QED BY <3>1, <1>5
  <2>5. Range(g) \cap Range(h) = {}
    <3> SUFFICES ASSUME NEW k, k \in Range(g), k \in Range(h) PROVE FALSE
      OBVIOUS
    <3>1. PICK j \in 1..Len(h) : h[j] = k
      BY <1>9, InRange
    <3>2. PICK i \in 1..Len(g) : g[i] = k
      BY <1>8, InRange
    <3>3. j + n \in 1..Len(p) /\ p[j + n] = k
      BY <3>1, <1>14
    <3>4. CASE i \in 1..Len(f) /\ g[i] = f[i]
      BY <3>2, <3>3, <3>4, <2>1
    <3>5. CASE i - Len(f) \in 1..n /\ g[i] = p[i - Len(f)]
      <4>1. i - Len(f) = j + n
        BY <3>2, <3>3, <3>5, <2>1, <1>12
      <4> QED BY <4>1, <3>5, <1>5
    <3> QED BY <1>11, <3>4, <3>5
  <2> QED BY <2>3, <2>4, <2>5
<1> QED BY <1>10, <1>13, <1>15, <1>16

(* take(): a slot leaves the queues, with its memory or with fresh memory. *)
LEMMA TakeIs ==
  ASSUME ring \in Ring, QueuesApart,
         NEW s, s = Swept(ring), s.free # <<>>, RoomFor(s),
         NEW r, r = Taken(s), NEW slot, slot = Head(s.free), NEW buf, buf = r.slots[slot]
  PROVE  /\ r \in Ring /\ r.kind = ring.kind /\ r.home = ring.home /\ r.at = ring.at
         /\ slot \in Slots /\ buf \in Buffers
         /\ r.slots = [ring.slots EXCEPT ![slot] = buf]
         /\ slot \in Range(ring.free) \/ (slot \in Range(ring.pending) /\ EventDone(slot))
         /\ slot \notin Range(r.free) /\ slot \notin Range(r.pending)
         /\ Range(r.free) \subseteq Range(ring.free) \cup Range(ring.pending)
         /\ Range(r.pending) \subseteq Range(ring.pending)
         /\ \A k \in Range(r.free) : k \in Range(ring.free) \/ EventDone(k)
         /\ Once(r.free) /\ Once(r.pending) /\ Range(r.free) \cap Range(r.pending) = {}
         /\ \/ buf = ring.slots[slot]
            \/ (\A i \in Slots : ring.slots[i] # buf) /\ (\A v \in Views : v.buf # buf)
<1>1. /\ s \in Ring /\ s.kind = ring.kind /\ s.home = ring.home /\ s.at = ring.at
      /\ s.slots = ring.slots
      /\ Range(s.free) \subseteq Range(ring.free) \cup Range(ring.pending)
      /\ Range(s.pending) \subseteq Range(ring.pending)
      /\ \A k \in Range(s.free) : k \in Range(ring.free) \/ EventDone(k)
      /\ Once(s.free) /\ Once(s.pending) /\ Range(s.free) \cap Range(s.pending) = {}
  BY SweptIs
<1>2. s.free \in Seq(Slots) /\ s.slots \in [Slots -> Buffers \cup {0}]
  BY <1>1 DEF Ring
<1>3. /\ slot \in Slots /\ slot \in Range(s.free)
      /\ Tail(s.free) \in Seq(Slots)
      /\ \A x : x \in Range(s.free) <=> x = slot \/ x \in Range(Tail(s.free))
      /\ Once(Tail(s.free)) /\ slot \notin Range(Tail(s.free))
  BY <1>1, <1>2, HeadTail
<1>4. PICK b : b = IF s.slots[slot] = 0 THEN FreshBuffer ELSE s.slots[slot]
  OBVIOUS
<1>5. r = [s EXCEPT !.free = Tail(s.free), !.slots[slot] = b]
  BY <1>4 DEF Taken
<1>6. /\ b \in Buffers
      /\ \/ b = ring.slots[slot]
         \/ (\A i \in Slots : ring.slots[i] # b) /\ (\A v \in Views : v.buf # b)
  <2>1. CASE s.slots[slot] = 0
    <3>1. \E x \in Buffers : ~Referenced(x)
      BY <2>1 DEF RoomFor
    <3>2. b = FreshBuffer
      BY <2>1, <1>4
    <3>3. b \in Buffers /\ ~Referenced(b)
      BY <3>1, <3>2, Zenon DEF FreshBuffer
    <3>4. DOMAIN ring.slots = Slots
      BY DEF Ring
    <3> QED BY <3>3, <3>4 DEF Referenced
  <2>2. CASE s.slots[slot] # 0
    BY <2>2, <1>1, <1>2, <1>3, <1>4
  <2> QED BY <2>1, <2>2
<1>7. /\ r.kind = s.kind /\ r.home = s.home /\ r.at = s.at /\ r.pending = s.pending
      /\ r.free = Tail(s.free) /\ r.slots = [s.slots EXCEPT ![slot] = b]
  BY <1>5, <1>1 DEF Ring
<1>8. r \in Ring
  <2>1. [s.slots EXCEPT ![slot] = b] \in [Slots -> Buffers \cup {0}]
    BY <1>2, <1>6
  <2> QED BY <1>1, <1>3, <1>5, <2>1 DEF Ring
<1>9. buf = b
  BY <1>7, <1>2, <1>3
<1>10. slot \notin Range(s.pending)
  BY <1>1, <1>3
<1>11. Range(Tail(s.free)) \subseteq Range(s.free)
  BY <1>3
<1>12. slot \in Range(ring.free) \/ (slot \in Range(ring.pending) /\ EventDone(slot))
  BY <1>1, <1>3
<1> QED BY <1>1, <1>3, <1>6, <1>7, <1>8, <1>9, <1>10, <1>11, <1>12

(* release(): a slot joins one of the queues, and an owned ring lets its   *)
(* memory go.                                                              *)
LEMMA ReleaseIs ==
  ASSUME ring \in Ring, NEW slot \in Slots, NEW device \in BOOLEAN,
         NEW r, r = ReleaseSlot(ring, slot, device)
  PROVE  /\ r \in Ring /\ r.kind = ring.kind /\ r.home = ring.home /\ r.at = ring.at
         /\ r.slots = [ring.slots EXCEPT ![slot] = IF ring.kind = "owned" THEN 0 ELSE ring.slots[slot]]
         /\ \A k : k \in Range(r.free) <=> k \in Range(ring.free) \/ (~device /\ k = slot)
         /\ \A k : k \in Range(r.pending) <=> k \in Range(ring.pending) \/ (device /\ k = slot)
         /\ QueuesApart /\ slot \notin Range(ring.free) /\ slot \notin Range(ring.pending)
              => Once(r.free) /\ Once(r.pending) /\ Range(r.free) \cap Range(r.pending) = {}
<1>1. ring.free \in Seq(Slots) /\ ring.pending \in Seq(Slots)
      /\ ring.slots \in [Slots -> Buffers \cup {0}]
  BY DEF Ring
<1>2. PICK f : f = IF device THEN ring.free ELSE Append(ring.free, slot)
  OBVIOUS
<1>3. PICK p : p = IF device THEN Append(ring.pending, slot) ELSE ring.pending
  OBVIOUS
<1>4. PICK b : b = IF ring.kind = "owned" THEN 0 ELSE ring.slots[slot]
  OBVIOUS
<1>5. r = [ring EXCEPT !.slots[slot] = b, !.free = f, !.pending = p]
  BY <1>2, <1>3, <1>4 DEF ReleaseSlot
<1>6. /\ f \in Seq(Slots) /\ \A k : k \in Range(f) <=> k \in Range(ring.free) \/ (~device /\ k = slot)
      /\ Once(ring.free) /\ slot \notin Range(ring.free) => Once(f)
  <2>1. CASE device
    BY <1>1, <1>2, <2>1
  <2>2. CASE ~device
    <3>1. f = Append(ring.free, slot)
      BY <1>2, <2>2
    <3> QED BY <1>1, <2>2, <3>1, Appended
  <2> QED BY <2>1, <2>2
<1>7. /\ p \in Seq(Slots) /\ \A k : k \in Range(p) <=> k \in Range(ring.pending) \/ (device /\ k = slot)
      /\ Once(ring.pending) /\ slot \notin Range(ring.pending) => Once(p)
  <2>1. CASE ~device
    BY <1>1, <1>3, <2>1
  <2>2. CASE device
    <3>1. p = Append(ring.pending, slot)
      BY <1>3, <2>2
    <3> QED BY <1>1, <2>2, <3>1, Appended
  <2> QED BY <2>1, <2>2
<1>8. [ring.slots EXCEPT ![slot] = b] \in [Slots -> Buffers \cup {0}]
  BY <1>1, <1>4
<1>9. r \in Ring
  BY <1>5, <1>6, <1>7, <1>8 DEF Ring
<1>10. /\ r.kind = ring.kind /\ r.home = ring.home /\ r.at = ring.at
       /\ r.free = f /\ r.pending = p /\ r.slots = [ring.slots EXCEPT ![slot] = b]
  BY <1>5 DEF Ring
<1>11. ASSUME QueuesApart, slot \notin Range(ring.free), slot \notin Range(ring.pending)
       PROVE  Once(f) /\ Once(p) /\ Range(f) \cap Range(p) = {}
  BY <1>6, <1>7, <1>11 DEF QueuesApart
<1> QED BY <1>4, <1>6, <1>7, <1>9, <1>10, <1>11

(* arrived(): the run takes parked payloads in order from the next, and    *)
(* stops at the first that is missing.                                     *)
LEMMA RunIs ==
  ASSUME NEW o \in Order, \A p \in o.parked : p.tag.ord \in 1..N, NEW s, s = Run(o)
  PROVE  /\ s \in Seq(View)
         /\ \A i \in 1..Len(s) : s[i] \in o.parked /\ s[i].tag.ord = o.next + i - 1
         /\ \A p \in o.parked : p.tag.ord # o.next + Len(s)
<1> DEFINE T == {k \in 0..N : \A i \in o.next..(o.next + k - 1) : \E p \in o.parked : p.tag.ord = i}
<1>0. N \in Nat /\ o.next \in Nat /\ o.next > 0 /\ o.parked \subseteq View
  BY RangeTypes DEF Order, Ids
<1>1. 0 \in T /\ T \in SUBSET (0..N)
  BY <1>0
<1>2. Max(T) \in T /\ \A y \in T : y <= Max(T)
  <2> HIDE DEF T
  <2> QED BY <1>0, <1>1, MaxIs
<1>3. PICK n : n = Max(T)
  OBVIOUS
<1>4. n \in 0..N /\ \A i \in o.next..(o.next + n - 1) : \E p \in o.parked : p.tag.ord = i
  BY <1>2, <1>3
<1>5. s = [i \in 1..n |-> CHOOSE p \in o.parked : p.tag.ord = o.next + i - 1]
  BY <1>3 DEF Run
<1>6. ASSUME NEW i \in 1..n
      PROVE  s[i] \in o.parked /\ s[i].tag.ord = o.next + i - 1
  <2>1. o.next + i - 1 \in o.next..(o.next + n - 1)
    BY <1>0, <1>4
  <2>2. \E p \in o.parked : p.tag.ord = o.next + i - 1
    BY <2>1, <1>4
  <2>3. s[i] = CHOOSE p \in o.parked : p.tag.ord = o.next + i - 1
    BY <1>5
  <2> QED BY <2>2, <2>3
<1>7. s \in Seq(View) /\ Len(s) = n
  <2>1. \A i \in 1..n : s[i] \in View
    BY <1>6, <1>0
  <2>2. s \in [1..n -> View]
    BY <2>1, <1>5
  <2>3. n \in Nat
    BY <1>4, <1>0
  <2> QED BY <2>2, <2>3, IsSeq
<1>8. ASSUME NEW p \in o.parked, p.tag.ord = o.next + n PROVE FALSE
  <2>1. n + 1 \in 0..N
    BY <1>0, <1>4, <1>8
  <2>2. \A i \in o.next..(o.next + (n + 1) - 1) : i \in o.next..(o.next + n - 1) \/ i = o.next + n
    BY <1>0, <1>4
  <2>3. n + 1 \in T
    BY <2>1, <2>2, <1>4, <1>8
  <2> QED BY <2>3, <1>2, <1>3, <1>4
<1> QED BY <1>6, <1>7, <1>8

(* Moving the generator changes nothing else of it.                        *)
LEMMA GoesIs ==
  ASSUME gen \in Generators, NEW a \in Places, Goes(a)
  PROVE  gen' \in Generators /\ gen'.at = a /\ gen'.ready = gen.ready /\ gen'.device = gen.device
BY DEF Goes, Generators

-----------------------------------------------------------------------------
(* What steps that leave a part of the state alone leave alone.            *)

(* The tensors about are the ones held, parked and ready.                  *)
LEMMA ViewsFrame ==
  ASSUME held' \subseteq held, order'.parked \subseteq order.parked,
         Range(gen'.ready) \subseteq Range(gen.ready)
  PROVE  Views' \subseteq Views /\ Unhanded' \subseteq Unhanded
BY DEF Views, Unhanded

(* Fewer writes and tensors are apart as long as the slots stay.           *)
LEMMA ApartFrame ==
  ASSUME Apart, Views' \subseteq Views, Writes' \subseteq Writes,
         ring'.slots = ring.slots \/ Writes' = {}
  PROVE  Apart'
BY DEF Apart, SamePlace

(* Tensors are intact while nothing is written, or nothing is promised.    *)
LEMMA IntactFrame ==
  ASSUME Intact, Views' \subseteq Views, mem' = mem \/ unsettled, unsettled => unsettled'
  PROVE  Intact'
BY DEF Intact

(* What is not handed over keeps its kind.                                 *)
LEMMA KeptKindFrame ==
  ASSUME KeptKind, Unhanded' \subseteq Unhanded, mode' = mode
  PROVE  KeptKind'
BY DEF KeptKind

(* What is lent stays lent while the generator is not resumed.             *)
LEMMA LentFrame ==
  ASSUME Lent, held' = held, mode' = mode, gen'.ready = gen.ready,
         At("paused") \/ At("drain") => (At("paused") \/ At("drain"))'
  PROVE  Lent'
BY DEF Lent, At

(* The order stays right while nothing more is handed over or made ready.  *)
LEMMA InOrderFrame ==
  ASSUME InOrder, order'.on = order.on, order'.parked \subseteq order.parked,
         gen'.ready = gen.ready, yielded' = yielded, number' = number,
         ~At("fill")', At("paused")' <=> At("paused"), At("drain") => At("drain")'
  PROVE  InOrder'
<1>1. Given' = Given
  BY DEF Given
<1>2. Unhanded' \subseteq Unhanded
  BY DEF Unhanded
<1>3. order.on => /\ \A i \in DOMAIN yielded : yielded[i] = i
                  /\ ~At("drain") => \A k \in DOMAIN gen.ready : gen.ready[k].tag.ord = Given + k
  BY DEF InOrder
<1>4. ~order.on => /\ IsInjective(yielded)
                   /\ ~At("drain") => Len(gen.ready) <= 1
                   /\ order.parked = {}
  BY DEF InOrder
<1>5. At("paused") => Len(yielded) > 0 /\ yielded[Len(yielded)] = Head(gen.ready).tag.ord
  BY DEF InOrder
<1>6. \A p \in Unhanded : p.tag.ord \in 1..N /\ p.tag.stream = number
  BY DEF InOrder
<1>7. (At("paused") => Len(yielded) > 0 /\ yielded[Len(yielded)] = Head(gen.ready).tag.ord)'
  BY <1>5
<1>8. (\A p \in Unhanded : p.tag.ord \in 1..N /\ p.tag.stream = number)'
  BY <1>2, <1>6
<1>9. (order.on => /\ \A i \in DOMAIN yielded : yielded[i] = i
                   /\ ~At("drain") => \A k \in DOMAIN gen.ready : gen.ready[k].tag.ord = Given + k)'
  BY <1>1, <1>3
<1>10. (~order.on => /\ IsInjective(yielded)
                     /\ ~At("drain") => Len(gen.ready) <= 1
                     /\ order.parked = {})'
  BY <1>4 DEF IsInjective
<1> QED BY <1>7, <1>8, <1>9, <1>10 DEF InOrder

(* A clean end stays one while nothing is handed over.                     *)
LEMMA EndedFrame ==
  ASSUME Ended, yielded' = yielded, how' = how \/ how' # "clean"
  PROVE  Ended'
BY DEF Ended, Range

(* A running stream whose ring and ranges are left alone goes on running.  *)
LEMMA RunningFrame ==
  ASSUME Running, Streaming, UNCHANGED <<ring, live, left, owed, number, order, yielded>>,
         held' \subseteq held, stray' = stray \/ unsettled, unsettled' = unsettled,
         gen'.ready = gen.ready, At("paused")' <=> At("paused"),
         Supplied'
  PROVE  Running'
<1>1. Views' \subseteq Views /\ Unhanded' = Unhanded /\ Due' = Due /\ Writes' = Writes
  BY DEF Views, Unhanded, Due, Writes, Strays
<1>2. \A id : DueOf(id)' = DueOf(id)
  BY <1>1 DEF DueOf
<1>3. Given' = Given
  BY DEF Given
<1>4. LiveSlots' /\ SlotsApart' /\ QueuesApart'
  BY DEF Running, LiveSlots, SlotsApart, QueuesApart, Once, Range
<1>5. Spare'
  BY <1>1 DEF Running, Spare, Range
<1>6. OwedLive' /\ KeptLive'
  BY <1>1 DEF Running, OwedLive, KeptLive
<1>7. DueOnce' /\ DueRange' /\ Covered' /\ NotAgain' /\ YieldedRange'
  <2>1. DueOnce' /\ DueRange'
    BY <1>1 DEF Running, DueOnce, DueRange
  <2>2. Range(yielded)' = Range(yielded)
    BY DEF Range
  <2> QED BY <1>1, <2>1, <2>2 DEF Running, Covered, NotAgain, YieldedRange
<1>8. Counted'
  BY <1>2 DEF Running, Counted
<1>9. NextIsDue'
  BY <1>3 DEF Running, NextIsDue
<1> QED BY <1>4, <1>5, <1>6, <1>7, <1>8, <1>9 DEF Running

(* Clones that nothing is done to stay as they are.                        *)
LEMMA ClonesFrame ==
  ASSUME Clones, ~astray' => ~astray, unsettled' = unsettled, ring' = ring,
         mem' = mem \/ unsettled, copies' = copies,
         cloneStream' = cloneStream, Writes' \subseteq Writes,
         cloneEvent' = cloneEvent \/ cloneEvent' = 0,
         live # {} => live' # {} \/ cloneEvent' = 0,
         Streaming' => Streaming /\ gen'.device = gen.device,
         ~astray => OnStream'
  PROVE  Clones'
<1> SUFFICES ASSUME ~astray' PROVE ClonesHome' /\ OnStream'
  BY DEF Clones
<1>1. ClonesHome /\ OnStream'
  BY DEF Clones
<1>2. \A s, i, k : EventAfter(s, i, k)' <=> EventAfter(s, i, k)
  BY DEF EventAfter, Event
<1>3. ASSUME NEW s \in Streams, NEW i \in DOMAIN copies[s], copies[s][i].op = "clone",
             NEW c, c = copies[s][i].of
      PROVE  /\ s = cloneStream' /\ ring' # NoRing /\ c.buf = ring'.slots[c.slot]
             /\ ~unsettled' => mem'[c.buf][c.cell] = c.tag
             /\ \A w \in Writes' : ~SamePlace(w, c)
             /\ cloneEvent' # 0 => EventAfter(s, i, cloneEvent)' \/ live' # {}
             /\ Streaming' => /\ gen'.device /\ c.slot \notin Range(ring'.free)
                              /\ c.slot \in Range(ring'.pending) => EventAfter(s, i, c.slot)'
  <2>1. /\ s = cloneStream /\ ring # NoRing /\ c.buf = ring.slots[c.slot]
        /\ ~unsettled => mem[c.buf][c.cell] = c.tag
        /\ \A w \in Writes : ~SamePlace(w, c)
        /\ cloneEvent # 0 => EventAfter(s, i, cloneEvent) \/ live # {}
        /\ Streaming => /\ gen.device /\ c.slot \notin Range(ring.free)
                        /\ c.slot \in Range(ring.pending) => EventAfter(s, i, c.slot)
    BY <1>1, <1>3 DEF ClonesHome
  <2>2. cloneEvent' # 0 => EventAfter(s, i, cloneEvent)' \/ live' # {}
    <3> SUFFICES ASSUME cloneEvent' # 0, ~(live' # {}) PROVE EventAfter(s, i, cloneEvent)'
      OBVIOUS
    <3>1. cloneEvent' = cloneEvent /\ ~(live # {}) /\ EventAfter(s, i, cloneEvent)
      BY <2>1
    <3> QED BY <3>1 DEF EventAfter, Event
  <2>3. Range(ring'.free) = Range(ring.free) /\ Range(ring'.pending) = Range(ring.pending)
    OBVIOUS
  <2> QED BY <1>2, <2>1, <2>2, <2>3
<1>4. ClonesHome'
  BY <1>3 DEF ClonesHome, SamePlace
<1> QED BY <1>1, <1>4

-----------------------------------------------------------------------------
(* The invariant's parts, by name.                                         *)
LEMMA InvIs ==
  ASSUME Inv
  PROVE  /\ TypeOK /\ PythonType /\ WorldType /\ Standing /\ Resting /\ Apart /\ Intact /\ Lent /\ KeptKind
         /\ InOrder /\ Ended /\ (Streaming => Running) /\ Clones
BY DEF Inv, Always, TypeOK

(* The invariant, put together again from its parts.                       *)
LEMMA InvFrom ==
  ASSUME TypeOK', Standing', Resting', Apart', Intact', Lent', KeptKind', InOrder', Ended',
         Streaming' => Running', Clones'
  PROVE  Inv'
BY DEF Inv, Always

(* The stuttering step of a streamer that is over.                         *)
LEMMA StutterStep ==
  ASSUME Inv, UNCHANGED vars
  PROVE  Inv'
<1>0. UNCHANGED <<mode, unsettled, handle, sessions, number, ring, live, left, reported, outstanding, order, gen,
                  cloneEvent, cloneStream, owed, stray, mem, copies, held, current, astray, yielded, how>>
  BY DEF vars, python, library, consumer
<1>1. /\ TypeOK /\ Standing /\ Resting /\ Apart /\ Intact /\ Lent /\ KeptKind
      /\ InOrder /\ Ended /\ (Streaming => Running) /\ Clones
  BY InvIs
<1>2. Streaming' <=> Streaming
  BY <1>0 DEF Streaming, At
<1>3. \A a : At(a)' <=> At(a)
  BY <1>0 DEF At
<1>4. TypeOK'
  BY <1>0, <1>1 DEF TypeOK, PythonType, WorldType
<1>5. Standing'
  BY <1>0, <1>1, <1>3 DEF Standing
<1>6. Resting'
  BY <1>0, <1>1, <1>2, <1>3 DEF Resting, Strays
<1>7. Views' = Views /\ Unhanded' = Unhanded /\ Writes' = Writes /\ Due' = Due
  BY <1>0 DEF Views, Unhanded, Writes, Strays, Due
<1>8. Apart' /\ Intact' /\ KeptKind' /\ Ended'
  BY <1>0, <1>1, <1>7, ApartFrame, IntactFrame, KeptKindFrame, EndedFrame
<1>9. Lent'
  BY <1>0, <1>1, <1>3, LentFrame
<1>10. InOrder'
  BY <1>0, <1>1, <1>3, <1>7 DEF InOrder, Given, IsInjective
<1>11. ASSUME Streaming' PROVE Running'
  <2>1. Supplied'
    BY <1>0, <1>1, <1>2, <1>3, <1>11 DEF Running, Supplied
  <2> QED BY <1>0, <1>1, <1>2, <1>3, <1>11, <2>1, RunningFrame
<1>12. OnStream <=> OnStream'
  BY <1>0, <1>3 DEF OnStream
<1>13. Clones'
  <2>1. ~astray => OnStream'
    BY <1>1, <1>12 DEF Clones
  <2> QED BY <1>0, <1>1, <1>2, <1>7, <2>1, ClonesFrame
<1> QED BY <1>1, <1>4, <1>5, <1>6, <1>8, <1>9, <1>10, <1>11, <1>13, InvFrom

(* A step of a device stream: what is behind a clone stays behind it.      *)
LEMMA CopyRunsStep ==
  ASSUME Inv, NEW s \in Streams, CopyRuns(s)
  PROVE  Inv'
<1>0. /\ UNCHANGED <<mode, unsettled, handle, sessions, number, ring, live, left, reported, outstanding, order, gen,
                     cloneEvent, cloneStream, owed, stray, mem, held, current, astray, yielded, how>>
      /\ copies[s] # <<>> /\ copies' = [copies EXCEPT ![s] = Tail(copies[s])]
  BY DEF CopyRuns, python, library, consumer
<1>1. /\ TypeOK /\ Standing /\ Resting /\ Apart /\ Intact /\ Lent /\ KeptKind
      /\ InOrder /\ Ended /\ (Streaming => Running) /\ Clones
  BY InvIs
<1>2. Streaming' <=> Streaming
  BY <1>0 DEF Streaming, At
<1>3. \A a : At(a)' <=> At(a)
  BY <1>0 DEF At
<1>4. copies \in [Streams -> Seq(Entry)] /\ copies[s] \in Seq(Entry)
  BY <1>1 DEF TypeOK, WorldType
<1>5. Tail(copies[s]) \in Seq(Entry) /\ copies' \in [Streams -> Seq(Entry)]
  BY <1>0, <1>4
<1>6. TypeOK'
  BY <1>0, <1>1, <1>5 DEF TypeOK, PythonType, WorldType
<1>7. Standing' /\ Resting'
  BY <1>0, <1>1, <1>2, <1>3 DEF Standing, Resting, Strays
<1>8. Views' = Views /\ Unhanded' = Unhanded /\ Writes' = Writes /\ Due' = Due
  BY <1>0 DEF Views, Unhanded, Writes, Strays, Due
<1>9. Apart' /\ Intact' /\ KeptKind' /\ Ended'
  BY <1>0, <1>1, <1>8, ApartFrame, IntactFrame, KeptKindFrame, EndedFrame
<1>10. Lent'
  BY <1>0, <1>1, <1>3, LentFrame
<1>11. InOrder'
  BY <1>0, <1>1, <1>3, <1>8 DEF InOrder, Given, IsInjective
<1>12. ASSUME Streaming' PROVE Running'
  <2>1. Supplied'
    BY <1>0, <1>1, <1>2, <1>3, <1>12 DEF Running, Supplied
  <2> QED BY <1>0, <1>1, <1>2, <1>3, <1>12, <2>1, RunningFrame
<1>13. Clones'
  <2> SUFFICES ASSUME ~astray' PROVE ClonesHome' /\ OnStream'
    BY DEF Clones
  <2>1. ClonesHome /\ OnStream
    BY <1>0, <1>1 DEF Clones
  <2>2. OnStream'
    BY <1>0, <1>3, <2>1 DEF OnStream
  <2>3. ASSUME NEW t \in Streams, NEW i \in DOMAIN copies'[t]
        PROVE  \E j \in DOMAIN copies[t] :
                 /\ copies'[t][i] = copies[t][j]
                 /\ \A k : EventAfter(t, j, k) => EventAfter(t, i, k)'
    <3>1. CASE t # s
      <4>1. copies'[t] = copies[t]
        BY <3>1, <1>0, <1>4
      <4>2. \A k : EventAfter(t, i, k) => EventAfter(t, i, k)'
        BY <4>1 DEF EventAfter, Event
      <4> QED BY <4>1, <4>2, <2>3
    <3>2. CASE t = s
      <4>1. copies'[t] = Tail(copies[t]) /\ copies[t] \in Seq(Entry) /\ copies[t] # <<>>
        BY <3>2, <1>0, <1>4
      <4>2. PICK u : u = copies[t]
        OBVIOUS
      <4>3. u \in Seq(Entry) /\ u # <<>> /\ copies'[t] = Tail(u)
        BY <4>1, <4>2
      <4>4. /\ Len(Tail(u)) = Len(u) - 1 /\ Tail(u) \in Seq(Entry) /\ Len(u) \in Nat
            /\ \A m \in 1..Len(Tail(u)) : Tail(u)[m] = u[m + 1]
        BY <4>3, HeadTail
      <4>5. i \in 1..Len(Tail(u)) /\ DOMAIN u = 1..Len(u) /\ DOMAIN Tail(u) = 1..Len(Tail(u))
        BY <4>3, <4>4, <2>3
      <4>6. i + 1 \in DOMAIN u /\ copies'[t][i] = u[i + 1]
        BY <4>3, <4>4, <4>5
      <4>7. ASSUME NEW k, EventAfter(t, i + 1, k) PROVE EventAfter(t, i, k)'
        <5>1. PICK j \in DOMAIN u : j > i + 1 /\ u[j] = Event(k)
          BY <4>2, <4>7 DEF EventAfter
        <5>2. j - 1 \in DOMAIN Tail(u) /\ j - 1 > i /\ Tail(u)[j - 1] = Event(k)
          BY <5>1, <4>4, <4>5
        <5> QED BY <5>2, <4>3 DEF EventAfter, Event
      <4> QED BY <4>2, <4>6, <4>7
    <3> QED BY <3>1, <3>2
  <2>4. ASSUME NEW t \in Streams, NEW i \in DOMAIN copies'[t], copies'[t][i].op = "clone",
               NEW c, c = copies'[t][i].of
        PROVE  /\ t = cloneStream /\ ring # NoRing /\ c.buf = ring.slots[c.slot]
               /\ ~unsettled => mem[c.buf][c.cell] = c.tag
               /\ \A w \in Writes : ~SamePlace(w, c)
               /\ cloneEvent # 0 => EventAfter(t, i, cloneEvent)' \/ live # {}
               /\ Streaming => /\ gen.device /\ c.slot \notin Range(ring.free)
                               /\ c.slot \in Range(ring.pending) => EventAfter(t, i, c.slot)'
    <3>1. PICK j \in DOMAIN copies[t] : /\ copies'[t][i] = copies[t][j]
                                        /\ \A k : EventAfter(t, j, k) => EventAfter(t, i, k)'
      BY <2>3
    <3>2. copies[t][j].op = "clone" /\ c = copies[t][j].of
      BY <2>4, <3>1
    <3>3. /\ t = cloneStream /\ ring # NoRing /\ c.buf = ring.slots[c.slot]
          /\ ~unsettled => mem[c.buf][c.cell] = c.tag
          /\ \A w \in Writes : ~SamePlace(w, c)
          /\ cloneEvent # 0 => EventAfter(t, j, cloneEvent) \/ live # {}
          /\ Streaming => /\ gen.device /\ c.slot \notin Range(ring.free)
                          /\ c.slot \in Range(ring.pending) => EventAfter(t, j, c.slot)
      BY <2>1, <3>2 DEF ClonesHome
    <3>4. cloneEvent # 0 => EventAfter(t, i, cloneEvent)' \/ live # {}
      <4> SUFFICES ASSUME cloneEvent # 0, ~(live # {}) PROVE EventAfter(t, i, cloneEvent)'
        OBVIOUS
      <4>1. PICK k : k = cloneEvent
        OBVIOUS
      <4>2. EventAfter(t, j, k)
        BY <3>3, <4>1
      <4>3. EventAfter(t, i, k)'
        BY <3>1, <4>2
      <4> QED BY <1>0, <4>1, <4>3 DEF EventAfter, Event
    <3> QED BY <3>1, <3>3, <3>4
  <2>5. /\ Writes' = Writes /\ (Streaming' <=> Streaming)
        /\ UNCHANGED <<unsettled, cloneStream, cloneEvent, ring, mem, live, gen>>
    BY <1>0, <1>2, <1>8
  <2>6. ClonesHome'
    BY <2>4, <2>5 DEF ClonesHome, SamePlace
  <2> QED BY <2>2, <2>6
<1> QED BY <1>6, <1>7, <1>9, <1>10, <1>11, <1>12, <1>13, InvFrom

(* A write lands where it is aimed and nowhere else.                       *)
LEMMA MemIs ==
  ASSUME mem \in [Buffers -> [Cells -> Tag]], NEW w \in Write,
         mem' = [mem EXCEPT ![w.buf][w.cell] = w.tag]
  PROVE  /\ mem' \in [Buffers -> [Cells -> Tag]]
         /\ \A b \in Buffers, c \in Cells : b # w.buf \/ c # w.cell => mem'[b][c] = mem[b][c]
         /\ mem'[w.buf][w.cell] = w.tag
<1>1. w.buf \in Buffers /\ w.cell \in Cells /\ w.tag \in Tag
  BY DEF Write
<1>2. PICK row : row = [mem[w.buf] EXCEPT ![w.cell] = w.tag]
  OBVIOUS
<1>3. row \in [Cells -> Tag] /\ row[w.cell] = w.tag /\ \A c \in Cells : c # w.cell => row[c] = mem[w.buf][c]
  BY <1>1, <1>2
<1>4. mem' = [mem EXCEPT ![w.buf] = row]
  BY <1>2
<1> QED BY <1>1, <1>3, <1>4

(* Tensors and clones that no write is aimed at keep their bytes.          *)
LEMMA LandsApart ==
  ASSUME TypeOK, Apart, Intact, NEW w \in Writes, mem' = [mem EXCEPT ![w.buf][w.cell] = w.tag]
  PROVE  /\ mem' \in [Buffers -> [Cells -> Tag]]
         /\ ~unsettled => \A v \in Views : mem'[v.buf][v.cell] = v.tag
         /\ \A c \in View : ~SamePlace(w, c) => mem'[c.buf][c.cell] = mem[c.buf][c.cell]
         /\ mem'[w.buf][w.cell] = w.tag
<1>1. w \in Write /\ mem \in [Buffers -> [Cells -> Tag]]
  BY DEF TypeOK, WorldType, Writes, Strays
<1>2. \A c \in View : c.buf \in Buffers /\ c.cell \in Cells
  BY DEF View
<1>3. Views \subseteq View
  <2>1. held \subseteq View /\ order.parked \subseteq View /\ gen.ready \in Seq(View)
    BY DEF TypeOK, PythonType, WorldType, Order, Generators
  <2>2. Range(gen.ready) \subseteq View
    BY <2>1, InRange
  <2> QED BY <2>1, <2>2 DEF Views
<1>4. /\ mem' \in [Buffers -> [Cells -> Tag]]
      /\ \A b \in Buffers, c \in Cells : b # w.buf \/ c # w.cell => mem'[b][c] = mem[b][c]
      /\ mem'[w.buf][w.cell] = w.tag
  BY <1>1, MemIs
<1>5. \A c \in View : ~SamePlace(w, c) => mem'[c.buf][c.cell] = mem[c.buf][c.cell]
  BY <1>2, <1>4 DEF SamePlace
<1>6. \A v \in Views : ~SamePlace(w, v) /\ (~unsettled => mem[v.buf][v.cell] = v.tag)
  BY DEF Apart, Intact
<1> QED BY <1>3, <1>4, <1>5, <1>6

(* What a clone reads is a tensor of the ring.                             *)
LEMMA CloneTypes ==
  ASSUME TypeOK, NEW s \in Streams, NEW i \in DOMAIN copies[s], copies[s][i].op = "clone"
  PROVE  copies[s][i].of \in View
<1>1. copies[s] \in Seq(Entry)
  BY DEF TypeOK, WorldType
<1>2. copies[s][i] \in Entry
  BY <1>1
<1> QED BY <1>2 DEF Entry

(* Clones when a write lands.                                              *)
LEMMA ClonesLand ==
  ASSUME TypeOK, Apart, Intact, Clones, NEW w \in Writes,
         mem' = [mem EXCEPT ![w.buf][w.cell] = w.tag],
         astray' = astray, unsettled' = unsettled, ring' = ring, copies' = copies, live' = live,
         cloneStream' = cloneStream, Writes' \subseteq Writes, cloneEvent' = cloneEvent,
         Streaming' => Streaming /\ gen'.device = gen.device,
         ~astray => OnStream'
  PROVE  Clones'
<1> SUFFICES ASSUME ~astray' PROVE ClonesHome' /\ OnStream'
  BY DEF Clones
<1>1. ClonesHome /\ OnStream'
  BY DEF Clones
<1>2. \A s, i, k : EventAfter(s, i, k)' <=> EventAfter(s, i, k)
  BY DEF EventAfter, Event
<1>3. ASSUME NEW s \in Streams, NEW i \in DOMAIN copies[s], copies[s][i].op = "clone",
             NEW c, c = copies[s][i].of
      PROVE  /\ s = cloneStream /\ ring # NoRing /\ c.buf = ring.slots[c.slot]
             /\ ~unsettled => mem'[c.buf][c.cell] = c.tag
             /\ \A x \in Writes' : ~SamePlace(x, c)
             /\ cloneEvent # 0 => EventAfter(s, i, cloneEvent)' \/ live # {}
             /\ Streaming' => /\ gen'.device /\ c.slot \notin Range(ring.free)
                              /\ c.slot \in Range(ring.pending) => EventAfter(s, i, c.slot)'
  <2>1. /\ s = cloneStream /\ ring # NoRing /\ c.buf = ring.slots[c.slot]
        /\ ~unsettled => mem[c.buf][c.cell] = c.tag
        /\ \A x \in Writes : ~SamePlace(x, c)
        /\ cloneEvent # 0 => EventAfter(s, i, cloneEvent) \/ live # {}
        /\ Streaming => /\ gen.device /\ c.slot \notin Range(ring.free)
                        /\ c.slot \in Range(ring.pending) => EventAfter(s, i, c.slot)
    BY <1>1, <1>3 DEF ClonesHome
  <2>2. c \in View
    BY <1>3, CloneTypes
  <2>3. ~unsettled => mem'[c.buf][c.cell] = c.tag
    BY <2>1, <2>2, LandsApart
  <2>4. EventAfter(s, i, cloneEvent) => EventAfter(s, i, cloneEvent)'
    BY DEF EventAfter, Event
  <2> QED BY <1>2, <2>1, <2>3, <2>4
<1>4. ClonesHome'
  BY <1>3 DEF ClonesHome, SamePlace
<1> QED BY <1>1, <1>4

(* A read that outlives its UnknownError writes once more.                 *)
LEMMA StrayLandsStep ==
  ASSUME Inv, NEW w \in stray, StrayLands(w)
  PROVE  Inv'
<1>0. /\ UNCHANGED <<mode, unsettled, handle, sessions, number, ring, live, left, reported, outstanding, order, gen,
                     cloneEvent, cloneStream, owed, copies, held, current, astray, yielded, how>>
      /\ mem' = [mem EXCEPT ![w.buf][w.cell] = w.tag] /\ stray' = stray \ {w}
  BY DEF StrayLands, python, library, consumer
<1>1. /\ TypeOK /\ Standing /\ Resting /\ Apart /\ Intact /\ Lent /\ KeptKind
      /\ InOrder /\ Ended /\ (Streaming => Running) /\ Clones
  BY InvIs
<1>2. Streaming' <=> Streaming
  BY <1>0 DEF Streaming, At
<1>3. \A a : At(a)' <=> At(a)
  BY <1>0 DEF At
<1>4. Strays' \subseteq Strays /\ Writes' \subseteq Writes /\ (unsettled => Strays' = Strays)
  BY <1>0 DEF Writes, Strays
<1>5. ~unsettled => w \in Writes /\ ~Streaming
  BY <1>0, <1>1 DEF Writes, Strays, Resting
<1>6. w \in Write /\ mem' \in [Buffers -> [Cells -> Tag]]
  <2>1. w \in Write /\ mem \in [Buffers -> [Cells -> Tag]]
    BY <1>1 DEF TypeOK, WorldType
  <2> QED BY <1>0, <2>1, MemIs
<1>7. TypeOK'
  BY <1>0, <1>1, <1>6 DEF TypeOK, PythonType, WorldType
<1>8. Standing' /\ Resting'
  BY <1>0, <1>1, <1>2, <1>3, <1>4 DEF Standing, Resting
<1>9. Views' = Views /\ Unhanded' = Unhanded
  BY <1>0 DEF Views, Unhanded
<1>10. Apart' /\ KeptKind' /\ Ended'
  BY <1>0, <1>1, <1>4, <1>9, ApartFrame, KeptKindFrame, EndedFrame
<1>11. Intact'
  <2>1. CASE unsettled
    BY <1>0, <2>1 DEF Intact
  <2>2. CASE ~unsettled
    BY <1>0, <1>1, <1>5, <1>9, <2>2, LandsApart DEF Intact
  <2> QED BY <2>1, <2>2
<1>12. Lent'
  BY <1>0, <1>1, <1>3, LentFrame
<1>13. InOrder'
  BY <1>0, <1>1, <1>3, <1>9 DEF InOrder, Given, IsInjective
<1>14. Streaming' => Running'
  <2> SUFFICES ASSUME Streaming PROVE Running'
    BY <1>2
  <2>1. Running /\ unsettled /\ Supplied'
    BY <1>0, <1>1, <1>3, <1>5 DEF Running, Supplied
  <2> QED BY <1>0, <1>3, <2>1, RunningFrame
<1>15. Clones'
  <2>1. ~astray => OnStream'
    BY <1>0, <1>1, <1>3 DEF Clones, OnStream
  <2>2. CASE unsettled
    BY <1>0, <1>1, <1>2, <1>4, <2>1, <2>2, ClonesFrame
  <2>3. CASE ~unsettled
    BY <1>0, <1>1, <1>2, <1>4, <1>5, <2>1, <2>3, ClonesLand
  <2> QED BY <2>2, <2>3
<1> QED BY <1>7, <1>8, <1>10, <1>11, <1>12, <1>13, <1>14, <1>15, InvFrom

(* The consumer changes streams: while nothing is cloned, or astray.       *)
LEMMA MoveStep ==
  ASSUME Inv, Move
  PROVE  Inv'
<1>0. /\ UNCHANGED <<mode, unsettled, handle, sessions, number, ring, live, left, reported, outstanding, order, gen,
                     cloneEvent, cloneStream, owed, stray, mem, copies, held, yielded, how>>
      /\ current' = 2
      /\ (At("none") /\ astray' = astray) \/ astray' = TRUE
  BY DEF Move, python, library
<1>1. /\ TypeOK /\ Standing /\ Resting /\ Apart /\ Intact /\ Lent /\ KeptKind
      /\ InOrder /\ Ended /\ (Streaming => Running) /\ Clones
  BY InvIs
<1>2. Streaming' <=> Streaming
  BY <1>0 DEF Streaming, At
<1>3. \A a : At(a)' <=> At(a)
  BY <1>0 DEF At
<1>4. astray' \in BOOLEAN /\ (~astray' => ~astray /\ At("none"))
  <2>1. astray \in BOOLEAN
    BY <1>1 DEF TypeOK, WorldType
  <2>2. CASE At("none") /\ astray' = astray
    <3>1. astray' \in BOOLEAN
      BY <2>1, <2>2
    <3>2. At("none")
      BY <2>2
    <3>3. ~astray' => ~astray
      BY <2>2
    <3> QED BY <3>1, <3>2, <3>3
  <2>3. CASE astray' = TRUE
    <3>1. astray' \in BOOLEAN
      BY <2>3
    <3>2. astray'
      BY <2>3
    <3> QED BY <3>1, <3>2
  <2> QED BY <1>0, <2>2, <2>3
<1>5. current' \in Streams
  BY <1>0 DEF Streams
<1>6. TypeOK'
  BY <1>0, <1>1, <1>4, <1>5 DEF TypeOK, PythonType, WorldType
<1>7. Standing' /\ Resting'
  BY <1>0, <1>1, <1>2, <1>3 DEF Standing, Resting, Strays
<1>8. Views' = Views /\ Unhanded' = Unhanded /\ Writes' = Writes
  BY <1>0 DEF Views, Unhanded, Writes, Strays
<1>9. Apart' /\ Intact' /\ KeptKind' /\ Ended'
  BY <1>0, <1>1, <1>8, ApartFrame, IntactFrame, KeptKindFrame, EndedFrame
<1>10. Lent'
  BY <1>0, <1>1, <1>3, LentFrame
<1>11. InOrder'
  BY <1>0, <1>1, <1>3, <1>8 DEF InOrder, Given, IsInjective
<1>12. ASSUME Streaming' PROVE Running'
  <2>1. Supplied'
    BY <1>0, <1>1, <1>2, <1>3, <1>12 DEF Running, Supplied
  <2> QED BY <1>0, <1>1, <1>2, <1>3, <1>12, <2>1, RunningFrame
<1>13. Clones'
  <2> SUFFICES ASSUME ~astray' PROVE ClonesHome' /\ OnStream'
    BY DEF Clones
  <2>1. ClonesHome /\ At("none")
    BY <1>1, <1>4 DEF Clones
  <2>2. OnStream'
    BY <1>0, <1>1, <2>1 DEF Resting, Strays, OnStream
  <2>3. \A s, i, k : EventAfter(s, i, k)' <=> EventAfter(s, i, k)
    BY <1>0 DEF EventAfter, Event
  <2>4. \A s, i : EventAfter(s, i, cloneEvent)' <=> EventAfter(s, i, cloneEvent)
    BY <1>0 DEF EventAfter, Event
  <2>5. ClonesHome'
    BY <1>0, <1>2, <1>8, <2>1, <2>3, <2>4 DEF ClonesHome, SamePlace
  <2> QED BY <2>2, <2>5
<1> QED BY <1>6, <1>7, <1>9, <1>10, <1>11, <1>12, <1>13, InvFrom

(* A context is entered: what is left of the last one has no ring.         *)
LEMMA EnterStep ==
  ASSUME Inv, Enter
  PROVE  Inv'
<1>0. /\ UNCHANGED <<mode, unsettled, number, ring, live, left, reported, outstanding, order, gen, cloneEvent,
                     cloneStream, owed, stray, mem, copies, held, current, astray, yielded, how>>
      /\ handle = 0 /\ sessions' = sessions + 1 /\ handle' = sessions + 1
  BY DEF Enter, library, consumer
<1>1. /\ TypeOK /\ Standing /\ Resting /\ Apart /\ Intact /\ Lent /\ KeptKind
      /\ InOrder /\ Ended /\ Clones
  BY InvIs
<1>2. ring = NoRing
  BY <1>0, <1>1 DEF Standing
<1>3. ~Streaming'
  BY <1>0, <1>2 DEF Streaming
<1>4. \A a : At(a)' <=> At(a)
  BY <1>0 DEF At
<1>5. sessions \in Nat /\ handle' \in Nat /\ handle' # 0
  BY <1>0, <1>1 DEF TypeOK, PythonType
<1>6. TypeOK'
  BY <1>0, <1>1, <1>5 DEF TypeOK, PythonType, WorldType
<1>7. Standing'
  BY <1>0, <1>1, <1>2, <1>4, <1>5 DEF Standing
<1>8. Resting'
  BY <1>0, <1>1, <1>3, <1>4 DEF Resting, Strays
<1>9. Views' = Views /\ Unhanded' = Unhanded /\ Writes' = Writes
  BY <1>0 DEF Views, Unhanded, Writes, Strays
<1>10. Apart' /\ Intact' /\ KeptKind' /\ Ended'
  BY <1>0, <1>1, <1>9, ApartFrame, IntactFrame, KeptKindFrame, EndedFrame
<1>11. Lent'
  BY <1>0, <1>1, <1>4, LentFrame
<1>12. InOrder'
  BY <1>0, <1>1, <1>4, <1>9 DEF InOrder, Given, IsInjective
<1>13. Clones'
  <2>1. OnStream'
    BY <1>0, <1>2 DEF OnStream
  <2> QED BY <1>0, <1>1, <1>3, <1>9, <2>1, ClonesFrame
<1> QED BY <1>3, <1>6, <1>7, <1>8, <1>10, <1>11, <1>12, <1>13, InvFrom

(* The generator ends: the finally takes over, and the rest stays.         *)
LEMMA ToDrain ==
  ASSUME Inv, gen' \in Generators, At("drain")', gen'.ready = gen.ready,
         gen'.device = gen.device, how' \in Hows, how' # "fresh", Ended',
         UNCHANGED <<mode, unsettled, handle, sessions, number, ring, live, left, order, cloneEvent, cloneStream, mem,
                     copies, held, current, astray, yielded>>,
         owed' \subseteq owed, stray' \subseteq owed \cup stray, Writes' \subseteq Writes,
         reported' \subseteq Ids, outstanding' \in Nat,
         ring # NoRing => IsFiniteSet(owed') /\ outstanding' = Cardinality(owed')
  PROVE  Inv'
<1>1. /\ TypeOK /\ Standing /\ Resting /\ Apart /\ Intact /\ Lent /\ KeptKind
      /\ InOrder /\ Clones
  BY InvIs
<1>2. gen'.at = "drain" /\ \A a : At(a)' <=> a = "drain"
  BY DEF At
<1>3. ~Streaming'
  BY <1>2 DEF Streaming
<1>4. TypeOK'
  <2>1. owed' \subseteq Write /\ stray' \subseteq Write
    BY <1>1 DEF TypeOK, WorldType
  <2> QED BY <1>1, <2>1 DEF TypeOK, PythonType, WorldType
<1>5. Standing'
  <2>1. ring = NoRing => owed' = {} /\ stray' = {}
    BY <1>1 DEF Standing
  <2> QED BY <1>1, <1>2, <2>1 DEF Standing
<1>6. Resting'
  BY <1>1, <1>2, <1>3 DEF Resting, Strays
<1>7. Views' \subseteq Views /\ Unhanded' \subseteq Unhanded
  BY DEF Views, Unhanded
<1>8. Apart' /\ Intact' /\ KeptKind'
  BY <1>1, <1>7, ApartFrame, IntactFrame, KeptKindFrame
<1>9. Lent'
  BY <1>1, <1>2, LentFrame
<1>10. InOrder'
  <2>1. (~order.on => order.parked = {})'
    BY <1>1 DEF InOrder
  <2>2. (\A p \in Unhanded : p.tag.ord \in 1..N /\ p.tag.stream = number)'
    BY <1>1, <1>7 DEF InOrder
  <2>3. (IF order.on THEN \A i \in DOMAIN yielded : yielded[i] = i ELSE IsInjective(yielded))'
    BY <1>1 DEF InOrder, IsInjective
  <2> QED BY <1>2, <2>1, <2>2, <2>3 DEF InOrder
<1>11. Clones'
  <2>1. OnStream'
    BY <1>2 DEF OnStream
  <2> QED BY <1>1, <1>3, <2>1, ClonesFrame
<1> QED BY <1>3, <1>4, <1>5, <1>6, <1>8, <1>9, <1>10, <1>11, InvFrom

(* The consumer closes the generator.                                      *)
LEMMA CloseStep ==
  ASSUME Inv, Close
  PROVE  Inv'
<1>0. /\ UNCHANGED <<mode, unsettled, handle, sessions, number, ring, live, left, reported, outstanding, order, cloneEvent,
                     cloneStream, owed, stray, mem, copies, held, current, astray, yielded>>
      /\ Goes("drain") /\ how' = "closed"
  BY DEF Close, library
<1>1. TypeOK /\ Standing /\ gen \in Generators
  BY InvIs DEF PythonType
<1>2. gen' \in Generators /\ gen'.at = "drain" /\ gen'.ready = gen.ready /\ gen'.device = gen.device
  BY <1>0, <1>1, GoesIs DEF Places
<1>3. At("drain")' /\ Ended' /\ how' \in Hows /\ how' # "fresh"
  BY <1>0, <1>2 DEF At, Ended, Hows
<1>4. /\ reported' \subseteq Ids /\ outstanding' \in Nat /\ stray' \subseteq owed \cup stray
      /\ ring # NoRing => IsFiniteSet(owed') /\ outstanding' = Cardinality(owed')
      /\ owed' \subseteq owed /\ Writes' \subseteq Writes
  BY <1>0, <1>1 DEF TypeOK, PythonType, WorldType, Standing, Writes, Strays
<1> QED BY <1>0, <1>2, <1>3, <1>4, ToDrain

(* The null handle answers nothing.                                        *)
LEMMA ReceiveNothingStep ==
  ASSUME Inv, ReceiveNothing
  PROVE  Inv'
<1>0. /\ UNCHANGED <<mode, unsettled, handle, sessions, number, ring, live, left, reported, order, cloneEvent,
                     cloneStream, owed, stray, mem, copies, held, current, astray, yielded>>
      /\ Goes("drain") /\ how' = "raised" /\ handle = 0
      /\ outstanding' = outstanding - (IF outstanding > 0 THEN 1 ELSE 0)
  BY DEF ReceiveNothing, library
<1>1. TypeOK /\ Standing /\ gen \in Generators
  BY InvIs DEF PythonType
<1>2. gen' \in Generators /\ gen'.at = "drain" /\ gen'.ready = gen.ready /\ gen'.device = gen.device
  BY <1>0, <1>1, GoesIs DEF Places
<1>3. At("drain")' /\ Ended' /\ how' \in Hows /\ how' # "fresh"
  BY <1>0, <1>2 DEF At, Ended, Hows
<1>4. outstanding' \in Nat
  <2>1. outstanding \in Nat
    BY <1>1 DEF TypeOK, PythonType
  <2> QED BY <1>0, <2>1
<1>5. /\ reported' \subseteq Ids /\ stray' \subseteq owed \cup stray
      /\ owed' \subseteq owed /\ Writes' \subseteq Writes
  BY <1>0, <1>1 DEF TypeOK, PythonType, WorldType, Writes, Strays
<1>6. ring = NoRing
  BY <1>0, <1>1 DEF Standing
<1> QED BY <1>0, <1>2, <1>3, <1>4, <1>5, <1>6, ToDrain

(* One answer fewer is owed.                                               *)
LEMMA OneFewer ==
  ASSUME TypeOK, Standing, NEW w \in owed, owed' = owed \ {w}, outstanding' = outstanding - 1
  PROVE  /\ IsFiniteSet(owed') /\ outstanding' = Cardinality(owed') /\ outstanding' \in Nat
<1>1. IsFiniteSet(owed) /\ outstanding = Cardinality(owed)
  BY DEF Standing
<1>2. IsFiniteSet(owed \ {w}) /\ Cardinality(owed \ {w}) = Cardinality(owed) - 1
  BY <1>1, FS_RemoveElement
<1>3. Cardinality(owed \ {w}) \in Nat
  BY <1>2, FS_CardinalityType
<1> QED BY <1>1, <1>2, <1>3

(* A failed range fails the stream.                                        *)
LEMMA ReceiveErrorStep ==
  ASSUME Inv, NEW w \in owed, ReceiveError(w)
  PROVE  Inv'
<1>0. /\ UNCHANGED <<mode, unsettled, handle, sessions, number, ring, live, left, order, cloneEvent,
                     cloneStream, mem, copies, held, current, astray, yielded>>
      /\ Goes("drain") /\ how' = "raised" /\ handle # 0
      /\ owed' = owed \ {w} /\ outstanding' = outstanding - 1
      /\ reported' = reported \/ reported' = reported \cup {w.id}
      /\ stray' = stray \/ stray' = stray \cup {w}
  BY DEF ReceiveError, Counts
<1>1. TypeOK /\ Standing /\ gen \in Generators
  BY InvIs DEF PythonType
<1>2. gen' \in Generators /\ gen'.at = "drain" /\ gen'.ready = gen.ready /\ gen'.device = gen.device
  BY <1>0, <1>1, GoesIs DEF Places
<1>3. At("drain")' /\ Ended' /\ how' \in Hows /\ how' # "fresh"
  BY <1>0, <1>2 DEF At, Ended, Hows
<1>4. w \in Write /\ w.id \in Ids
  BY <1>1 DEF TypeOK, WorldType, Write
<1>5. /\ reported' \subseteq Ids /\ stray' \subseteq owed \cup stray
      /\ owed' \subseteq owed /\ Writes' \subseteq Writes
  BY <1>0, <1>1, <1>4 DEF TypeOK, PythonType, WorldType, Writes, Strays
<1>6. IsFiniteSet(owed') /\ outstanding' = Cardinality(owed') /\ outstanding' \in Nat
  BY <1>0, <1>1, OneFewer
<1> QED BY <1>0, <1>2, <1>3, <1>5, <1>6, ToDrain

(* The drain takes one more answer, whatever it says.                      *)
LEMMA DrainOneStep ==
  ASSUME Inv, NEW w \in owed, DrainOne(w)
  PROVE  Inv'
<1>0. /\ UNCHANGED <<mode, unsettled, handle, sessions, number, ring, live, left, reported, order, gen, cloneEvent,
                     cloneStream, copies, held, current, astray, yielded, how>>
      /\ At("drain") /\ handle # 0
      /\ owed' = owed \ {w} /\ outstanding' = outstanding - 1
      /\ \/ mem' = [mem EXCEPT ![w.buf][w.cell] = w.tag] /\ stray' = stray
         \/ mem' = mem /\ stray' = stray \cup {w}
  BY DEF DrainOne, DrainOwes, consumer
<1>1. /\ TypeOK /\ Standing /\ Resting /\ Apart /\ Intact /\ Lent /\ KeptKind
      /\ InOrder /\ Ended /\ Clones
  BY InvIs
<1>2. \A a : At(a)' <=> At(a)
  BY <1>0 DEF At
<1>3. ~Streaming' /\ gen.at = "drain"
  BY <1>0 DEF Streaming, At
<1>4. IsFiniteSet(owed') /\ outstanding' = Cardinality(owed') /\ outstanding' \in Nat
  BY <1>0, <1>1, OneFewer
<1>5. w \in Write /\ w \in Writes /\ owed' \subseteq Write /\ stray' \subseteq Write /\ Writes' \subseteq Writes
      /\ owed' \subseteq owed
  BY <1>0, <1>1 DEF TypeOK, WorldType, Writes, Strays
<1>6. Views' = Views /\ Unhanded' = Unhanded
  BY <1>0 DEF Views, Unhanded
<1>7. mem' \in [Buffers -> [Cells -> Tag]] /\ Intact'
  <2>1. CASE mem' = [mem EXCEPT ![w.buf][w.cell] = w.tag]
    <3>1. /\ mem' \in [Buffers -> [Cells -> Tag]]
          /\ ~unsettled => \A v \in Views : mem'[v.buf][v.cell] = v.tag
      BY <1>1, <1>5, <2>1, LandsApart
    <3> QED BY <1>0, <1>6, <3>1 DEF Intact
  <2>2. CASE mem' = mem
    BY <1>0, <1>1, <1>6, <2>2, IntactFrame DEF TypeOK, WorldType
  <2> QED BY <1>0, <2>1, <2>2
<1>8. TypeOK'
  BY <1>0, <1>1, <1>4, <1>5, <1>7 DEF TypeOK, PythonType, WorldType
<1>9. Standing'
  <2>1. ring = NoRing => owed' = {} /\ stray' = {}
    BY <1>1 DEF Standing
  <2> QED BY <1>0, <1>1, <1>2, <1>3, <1>4, <2>1 DEF Standing, At
<1>10. Resting'
  BY <1>0, <1>1, <1>2, <1>3 DEF Resting, Strays, At
<1>11. Apart' /\ KeptKind' /\ Ended'
  BY <1>0, <1>1, <1>5, <1>6, ApartFrame, KeptKindFrame, EndedFrame
<1>12. Lent'
  BY <1>0, <1>1, <1>2, LentFrame
<1>13. InOrder'
  BY <1>0, <1>1, <1>2, <1>6 DEF InOrder, Given, IsInjective
<1>14. Clones'
  <2>1. OnStream'
    BY <1>0, <1>2 DEF OnStream
  <2>2. CASE mem' = [mem EXCEPT ![w.buf][w.cell] = w.tag]
    BY <1>0, <1>1, <1>3, <1>5, <2>1, <2>2, ClonesLand
  <2>3. CASE mem' = mem
    BY <1>0, <1>1, <1>3, <1>5, <2>1, <2>3, ClonesFrame
  <2> QED BY <1>0, <2>2, <2>3
<1> QED BY <1>3, <1>7, <1>8, <1>9, <1>10, <1>11, <1>12, <1>13, <1>14, InvFrom

(* The drain is over: nothing of the stream is owed or lent any more.      *)
LEMMA EndDrainStep ==
  ASSUME Inv, EndDrain
  PROVE  Inv'
<1>0. /\ UNCHANGED <<mode, unsettled, handle, sessions, number, ring, cloneStream, owed, stray, mem, copies, current,
                     astray, yielded, how>>
      /\ At("drain") /\ ~DrainOwes
      /\ outstanding' = 0 /\ live' = {} /\ left' = <<>> /\ reported' = {}
      /\ cloneEvent' = IF live # {} THEN 0 ELSE cloneEvent
      /\ order' = [order EXCEPT !.parked = {}] /\ gen' = NoGenerator
      /\ held' = {v \in held : v.owned}
  BY DEF EndDrain, library, Discarded
<1>1. /\ TypeOK /\ Standing /\ Resting /\ Apart /\ Intact /\ Lent /\ KeptKind
      /\ InOrder /\ Ended /\ Clones
  BY InvIs
<1>2. gen'.at = "none" /\ gen'.ready = <<>> /\ gen'.device = FALSE /\ gen' \in Generators
  BY <1>0 DEF NoGenerator, Generators, Places
<1>3. \A a : At(a)' <=> a = "none"
  BY <1>2 DEF At
<1>4. how # "fresh"
  BY <1>0, <1>1 DEF Resting, Strays
<1>5. ~Streaming'
  BY <1>0, <1>3, <1>4 DEF Streaming
<1>6. order' \in Order /\ order'.parked = {} /\ order'.on = order.on /\ order.on \in BOOLEAN
  BY <1>0, <1>1 DEF TypeOK, PythonType, Order
<1>7. owed = {}
  <2>1. CASE ring = NoRing
    BY <1>1, <2>1 DEF Standing
  <2>2. CASE ring # NoRing
    <3>1. IsFiniteSet(owed) /\ outstanding = Cardinality(owed) /\ outstanding \in Nat /\ handle # 0
      BY <1>1, <2>2 DEF Standing, TypeOK, PythonType
    <3>2. ~(outstanding > 0)
      BY <1>0, <3>1 DEF DrainOwes
    <3>3. Cardinality(owed) = 0
      BY <3>1, <3>2
    <3> QED BY <3>1, <3>3, FS_EmptySet
  <2> QED BY <2>1, <2>2
<1>8. Range(gen'.ready) = {}
  BY <1>2 DEF Range
<1>9. Views' \subseteq Views /\ Unhanded' = {} /\ Writes' = Writes
  BY <1>0, <1>6, <1>8 DEF Views, Unhanded, Writes, Strays
<1>10. TypeOK'
  <2>1. cloneEvent' \in Slots \cup {0}
    BY <1>0, <1>1 DEF TypeOK, PythonType
  <2> QED BY <1>0, <1>1, <1>2, <1>6, <2>1 DEF TypeOK, PythonType, WorldType
<1>11. Standing'
  <2>1. IsFiniteSet(owed') /\ Cardinality(owed') = 0
    BY <1>0, <1>7, FS_EmptySet
  <2> QED BY <1>0, <1>1, <1>2, <1>3, <1>6, <2>1 DEF Standing
<1>12. Resting'
  BY <1>0, <1>2, <1>3, <1>5 DEF Resting, Strays
<1>13. Apart' /\ Intact' /\ KeptKind' /\ Ended'
  <2>1. Apart' /\ Intact' /\ Ended'
    BY <1>0, <1>1, <1>9, ApartFrame, IntactFrame, EndedFrame
  <2> QED BY <2>1, <1>9 DEF KeptKind
<1>14. Lent'
  BY <1>0, <1>1 DEF Lent
<1>15. InOrder'
  <2>1. (IF order.on THEN \A i \in DOMAIN yielded : yielded[i] = i ELSE IsInjective(yielded))'
    BY <1>0, <1>1, <1>6 DEF InOrder, IsInjective
  <2>2. DOMAIN gen'.ready = {} /\ Len(gen'.ready) = 0
    BY <1>2
  <2> QED BY <1>2, <1>3, <1>6, <1>9, <2>1, <2>2 DEF InOrder
<1>16. Clones'
  <2>1. OnStream'
    BY <1>2 DEF OnStream
  <2> QED BY <1>0, <1>1, <1>5, <1>9, <2>1, ClonesFrame
<1> QED BY <1>5, <1>10, <1>11, <1>12, <1>13, <1>14, <1>15, <1>16, InvFrom

(* Whoever has waited for the copies out of the ring leaves none behind.   *)
LEMMA NoneLeft ==
  ASSUME Inv, CopiesWaited, ~astray
  PROVE  \A s \in Streams : \A i \in DOMAIN copies[s] : copies[s][i].op # "clone"
<1> SUFFICES ASSUME NEW s \in Streams, NEW i \in DOMAIN copies[s], copies[s][i].op = "clone"
             PROVE  FALSE
  OBVIOUS
<1>1. TypeOK /\ ClonesHome
  BY InvIs DEF Clones
<1>2. s = cloneStream /\ (cloneEvent # 0 => EventAfter(s, i, cloneEvent) \/ live # {})
  BY <1>1 DEF ClonesHome
<1>3. CASE cloneEvent # 0 /\ live = {}
  <2>1. EventDone(cloneEvent) /\ EventAfter(s, i, cloneEvent)
    BY <1>2, <1>3 DEF CopiesWaited
  <2>2. PICK j \in DOMAIN copies[s] : copies[s][j] = Event(cloneEvent)
    BY <2>1 DEF EventAfter
  <2>3. copies[s] \in Seq(Entry)
    BY <1>1 DEF TypeOK, WorldType
  <2>4. Contains(copies[s], Event(cloneEvent))
    BY <2>2, <2>3 DEF Contains
  <2> QED BY <2>1, <2>4 DEF EventDone
<1>4. CASE ~(cloneEvent # 0 /\ live = {})
  <2>1. cloneStream # 0
    BY <1>2 DEF Streams
  <2>2. copies[s] = <<>>
    BY <1>2, <1>4, <2>1 DEF CopiesWaited
  <2> QED BY <2>2
<1> QED BY <1>3, <1>4

(* __exit__: the library is joined and the ring dropped.                   *)
LEMMA ExitStep ==
  ASSUME Inv, Exit
  PROVE  Inv'
<1>0. /\ UNCHANGED <<mode, unsettled, sessions, number, live, left, reported, outstanding, gen, mem, copies, held,
                     current, astray, yielded, how>>
      /\ At("none") \/ At("paused")
      /\ CopiesWaited /\ handle' = 0 /\ owed' = {} /\ stray' = {} /\ cloneEvent' = 0 /\ cloneStream' = 0
      /\ ring' = NoRing /\ order' = [order EXCEPT !.parked = {}]
  BY DEF Exit, consumer, Discarded
<1>1. /\ TypeOK /\ Standing /\ Resting /\ Apart /\ Intact /\ Lent /\ KeptKind
      /\ InOrder /\ Ended
  BY InvIs
<1>2. \A a : At(a)' <=> At(a)
  BY <1>0 DEF At
<1>3. ~Streaming'
  BY <1>0 DEF Streaming
<1>4. order' \in Order /\ order'.parked = {} /\ order'.on = order.on
  BY <1>0, <1>1 DEF TypeOK, PythonType, Order
<1>5. Views' \subseteq Views /\ Unhanded' \subseteq Unhanded /\ Writes' = {}
  BY <1>0, <1>4 DEF Views, Unhanded, Writes, Strays
<1>6. TypeOK'
  BY <1>0, <1>1, <1>4 DEF TypeOK, PythonType, WorldType
<1>7. Standing'
  BY <1>0, <1>1, <1>2, <1>4 DEF Standing, At
<1>8. Resting'
  BY <1>0, <1>1, <1>2, <1>3 DEF Resting, Strays
<1>9. Apart' /\ Intact' /\ KeptKind' /\ Ended'
  <2>1. owed' \subseteq owed /\ Writes' \subseteq Writes
    BY <1>0, <1>5
  <2> QED BY <1>0, <1>1, <1>5, <2>1, ApartFrame, IntactFrame, KeptKindFrame, EndedFrame
<1>10. Lent'
  BY <1>0, <1>1, <1>2, LentFrame
<1>11. InOrder'
  <2>1. ~At("fill")' /\ order'.parked \subseteq order.parked
    BY <1>0, <1>2, <1>4 DEF At
  <2> QED BY <1>0, <1>1, <1>2, <1>4, <2>1, InOrderFrame
<1>12. Clones'
  <2> SUFFICES ASSUME ~astray' PROVE ClonesHome' /\ OnStream'
    BY DEF Clones
  <2>1. \A s \in Streams : \A i \in DOMAIN copies[s] : copies[s][i].op # "clone"
    BY <1>0, NoneLeft
  <2> QED BY <1>0, <2>1 DEF ClonesHome, OnStream
<1> QED BY <1>3, <1>6, <1>7, <1>8, <1>9, <1>10, <1>11, <1>12, InvFrom

(* get_chunks() of a stream whose ring went with its context.              *)
LEMMA StartRaises ==
  ASSUME Inv, Start, live # {}, ring = NoRing
  PROVE  Inv'
<1>0. /\ UNCHANGED <<mode, unsettled, handle, sessions, number, ring, live, left, reported, outstanding, order, cloneEvent,
                     owed, stray, mem, copies, held, current, astray, yielded>>
      /\ At("none") /\ how' = "raised"
  BY DEF Start, library
<1>1. NoRing.kind = "none"
  BY DEF NoRing
<1>2. gen' = [NoGenerator EXCEPT !.at = "drain", !.device = FALSE] /\ cloneStream' = cloneStream
  BY <1>1 DEF Start
<1>3. TypeOK /\ Resting /\ gen \in Generators
  BY InvIs DEF PythonType
<1>4. gen.ready = <<>> /\ gen.device = FALSE
  BY <1>0, <1>3 DEF Resting, Generators
<1>5. gen' \in Generators /\ gen'.at = "drain" /\ gen'.ready = gen.ready /\ gen'.device = gen.device
  <2>1. gen' = [at |-> "drain", ready |-> <<>>, device |-> FALSE]
    BY <1>2 DEF NoGenerator
  <2>2. gen'.at = "drain" /\ gen'.ready = <<>> /\ gen'.device = FALSE
    BY <2>1, Zenon
  <2>3. <<>> \in Seq(View) /\ "drain" \in Places
    BY DEF Places
  <2>4. gen' \in Generators
    BY <2>1, <2>3, Zenon DEF Generators
  <2> QED BY <1>4, <2>2, <2>4, Zenon
<1>6. At("drain")' /\ Ended' /\ how' \in Hows /\ how' # "fresh"
  BY <1>0, <1>5 DEF At, Ended, Hows
<1>7. /\ reported' \subseteq Ids /\ outstanding' \in Nat /\ stray' \subseteq owed \cup stray
      /\ owed' \subseteq owed /\ Writes' \subseteq Writes
  BY <1>0, <1>3 DEF TypeOK, PythonType, Writes, Strays
<1> QED BY <1>0, <1>2, <1>5, <1>6, <1>7, ToDrain

(* get_chunks() of a stream that has its ring, or nothing to hand over.    *)
LEMMA StartHands ==
  ASSUME Inv, Start, ~(live # {} /\ ring = NoRing)
  PROVE  Inv'
<1>0. /\ UNCHANGED <<mode, unsettled, handle, sessions, number, ring, live, left, reported, outstanding, order, cloneEvent,
                     owed, stray, mem, copies, held, current, astray, yielded>>
      /\ At("none") /\ handle # 0 /\ how = "fresh" /\ how' = "none"
  BY DEF Start, library
<1>1. PICK device \in BOOLEAN : /\ gen' = [NoGenerator EXCEPT !.at = "hand", !.device = device]
                                /\ cloneStream' = IF device THEN current ELSE cloneStream
                                /\ device => ring.kind = "device"
  <2>1. (live # {} /\ ring.kind = "device") \in BOOLEAN
    OBVIOUS
  <2> QED BY <2>1 DEF Start
<1>2. /\ TypeOK /\ Standing /\ Resting /\ Apart /\ Intact /\ Lent /\ KeptKind
      /\ InOrder /\ Ended /\ (Streaming => Running) /\ Clones
  BY InvIs
<1>3. gen' \in Generators /\ gen'.at = "hand" /\ gen'.ready = <<>> /\ gen'.device = device
  <2>1. gen' = [at |-> "hand", ready |-> <<>>, device |-> device]
    BY <1>1 DEF NoGenerator
  <2>2. gen'.at = "hand" /\ gen'.ready = <<>> /\ gen'.device = device
    BY <2>1, Zenon
  <2>3. <<>> \in Seq(View) /\ "hand" \in Places
    BY DEF Places
  <2>4. gen' \in Generators
    BY <2>1, <2>3, Zenon DEF Generators
  <2> QED BY <2>2, <2>4, Zenon
<1>4. gen.ready = <<>> /\ ~gen.device /\ gen.at = "none"
  BY <1>0, <1>2 DEF Resting, Strays, At
<1>5. \A a : (At(a)' <=> a = "hand") /\ (At(a) <=> a = "none")
  BY <1>3, <1>4 DEF At
<1>6. Streaming' <=> Streaming
  BY <1>0, <1>5 DEF Streaming
<1>7. TypeOK'
  <2>1. cloneStream' \in Streams \cup {0} /\ how' \in Hows
    BY <1>0, <1>1, <1>2 DEF TypeOK, PythonType, WorldType, Hows
  <2> QED BY <1>0, <1>2, <1>3, <2>1 DEF TypeOK, PythonType, WorldType
<1>8. Standing'
  <2>1. NoRing.kind # "device"
    BY DEF NoRing
  <2>2. ring = NoRing => cloneStream' = cloneStream
    BY <1>1, <2>1
  <2> QED BY <1>0, <1>2, <1>3, <1>4, <1>5, <2>2 DEF Standing
<1>9. Resting'
  <2>1. gen'.device => mode'.kind = "device"
    <3>1. NoRing.kind # "device"
      BY DEF NoRing
    <3> QED BY <1>0, <1>1, <1>2, <1>3, <3>1 DEF Standing
  <2> QED BY <1>0, <1>2, <1>5, <1>6, <2>1 DEF Resting, Strays
<1>10. Views' = Views /\ Unhanded' = Unhanded /\ Writes' = Writes
  BY <1>0, <1>3, <1>4 DEF Views, Unhanded, Writes, Strays
<1>11. Apart' /\ Intact' /\ KeptKind' /\ Ended'
  <2>1. how' # "clean"
    BY <1>0
  <2> QED BY <1>0, <1>2, <1>10, <2>1, ApartFrame, IntactFrame, KeptKindFrame, EndedFrame
<1>12. Lent'
  BY <1>0, <1>2, <1>3, <1>4, <1>5, LentFrame
<1>13. InOrder'
  BY <1>0, <1>2, <1>3, <1>4, <1>5, InOrderFrame
<1>14. ASSUME Streaming' PROVE Running'
  <2>1. Supplied'
    BY <1>0, <1>2, <1>5, <1>6, <1>14 DEF Running, Supplied
  <2> QED BY <1>0, <1>2, <1>3, <1>4, <1>5, <1>6, <1>14, <2>1, RunningFrame
<1>15. Clones'
  <2> SUFFICES ASSUME ~astray' PROVE ClonesHome' /\ OnStream'
    BY DEF Clones
  <2>1. ClonesHome
    BY <1>0, <1>2 DEF Clones
  <2>2. ring # NoRing => Streaming
    BY <1>0 DEF Streaming
  <2>3. \A s \in Streams : \A i \in DOMAIN copies[s] : copies[s][i].op # "clone"
    BY <1>4, <2>1, <2>2 DEF ClonesHome
  <2>4. OnStream'
    BY <1>0, <1>1, <1>3 DEF OnStream
  <2> QED BY <1>0, <2>3, <2>4 DEF ClonesHome
<1> QED BY <1>7, <1>8, <1>9, <1>11, <1>12, <1>13, <1>14, <1>15, InvFrom

(* get_chunks() begins.                                                    *)
LEMMA StartStep ==
  ASSUME Inv, Start
  PROVE  Inv'
BY StartRaises, StartHands

(* A stream that ends inside its context has handed over every range.      *)
LEMMA CleanIsWhole ==
  ASSUME Inv, At("hand"), gen.ready = <<>>, live = {}, ring # NoRing
  PROVE  Range(yielded) = 1..N
<1>1. TypeOK /\ Streaming
  BY InvIs DEF Streaming
<1>2. Running
  BY <1>1, InvIs
<1>3. ring.at = N
  BY <1>2 DEF Running, Supplied, At
<1>4. Due = {}
  <2>1. owed = {} /\ Unhanded = {}
    BY <1>2 DEF Running, OwedLive, KeptLive
  <2> QED BY <2>1 DEF Due
<1>5. \A i \in 1..N : i \in Range(yielded)
  BY <1>2, <1>3, <1>4 DEF Running, Covered
<1>6. yielded \in Seq(1..N)
  BY <1>1 DEF TypeOK, WorldType
<1>7. Range(yielded) \subseteq 1..N
  BY <1>6, InRange
<1> QED BY <1>5, <1>7

(* The run has been handed over.                                           *)
LEMMA AwaitStep ==
  ASSUME Inv, Await
  PROVE  Inv'
<1>0. /\ UNCHANGED <<mode, unsettled, handle, sessions, number, ring, live, left, reported, outstanding, order, cloneEvent,
                     cloneStream, owed, stray, mem, copies, held, current, astray, yielded>>
      /\ At("hand") /\ gen.ready = <<>>
      /\ Goes(IF live # {} THEN "wait" ELSE "drain")
      /\ how' = IF live # {} THEN how ELSE IF ring = NoRing THEN "outlived" ELSE "clean"
  BY DEF Await, library
<1>1. /\ TypeOK /\ Standing /\ Resting /\ Apart /\ Intact /\ Lent /\ KeptKind
      /\ InOrder /\ Ended /\ (Streaming => Running) /\ Clones
  BY InvIs
<1>2. gen \in Generators
  BY <1>1 DEF TypeOK, PythonType
<1>3. CASE live = {}
  <2>1. Goes("drain")
    BY <1>0, <1>3
  <2>2. gen' \in Generators /\ gen'.at = "drain" /\ gen'.ready = gen.ready /\ gen'.device = gen.device
    BY <1>2, <2>1, GoesIs DEF Places
  <2>3. At("drain")' /\ how' \in Hows /\ how' # "fresh"
    BY <1>0, <1>3, <2>2 DEF At, Hows
  <2>4. how' = "clean" => Range(yielded) = 1..N
    BY <1>0, <1>3, CleanIsWhole
  <2>5. Ended'
    BY <1>0, <2>4 DEF Ended
  <2>6. /\ reported' \subseteq Ids /\ outstanding' \in Nat /\ stray' \subseteq owed \cup stray
        /\ ring # NoRing => IsFiniteSet(owed') /\ outstanding' = Cardinality(owed')
        /\ owed' \subseteq owed /\ Writes' \subseteq Writes
    BY <1>0, <1>1 DEF TypeOK, PythonType, WorldType, Standing, Writes, Strays
  <2> QED BY <1>0, <2>2, <2>3, <2>5, <2>6, ToDrain
<1>4. CASE live # {}
  <2>1. Goes("wait") /\ how' = how
    BY <1>0, <1>4
  <2>2. gen' \in Generators /\ gen'.at = "wait" /\ gen'.ready = gen.ready /\ gen'.device = gen.device
    BY <1>2, <2>1, GoesIs DEF Places
  <2>3. \A a : (At(a)' <=> a = "wait") /\ (At(a) <=> a = "hand")
    BY <1>0, <2>2 DEF At
  <2>4. Streaming' <=> Streaming
    BY <1>0, <2>3 DEF Streaming
  <2>5. TypeOK'
    BY <1>0, <1>1, <2>1, <2>2 DEF TypeOK, PythonType, WorldType
  <2>6. Standing'
    BY <1>0, <1>1, <2>2, <2>3 DEF Standing
  <2>7. Resting'
    BY <1>0, <1>1, <1>4, <2>1, <2>2, <2>3, <2>4 DEF Resting, Strays
  <2>8. Views' = Views /\ Unhanded' = Unhanded /\ Writes' = Writes
    BY <1>0, <2>2 DEF Views, Unhanded, Writes, Strays
  <2>9. Apart' /\ Intact' /\ KeptKind' /\ Ended'
    BY <1>0, <1>1, <2>1, <2>8, ApartFrame, IntactFrame, KeptKindFrame, EndedFrame
  <2>10. Lent'
    BY <1>0, <1>1, <2>2, <2>3, LentFrame
  <2>11. InOrder'
    BY <1>0, <1>1, <2>2, <2>3, InOrderFrame
  <2>12. ASSUME Streaming' PROVE Running'
    <3>1. Supplied'
      BY <1>0, <1>4 DEF Supplied
    <3> QED BY <1>0, <1>1, <2>2, <2>3, <2>4, <2>12, <3>1, RunningFrame
  <2>13. Clones'
    <3>1. ~astray => OnStream'
      BY <1>0, <1>1, <2>2, <2>3 DEF Clones, OnStream
    <3> QED BY <1>0, <1>1, <2>2, <2>4, <2>8, <3>1, ClonesFrame
  <2> QED BY <2>5, <2>6, <2>7, <2>9, <2>10, <2>11, <2>12, <2>13, InvFrom
<1> QED BY <1>3, <1>4

(* A slot is free for reuse only after the clones out of it.               *)
LEMMA SlotIsClear ==
  ASSUME TypeOK, Streaming, ClonesHome, NEW slot,
         slot \in Range(ring.free) \/ (slot \in Range(ring.pending) /\ EventDone(slot))
  PROVE  \A s \in Streams : \A i \in DOMAIN copies[s] :
           copies[s][i].op = "clone" => copies[s][i].of.slot # slot
<1> SUFFICES ASSUME NEW s \in Streams, NEW i \in DOMAIN copies[s], copies[s][i].op = "clone",
                    copies[s][i].of.slot = slot
             PROVE  FALSE
  OBVIOUS
<1>1. slot \notin Range(ring.free) /\ (slot \in Range(ring.pending) => EventAfter(s, i, slot))
  BY DEF ClonesHome
<1>2. EventDone(slot) /\ EventAfter(s, i, slot)
  BY <1>1
<1>3. PICK j \in DOMAIN copies[s] : copies[s][j] = Event(slot)
  BY <1>2 DEF EventAfter
<1>4. copies[s] \in Seq(Entry)
  BY DEF TypeOK, WorldType
<1>5. Contains(copies[s], Event(slot))
  BY <1>3, <1>4 DEF Contains
<1> QED BY <1>2, <1>5 DEF EventDone

(* Clones when the queues move on and at most a cleared slot is filled.    *)
LEMMA ClonesSwept ==
  ASSUME TypeOK, Streaming, ~astray' => ~astray, unsettled' = unsettled, ~astray => ClonesHome /\ OnStream',
         ring' # NoRing, mem' = mem, copies' = copies, cloneStream' = cloneStream,
         cloneEvent' = cloneEvent, live \subseteq live', gen'.device = gen.device,
         \A k \in Range(ring'.free) : k \in Range(ring.free) \/ (k \in Range(ring.pending) /\ EventDone(k)),
         Range(ring'.pending) \subseteq Range(ring.pending),
         \A k \in Slots : \/ ring'.slots[k] = ring.slots[k]
                          \/ k \in Range(ring.free) \/ (k \in Range(ring.pending) /\ EventDone(k)),
         \A w \in Writes' : w \in Writes \/ \E k \in Slots :
             /\ k \in Range(ring.free) \/ (k \in Range(ring.pending) /\ EventDone(k))
             /\ w.buf = ring'.slots[k],
         SlotsApart', ring'.slots \in [Slots -> Buffers \cup {0}]
  PROVE  Clones'
<1> SUFFICES ASSUME ~astray' PROVE ClonesHome' /\ OnStream'
  BY DEF Clones
<1>1. ClonesHome /\ OnStream'
  OBVIOUS
<1>2. \A s, i, k : EventAfter(s, i, k)' <=> EventAfter(s, i, k)
  BY DEF EventAfter, Event
<1>3. ASSUME NEW s \in Streams, NEW i \in DOMAIN copies[s], copies[s][i].op = "clone",
             NEW c, c = copies[s][i].of
      PROVE  /\ s = cloneStream /\ c.buf = ring'.slots[c.slot]
             /\ ~unsettled => mem[c.buf][c.cell] = c.tag
             /\ \A x \in Writes' : ~SamePlace(x, c)
             /\ cloneEvent # 0 => EventAfter(s, i, cloneEvent)' \/ live' # {}
             /\ gen'.device /\ c.slot \notin Range(ring'.free)
             /\ c.slot \in Range(ring'.pending) => EventAfter(s, i, c.slot)'
  <2>1. /\ s = cloneStream /\ c.buf = ring.slots[c.slot]
        /\ ~unsettled => mem[c.buf][c.cell] = c.tag
        /\ \A x \in Writes : ~SamePlace(x, c)
        /\ cloneEvent # 0 => EventAfter(s, i, cloneEvent) \/ live # {}
        /\ gen.device
        /\ c.slot \in Range(ring.pending) => EventAfter(s, i, c.slot)
    BY <1>1, <1>3 DEF ClonesHome
  <2>2. c \in View /\ c.slot \in Slots /\ c.buf \in Buffers
    BY <1>3, CloneTypes DEF View
  <2>3. ASSUME NEW k, k \in Range(ring.free) \/ (k \in Range(ring.pending) /\ EventDone(k))
        PROVE  c.slot # k
    BY <1>1, <1>3, <2>3, SlotIsClear
  <2>4. c.slot \notin Range(ring'.free)
    BY <2>3
  <2>5. ring'.slots[c.slot] = ring.slots[c.slot]
    BY <2>2, <2>3
  <2>6. c.buf # 0
    BY <2>2, WindowAssumption DEF Buffers
  <2>7. ASSUME NEW x \in Writes', x \notin Writes PROVE ~SamePlace(x, c)
    <3>1. PICK k \in Slots : /\ k \in Range(ring.free) \/ (k \in Range(ring.pending) /\ EventDone(k))
                             /\ x.buf = ring'.slots[k]
      BY <2>7
    <3>2. k # c.slot
      BY <2>3, <3>1
    <3>3. ring'.slots[c.slot] = c.buf
      BY <2>1, <2>5
    <3>4. x.buf # c.buf
      BY <2>2, <2>6, <3>1, <3>2, <3>3 DEF SlotsApart
    <3> QED BY <3>4 DEF SamePlace
  <2>8. cloneEvent # 0 => EventAfter(s, i, cloneEvent)' \/ live' # {}
    <3>1. EventAfter(s, i, cloneEvent) => EventAfter(s, i, cloneEvent)'
      BY DEF EventAfter, Event
    <3>2. live # {} => live' # {}
      OBVIOUS
    <3> QED BY <2>1, <3>1, <3>2
  <2>9. c.slot \in Range(ring'.pending) => EventAfter(s, i, c.slot)'
    BY <1>2, <2>1
  <2> QED BY <2>1, <2>4, <2>5, <2>7, <2>8, <2>9
<1>4. ClonesHome'
  BY <1>3 DEF ClonesHome, SamePlace
<1> QED BY <1>1, <1>4

(* stream_files(): a new ring, in memory no tensor is a view of.           *)
LEMMA StreamFilesStep ==
  ASSUME Inv, StreamFiles
  PROVE  Inv'
<1>0. /\ UNCHANGED <<mode, handle, sessions, live, outstanding, owed, stray, mem, copies, held, current, astray>>
      /\ At("none") /\ handle # 0 /\ unsettled' = (unsettled \/ stray # {})
      /\ live = {} /\ outstanding = 0 /\ CopiesWaited
      /\ order' = [NoOrder EXCEPT !.on = mode.ordered]
      /\ number' = number + 1 /\ left' = <<>> /\ reported' = {} /\ yielded' = <<>> /\ how' = "fresh"
      /\ cloneEvent' = 0 /\ cloneStream' = 0 /\ Goes("fill")
  BY DEF StreamFiles, library
<1>1. /\ TypeOK /\ Standing /\ Resting /\ Apart /\ Intact /\ Lent /\ KeptKind
      /\ InOrder /\ Ended
  BY InvIs
<1>2. PICK new \in NewSlots :
        ring' = [kind |-> mode.kind, home |-> current, at |-> 0, free |-> [i \in 1..Depth |-> i],
                 pending |-> <<>>, slots |-> new]
  <2>1. NewSlots # {}
    BY DEF StreamFiles
  <2>2. (CHOOSE s \in NewSlots : TRUE) \in NewSlots
    BY <2>1
  <2> QED BY <2>2 DEF StreamFiles
<1>3. /\ new \in [Slots -> Buffers] /\ IsInjective(new) /\ DOMAIN new = Slots
      /\ \A k \in Slots : \A v \in Views : v.buf # new[k]
  BY <1>2 DEF NewSlots, Slots
<1>4. PICK f : f = [i \in 1..Depth |-> i]
  OBVIOUS
<1>5. f \in Seq(Slots) /\ Len(f) = Depth /\ DOMAIN f = Slots /\ \A i \in Slots : f[i] = i
  <2>1. f \in [1..Depth -> Slots] /\ Depth \in Nat
    BY <1>4, WindowAssumption DEF Slots
  <2> QED BY <2>1, <1>4, IsSeq DEF Slots
<1>6. mode.kind \in Kinds /\ mode.ordered \in BOOLEAN /\ current \in Streams
  BY <1>1, WindowAssumption DEF TypeOK, PythonType, WorldType, Kinds
<1>7. /\ ring'.kind = mode.kind /\ ring'.at = 0 /\ ring'.free = f /\ ring'.pending = <<>>
      /\ ring'.slots = new /\ ring' \in Ring
  <2>1. ring' = [kind |-> mode.kind, home |-> current, at |-> 0, free |-> f,
                 pending |-> <<>>, slots |-> new]
    BY <1>2, <1>4
  <2>2. 0 \in 0..N /\ <<>> \in Seq(Slots) /\ new \in [Slots -> Buffers \cup {0}]
    BY RangeTypes, <1>3
  <2> QED BY <2>1, <2>2, <1>5, <1>6 DEF Ring
<1>8. ring' # NoRing
  <2>1. NoRing.kind = "none"
    BY DEF NoRing
  <2>2. ring'.kind # "none"
    BY <1>6, <1>7 DEF Kinds
  <2> QED BY <2>1, <2>2
<1>9. gen \in Generators /\ gen.ready = <<>> /\ ~gen.device
  BY <1>0, <1>1 DEF TypeOK, PythonType, Resting, Strays
<1>10. gen' \in Generators /\ gen'.at = "fill" /\ gen'.ready = <<>> /\ ~gen'.device
  BY <1>0, <1>9, GoesIs DEF Places
<1>11. \A a : At(a)' <=> a = "fill"
  BY <1>10 DEF At
<1>12. order' \in Order /\ order'.on = mode.ordered /\ order'.next = 1 /\ order'.parked = {}
  <2>1. order' = [on |-> mode.ordered, next |-> 1, parked |-> {}]
    BY <1>0 DEF NoOrder
  <2>2. 1 \in Ids /\ {} \in SUBSET View
    BY DEF Ids
  <2> QED BY <2>1, <2>2, <1>6 DEF Order
<1>13. owed = {} /\ Strays' = {}
  <2>1. ring = NoRing => owed = {}
    BY <1>1 DEF Standing
  <2>2. ring # NoRing => IsFiniteSet(owed) /\ Cardinality(owed) = 0
    BY <1>0, <1>1 DEF Standing
  <2>3. owed = {}
    BY <2>1, <2>2, FS_EmptySet
  <2>4. Strays' = {}
    BY <1>0 DEF Strays
  <2> QED BY <2>3, <2>4
<1>14. Range(gen'.ready) = {}
  BY <1>10 DEF Range
<1>15. Views' \subseteq Views /\ Unhanded' = {} /\ Writes' = {} /\ Due' = {}
  BY <1>0, <1>12, <1>13, <1>14 DEF Views, Unhanded, Writes, Due
<1>16. TypeOK'
  <2>1. number' \in Nat /\ left' \in Seq(Int) /\ yielded' \in Seq(1..N) /\ how' \in Hows
    BY <1>0, <1>1 DEF TypeOK, PythonType, Hows
  <2>2. unsettled' \in BOOLEAN
    BY <1>0
  <2> QED BY <1>0, <1>1, <1>7, <1>10, <1>12, <2>1, <2>2 DEF TypeOK, PythonType, WorldType
<1>17. Standing'
  <2>1. IsFiniteSet(owed') /\ Cardinality(owed') = 0
    BY <1>0, <1>13, FS_EmptySet
  <2> QED BY <1>0, <1>7, <1>8, <1>11, <2>1 DEF Standing
<1>18. Resting'
  BY <1>0, <1>10, <1>11, <1>13 DEF Resting
<1>19. Apart' /\ KeptKind'
  BY <1>0, <1>13, <1>15 DEF Apart, KeptKind
<1>20. Intact' /\ Ended'
  <2>1. unsettled => unsettled'
    BY <1>0
  <2> QED BY <1>0, <1>1, <1>15, <2>1, IntactFrame DEF Ended
<1>21. Lent'
  BY <1>0, <1>1 DEF Lent, At
<1>22. InOrder'
  <2>1. DOMAIN yielded' = {} /\ DOMAIN gen'.ready = {} /\ Len(gen'.ready) = 0
    BY <1>0, <1>10
  <2> QED BY <1>0, <1>11, <1>12, <1>15, <2>1 DEF InOrder, IsInjective
<1>23. Running'
  <2>1. LiveSlots' /\ OwedLive' /\ KeptLive' /\ DueOnce' /\ DueRange' /\ Counted' /\ NotAgain'
    BY <1>0, <1>13, <1>15 DEF LiveSlots, OwedLive, KeptLive, DueOnce, DueRange, Counted, NotAgain
  <2>2. SlotsApart'
    BY <1>3, <1>7 DEF SlotsApart, IsInjective
  <2>3. Range(<<>>) = {} /\ Range(f) \subseteq Slots
    BY <1>5 DEF Range
  <2>4. QueuesApart'
    BY <1>5, <1>7, <2>3 DEF QueuesApart, Once
  <2>5. Spare'
    BY <1>3, <1>7, <1>15, <2>3 DEF Spare
  <2>6. Covered' /\ YieldedRange' /\ Supplied'
    BY <1>0, <1>7, <1>11 DEF Covered, YieldedRange, Supplied
  <2>7. NextIsDue'
    <3>1. Given' = 0
      BY <1>0, <1>11 DEF Given
    <3> QED BY <1>10, <1>12, <3>1 DEF NextIsDue
  <2> QED BY <2>1, <2>2, <2>4, <2>5, <2>6, <2>7 DEF Running
<1>24. Clones'
  <2> SUFFICES ASSUME ~astray' PROVE ClonesHome' /\ OnStream'
    BY DEF Clones
  <2>1. \A s \in Streams : \A i \in DOMAIN copies[s] : copies[s][i].op # "clone"
    BY <1>0, NoneLeft
  <2> QED BY <1>0, <1>10, <2>1 DEF ClonesHome, OnStream
<1> QED BY <1>16, <1>17, <1>18, <1>19, <1>20, <1>21, <1>22, <1>23, <1>24, InvFrom

(* While the ring is filled the stream is running.                         *)
LEMMA FillingIs ==
  ASSUME Inv, Filling
  PROVE  /\ Streaming /\ Running /\ ring \in Ring /\ ring # NoRing /\ handle # 0 /\ Strays = {}
         /\ QueuesApart
<1>1. TypeOK /\ Standing /\ Resting /\ (Streaming => Running)
  BY InvIs
<1>2. ring # NoRing
  BY <1>1 DEF Filling, Standing
<1>3. Streaming
  BY <1>2 DEF Streaming, Filling
<1> QED BY <1>1, <1>2, <1>3 DEF TypeOK, PythonType, Standing, Resting, Strays, Running

(* Where filling leads: back to the caller or on to handing over.          *)
LEMMA ReturnsIs ==
  ASSUME Inv, Filling, Returns
  PROVE  /\ gen' \in Generators /\ gen'.ready = gen.ready /\ gen'.device = gen.device
         /\ \/ At("fill") /\ gen'.at = "none"
            \/ At("refill") /\ gen'.at = "hand"
<1>1. gen \in Generators
  BY InvIs DEF PythonType
<1>2. CASE At("fill")
  <2>1. Goes("none")
    BY <1>2 DEF Returns
  <2> QED BY <1>1, <1>2, <2>1, GoesIs DEF Places
<1>3. CASE At("refill")
  <2>1. Goes("hand")
    BY <1>3 DEF Returns, At
  <2> QED BY <1>1, <1>3, <2>1, GoesIs DEF Places
<1> QED BY <1>2, <1>3 DEF Filling

(* The ring is full, or there is nothing left to ask for.                  *)
LEMMA EndFillStep ==
  ASSUME Inv, EndFill
  PROVE  Inv'
<1>0. /\ UNCHANGED <<mode, unsettled, handle, sessions, number, live, left, reported, outstanding, order, cloneEvent,
                     cloneStream, owed, stray, mem, copies, held, current, astray, yielded, how>>
      /\ Filling /\ Filled /\ ring' = Swept(ring) /\ Returns
  BY DEF EndFill, library, consumer
<1>1. /\ TypeOK /\ Standing /\ Resting /\ Apart /\ Intact /\ Lent /\ KeptKind
      /\ InOrder /\ Ended /\ Clones
  BY InvIs
<1>2. /\ Streaming /\ Running /\ ring \in Ring /\ ring # NoRing /\ handle # 0 /\ Strays = {}
      /\ QueuesApart
  BY <1>0, FillingIs
<1>3. PICK r : r = Swept(ring)
  OBVIOUS
<1>4. /\ r \in Ring /\ r.kind = ring.kind /\ r.home = ring.home /\ r.at = ring.at
      /\ r.slots = ring.slots
      /\ Range(r.free) \subseteq Range(ring.free) \cup Range(ring.pending)
      /\ Range(r.pending) \subseteq Range(ring.pending)
      /\ \A k \in Range(r.free) : k \in Range(ring.free) \/ EventDone(k)
      /\ Once(r.free) /\ Once(r.pending) /\ Range(r.free) \cap Range(r.pending) = {}
  BY <1>2, <1>3, SweptIs
<1>5. ring' = r /\ r # NoRing
  <2>1. r.kind # "none"
    BY <1>4 DEF Ring, Kinds
  <2>2. NoRing.kind = "none"
    BY DEF NoRing
  <2> QED BY <1>0, <1>3, <2>1, <2>2
<1>6. /\ gen' \in Generators /\ gen'.ready = gen.ready /\ gen'.device = gen.device
      /\ \/ At("fill") /\ gen'.at = "none" /\ how = "fresh"
         \/ At("refill") /\ gen'.at = "hand" /\ how = "none"
  BY <1>0, <1>1, ReturnsIs DEF Resting, Strays
<1>7. /\ ~At("paused") /\ ~At("drain") /\ ~At("paused")' /\ ~At("drain")' /\ ~At("fill")'
      /\ ~At("refill")' /\ ~At("wait")'
  BY <1>6 DEF At
<1>8. Streaming'
  BY <1>0, <1>5, <1>6 DEF Streaming, At
<1>9. Views' = Views /\ Unhanded' = Unhanded /\ Writes' = Writes /\ Due' = Due
  BY <1>0, <1>6 DEF Views, Unhanded, Writes, Strays, Due
<1>10. TypeOK'
  BY <1>0, <1>1, <1>4, <1>5, <1>6 DEF TypeOK, PythonType, WorldType
<1>11. Standing'
  <2>1. live = {} => outstanding = 0
    <3>1. live = {} => owed = {}
      BY <1>2 DEF Running, OwedLive
    <3>2. outstanding = Cardinality(owed)
      BY <1>1, <1>2 DEF Standing
    <3> QED BY <3>1, <3>2, FS_EmptySet
  <2> QED BY <1>0, <1>1, <1>2, <1>4, <1>5, <1>6, <1>7, <2>1 DEF Standing
<1>12. Resting'
  <2>1. At("none")' => gen'.ready = <<>> /\ ~gen'.device
    BY <1>1, <1>6 DEF Resting, Strays, At
  <2>2. At("hand")' => how' = "none"
    BY <1>0, <1>6 DEF At
  <2>3. gen'.device => mode'.kind = "device"
    BY <1>0, <1>1, <1>6 DEF Resting, Strays
  <2> QED BY <1>0, <1>2, <1>7, <2>1, <2>2, <2>3 DEF Resting, Strays
<1>13. Apart' /\ Intact' /\ KeptKind' /\ Ended'
  BY <1>0, <1>1, <1>4, <1>5, <1>9, ApartFrame, IntactFrame, KeptKindFrame, EndedFrame
<1>14. Lent'
  BY <1>0, <1>1, <1>6, <1>7, LentFrame
<1>15. InOrder'
  BY <1>0, <1>1, <1>6, <1>7, InOrderFrame
<1>16. Running'
  <2>1. LiveSlots'
    BY <1>0, <1>2, <1>4, <1>5 DEF Running, LiveSlots
  <2>2. SlotsApart' /\ QueuesApart'
    BY <1>2, <1>4, <1>5 DEF Running, SlotsApart, QueuesApart
  <2>3. Spare'
    BY <1>2, <1>4, <1>5, <1>9 DEF Running, Spare
  <2>4. OwedLive' /\ KeptLive' /\ DueOnce' /\ DueRange'
    BY <1>0, <1>2, <1>4, <1>5, <1>9 DEF Running, OwedLive, KeptLive, DueOnce, DueRange
  <2>5. Counted'
    <3>1. \A id : DueOf(id)' = DueOf(id)
      BY <1>9 DEF DueOf
    <3> QED BY <1>0, <1>2, <3>1 DEF Running, Counted
  <2>6. Covered' /\ YieldedRange' /\ NotAgain'
    <3>1. Range(yielded)' = Range(yielded)
      BY <1>0 DEF Range
    <3> QED BY <1>0, <1>2, <1>4, <1>5, <1>7, <1>9, <3>1 DEF Running, Covered, YieldedRange, NotAgain
  <2>7. NextIsDue'
    <3>1. Given' = Given
      BY <1>0, <1>7 DEF Given
    <3> QED BY <1>0, <1>2, <1>6, <3>1 DEF Running, NextIsDue
  <2>8. Supplied'
    <3>1. CASE outstanding > 0
      <4>1. outstanding = Cardinality(owed)
        BY <1>1, <1>2 DEF Standing
      <4>2. owed # {}
        BY <3>1, <4>1, FS_EmptySet
      <4>3. live # {}
        BY <4>2, <1>2 DEF Running, OwedLive
      <4> QED BY <1>0, <4>3 DEF Supplied
    <3>2. CASE ring.at = N
      BY <1>4, <1>5, <3>2 DEF Supplied
    <3> QED BY <1>0, <3>1, <3>2 DEF Filled
  <2> QED BY <2>1, <2>2, <2>3, <2>4, <2>5, <2>6, <2>7, <2>8 DEF Running
<1>17. Clones'
  <2>0. ASSUME ~astray PROVE ClonesHome /\ OnStream'
    BY <1>0, <1>1, <1>2, <1>6, <1>7, <2>0 DEF Clones, OnStream
  <2>1. \A k \in Range(ring'.free) : k \in Range(ring.free) \/ (k \in Range(ring.pending) /\ EventDone(k))
    BY <1>4, <1>5
  <2>2. Range(ring'.pending) \subseteq Range(ring.pending) /\ ring' # NoRing
    BY <1>4, <1>5
  <2>3. ring'.slots = ring.slots /\ ring'.slots \in [Slots -> Buffers \cup {0}]
    BY <1>4, <1>5 DEF Ring
  <2>4. SlotsApart'
    BY <1>16 DEF Running
  <2>5. \A w \in Writes' : w \in Writes
    BY <1>9
  <2>6. live \subseteq live' /\ (~astray' => ~astray)
    BY <1>0
  <2> QED BY <1>0, <1>1, <1>2, <1>6, <2>0, <2>1, <2>2, <2>3, <2>4, <2>5, <2>6, ClonesSwept
<1> QED BY <1>10, <1>11, <1>12, <1>13, <1>14, <1>15, <1>16, <1>17, InvFrom

(* A slot taken for the next n ranges: what take() gives is in nobody's    *)
(* use, and the ring is otherwise what it was.                             *)
ForNext(t, slot, buf, n) ==
  /\ n \in 1..(N - ring.at) /\ ring.at \in 0..(N - 1)
  /\ slot \in Slots /\ buf \in Buffers /\ buf # 0
  /\ slot \in Range(ring.free) \/ (slot \in Range(ring.pending) /\ EventDone(slot))
  /\ t \in Ring /\ t # NoRing /\ t.kind = ring.kind /\ t.at = ring.at + n
  /\ t.slots \in [Slots -> Buffers \cup {0}] /\ t.slots[slot] = buf
  /\ \A k \in Slots : k # slot => t.slots[k] = ring.slots[k]
  /\ slot \notin Range(t.free) /\ slot \notin Range(t.pending)
  /\ Range(t.free) \subseteq Range(ring.free) \cup Range(ring.pending)
  /\ Range(t.pending) \subseteq Range(ring.pending)
  /\ \A k \in Range(t.free) : k \in Range(ring.free) \/ (k \in Range(ring.pending) /\ EventDone(k))
  /\ Once(t.free) /\ Once(t.pending) /\ Range(t.free) \cap Range(t.pending) = {}
  /\ \A x \in Writes \cup Views : x.buf # buf
  /\ \A k \in Slots : k # slot => t.slots[k] # buf
  /\ \A w \in Writes : \E k \in Slots : k # slot /\ t.slots[k] = w.buf
  /\ \A q \in live : q.slot # slot

(* take() in a running stream gives such a slot.                           *)
LEMMA TakenFor ==
  ASSUME Inv, Filling, ring.at < N, NEW s, s = Swept(ring), s.free # <<>>, RoomFor(s),
         NEW r, r = Taken(s), NEW slot, slot = Head(s.free), NEW buf, buf = r.slots[slot],
         NEW n, n = NextSpan(ring.at), NEW t, t = [r EXCEPT !.at = ring.at + n]
  PROVE  ForNext(t, slot, buf, n)
<1>1. TypeOK /\ Apart
  BY InvIs
<1>2. /\ Running /\ ring \in Ring /\ Strays = {} /\ QueuesApart
  BY FillingIs
<1>3. /\ r \in Ring /\ r.kind = ring.kind /\ r.home = ring.home /\ r.at = ring.at
      /\ slot \in Slots /\ buf \in Buffers
      /\ r.slots = [ring.slots EXCEPT ![slot] = buf]
      /\ slot \in Range(ring.free) \/ (slot \in Range(ring.pending) /\ EventDone(slot))
      /\ slot \notin Range(r.free) /\ slot \notin Range(r.pending)
      /\ Range(r.free) \subseteq Range(ring.free) \cup Range(ring.pending)
      /\ Range(r.pending) \subseteq Range(ring.pending)
      /\ \A k \in Range(r.free) : k \in Range(ring.free) \/ EventDone(k)
      /\ Once(r.free) /\ Once(r.pending) /\ Range(r.free) \cap Range(r.pending) = {}
      /\ \/ buf = ring.slots[slot]
         \/ (\A i \in Slots : ring.slots[i] # buf) /\ (\A v \in Views : v.buf # buf)
  BY <1>2, TakeIs
<1>4. ring.at \in 0..(N - 1) /\ N \in Nat
  BY <1>2, RangeTypes DEF Ring
<1>5. n \in 1..(N - ring.at)
  BY <1>4, SpanFits
<1>6. buf # 0
  BY <1>3, WindowAssumption DEF Buffers
<1>7. ring.at + n \in 0..N
  BY <1>4, <1>5
<1>8. /\ t \in Ring /\ t.kind = ring.kind /\ t.at = ring.at + n
      /\ t.slots = r.slots /\ t.free = r.free /\ t.pending = r.pending
  BY <1>3, <1>7 DEF Ring
<1>9. t # NoRing
  <2>1. t.kind # "none"
    BY <1>8 DEF Ring, Kinds
  <2>2. NoRing.kind = "none"
    BY DEF NoRing
  <2> QED BY <2>1, <2>2
<1>10. ring.slots \in [Slots -> Buffers \cup {0}]
  BY <1>2 DEF Ring
<1>11. /\ t.slots \in [Slots -> Buffers \cup {0}] /\ t.slots[slot] = buf
       /\ \A k \in Slots : k # slot => t.slots[k] = ring.slots[k]
  BY <1>3, <1>8, <1>10
<1>12. slot \in Range(ring.free) \cup Range(ring.pending)
  BY <1>3
<1>13. \A x \in Writes \cup Views : x.buf # ring.slots[slot]
  BY <1>2, <1>12 DEF Running, Spare
<1>14. \A x \in Writes \cup Views : x.buf # buf
  <2>1. CASE buf = ring.slots[slot]
    BY <1>13, <2>1
  <2>2. CASE (\A i \in Slots : ring.slots[i] # buf) /\ (\A v \in Views : v.buf # buf)
    <3>1. Writes = owed
      BY <1>2 DEF Writes, Strays
    <3>2. \A w \in owed : w.buf # buf
      BY <1>1, <2>2, <3>1 DEF Apart
    <3> QED BY <2>2, <3>1, <3>2
  <2> QED BY <1>3, <2>1, <2>2
<1>15. \A k \in Slots : k # slot => t.slots[k] # buf
  <2>1. CASE buf = ring.slots[slot]
    BY <1>2, <1>3, <1>6, <1>11, <2>1 DEF Running, SlotsApart
  <2>2. CASE \A i \in Slots : ring.slots[i] # buf
    BY <1>11, <2>2
  <2> QED BY <1>3, <2>1, <2>2
<1>16. ASSUME NEW w \in Writes PROVE \E k \in Slots : k # slot /\ t.slots[k] = w.buf
  <2>1. PICK k \in Slots : ring.slots[k] = w.buf
    BY <1>1 DEF Apart
  <2>2. k # slot
    BY <1>13, <2>1
  <2> QED BY <1>11, <2>1, <2>2
<1>17. \A q \in live : q.slot # slot
  BY <1>2, <1>12 DEF Running, LiveSlots
<1>18. \A k \in Range(t.free) : k \in Range(ring.free) \/ (k \in Range(ring.pending) /\ EventDone(k))
  BY <1>3, <1>8
<1> QED BY <1>3, <1>4, <1>5, <1>6, <1>8, <1>9, <1>11, <1>14, <1>15, <1>16, <1>17, <1>18 DEF ForNext

(* A finite set with as many more.                                         *)
LEMMA Joined ==
  ASSUME NEW S, NEW T, IsFiniteSet(S), IsFiniteSet(T), S \cap T = {}
  PROVE  IsFiniteSet(S \cup T) /\ Cardinality(S \cup T) = Cardinality(S) + Cardinality(T)
<1>1. IsFiniteSet(S \cup T)
  BY FS_Union
<1> QED BY <1>1, TwoParts

(* The next request takes a slot and asks for the next ranges.             *)
LEMMA SubmitStep ==
  ASSUME Inv, Submit
  PROVE  Inv'
<1>0. /\ UNCHANGED <<mode, unsettled, handle, sessions, number, reported, order, gen, cloneEvent, cloneStream,
                     stray, mem, copies, held, current, astray, yielded, how>>
      /\ Filling /\ ring.at < N /\ Swept(ring).free # <<>> /\ RoomFor(Swept(ring))
  BY DEF Submit, consumer
<1>1. /\ TypeOK /\ Standing /\ Resting /\ Apart /\ Intact /\ Lent /\ KeptKind
      /\ InOrder /\ Ended /\ Clones
  BY InvIs
<1>2. /\ Streaming /\ Running /\ ring \in Ring /\ ring # NoRing /\ handle # 0 /\ Strays = {}
      /\ QueuesApart
  BY <1>0, FillingIs
<1>3. PICK s : s = Swept(ring)
  OBVIOUS
<1>4. PICK r : r = Taken(s)
  OBVIOUS
<1>5. PICK slot : slot = Head(s.free)
  OBVIOUS
<1>6. PICK buf : buf = r.slots[slot]
  OBVIOUS
<1>7. PICK id : id = Len(left) + 1
  OBVIOUS
<1>8. PICK at : at = ring.at
  OBVIOUS
<1>9. PICK q : q = NewRequest(id, at, slot, buf)
  OBVIOUS
<1>10. PICK S : S = Submitted(q, at)
  OBVIOUS
<1>11. PICK n : n = NextSpan(at)
  OBVIOUS
<1>12. PICK t : t = [r EXCEPT !.at = at + n]
  OBVIOUS
<1>13. /\ n \in 1..(N - at) /\ at \in 0..(N - 1)
       /\ slot \in Slots /\ buf \in Buffers /\ buf # 0
       /\ slot \in Range(ring.free) \/ (slot \in Range(ring.pending) /\ EventDone(slot))
       /\ t \in Ring /\ t # NoRing /\ t.kind = ring.kind /\ t.at = at + n
       /\ t.slots \in [Slots -> Buffers \cup {0}] /\ t.slots[slot] = buf
       /\ \A k \in Slots : k # slot => t.slots[k] = ring.slots[k]
       /\ slot \notin Range(t.free) /\ slot \notin Range(t.pending)
       /\ Range(t.free) \subseteq Range(ring.free) \cup Range(ring.pending)
       /\ Range(t.pending) \subseteq Range(ring.pending)
       /\ \A k \in Range(t.free) : k \in Range(ring.free) \/ (k \in Range(ring.pending) /\ EventDone(k))
       /\ Once(t.free) /\ Once(t.pending) /\ Range(t.free) \cap Range(t.pending) = {}
       /\ \A x \in Writes \cup Views : x.buf # buf
       /\ \A k \in Slots : k # slot => t.slots[k] # buf
       /\ \A w \in Writes : \E k \in Slots : k # slot /\ t.slots[k] = w.buf
       /\ \A x \in live : x.slot # slot
  <2>1. /\ ring.at < N /\ s.free # <<>> /\ RoomFor(s) /\ n = NextSpan(ring.at)
        /\ t = [r EXCEPT !.at = ring.at + n]
    BY <1>0, <1>3, <1>8, <1>11, <1>12
  <2>2. Filling
    BY <1>0
  <2>3. ForNext(t, slot, buf, n)
    BY <1>3, <1>4, <1>5, <1>6, <2>1, <2>2, TakenFor
  <2> QED BY <1>8, <2>3 DEF ForNext
<1>14. left \in Seq(Int) /\ Len(left) \in Nat /\ id \in Ids /\ number \in Nat
  BY <1>1, <1>7 DEF TypeOK, PythonType, Ids
<1>15. q \in Request /\ q.id = id /\ q.slot = slot /\ q.buf = buf /\ q.num = n
  BY <1>9, <1>11, <1>13, <1>14, RequestIs
<1>16. /\ S \subseteq Write /\ IsFiniteSet(S) /\ Cardinality(S) = n
       /\ \A w \in S : /\ w.id = id /\ w.buf = buf /\ w.tag.stream = number
                       /\ w.tag.ord \in (at + 1)..(at + n)
                       /\ w.cell = w.tag.ord - 1 - at
                       /\ Answers(q, w)
       /\ \A i \in (at + 1)..(at + n) : \E w \in S : w.tag.ord = i
       /\ \A w, x \in S : w.tag.ord = x.tag.ord => w = x
  <2>1. at \in 0..(N - 1) /\ id \in Ids /\ slot \in Slots /\ buf \in Buffers /\ number \in Nat
    BY <1>13, <1>14
  <2>2. AsksFor(S, q, at, id, buf)
    BY <1>9, <1>10, <2>1, SubmittedIs
  <2> QED BY <1>15, <2>2, Zenon DEF AsksFor
<1>17. /\ ring' = t /\ live' = live \cup {q} /\ left' = Append(left, n)
       /\ outstanding' = outstanding + n /\ owed' = owed \cup S
  <2>1. /\ ring' = [r EXCEPT !.at = r.at + q.num]
        /\ live' = live \cup {q} /\ left' = Append(left, q.num)
        /\ outstanding' = outstanding + q.num /\ owed' = owed \cup S
    BY <1>3, <1>4, <1>5, <1>6, <1>7, <1>8, <1>9, <1>10 DEF Submit
  <2>2. r.at = at
    BY <1>0, <1>2, <1>3, <1>4, <1>8, TakeIs
  <2> QED BY <2>1, <2>2, <1>12, <1>15
<1>18. /\ left' \in Seq(Int) /\ Len(left') = id /\ left'[id] = n
       /\ \A i \in DOMAIN left : i \in DOMAIN left' /\ i # id /\ left'[i] = left[i]
       /\ id \in DOMAIN left'
  <2>1. n \in Int /\ DOMAIN left = 1..Len(left) /\ id = Len(left) + 1
    BY <1>7, <1>13, <1>14
  <2>2. left' \in Seq(Int) /\ Len(left') = Len(left) + 1 /\ left'[Len(left) + 1] = n
        /\ \A i \in 1..Len(left) : left'[i] = left[i]
    BY <1>14, <1>17, <2>1, Appended
  <2>3. DOMAIN left' = 1..Len(left')
    BY <2>2
  <2> QED BY <1>14, <2>1, <2>2, <2>3
<1>19. Views' = Views /\ Unhanded' = Unhanded /\ Writes' = Writes \cup S /\ Due' = Due \cup S
  BY <1>0, <1>17 DEF Views, Unhanded, Writes, Strays, Due
<1>20. \A a : At(a)' <=> At(a)
  BY <1>0 DEF At
<1>21. At("fill") \/ At("refill")
  BY <1>0 DEF Filling
<1>22. /\ Streaming' /\ (Filling)' /\ ~At("none") /\ ~At("hand") /\ ~At("wait") /\ ~At("paused") /\ ~At("drain")
  BY <1>0, <1>13, <1>17, <1>21 DEF Streaming, At, Filling
<1>23. \A x \in live : x.id \in DOMAIN left /\ x.id # id
  BY <1>2, <1>18 DEF Running, LiveSlots
<1>24. \A x \in Due : x.id # id /\ x.tag.ord \in 1..at
  <2>1. \A x \in Due : x.tag.ord \in 1..at
    BY <1>2, <1>8 DEF Running, DueRange
  <2>2. \A x \in Due : \E p \in live : p.id = x.id
    BY <1>2 DEF Running, Due, OwedLive, KeptLive
  <2> QED BY <1>23, <2>1, <2>2
<1>25. owed \cap S = {}
  BY <1>13, <1>16 DEF Writes, Strays
<1>26. IsFiniteSet(owed') /\ outstanding' = Cardinality(owed') /\ outstanding' \in Nat
  <2>1. IsFiniteSet(owed) /\ outstanding = Cardinality(owed) /\ outstanding \in Nat
    BY <1>1, <1>2 DEF Standing, TypeOK, PythonType
  <2>2. IsFiniteSet(owed \cup S) /\ Cardinality(owed \cup S) = Cardinality(owed) + Cardinality(S)
    BY <1>16, <1>25, <2>1, Joined
  <2> QED BY <1>13, <1>16, <1>17, <2>1, <2>2
<1>27. TypeOK'
  <2>1. live' \subseteq Request
    BY <1>1, <1>15, <1>17 DEF TypeOK, PythonType
  <2>2. owed' \subseteq Write
    BY <1>1, <1>16, <1>17 DEF TypeOK, WorldType
  <2> QED BY <1>0, <1>1, <1>13, <1>17, <1>18, <1>26, <2>1, <2>2 DEF TypeOK, PythonType, WorldType
<1>28. Standing'
  BY <1>0, <1>1, <1>2, <1>13, <1>17, <1>20, <1>22, <1>26 DEF Standing
<1>29. Resting'
  BY <1>0, <1>1, <1>2, <1>20, <1>22 DEF Resting, Strays
<1>30. Apart'
  <2>1. ASSUME NEW w \in Writes', NEW x \in Writes', SamePlace(w, x) PROVE w = x
    <3>1. w.buf = x.buf /\ w.cell = x.cell
      BY <2>1 DEF SamePlace
    <3>2. CASE w \in Writes /\ x \in Writes
      BY <1>1, <2>1, <3>2 DEF Apart
    <3>3. CASE w \in S /\ x \in S
      <4>1. /\ w.tag.ord \in Int /\ x.tag.ord \in Int /\ w.tag.ord - 1 - at = x.tag.ord - 1 - at
        BY <1>13, <1>16, <3>1, <3>3
      <4>2. w.tag.ord = x.tag.ord
        BY <1>13, <4>1
      <4> QED BY <1>16, <3>3, <4>2
    <3>4. CASE (w \in Writes /\ x \in S) \/ (w \in S /\ x \in Writes)
      BY <1>13, <1>16, <3>1, <3>4
    <3> QED BY <1>19, <3>2, <3>3, <3>4
  <2>2. ASSUME NEW w \in Writes', NEW v \in Views PROVE ~SamePlace(w, v)
    <3>1. CASE w \in Writes
      BY <1>1, <3>1 DEF Apart
    <3>2. CASE w \in S
      BY <1>13, <1>16, <3>2 DEF SamePlace
    <3> QED BY <1>19, <3>1, <3>2
  <2>3. ASSUME NEW w \in Writes' PROVE \E k \in Slots : t.slots[k] = w.buf
    BY <1>13, <1>16, <1>19
  <2> QED BY <1>17, <1>19, <2>1, <2>2, <2>3 DEF Apart, SamePlace
<1>31. Intact' /\ KeptKind' /\ Ended'
  BY <1>0, <1>1, <1>19, IntactFrame, KeptKindFrame, EndedFrame
<1>32. Lent'
  BY <1>0, <1>1, <1>20, LentFrame
<1>33. InOrder'
  BY <1>0, <1>1, <1>19, <1>20 DEF InOrder, Given, IsInjective
<1>34. SlotsApart'
  <2> SUFFICES ASSUME NEW i \in Slots, NEW j \in Slots, t.slots[i] # 0, t.slots[i] = t.slots[j]
               PROVE  i = j
    BY <1>17 DEF SlotsApart
  <2>1. CASE i # slot /\ j # slot
    BY <1>2, <1>13, <2>1 DEF Running, SlotsApart
  <2>2. CASE i = slot \/ j = slot
    BY <1>13, <2>2
  <2> QED BY <2>1, <2>2
<1>35. Running'
  <2>1. LiveSlots'
    <3>1. ASSUME NEW x \in live
          PROVE  /\ x.id \in DOMAIN left' /\ x.buf = t.slots[x.slot]
                 /\ x.slot \notin Range(t.free) \cup Range(t.pending)
      <4>1. x.id \in DOMAIN left'
        BY <1>18, <1>23
      <4>2. x.slot \in Slots /\ x.slot # slot
        BY <1>1, <1>13 DEF TypeOK, PythonType, Request
      <4>3. x.buf = ring.slots[x.slot] /\ x.slot \notin Range(ring.free) \cup Range(ring.pending)
        BY <1>2 DEF Running, LiveSlots
      <4> QED BY <1>13, <4>1, <4>2, <4>3
    <3>2. ASSUME NEW x \in live', NEW y \in live', x.id = y.id \/ x.slot = y.slot PROVE x = y
      <4>1. CASE x \in live /\ y \in live
        BY <1>2, <3>2, <4>1 DEF Running, LiveSlots
      <4>2. CASE x = q \/ y = q
        BY <1>13, <1>15, <1>17, <1>23, <3>2, <4>2
      <4> QED BY <1>17, <4>1, <4>2
    <3>3. /\ q.id \in DOMAIN left' /\ q.buf = t.slots[q.slot]
          /\ q.slot \notin Range(t.free) \cup Range(t.pending)
      BY <1>13, <1>15, <1>18
    <3>4. \A x \in live' : /\ x.id \in DOMAIN left' /\ x.buf = t.slots[x.slot]
                           /\ x.slot \notin Range(t.free) \cup Range(t.pending)
      BY <1>17, <3>1, <3>3
    <3> QED BY <1>17, <3>2, <3>4 DEF LiveSlots
  <2>2. QueuesApart'
    BY <1>13, <1>17 DEF QueuesApart
  <2>3. Spare'
    <3> SUFFICES ASSUME NEW k \in Range(t.free) \cup Range(t.pending), NEW x \in Writes' \cup Views'
                 PROVE  x.buf # t.slots[k]
      BY <1>17 DEF Spare
    <3>1. k \in Range(ring.free) \cup Range(ring.pending) /\ k # slot
      BY <1>13
    <3>2. k \in Slots
      <4>1. t.free \in Seq(Slots) /\ t.pending \in Seq(Slots)
        BY <1>13 DEF Ring
      <4> QED BY <4>1, InRange
    <3>3. t.slots[k] = ring.slots[k] /\ t.slots[k] # buf
      BY <1>13, <3>1, <3>2
    <3>4. CASE x \in Writes \cup Views
      BY <1>2, <3>1, <3>3, <3>4 DEF Running, Spare
    <3>5. CASE x \in S
      BY <1>16, <3>3, <3>5
    <3> QED BY <1>19, <3>4, <3>5
  <2>4. OwedLive'
    <3>1. ASSUME NEW w \in owed'
          PROVE  (\E x \in live' : x.id = w.id /\ Answers(x, w)) /\ w.tag.stream = number
      <4>1. CASE w \in owed
        BY <1>2, <1>17, <4>1 DEF Running, OwedLive
      <4>2. CASE w \in S
        BY <1>15, <1>16, <1>17, <4>2
      <4> QED BY <1>17, <4>1, <4>2
    <3> QED BY <1>0, <3>1 DEF OwedLive, Answers, CellOf, Ordinal, Resolve, FirstOrdinal
  <2>5. KeptLive'
    BY <1>2, <1>17, <1>19 DEF Running, KeptLive
  <2>6. DueOnce'
    <3> SUFFICES ASSUME NEW x \in Due', NEW y \in Due', x.tag.ord = y.tag.ord PROVE x = y
      BY DEF DueOnce
    <3>1. CASE x \in Due /\ y \in Due
      BY <1>2, <3>1 DEF Running, DueOnce
    <3>2. CASE x \in S /\ y \in S
      BY <1>16, <3>2
    <3>3. CASE (x \in Due /\ y \in S) \/ (x \in S /\ y \in Due)
      BY <1>13, <1>16, <1>24, <3>3
    <3> QED BY <1>19, <3>1, <3>2, <3>3
  <2>7. DueRange'
    <3>1. ASSUME NEW x \in Due' PROVE x.tag.ord \in 1..(at + n)
      <4>1. CASE x \in Due
        BY <1>13, <1>24, <4>1
      <4>2. CASE x \in S
        BY <1>13, <1>16, <4>2
      <4> QED BY <1>19, <4>1, <4>2
    <3> QED BY <1>13, <1>17, <3>1 DEF DueRange
  <2>8. Counted'
    <3> SUFFICES ASSUME NEW x \in live'
                 PROVE  /\ IsFiniteSet(DueOf(x.id)') /\ left'[x.id] = Cardinality(DueOf(x.id)')
                        /\ DueOf(x.id)' # {}
      BY DEF Counted
    <3>1. CASE x \in live
      <4>1. {y \in Due' : y.id = x.id} = {y \in Due : y.id = x.id}
        BY <1>16, <1>19, <1>23, <3>1
      <4>2. DueOf(x.id)' = DueOf(x.id)
        BY <4>1 DEF DueOf
      <4> QED BY <1>2, <1>18, <1>23, <3>1, <4>2 DEF Running, Counted
    <3>2. CASE x = q
      <4>1. {y \in Due' : y.id = id} = S
        BY <1>16, <1>19, <1>24
      <4>2. {y.tag.ord : y \in S} = (at + 1)..(at + n)
        BY <1>16
      <4>3. DueOf(x.id)' = (at + 1)..(at + n)
        BY <1>15, <3>2, <4>1, <4>2 DEF DueOf
      <4>4. IsFiniteSet((at + 1)..(at + n)) /\ Cardinality((at + 1)..(at + n)) = n
        <5>1. at + 1 \in Int /\ at + n \in Int /\ ~(at + 1 > at + n) /\ (at + n) - (at + 1) + 1 = n
          BY <1>13, RangeTypes
        <5> QED BY <5>1, FS_Interval
      <4>5. at + 1 \in (at + 1)..(at + n)
        BY <1>13
      <4> QED BY <1>15, <1>18, <3>2, <4>3, <4>4, <4>5
    <3> QED BY <1>17, <3>1, <3>2
  <2>9. Range(yielded)' = Range(yielded)
    BY <1>0 DEF Range
  <2>10. Covered'
    <3>1. ASSUME NEW i \in 1..(at + n)
          PROVE  i \in Range(yielded) \/ \E x \in Due' : x.tag.ord = i
      <4>1. CASE i \in 1..at
        <5>1. i \in Range(yielded) \/ \E x \in Due : x.tag.ord = i
          BY <1>2, <1>8, <4>1 DEF Running, Covered
        <5> QED BY <1>19, <5>1
      <4>2. CASE i \in (at + 1)..(at + n)
        BY <1>16, <1>19, <4>2
      <4> QED BY <1>13, <4>1, <4>2
    <3> QED BY <1>13, <1>17, <2>9, <3>1 DEF Covered
  <2>11. NotAgain'
    <3>1. ASSUME NEW x \in Due' PROVE x.tag.ord \notin Range(yielded)
      <4>1. CASE x \in Due
        BY <1>2, <1>22, <4>1 DEF Running, NotAgain
      <4>2. CASE x \in S
        <5>1. yielded \in Seq(1..N)
          BY <1>1 DEF TypeOK, WorldType
        <5>2. \A i \in DOMAIN yielded : yielded[i] <= at
          BY <1>2, <1>8 DEF Running, YieldedRange
        <5>3. \A o \in Range(yielded) : o <= at
          BY <5>2 DEF Range
        <5>4. x.tag.ord > at /\ x.tag.ord \in Int
          BY <1>13, <1>16, <4>2
        <5> QED BY <1>13, <5>3, <5>4
      <4> QED BY <1>19, <4>1, <4>2
    <3> QED BY <2>9, <3>1 DEF NotAgain
  <2>12. YieldedRange'
    <3>1. \A i \in DOMAIN yielded : yielded[i] \in Int /\ yielded[i] <= at
      <4>1. yielded \in Seq(1..N) /\ N \in Nat
        BY <1>1, RangeTypes DEF TypeOK, WorldType
      <4>2. \A i \in DOMAIN yielded : yielded[i] <= at
        BY <1>2, <1>8 DEF Running, YieldedRange
      <4> QED BY <4>1, <4>2
    <3>2. \A i \in DOMAIN yielded : yielded[i] <= at + n
      BY <1>13, <3>1
    <3> QED BY <1>0, <1>13, <1>17, <3>2 DEF YieldedRange
  <2>13. NextIsDue'
    <3>1. Given' = Given
      BY <1>0, <1>20 DEF Given
    <3> QED BY <1>0, <1>2, <3>1 DEF Running, NextIsDue
  <2>14. Supplied'
    BY <1>20, <1>21 DEF Supplied
  <2> QED BY <1>34, <2>1, <2>2, <2>3, <2>4, <2>5, <2>6, <2>7, <2>8, <2>10, <2>11, <2>12, <2>13, <2>14
          DEF Running
<1>36. Clones'
  <2>0. ASSUME ~astray PROVE ClonesHome /\ OnStream'
    BY <1>0, <1>1, <1>2, <1>20, <2>0 DEF Clones, OnStream
  <2>1. \A k \in Range(ring'.free) : k \in Range(ring.free) \/ (k \in Range(ring.pending) /\ EventDone(k))
    BY <1>13, <1>17
  <2>2. Range(ring'.pending) \subseteq Range(ring.pending) /\ ring' # NoRing
    BY <1>13, <1>17
  <2>3. /\ ring'.slots \in [Slots -> Buffers \cup {0}]
        /\ \A k \in Slots : \/ ring'.slots[k] = ring.slots[k]
                            \/ k \in Range(ring.free) \/ (k \in Range(ring.pending) /\ EventDone(k))
    BY <1>13, <1>17
  <2>4. \A w \in Writes' : w \in Writes \/ \E k \in Slots :
             /\ k \in Range(ring.free) \/ (k \in Range(ring.pending) /\ EventDone(k))
             /\ w.buf = ring'.slots[k]
    BY <1>13, <1>16, <1>17, <1>19
  <2>5. live \subseteq live' /\ (~astray' => ~astray) /\ gen'.device = gen.device
    BY <1>0, <1>17
  <2> QED BY <1>0, <1>1, <1>2, <1>34, <2>0, <2>1, <2>2, <2>3, <2>4, <2>5, ClonesSwept
<1> QED BY <1>27, <1>28, <1>29, <1>30, <1>31, <1>32, <1>33, <1>35, <1>36, InvFrom

(* runai_request refuses: the slot is lost to the ring, and nothing more   *)
(* is asked for.                                                           *)
LEMMA SubmitRefusedStep ==
  ASSUME Inv, SubmitRefused
  PROVE  Inv'
<1>0. /\ UNCHANGED <<mode, unsettled, handle, sessions, number, live, left, reported, outstanding, order, cloneEvent,
                     cloneStream, owed, stray, mem, copies, held, current, astray, yielded>>
      /\ Filling /\ ring.at < N /\ Swept(ring).free # <<>> /\ RoomFor(Swept(ring))
      /\ ring' = [Taken(Swept(ring)) EXCEPT !.at = @ + NextSpan(ring.at)]
      /\ Goes(IF At("fill") THEN "none" ELSE "drain")
      /\ how' = IF At("fill") THEN "refused" ELSE "raised"
  BY DEF SubmitRefused, library
<1>1. /\ TypeOK /\ Standing /\ Resting /\ Apart /\ Intact /\ Lent /\ KeptKind
      /\ InOrder /\ Ended /\ Clones /\ gen \in Generators
  BY InvIs DEF PythonType
<1>2. /\ Streaming /\ Running /\ ring \in Ring /\ ring # NoRing /\ handle # 0 /\ Strays = {}
      /\ QueuesApart
  BY <1>0, FillingIs
<1>3. PICK s : s = Swept(ring)
  OBVIOUS
<1>4. PICK r : r = Taken(s)
  OBVIOUS
<1>5. PICK slot : slot = Head(s.free)
  OBVIOUS
<1>6. PICK buf : buf = r.slots[slot]
  OBVIOUS
<1>7. PICK n : n = NextSpan(ring.at)
  OBVIOUS
<1>8. PICK t : t = [r EXCEPT !.at = ring.at + n]
  OBVIOUS
<1>9. ForNext(t, slot, buf, n)
  <2>1. Filling /\ ring.at < N /\ s.free # <<>> /\ RoomFor(s)
    BY <1>0, <1>3
  <2> QED BY <1>3, <1>4, <1>5, <1>6, <1>7, <1>8, <2>1, TakenFor
<1>10. ring' = t
  <2>1. r.at = ring.at
    BY <1>0, <1>2, <1>3, <1>4, TakeIs
  <2>2. ring' = [r EXCEPT !.at = r.at + n]
    BY <1>0, <1>3, <1>4, <1>7
  <2> QED BY <1>8, <2>1, <2>2
<1>11. /\ gen' \in Generators /\ gen'.ready = gen.ready /\ gen'.device = gen.device
       /\ \/ At("fill") /\ gen'.at = "none" /\ how' = "refused"
          \/ At("refill") /\ gen'.at = "drain" /\ how' = "raised"
  <2>1. CASE At("fill")
    <3>1. Goes("none") /\ how' = "refused"
      BY <1>0, <2>1
    <3> QED BY <1>1, <2>1, <3>1, GoesIs DEF Places
  <2>2. CASE ~At("fill")
    <3>1. Goes("drain") /\ how' = "raised" /\ At("refill")
      BY <1>0, <2>2 DEF Filling
    <3> QED BY <1>1, <3>1, GoesIs DEF Places
  <2> QED BY <2>1, <2>2
<1>12. /\ ~At("paused") /\ ~At("drain") /\ ~At("paused")' /\ ~At("fill")' /\ ~At("refill")'
       /\ ~At("wait")' /\ ~At("hand")'
       /\ At("none")' => At("fill")
       /\ At("none")' \/ At("drain")'
  BY <1>11 DEF At
<1>13. ~Streaming'
  BY <1>11, <1>12 DEF Streaming
<1>14. Views' = Views /\ Unhanded' = Unhanded /\ Writes' = Writes
  BY <1>0, <1>11 DEF Views, Unhanded, Writes, Strays
<1>15. TypeOK'
  <2>1. ring' \in Ring /\ how' \in Hows
    BY <1>9, <1>10, <1>11 DEF ForNext, Hows
  <2> QED BY <1>0, <1>1, <1>11, <2>1 DEF TypeOK, PythonType, WorldType
<1>16. Standing'
  <2>1. live = {} => outstanding = 0
    <3>1. live = {} => owed = {}
      BY <1>2 DEF Running, OwedLive
    <3>2. outstanding = Cardinality(owed)
      BY <1>1, <1>2 DEF Standing
    <3> QED BY <3>1, <3>2, FS_EmptySet
  <2>2. ring' # NoRing /\ ring'.kind = ring.kind
    BY <1>9, <1>10 DEF ForNext
  <2> QED BY <1>0, <1>1, <1>2, <2>1, <2>2 DEF Standing
<1>17. Resting'
  <2>1. At("none")' => gen'.ready = <<>> /\ ~gen'.device
    BY <1>1, <1>11, <1>12 DEF Resting, Strays
  <2>2. how' # "fresh"
    BY <1>11
  <2>3. gen'.device => mode'.kind = "device"
    BY <1>0, <1>1, <1>11 DEF Resting, Strays
  <2> QED BY <1>12, <1>13, <2>1, <2>2, <2>3 DEF Resting, Strays
<1>18. Apart'
  <2>1. \A w \in Writes : \E k \in Slots : t.slots[k] = w.buf
    BY <1>9 DEF ForNext
  <2> QED BY <1>0, <1>1, <1>10, <1>14, <2>1 DEF Apart, SamePlace
<1>19. Intact' /\ KeptKind'
  BY <1>0, <1>1, <1>14, IntactFrame, KeptKindFrame
<1>20. Ended'
  BY <1>11 DEF Ended
<1>21. Lent'
  BY <1>0, <1>1, <1>11, <1>12, LentFrame
<1>22. InOrder'
  BY <1>0, <1>1, <1>11, <1>12, InOrderFrame
<1>23. SlotsApart'
  <2> SUFFICES ASSUME NEW i \in Slots, NEW j \in Slots, t.slots[i] # 0, t.slots[i] = t.slots[j]
               PROVE  i = j
    BY <1>10 DEF SlotsApart
  <2>1. CASE i # slot /\ j # slot
    BY <1>2, <1>9, <2>1 DEF Running, SlotsApart, ForNext
  <2>2. CASE i = slot \/ j = slot
    BY <1>9, <2>2 DEF ForNext
  <2> QED BY <2>1, <2>2
<1>24. Clones'
  <2>0. ASSUME ~astray PROVE ClonesHome /\ OnStream'
    <3>1. ClonesHome /\ OnStream
      BY <1>1, <2>0 DEF Clones
    <3>2. At("none")' => ~gen'.device
      BY <1>17 DEF Resting, Strays
    <3>3. OnStream'
      BY <1>12, <3>2 DEF OnStream
    <3> QED BY <3>1, <3>3
  <2>1. \A k \in Range(ring'.free) : k \in Range(ring.free) \/ (k \in Range(ring.pending) /\ EventDone(k))
    BY <1>9, <1>10 DEF ForNext
  <2>2. Range(ring'.pending) \subseteq Range(ring.pending) /\ ring' # NoRing
    BY <1>9, <1>10 DEF ForNext
  <2>3. /\ ring'.slots \in [Slots -> Buffers \cup {0}]
        /\ \A k \in Slots : \/ ring'.slots[k] = ring.slots[k]
                            \/ k \in Range(ring.free) \/ (k \in Range(ring.pending) /\ EventDone(k))
    BY <1>9, <1>10 DEF ForNext
  <2>4. \A w \in Writes' : w \in Writes
    BY <1>14
  <2>5. live \subseteq live' /\ (~astray' => ~astray) /\ gen'.device = gen.device
    BY <1>0, <1>11
  <2> QED BY <1>0, <1>1, <1>2, <1>23, <2>0, <2>1, <2>2, <2>3, <2>4, <2>5, ClonesSwept
<1> QED BY <1>13, <1>15, <1>16, <1>17, <1>18, <1>19, <1>20, <1>21, <1>22, <1>24, InvFrom

(* arrived(): the payload joins the parked ones, and those next in line    *)
(* leave them.                                                             *)
LEMMA ArrivedIs ==
  ASSUME order \in Order, \A x \in order.parked : x.tag.ord \in 1..N, ~order.on => order.parked = {},
         NEW p \in View, p.tag.ord \in 1..N,
         NEW rd, rd = Ready(order, p), NEW o, o = Arrived(order, p)
  PROVE  /\ rd \in Seq(View) /\ o \in Order /\ o.on = order.on
         /\ o.parked \cup Range(rd) = order.parked \cup {p}
         /\ o.parked \cap Range(rd) = {} \/ ~order.on
         /\ order.on => /\ o.next = order.next + Len(rd)
                        /\ \A i \in 1..Len(rd) : rd[i].tag.ord = order.next + i - 1
                        /\ \A x \in order.parked \cup {p} : x.tag.ord # order.next + Len(rd)
         /\ ~order.on => Len(rd) = 1 /\ o.parked = {}
<1>0. order.on \in BOOLEAN /\ order.next \in Ids /\ order.parked \in SUBSET View
  BY DEF Order
<1>1. CASE order.on
  <2>1. PICK m : m = [order EXCEPT !.parked = order.parked \cup {p}]
    OBVIOUS
  <2>2. m \in Order /\ m.parked = order.parked \cup {p} /\ m.next = order.next
    <3>1. order.parked \cup {p} \in SUBSET View
      BY <1>0
    <3> QED BY <2>1, <3>1 DEF Order
  <2>3. rd = Run(m)
    BY <1>1, <2>1 DEF Ready
  <2>4. \A x \in m.parked : x.tag.ord \in 1..N
    BY <2>2
  <2>5. /\ rd \in Seq(View)
        /\ \A i \in 1..Len(rd) : rd[i] \in m.parked /\ rd[i].tag.ord = m.next + i - 1
        /\ \A x \in m.parked : x.tag.ord # m.next + Len(rd)
    BY <2>2, <2>3, <2>4, RunIs
  <2>6. o = [order EXCEPT !.parked = (order.parked \cup {p}) \ Range(rd), !.next = order.next + Len(rd)]
    BY <1>1 DEF Arrived
  <2>7. Range(rd) \subseteq order.parked \cup {p}
    BY <2>2, <2>5, InRange
  <2>8. order.next + Len(rd) \in Ids /\ (order.parked \cup {p}) \ Range(rd) \in SUBSET View
    <3>1. Len(rd) \in Nat
      BY <2>5
    <3> QED BY <1>0, <3>1 DEF Ids
  <2>9. /\ o \in Order /\ o.on = order.on /\ o.next = order.next + Len(rd)
        /\ o.parked = (order.parked \cup {p}) \ Range(rd)
    BY <2>6, <2>8 DEF Order
  <2> QED BY <1>1, <2>2, <2>5, <2>7, <2>9
<1>2. CASE ~order.on
  <2>1. rd = <<p>> /\ o = order
    BY <1>2 DEF Ready, Arrived
  <2>2. rd \in Seq(View) /\ Len(rd) = 1 /\ Range(rd) = {p}
    BY <2>1 DEF Range
  <2>3. o.parked = {}
    BY <1>2, <2>1
  <2> QED BY <1>2, <2>1, <2>2, <2>3
<1> QED BY <1>1, <1>2

(* A range arrives: it is parked, or completes the run handed over next.   *)
LEMMA ReceiveStep ==
  ASSUME Inv, NEW w \in owed, Receive(w)
  PROVE  Inv'
<1>0. /\ UNCHANGED <<mode, unsettled, handle, sessions, number, ring, live, left, cloneEvent, cloneStream, stray, copies,
                     held, current, astray, yielded, how>>
      /\ At("wait") /\ handle # 0
      /\ owed' = owed \ {w} /\ outstanding' = outstanding - 1
      /\ reported' = reported \/ reported' = reported \cup {w.id}
      /\ mem' = [mem EXCEPT ![w.buf][w.cell] = w.tag]
  BY DEF Receive, Counts, consumer
<1>1. /\ TypeOK /\ Standing /\ Resting /\ Apart /\ Intact /\ Lent /\ KeptKind
      /\ InOrder /\ Ended /\ Clones
  BY InvIs
<1>2. ring # NoRing /\ ring \in Ring
  BY <1>1 DEF Standing, TypeOK, PythonType
<1>3. Streaming /\ Running /\ Strays = {}
  <2>1. Streaming
    BY <1>0, <1>2 DEF Streaming
  <2> QED BY <1>1, <2>1, InvIs DEF Resting, Strays
<1>4. PICK q : q = RequestOf(w.id)
  OBVIOUS
<1>5. q \in live /\ q.id = w.id /\ Answers(q, w)
  <2>1. PICK x \in live : x.id = w.id /\ Answers(x, w)
    BY <1>3 DEF Running, OwedLive
  <2>2. q \in live /\ q.id = w.id
    BY <1>4, <2>1, Zenon DEF RequestOf
  <2>3. q = x
    BY <1>3, <2>1, <2>2 DEF Running, LiveSlots
  <2> QED BY <2>1, <2>3
<1>6. PICK p : p = [id |-> w.id, slot |-> q.slot, buf |-> q.buf, cell |-> CellOf(q, w),
                    owned |-> ring.kind = "owned", home |-> ring.home,
                    tag |-> [stream |-> number, ord |-> Ordinal(Resolve(q, w))]]
  OBVIOUS
<1>7. PICK rd : rd = Ready(order, p)
  OBVIOUS
<1>8. order' = Arrived(order, p) /\ gen' = [gen EXCEPT !.at = "hand", !.ready = rd]
  BY <1>4, <1>6, <1>7 DEF Receive
<1>9. w \in Write /\ w.tag \in Tag /\ w.tag.stream = number /\ w.id \in Ids
  BY <1>1, <1>3 DEF TypeOK, WorldType, Write, Running, OwedLive
<1>10. p.id = w.id /\ p.slot = q.slot /\ p.buf = w.buf /\ p.cell = w.cell /\ p.tag = w.tag
  <2>1. w.tag = [stream |-> number, ord |-> w.tag.ord]
    BY <1>9 DEF Tag
  <2>2. CellOf(q, w) = w.cell /\ Ordinal(Resolve(q, w)) = w.tag.ord /\ q.buf = w.buf
    BY <1>5 DEF Answers
  <2> QED BY <1>6, <2>1, <2>2
<1>11. p.owned = (mode.kind = "owned")
  <2>1. ring.kind = mode.kind
    BY <1>1, <1>2 DEF Standing
  <2>2. p.owned = (ring.kind = "owned")
    BY <1>6, Zenon
  <2> QED BY <2>1, <2>2, Zenon
<1>12. p \in View
  <2>1. q.slot \in Slots /\ q.buf \in Buffers /\ ring.home \in Streams
    BY <1>1, <1>2, <1>5 DEF TypeOK, PythonType, Request, Ring
  <2>2. CellOf(q, w) \in Cells /\ [stream |-> number, ord |-> Ordinal(Resolve(q, w))] \in Tag
    <3>1. CellOf(q, w) = w.cell /\ [stream |-> number, ord |-> Ordinal(Resolve(q, w))] = p.tag
      BY <1>5, <1>6 DEF Answers
    <3> QED BY <1>9, <1>10, <3>1 DEF Write
  <2>3. (ring.kind = "owned") \in BOOLEAN
    OBVIOUS
  <2> QED BY <1>6, <1>9, <2>1, <2>2, <2>3, Zenon DEF View
<1>13. w \in Due /\ w.tag.ord \in 1..ring.at /\ p.tag.ord \in 1..N
  <2>1. w \in Due
    BY DEF Due
  <2>2. w.tag.ord \in 1..ring.at /\ ring.at \in 0..N
    BY <1>2, <1>3, <2>1 DEF Running, DueRange, Ring
  <2> QED BY <1>10, <2>1, <2>2, RangeTypes
<1>14. /\ order \in Order /\ (\A x \in order.parked : x.tag.ord \in 1..N)
       /\ (~order.on => order.parked = {}) /\ order.on \in BOOLEAN
  BY <1>1 DEF TypeOK, PythonType, InOrder, Unhanded, Order
<1>15. /\ rd \in Seq(View) /\ order' \in Order /\ order'.on = order.on
       /\ order'.parked \cup Range(rd) = order.parked \cup {p}
       /\ order'.parked \cap Range(rd) = {} \/ ~order.on
       /\ order.on => /\ order'.next = order.next + Len(rd)
                      /\ \A i \in 1..Len(rd) : rd[i].tag.ord = order.next + i - 1
                      /\ \A x \in order.parked \cup {p} : x.tag.ord # order.next + Len(rd)
       /\ ~order.on => Len(rd) = 1 /\ order'.parked = {}
  <2>1. PICK o : o = order'
    OBVIOUS
  <2>2. o = Arrived(order, p)
    BY <1>8, <2>1
  <2>3. /\ rd \in Seq(View) /\ o \in Order /\ o.on = order.on
        /\ o.parked \cup Range(rd) = order.parked \cup {p}
        /\ o.parked \cap Range(rd) = {} \/ ~order.on
        /\ order.on => /\ o.next = order.next + Len(rd)
                       /\ \A i \in 1..Len(rd) : rd[i].tag.ord = order.next + i - 1
                       /\ \A x \in order.parked \cup {p} : x.tag.ord # order.next + Len(rd)
        /\ ~order.on => Len(rd) = 1 /\ o.parked = {}
    BY <1>7, <1>12, <1>13, <1>14, <2>2, ArrivedIs
  <2> QED BY <2>1, <2>3
<1>16. gen \in Generators /\ gen.ready = <<>>
  BY <1>0, <1>1 DEF TypeOK, PythonType, Resting, Strays
<1>17. gen' \in Generators /\ gen'.at = "hand" /\ gen'.ready = rd /\ gen'.device = gen.device
  BY <1>8, <1>15, <1>16 DEF Generators, Places
<1>18. \A a : (At(a)' <=> a = "hand") /\ (At(a) <=> a = "wait")
  BY <1>0, <1>17 DEF At
<1>19. Range(gen.ready) = {}
  BY <1>16 DEF Range
<1>20. /\ Views' = Views \cup {p} /\ Unhanded' = Unhanded \cup {p}
       /\ Unhanded = order.parked /\ Writes' = Writes \ {w} /\ w \in Writes
       /\ Due' = (owed \ {w}) \cup Unhanded \cup {p}
  BY <1>0, <1>3, <1>15, <1>17, <1>19 DEF Views, Unhanded, Writes, Strays, Due
<1>21. Streaming'
  BY <1>0, <1>2, <1>18 DEF Streaming
<1>22. IsFiniteSet(owed') /\ outstanding' = Cardinality(owed') /\ outstanding' \in Nat
  BY <1>0, <1>1, OneFewer
<1>23. /\ mem' \in [Buffers -> [Cells -> Tag]]
       /\ ~unsettled => \A v \in Views : mem'[v.buf][v.cell] = v.tag
       /\ mem'[w.buf][w.cell] = w.tag
  BY <1>0, <1>1, <1>20, LandsApart
<1>24. TypeOK'
  <2>1. reported' \subseteq Ids /\ owed' \subseteq Write
    BY <1>0, <1>1, <1>9 DEF TypeOK, PythonType, WorldType
  <2> QED BY <1>0, <1>1, <1>15, <1>17, <1>22, <1>23, <2>1 DEF TypeOK, PythonType, WorldType
<1>25. Standing'
  BY <1>0, <1>1, <1>2, <1>18, <1>22 DEF Standing
<1>26. Resting'
  BY <1>0, <1>1, <1>3, <1>17, <1>18 DEF Resting, Strays
<1>27. Apart'
  <2>1. ASSUME NEW x \in Writes', NEW v \in Views' PROVE ~SamePlace(x, v)
    <3>1. x \in Writes /\ x # w
      BY <1>20
    <3>2. CASE v \in Views
      BY <1>1, <3>1, <3>2 DEF Apart
    <3>3. CASE v = p
      BY <1>1, <1>10, <1>20, <3>1, <3>3 DEF Apart, SamePlace
    <3> QED BY <1>20, <3>2, <3>3
  <2>2. \A x, y \in Writes' : SamePlace(x, y) => x = y
    BY <1>1, <1>20 DEF Apart
  <2>3. \A x \in Writes' : \E k \in Slots : ring'.slots[k] = x.buf
    BY <1>0, <1>1, <1>20 DEF Apart
  <2> QED BY <2>1, <2>2, <2>3 DEF Apart, SamePlace
<1>28. Intact'
  BY <1>0, <1>10, <1>20, <1>23 DEF Intact
<1>29. KeptKind'
  BY <1>0, <1>1, <1>11, <1>20 DEF KeptKind
<1>30. Ended'
  BY <1>0, <1>1, EndedFrame
<1>31. Lent'
  <2>1. \A v \in held : v.owned = (mode.kind = "owned") /\ v.owned
    BY <1>1, <1>18 DEF Lent
  <2> QED BY <1>0, <2>1 DEF Lent
<1>32. Given = Len(yielded) /\ Given' = Len(yielded) /\ Len(yielded) \in Nat
  BY <1>0, <1>1, <1>18 DEF Given, TypeOK, WorldType
<1>33. order.on => order.next = Given + 1 /\ \A x \in order.parked : x.tag.ord > order.next
  <2>1. order.on => /\ order.next = Given + Len(gen.ready) + 1
                    /\ \A x \in order.parked : x.tag.ord > order.next
    BY <1>3 DEF Running, NextIsDue
  <2>2. Len(gen.ready) = 0
    BY <1>16
  <2> QED BY <1>32, <2>1, <2>2
<1>34. InOrder'
  <2>1. (IF order.on THEN \A i \in DOMAIN yielded : yielded[i] = i ELSE IsInjective(yielded))'
    BY <1>0, <1>1, <1>15 DEF InOrder, IsInjective
  <2>2. ASSUME order.on, NEW k \in DOMAIN rd PROVE rd[k].tag.ord = Given' + k
    <3>1. k \in 1..Len(rd) /\ Len(rd) \in Nat
      BY <1>15, <2>2
    <3> QED BY <1>15, <1>32, <1>33, <2>2, <3>1
  <2>3. (IF order.on THEN \A k \in DOMAIN gen.ready : gen.ready[k].tag.ord = Given + k
         ELSE Len(gen.ready) <= 1)'
    <3>1. CASE order.on
      <4>1. order'.on
        BY <1>15, <3>1
      <4>2. \A k \in DOMAIN gen'.ready : gen'.ready[k].tag.ord = Given' + k
        BY <1>17, <2>2, <3>1
      <4> QED BY <4>1, <4>2
    <3>2. CASE ~order.on
      <4>1. ~order'.on /\ Len(gen'.ready) = 1
        BY <1>15, <1>17, <3>2
      <4> QED BY <4>1
    <3> QED BY <3>1, <3>2
  <2>4. (\A x \in Unhanded : x.tag.ord \in 1..N /\ x.tag.stream = number)'
    BY <1>0, <1>1, <1>9, <1>10, <1>13, <1>20 DEF InOrder
  <2>5. (~order.on => order.parked = {})'
    BY <1>15
  <2> QED BY <1>18, <2>1, <2>3, <2>4, <2>5 DEF InOrder
<1>35. Running'
  <2>1. LiveSlots' /\ SlotsApart' /\ QueuesApart'
    BY <1>0, <1>3 DEF Running, LiveSlots, SlotsApart, QueuesApart
  <2>2. Spare'
    <3>1. ASSUME NEW k \in Range(ring.free) \cup Range(ring.pending), NEW x \in Writes' \cup Views'
          PROVE  x.buf # ring.slots[k]
      <4>1. CASE x \in Writes \cup Views
        BY <1>3, <4>1 DEF Running, Spare
      <4>2. CASE x = p
        BY <1>3, <1>10, <1>20, <4>2 DEF Running, Spare
      <4> QED BY <1>20, <4>1, <4>2
    <3> QED BY <1>0, <3>1 DEF Spare
  <2>3. OwedLive'
    BY <1>0, <1>3 DEF Running, OwedLive
  <2>4. KeptLive'
    <3>1. ASSUME NEW x \in Unhanded' PROVE \E y \in live : y.id = x.id /\ y.slot = x.slot /\ y.buf = x.buf
      <4>1. CASE x \in Unhanded
        BY <1>3, <4>1 DEF Running, KeptLive
      <4>2. CASE x = p
        <5>1. q.buf = w.buf
          BY <1>5 DEF Answers
        <5> QED BY <1>5, <1>10, <4>2, <5>1
      <4> QED BY <1>20, <4>1, <4>2
    <3> QED BY <1>0, <3>1 DEF KeptLive
  <2>5. \A x \in Due' : x = p \/ (x \in Due /\ x # w /\ x.tag.ord # w.tag.ord)
    <3>1. \A x \in Due' : x = p \/ x \in Unhanded \/ (x \in Due /\ x # w)
      BY <1>20 DEF Due
    <3>2. ASSUME w \in Unhanded PROVE FALSE
      <4>1. w \in Views
        BY <3>2 DEF Views, Unhanded
      <4> QED BY <1>1, <1>20, <4>1 DEF Apart, SamePlace
    <3>3. \A x \in Unhanded : x \in Due /\ x # w
      BY <3>2 DEF Due
    <3>4. \A x \in Due : x.tag.ord = w.tag.ord => x = w
      BY <1>3, <1>13 DEF Running, DueOnce
    <3> QED BY <3>1, <3>3, <3>4
  <2>6. p \in Due' /\ p.tag.ord = w.tag.ord /\ p.id = w.id
    BY <1>10, <1>20
  <2>7. \A x \in Due : x = w \/ x \in Due'
    BY <1>20 DEF Due
  <2>8. DueOnce'
    BY <1>3, <2>5, <2>6 DEF Running, DueOnce
  <2>9. DueRange'
    <3>1. \A x \in Due' : x.tag.ord \in 1..ring.at
      BY <1>3, <1>13, <2>5, <2>6 DEF Running, DueRange
    <3> QED BY <1>0, <3>1 DEF DueRange
  <2>10. Counted'
    <3>1. ASSUME NEW id PROVE DueOf(id)' = DueOf(id)
      <4>1. ASSUME NEW x \in Due', x.id = id PROVE \E y \in Due : y.id = id /\ y.tag.ord = x.tag.ord
        BY <1>13, <2>5, <2>6, <4>1
      <4>2. ASSUME NEW x \in Due, x.id = id PROVE \E y \in Due' : y.id = id /\ y.tag.ord = x.tag.ord
        BY <2>6, <2>7, <4>2
      <4>3. DueOf(id)' = {x.tag.ord : x \in {y \in Due' : y.id = id}}
        BY DEF DueOf
      <4> QED BY <4>1, <4>2, <4>3 DEF DueOf
    <3> QED BY <1>0, <1>3, <3>1 DEF Running, Counted
  <2>11. Range(yielded)' = Range(yielded)
    BY <1>0 DEF Range
  <2>12. Covered'
    <3>1. \A i \in 1..ring.at : i \in Range(yielded) \/ \E x \in Due' : x.tag.ord = i
      BY <1>3, <2>6, <2>7 DEF Running, Covered
    <3> QED BY <1>0, <2>11, <3>1 DEF Covered
  <2>13. \A x \in Due : x.tag.ord \notin Range(yielded)
    BY <1>3, <1>18 DEF Running, NotAgain
  <2>14. NotAgain'
    <3>1. \A x \in Due' : x.tag.ord \notin Range(yielded)
      BY <1>13, <2>5, <2>6, <2>13
    <3> QED BY <2>11, <3>1 DEF NotAgain
  <2>15. YieldedRange'
    BY <1>0, <1>3 DEF Running, YieldedRange
  <2>16. ASSUME order.on
         PROVE  /\ order'.next = Given' + Len(gen'.ready) + 1
                /\ \A x \in order'.parked : x.tag.ord > order'.next
    <3>0. Len(rd) \in Nat
      BY <1>15
    <3>1. order'.next = Given' + Len(gen'.ready) + 1
      <4>1. order'.next = order.next + Len(rd) /\ order.next = Given + 1
        BY <1>15, <1>33, <2>16
      <4>2. Given' = Given /\ Given \in Nat /\ gen'.ready = rd
        BY <1>17, <1>32
      <4> QED BY <3>0, <4>1, <4>2
    <3>2. \A x \in order.parked \cup {p} : x.tag.ord \in Nat /\ x.tag.ord >= order.next
      <4>1. \A x \in order.parked \cup {p} : x.tag.ord \in 1..N
        BY <1>13, <1>14
      <4>2. N \in Nat /\ order.next \in Nat
        BY <1>14, RangeTypes DEF Order, Ids
      <4>3. p.tag.ord \notin Range(yielded)
        BY <1>13, <2>6, <2>13
      <4>4. yielded \in Seq(1..N) /\ \A i \in DOMAIN yielded : yielded[i] = i
        BY <1>1, <2>16 DEF TypeOK, WorldType, InOrder
      <4>5. p.tag.ord \notin 1..Len(yielded)
        <5>1. \A i \in 1..Len(yielded) : yielded[i] = i /\ yielded[i] \in Range(yielded)
          BY <4>4, InRange
        <5> QED BY <4>3, <5>1
      <4>6. p.tag.ord >= order.next
        BY <1>32, <1>33, <2>16, <4>1, <4>2, <4>5
      <4> QED BY <1>33, <2>16, <4>1, <4>2, <4>6
    <3>3. ASSUME NEW x \in order'.parked PROVE x.tag.ord > order.next + Len(rd)
      <4>1. x \in order.parked \cup {p} /\ x \notin Range(rd)
        BY <1>15, <2>16
      <4>2. x.tag.ord # order.next + Len(rd) /\ x.tag.ord \in Nat /\ x.tag.ord >= order.next
        BY <1>15, <2>16, <3>2, <4>1
      <4>3. order.next \in Nat
        BY <1>14 DEF Order, Ids
      <4>4. CASE x.tag.ord < order.next + Len(rd)
        <5>1. PICK i : i = x.tag.ord - order.next + 1
          OBVIOUS
        <5>2. i \in 1..Len(rd) /\ order.next + i - 1 = x.tag.ord
          BY <3>0, <4>2, <4>3, <4>4, <5>1
        <5>3. rd[i].tag.ord = x.tag.ord /\ rd[i] \in Range(rd)
          BY <1>15, <2>16, <5>2, InRange
        <5>4. rd[i] \in Due' /\ x \in Due'
          BY <1>15, <1>20, <4>1, <5>3
        <5> QED BY <2>8, <4>1, <5>3, <5>4 DEF DueOnce
      <4> QED BY <3>0, <4>2, <4>3, <4>4
    <3> QED BY <1>15, <2>16, <3>1, <3>3
  <2>17. NextIsDue'
    BY <1>15, <2>16 DEF NextIsDue
  <2>18. Supplied'
    BY <1>0, <1>1 DEF Resting, Strays, Supplied
  <2> QED BY <2>1, <2>2, <2>3, <2>4, <2>8, <2>9, <2>10, <2>12, <2>14, <2>15, <2>17, <2>18 DEF Running
<1>36. Clones'
  <2>1. ~astray => OnStream'
    BY <1>0, <1>1, <1>17, <1>18 DEF Clones, OnStream
  <2>2. Writes' \subseteq Writes
    BY <1>20
  <2> QED BY <1>0, <1>1, <1>3, <1>17, <1>20, <2>1, <2>2, ClonesLand
<1> QED BY <1>24, <1>25, <1>26, <1>27, <1>28, <1>29, <1>30, <1>31, <1>34, <1>35, <1>36, InvFrom

(* An entry of a stream after another has been enqueued: it was there, and *)
(* the new one is after it, or it is the new one.                          *)
AfterEnqueue(c, e, t, i) ==
  \/ /\ i \in DOMAIN copies[t] /\ copies'[t][i] = copies[t][i]
     /\ \A k : EventAfter(t, i, k) => EventAfter(t, i, k)'
     /\ t = c => \A k : e = Event(k) => EventAfter(t, i, k)'
  \/ t = c /\ copies'[t][i] = e

(* What is enqueued on a stream comes after all that was.                  *)
LEMMA Enqueued ==
  ASSUME copies \in [Streams -> Seq(Entry)], NEW c \in Streams, NEW e \in Entry,
         copies' = [copies EXCEPT ![c] = Append(copies[c], e)],
         NEW t \in Streams, NEW i \in DOMAIN copies'[t]
  PROVE  AfterEnqueue(c, e, t, i)
<1>1. CASE t # c
  <2>1. copies'[t] = copies[t]
    BY <1>1
  <2>2. \A k : EventAfter(t, i, k) => EventAfter(t, i, k)'
    BY <2>1 DEF EventAfter, Event
  <2> QED BY <1>1, <2>1, <2>2 DEF AfterEnqueue
<1>2. CASE t = c
  <2>1. PICK u : u = copies[t]
    OBVIOUS
  <2>2. u \in Seq(Entry) /\ copies'[t] = Append(u, e)
    BY <1>2, <2>1
  <2>3. PICK v : v = Append(u, e)
    OBVIOUS
  <2>4. /\ v \in Seq(Entry) /\ Len(v) = Len(u) + 1 /\ Len(u) \in Nat
        /\ \A j \in 1..Len(u) : v[j] = u[j]
        /\ v[Len(u) + 1] = e
    BY <2>2, <2>3, Appended
  <2>5. DOMAIN u = 1..Len(u) /\ DOMAIN v = 1..(Len(u) + 1) /\ i \in DOMAIN v
    BY <2>2, <2>3, <2>4
  <2>6. CASE i = Len(u) + 1
    BY <1>2, <2>2, <2>3, <2>4, <2>6 DEF AfterEnqueue
  <2>7. CASE i \in 1..Len(u)
    <3>1. i \in DOMAIN copies[t] /\ copies'[t][i] = copies[t][i]
      BY <2>1, <2>2, <2>3, <2>4, <2>5, <2>7
    <3>2. ASSUME NEW k, EventAfter(t, i, k) PROVE EventAfter(t, i, k)'
      <4>1. PICK j \in DOMAIN u : j > i /\ u[j] = Event(k)
        BY <2>1, <3>2 DEF EventAfter
      <4>2. j \in DOMAIN v /\ v[j] = Event(k)
        BY <2>4, <2>5, <4>1
      <4> QED BY <2>2, <2>3, <4>1, <4>2 DEF EventAfter, Event
    <3>3. ASSUME NEW k, e = Event(k) PROVE EventAfter(t, i, k)'
      <4>1. Len(u) + 1 \in DOMAIN v /\ v[Len(u) + 1] = Event(k) /\ Len(u) + 1 > i
        BY <2>4, <2>5, <2>7, <3>3
      <4> QED BY <2>2, <2>3, <4>1 DEF EventAfter, Event
    <3> QED BY <3>1, <3>2, <3>3 DEF AfterEnqueue
  <2> QED BY <2>4, <2>5, <2>6, <2>7
<1> QED BY <1>1, <1>2

(* The next tensor of the run is handed over, or cloned for the caller.    *)
LEMMA YieldStep ==
  ASSUME Inv, Yield
  PROVE  Inv'
<1>0. /\ UNCHANGED <<mode, unsettled, handle, sessions, number, ring, live, left, reported, outstanding, order, cloneEvent,
                     cloneStream, owed, stray, mem, current, how>>
      /\ At("hand") /\ gen.ready # <<>> /\ Goes("paused")
  BY DEF Yield, library
<1>1. PICK p : p = Head(gen.ready)
  OBVIOUS
<1>2. /\ yielded' = Append(yielded, p.tag.ord)
      /\ gen.device => held' = held /\ copies' = [copies EXCEPT ![current] = Append(copies[current], Clone(p))]
      /\ ~gen.device => held' = held \cup {p} /\ copies' = copies
      /\ astray' = (astray \/ ring = NoRing)
  BY <1>1 DEF Yield
<1>3. /\ TypeOK /\ Standing /\ Resting /\ Apart /\ Intact /\ Lent /\ KeptKind
      /\ InOrder /\ Ended /\ Clones /\ gen \in Generators
  BY InvIs DEF PythonType
<1>4. gen.ready \in Seq(View) /\ gen.device \in BOOLEAN
  BY <1>3 DEF Generators
<1>5. p \in View /\ p = gen.ready[1] /\ p \in Range(gen.ready) /\ Len(gen.ready) > 0 /\ 1 \in DOMAIN gen.ready
  BY <1>0, <1>1, <1>4, HeadTail
<1>6. p \in Unhanded /\ p \in Views /\ p \in Due
  BY <1>5 DEF Unhanded, Views, Due
<1>7. p.tag.ord \in 1..N /\ p.owned = (mode.kind = "owned")
  BY <1>3, <1>6 DEF InOrder, KeptKind
<1>8. gen' \in Generators /\ gen'.at = "paused" /\ gen'.ready = gen.ready /\ gen'.device = gen.device
  BY <1>0, <1>3, GoesIs DEF Places
<1>9. \A a : (At(a)' <=> a = "paused") /\ (At(a) <=> a = "hand")
  BY <1>0, <1>8 DEF At
<1>10. Streaming' <=> Streaming
  BY <1>0, <1>9 DEF Streaming
<1>11. how = "none" /\ (Streaming => Strays = {})
  BY <1>0, <1>3 DEF Resting, Strays
<1>12. /\ Views' = Views /\ Unhanded' = Unhanded /\ Writes' = Writes /\ Due' = Due
  <2>1. Unhanded' = Unhanded /\ Writes' = Writes /\ Due' = Due
    BY <1>0, <1>8 DEF Unhanded, Writes, Strays, Due
  <2>2. held' = held \/ held' = held \cup {p}
    BY <1>2, <1>4
  <2>3. Views' = held' \cup Unhanded /\ Views = held \cup Unhanded
    BY <1>0, <1>8 DEF Views, Unhanded
  <2> QED BY <1>6, <2>1, <2>2, <2>3
<1>13. yielded \in Seq(1..N) /\ Len(yielded) \in Nat
  BY <1>3 DEF TypeOK, WorldType
<1>14. /\ yielded' \in Seq(1..N) /\ Len(yielded') = Len(yielded) + 1
       /\ \A i \in 1..Len(yielded) : yielded'[i] = yielded[i]
       /\ yielded'[Len(yielded) + 1] = p.tag.ord
       /\ \A x : x \in Range(yielded') <=> x \in Range(yielded) \/ x = p.tag.ord
       /\ Once(yielded) /\ p.tag.ord \notin Range(yielded) => Once(yielded')
  <2>0. PICK S : S = 1..N
    OBVIOUS
  <2>1. PICK o : o = p.tag.ord
    OBVIOUS
  <2>2. PICK u : u = Append(yielded, o)
    OBVIOUS
  <2>3. o \in S /\ yielded \in Seq(S)
    BY <1>7, <1>13, <2>0, <2>1
  <2>4. /\ u \in Seq(S) /\ Len(u) = Len(yielded) + 1
        /\ \A i \in 1..Len(yielded) : u[i] = yielded[i]
        /\ u[Len(yielded) + 1] = o
        /\ \A x : x \in Range(u) <=> x \in Range(yielded) \/ x = o
        /\ Once(yielded) /\ o \notin Range(yielded) => Once(u)
    BY <2>2, <2>3, Appended
  <2>5. yielded' = u
    BY <1>2, <2>1, <2>2
  <2> QED BY <2>0, <2>1, <2>4, <2>5
<1>15. current \in Streams /\ copies \in [Streams -> Seq(Entry)] /\ Clone(p) \in Entry
  BY <1>3, <1>5 DEF TypeOK, WorldType, Clone, Entry
<1>16. copies' \in [Streams -> Seq(Entry)] /\ held' \subseteq View
  <2>1. held \subseteq View
    BY <1>3 DEF TypeOK, WorldType
  <2>2. CASE gen.device
    <3>1. Append(copies[current], Clone(p)) \in Seq(Entry)
      BY <1>15, Appended
    <3>2. copies' = [copies EXCEPT ![current] = Append(copies[current], Clone(p))] /\ held' = held
      BY <1>2, <2>2
    <3> QED BY <1>15, <2>1, <3>1, <3>2
  <2>3. CASE ~gen.device
    BY <1>2, <1>5, <1>15, <2>1, <2>3
  <2> QED BY <2>2, <2>3
<1>17. astray' \in BOOLEAN
  BY <1>2
<1>18. TypeOK'
  BY <1>0, <1>3, <1>8, <1>14, <1>16, <1>17 DEF TypeOK, PythonType, WorldType
<1>19. Standing'
  BY <1>0, <1>3, <1>8, <1>9 DEF Standing
<1>20. Resting'
  BY <1>0, <1>3, <1>8, <1>9, <1>10, <1>11 DEF Resting, Strays
<1>21. Apart' /\ Intact' /\ KeptKind'
  <2>1. Views' \subseteq Views /\ Unhanded' \subseteq Unhanded /\ owed' \subseteq owed /\ Writes' \subseteq Writes
    BY <1>0, <1>12
  <2> QED BY <1>0, <1>3, <2>1, ApartFrame, IntactFrame, KeptKindFrame
<1>22. Ended'
  BY <1>0, <1>11 DEF Ended
<1>23. Lent'
  <2>1. \A v \in held : v.owned = (mode.kind = "owned") /\ v.owned
    BY <1>3, <1>9 DEF Lent
  <2>2. At("paused")' /\ gen'.ready # <<>> /\ p = Head(gen'.ready)
    BY <1>0, <1>1, <1>8, <1>9
  <2>3. \A v \in held' : v \in held \/ v = p
    BY <1>2, <1>4
  <2> QED BY <1>0, <1>7, <2>1, <2>2, <2>3 DEF Lent
<1>24. ASSUME ring # NoRing PROVE Streaming /\ Running /\ Strays = {} /\ p.tag.ord \notin Range(yielded)
  <2>1. Streaming
    BY <1>9, <1>24 DEF Streaming
  <2>2. Running
    BY <2>1, InvIs
  <2> QED BY <1>6, <1>9, <1>11, <2>1, <2>2 DEF Running, NotAgain
<1>25. Given = Len(yielded) /\ Given' = Len(yielded)
  BY <1>9, <1>13, <1>14 DEF Given
<1>26. DOMAIN yielded = 1..Len(yielded) /\ DOMAIN yielded' = 1..(Len(yielded) + 1)
  BY <1>13, <1>14
<1>27. InOrder'
  <2>0. order'.on = order.on /\ order.on \in BOOLEAN
    BY <1>0, <1>3 DEF TypeOK, PythonType, Order
  <2>1. ASSUME order.on PROVE \A i \in DOMAIN yielded' : yielded'[i] = i
    <3>1. \A i \in 1..Len(yielded) : yielded'[i] = i
      BY <1>3, <1>14, <1>26, <2>1 DEF InOrder
    <3>2. p.tag.ord = Len(yielded) + 1
      BY <1>3, <1>5, <1>9, <1>25, <2>1 DEF InOrder
    <3> QED BY <1>13, <1>14, <1>26, <3>1, <3>2
  <2>2. ASSUME ~order.on PROVE IsInjective(yielded')
    <3>1. ring # NoRing
      BY <1>0, <1>3, <2>2 DEF Standing
    <3>2. Once(yielded)
      BY <1>3, <2>2 DEF InOrder, IsInjective, Once
    <3>3. Once(yielded')
      BY <1>14, <1>24, <3>1, <3>2
    <3> QED BY <3>3 DEF Once, IsInjective
  <2>3. ASSUME order.on PROVE \A k \in DOMAIN gen'.ready : gen'.ready[k].tag.ord = Given' + k
    BY <1>3, <1>8, <1>9, <1>25, <2>3 DEF InOrder
  <2>4. ASSUME ~order.on PROVE Len(gen'.ready) <= 1 /\ order'.parked = {}
    BY <1>0, <1>3, <1>8, <1>9, <2>4 DEF InOrder
  <2>5. Len(yielded') > 0 /\ yielded'[Len(yielded')] = Head(gen'.ready).tag.ord
    BY <1>1, <1>8, <1>13, <1>14
  <2>6. \A x \in Unhanded' : x.tag.ord \in 1..N /\ x.tag.stream = number'
    BY <1>0, <1>3, <1>12 DEF InOrder
  <2>7. CASE order.on
    <3>1. order'.on
      BY <2>0, <2>7
    <3> QED BY <1>9, <2>1, <2>3, <2>5, <2>6, <2>7, <3>1 DEF InOrder
  <2>8. CASE ~order.on
    <3>1. ~order'.on
      BY <2>0, <2>8
    <3> QED BY <1>9, <2>2, <2>4, <2>5, <2>6, <2>8, <3>1 DEF InOrder
  <2> QED BY <2>7, <2>8
<1>28. ASSUME Streaming' PROVE Running'
  <2>0. ring # NoRing /\ Running
    BY <1>10, <1>28, InvIs DEF Streaming
  <2>1. LiveSlots' /\ SlotsApart' /\ QueuesApart'
    BY <1>0, <2>0 DEF Running, LiveSlots, SlotsApart, QueuesApart, Once, Range
  <2>2. Spare'
    BY <1>0, <1>12, <2>0 DEF Running, Spare, Range
  <2>3. OwedLive' /\ KeptLive' /\ DueOnce' /\ DueRange'
    BY <1>0, <1>12, <2>0 DEF Running, OwedLive, KeptLive, DueOnce, DueRange
  <2>4. Counted'
    <3>1. \A id : DueOf(id)' = DueOf(id)
      BY <1>12 DEF DueOf
    <3> QED BY <1>0, <2>0, <3>1 DEF Running, Counted
  <2>5. Covered'
    BY <1>0, <1>12, <1>14, <2>0 DEF Running, Covered
  <2>6. NotAgain'
    <3>1. ASSUME NEW x \in Due, x.tag.ord \in Range(yielded') PROVE x = p
      <4>1. x.tag.ord \notin Range(yielded)
        BY <1>9, <2>0 DEF Running, NotAgain
      <4>2. x.tag.ord = p.tag.ord
        BY <1>14, <3>1, <4>1
      <4> QED BY <1>6, <2>0, <4>2 DEF Running, DueOnce
    <3> QED BY <1>1, <1>8, <1>9, <1>12, <3>1 DEF NotAgain
  <2>7. YieldedRange'
    <3>1. p.tag.ord \in 1..ring.at
      BY <1>6, <2>0 DEF Running, DueRange
    <3>2. \A i \in 1..Len(yielded) : yielded'[i] <= ring.at
      BY <1>14, <1>26, <2>0 DEF Running, YieldedRange
    <3>3. yielded'[Len(yielded) + 1] <= ring.at
      BY <1>14, <3>1
    <3>4. \A i \in DOMAIN yielded' : i \in 1..Len(yielded) \/ i = Len(yielded) + 1
      BY <1>13, <1>26
    <3> QED BY <1>0, <3>2, <3>3, <3>4 DEF YieldedRange
  <2>8. NextIsDue'
    BY <1>0, <1>8, <1>25, <2>0 DEF Running, NextIsDue
  <2>9. Supplied'
    BY <1>0, <1>9, <2>0 DEF Running, Supplied
  <2> QED BY <2>1, <2>2, <2>3, <2>4, <2>5, <2>6, <2>7, <2>8, <2>9 DEF Running
<1>29. Clones'
  <2> SUFFICES ASSUME ~astray' PROVE ClonesHome' /\ OnStream'
    BY DEF Clones
  <2>1. ~astray
    BY <1>2
  <2>2. ring # NoRing
    BY <1>2
  <2>3. Streaming /\ Running /\ ClonesHome /\ OnStream
    BY <1>3, <1>24, <2>1, <2>2 DEF Clones
  <2>4. OnStream'
    BY <1>0, <1>8, <1>9, <2>3 DEF OnStream
  <2>5. CASE ~gen.device
    <3>1. ~astray => OnStream'
      BY <2>4
    <3>2. copies' = copies /\ Writes' \subseteq Writes /\ (~astray' => ~astray)
      BY <1>2, <1>12, <2>1, <2>5
    <3>3. Clones'
      BY <1>0, <1>3, <1>8, <1>10, <3>1, <3>2, ClonesFrame
    <3> QED BY <3>3 DEF Clones
  <2>6. CASE gen.device
    <3>1. current = cloneStream
      BY <1>9, <2>2, <2>3, <2>6 DEF OnStream
    <3>2. PICK q \in live : q.id = p.id /\ q.slot = p.slot /\ q.buf = p.buf
      BY <1>6, <2>3 DEF Running, KeptLive
    <3>3. q.buf = ring.slots[q.slot] /\ q.slot \notin Range(ring.free) \cup Range(ring.pending)
      BY <2>3 DEF Running, LiveSlots
    <3>4. (~unsettled => mem[p.buf][p.cell] = p.tag) /\ \A x \in Writes : ~SamePlace(x, p)
      BY <1>3, <1>6 DEF Intact, Apart
    <3>5. ASSUME NEW s \in Streams, NEW i \in DOMAIN copies'[s], copies'[s][i].op = "clone",
                 NEW c, c = copies'[s][i].of
          PROVE  /\ s = cloneStream /\ c.buf = ring.slots[c.slot]
                 /\ ~unsettled => mem[c.buf][c.cell] = c.tag
                 /\ \A x \in Writes : ~SamePlace(x, c)
                 /\ cloneEvent # 0 => EventAfter(s, i, cloneEvent)' \/ live # {}
                 /\ c.slot \notin Range(ring.free)
                 /\ c.slot \in Range(ring.pending) => EventAfter(s, i, c.slot)'
      <4>1. live # {}
        BY <3>2
      <4>2. \/ /\ i \in DOMAIN copies[s] /\ copies'[s][i] = copies[s][i]
               /\ \A k : EventAfter(s, i, k) => EventAfter(s, i, k)'
            \/ s = current /\ copies'[s][i] = Clone(p)
        <5>1. copies' = [copies EXCEPT ![current] = Append(copies[current], Clone(p))]
          BY <1>2, <2>6
        <5>2. PICK e : e = Clone(p)
          OBVIOUS
        <5>3. PICK t : t = current
          OBVIOUS
        <5>4. e \in Entry /\ t \in Streams /\ copies' = [copies EXCEPT ![t] = Append(copies[t], e)]
          BY <1>15, <5>1, <5>2, <5>3
        <5>5. AfterEnqueue(t, e, s, i)
          BY <1>15, <3>5, <5>4, Enqueued
        <5> QED BY <5>2, <5>3, <5>5 DEF AfterEnqueue
      <4>3. CASE /\ i \in DOMAIN copies[s] /\ copies'[s][i] = copies[s][i]
                 /\ \A k : EventAfter(s, i, k) => EventAfter(s, i, k)'
        <5>1. /\ s = cloneStream /\ c.buf = ring.slots[c.slot]
              /\ ~unsettled => mem[c.buf][c.cell] = c.tag
              /\ \A x \in Writes : ~SamePlace(x, c)
              /\ c.slot \notin Range(ring.free)
              /\ c.slot \in Range(ring.pending) => EventAfter(s, i, c.slot)
          BY <2>3, <3>5, <4>3 DEF ClonesHome
        <5> QED BY <4>1, <4>3, <5>1
      <4>4. CASE s = current /\ copies'[s][i] = Clone(p)
        <5>1. c = p
          BY <3>5, <4>4 DEF Clone
        <5> QED BY <3>1, <3>2, <3>3, <3>4, <4>1, <4>4, <5>1
      <4> QED BY <4>2, <4>3, <4>4
    <3>6. ClonesHome'
      BY <1>0, <1>8, <1>12, <2>2, <2>6, <3>5 DEF ClonesHome, SamePlace
    <3> QED BY <2>4, <3>6
  <2> QED BY <1>4, <2>5, <2>6
<1> QED BY <1>18, <1>19, <1>20, <1>21, <1>22, <1>23, <1>27, <1>28, <1>29, InvFrom

(* Resumed past a yield: what was lent is given back, and the rest of the  *)
(* run is next.                                                            *)
PastYield(p) ==
  /\ p \in View /\ p.id \in Ids /\ p.slot \in Slots
  /\ p \in Unhanded /\ p \in Views /\ p \in Due /\ p \notin owed
  /\ gen.ready # <<>> /\ how = "none" /\ (order.on \/ gen'.ready = <<>>)
  /\ Views' \subseteq Views /\ Unhanded' \subseteq Unhanded /\ Unhanded \subseteq Unhanded' \cup {p}
  /\ held' \subseteq held
  /\ \A v \in held' : v.owned = (mode.kind = "owned") /\ v.owned
  /\ Intact' /\ Lent' /\ KeptKind' /\ InOrder'
  /\ p.tag.ord \in Range(yielded)

(* A sequence of no length is the empty one.                               *)
LEMMA EmptySeq ==
  ASSUME NEW S, NEW s \in Seq(S), Len(s) = 0
  PROVE  s = <<>>
OBVIOUS

(* The consumer asks for the next tensor, whatever becomes of the slot.    *)
LEMMA Passed ==
  ASSUME Inv, At("paused"), NEW p, p = Handed,
         gen'.ready = Tail(gen.ready),
         ~At("paused")', ~At("fill")', held' = HeldAfter(p),
         UNCHANGED <<mode, unsettled, number, order, mem, yielded>>
  PROVE  PastYield(p)
<1>1. /\ TypeOK /\ Standing /\ Resting /\ Apart /\ Intact /\ Lent /\ KeptKind
      /\ InOrder /\ gen \in Generators
  BY InvIs DEF PythonType
<1>2. gen.ready # <<>> /\ how = "none" /\ gen.ready \in Seq(View)
  BY <1>1 DEF Resting, Strays, Generators
<1>3. p = Head(gen.ready)
  BY DEF Handed
<1>4. /\ p \in View /\ p = gen.ready[1] /\ p \in Range(gen.ready) /\ Len(gen.ready) > 0
      /\ Len(gen'.ready) = Len(gen.ready) - 1 /\ gen'.ready \in Seq(View)
      /\ \A i \in 1..Len(gen'.ready) : gen'.ready[i] = gen.ready[i + 1]
      /\ \A x : x \in Range(gen.ready) <=> x = p \/ x \in Range(gen'.ready)
  <2>1. PICK s : s = gen.ready
    OBVIOUS
  <2>2. PICK t : t = Tail(s)
    OBVIOUS
  <2>3. s \in Seq(View) /\ s # <<>> /\ p = Head(s)
    BY <1>2, <1>3, <2>1
  <2>4. /\ Head(s) \in View /\ Head(s) = s[1] /\ Head(s) \in Range(s) /\ Len(s) > 0
        /\ Tail(s) \in Seq(View) /\ Len(Tail(s)) = Len(s) - 1
        /\ \A i \in 1..Len(Tail(s)) : Tail(s)[i] = s[i + 1]
        /\ \A x : x \in Range(s) <=> x = Head(s) \/ x \in Range(Tail(s))
    BY <2>3, HeadTail
  <2>5. gen'.ready = t
    BY <2>1, <2>2
  <2> QED BY <2>1, <2>2, <2>3, <2>4, <2>5
<1>5. p.id \in Ids /\ p.slot \in Slots
  BY <1>4 DEF View
<1>6. p \in Unhanded /\ p \in Views /\ p \in Due
  BY <1>4 DEF Unhanded, Views, Due
<1>7. p \notin owed
  BY <1>1, <1>6 DEF Apart, SamePlace, Writes, Strays
<1>8. held' \subseteq held /\ (p.owned => held' = held) /\ (~p.owned => held' = held \ {p})
  BY DEF HeldAfter
<1>9. /\ Views' \subseteq Views /\ Unhanded' \subseteq Unhanded /\ Unhanded \subseteq Unhanded' \cup {p}
  BY <1>4, <1>8 DEF Views, Unhanded
<1>10. p.owned = (mode.kind = "owned")
  BY <1>1, <1>6 DEF KeptKind
<1>11. \A v \in held' : v.owned = (mode.kind = "owned") /\ v.owned
  <2>1. \A v \in held : v.owned = (mode.kind = "owned") /\ (v.owned \/ v = p)
    BY <1>1, <1>3 DEF Lent
  <2>2. CASE mode.kind = "owned"
    BY <1>8, <2>1, <2>2
  <2>3. CASE mode.kind # "owned"
    <3>1. ~p.owned
      BY <1>10, <2>3
    <3>2. held' = held \ {p}
      BY <1>8, <3>1
    <3>3. \A v \in held : ~v.owned
      BY <2>1, <2>3
    <3> QED BY <2>1, <3>2, <3>3
  <2> QED BY <2>2, <2>3
<1>12. Intact' /\ KeptKind'
  BY <1>1, <1>9, IntactFrame, KeptKindFrame
<1>13. Lent'
  BY <1>11 DEF Lent
<1>14. yielded \in Seq(1..N) /\ Len(yielded) > 0 /\ yielded[Len(yielded)] = p.tag.ord /\ Len(yielded) \in Nat
  BY <1>1, <1>3 DEF TypeOK, WorldType, InOrder
<1>15. p.tag.ord \in Range(yielded)
  <2>1. Len(yielded) \in DOMAIN yielded
    BY <1>14
  <2> QED BY <1>14, <2>1 DEF Range
<1>16. Given = Len(yielded) - 1 /\ Given' = Len(yielded)
  BY DEF Given
<1>17. order.on \in BOOLEAN /\ ~At("drain")
  BY <1>1 DEF TypeOK, PythonType, Order, At
<1>18. ASSUME ~order.on PROVE gen'.ready = <<>>
  <2>1. Len(gen.ready) <= 1 /\ Len(gen.ready) \in Nat
    BY <1>1, <1>2, <1>17, <1>18 DEF InOrder
  <2>2. Len(gen'.ready) = 0
    <3>1. PICK n : n = Len(gen.ready)
      OBVIOUS
    <3>2. n <= 1 /\ n \in Nat /\ n > 0 /\ Len(gen'.ready) = n - 1
      BY <1>4, <2>1, <3>1
    <3>3. n - 1 = 0
      BY <3>2
    <3> QED BY <3>2, <3>3
  <2>3. gen'.ready \in Seq(View)
    BY <1>4
  <2> QED BY <2>2, <2>3, EmptySeq
<1>19. InOrder'
  <2>1. ASSUME order.on, NEW k \in DOMAIN gen'.ready PROVE gen'.ready[k].tag.ord = Given' + k
    <3>1. k \in 1..Len(gen'.ready) /\ k + 1 \in DOMAIN gen.ready /\ gen'.ready[k] = gen.ready[k + 1] /\ k \in Nat
      BY <1>2, <1>4, <2>1
    <3>2. gen.ready[k + 1].tag.ord = Given + (k + 1)
      BY <1>1, <1>17, <2>1, <3>1 DEF InOrder
    <3> QED BY <1>14, <1>16, <3>1, <3>2
  <2>2. \A x \in Unhanded' : x.tag.ord \in 1..N /\ x.tag.stream = number'
    BY <1>1, <1>9 DEF InOrder
  <2>3. CASE order.on
    <3>1. order'.on /\ \A i \in DOMAIN yielded' : yielded'[i] = i
      BY <1>1, <2>3 DEF InOrder
    <3> QED BY <2>1, <2>2, <2>3, <3>1 DEF InOrder
  <2>4. CASE ~order.on
    <3>1. ~order'.on /\ IsInjective(yielded') /\ order'.parked = {}
      BY <1>1, <2>4 DEF InOrder, IsInjective
    <3>2. gen'.ready = <<>>
      BY <1>18, <2>4
    <3>3. Len(<<>>) <= 1
      OBVIOUS
    <3>4. Len(gen'.ready) <= 1
      BY <3>2, <3>3, Zenon
    <3> QED BY <2>2, <3>1, <3>4 DEF InOrder
  <2> QED BY <1>17, <2>3, <2>4
<1> QED BY <1>2, <1>4, <1>5, <1>6, <1>7, <1>8, <1>9, <1>11, <1>12, <1>13, <1>15, <1>17, <1>18, <1>19
        DEF PastYield

(* What is due of a running stream that has been resumed: all but the      *)
(* range the consumer is done with.                                        *)
DueAfter(p) ==
  /\ Due' = Due \ {p} /\ p \notin Unhanded' /\ DueOnce'
  /\ \A x \in Due' : x.tag.ord \notin Range(yielded)
  /\ \A i \in 1..ring.at : i \in Range(yielded) \/ \E x \in Due' : x.tag.ord = i
  /\ NextIsDue'
  /\ \A id : id # p.id => DueOf(id)' = DueOf(id)
  /\ DueOf(p.id)' = DueOf(p.id) \ {p.tag.ord} /\ p.tag.ord \in DueOf(p.id)

(* Once resumed past, a range is due no more.                              *)
LEMMA DuePassed ==
  ASSUME Inv, Streaming, At("paused"), NEW p, p = Handed, PastYield(p),
         gen'.ready = Tail(gen.ready), ~At("paused")', owed' = owed, order' = order, yielded' = yielded
  PROVE  DueAfter(p)
<1>1. TypeOK /\ InOrder /\ Running
  BY InvIs
<1>2. gen.ready \in Seq(View) /\ gen.ready # <<>> /\ p = Head(gen.ready)
  BY <1>1 DEF PastYield, TypeOK, PythonType, Generators, Handed
<1>3. /\ p = gen.ready[1] /\ Len(gen.ready) > 0 /\ Len(gen.ready) \in Nat
      /\ Len(gen'.ready) = Len(gen.ready) - 1 /\ gen'.ready \in Seq(View)
      /\ \A i \in 1..Len(gen'.ready) : gen'.ready[i] = gen.ready[i + 1]
  <2>1. PICK s : s = gen.ready
    OBVIOUS
  <2>2. s \in Seq(View) /\ s # <<>> /\ p = Head(s)
    BY <1>2, <2>1
  <2>3. /\ Head(s) = s[1] /\ Len(s) > 0 /\ Tail(s) \in Seq(View) /\ Len(Tail(s)) = Len(s) - 1
        /\ \A i \in 1..Len(Tail(s)) : Tail(s)[i] = s[i + 1]
    BY <2>2, HeadTail
  <2>4. gen'.ready = Tail(s) /\ Len(s) \in Nat
    BY <2>1, <2>2
  <2> QED BY <2>1, <2>2, <2>3, <2>4
<1>4. Len(yielded) \in Nat /\ Len(yielded) > 0 /\ Given = Len(yielded) - 1 /\ Given' = Len(yielded)
  BY <1>1 DEF TypeOK, WorldType, InOrder, Given
<1>5. ~At("drain") /\ order.on \in BOOLEAN
  BY <1>1 DEF TypeOK, PythonType, Order, At
<1>6. p \notin Unhanded'
  <2>1. CASE order.on
    <3>1. \A k \in DOMAIN gen.ready : gen.ready[k].tag.ord = Given + k
      BY <1>1, <1>5, <2>1 DEF InOrder
    <3>2. 1 \in DOMAIN gen.ready
      BY <1>2, <1>3
    <3>3. p.tag.ord = Given + 1
      BY <1>3, <3>1, <3>2
    <3>4. ASSUME p \in Range(gen'.ready) PROVE FALSE
      <4>1. PICK i \in 1..Len(gen'.ready) : gen'.ready[i] = p
        <5>1. PICK u : u = gen'.ready
          OBVIOUS
        <5>2. u \in Seq(View) /\ p \in Range(u)
          BY <1>3, <3>4, <5>1
        <5>3. \E i \in 1..Len(u) : u[i] = p
          BY <5>2, IsIn
        <5> QED BY <5>1, <5>3
      <4>2. i + 1 \in DOMAIN gen.ready /\ gen.ready[i + 1] = p /\ i \in Nat /\ i > 0
        BY <1>2, <1>3, <4>1
      <4>3. p.tag.ord = Given + (i + 1)
        BY <3>1, <4>2
      <4> QED BY <1>4, <3>3, <4>2, <4>3
    <3>5. p \notin order.parked
      <4>1. /\ order.next = Given + Len(gen.ready) + 1
            /\ \A x \in order.parked : x.tag.ord > order.next
        BY <1>1, <2>1 DEF Running, NextIsDue
      <4> QED BY <1>3, <1>4, <3>3, <4>1
    <3> QED BY <3>4, <3>5 DEF Unhanded
  <2>2. CASE ~order.on
    <3>1. gen'.ready = <<>> /\ order.parked = {}
      BY <1>1, <2>2 DEF PastYield, InOrder
    <3>2. Range(<<>>) = {}
      BY DEF Range
    <3>3. Range(gen'.ready) = {} /\ order'.parked = {}
      BY <3>1, <3>2
    <3> QED BY <3>3 DEF Unhanded
  <2> QED BY <1>5, <2>1, <2>2
<1>7. Due' = Due \ {p}
  BY <1>6 DEF PastYield, Due
<1>8. p \in Due /\ \A x \in Due : x.tag.ord = p.tag.ord => x = p
  BY <1>1 DEF PastYield, Running, DueOnce
<1>9. DueOnce'
  BY <1>1, <1>7 DEF Running, DueOnce
<1>10. \A x \in Due' : x.tag.ord \notin Range(yielded)
  BY <1>1, <1>2, <1>7 DEF Running, NotAgain
<1>11. ASSUME NEW i \in 1..ring.at PROVE i \in Range(yielded) \/ \E x \in Due' : x.tag.ord = i
  <2>1. i \in Range(yielded) \/ \E x \in Due : x.tag.ord = i
    BY <1>1 DEF Running, Covered
  <2>2. p.tag.ord \in Range(yielded)
    BY DEF PastYield
  <2> QED BY <1>7, <2>1, <2>2
<1>12. NextIsDue'
  <2>1. order.on => /\ order.next = Given + Len(gen.ready) + 1
                    /\ \A x \in order.parked : x.tag.ord > order.next
    BY <1>1 DEF Running, NextIsDue
  <2>2. Given + Len(gen.ready) + 1 = Given' + Len(gen'.ready) + 1
    BY <1>3, <1>4
  <2> QED BY <2>1, <2>2 DEF NextIsDue
<1>13. \A id : DueOf(id)' = {x.tag.ord : x \in {y \in Due' : y.id = id}}
  BY DEF DueOf
<1>14. ASSUME NEW id, id # p.id PROVE DueOf(id)' = DueOf(id)
  <2>1. {y \in Due' : y.id = id} = {y \in Due : y.id = id}
    BY <1>7, <1>14
  <2> QED BY <1>13, <2>1 DEF DueOf
<1>15. DueOf(p.id)' = DueOf(p.id) \ {p.tag.ord} /\ p.tag.ord \in DueOf(p.id)
  <2>1. \A x \in Due' : x.tag.ord # p.tag.ord
    BY <1>7, <1>8
  <2>2. \A x \in Due : x.tag.ord # p.tag.ord => x \in Due'
    BY <1>7
  <2>3. \A x \in Due' : x \in Due
    BY <1>7
  <2> QED BY <1>8, <1>13, <2>1, <2>2, <2>3 DEF DueOf
<1> QED BY <1>6, <1>7, <1>9, <1>10, <1>11, <1>12, <1>14, <1>15 DEF DueAfter

(* One range of a slot fewer to hand over.                                 *)
LEMMA OneLess ==
  ASSUME NEW s \in Seq(Int), NEW k, NEW t, t = [s EXCEPT ![k] = s[k] - 1]
  PROVE  /\ t \in Seq(Int) /\ DOMAIN t = DOMAIN s
         /\ \A i \in DOMAIN s : i # k => t[i] = s[i]
         /\ k \in DOMAIN s => t[k] = s[k] - 1
<1>1. Len(s) \in Nat /\ s \in [1..Len(s) -> Int]
  OBVIOUS
<1>2. t \in [1..Len(s) -> Int]
  <2>1. CASE k \in 1..Len(s)
    <3>1. s[k] - 1 \in Int
      BY <1>1, <2>1
    <3> QED BY <1>1, <3>1
  <2>2. CASE k \notin 1..Len(s)
    BY <1>1, <2>2
  <2> QED BY <2>1, <2>2
<1>3. t \in Seq(Int)
  BY <1>1, <1>2, IsSeq
<1> QED BY <1>1, <1>2, <1>3

(* Resumed past the yield, with more of the slot to hand over.             *)
LEMMA ResumeStep ==
  ASSUME Inv, Resume
  PROVE  Inv'
<1>0. /\ UNCHANGED <<mode, unsettled, handle, sessions, number, ring, live, reported, outstanding, order, cloneEvent,
                     cloneStream, owed, stray, mem, copies, current, astray, yielded, how>>
      /\ At("paused")
  BY DEF Resume, library
<1>1. PICK p : p = Handed
  OBVIOUS
<1>2. /\ left[p.id] # 1 /\ left' = [left EXCEPT ![p.id] = left[p.id] - 1] /\ held' = HeldAfter(p)
      /\ gen' = [gen EXCEPT !.at = "hand", !.ready = Tail(gen.ready)]
  BY <1>1 DEF Resume, SlotDrained
<1>3. /\ TypeOK /\ Standing /\ Resting /\ Apart /\ Ended /\ Clones /\ gen \in Generators
  BY InvIs DEF PythonType
<1>4. gen' \in Generators /\ gen'.at = "hand" /\ gen'.ready = Tail(gen.ready) /\ gen'.device = gen.device
  <2>1. gen.ready \in Seq(View) /\ gen.ready # <<>>
    BY <1>0, <1>3 DEF Generators, Resting, Strays
  <2>2. Tail(gen.ready) \in Seq(View)
    BY <2>1
  <2> QED BY <1>2, <1>3, <2>2 DEF Generators, Places
<1>5. \A a : (At(a)' <=> a = "hand") /\ (At(a) <=> a = "paused")
  BY <1>0, <1>4 DEF At
<1>6. PastYield(p)
  <2>1. ~At("paused")' /\ ~At("fill")'
    BY <1>5
  <2> QED BY <1>0, <1>1, <1>2, <1>4, <2>1, Passed
<1>7. Streaming' <=> Streaming
  BY <1>0, <1>5 DEF Streaming
<1>8. left \in Seq(Int)
  BY <1>3 DEF TypeOK, PythonType
<1>9. /\ left' \in Seq(Int) /\ DOMAIN left' = DOMAIN left
      /\ \A i \in DOMAIN left : i # p.id => left'[i] = left[i]
      /\ p.id \in DOMAIN left => left'[p.id] = left[p.id] - 1
  <2>1. PICK k : k = p.id
    OBVIOUS
  <2>2. left' = [left EXCEPT ![k] = left[k] - 1]
    BY <1>2, <2>1
  <2>3. PICK t : t = left'
    OBVIOUS
  <2>4. t = [left EXCEPT ![k] = left[k] - 1]
    BY <2>2, <2>3
  <2>5. /\ t \in Seq(Int) /\ DOMAIN t = DOMAIN left
        /\ \A i \in DOMAIN left : i # k => t[i] = left[i]
        /\ k \in DOMAIN left => t[k] = left[k] - 1
    BY <1>8, <2>4, OneLess
  <2> QED BY <2>1, <2>3, <2>5
<1>10. TypeOK'
  <2>1. held' \subseteq View
    BY <1>3, <1>6 DEF PastYield, TypeOK, WorldType
  <2> QED BY <1>0, <1>3, <1>4, <1>9, <2>1 DEF TypeOK, PythonType, WorldType
<1>11. Standing'
  <2>1. ~order'.on => gen'.ready = <<>>
    BY <1>0, <1>6 DEF PastYield
  <2> QED BY <1>0, <1>3, <1>5, <2>1 DEF Standing
<1>12. Resting'
  BY <1>0, <1>3, <1>4, <1>5, <1>6, <1>7 DEF Resting, Strays, PastYield
<1>13. Writes' = Writes
  BY <1>0 DEF Writes, Strays
<1>14. Apart' /\ Ended'
  <2>1. Views' \subseteq Views /\ owed' \subseteq owed /\ Writes' \subseteq Writes
    BY <1>0, <1>6, <1>13 DEF PastYield
  <2> QED BY <1>0, <1>3, <2>1, ApartFrame, EndedFrame
<1>15. Intact' /\ Lent' /\ KeptKind' /\ InOrder'
  BY <1>6 DEF PastYield
<1>16. ASSUME Streaming' PROVE Running'
  <2>0. Streaming /\ Running
    BY <1>7, <1>16, InvIs
  <2>1. DueAfter(p)
    <3>1. ~At("paused")'
      BY <1>5
    <3> QED BY <1>0, <1>1, <1>4, <1>6, <2>0, <3>1, DuePassed
  <2>2. LiveSlots' /\ SlotsApart' /\ QueuesApart'
    <3>1. LiveSlots'
      BY <1>0, <1>9, <2>0 DEF Running, LiveSlots, Range
    <3>2. SlotsApart'
      BY <1>0, <2>0 DEF Running, SlotsApart
    <3>3. QueuesApart'
      BY <1>0, <2>0 DEF Running, QueuesApart, Once, Range
    <3> QED BY <3>1, <3>2, <3>3
  <2>3. Spare'
    BY <1>0, <1>6, <1>13, <2>0 DEF Running, Spare, Range, PastYield
  <2>4. OwedLive' /\ KeptLive'
    BY <1>0, <1>6, <2>0 DEF Running, OwedLive, KeptLive, PastYield
  <2>5. DueOnce' /\ DueRange' /\ NextIsDue'
    BY <1>0, <2>0, <2>1 DEF Running, DueRange, DueAfter
  <2>6. Counted'
    <3>1. ASSUME NEW q \in live
          PROVE  /\ IsFiniteSet(DueOf(q.id)') /\ left'[q.id] = Cardinality(DueOf(q.id)')
                 /\ DueOf(q.id)' # {}
      <4>1. q.id \in DOMAIN left
        BY <2>0 DEF Running, LiveSlots
      <4>2. IsFiniteSet(DueOf(q.id)) /\ left[q.id] = Cardinality(DueOf(q.id)) /\ DueOf(q.id) # {}
        BY <2>0 DEF Running, Counted
      <4>3. CASE q.id # p.id
        <5>1. DueOf(q.id)' = DueOf(q.id)
          BY <2>1, <4>3 DEF DueAfter
        <5> QED BY <1>9, <4>1, <4>2, <4>3, <5>1
      <4>4. CASE q.id = p.id
        <5>1. PICK S : S = DueOf(p.id)
          OBVIOUS
        <5>2. PICK o : o = p.tag.ord
          OBVIOUS
        <5>3. IsFiniteSet(S) /\ left[q.id] = Cardinality(S) /\ o \in S
          BY <2>1, <4>2, <4>4, <5>1, <5>2 DEF DueAfter
        <5>4. IsFiniteSet(S \ {o}) /\ Cardinality(S \ {o}) = Cardinality(S) - 1
          BY <5>3, FS_RemoveElement
        <5>5. Cardinality(S) \in Nat
          BY <5>3, FS_CardinalityType
        <5>6. Cardinality(S \ {o}) # 0
          BY <1>2, <4>4, <5>3, <5>4, <5>5
        <5>7. S \ {o} # {}
          BY <5>6, FS_EmptySet
        <5>8. DueOf(q.id)' = S \ {o}
          BY <2>1, <4>4, <5>1, <5>2 DEF DueAfter
        <5>9. left'[q.id] = left[q.id] - 1
          BY <1>9, <4>1, <4>4
        <5> QED BY <5>3, <5>4, <5>7, <5>8, <5>9
      <4> QED BY <4>3, <4>4
    <3> QED BY <1>0, <3>1 DEF Counted
  <2>7. Range(yielded)' = Range(yielded)
    BY <1>0 DEF Range
  <2>8. Covered' /\ NotAgain'
    BY <1>0, <2>1, <2>7 DEF DueAfter, Covered, NotAgain
  <2>9. YieldedRange' /\ Supplied'
    BY <1>0, <1>5, <2>0 DEF Running, YieldedRange, Supplied
  <2> QED BY <2>2, <2>3, <2>4, <2>5, <2>6, <2>8, <2>9 DEF Running
<1>17. Clones'
  <2>1. ~astray => OnStream'
    BY <1>0, <1>3, <1>4, <1>5 DEF Clones, OnStream
  <2>2. Writes' \subseteq Writes
    BY <1>13
  <2> QED BY <1>0, <1>3, <1>4, <1>7, <2>1, <2>2, ClonesFrame
<1> QED BY <1>10, <1>11, <1>12, <1>14, <1>15, <1>16, <1>17, InvFrom

(* A submission is retired, whichever way the generator goes on.           *)
LEMMA RetiresIs ==
  ASSUME Inv, NEW p, p.id \in Ids, Retires(p)
  PROVE  /\ reported' \subseteq Ids /\ live' = {q \in live : q.id # p.id} /\ live' \subseteq Request
         /\ left' \in Seq(Int) /\ DOMAIN left' = DOMAIN left
         /\ \A i \in DOMAIN left : i # p.id => left'[i] = left[i]
         /\ held' = HeldAfter(p)
<1>1. reported \subseteq Ids /\ live \subseteq Request /\ left \in Seq(Int)
  BY InvIs DEF PythonType
<1>2. /\ reported' = reported \ {p.id} /\ left' = [left EXCEPT ![p.id] = left[p.id] - 1]
      /\ live' = {q \in live : q.id # p.id} /\ held' = HeldAfter(p)
  BY DEF Retires
<1>3. PICK k : k = p.id
  OBVIOUS
<1>4. PICK t : t = left'
  OBVIOUS
<1>5. t = [left EXCEPT ![k] = left[k] - 1]
  BY <1>2, <1>3, <1>4
<1>6. /\ t \in Seq(Int) /\ DOMAIN t = DOMAIN left
      /\ \A i \in DOMAIN left : i # k => t[i] = left[i]
  BY <1>1, <1>5, OneLess
<1> QED BY <1>1, <1>2, <1>3, <1>4, <1>6

(* The consumer has moved part way, which ends the generator.              *)
LEMMA ResumeMovedStep ==
  ASSUME Inv, ResumeMoved
  PROVE  Inv'
<1>0. /\ UNCHANGED <<mode, unsettled, handle, sessions, number, ring, outstanding, order, cloneEvent,
                     cloneStream, owed, stray, mem, copies, current, astray, yielded>>
      /\ At("paused") /\ gen.device /\ current # cloneStream /\ how' = "raised"
  BY DEF ResumeMoved, library
<1>1. PICK p : p = Handed
  OBVIOUS
<1>2. Retires(p) /\ gen' = [gen EXCEPT !.at = "drain", !.ready = Tail(gen.ready)]
  BY <1>1 DEF ResumeMoved
<1>3. /\ TypeOK /\ Standing /\ Resting /\ Apart /\ Clones /\ gen \in Generators
  BY InvIs DEF PythonType
<1>4. gen' \in Generators /\ gen'.at = "drain" /\ gen'.ready = Tail(gen.ready) /\ gen'.device = gen.device
  <2>1. gen.ready \in Seq(View) /\ gen.ready # <<>>
    BY <1>0, <1>3 DEF Generators, Resting, Strays
  <2>2. Tail(gen.ready) \in Seq(View)
    BY <2>1
  <2> QED BY <1>2, <1>3, <2>2 DEF Generators, Places
<1>5. \A a : (At(a)' <=> a = "drain") /\ (At(a) <=> a = "paused")
  BY <1>0, <1>4 DEF At
<1>6. PastYield(p)
  <2>1. ~At("paused")' /\ ~At("fill")' /\ held' = HeldAfter(p)
    BY <1>2, <1>5 DEF Retires
  <2> QED BY <1>0, <1>1, <1>4, <2>1, Passed
<1>7. ~Streaming'
  BY <1>5 DEF Streaming
<1>8. /\ reported' \subseteq Ids /\ live' = {q \in live : q.id # p.id} /\ live' \subseteq Request
      /\ left' \in Seq(Int)
  <2>1. p.id \in Ids
    BY <1>6 DEF PastYield
  <2> QED BY <1>2, <2>1, RetiresIs
<1>9. TypeOK'
  <2>1. held' \subseteq View /\ how' \in Hows
    BY <1>0, <1>3, <1>6 DEF PastYield, TypeOK, WorldType, Hows
  <2> QED BY <1>0, <1>3, <1>4, <1>8, <2>1 DEF TypeOK, PythonType, WorldType
<1>10. Standing'
  BY <1>0, <1>3, <1>5 DEF Standing
<1>11. Resting'
  BY <1>0, <1>3, <1>4, <1>5, <1>7 DEF Resting, Strays
<1>12. Apart' /\ Ended'
  <2>1. Views' \subseteq Views /\ owed' \subseteq owed /\ Writes' \subseteq Writes
    BY <1>0, <1>6 DEF PastYield, Writes, Strays
  <2>2. how' # "clean"
    BY <1>0
  <2> QED BY <1>0, <1>3, <2>1, <2>2, ApartFrame DEF Ended
<1>13. Intact' /\ Lent' /\ KeptKind' /\ InOrder'
  BY <1>6 DEF PastYield
<1>14. Clones'
  <2> SUFFICES ASSUME ~astray' PROVE ClonesHome' /\ OnStream'
    BY DEF Clones
  <2>1. ClonesHome /\ OnStream
    BY <1>0, <1>3 DEF Clones
  <2>2. ring = NoRing
    BY <1>0, <1>5, <2>1 DEF OnStream
  <2>3. \A s \in Streams : \A i \in DOMAIN copies[s] : copies[s][i].op # "clone"
    BY <2>1, <2>2 DEF ClonesHome
  <2> QED BY <1>0, <1>5, <2>3 DEF ClonesHome, OnStream
<1> QED BY <1>7, <1>9, <1>10, <1>11, <1>12, <1>13, <1>14, InvFrom

(* The last range of a slot has been handed over: nothing of the request   *)
(* is due, so nobody uses its slot.                                        *)
LEMMA LastOfSlot ==
  ASSUME Inv, Streaming, NEW p, PastYield(p), DueAfter(p), left[p.id] = 1, owed' = owed
  PROVE  /\ \A x \in Due' : x.id # p.id
         /\ \E q \in live : q.id = p.id /\ q.slot = p.slot
         /\ p.slot \notin Range(ring.free) /\ p.slot \notin Range(ring.pending)
         /\ \A q \in live : q.id # p.id => q.slot # p.slot
         /\ \A x \in owed \cup Unhanded' : x.buf # ring.slots[p.slot]
<1>1. Running /\ TypeOK
  BY InvIs
<1>2. PICK q \in live : q.id = p.id /\ q.slot = p.slot /\ q.buf = p.buf
  BY <1>1 DEF PastYield, Running, KeptLive
<1>3. /\ q.buf = ring.slots[q.slot] /\ q.slot \notin Range(ring.free) \cup Range(ring.pending)
      /\ \A x \in live : x.id = q.id \/ x.slot = q.slot => x = q
  BY <1>1, <1>2 DEF Running, LiveSlots
<1>4. IsFiniteSet(DueOf(p.id)) /\ Cardinality(DueOf(p.id)) = 1
  BY <1>1, <1>2 DEF Running, Counted
<1>5. PICK S : S = DueOf(p.id)
  OBVIOUS
<1>6. PICK o : o = p.tag.ord
  OBVIOUS
<1>7. o \in S /\ IsFiniteSet(S) /\ Cardinality(S) = 1 /\ DueOf(p.id)' = S \ {o}
  BY <1>4, <1>5, <1>6 DEF DueAfter
<1>8. IsFiniteSet(S \ {o}) /\ Cardinality(S \ {o}) = 0
  BY <1>7, FS_RemoveElement
<1>9. S \ {o} = {}
  BY <1>8, FS_EmptySet
<1>10. \A x \in Due' : x.id # p.id
  <2>1. DueOf(p.id)' = {x.tag.ord : x \in {y \in Due' : y.id = p.id}}
    BY DEF DueOf
  <2> QED BY <1>7, <1>9, <2>1
<1>11. \A x \in live : x.id # p.id => x.slot # p.slot
  BY <1>2, <1>3
<1>12. ASSUME NEW x \in owed \cup Unhanded', x.buf = ring.slots[p.slot] PROVE FALSE
  <2>1. x \in Due' /\ x \in Due
    BY DEF Due, PastYield
  <2>2. PICK y \in live : y.id = x.id /\ y.buf = x.buf
    BY <1>1, <2>1 DEF Running, OwedLive, KeptLive, Answers, Due
  <2>3. y.buf = ring.slots[y.slot] /\ y.slot \in Slots /\ q.slot \in Slots /\ y.buf \in Buffers
    BY <1>1 DEF Running, LiveSlots, TypeOK, PythonType, Request
  <2>4. y.buf # 0
    BY <2>3, WindowAssumption DEF Buffers
  <2>5. y.slot = q.slot
    BY <1>1, <1>2, <1>12, <2>2, <2>3, <2>4 DEF Running, SlotsApart
  <2>6. y.id = p.id
    BY <1>2, <1>3, <2>5
  <2> QED BY <1>10, <2>1, <2>2, <2>6
<1> QED BY <1>2, <1>3, <1>10, <1>11, <1>12

(* Resumed past the last range of a slot, which goes back to the ring.     *)
LEMMA ResumeRetiresStep ==
  ASSUME Inv, ResumeRetires
  PROVE  Inv'
<1>0. /\ UNCHANGED <<mode, unsettled, handle, sessions, number, outstanding, order, cloneStream, owed, stray, mem, current,
                     astray, yielded, how>>
      /\ At("paused") /\ (gen.device => current = cloneStream)
  BY DEF ResumeRetires, library
<1>1. PICK p : p = Handed
  OBVIOUS
<1>2. /\ Retires(p) /\ left[p.id] = 1
      /\ gen.device => /\ copies' = [copies EXCEPT ![current] = Append(copies[current], Event(p.slot))]
                       /\ cloneEvent' = p.slot
      /\ ~gen.device => copies' = copies /\ cloneEvent' = cloneEvent
      /\ ring = NoRing => ring' = ring /\ gen' = [gen EXCEPT !.at = "hand", !.ready = Tail(gen.ready)]
      /\ ring # NoRing => /\ ring' = ReleaseSlot(ring, p.slot, gen.device)
                          /\ gen' = [gen EXCEPT !.at = "refill", !.ready = Tail(gen.ready)]
  BY <1>1 DEF ResumeRetires, SlotDrained
<1>3. /\ TypeOK /\ Standing /\ Resting /\ Apart /\ Ended /\ Clones /\ gen \in Generators
  BY InvIs DEF PythonType
<1>4. /\ gen' \in Generators /\ gen'.ready = Tail(gen.ready) /\ gen'.device = gen.device
      /\ ring = NoRing => gen'.at = "hand"
      /\ ring # NoRing => gen'.at = "refill"
  <2>1. gen.ready \in Seq(View) /\ gen.ready # <<>>
    BY <1>0, <1>3 DEF Generators, Resting, Strays
  <2>2. Tail(gen.ready) \in Seq(View)
    BY <2>1
  <2>3. CASE ring = NoRing
    BY <1>2, <1>3, <2>2, <2>3 DEF Generators, Places
  <2>4. CASE ring # NoRing
    BY <1>2, <1>3, <2>2, <2>4 DEF Generators, Places
  <2> QED BY <2>3, <2>4
<1>5. /\ \A a : At(a) <=> a = "paused"
      /\ ~At("paused")' /\ ~At("fill")' /\ ~At("none")' /\ ~At("drain")' /\ ~At("wait")'
      /\ ring = NoRing => \A a : At(a)' <=> a = "hand"
      /\ ring # NoRing => \A a : At(a)' <=> a = "refill"
  BY <1>0, <1>4 DEF At
<1>6. PastYield(p)
  <2>1. held' = HeldAfter(p)
    BY <1>2 DEF Retires
  <2> QED BY <1>0, <1>1, <1>4, <1>5, <2>1, Passed
<1>7. /\ reported' \subseteq Ids /\ live' = {q \in live : q.id # p.id} /\ live' \subseteq Request
      /\ left' \in Seq(Int) /\ DOMAIN left' = DOMAIN left
      /\ \A i \in DOMAIN left : i # p.id => left'[i] = left[i]
  <2>1. p.id \in Ids
    BY <1>6 DEF PastYield
  <2> QED BY <1>2, <2>1, RetiresIs
<1>8. p.slot \in Slots /\ how = "none" /\ gen.device \in BOOLEAN
  BY <1>3, <1>6 DEF PastYield, Generators
<1>9. current \in Streams /\ copies \in [Streams -> Seq(Entry)] /\ Event(p.slot) \in Entry
  BY <1>3, <1>8 DEF TypeOK, WorldType, Event, Entry
<1>10. copies' \in [Streams -> Seq(Entry)] /\ cloneEvent' \in Slots \cup {0}
  <2>1. CASE gen.device
    <3>1. Append(copies[current], Event(p.slot)) \in Seq(Entry)
      BY <1>9, Appended
    <3>2. copies' = [copies EXCEPT ![current] = Append(copies[current], Event(p.slot))] /\ cloneEvent' = p.slot
      BY <1>2, <2>1
    <3> QED BY <1>8, <1>9, <3>1, <3>2
  <2>2. CASE ~gen.device
    BY <1>2, <1>3, <1>9, <2>2 DEF TypeOK, PythonType
  <2> QED BY <1>8, <2>1, <2>2
<1>11. held' \subseteq View
  BY <1>3, <1>6 DEF PastYield, TypeOK, WorldType
<1>12. Writes' = Writes /\ Views' \subseteq Views
  BY <1>0, <1>6 DEF PastYield, Writes, Strays
<1>13. Intact' /\ Lent' /\ KeptKind' /\ InOrder' /\ Ended'
  <2>1. Ended'
    BY <1>0, <1>3, EndedFrame
  <2> QED BY <1>6, <2>1 DEF PastYield
<1>14. ASSUME NEW s \in Streams, NEW i \in DOMAIN copies'[s], copies'[s][i].op = "clone"
       PROVE  /\ i \in DOMAIN copies[s] /\ copies'[s][i] = copies[s][i]
              /\ \A k : EventAfter(s, i, k) => EventAfter(s, i, k)'
              /\ gen.device /\ s = current => EventAfter(s, i, p.slot)'
  <2>1. CASE gen.device
    <3>1. PICK e : e = Event(p.slot)
      OBVIOUS
    <3>2. PICK t : t = current
      OBVIOUS
    <3>3. e \in Entry /\ t \in Streams /\ copies' = [copies EXCEPT ![t] = Append(copies[t], e)]
      BY <1>2, <1>9, <2>1, <3>1, <3>2
    <3>4. AfterEnqueue(t, e, s, i)
      BY <1>9, <1>14, <3>3, Enqueued
    <3>5. e.op # "clone"
      BY <3>1 DEF Event
    <3>6. /\ i \in DOMAIN copies[s] /\ copies'[s][i] = copies[s][i]
          /\ \A k : EventAfter(s, i, k) => EventAfter(s, i, k)'
          /\ s = t => \A k : e = Event(k) => EventAfter(s, i, k)'
      BY <1>14, <3>4, <3>5 DEF AfterEnqueue
    <3>7. PICK k : k = p.slot
      OBVIOUS
    <3>8. s = t => EventAfter(s, i, k)'
      BY <3>1, <3>6, <3>7
    <3>9. EventAfter(s, i, k)' => EventAfter(s, i, p.slot)'
      BY <3>7
    <3> QED BY <3>2, <3>6, <3>8, <3>9
  <2>2. CASE ~gen.device
    <3>1. copies' = copies
      BY <1>2, <2>2
    <3>2. \A k : EventAfter(s, i, k) => EventAfter(s, i, k)'
      BY <3>1 DEF EventAfter, Event
    <3> QED BY <1>14, <2>2, <3>1, <3>2
  <2> QED BY <1>8, <2>1, <2>2
<1>15. CASE ring = NoRing
  <2>1. ring' = NoRing
    BY <1>2, <1>15
  <2>2. ~Streaming'
    BY <2>1 DEF Streaming
  <2>3. TypeOK'
    BY <1>0, <1>3, <1>4, <1>7, <1>10, <1>11, <2>1 DEF TypeOK, PythonType, WorldType
  <2>4. Standing'
    <3>1. ~order'.on => gen'.ready = <<>>
      BY <1>0, <1>6 DEF PastYield
    <3> QED BY <1>0, <1>3, <1>5, <1>15, <2>1, <3>1 DEF Standing
  <2>5. Resting'
    BY <1>0, <1>3, <1>4, <1>5, <1>8, <1>15, <2>2 DEF Resting, Strays
  <2>6. Apart'
    <3>1. owed' \subseteq owed /\ Writes' \subseteq Writes /\ ring'.slots = ring.slots
      BY <1>0, <1>12, <1>15, <2>1
    <3> QED BY <1>3, <1>12, <3>1, ApartFrame
  <2>7. Clones'
    <3> SUFFICES ASSUME ~astray' PROVE ClonesHome' /\ OnStream'
      BY DEF Clones
    <3>1. ClonesHome
      BY <1>0, <1>3 DEF Clones
    <3>2. \A s \in Streams : \A i \in DOMAIN copies[s] : copies[s][i].op # "clone"
      BY <1>15, <3>1 DEF ClonesHome
    <3>3. \A s \in Streams : \A i \in DOMAIN copies'[s] : copies'[s][i].op # "clone"
      BY <1>14, <3>2
    <3> QED BY <1>0, <2>1, <3>3 DEF ClonesHome, OnStream
  <2> QED BY <1>13, <2>2, <2>3, <2>4, <2>5, <2>6, <2>7, InvFrom
<1>16. CASE ring # NoRing
  <2>1. Streaming /\ Running /\ ring \in Ring /\ Strays = {} /\ handle # 0 /\ ring.kind = mode.kind
    <3>1. Streaming
      BY <1>0, <1>16 DEF Streaming
    <3> QED BY <1>3, <1>16, <3>1, InvIs DEF Resting, Strays, Standing, TypeOK, PythonType
  <2>2. DueAfter(p)
    BY <1>0, <1>1, <1>4, <1>5, <1>6, <2>1, DuePassed
  <2>3. /\ \A x \in Due' : x.id # p.id
        /\ \E q \in live : q.id = p.id /\ q.slot = p.slot
        /\ p.slot \notin Range(ring.free) /\ p.slot \notin Range(ring.pending)
        /\ \A q \in live : q.id # p.id => q.slot # p.slot
        /\ \A x \in owed \cup Unhanded' : x.buf # ring.slots[p.slot]
    BY <1>0, <1>2, <1>6, <2>1, <2>2, LastOfSlot
  <2>4. PICK slot : slot = p.slot
    OBVIOUS
  <2>5. PICK r : r = ReleaseSlot(ring, slot, gen.device)
    OBVIOUS
  <2>6. QueuesApart
    BY <2>1 DEF Running
  <2>7. /\ r \in Ring /\ r.kind = ring.kind /\ r.home = ring.home /\ r.at = ring.at
        /\ r.slots = [ring.slots EXCEPT ![slot] = IF ring.kind = "owned" THEN 0 ELSE ring.slots[slot]]
        /\ \A k : k \in Range(r.free) <=> k \in Range(ring.free) \/ (~gen.device /\ k = slot)
        /\ \A k : k \in Range(r.pending) <=> k \in Range(ring.pending) \/ (gen.device /\ k = slot)
        /\ Once(r.free) /\ Once(r.pending) /\ Range(r.free) \cap Range(r.pending) = {}
    <3>1. slot \in Slots /\ slot \notin Range(ring.free) /\ slot \notin Range(ring.pending)
      BY <1>8, <2>3, <2>4
    <3> QED BY <1>8, <2>1, <2>5, <2>6, <3>1, ReleaseIs
  <2>8. ring' = r /\ r # NoRing
    <3>1. NoRing.kind = "none" /\ r.kind # "none"
      BY <2>7 DEF NoRing, Ring, Kinds
    <3> QED BY <1>2, <1>16, <2>4, <2>5, <3>1
  <2>9. /\ ring.slots \in [Slots -> Buffers \cup {0}] /\ slot \in Slots
        /\ \A k \in Slots : k # slot => r.slots[k] = ring.slots[k]
        /\ r.slots[slot] = IF ring.kind = "owned" THEN 0 ELSE ring.slots[slot]
    <3>1. ring.slots \in [Slots -> Buffers \cup {0}] /\ slot \in Slots
      BY <1>8, <2>1, <2>4 DEF Ring
    <3> QED BY <2>7, <3>1
  <2>10. Streaming'
    BY <1>5, <1>16, <2>8 DEF Streaming
  <2>11. TypeOK'
    BY <1>0, <1>3, <1>4, <1>7, <1>10, <1>11, <2>7, <2>8 DEF TypeOK, PythonType, WorldType
  <2>12. Standing'
    <3>1. ring'.kind = mode'.kind
      BY <1>0, <2>1, <2>7, <2>8
    <3>2. IsFiniteSet(owed') /\ outstanding' = Cardinality(owed')
      BY <1>0, <1>3, <1>16 DEF Standing
    <3>3. handle' # 0 /\ ring' # NoRing
      BY <1>0, <2>1, <2>8
    <3> QED BY <1>5, <3>1, <3>2, <3>3 DEF Standing
  <2>13. Resting'
    BY <1>0, <1>3, <1>4, <1>5, <1>8, <1>16, <2>1 DEF Resting, Strays
  <2>14. Apart'
    <3>1. ASSUME NEW w \in Writes PROVE \E k \in Slots : r.slots[k] = w.buf
      <4>0. w \in owed
        BY <2>1 DEF Writes
      <4>1. PICK k \in Slots : ring.slots[k] = w.buf
        BY <1>3 DEF Apart
      <4>2. k # slot
        BY <2>3, <2>4, <4>0, <4>1
      <4> QED BY <2>9, <4>1, <4>2
    <3> QED BY <1>0, <1>3, <1>12, <2>8, <3>1 DEF Apart, SamePlace
  <2>15. Running'
    <3>1. LiveSlots'
      <4>1. ASSUME NEW q \in live'
            PROVE  /\ q.id \in DOMAIN left' /\ q.buf = r.slots[q.slot]
                   /\ q.slot \notin Range(r.free) \cup Range(r.pending)
        <5>1. q \in live /\ q.id # p.id /\ q.slot # slot /\ q.slot \in Slots
          BY <1>7, <2>3, <2>4 DEF Request
        <5>2. /\ q.id \in DOMAIN left /\ q.buf = ring.slots[q.slot]
              /\ q.slot \notin Range(ring.free) \cup Range(ring.pending)
          BY <2>1, <5>1 DEF Running, LiveSlots
        <5> QED BY <1>7, <2>7, <2>9, <5>1, <5>2
      <4>2. \A x, y \in live' : x.id = y.id \/ x.slot = y.slot => x = y
        BY <1>7, <2>1 DEF Running, LiveSlots
      <4> QED BY <2>8, <4>1, <4>2 DEF LiveSlots
    <3>2. SlotsApart'
      <4> SUFFICES ASSUME NEW i \in Slots, NEW j \in Slots, r.slots[i] # 0, r.slots[i] = r.slots[j]
                   PROVE  i = j
        BY <2>8 DEF SlotsApart
      <4>1. \A k \in Slots : r.slots[k] # 0 => r.slots[k] = ring.slots[k]
        BY <2>9
      <4>2. ring.slots[i] # 0 /\ ring.slots[i] = ring.slots[j]
        BY <4>1
      <4> QED BY <2>1, <4>2 DEF Running, SlotsApart
    <3>3. QueuesApart'
      BY <2>7, <2>8 DEF QueuesApart
    <3>4. Spare'
      <4> SUFFICES ASSUME NEW k \in Range(r.free) \cup Range(r.pending), NEW x \in Writes' \cup Views'
                   PROVE  x.buf # r.slots[k]
        BY <2>8 DEF Spare
      <4>1. k \in Range(ring.free) \cup Range(ring.pending) \/ k = slot
        BY <2>7
      <4>2. CASE k = slot
        <5>1. CASE ring.kind = "owned"
          <6>1. r.slots[k] = 0
            BY <2>9, <4>2, <5>1
          <6>2. x.buf \in Buffers
            <7>1. Views \subseteq View
              <8>1. held \subseteq View /\ order.parked \subseteq View /\ gen.ready \in Seq(View)
                BY <1>3 DEF TypeOK, PythonType, WorldType, Order, Generators
              <8>2. Range(gen.ready) \subseteq View
                BY <8>1, InRange
              <8> QED BY <8>1, <8>2 DEF Views
            <7>2. Writes \subseteq Write
              BY <1>3 DEF Writes, Strays, TypeOK, WorldType
            <7>3. x \in View \/ x \in Write
              BY <1>12, <7>1, <7>2
            <7> QED BY <7>3 DEF View, Write
          <6> QED BY <6>1, <6>2, WindowAssumption DEF Buffers
        <5>2. CASE ring.kind # "owned"
          <6>1. r.slots[k] = ring.slots[slot]
            BY <2>9, <4>2, <5>2
          <6>2. held' = {}
            BY <1>6, <2>1, <5>2 DEF PastYield
          <6>3. x \in owed \cup Unhanded'
            BY <1>12, <2>1, <6>2 DEF Writes, Strays, Views, Unhanded
          <6> QED BY <2>3, <2>4, <6>1, <6>3
        <5> QED BY <5>1, <5>2
      <4>3. CASE k # slot
        <5>1. k \in Range(ring.free) \cup Range(ring.pending)
          BY <4>1, <4>3
        <5>2. k \in Slots
          <6>1. r.free \in Seq(Slots) /\ r.pending \in Seq(Slots)
            BY <2>7 DEF Ring
          <6> QED BY <6>1, InRange
        <5>3. x \in Writes \cup Views
          BY <1>12
        <5>4. r.slots[k] = ring.slots[k]
          BY <2>9, <4>3, <5>2
        <5> QED BY <2>1, <5>1, <5>3, <5>4 DEF Running, Spare
      <4> QED BY <4>2, <4>3
    <3>5. OwedLive'
      <4>1. ASSUME NEW w \in owed
            PROVE  (\E q \in live' : q.id = w.id /\ Answers(q, w)) /\ w.tag.stream = number
        <5>1. PICK q \in live : q.id = w.id /\ Answers(q, w)
          BY <2>1 DEF Running, OwedLive
        <5>2. w \in Due'
          BY <1>0 DEF Due
        <5>3. q \in live'
          BY <1>7, <2>3, <5>1, <5>2
        <5>4. w.tag.stream = number
          BY <2>1 DEF Running, OwedLive
        <5> QED BY <5>1, <5>3, <5>4
      <4> QED BY <1>0, <4>1 DEF OwedLive, Answers, CellOf, Ordinal, Resolve, FirstOrdinal
    <3>6. KeptLive'
      <4>1. ASSUME NEW x \in Unhanded'
            PROVE  \E q \in live' : q.id = x.id /\ q.slot = x.slot /\ q.buf = x.buf
        <5>1. x \in Unhanded /\ x \in Due'
          BY <1>6 DEF PastYield, Due
        <5>2. PICK q \in live : q.id = x.id /\ q.slot = x.slot /\ q.buf = x.buf
          BY <2>1, <5>1 DEF Running, KeptLive
        <5>3. q \in live'
          BY <1>7, <2>3, <5>1, <5>2
        <5> QED BY <5>2, <5>3
      <4> QED BY <4>1 DEF KeptLive
    <3>7. DueOnce' /\ DueRange' /\ NextIsDue'
      <4>1. \A x \in Due' : x.tag.ord \in 1..ring.at
        BY <2>1, <2>2 DEF Running, DueRange, DueAfter
      <4>2. ring'.at = ring.at
        BY <2>7, <2>8
      <4> QED BY <2>2, <4>1, <4>2 DEF DueRange, DueAfter
    <3>8. Counted'
      <4>1. ASSUME NEW q \in live'
            PROVE  /\ IsFiniteSet(DueOf(q.id)') /\ left'[q.id] = Cardinality(DueOf(q.id)')
                   /\ DueOf(q.id)' # {}
        <5>1. q \in live /\ q.id # p.id
          BY <1>7
        <5>2. q.id \in DOMAIN left
          BY <2>1, <5>1 DEF Running, LiveSlots
        <5>3. IsFiniteSet(DueOf(q.id)) /\ left[q.id] = Cardinality(DueOf(q.id)) /\ DueOf(q.id) # {}
          BY <2>1, <5>1 DEF Running, Counted
        <5>4. DueOf(q.id)' = DueOf(q.id)
          BY <2>2, <5>1 DEF DueAfter
        <5>5. left'[q.id] = left[q.id]
          BY <1>7, <5>1, <5>2
        <5> QED BY <5>3, <5>4, <5>5
      <4> QED BY <4>1 DEF Counted
    <3>9. Range(yielded)' = Range(yielded)
      BY <1>0 DEF Range
    <3>10. Covered' /\ NotAgain'
      <4>1. ring'.at = ring.at
        BY <2>7, <2>8
      <4> QED BY <2>2, <3>9, <4>1 DEF DueAfter, Covered, NotAgain
    <3>11. YieldedRange' /\ Supplied'
      <4>1. ring'.at = ring.at
        BY <2>7, <2>8
      <4> QED BY <1>0, <1>5, <1>16, <2>1, <4>1 DEF Running, YieldedRange, Supplied
    <3> QED BY <3>1, <3>2, <3>3, <3>4, <3>5, <3>6, <3>7, <3>8, <3>10, <3>11 DEF Running
  <2>16. Clones'
    <3> SUFFICES ASSUME ~astray' PROVE ClonesHome' /\ OnStream'
      BY DEF Clones
    <3>1. ClonesHome /\ OnStream
      BY <1>0, <1>3 DEF Clones
    <3>2. OnStream'
      BY <1>0, <1>4, <1>5, <3>1 DEF OnStream
    <3>3. ASSUME NEW s \in Streams, NEW i \in DOMAIN copies'[s], copies'[s][i].op = "clone",
                 NEW c, c = copies'[s][i].of
          PROVE  /\ s = cloneStream /\ c.buf = r.slots[c.slot]
                 /\ ~unsettled => mem[c.buf][c.cell] = c.tag
                 /\ \A x \in Writes : ~SamePlace(x, c)
                 /\ EventAfter(s, i, cloneEvent)'
                 /\ gen.device /\ c.slot \notin Range(r.free)
                 /\ c.slot \in Range(r.pending) => EventAfter(s, i, c.slot)'
      <4>1. /\ i \in DOMAIN copies[s] /\ copies'[s][i] = copies[s][i]
            /\ \A k : EventAfter(s, i, k) => EventAfter(s, i, k)'
            /\ gen.device /\ s = current => EventAfter(s, i, p.slot)'
        BY <1>14, <3>3
      <4>2. /\ s = cloneStream /\ c.buf = ring.slots[c.slot]
            /\ ~unsettled => mem[c.buf][c.cell] = c.tag
            /\ \A x \in Writes : ~SamePlace(x, c)
            /\ gen.device /\ c.slot \notin Range(ring.free)
            /\ c.slot \in Range(ring.pending) => EventAfter(s, i, c.slot)
        BY <2>1, <3>1, <3>3, <4>1 DEF ClonesHome
      <4>3. EventAfter(s, i, p.slot)' /\ cloneEvent' = p.slot
        BY <1>0, <1>2, <4>1, <4>2
      <4>4. EventAfter(s, i, slot)'
        <5>1. PICK u : u = copies'[s]
          OBVIOUS
        <5>2. \E j \in DOMAIN u : j > i /\ u[j] = Event(slot)
          BY <2>4, <4>3, <5>1 DEF EventAfter, Event
        <5> QED BY <5>1, <5>2 DEF EventAfter, Event
      <4>5. EventAfter(s, i, cloneEvent)'
        BY <2>4, <4>3, <4>4 DEF EventAfter, Event
      <4>6. ring.kind # "owned"
        BY <1>3, <2>1, <4>2 DEF Resting, Strays
      <4>7. c.slot \in Slots
        <5>1. copies[s][i].op = "clone" /\ c = copies[s][i].of
          BY <3>3, <4>1
        <5> QED BY <1>3, <4>1, <5>1, CloneTypes DEF View
      <4>8. r.slots[c.slot] = ring.slots[c.slot]
        BY <2>9, <4>6, <4>7
      <4>9. c.slot \notin Range(r.free)
        BY <2>7, <4>2
      <4>10. c.slot \in Range(r.pending) => EventAfter(s, i, c.slot)'
        <5>1. CASE c.slot = slot
          BY <4>4, <5>1
        <5>2. CASE c.slot # slot
          BY <2>7, <4>1, <4>2, <5>2
        <5> QED BY <5>1, <5>2
      <4> QED BY <4>2, <4>5, <4>8, <4>9, <4>10
    <3>4. ClonesHome'
      BY <1>0, <1>4, <1>12, <2>8, <3>3 DEF ClonesHome, SamePlace
    <3> QED BY <3>2, <3>4
  <2> QED BY <1>13, <2>11, <2>12, <2>13, <2>14, <2>15, <2>16, InvFrom
<1> QED BY <1>15, <1>16

-----------------------------------------------------------------------------
(* The theorems.                                                           *)

(* The invariant holds before the first stream.                            *)
LEMMA InitInv ==
  ASSUME Init
  PROVE  Inv
<1>0. /\ mode \in Modes
      /\ handle = 1 /\ sessions = 1 /\ number = 0 /\ unsettled = FALSE
      /\ ring = NoRing /\ live = {} /\ left = <<>> /\ reported = {} /\ outstanding = 0
      /\ order = NoOrder /\ gen = NoGenerator
      /\ cloneEvent = 0 /\ cloneStream = 0
      /\ owed = {} /\ stray = {}
      /\ mem = [b \in Buffers |-> [c \in Cells |-> NoBytes]]
      /\ held = {} /\ copies = [s \in Streams |-> <<>>] /\ current = 1 /\ astray = FALSE
      /\ yielded = <<>> /\ how = "none"
  BY DEF Init
<1>1. /\ gen.at = "none" /\ gen.ready = <<>> /\ gen.device = FALSE
      /\ order.on = FALSE /\ order.next = 1 /\ order.parked = {}
  BY <1>0 DEF NoGenerator, NoOrder
<1>2. Range(gen.ready) = {}
  <2>1. DOMAIN gen.ready = {}
    BY <1>1
  <2> QED BY <2>1 DEF Range
<1>3. Views = {} /\ Unhanded = {} /\ Writes = {}
  BY <1>0, <1>1, <1>2 DEF Views, Unhanded, Writes, Strays
<1>4. PythonType
  <2>1. order \in Order
    <3>1. order = [on |-> FALSE, next |-> 1, parked |-> {}]
      BY <1>0 DEF NoOrder
    <3> QED BY <3>1 DEF Order, Ids
  <2>2. gen \in Generators
    <3>1. gen = [at |-> "none", ready |-> <<>>, device |-> FALSE]
      BY <1>0 DEF NoGenerator
    <3>2. <<>> \in Seq(View)
      OBVIOUS
    <3> QED BY <3>1, <3>2 DEF Generators, Places
  <2>3. left \in Seq(Int)
    BY <1>0
  <2> QED BY <1>0, <2>1, <2>2, <2>3 DEF PythonType
<1>5. WorldType
  <2>1. NoBytes \in Tag
    BY DEF NoBytes, Tag
  <2>2. mem \in [Buffers -> [Cells -> Tag]]
    BY <1>0, <2>1
  <2>3. copies \in [Streams -> Seq(Entry)]
    <3>1. <<>> \in Seq(Entry)
      OBVIOUS
    <3> QED BY <1>0, <3>1
  <2>4. current \in Streams
    BY <1>0 DEF Streams
  <2>5. yielded \in Seq(1..N)
    <3>1. PICK S : S = 1..N
      OBVIOUS
    <3>2. yielded \in Seq(S)
      BY <1>0
    <3> QED BY <3>1, <3>2
  <2> QED BY <1>0, <2>2, <2>3, <2>4, <2>5 DEF WorldType, Hows
<1>6. Standing
  <2>1. IsFiniteSet(owed) /\ outstanding = Cardinality(owed)
    BY <1>0, FS_EmptySet
  <2> QED BY <1>0, <1>1, <2>1 DEF Standing, At
<1>7. Resting
  BY <1>0, <1>1 DEF Resting, Strays, Streaming, At
<1>8. Apart /\ Intact
  BY <1>0, <1>3 DEF Apart, Intact
<1>9. Lent /\ KeptKind
  BY <1>0, <1>3 DEF Lent, KeptKind
<1>10. InOrder
  <2>1. DOMAIN yielded = {}
    BY <1>0
  <2>2. IsInjective(yielded)
    BY <2>1 DEF IsInjective
  <2>3. Len(gen.ready) <= 1
    <3>1. Len(gen.ready) = 0
      BY <1>1
    <3> QED BY <3>1
  <2> QED BY <1>0, <1>1, <1>3, <2>2, <2>3 DEF InOrder, At
<1>11. Ended
  BY <1>0 DEF Ended
<1>12. ~Streaming
  BY <1>0 DEF Streaming
<1>13. Clones
  <2>1. \A s \in Streams : DOMAIN copies[s] = {}
    BY <1>0
  <2>2. ClonesHome
    BY <2>1 DEF ClonesHome
  <2>3. OnStream
    BY <1>1 DEF OnStream
  <2> QED BY <2>2, <2>3 DEF Clones
<1> QED BY <1>4, <1>5, <1>6, <1>7, <1>8, <1>9, <1>10, <1>11, <1>12, <1>13 DEF Inv, Always, TypeOK

(* What holds between a stream's ring, its requests, the writes still to   *)
(* come, the tensors and the clones is kept by every step of the file      *)
(* streamer, the library, the devices and the consumer.                    *)
THEOREM Invariance == Spec => []Inv
<1>1. Init => Inv
  BY InitInv
<1>2. Inv /\ [Next]_vars => Inv'
  <2> SUFFICES ASSUME Inv, [Next]_vars PROVE Inv'
    OBVIOUS
  <2>1. CASE Generator
    <3>1. CASE \E w \in owed : Receive(w) \/ ReceiveError(w) \/ DrainOne(w)
      <4>1. PICK w \in owed : Receive(w) \/ ReceiveError(w) \/ DrainOne(w)
        BY <3>1
      <4>2. CASE Receive(w)
        BY <4>2, ReceiveStep
      <4>3. CASE ReceiveError(w)
        BY <4>3, ReceiveErrorStep
      <4>4. CASE DrainOne(w)
        BY <4>4, DrainOneStep
      <4> QED BY <4>1, <4>2, <4>3, <4>4
    <3>2. CASE EndFill
      BY <3>2, EndFillStep
    <3>3. CASE Submit
      BY <3>3, SubmitStep
    <3>4. CASE SubmitRefused
      BY <3>4, SubmitRefusedStep
    <3>5. CASE Await
      BY <3>5, AwaitStep
    <3>6. CASE ReceiveNothing
      BY <3>6, ReceiveNothingStep
    <3>7. CASE Yield
      BY <3>7, YieldStep
    <3>8. CASE EndDrain
      BY <3>8, EndDrainStep
    <3> QED BY <2>1, <3>1, <3>2, <3>3, <3>4, <3>5, <3>6, <3>7, <3>8 DEF Generator
  <2>2. CASE Consumer
    <3>1. CASE StreamFiles
      BY <3>1, StreamFilesStep
    <3>2. CASE Start
      BY <3>2, StartStep
    <3>3. CASE Resume
      BY <3>3, ResumeStep
    <3>4. CASE ResumeRetires
      BY <3>4, ResumeRetiresStep
    <3>5. CASE ResumeMoved
      BY <3>5, ResumeMovedStep
    <3>6. CASE Close
      BY <3>6, CloseStep
    <3>7. CASE Exit
      BY <3>7, ExitStep
    <3>8. CASE Enter
      BY <3>8, EnterStep
    <3>9. CASE Move
      BY <3>9, MoveStep
    <3> QED BY <2>2, <3>1, <3>2, <3>3, <3>4, <3>5, <3>6, <3>7, <3>8, <3>9 DEF Consumer, Resumed
  <2>3. CASE \E s \in Streams : CopyRuns(s)
    BY <2>3, CopyRunsStep
  <2>4. CASE \E w \in stray : StrayLands(w)
    BY <2>4, StrayLandsStep
  <2>5. CASE UNCHANGED vars
    BY <2>5, StutterStep
  <2> QED BY <2>1, <2>2, <2>3, <2>4, <2>5 DEF Next
<1> QED BY <1>1, <1>2, PTL DEF Spec

(* Every variable of the file streamer has its type in every state.        *)
THEOREM TypeCorrect == Spec => []TypeOK
<1>1. Inv => TypeOK
  BY DEF Inv
<1> QED BY <1>1, Invariance, PTL

(* What the consumer holds, what is parked or about to be handed over and  *)
(* what a clone has still to read keeps the bytes of its own range, however *)
(* responses, releases and refills of the ring and re-entered contexts     *)
(* interleave, until a stream is started over a read that was answered     *)
(* UnknownError and may still write.                                       *)
THEOREM TensorsStayIntact == Spec => []TensorsIntact
<1>1. ASSUME Inv, ~unsettled
      PROVE  /\ \A v \in Views : mem[v.buf][v.cell] = v.tag
             /\ ~astray => \A s \in Streams : \A c \in ClonesOn(s) : mem[c.buf][c.cell] = c.tag /\ Kept(s, c)
  <2>1. TypeOK /\ Intact /\ Clones
    BY <1>1 DEF Inv, Always
  <2>2. \A v \in Views : mem[v.buf][v.cell] = v.tag
    BY <1>1, <2>1 DEF Intact
  <2>3. ASSUME ~astray, NEW s \in Streams, NEW c \in ClonesOn(s)
        PROVE  mem[c.buf][c.cell] = c.tag /\ Kept(s, c)
    <3>1. PICK e \in Range(copies[s]) : e.op = "clone" /\ c = e.of
      BY <2>3 DEF ClonesOn
    <3>2. PICK i \in DOMAIN copies[s] : e = copies[s][i]
      BY <3>1 DEF Range
    <3>3. ClonesHome
      BY <2>1, <2>3 DEF Clones
    <3>4. ring # NoRing /\ c.buf = ring.slots[c.slot] /\ mem[c.buf][c.cell] = c.tag
      BY <1>1, <3>1, <3>2, <3>3 DEF ClonesHome
    <3>5. c.slot \in Slots
      BY <2>1, <3>1, <3>2, CloneTypes DEF View
    <3>6. DOMAIN ring.slots = Slots
      <4>1. ring \in Ring
        BY <2>1, <3>4 DEF TypeOK, PythonType
      <4> QED BY <4>1 DEF Ring
    <3>7. Referenced(c.buf)
      BY <3>4, <3>5, <3>6 DEF Referenced
    <3> QED BY <3>4, <3>7 DEF Kept
  <2> QED BY <2>2, <2>3
<1>2. Inv => TensorsIntact
  BY <1>1 DEF TensorsIntact
<1> QED BY <1>2, Invariance, PTL

(* Each range is handed over once, in file order when that is on, and a    *)
(* stream that ends cleanly has handed over the whole list.                *)
THEOREM EachYieldedOnce == Spec => []YieldedOnce
<1>1. ASSUME Inv PROVE YieldedOnce
  <2>1. InOrder /\ Ended
    BY <1>1 DEF Inv, Always
  <2> QED BY <2>1, Zenon DEF InOrder, Ended, YieldedOnce
<1> QED BY <1>1, Invariance, PTL

(* While a generator waits for a response inside its context, some range   *)
(* is still to be answered: what is parked waits for an earlier one.       *)
LEMMA WaiterIsOwed ==
  ASSUME Inv, At("wait"), ring # NoRing
  PROVE  owed # {}
<1> SUFFICES ASSUME owed = {} PROVE FALSE
  OBVIOUS
<1>1. TypeOK /\ Standing /\ Resting /\ InOrder
  BY DEF Inv, Always
<1>2. live # {} /\ gen.ready = <<>>
  BY <1>1 DEF Resting, Strays
<1>4. Running
  BY DEF Inv, Streaming
<1>5. PICK q \in live : TRUE
  BY <1>2
<1>6. PICK x \in Due : x.id = q.id
  <2>1. DueOf(q.id) # {}
    BY <1>4, <1>5 DEF Running, Counted
  <2> QED BY <2>1 DEF DueOf
<1>7. Due = order.parked
  <2>1. DOMAIN gen.ready = {}
    BY <1>2
  <2>2. Range(gen.ready) = {}
    BY <2>1 DEF Range
  <2> QED BY <2>2 DEF Due, Unhanded
<1>8. order.on
  BY <1>1, <1>6, <1>7 DEF InOrder
<1>9. order.next = Len(yielded) + 1 /\ \A p \in order.parked : p.tag.ord > order.next
  <2>1. Len(gen.ready) = 0 /\ Given = Len(yielded)
    BY <1>2 DEF Given, At
  <2>2. Len(yielded) \in Nat
    BY <1>1 DEF TypeOK, WorldType
  <2>3. order.next = Given + Len(gen.ready) + 1 /\ \A p \in order.parked : p.tag.ord > order.next
    BY <1>4, <1>8 DEF Running, NextIsDue
  <2> QED BY <2>1, <2>2, <2>3
<1>10. x.tag.ord \in 1..ring.at /\ x.tag.ord > order.next
  BY <1>4, <1>6, <1>7, <1>9 DEF Running, DueRange
<1>11. ring.at \in Nat /\ Len(yielded) \in Nat
  <2>1. ring \in Ring
    BY <1>1 DEF TypeOK, PythonType
  <2>2. ring.at \in 0..N
    BY <2>1 DEF Ring
  <2> QED BY <1>1, <2>2, RangeTypes DEF TypeOK, WorldType
<1>12. order.next \in 1..ring.at
  BY <1>9, <1>10, <1>11
<1>13. order.next \in Range(yielded) \/ \E y \in Due : y.tag.ord = order.next
  BY <1>4, <1>12 DEF Running, Covered
<1>14. order.next \notin Range(yielded)
  <2> SUFFICES ASSUME order.next \in Range(yielded) PROVE FALSE
    OBVIOUS
  <2>1. PICK i \in DOMAIN yielded : yielded[i] = order.next
    BY DEF Range
  <2>2. yielded[i] = i
    BY <1>1, <1>8 DEF InOrder
  <2>3. DOMAIN yielded = 1..Len(yielded)
    BY <1>1 DEF TypeOK, WorldType
  <2> QED BY <1>9, <1>11, <2>1, <2>2, <2>3
<1>15. PICK y \in order.parked : y.tag.ord = order.next
  BY <1>7, <1>13, <1>14
<1>16. order.next > order.next
  BY <1>9, <1>15
<1> QED BY <1>9, <1>11, <1>16

(* Whoever blocks in runai_response inside its own context is owed a       *)
(* response, and every write to come, one that outlives its UnknownError   *)
(* too, is aimed at memory the ring still refers to and no tensor reads.   *)
THEOREM WaitersAreOwed == Spec => []WaitIsOwed
<1>1. ASSUME Inv PROVE WaitIsOwed
  <2>1. TypeOK /\ Standing /\ Apart
    BY <1>1 DEF Inv, Always
  <2>2. At("wait") /\ ring # NoRing => owed # {}
    BY <1>1, WaiterIsOwed
  <2>3. At("drain") /\ ring # NoRing /\ outstanding > 0 => owed # {}
    BY <2>1, FS_EmptySet DEF Standing
  <2>4. ASSUME NEW w \in owed \cup Strays
        PROVE  Referenced(w.buf) /\ ~\E v \in Views : v.buf = w.buf /\ v.cell = w.cell
    <3>1. PICK k \in Slots : ring.slots[k] = w.buf
      BY <2>1 DEF Apart, Writes
    <3>2. ring # NoRing
      BY <2>1 DEF Standing, Strays
    <3>3. DOMAIN ring.slots = Slots
      <4>1. ring \in Ring
        BY <2>1, <3>2 DEF TypeOK, PythonType
      <4> QED BY <4>1 DEF Ring
    <3>4. Referenced(w.buf)
      BY <3>1, <3>3 DEF Referenced
    <3>5. \A v \in Views : ~(v.buf = w.buf /\ v.cell = w.cell)
      BY <2>1 DEF Apart, Writes, SamePlace
    <3> QED BY <3>4, <3>5
  <2> QED BY <2>2, <2>3, <2>4 DEF WaitIsOwed
<1> QED BY <1>1, Invariance, PTL

-----------------------------------------------------------------------------
(* The library's count of a submission and Python's.                       *)

(* Until the context ends or the drain begins, a submission without a      *)
(* range to be answered has been reported complete.                        *)
Reported ==
  ring # NoRing /\ ~At("drain") => \A q \in live : q.id \in reported \/ \E w \in owed : w.id = q.id

(* When the last range of a submission is resumed past, the library has    *)
(* reported it complete, so that the ValueError of get_chunks, "ran out of *)
(* ranges before the library reported it complete", is never raised inside *)
(* the context the stream was started in.                                  *)
CountsAgree == At("paused") /\ ring # NoRing /\ SlotDrained(Handed) => Handed.id \in reported

(* Steps that add no submission and take no answer keep Reported.          *)
LEMMA ReportedFrame ==
  ASSUME Reported, live' \subseteq live, owed' = owed, reported' = reported,
         ring' # NoRing => ring # NoRing, At("drain") => At("drain")' \/ live' = {}
  PROVE  Reported'
BY DEF Reported

(* A submission is reported with its last answer.                          *)
LEMMA ReportedCounts ==
  ASSUME Reported, NEW w \in owed, Counts(w), live' = live, ring' = ring, ~At("drain")
  PROVE  Reported'
<1> SUFFICES ASSUME ring' # NoRing, NEW q \in live'
             PROVE  q.id \in reported' \/ \E x \in owed' : x.id = q.id
  BY DEF Reported
<1>1. q.id \in reported \/ \E x \in owed : x.id = q.id
  BY DEF Reported
<1>2. owed' = owed \ {w} /\ reported' = IF IsLast(w) THEN reported \cup {w.id} ELSE reported
  BY DEF Counts
<1>3. CASE IsLast(w)
  BY <1>1, <1>2, <1>3
<1>4. CASE ~IsLast(w)
  <2>1. PICK x \in owed : x.id = w.id /\ x # w
    BY <1>4 DEF IsLast
  <2>2. x \in owed' /\ reported' = reported
    BY <1>2, <1>4, <2>1
  <2> QED BY <1>1, <1>2, <2>1, <2>2
<1> QED BY <1>3, <1>4

(* A request has the number of ranges it took.                             *)
LEMMA NumIs ==
  ASSUME NEW at \in 0..(N - 1), NEW id, NEW slot, NEW buf, NEW q, q = NewRequest(id, at, slot, buf)
  PROVE  q.num = NextSpan(at)
<1> DEFINE end == at + NextSpan(at)
           set == FilesOf(at, NextSpan(at))
           fs == [k \in 1..Cardinality(set) |-> CHOOSE f \in set : Place(set, f) = k]
           rb == [k \in DOMAIN fs |-> Assigned(fs[k], at)]
           fb == [k \in DOMAIN fs |-> Cardinality({i \in (at + 1)..end : Ranges[i].file < fs[k]})]
<1>1. q = [id |-> id, slot |-> slot, buf |-> buf, files |-> fs, num |-> end - at,
           rangeBase |-> rb, fileBase |-> fb]
  BY DEF NewRequest
<1>2. end - at = NextSpan(at)
  <2>1. NextSpan(at) \in 1..(N - at) /\ N \in Nat
    BY SpanFits, RangeTypes
  <2> QED BY <2>1
<1> HIDE DEF fs, rb, fb, set, end
<1>3. q.num = end - at
  BY <1>1
<1> QED BY <1>2, <1>3

(* A new submission has a range to be answered.                            *)
LEMMA ReportedSubmits ==
  ASSUME Inv, Reported, Submit
  PROVE  Reported'
<1> DEFINE r == Taken(Swept(ring))
           slot == Head(Swept(ring).free)
<1>0. PICK q : q = NewRequest(Len(left) + 1, ring.at, slot, r.slots[slot])
  OBVIOUS
<1>1. live' = live \cup {q} /\ owed' = owed \cup Submitted(q, ring.at)
  BY <1>0, Zenon DEF Submit
<1>2. ring.at \in 0..(N - 1) /\ N \in Nat
  <2>1. ring \in Ring \cup {NoRing} /\ ring.at < N
    BY InvIs DEF PythonType, Submit
  <2>2. CASE ring \in Ring
    <3>1. ring.at \in 0..N
      BY <2>2 DEF Ring
    <3> QED BY <2>1, <3>1, RangeTypes
  <2>3. CASE ring = NoRing
    <3>1. ring.at = N
      BY <2>3 DEF NoRing
    <3> QED BY <2>1, <3>1, RangeTypes
  <2> QED BY <2>1, <2>2, <2>3
<1>3. q.num = NextSpan(ring.at) /\ NextSpan(ring.at) \in 1..(N - ring.at)
  BY <1>0, <1>2, NumIs, SpanFits
<1>4. \E w \in Submitted(q, ring.at) : w.id = q.id
  <2>1. ring.at + 1 \in (ring.at + 1)..(ring.at + q.num)
    BY <1>2, <1>3
  <2> DEFINE R(i) == [id |-> q.id, file |-> Place(FilesOf(ring.at, q.num), Ranges[i].file),
                      index |-> Ranges[i].index - Assigned(Ranges[i].file, ring.at), buf |-> q.buf,
                      cell |-> i - 1 - ring.at, tag |-> [stream |-> number, ord |-> i]]
  <2>2. R(ring.at + 1) \in Submitted(q, ring.at)
    BY <2>1, Zenon DEF Submitted
  <2>3. R(ring.at + 1).id = q.id
    OBVIOUS
  <2> QED BY <2>2, <2>3
<1>5. UNCHANGED <<reported, gen>>
  BY DEF Submit
<1>6. ring # NoRing
  <2>1. NoRing.at = N
    BY DEF NoRing
  <2> QED BY <1>2, <2>1
<1> QED BY <1>1, <1>4, <1>5, <1>6 DEF Reported, At

(* Retiring a submission takes it out of both.                             *)
LEMMA ReportedRetires ==
  ASSUME Reported, NEW p, Retires(p), owed' = owed, ring' # NoRing => ring # NoRing, At("paused")
  PROVE  Reported'
<1>1. reported' = reported \ {p.id} /\ live' = {q \in live : q.id # p.id}
  BY DEF Retires
<1>2. ~At("drain")
  BY DEF At
<1> QED BY <1>1, <1>2 DEF Reported

(* Every step keeps it.                                                    *)
LEMMA ReportedStep ==
  ASSUME Inv, Reported, [Next]_vars
  PROVE  Reported'
<1>1. CASE Submit
  BY <1>1, ReportedSubmits
<1>2. ASSUME NEW w \in owed, Receive(w) \/ ReceiveError(w) PROVE Reported'
  <2>1. Counts(w) /\ live' = live /\ ring' = ring /\ ~At("drain")
    BY <1>2 DEF Receive, ReceiveError, At
  <2> QED BY <2>1, ReportedCounts
<1>3. ASSUME NEW w \in owed, DrainOne(w) PROVE Reported'
  <2>1. At("drain") /\ gen' = gen
    BY <1>3 DEF DrainOne
  <2> QED BY <2>1 DEF Reported, At
<1>4. CASE ResumeRetires \/ ResumeMoved
  <2>1. Retires(Handed) /\ owed' = owed /\ (ring' # NoRing => ring # NoRing) /\ At("paused")
    BY <1>4 DEF ResumeRetires, ResumeMoved, library
  <2> QED BY <2>1, ReportedRetires
<1>5. CASE Exit
  BY <1>5 DEF Exit, Reported
<1>6. CASE EndDrain \/ StreamFiles
  <2>1. live' = {}
    BY <1>6 DEF EndDrain, StreamFiles
  <2> QED BY <2>1 DEF Reported
<1>7. CASE EndFill \/ SubmitRefused
  <2>1. /\ live' = live /\ owed' = owed /\ reported' = reported /\ ~At("drain")
    BY <1>7 DEF EndFill, SubmitRefused, library, Filling, At
  <2>2. ring # NoRing
    <3>1. Standing
      BY InvIs
    <3> QED BY <1>7, <3>1 DEF EndFill, SubmitRefused, Filling, Standing
  <2> QED BY <2>1, <2>2, ReportedFrame
<1>8. CASE Await \/ ReceiveNothing \/ Yield \/ Start \/ Resume \/ Close \/ Enter
  <2>1. /\ live' = live /\ owed' = owed /\ reported' = reported /\ ring' = ring
        /\ ~At("drain") \/ At("drain")'
    BY <1>8 DEF Await, ReceiveNothing, Yield, Start, Resume, Close, Enter, library, At
  <2> QED BY <2>1, ReportedFrame
<1>9. CASE \/ Move \/ (\E s \in Streams : CopyRuns(s)) \/ (\E w \in stray : StrayLands(w))
           \/ UNCHANGED vars
  <2>1. UNCHANGED <<live, owed, reported, ring, gen>>
    BY <1>9 DEF Move, CopyRuns, StrayLands, vars, python, library
  <2> QED BY <2>1 DEF Reported, At
<1> QED BY <1>1, <1>2, <1>3, <1>4, <1>5, <1>6, <1>7, <1>8, <1>9 DEF Next, Generator, Consumer, Resumed

(* The tally of ranges Python has yet to hand over never runs out before   *)
(* the library has reported the submission complete.                       *)
THEOREM TalliesAgree == Spec => []CountsAgree
<1>1. Init => Reported
  BY DEF Init, Reported
<1>2. ASSUME Inv, Reported PROVE CountsAgree
  <2> SUFFICES ASSUME At("paused"), ring # NoRing, SlotDrained(Handed), Handed.id \notin reported
               PROVE  FALSE
    BY DEF CountsAgree
  <2>1. PICK p : p = Handed
    OBVIOUS
  <2>2. TypeOK /\ Standing /\ Resting
    BY <1>2, InvIs
  <2>3. gen.ready # <<>> /\ gen.ready \in Seq(View)
    BY <2>2 DEF Resting, Strays, TypeOK, PythonType, Generators
  <2>5. Running
    BY <1>2, InvIs DEF Streaming
  <2>6. p \in Range(gen.ready)
    BY <2>1, <2>3, HeadTail DEF Handed
  <2>7. p \in Unhanded
    BY <2>6 DEF Unhanded
  <2>8. PICK q \in live : q.id = p.id
    BY <2>5, <2>7 DEF Running, KeptLive
  <2>9. PICK w \in owed : w.id = p.id
    <3>1. ~At("drain")
      BY DEF At
    <3> QED BY <1>2, <2>1, <2>8, <3>1 DEF Reported
  <2>10. /\ IsFiniteSet(DueOf(p.id)) /\ Cardinality(DueOf(p.id)) = 1
    BY <2>1, <2>5, <2>8 DEF Running, Counted, SlotDrained
  <2>11. p.tag.ord \in DueOf(p.id) /\ w.tag.ord \in DueOf(p.id)
    BY <2>7, <2>9 DEF DueOf, Due
  <2>12. p.tag.ord = w.tag.ord
    <3>1. PICK T : T = DueOf(p.id)
      OBVIOUS
    <3>2. PICK x : T = {x}
      BY <2>10, <3>1, FS_Singleton
    <3> QED BY <2>11, <3>1, <3>2
  <2>13. p = w
    <3>1. p \in Due /\ w \in Due
      BY <2>7, <2>9 DEF Due
    <3> QED BY <2>5, <2>12, <3>1 DEF Running, DueOnce
  <2>14. p \in Views /\ w \in Writes
    BY <2>6, <2>9 DEF Views, Writes, Strays
  <2>15. ~SamePlace(w, p)
    BY <1>2, <2>14, InvIs DEF Apart
  <2> QED BY <2>13, <2>15 DEF SamePlace
<1>3. Inv /\ Reported /\ [Next]_vars => Reported'
  BY ReportedStep
<1> QED BY <1>1, <1>2, <1>3, Invariance, PTL DEF Spec
=============================================================================
