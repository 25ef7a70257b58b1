---------------------- MODULE DistributedStreamerProofs ----------------------
(***************************************************************************)
(* Proofs about DistributedStreamer, for any jobs: until a rank raises, no *)
(* rank waits for one that has left or is in another collective            *)
(* (NoneStranded).                                                         *)
(*                                                                         *)
(* The invariant says of every rank where it is in its list of loads       *)
(* (Rank), that all of them have discovered their node, and have created   *)
(* the groups, or none has (Together), and that the ranks of a node are    *)
(* all before the same collective (Ahead), whether they have reached it or *)
(* not.  The operators take the plan and the ranks' states as arguments, p *)
(* and f, so that one lemma serves a state and the state after it.         *)
(***************************************************************************)
EXTENDS DistributedStreamer, TLAPS

Ranks(p) == UNION Range(p.job.nodes)
Node(p, r) == CHOOSE n \in Range(p.job.nodes) : r \in n
Many(p) == Cardinality(Ranks(p)) > 1
Loads(p) == Len(p.job.streams)
Distributed(p, k) == p.job.streams[k]

(* The loads after the k-th that ask for distributing.                     *)
Rest(p, k) == {j \in 1..Loads(p) : j > k /\ Distributed(p, j)}

(* What the code assumes of a job.                                         *)
GoodPlan(p) ==
  /\ p.job.streams \in Seq(BOOLEAN)
  /\ \A m, n \in Range(p.job.nodes) : m = n \/ m \cap n = {}

(* A rank's state is a record with these fields.                           *)
Fields == {"pc", "stream", "discovered", "group", "free", "unread", "toRead", "data", "meta", "recv",
           "rmeta", "turn", "sent", "got", "failed"}
Shaped(s) == s = [x \in Fields |-> s[x]]

ByItself == {"ready", "local"}
InLoad == {"warmup", "reduce", "share", "fill", "meta", "data", "hand"}
Calls == {"gather", "group", "warmup", "reduce", "meta", "data", "barrier"}
Places == ByItself \cup InLoad \cup Calls \cup {"out"}

(* Where a rank that has not raised can be: before the nodes are           *)
(* discovered, before the groups are created, and after.                   *)
Rank(p, r, s) ==
  /\ s.pc \in Places /\ s.stream \in 0..Loads(p) /\ s.discovered \in BOOLEAN
  /\ s.pc \notin {"ready", "out"} \/ s.group # {} => s.stream >= 1
  /\ s.pc = "gather" => s.stream = 1 /\ ~s.discovered /\ s.group = {} /\ Many(p)
  /\ ~s.discovered /\ Many(p) => s.pc = "gather" \/ (s.pc \in {"ready", "out"} /\ s.stream = 0)
  /\ s.pc = "group" => /\ s.discovered /\ s.group = {} /\ Many(p) /\ Distributed(p, s.stream)
                       /\ \A j \in 1..Loads(p) : j < s.stream => ~Distributed(p, j)
  /\ s.pc \in ByItself /\ s.group = {} /\ Many(p) => \A j \in 1..Loads(p) : j <= s.stream => ~Distributed(p, j)
  /\ s.group # {} => /\ s.group = Node(p, r) /\ Many(p) /\ s.discovered /\ Rest(p, 0) # {}
                     /\ s.pc \notin {"gather", "group", "out"}
  /\ s.pc \in InLoad => s.group # {} /\ Distributed(p, s.stream)
  /\ s.pc = "barrier" => s.group # {} /\ s.stream = Loads(p)
  /\ s.pc = "out" => s.stream = Loads(p) /\ s.group = {}

(* The groups have been created, and the rank may have left since.         *)
HasGroup(p, s) == s.group # {} \/ (s.pc = "out" /\ Many(p) /\ Rest(p, 0) # {})

(* The next collective of a rank in a group, and all that the ranks after  *)
(* it depends on.                                                          *)
Coming(op, rest, turn, toRead, sent, ms) ==
  [op |-> op, rest |-> rest, turn |-> turn, toRead |-> toRead, sent |-> sent, ms |-> ms]
Metas(rest, turn, toRead, sent) == Coming("meta", rest, turn, toRead, sent, <<>>)
Barrier == Coming("barrier", {}, 0, 0, 0, <<>>)

(* Of a rank that has done with a load, these being left.                  *)
Entering(p, rest) ==
  IF rest = {} THEN Barrier
  ELSE IF p.job.measured THEN Coming("warmup", rest, 0, 0, 0, <<>>)
  ELSE IF Len(p.units) = 0 THEN Barrier ELSE Metas(rest, 1, Len(p.units), 0)

Heard(r, s) == IF Root(s) = r THEN s.meta ELSE s.rmeta

Ahead(p, r, s) ==
  LET rest == Rest(p, s.stream)
      now == Rest(p, s.stream - 1)
  IN  CASE s.pc \in ByItself -> Entering(p, rest)
        [] s.pc \in {"warmup", "reduce"} -> Coming(s.pc, now, 0, 0, 0, <<>>)
        [] s.pc = "share" -> IF Len(p.units) = 0 THEN Entering(p, rest) ELSE Metas(now, 1, Len(p.units), 0)
        [] s.pc = "fill" -> Metas(now, 1, s.toRead, 0)
        [] s.pc = "meta" -> Metas(now, s.turn, s.toRead, s.sent)
        [] s.pc = "data" -> Coming("data", now, s.turn, s.toRead, s.sent, Heard(r, s))
        [] s.pc = "hand" -> IF s.turn < Cardinality(s.group) THEN Metas(now, s.turn + 1, s.toRead, s.sent)
                            ELSE IF s.toRead = 0 THEN Entering(p, rest) ELSE Metas(now, 1, s.toRead, 0)
        [] s.pc = "barrier" -> Barrier
        [] OTHER -> Coming("out", {}, 0, 0, 0, <<>>)

Together(p, r, s, q, t) ==
  /\ s.discovered = t.discovered
  /\ HasGroup(p, s) = HasGroup(p, t)
  /\ HasGroup(p, s) /\ Node(p, q) = Node(p, r) => Ahead(p, r, s) = Ahead(p, q, t)

InStep(p, f) ==
  /\ \A r \in Ranks(p) : Rank(p, r, f[r])
  /\ \A r, q \in Ranks(p) : Together(p, r, f[r], q, f[q])

Whole(p, f) ==
  /\ GoodPlan(p)
  /\ f = [r \in Ranks(p) |-> f[r]] /\ \A r \in Ranks(p) : Shaped(f[r])
  /\ \A r \in Ranks(p) : f[r].failed \in BOOLEAN
  /\ (\A r \in Ranks(p) : ~f[r].failed) => InStep(p, f)

Inv == Whole(plan, st)

-----------------------------------------------------------------------------
(* The loads that are left.                                                *)

(* A load that asks for it is one of those left before it, and no other    *)
(* changes what is left.                                                   *)
LEMMA RestStep ==
  ASSUME NEW p, GoodPlan(p), NEW k \in 1..Loads(p)
  PROVE  /\ Distributed(p, k) => Rest(p, k - 1) # {} /\ Rest(p, k - 1) = {k} \cup Rest(p, k)
         /\ ~Distributed(p, k) => Rest(p, k - 1) = Rest(p, k)
<1>1. Loads(p) \in Nat
  BY DEF Loads, GoodPlan
<1>2. \A j \in 1..Loads(p) : j > k - 1 <=> j = k \/ j > k
  BY <1>1
<1> QED
  BY <1>1, <1>2 DEF Rest

(* Two loads that ask for it with the same left before them are the same.  *)
LEMMA RestSame ==
  ASSUME NEW p, GoodPlan(p), NEW j \in 1..Loads(p), NEW k \in 1..Loads(p),
         Distributed(p, j), Distributed(p, k), Rest(p, j - 1) = Rest(p, k - 1)
  PROVE  j = k
<1>1. Loads(p) \in Nat
  BY DEF Loads, GoodPlan
<1>2. j \in Rest(p, j - 1) /\ k \in Rest(p, k - 1)
  BY <1>1 DEF Rest
<1>3. j > k - 1 /\ k > j - 1
  BY <1>2 DEF Rest
<1> QED
  BY <1>1, <1>3

(* None is left after the last.                                            *)
LEMMA RestEnd ==
  ASSUME NEW p, GoodPlan(p)
  PROVE  Rest(p, Loads(p)) = {}
  BY DEF Rest, Loads, GoodPlan

-----------------------------------------------------------------------------
(* One rank at a time.                                                     *)

Keeps(p, r, s, t) ==
  /\ Rank(p, r, t) /\ t.discovered = s.discovered /\ HasGroup(p, t) = HasGroup(p, s)
  /\ HasGroup(p, s) => Ahead(p, r, t) = Ahead(p, r, s)

(* A rank that stays before the same collective, or raises, keeps the      *)
(* invariant.                                                              *)
LEMMA OneMoves ==
  ASSUME NEW p, NEW f, Whole(p, f), NEW r \in Ranks(p), NEW t, Shaped(t), t.failed \in BOOLEAN,
         f[r].failed => t.failed,
         InStep(p, f) /\ ~t.failed => Keeps(p, r, f[r], t)
  PROVE  Whole(p, [f EXCEPT ![r] = t])
<1> DEFINE g == [f EXCEPT ![r] = t]
<1>1. /\ g = [q \in Ranks(p) |-> g[q]] /\ g[r] = t /\ \A q \in Ranks(p) : q # r => g[q] = f[q]
  BY DEF Whole
<1> HIDE DEF g
<1>2. GoodPlan(p) /\ \A q \in Ranks(p) : Shaped(g[q]) /\ g[q].failed \in BOOLEAN
  BY <1>1 DEF Whole
<1>3. ASSUME \A q \in Ranks(p) : ~g[q].failed
      PROVE  InStep(p, g)
  <2>1. ~t.failed /\ \A q \in Ranks(p) : ~f[q].failed
    BY <1>1, <1>3
  <2>2. InStep(p, f) /\ Keeps(p, r, f[r], t)
    BY <2>1 DEF Whole
  <2>3. \A q \in Ranks(p) : Rank(p, q, g[q])
    BY <1>1, <2>2 DEF InStep, Keeps
  <2>4. ASSUME NEW a \in Ranks(p), NEW b \in Ranks(p)
        PROVE  Together(p, a, g[a], b, g[b])
    <3>1. /\ Together(p, a, f[a], b, f[b])
          /\ g[a].discovered = f[a].discovered /\ g[b].discovered = f[b].discovered
          /\ HasGroup(p, g[a]) = HasGroup(p, f[a]) /\ HasGroup(p, g[b]) = HasGroup(p, f[b])
          /\ HasGroup(p, f[a]) => Ahead(p, a, g[a]) = Ahead(p, a, f[a])
          /\ HasGroup(p, f[b]) => Ahead(p, b, g[b]) = Ahead(p, b, f[b])
      BY <1>1, <2>2 DEF InStep, Keeps
    <3> QED
      BY <3>1 DEF Together
  <2> QED
    BY <2>3, <2>4 DEF InStep
<1> QED
  BY <1>1, <1>2, <1>3 DEF Whole, g

(* The same of a step of the specification.                                *)
LEMMA OneSteps ==
  ASSUME Inv, NEW r \in World, NEW t, Steps(r, t), Shaped(t), t.failed \in BOOLEAN,
         st[r].failed => t.failed,
         InStep(plan, st) /\ ~t.failed => Keeps(plan, r, st[r], t)
  PROVE  Inv'
<1>1. Whole(plan, [st EXCEPT ![r] = t])
  BY OneMoves DEF Inv, World, Ranks
<1> QED
  BY <1>1 DEF Inv, Steps

(* To raise is to have failed.                                             *)
LEMMA RaisedIs ==
  ASSUME NEW s, Shaped(s)
  PROVE  Shaped(Raised(s)) /\ Raised(s).failed = TRUE
  BY DEF Shaped, Fields, Raised

(* A rank that raises keeps the invariant.                                 *)
LEMMA Raises ==
  ASSUME Inv, NEW r \in World, st' = [st EXCEPT ![r] = Raised(@)], plan' = plan
  PROVE  Inv'
<1>1. Shaped(st[r])
  BY DEF Inv, Whole, World, Ranks
<1>2. Whole(plan, [st EXCEPT ![r] = Raised(st[r])])
  BY <1>1, RaisedIs, OneMoves DEF Inv, World, Ranks
<1> QED
  BY <1>2 DEF Inv

(* What Decided makes of a rank's state.                                   *)
LEMMA DecidedIs ==
  ASSUME NEW s, Shaped(s)
  PROVE  LET t == Decided(s)
         IN  /\ Shaped(t)
             /\ t.pc = IF ~(Distributed(plan, s.stream) /\ Many(plan)) THEN "local"
                       ELSE IF s.group = {} THEN "group" ELSE IF plan.job.measured THEN "warmup" ELSE "share"
             /\ t.stream = s.stream /\ t.discovered = s.discovered /\ t.group = s.group /\ t.failed = s.failed
  BY DEF Shaped, Fields, Decided, WantsPeers, Distributed, Many, World, Ranks

(* A rank that decides how to read a load: it needs a group that does not  *)
(* exist, or is before the collective it was before.                       *)
LEMMA Decides ==
  ASSUME GoodPlan(plan), NEW r \in World, NEW s, Shaped(s),
         s.stream \in 1..Loads(plan), s.discovered \in BOOLEAN, s.discovered \/ ~Many(plan),
         s.group = {} /\ Many(plan) => \A j \in 1..Loads(plan) : j < s.stream => ~Distributed(plan, j),
         s.group # {} => s.group = Node(plan, r) /\ Many(plan) /\ s.discovered /\ Rest(plan, 0) # {}
  PROVE  /\ Rank(plan, r, Decided(s)) /\ (HasGroup(plan, Decided(s)) <=> s.group # {})
         /\ s.group # {} => Ahead(plan, r, Decided(s)) = Entering(plan, Rest(plan, s.stream - 1))
<1> DEFINE t == Decided(s)
<1>0. Loads(plan) \in Nat
  BY DEF Loads, GoodPlan
<1>1. /\ t.pc = IF ~(Distributed(plan, s.stream) /\ Many(plan)) THEN "local"
                ELSE IF s.group = {} THEN "group" ELSE IF plan.job.measured THEN "warmup" ELSE "share"
      /\ t.stream = s.stream /\ t.discovered = s.discovered /\ t.group = s.group
  BY DecidedIs
<1> HIDE DEF t
<1>2. Rank(plan, r, t)
  <2>1. \A j \in 1..Loads(plan) : j <= s.stream <=> j < s.stream \/ j = s.stream
    BY <1>0
  <2> QED
    BY <1>0, <1>1, <2>1 DEF Rank, ByItself, InLoad, Calls, Places
<1>3. HasGroup(plan, t) <=> s.group # {}
  BY <1>1 DEF HasGroup
<1>4. ASSUME s.group # {}
      PROVE  Ahead(plan, r, t) = Entering(plan, Rest(plan, s.stream - 1))
  <2>1. CASE ~Distributed(plan, s.stream)
    BY <1>1, <1>4, <2>1, RestStep DEF Ahead, ByItself
  <2>2. CASE Distributed(plan, s.stream) /\ plan.job.measured
    BY <1>1, <1>4, <2>2, RestStep DEF Ahead, ByItself, Entering
  <2>3. CASE Distributed(plan, s.stream) /\ ~plan.job.measured
    BY <1>1, <1>4, <2>3, RestStep DEF Ahead, ByItself, Entering
  <2> QED
    BY <2>1, <2>2, <2>3
<1> QED
  BY <1>2, <1>3, <1>4 DEF t

(* stream_files: the rank goes on to the next load.                        *)
LEMMA StreamFilesKeeps ==
  ASSUME Inv, NEW r \in World, StreamFiles(r)
  PROVE  Inv'
<1> DEFINE s == st[r]
           u == [s EXCEPT !.stream = @ + 1, !.got = <<>>]
           t == IF ~u.discovered /\ Many(plan) THEN [u EXCEPT !.pc = "gather"] ELSE Decided(u)
<1>1. /\ GoodPlan(plan) /\ Shaped(s) /\ s.failed \in BOOLEAN /\ s.pc = "ready" /\ s.stream < Loads(plan)
      /\ Steps(r, t)
  BY DEF Inv, Whole, World, Ranks, StreamFiles, At, Many, Loads
<1>2. /\ Shaped(u) /\ u.stream = s.stream + 1 /\ u.pc = s.pc /\ u.discovered = s.discovered
      /\ u.group = s.group /\ u.failed = s.failed
  BY <1>1 DEF Shaped, Fields
<1> HIDE DEF u
<1>3. Shaped(t) /\ t.failed = s.failed
  BY <1>2, DecidedIs DEF Shaped, Fields
<1>4. ASSUME InStep(plan, st)
      PROVE  Keeps(plan, r, s, t)
  <2>1. Rank(plan, r, s)
    BY <1>4 DEF InStep, World, Ranks
  <2>2. u.stream \in 1..Loads(plan) /\ u.stream - 1 = s.stream /\ Loads(plan) \in Nat
    BY <1>1, <1>2, <2>1 DEF Rank, Loads, GoodPlan
  <2>3. CASE ~u.discovered /\ Many(plan)
    <3>1. /\ s.stream = 0 /\ s.group = {}
          /\ t.pc = "gather" /\ t.stream = 1 /\ t.discovered = s.discovered /\ t.group = {}
      BY <1>1, <1>2, <2>1, <2>3 DEF Rank, Shaped, Fields
    <3> HIDE DEF t
    <3>2. Rank(plan, r, t)
      BY <1>2, <2>1, <2>2, <2>3, <3>1 DEF Rank, ByItself, InLoad, Calls, Places
    <3> QED
      BY <1>1, <3>1, <3>2 DEF Keeps, HasGroup
  <2>4. CASE u.discovered \/ ~Many(plan)
    <3>1. t = Decided(u) /\ u.discovered \in BOOLEAN
      BY <1>2, <2>1, <2>4 DEF Rank
    <3>2. u.group = {} /\ Many(plan) => \A j \in 1..Loads(plan) : j < u.stream => ~Distributed(plan, j)
      BY <1>1, <1>2, <2>1, <2>2 DEF Rank, ByItself
    <3>3. u.group # {} => u.group = Node(plan, r) /\ Many(plan) /\ u.discovered /\ Rest(plan, 0) # {}
      BY <1>2, <2>1 DEF Rank
    <3>4. /\ Rank(plan, r, t) /\ (HasGroup(plan, t) <=> u.group # {})
          /\ u.group # {} => Ahead(plan, r, t) = Entering(plan, Rest(plan, s.stream))
      BY <1>1, <1>2, <2>2, <2>4, <3>1, <3>2, <3>3, Decides
    <3>5. t.discovered = s.discovered
      BY <1>2, <3>1, DecidedIs
    <3>6. Ahead(plan, r, s) = Entering(plan, Rest(plan, s.stream))
      BY <1>1 DEF Ahead, ByItself
    <3> QED
      BY <1>1, <1>2, <3>4, <3>5, <3>6 DEF Keeps, HasGroup
  <2> QED
    BY <1>2, <2>1, <2>3, <2>4 DEF Rank
<1> QED
  BY <1>1, <1>3, <1>4, OneSteps

(* What every step of one rank starts from.                                *)
LEMMA OfRank ==
  ASSUME Inv, NEW r \in World
  PROVE  /\ GoodPlan(plan) /\ Loads(plan) \in Nat /\ r \in Ranks(plan)
         /\ Shaped(st[r]) /\ st[r].failed \in BOOLEAN
         /\ InStep(plan, st) => Rank(plan, r, st[r])
<1>1. GoodPlan(plan) /\ r \in Ranks(plan) /\ Shaped(st[r]) /\ st[r].failed \in BOOLEAN
  BY DEF Inv, Whole, World, Ranks
<1>2. Loads(plan) \in Nat
  BY <1>1 DEF Loads, GoodPlan
<1> QED
  BY <1>1, <1>2 DEF InStep

(* The load read without peers: the group, if any, is not needed.          *)
LEMMA ReadLocalKeeps ==
  ASSUME Inv, NEW r \in World, ReadLocal(r)
  PROVE  Inv'
<1> DEFINE s == st[r]
<1>1. CASE Steps(r, Raised(s))
  BY <1>1, Raises DEF Steps
<1>2. CASE Steps(r, [s EXCEPT !.pc = "ready", !.got = [i \in 1..TotalRanges |-> Tensor(plan.units[i])]])
  <2>1. PICK t : /\ Steps(r, t)
                 /\ t = [s EXCEPT !.pc = "ready", !.got = [i \in 1..TotalRanges |-> Tensor(plan.units[i])]]
    BY <1>2
  <2>2. /\ Shaped(t) /\ t.pc = "ready" /\ t.stream = s.stream /\ t.discovered = s.discovered
        /\ t.group = s.group /\ t.failed = s.failed /\ s.pc = "local"
    BY <2>1, OfRank DEF Shaped, Fields, ReadLocal, At
  <2>3. ASSUME InStep(plan, st)
        PROVE  Keeps(plan, r, s, t)
    <3>1. Rank(plan, r, t)
      BY <2>2, <2>3, OfRank DEF Rank, ByItself, InLoad, Calls, Places
    <3>2. Ahead(plan, r, t) = Ahead(plan, r, s)
      BY <2>2 DEF Ahead, ByItself
    <3> QED
      BY <2>2, <3>1, <3>2 DEF Keeps, HasGroup
  <2> QED
    BY <2>1, <2>2, <2>3, OfRank, OneSteps
<1> QED
  BY <1>1, <1>2 DEF ReadLocal

(* The share is taken: all of the group will come to the first turn.       *)
LEMMA TakeShareKeeps ==
  ASSUME Inv, NEW r \in World, TakeShare(r)
  PROVE  Inv'
<1> DEFINE s == st[r]
<1>0. PICK pc, unread, data, recv :
        /\ pc = IF TotalRanges = 0 THEN "ready" ELSE "fill"
        /\ Steps(r, [s EXCEPT !.pc = pc, !.toRead = TotalRanges, !.unread = unread, !.data = data, !.recv = recv])
  BY DEF TakeShare
<1>1. PICK total, t : /\ total = TotalRanges /\ Steps(r, t)
                      /\ t = [s EXCEPT !.pc = pc, !.toRead = total, !.unread = unread, !.data = data, !.recv = recv]
  BY <1>0
<1>2. /\ Shaped(t) /\ t.pc = (IF TotalRanges = 0 THEN "ready" ELSE "fill") /\ t.toRead = TotalRanges
      /\ t.stream = s.stream /\ t.discovered = s.discovered
      /\ t.group = s.group /\ t.failed = s.failed /\ s.pc = "share" /\ TotalRanges = Len(plan.units)
  <2>1. Shaped(s) /\ s.pc = "share" /\ TotalRanges = Len(plan.units)
    BY OfRank DEF TakeShare, At, TotalRanges
  <2>2. Shaped(t)
    BY <1>1, <2>1 DEF Shaped, Fields
  <2>3. t.pc = pc /\ t.toRead = total
    BY <1>1, <2>1 DEF Shaped, Fields
  <2>4. t.stream = s.stream /\ t.discovered = s.discovered /\ t.group = s.group /\ t.failed = s.failed
    BY <1>1, <2>1 DEF Shaped, Fields
  <2> QED
    BY <1>0, <1>1, <2>1, <2>2, <2>3, <2>4
<1>3. ASSUME InStep(plan, st)
      PROVE  Keeps(plan, r, s, t)
  <2>1. Rank(plan, r, t)
    BY <1>2, <1>3, OfRank DEF Rank, ByItself, InLoad, Calls, Places
  <2>2. Ahead(plan, r, t) = Ahead(plan, r, s)
    BY <1>2 DEF Ahead, ByItself
  <2>3. s.group # {}
    BY <1>2, <1>3, OfRank DEF Rank, InLoad
  <2> QED
    BY <1>2, <2>1, <2>2, <2>3 DEF Keeps, HasGroup
<1> QED
  BY <1>1, <1>2, <1>3, OfRank, OneSteps

(* prefill: the metadata's broadcast is next.                              *)
LEMMA PrefillKeeps ==
  ASSUME Inv, NEW r \in World, Prefill(r)
  PROVE  Inv'
<1> DEFINE s == st[r]
<1>1. PICK data, meta, unread :
        Steps(r, [s EXCEPT !.pc = "meta", !.turn = 1, !.sent = 0, !.data = data, !.meta = meta, !.unread = unread])
  BY DEF Prefill
<1>2. PICK t : /\ Steps(r, t)
               /\ t = [s EXCEPT !.pc = "meta", !.turn = 1, !.sent = 0, !.data = data, !.meta = meta, !.unread = unread]
  BY <1>1
<1>3. /\ Shaped(t) /\ t.pc = "meta" /\ t.turn = 1 /\ t.sent = 0 /\ t.toRead = s.toRead
      /\ t.stream = s.stream /\ t.discovered = s.discovered
      /\ t.group = s.group /\ t.failed = s.failed /\ s.pc = "fill"
  <2>1. Shaped(s) /\ s.pc = "fill"
    BY OfRank DEF Prefill, At
  <2>2. Shaped(t)
    BY <1>2, <2>1 DEF Shaped, Fields
  <2>3. t.pc = "meta" /\ t.turn = 1 /\ t.sent = 0
    BY <1>2, <2>1 DEF Shaped, Fields
  <2>4. /\ t.toRead = s.toRead /\ t.stream = s.stream /\ t.discovered = s.discovered
        /\ t.group = s.group /\ t.failed = s.failed
    BY <1>2, <2>1 DEF Shaped, Fields
  <2> QED
    BY <2>1, <2>2, <2>3, <2>4
<1>4. ASSUME InStep(plan, st)
      PROVE  Keeps(plan, r, s, t)
  <2>1. Rank(plan, r, t)
    BY <1>3, <1>4, OfRank DEF Rank, ByItself, InLoad, Calls, Places
  <2>2. Ahead(plan, r, t) = Ahead(plan, r, s)
    BY <1>3 DEF Ahead, ByItself
  <2> QED
    BY <1>3, <2>1, <2>2 DEF Keeps, HasGroup
<1> QED
  BY <1>2, <1>3, <1>4, OfRank, OneSteps

(* What NextTurn makes of a rank's state.                                  *)
LEMMA NextTurnIs ==
  ASSUME NEW s, Shaped(s)
  PROVE  LET t == NextTurn(s)
         IN  /\ Shaped(t) /\ t.stream = s.stream /\ t.discovered = s.discovered /\ t.group = s.group
             /\ \/ t.failed = TRUE
                \/ /\ s.turn < Cardinality(s.group) /\ t.pc = "meta" /\ t.turn = s.turn + 1
                   /\ t.toRead = s.toRead /\ t.sent = s.sent /\ t.failed = s.failed
                \/ /\ ~(s.turn < Cardinality(s.group)) /\ s.toRead = 0 /\ t.pc = "ready"
                   /\ t.failed = s.failed
                \/ /\ ~(s.turn < Cardinality(s.group)) /\ s.toRead # 0 /\ t.pc = "fill"
                   /\ t.toRead = s.toRead /\ t.failed = s.failed
  BY DEF Shaped, Fields, NextTurn, Raised

(* Where the next turn is: the collective a rank that hands over is        *)
(* before already.                                                         *)
Turning(p, s) ==
  IF s.turn < Cardinality(s.group) THEN Metas(Rest(p, s.stream - 1), s.turn + 1, s.toRead, s.sent)
  ELSE IF s.toRead = 0 THEN Entering(p, Rest(p, s.stream)) ELSE Metas(Rest(p, s.stream - 1), 1, s.toRead, 0)

(* NextTurn leaves a rank before the collective Turning names, unless it   *)
(* raises.                                                                 *)
LEMMA NextTurnKeeps ==
  ASSUME NEW r, NEW s, Shaped(s), NextTurn(s).failed # TRUE
  PROVE  /\ NextTurn(s).pc \in {"meta", "ready", "fill"}
         /\ NextTurn(s).failed = s.failed
         /\ Ahead(plan, r, NextTurn(s)) = Turning(plan, s)
<1> DEFINE t == NextTurn(s)
<1>1. /\ t.stream = s.stream /\ t.discovered = s.discovered /\ t.group = s.group
      /\ \/ /\ s.turn < Cardinality(s.group) /\ t.pc = "meta" /\ t.turn = s.turn + 1
            /\ t.toRead = s.toRead /\ t.sent = s.sent /\ t.failed = s.failed
         \/ /\ ~(s.turn < Cardinality(s.group)) /\ s.toRead = 0 /\ t.pc = "ready"
            /\ t.failed = s.failed
         \/ /\ ~(s.turn < Cardinality(s.group)) /\ s.toRead # 0 /\ t.pc = "fill"
            /\ t.toRead = s.toRead /\ t.failed = s.failed
  BY NextTurnIs
<1> HIDE DEF t
<1>2. Ahead(plan, r, t) = Turning(plan, s)
  BY <1>1 DEF Ahead, Turning, ByItself
<1> QED
  BY <1>1, <1>2 DEF t

(* A rank in a load that stays in its node's group.                        *)
LEMMA StaysRank ==
  ASSUME GoodPlan(plan), NEW r, NEW s, NEW t, Rank(plan, r, s), s.pc \in InLoad,
         t.pc \in InLoad \cup ByItself,
         t.stream = s.stream, t.discovered = s.discovered, t.group = s.group
  PROVE  Rank(plan, r, t) /\ HasGroup(plan, t) /\ HasGroup(plan, s)
<1>1. Loads(plan) \in Nat
  BY DEF Loads, GoodPlan
<1>2. s.group # {} /\ t.group # {}
  BY DEF Rank
<1> QED
  BY <1>1, <1>2 DEF Rank, HasGroup, ByItself, InLoad, Calls, Places

(* The batch is handed over: the next turn was known when it came.         *)
LEMMA HandOverKeeps ==
  ASSUME Inv, NEW r \in World, HandOver(r)
  PROVE  Inv'
<1> DEFINE s == st[r]
<1>1. PICK got : Steps(r, NextTurn([s EXCEPT !.got = got]))
  BY DEF HandOver
<1>2. PICK u : Steps(r, NextTurn(u)) /\ u = [s EXCEPT !.got = got]
  BY <1>1
<1>3. /\ Shaped(u) /\ u.pc = "hand" /\ s.pc = "hand" /\ u.turn = s.turn /\ u.sent = s.sent
      /\ u.toRead = s.toRead /\ u.stream = s.stream /\ u.discovered = s.discovered /\ u.group = s.group
      /\ u.failed = s.failed
  BY <1>2, OfRank DEF Shaped, Fields, HandOver, At
<1>4. PICK t : t = NextTurn(u)
  OBVIOUS
<1>5. /\ Shaped(t) /\ t.stream = s.stream /\ t.discovered = s.discovered /\ t.group = s.group
      /\ t.failed = TRUE \/ t.failed = s.failed
  BY <1>3, <1>4, NextTurnIs
<1>6. ASSUME InStep(plan, st), ~t.failed
      PROVE  Keeps(plan, r, s, t)
  <2>1. t.pc \in {"meta", "ready", "fill"} /\ Ahead(plan, r, t) = Turning(plan, u)
    BY <1>3, <1>4, <1>6, NextTurnKeeps
  <2>2. Ahead(plan, r, s) = Turning(plan, u)
    BY <1>3 DEF Ahead, Turning, ByItself
  <2>3. Rank(plan, r, t) /\ HasGroup(plan, t) /\ HasGroup(plan, s)
    BY <1>3, <1>5, <1>6, <2>1, OfRank, StaysRank DEF InLoad, ByItself
  <2> QED
    BY <1>5, <2>1, <2>2, <2>3 DEF Keeps
<1> QED
  BY <1>2, <1>4, <1>5, <1>6, OfRank, OneSteps

(* __exit__: a rank with a group goes to the barrier.                      *)
LEMMA ExitKeeps ==
  ASSUME Inv, NEW r \in World, Exit(r)
  PROVE  Inv'
<1> DEFINE s == st[r]
<1>1. PICK t : Steps(r, t) /\ t = [s EXCEPT !.pc = IF s.group = {} THEN "out" ELSE "barrier"]
  BY DEF Exit
<1>2. /\ Shaped(t) /\ t.pc = (IF s.group = {} THEN "out" ELSE "barrier")
      /\ t.stream = s.stream /\ t.discovered = s.discovered
      /\ t.group = s.group /\ t.failed = s.failed /\ s.pc = "ready" /\ s.stream = Loads(plan)
  BY <1>1, OfRank DEF Shaped, Fields, Exit, At, Loads
<1>3. ASSUME InStep(plan, st)
      PROVE  Keeps(plan, r, s, t)
  <2>0. Rank(plan, r, s)
    BY <1>3, OfRank
  <2>1. Rank(plan, r, t)
    BY <1>2, <2>0, OfRank DEF Rank, ByItself, InLoad, Calls, Places
  <2>2. CASE s.group = {}
    <3>1. ~Many(plan) \/ Rest(plan, 0) = {}
      BY <1>2, <2>0, <2>2, OfRank DEF Rank, Rest, ByItself
    <3> QED
      BY <1>2, <2>1, <2>2, <3>1 DEF Keeps, HasGroup
  <2>3. CASE s.group # {}
    <3>1. Ahead(plan, r, s) = Barrier /\ Ahead(plan, r, t) = Barrier
      BY <1>2, <2>3, OfRank, RestEnd DEF Ahead, ByItself, Entering
    <3> QED
      BY <1>2, <2>1, <2>3, <3>1 DEF Keeps, HasGroup
  <2> QED
    BY <2>2, <2>3
<1> QED
  BY <1>1, <1>2, <1>3, OfRank, OneSteps

(* A rank that leaves with its exception has raised.                       *)
LEMMA ExitRaisedKeeps ==
  ASSUME Inv, NEW r \in World, ExitRaised(r)
  PROVE  Inv'
<1> DEFINE s == st[r]
<1>1. PICK t : Steps(r, t) /\ t = [s EXCEPT !.pc = "out", !.group = {}]
  BY DEF ExitRaised
<1>2. Shaped(t) /\ t.failed = s.failed /\ s.pc = "raised"
  BY <1>1, OfRank DEF Shaped, Fields, ExitRaised, At
<1>3. ~InStep(plan, st)
  BY <1>2, OfRank DEF Rank, Places, ByItself, InLoad, Calls
<1> QED
  BY <1>1, <1>2, <1>3, OfRank, OneSteps

-----------------------------------------------------------------------------
(* Collectives.                                                            *)

(* A rank is on one node.                                                  *)
LEMMA NodeIs ==
  ASSUME NEW p, GoodPlan(p), NEW r \in Ranks(p)
  PROVE  /\ r \in Node(p, r) /\ Node(p, r) \subseteq Ranks(p)
         /\ \A q \in Ranks(p) : q \in Node(p, r) <=> Node(p, q) = Node(p, r)
<1>1. \A q \in Ranks(p) : Node(p, q) \in Range(p.job.nodes) /\ q \in Node(p, q)
  BY DEF Ranks, Node
<1>2. Node(p, r) \subseteq Ranks(p)
  BY <1>1 DEF Ranks
<1>3. ASSUME NEW q \in Ranks(p), q \in Node(p, r)
      PROVE  Node(p, q) = Node(p, r)
  BY <1>1, <1>3 DEF GoodPlan
<1> QED
  BY <1>1, <1>2, <1>3

(* The ranks of a node that go on together to before one collective, X.    *)
LEMMA NodeMoves ==
  ASSUME NEW p, GoodPlan(p), NEW f, NEW g, InStep(p, f), NEW r \in Ranks(p), NEW X,
         \A q \in Ranks(p) : q \notin Node(p, r) => g[q] = f[q],
         \A q \in Node(p, r) : /\ Rank(p, q, g[q]) /\ g[q].discovered = f[q].discovered
                                /\ HasGroup(p, f[q]) /\ HasGroup(p, g[q]) /\ Ahead(p, q, g[q]) = X
  PROVE  InStep(p, g)
<1>1. \A q \in Ranks(p) : Rank(p, q, g[q]) /\ g[q].discovered = f[q].discovered
  BY DEF InStep
<1>2. \A q \in Ranks(p) : HasGroup(p, f[q]) <=> HasGroup(p, g[q])
  OBVIOUS
<1>3. ASSUME NEW a \in Ranks(p), NEW b \in Ranks(p)
      PROVE  Together(p, a, g[a], b, g[b])
  <2>1. Together(p, a, f[a], b, f[b])
    BY DEF InStep
  <2>2. g[a].discovered = g[b].discovered /\ HasGroup(p, g[a]) = HasGroup(p, g[b])
    BY <1>1, <1>2, <2>1 DEF Together, HasGroup
  <2>3. ASSUME HasGroup(p, g[a]), Node(p, b) = Node(p, a)
        PROVE  Ahead(p, a, g[a]) = Ahead(p, b, g[b])
    <3>1. CASE a \in Node(p, r)
      BY <2>3, <3>1, NodeIs
    <3>2. CASE a \notin Node(p, r)
      BY <1>2, <2>1, <2>3, <3>2, NodeIs DEF Together
    <3> QED
      BY <3>1, <3>2
  <2> QED
    BY <2>2, <2>3 DEF Together
<1> QED
  BY <1>1, <1>3 DEF InStep

(* Two ranks of a node in the same call are in the same load, and in the   *)
(* same turn of it.                                                        *)
LEMMA SameCall ==
  ASSUME NEW p, GoodPlan(p), NEW r, NEW s, NEW q, NEW t, Rank(p, r, s), Rank(p, q, t),
         s.pc \in {"warmup", "reduce", "meta", "data"}, t.pc = s.pc, Ahead(p, q, t) = Ahead(p, r, s)
  PROVE  /\ t.stream = s.stream
         /\ s.pc \in {"meta", "data"} => t.turn = s.turn /\ t.toRead = s.toRead /\ t.sent = s.sent
         /\ s.pc = "data" => Heard(q, t) = Heard(r, s)
<1>1. /\ Ahead(p, r, s).rest = Rest(p, s.stream - 1)
      /\ s.pc \in {"meta", "data"} =>
           /\ Ahead(p, r, s).turn = s.turn /\ Ahead(p, r, s).toRead = s.toRead /\ Ahead(p, r, s).sent = s.sent
      /\ s.pc = "data" => Ahead(p, r, s).ms = Heard(r, s)
  BY DEF Ahead, ByItself, Metas, Coming
<1>2. /\ Ahead(p, q, t).rest = Rest(p, t.stream - 1)
      /\ t.pc \in {"meta", "data"} =>
           /\ Ahead(p, q, t).turn = t.turn /\ Ahead(p, q, t).toRead = t.toRead /\ Ahead(p, q, t).sent = t.sent
      /\ t.pc = "data" => Ahead(p, q, t).ms = Heard(q, t)
  BY DEF Ahead, ByItself, Metas, Coming
<1>3. /\ s.stream \in 1..Loads(p) /\ Distributed(p, s.stream)
      /\ t.stream \in 1..Loads(p) /\ Distributed(p, t.stream)
  BY DEF Rank, InLoad, GoodPlan, Loads
<1>4. t.stream = s.stream
  BY <1>1, <1>2, <1>3, RestSame
<1> QED
  BY <1>1, <1>2, <1>4

(* The state a member of each call is in after it.  The group is created.  *)
LEMMA PassedGroup ==
  ASSUME NEW q, NEW free, Shaped(st[q]), At(q, "group")
  PROVE  \E t : /\ Shaped(t) /\ Passed(q, free) = Decided(t)
                /\ t.stream = st[q].stream /\ t.discovered = st[q].discovered /\ t.group = Node(plan, q)
                /\ t.failed = st[q].failed
<1> DEFINE t == [st[q] EXCEPT !.group = NodeOf(q)]
<1>1. Passed(q, free) = Decided(t)
  BY DEF Passed, At
<1>2. /\ Shaped(t) /\ t.stream = st[q].stream /\ t.discovered = st[q].discovered /\ t.group = NodeOf(q)
      /\ t.failed = st[q].failed
  BY DEF Shaped, Fields
<1>3. NodeOf(q) = Node(plan, q)
  BY DEF NodeOf, Node
<1> QED
  BY <1>1, <1>2, <1>3

(* warmup: each reads its own device's memory.                             *)
LEMMA PassedWarmup ==
  ASSUME NEW q, NEW free, Shaped(st[q]), At(q, "warmup"), NEW t, t = Passed(q, free)
  PROVE  /\ Shaped(t) /\ t.pc = "reduce" /\ t.stream = st[q].stream /\ t.discovered = st[q].discovered
         /\ t.group = st[q].group /\ t.failed = st[q].failed
<1>1. t = [st[q] EXCEPT !.pc = "reduce", !.free = free[q]]
  BY DEF Passed, At
<1> QED
  BY <1>1 DEF Shaped, Fields

(* all_reduce(MIN): every member has the same least.                       *)
LeastOf(q) == Min({st[p].free : p \in st[q].group})

(* What it makes of a member: too little is read without peers.            *)
LEMMA PassedReduce ==
  ASSUME NEW q, NEW free, Shaped(st[q]), At(q, "reduce"), NEW t, t = Passed(q, free)
  PROVE  /\ Shaped(t) /\ t.stream = st[q].stream /\ t.discovered = st[q].discovered /\ t.group = st[q].group
         /\ LeastOf(q) < 0 => t.failed \in BOOLEAN /\ t.failed
         /\ ~(LeastOf(q) < 0) => t.failed = st[q].failed /\ t.pc = IF LeastOf(q) = 0 THEN "local" ELSE "share"
<1>1. t = Reduced(st[q], LeastOf(q))
  BY DEF Passed, At, LeastOf
<1> QED
  BY <1>1 DEF Shaped, Fields, Reduced, Raised, FallBack

(* The metadata has come, of ms chunks: the data is next, or the next turn *)
(* if there are none.                                                      *)
LEMMA PassedMeta ==
  ASSUME NEW q, NEW free, Shaped(st[q]), At(q, "meta"), NEW t, t = Passed(q, free)
  PROVE  \E ms, u :
           /\ ms = st[Root(st[q])].meta
           /\ Shaped(u) /\ u.stream = st[q].stream /\ u.discovered = st[q].discovered /\ u.group = st[q].group
           /\ u.failed = st[q].failed /\ u.turn = st[q].turn /\ u.meta = st[q].meta
           /\ u.toRead = st[q].toRead - Len(ms) /\ u.sent = st[q].sent + Len(ms)
           /\ u.rmeta = IF Root(st[q]) = q THEN st[q].rmeta ELSE ms
           /\ ms = <<>> => t = NextTurn(u)
           /\ ms # <<>> => u.pc = "data" /\ t = u
<1> DEFINE ms == st[Root(st[q])].meta
           u == [st[q] EXCEPT !.rmeta = IF Root(st[q]) = q THEN @ ELSE ms, !.toRead = @ - Len(ms), !.sent = @ + Len(ms)]
           v == [u EXCEPT !.pc = "data"]
<1>1. t = IF ms = <<>> THEN NextTurn(u) ELSE v
  BY DEF Passed, At, Told
<1>2. /\ Shaped(u) /\ u.stream = st[q].stream /\ u.discovered = st[q].discovered /\ u.group = st[q].group
      /\ u.failed = st[q].failed /\ u.turn = st[q].turn /\ u.meta = st[q].meta
      /\ u.toRead = st[q].toRead - Len(ms) /\ u.sent = st[q].sent + Len(ms)
      /\ u.rmeta = IF Root(st[q]) = q THEN st[q].rmeta ELSE ms
  BY DEF Shaped, Fields
<1> HIDE DEF u
<1>3. /\ Shaped(v) /\ v.stream = u.stream /\ v.discovered = u.discovered /\ v.group = u.group
      /\ v.failed = u.failed /\ v.turn = u.turn /\ v.meta = u.meta
      /\ v.toRead = u.toRead /\ v.sent = u.sent /\ v.rmeta = u.rmeta /\ v.pc = "data"
  BY <1>2 DEF Shaped, Fields
<1> HIDE DEF ms, v
<1>4. CASE ms = <<>>
  <2>1. t = NextTurn(u)
    BY <1>1, <1>4
  <2> QED
    BY <1>2, <1>4, <2>1 DEF ms
<1>5. CASE ms # <<>>
  <2>1. t = v
    BY <1>1, <1>5
  <2> QED
    BY <1>2, <1>3, <1>5, <2>1 DEF ms
<1> QED
  BY <1>4, <1>5

(* The data has come.                                                      *)
LEMMA PassedData ==
  ASSUME NEW q, NEW free, Shaped(st[q]), At(q, "data"), NEW t, t = Passed(q, free)
  PROVE  /\ Shaped(t) /\ t.stream = st[q].stream /\ t.discovered = st[q].discovered /\ t.group = st[q].group
         /\ t.failed = st[q].failed /\ t.turn = st[q].turn /\ t.toRead = st[q].toRead /\ t.sent = st[q].sent
         /\ t.pc = "hand"
<1>1. PICK recv : t = [st[q] EXCEPT !.pc = "hand", !.recv = recv]
  BY DEF Passed, At, Filled
<1> QED
  BY <1>1 DEF Shaped, Fields

(* The barrier of __exit__: the group is destroyed.                        *)
LEMMA PassedBarrier ==
  ASSUME NEW q, NEW free, Shaped(st[q]), At(q, "barrier"), NEW t, t = Passed(q, free)
  PROVE  /\ Shaped(t) /\ t.pc = "out" /\ t.stream = st[q].stream /\ t.discovered = st[q].discovered
         /\ t.group = {} /\ t.failed = st[q].failed
<1>1. t = [st[q] EXCEPT !.pc = "out", !.group = {}]
  BY DEF Passed, At
<1> QED
  BY <1>1 DEF Shaped, Fields

(* A collective leaves every member a state of the right shape, and does   *)
(* not undo a failure.                                                     *)
LEMMA PassedShaped ==
  ASSUME NEW q, NEW free, Shaped(st[q]), st[q].failed \in BOOLEAN, Waiting(q)
  PROVE  /\ Shaped(Passed(q, free)) /\ Passed(q, free).failed \in BOOLEAN
         /\ st[q].failed => Passed(q, free).failed
<1> DEFINE t == Passed(q, free)
<1>1. CASE At(q, "gather")
  <2>1. PICK u : u = [st[q] EXCEPT !.discovered = TRUE]
    OBVIOUS
  <2>2. Passed(q, free) = Decided(u)
    BY <1>1, <2>1 DEF Passed, At
  <2>3. Shaped(u) /\ u.failed = st[q].failed
    BY <2>1 DEF Shaped, Fields
  <2> QED
    BY <2>2, <2>3, DecidedIs
<1>2. CASE At(q, "group")
  BY <1>2, PassedGroup, DecidedIs
<1>3. CASE At(q, "warmup")
  BY <1>3, PassedWarmup
<1>4. CASE At(q, "reduce")
  BY <1>4, PassedReduce
<1>5. CASE At(q, "meta")
  <2>1. PICK u : Shaped(u) /\ u.failed = st[q].failed /\ (t = NextTurn(u) \/ t = u)
    BY <1>5, PassedMeta
  <2>2. Shaped(NextTurn(u)) /\ NextTurn(u).failed \in BOOLEAN /\ (st[q].failed => NextTurn(u).failed)
    BY <2>1, NextTurnIs
  <2> QED
    BY <2>1, <2>2
<1>6. CASE At(q, "data")
  BY <1>6, PassedData
<1>7. CASE At(q, "barrier")
  BY <1>7, PassedBarrier
<1> QED
  BY <1>1, <1>2, <1>3, <1>4, <1>5, <1>6, <1>7 DEF Waiting, At

(* The discovery of the nodes: every rank is in its first load.            *)
LEMMA GatherMeets ==
  ASSUME Inv, InStep(plan, st), NEW free, NEW g, \A q \in World : At(q, "gather"),
         \A q \in World : g[q] = Passed(q, free)
  PROVE  InStep(plan, g)
<1>1. ASSUME NEW q \in World
      PROVE  Rank(plan, q, g[q]) /\ g[q].discovered = TRUE /\ ~HasGroup(plan, g[q])
  <2>0. PICK t : t = [st[q] EXCEPT !.discovered = TRUE]
    OBVIOUS
  <2>1. /\ Shaped(t) /\ g[q] = Decided(t)
        /\ t.stream = st[q].stream /\ t.discovered = TRUE /\ t.group = st[q].group
    <3>1. At(q, "gather") /\ Shaped(st[q]) /\ g[q] = Passed(q, free)
      BY OfRank
    <3>2. g[q] = Decided(t)
      BY <2>0, <3>1 DEF Passed, At
    <3>3. Shaped(t) /\ t.stream = st[q].stream /\ t.discovered = TRUE /\ t.group = st[q].group
      BY <2>0, <3>1 DEF Shaped, Fields
    <3> QED
      BY <3>2, <3>3
  <2>2. t.stream = 1 /\ t.group = {} /\ Loads(plan) \in Nat /\ t.stream \in 1..Loads(plan)
    BY <2>1, OfRank DEF Rank, At
  <2>3. \A j \in 1..Loads(plan) : ~(j < t.stream)
    BY <2>2
  <2>4. Rank(plan, q, g[q]) /\ (HasGroup(plan, g[q]) <=> t.group # {})
    BY <2>1, <2>2, <2>3, OfRank, Decides
  <2> QED
    BY <2>1, <2>2, <2>4, DecidedIs
<1>2. World = Ranks(plan)
  BY DEF World, Ranks
<1>3. ASSUME NEW r \in World, NEW q \in World
      PROVE  Together(plan, r, g[r], q, g[q])
  <2>1. /\ g[r].discovered = g[q].discovered
        /\ HasGroup(plan, g[r]) = FALSE /\ HasGroup(plan, g[q]) = FALSE
    BY <1>1 DEF HasGroup
  <2> QED
    BY <2>1 DEF Together
<1> QED
  BY <1>1, <1>2, <1>3 DEF InStep

(* The creation of the groups: every rank is in the first load that asks   *)
(* for distributing.                                                       *)
LEMMA GroupMeets ==
  ASSUME Inv, InStep(plan, st), NEW free, NEW g, \A q \in World : At(q, "group"),
         \A q \in World : g[q] = Passed(q, free)
  PROVE  InStep(plan, g)
<1>1. ASSUME NEW q \in World
      PROVE  /\ Rank(plan, q, g[q]) /\ g[q].discovered = TRUE /\ HasGroup(plan, g[q])
             /\ Ahead(plan, q, g[q]) = Entering(plan, Rest(plan, st[q].stream - 1))
  <2>1. PICK t : /\ Shaped(t) /\ g[q] = Decided(t)
                 /\ t.stream = st[q].stream /\ t.discovered = st[q].discovered /\ t.group = Node(plan, q)
    <3>1. At(q, "group") /\ Shaped(st[q]) /\ g[q] = Passed(q, free)
      BY OfRank
    <3> QED
      BY <3>1, PassedGroup
  <2>2. /\ t.discovered = TRUE /\ Loads(plan) \in Nat /\ t.stream \in 1..Loads(plan) /\ Many(plan)
    BY <2>1, OfRank DEF Rank, At
  <2>3. t.group # {} /\ Rest(plan, 0) # {}
    <3>1. Distributed(plan, t.stream)
      BY <2>1, OfRank DEF Rank, At
    <3> QED
      BY <2>1, <2>2, <3>1, OfRank, NodeIs DEF Rest
  <2>4. /\ Rank(plan, q, g[q]) /\ (HasGroup(plan, g[q]) <=> t.group # {})
        /\ Ahead(plan, q, g[q]) = Entering(plan, Rest(plan, t.stream - 1))
    BY <2>1, <2>2, <2>3, OfRank, Decides
  <2> QED
    BY <2>1, <2>2, <2>3, <2>4, DecidedIs
<1>2. ASSUME NEW q \in World, NEW r \in World
      PROVE  st[q].stream = st[r].stream
  <2>1. ASSUME NEW x \in World
        PROVE  /\ st[x].stream \in 1..Loads(plan) /\ Loads(plan) \in Nat /\ Distributed(plan, st[x].stream)
               /\ \A j \in 1..Loads(plan) : j < st[x].stream => ~Distributed(plan, j)
    BY OfRank DEF Rank, At
  <2>2. ~(st[q].stream < st[r].stream) /\ ~(st[r].stream < st[q].stream)
    BY <2>1
  <2>3. st[q].stream \in Int /\ st[r].stream \in Int
    BY <2>1
  <2> QED
    BY <2>2, <2>3
<1>3. World = Ranks(plan)
  BY DEF World, Ranks
<1>4. \A r, q \in World : Ahead(plan, r, g[r]) = Ahead(plan, q, g[q])
  BY <1>1, <1>2
<1>5. ASSUME NEW r \in World, NEW q \in World
      PROVE  Together(plan, r, g[r], q, g[q])
  <2>1. /\ g[r].discovered = g[q].discovered
        /\ HasGroup(plan, g[r]) = TRUE /\ HasGroup(plan, g[q]) = TRUE
    BY <1>1 DEF HasGroup
  <2> QED
    BY <1>4, <2>1 DEF Together
<1> QED
  BY <1>1, <1>3, <1>5 DEF InStep

(* A collective of a node: its members were before it, and are before the  *)
(* same one after it.                                                      *)
LEMMA NodeMeets ==
  ASSUME Inv, InStep(plan, st), NEW r \in World, NEW free, NEW g, Waiting(r),
         ~At(r, "gather"), ~At(r, "group"),
         \A q \in Node(plan, r) : st[q].pc = st[r].pc /\ g[q] = Passed(q, free) /\ ~g[q].failed,
         \A q \in World : q \notin Node(plan, r) => g[q] = st[q]
  PROVE  InStep(plan, g)
<1> DEFINE s == st[r]
           N == Node(plan, r)
<1>1. /\ World = Ranks(plan) /\ GoodPlan(plan) /\ Loads(plan) \in Nat
      /\ r \in N /\ N \subseteq World /\ \A q \in N : Node(plan, q) = N
  BY OfRank, NodeIs DEF World, Ranks
<1>2. /\ s.pc \in {"warmup", "reduce", "meta", "data", "barrier"}
      /\ Rank(plan, r, s) /\ Shaped(s) /\ s.group = N /\ HasGroup(plan, s)
  BY <1>1, OfRank DEF Rank, HasGroup, InLoad, Waiting, At
<1>3. ASSUME NEW q \in N
      PROVE  /\ Rank(plan, q, st[q]) /\ Shaped(st[q]) /\ st[q].group = N /\ HasGroup(plan, st[q])
             /\ st[q].pc = s.pc /\ Ahead(plan, q, st[q]) = Ahead(plan, r, s)
  <2>1. Together(plan, r, s, q, st[q])
    BY <1>1 DEF InStep
  <2>2. HasGroup(plan, st[q]) /\ Ahead(plan, q, st[q]) = Ahead(plan, r, s)
    BY <1>1, <1>2, <2>1 DEF Together
  <2>3. Rank(plan, q, st[q]) /\ Shaped(st[q]) /\ st[q].pc = s.pc
    BY <1>1, OfRank
  <2> QED
    BY <1>1, <1>2, <2>2, <2>3 DEF Rank, InLoad, HasGroup
<1>0. ASSUME NEW q \in N, s.pc # "barrier"
      PROVE  /\ st[q].stream = s.stream
             /\ s.pc \in {"meta", "data"} => /\ st[q].turn = s.turn /\ st[q].toRead = s.toRead
                                            /\ st[q].sent = s.sent
  <2>1. PICK t : t = st[q]
    OBVIOUS
  <2>2. /\ Rank(plan, q, t) /\ Rank(plan, r, s) /\ t.pc = s.pc /\ Ahead(plan, q, t) = Ahead(plan, r, s)
        /\ s.pc \in {"warmup", "reduce", "meta", "data"} /\ GoodPlan(plan)
    BY <1>0, <1>1, <1>2, <1>3, <2>1
  <2> HIDE DEF s
  <2>3. /\ t.stream = s.stream
        /\ s.pc \in {"meta", "data"} => t.turn = s.turn /\ t.toRead = s.toRead /\ t.sent = s.sent
    BY <2>2, SameCall
  <2> QED
    BY <2>1, <2>3
<1>4. CASE s.pc = "warmup"
  <2> DEFINE X == Coming("reduce", Rest(plan, s.stream - 1), 0, 0, 0, <<>>)
  <2>1. ASSUME NEW q \in N
        PROVE  /\ Rank(plan, q, g[q]) /\ g[q].discovered = st[q].discovered
               /\ HasGroup(plan, g[q]) /\ Ahead(plan, q, g[q]) = X
    <3>1. /\ g[q].pc = "reduce" /\ g[q].stream = st[q].stream /\ g[q].discovered = st[q].discovered
          /\ g[q].group = st[q].group
      BY <1>3, <1>4, PassedWarmup DEF At
    <3>2. Rank(plan, q, g[q]) /\ HasGroup(plan, g[q])
      BY <1>1, <1>3, <1>4, <3>1, StaysRank DEF InLoad
    <3>3. st[q].stream = s.stream
      BY <1>0, <1>4
    <3> QED
      BY <3>1, <3>2, <3>3 DEF Ahead, ByItself
  <2> HIDE DEF X
  <2> QED
    BY <1>1, <1>3, <2>1, NodeMoves
<1>5. CASE s.pc = "reduce"
  <2> DEFINE least == Min({st[p].free : p \in N})
             X == IF least = 0 \/ Len(plan.units) = 0 THEN Entering(plan, Rest(plan, s.stream))
                  ELSE Metas(Rest(plan, s.stream - 1), 1, Len(plan.units), 0)
  <2>1. ASSUME NEW q \in N
        PROVE  /\ Rank(plan, q, g[q]) /\ g[q].discovered = st[q].discovered
               /\ HasGroup(plan, g[q]) /\ Ahead(plan, q, g[q]) = X
    <3>1. At(q, "reduce") /\ Shaped(st[q]) /\ g[q] = Passed(q, free) /\ ~g[q].failed /\ st[q].group = N
      BY <1>3, <1>5 DEF At
    <3>2. /\ g[q].pc = (IF least = 0 THEN "local" ELSE "share") /\ g[q].stream = st[q].stream
          /\ g[q].discovered = st[q].discovered /\ g[q].group = st[q].group
      <4>1. LeastOf(q) = least
        BY <3>1 DEF LeastOf
      <4> HIDE DEF least
      <4> QED
        BY <3>1, <4>1, PassedReduce
    <3> HIDE DEF least
    <3>3. Rank(plan, q, g[q]) /\ HasGroup(plan, g[q])
      BY <1>1, <1>3, <1>5, <3>2, StaysRank DEF InLoad, ByItself
    <3>4. st[q].stream = s.stream
      BY <1>0, <1>5
    <3> QED
      BY <3>2, <3>3, <3>4 DEF Ahead, ByItself
  <2> HIDE DEF X
  <2> QED
    BY <1>1, <1>3, <2>1, NodeMoves
<1>6. CASE s.pc = "meta"
  <2> DEFINE ms == st[Root(s)].meta
             now == Rest(plan, s.stream - 1)
             X == IF ms # <<>> THEN Coming("data", now, s.turn, s.toRead - Len(ms), s.sent + Len(ms), ms)
                  ELSE IF s.turn < Cardinality(N) THEN Metas(now, s.turn + 1, s.toRead - Len(ms), s.sent + Len(ms))
                  ELSE IF s.toRead - Len(ms) = 0 THEN Entering(plan, Rest(plan, s.stream))
                  ELSE Metas(now, 1, s.toRead - Len(ms), 0)
  <2>1. ASSUME NEW q \in N
        PROVE  /\ Rank(plan, q, g[q]) /\ g[q].discovered = st[q].discovered
               /\ HasGroup(plan, g[q]) /\ Ahead(plan, q, g[q]) = X
    <3>1. /\ st[q].stream = s.stream /\ st[q].turn = s.turn /\ st[q].toRead = s.toRead /\ st[q].sent = s.sent
      BY <1>0, <1>6
    <3>2. Root(st[q]) = Root(s)
      BY <1>2, <1>3, <3>1 DEF Root
    <3>3. At(q, "meta") /\ Shaped(st[q]) /\ g[q] = Passed(q, free) /\ ~g[q].failed
      BY <1>3, <1>6 DEF At
    <3>4. Root(s) = q => st[q].meta = ms
      OBVIOUS
    <3>5. PICK t : /\ Shaped(t) /\ t.stream = st[q].stream /\ t.discovered = st[q].discovered
                   /\ t.group = st[q].group /\ t.turn = st[q].turn /\ t.meta = st[q].meta
                   /\ t.toRead = st[q].toRead - Len(ms) /\ t.sent = st[q].sent + Len(ms)
                   /\ t.rmeta = IF Root(s) = q THEN st[q].rmeta ELSE ms
                   /\ ms = <<>> => g[q] = NextTurn(t)
                   /\ ms # <<>> => t.pc = "data" /\ g[q] = t
      BY <3>2, <3>3, PassedMeta
    <3> HIDE DEF ms
    <3>6. CASE ms # <<>>
      <4>1. g[q] = t /\ t.pc = "data"
        BY <3>5, <3>6
      <4>2. Rank(plan, q, t) /\ HasGroup(plan, t)
        BY <1>1, <1>3, <1>6, <3>5, <4>1, StaysRank DEF InLoad
      <4>3. Root(t) = Root(s)
        BY <1>3, <3>1, <3>2, <3>5 DEF Root
      <4>4. Heard(q, t) = ms
        BY <3>4, <3>5, <4>3 DEF Heard
      <4>5. Ahead(plan, q, t) = Coming("data", Rest(plan, t.stream - 1), t.turn, t.toRead, t.sent, Heard(q, t))
        BY <4>1 DEF Ahead, ByItself
      <4> QED
        BY <3>1, <3>5, <3>6, <4>1, <4>2, <4>4, <4>5
    <3>7. CASE ms = <<>>
      <4>1. /\ g[q] = NextTurn(t) /\ NextTurn(t).failed # TRUE
        BY <3>3, <3>5, <3>7
      <4>2. /\ g[q].pc \in {"meta", "ready", "fill"} /\ Ahead(plan, q, g[q]) = Turning(plan, t)
            /\ g[q].stream = t.stream /\ g[q].discovered = t.discovered /\ g[q].group = t.group
        <5>1. Shaped(t)
          BY <3>5
        <5>2. /\ NextTurn(t).pc \in {"meta", "ready", "fill"} /\ Ahead(plan, q, NextTurn(t)) = Turning(plan, t)
          BY <4>1, <5>1, NextTurnKeeps
        <5>3. /\ NextTurn(t).stream = t.stream /\ NextTurn(t).discovered = t.discovered
              /\ NextTurn(t).group = t.group
          BY <5>1, NextTurnIs
        <5> QED
          BY <4>1, <5>2, <5>3
      <4>3. Rank(plan, q, g[q]) /\ HasGroup(plan, g[q])
        <5>1. /\ g[q].stream = st[q].stream /\ g[q].discovered = st[q].discovered /\ g[q].group = st[q].group
              /\ g[q].pc \in InLoad \cup ByItself
          BY <3>5, <4>2 DEF InLoad, ByItself
        <5>2. Rank(plan, q, st[q]) /\ st[q].pc \in InLoad /\ GoodPlan(plan)
          BY <1>1, <1>3, <1>6 DEF InLoad
        <5> QED
          BY <5>1, <5>2, StaysRank
      <4>4. Turning(plan, t) = X
        BY <1>3, <3>1, <3>5, <3>7 DEF Turning
      <4> QED
        BY <3>5, <4>2, <4>3, <4>4
    <3> QED
      BY <3>6, <3>7
  <2> HIDE DEF X
  <2> QED
    BY <1>1, <1>3, <2>1, NodeMoves
<1>7. CASE s.pc = "data"
  <2> DEFINE X == Turning(plan, s)
  <2>1. ASSUME NEW q \in N
        PROVE  /\ Rank(plan, q, g[q]) /\ g[q].discovered = st[q].discovered
               /\ HasGroup(plan, g[q]) /\ Ahead(plan, q, g[q]) = X
    <3>1. /\ st[q].stream = s.stream /\ st[q].turn = s.turn /\ st[q].toRead = s.toRead /\ st[q].sent = s.sent
      BY <1>0, <1>7
    <3>2. /\ g[q].pc = "hand" /\ g[q].stream = st[q].stream /\ g[q].discovered = st[q].discovered
          /\ g[q].group = st[q].group /\ g[q].turn = st[q].turn /\ g[q].toRead = st[q].toRead
          /\ g[q].sent = st[q].sent
      BY <1>3, <1>7, PassedData DEF At
    <3>3. Rank(plan, q, g[q]) /\ HasGroup(plan, g[q])
      BY <1>1, <1>3, <1>7, <3>2, StaysRank DEF InLoad
    <3> QED
      BY <1>2, <1>3, <3>1, <3>2, <3>3 DEF Ahead, Turning, ByItself
  <2> HIDE DEF X
  <2> QED
    BY <1>1, <1>3, <2>1, NodeMoves
<1>8. CASE s.pc = "barrier"
  <2> DEFINE X == Coming("out", {}, 0, 0, 0, <<>>)
  <2>1. ASSUME NEW q \in N
        PROVE  /\ Rank(plan, q, g[q]) /\ g[q].discovered = st[q].discovered
               /\ HasGroup(plan, g[q]) /\ Ahead(plan, q, g[q]) = X
    <3>1. /\ g[q].pc = "out" /\ g[q].stream = st[q].stream /\ g[q].discovered = st[q].discovered
          /\ g[q].group = {}
      BY <1>3, <1>8, PassedBarrier DEF At
    <3>2. Rank(plan, q, g[q])
      BY <1>1, <1>3, <1>8, <3>1 DEF Rank, InLoad, ByItself, Calls, Places
    <3>3. HasGroup(plan, g[q])
      BY <1>1, <1>3, <1>8, <3>1 DEF Rank, HasGroup
    <3> QED
      BY <3>1, <3>2, <3>3 DEF Ahead, ByItself
  <2> HIDE DEF X
  <2> QED
    BY <1>1, <1>3, <2>1, NodeMoves
<1> QED
  BY <1>2, <1>4, <1>5, <1>6, <1>7, <1>8

(* A collective keeps the invariant, whichever it is.                      *)
LEMMA MeetKeeps ==
  ASSUME Inv, NEW r \in World, Meet(r)
  PROVE  Inv'
<1>1. PICK free : st' = [q \in World |-> IF q \in Members(r) THEN Passed(q, free) ELSE st[q]]
  BY DEF Meet
<1>2. /\ plan' = plan /\ World = Ranks(plan) /\ Waiting(r)
      /\ \A q \in Members(r) : Waiting(q) /\ Call(q) = Call(r)
  BY DEF Meet, World, Ranks
<1>3. PICK g : g = st'
  OBVIOUS
<1>4. /\ g = [q \in World |-> g[q]]
      /\ \A q \in World : g[q] = IF q \in Members(r) THEN Passed(q, free) ELSE st[q]
  BY <1>1, <1>3
<1>5. ASSUME NEW q \in World
      PROVE  Shaped(g[q]) /\ g[q].failed \in BOOLEAN /\ (st[q].failed => g[q].failed)
  <2>1. CASE q \in Members(r)
    BY <1>2, <1>4, <2>1, OfRank, PassedShaped
  <2>2. CASE q \notin Members(r)
    BY <1>4, <2>2, OfRank
  <2> QED
    BY <2>1, <2>2
<1>6. ASSUME \A q \in World : ~g[q].failed
      PROVE  InStep(plan, g)
  <2>1. InStep(plan, st)
    BY <1>2, <1>5, <1>6 DEF Inv, Whole
  <2>2. ASSUME NEW q \in Members(r)
        PROVE  st[q].pc = st[r].pc
    <3>1. Call(q).op = Call(r).op
      BY <1>2
    <3> QED
      BY <3>1 DEF Call
  <2>3. CASE At(r, "gather")
    <3>1. Members(r) = World
      BY <2>3 DEF Members, At
    <3> QED
      BY <1>4, <2>1, <2>2, <2>3, <3>1, GatherMeets DEF At
  <2>4. CASE At(r, "group")
    <3>1. Members(r) = World
      BY <2>4 DEF Members, At
    <3> QED
      BY <1>4, <2>1, <2>2, <2>4, <3>1, GroupMeets DEF At
  <2>5. CASE ~At(r, "gather") /\ ~At(r, "group")
    <3>1. Members(r) = st[r].group
      BY <2>5 DEF Members, At
    <3>2. Rank(plan, r, st[r])
      BY <2>1, OfRank
    <3>3. st[r].group = Node(plan, r) /\ Node(plan, r) \subseteq World
      BY <1>2, <2>5, <3>2, OfRank, NodeIs DEF Rank, Waiting, At, InLoad
    <3>4. \A q \in Node(plan, r) : st[q].pc = st[r].pc /\ g[q] = Passed(q, free) /\ ~g[q].failed
      BY <1>4, <1>6, <2>2, <3>1, <3>3
    <3>5. \A q \in World : q \notin Node(plan, r) => g[q] = st[q]
      BY <1>4, <3>1, <3>3
    <3> QED
      BY <1>2, <2>1, <2>5, <3>4, <3>5, NodeMeets
  <2> QED
    BY <2>3, <2>4, <2>5
<1>7. GoodPlan(plan)
  BY OfRank
<1>8. Whole(plan, g)
  BY <1>2, <1>4, <1>5, <1>6, <1>7 DEF Whole
<1> QED
  BY <1>2, <1>3, <1>8 DEF Inv

-----------------------------------------------------------------------------
(* Ranks begin together, before any load.                                  *)
LEMMA InitIs ==
  ASSUME Init
  PROVE  Inv
<1>1. PICK c \in Cases : plan = Planned(c)
  BY DEF Init
<1>2. plan.job = c
  BY <1>1 DEF Planned
<1>3. GoodPlan(plan) /\ Loads(plan) \in Nat
  BY <1>2, CasesAssumption DEF GoodPlan, Loads
<1>4. /\ st = [r \in Ranks(plan) |-> Fresh]
  BY DEF Init, World, Ranks
<1>5. \A r \in Ranks(plan) : st[r] = Fresh
  BY <1>4
<1>6. /\ Fresh.pc = "ready" /\ Fresh.stream = 0 /\ Fresh.discovered = FALSE /\ Fresh.group = {}
      /\ Fresh.failed = FALSE
  BY DEF Fresh
<1>7. Shaped(Fresh)
  BY DEF Fresh, Shaped, Fields
<1>8. ASSUME NEW r \in Ranks(plan)
      PROVE  Rank(plan, r, Fresh)
  <2>1. 0 \in 0..Loads(plan) /\ \A j \in 1..Loads(plan) : ~(j <= 0)
    BY <1>3
  <2> QED
    BY <1>6, <2>1 DEF Rank, ByItself, InLoad, Calls, Places
<1>9. \A r, q \in Ranks(plan) : Together(plan, r, Fresh, q, Fresh)
  BY <1>6 DEF Together, HasGroup
<1>10. InStep(plan, st)
  BY <1>5, <1>8, <1>9 DEF InStep
<1>11. st = [r \in Ranks(plan) |-> st[r]]
  BY <1>4
<1> QED
  BY <1>3, <1>5, <1>6, <1>7, <1>10, <1>11 DEF Inv, Whole

(* Every step keeps the invariant.                                         *)
LEMMA NextKeeps ==
  ASSUME Inv, [Next]_vars
  PROVE  Inv'
<1>1. CASE UNCHANGED vars
  BY <1>1 DEF vars, Inv
<1>2. ASSUME NEW r \in World, Acts(r)
      PROVE  Inv'
  <2>1. CASE TimeOut(r)
    BY <2>1, Raises DEF TimeOut, Steps
  <2> QED
    BY <1>2, <2>1, StreamFilesKeeps, ReadLocalKeeps, TakeShareKeeps, PrefillKeeps, HandOverKeeps, MeetKeeps,
       ExitKeeps, ExitRaisedKeeps DEF Acts
<1>3. ASSUME NEW r \in World, Breaks(r)
      PROVE  Inv'
  <2>1. PICK f : Fails(r, f)
    BY <1>3 DEF Breaks, ReadLocalFails, PrefillFails, Abandon, TimeOutLate
  <2> QED
    BY <2>1, Raises DEF Fails
<1> QED
  BY <1>1, <1>2, <1>3 DEF Next, Over

(* In every reachable state the ranks are together, unless one has raised. *)
THEOREM Invariance == FairSpec => []Inv
<1>1. Init => Inv
  BY InitIs
<1>2. Inv /\ [Next]_vars => Inv'
  BY NextKeeps
<1> QED
  BY <1>1, <1>2, PTL DEF FairSpec

(* Who waits in a collective is before it, and who has left is before      *)
(* none.                                                                   *)
LEMMA AheadOfWaiting ==
  ASSUME NEW p, NEW r, NEW s
  PROVE  /\ s.pc \in {"warmup", "reduce", "meta", "data", "barrier"} => Ahead(p, r, s).op = s.pc
         /\ s.pc = "out" => Ahead(p, r, s).op = "out"
  BY DEF Ahead, ByItself, Metas, Barrier, Coming

(* The invariant is enough.                                                *)
LEMMA InvNoneStranded == Inv => NoneStranded
<1> SUFFICES ASSUME Inv, NoneFailed, NEW r \in World, Waiting(r), NEW q \in Members(r)
             PROVE  ~At(q, "out") /\ (Waiting(q) /\ r \in Members(q) => Call(q) = Call(r))
  BY DEF NoneStranded
<1>1. World = Ranks(plan)
  BY DEF World, Ranks
<1>2. InStep(plan, st)
  BY <1>1 DEF Inv, Whole, NoneFailed
<1>3. Rank(plan, r, st[r]) /\ GoodPlan(plan) /\ Loads(plan) \in Nat
  BY <1>2, OfRank
<1>4. CASE At(r, "gather")
  <2>1. q \in World
    BY <1>4 DEF Members, At
  <2>2. Rank(plan, q, st[q]) /\ Together(plan, r, st[r], q, st[q])
    BY <1>1, <1>2, <2>1 DEF InStep
  <2>3. Many(plan) /\ ~st[q].discovered /\ st[r].stream = 1 /\ Loads(plan) # 0
    BY <1>3, <1>4, <2>2 DEF Rank, Together, At
  <2>4. ~At(q, "out")
    BY <2>2, <2>3 DEF Rank, At
  <2>5. Waiting(q) => At(q, "gather")
    BY <2>2, <2>3 DEF Rank, At, Waiting
  <2> QED
    BY <1>4, <2>4, <2>5 DEF Call, Members, At
<1>5. CASE At(r, "group")
  <2>1. q \in World
    BY <1>5 DEF Members, At
  <2>2. Rank(plan, q, st[q]) /\ Together(plan, r, st[r], q, st[q])
    BY <1>1, <1>2, <2>1 DEF InStep
  <2>3. /\ Many(plan) /\ st[r].discovered /\ st[r].group = {} /\ Distributed(plan, st[r].stream)
        /\ st[r].stream \in 1..Loads(plan)
    BY <1>3, <1>5 DEF Rank, At
  <2>4. Rest(plan, 0) # {}
    BY <1>3, <2>3 DEF Rest
  <2>5. ~HasGroup(plan, st[r])
    BY <1>5, <2>3 DEF HasGroup, At
  <2>6. ~HasGroup(plan, st[q]) /\ st[q].discovered
    BY <2>2, <2>3, <2>5 DEF Together, HasGroup
  <2>7. ~At(q, "out")
    BY <2>3, <2>4, <2>6 DEF HasGroup, At
  <2>8. Waiting(q) => At(q, "group")
    BY <2>2, <2>6 DEF Rank, At, Waiting, HasGroup, InLoad
  <2> QED
    BY <1>5, <2>7, <2>8 DEF Call, Members, At
<1>6. CASE ~At(r, "gather") /\ ~At(r, "group")
  <2>1. /\ st[r].pc \in {"warmup", "reduce", "meta", "data", "barrier"}
        /\ Members(r) = st[r].group /\ st[r].group = Node(plan, r) /\ HasGroup(plan, st[r])
    BY <1>3, <1>6 DEF Waiting, Members, At, Rank, HasGroup, InLoad
  <2>2. q \in World /\ Node(plan, q) = Node(plan, r)
    BY <1>1, <1>3, <2>1, NodeIs
  <2>3. Rank(plan, q, st[q]) /\ Together(plan, r, st[r], q, st[q])
    BY <1>1, <1>2, <2>2 DEF InStep
  <2>4. Ahead(plan, q, st[q]) = Ahead(plan, r, st[r]) /\ HasGroup(plan, st[q])
    BY <2>1, <2>2, <2>3 DEF Together
  <2>5. ~At(q, "out")
    BY <2>1, <2>4, AheadOfWaiting DEF At
  <2>6. ASSUME Waiting(q)
        PROVE  Call(q) = Call(r)
    <3>1. st[q].pc \notin {"gather", "group"} /\ st[q].group = Node(plan, r)
      BY <2>2, <2>3, <2>4, <2>5 DEF Rank, HasGroup, At
    <3>2. st[q].pc = st[r].pc
      BY <2>1, <2>4, <2>6, <3>1, AheadOfWaiting DEF Waiting
    <3>3. Members(q) = Members(r)
      BY <2>1, <3>1, <3>2 DEF Members
    <3>4. CASE st[r].pc \in {"warmup", "reduce", "barrier"}
      BY <3>2, <3>3, <3>4 DEF Call
    <3>5. CASE st[r].pc \in {"meta", "data"}
      <4>1. PICK s, t : s = st[r] /\ t = st[q]
        OBVIOUS
      <4>2. /\ Rank(plan, r, s) /\ Rank(plan, q, t) /\ s.pc \in {"warmup", "reduce", "meta", "data"}
            /\ t.pc = s.pc /\ Ahead(plan, q, t) = Ahead(plan, r, s)
        BY <1>3, <2>3, <2>4, <3>2, <3>5, <4>1
      <4>3. t.turn = s.turn /\ (s.pc = "data" => Heard(q, t) = Heard(r, s))
        BY <1>3, <3>5, <4>1, <4>2, SameCall
      <4>4. Root(st[q]) = Root(st[r])
        BY <2>1, <3>1, <4>1, <4>3 DEF Root
      <4>5. st[r].pc = "data" => Chunks1(q) = Chunks1(r)
        BY <4>1, <4>3 DEF Chunks1, Heard
      <4> QED
        BY <3>2, <3>3, <4>4, <4>5 DEF Call
    <3> QED
      BY <2>1, <3>4, <3>5
  <2> QED
    BY <2>5, <2>6
<1> QED
  BY <1>4, <1>5, <1>6

(* Until a rank raises, whoever waits in a collective waits for ranks that *)
(* have not left and that, if they wait for it, are in the same call: for  *)
(* any number of nodes and ranks, any lists of loads, and whatever each    *)
(* node finds its free memory to be.                                       *)
THEOREM NobodyStranded == FairSpec => []NoneStranded
  BY Invariance, InvNoneStranded, PTL

(* No rank gives up a call while none has failed.                          *)
TimeoutsFollow == [][NoneFailed => \A r \in World : ~TimeOut(r)]_vars

(* No call times out before something else has failed: the first failure   *)
(* of a job is never a peer that did not come (TimeOut), so a timeout of   *)
(* a collective always has a cause to be found on another rank.            *)
THEOREM TimeoutsDoFollow == FairSpec => TimeoutsFollow
<1>1. ASSUME Inv, NoneFailed, NEW r \in World
      PROVE  ~TimeOut(r)
  <2>1. SUFFICES ASSUME Waiting(r), NEW q \in Members(r), st[q].pc \in {"raised", "out"}
                 PROVE  FALSE
    BY DEF TimeOut
  <2>2. World = Ranks(plan) /\ InStep(plan, st)
    BY <1>1 DEF Inv, Whole, NoneFailed, World, Ranks
  <2>3. q \in World
    <3>1. CASE st[r].pc \in {"gather", "group"}
      BY <3>1 DEF Members
    <3>2. CASE st[r].pc \notin {"gather", "group"}
      <4>1. Members(r) = Node(plan, r)
        BY <1>1, <2>1, <2>2, <3>2, OfRank DEF Members, Rank, Waiting, InLoad
      <4> QED
        BY <1>1, <2>2, <4>1, OfRank, NodeIs
    <3> QED
      BY <3>1, <3>2
  <2>4. st[q].pc # "raised"
    BY <1>1, <2>2, <2>3, OfRank DEF Rank, Places, ByItself, InLoad, Calls
  <2>5. st[q].pc # "out"
    BY <1>1, <2>1, InvNoneStranded DEF NoneStranded, At
  <2> QED
    BY <2>1, <2>4, <2>5
<1>2. Inv /\ [Next]_vars => [NoneFailed => \A r \in World : ~TimeOut(r)]_vars
  BY <1>1
<1> QED
  BY <1>2, Invariance, PTL DEF FairSpec, TimeoutsFollow
=============================================================================
