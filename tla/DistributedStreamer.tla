-------------------------- MODULE DistributedStreamer --------------------------
(***************************************************************************)
(* The distributed streamer (distributed_streamer.py): every rank of a job *)
(* asks for the same loads; each reads its share from storage into its own *)
(* ring and staging buffer, and the ranks of a distribution group take     *)
(* turns to broadcast what they staged, until every rank has handed over   *)
(* every range.  A rank that cannot distribute reads the whole load.  The  *)
(* share is Partition's, the ring and the requests are RingSizing's, and   *)
(* the reads of a request are Cutting's.                                   *)
(*                                                                         *)
(* Ranks meet in collectives: one completes when every member is in the    *)
(* same call, and a member whose peers do not come is timed out.           *)
(***************************************************************************)
EXTENDS RingSizing, Cutting

CONSTANTS Cases,      \* the jobs: [load, nodes, streams, policy, limit, buffers, free, measured]
          StagingMin, \* RUNAI_STREAMER_DIST_BUFFER_MIN_BYTESIZE
          Alignment,  \* get_dist_buffer_alignment()
          MaxBatch,   \* MAX_CHUNKS_PER_BATCH
          Faults,     \* "read", "abandon", "late", "unreadable"
          MaxFaults   \* bound: how many of them

ASSUME StagingAssumption == StagingMin \in Nat /\ Alignment \in Nat \ {0} /\ MaxBatch \in Nat \ {0}

\* A rank is on one node, and every rank asks for the same loads.
ASSUME CasesAssumption ==
  \A c \in Cases : /\ c.streams \in Seq(BOOLEAN)
                   /\ \A m, n \in Range(c.nodes) : m = n \/ m \cap n = {}

-----------------------------------------------------------------------------
WholeLoad(load) == [i \in DOMAIN load |-> [path |-> load[i].path, ranges |-> Origins(load[i])]]

\* FileStreamer.stream_files: a device ring if the destination is a device
\* with room for one (free is -1 for the host), else a host ring.
OnDevice(c) == c.free >= 0 /\ DeviceRing(WholeLoad(c.load), c.free, c.buffers) # Refused
RingOf(c) == IF OnDevice(c) THEN DeviceRing(WholeLoad(c.load), c.free, c.buffers)
             ELSE HostRing(WholeLoad(c.load), c.limit, c.buffers)

\* A job with what follows from it alone: its ranges, its shares among so many
\* ranks, and the ring of a rank that reads by itself.
Planned(c) ==
  [job |-> c, units |-> Units(c.load), maxChunk |-> Max({0} \cup {u.size : u \in Range(Units(c.load))}),
   shares |-> [n \in 1..Cardinality(UNION Range(c.nodes)) |-> Shares(c.policy, c.load, n)],
   ring |-> RingOf(c)]

VARIABLES
  plan,    \* the job and its plan, which never change
  st,      \* per rank, its program point and its DistributedStreamer
  faults
vars == <<plan, st, faults>>

World == UNION Range(plan.job.nodes)
NodeOf(r) == CHOOSE n \in Range(plan.job.nodes) : r \in n

Fresh == [pc |-> "ready", stream |-> 0, discovered |-> FALSE, group |-> {}, free |-> 0, unread |-> <<>>,
          toRead |-> 0, data |-> <<>>, meta |-> <<>>, recv |-> <<>>, rmeta |-> <<>>, turn |-> 0, sent |-> 0,
          got |-> <<>>, failed |-> FALSE]

Init == plan \in {Planned(c) : c \in Cases} /\ st = [r \in World |-> Fresh] /\ faults = 0

At(r, a) == st[r].pc = a
Steps(r, s) == st' = [st EXCEPT ![r] = s] /\ UNCHANGED <<plan, faults>>
Raised(s) == [s EXCEPT !.pc = "raised", !.failed = TRUE]
Fails(r, f) == /\ f \in Faults /\ faults < MaxFaults /\ faults' = faults + 1
               /\ st' = [st EXCEPT ![r] = Raised(@)] /\ UNCHANGED plan

-----------------------------------------------------------------------------
(* stream_files and set_is_distributed.                                     *)

\* Distributing is asked for, and there is someone to distribute with.
WantsPeers(s) == plan.job.streams[s.stream] /\ Cardinality(World) > 1

\* After the ranks are known: the free memory of the group is compared first
\* where torch can measure it.  The group is created once, and kept.
Decided(s) ==
  [s EXCEPT !.pc = IF ~WantsPeers(s) THEN "local"
                   ELSE IF s.group = {} THEN "group" ELSE IF plan.job.measured THEN "warmup" ELSE "share"]

\* set_params: the local ranks are discovered once.
StreamFiles(r) ==
  /\ At(r, "ready") /\ st[r].stream < Len(plan.job.streams)
  /\ LET s == [st[r] EXCEPT !.stream = @ + 1, !.got = <<>>]
     IN  Steps(r, IF ~s.discovered /\ Cardinality(World) > 1 THEN [s EXCEPT !.pc = "gather"] ELSE Decided(s))

\* Fault: a node that falls back gives up its group
FallBackReleases(s) == [s EXCEPT !.pc = "local", !.group = {}]

\* Too little memory: the load is read without peers, and the group kept.
FallBack(s) == [s EXCEPT !.pc = "local"]

\* all_reduce(MIN): every member decides from the same number, and a rank that
\* could not read its own (-1) makes all of them raise.
Reduced(s, least) ==
  LET t == [s EXCEPT !.free = 0]
  IN  IF least < 0 THEN Raised(t) ELSE IF least = 0 THEN FallBack(t) ELSE [t EXCEPT !.pc = "share"]

-----------------------------------------------------------------------------
(* What a rank reads, and into which ring.                                  *)

StagingBytes == Max({StagingMin, plan.maxChunk})
NoBytes == [k \in 0..(StagingBytes - 1) |-> <<>>]
TotalRanges == Len(plan.units)

\* Ranks of a group in the order of their ranks.
Position(r, g) == Cardinality({q \in g : q <= r})
MyShare(r) == plan.shares[Cardinality(st[r].group)][Position(r, st[r].group)]
LocalRing == plan.ring

\* rank_memory_limit: the limit is the node's, and a rank must hold one range.
RankLimit(r) ==
  LET limit == plan.job.limit
  IN  IF limit <= 0 THEN limit ELSE Max({limit \div Cardinality(NodeOf(r)), plan.maxChunk})
ShareRing(r) == HostRing(MyShare(r), RankLimit(r), 0)

\* The submissions a stream makes, one per request, each range with its address.
Submissions(stream, ring, direct) ==
  LET qs == Packed(AllRanges(stream), ring.size)
      Asked(q) == LET p == Place(q, ring, direct, 0).placed
                  IN  [i \in DOMAIN q |-> [file |-> q[i].path, offset |-> q[i].offset, size |-> q[i].size,
                                           dst |-> p[i].dst, origin |-> q[i].origin]]
  IN  [i \in DOMAIN qs |-> Asked(qs[i])]

BytesOf(u) == [k \in 1..u.size |-> <<u.origin, k>>]
Tensor(u) == [origin |-> u.origin, bytes |-> BytesOf(u)]

\* Without peers: the file streamer's tensors are handed over as they come.
ReadLocal(r) ==
  /\ At(r, "local")
  /\ IF LocalRing = Refused THEN Steps(r, Raised(st[r]))
     ELSE Steps(r, [st[r] EXCEPT !.pc = "ready", !.got = [i \in 1..TotalRanges |-> Tensor(plan.units[i])]])
ReadLocalFails(r) == At(r, "local") /\ Fails(r, "read")

\* With peers: the share is read into a host ring.  The countdown is of the
\* whole load, whatever the share.
TakeShare(r) ==
  /\ At(r, "share")
  /\ Steps(r, [st[r] EXCEPT !.pc = IF TotalRanges = 0 THEN "ready" ELSE "fill", !.toRead = TotalRanges,
                            !.unread = ShareUnits(MyShare(r)), !.data = NoBytes, !.recv = NoBytes])

-----------------------------------------------------------------------------
(* prefill() and broadcast().                                               *)

Aligned(offset) == ((offset + Alignment - 1) \div Alignment) * Alignment

\* Where each chunk would be staged: after the one before it, aligned.
Offsets(units) ==
  LET offset[i \in DOMAIN units] == IF i = 1 THEN 0 ELSE Aligned(offset[i - 1] + units[i - 1].size)
  IN  offset

\* The metadata of the next batch: as many of the chunks, in order, as fit,
\* each at its offset, in a buffer of so many bytes.
Batch(units, offset, bytes) ==
  LET fits == {i \in DOMAIN units : i <= MaxBatch /\ offset[i] + units[i].size <= bytes}
  IN  [i \in 1..Max({0} \cup fits) |-> [unit |-> units[i], offset |-> offset[i]]]

\* Fault: a chunk that fills the buffer to its end is left over
StagedUnder(units) ==
  Batch(units, Offsets(units), StagingBytes - 1)

\* Fault: an aligned chunk is counted from where the one before it ended
StagedTight(units) ==
  LET end[i \in DOMAIN units] == (IF i = 1 THEN 0 ELSE end[i - 1]) + units[i].size
  IN  Batch(units, [i \in DOMAIN units |-> Aligned(end[i] - units[i].size)], StagingBytes)

\* Chunks are staged in order at aligned offsets; the first that does not fit
\* is left over for the next batch.
Staged(units) ==
  Batch(units, Offsets(units), StagingBytes)

\* What is on the wire for a chunk: its origin, its size and its offset.
Described(m) == [origin |-> m.unit.origin, size |-> m.unit.size, offset |-> m.offset]
Written(data, ms) ==
  [k \in DOMAIN data |->
     LET over == {i \in DOMAIN ms : k \in ms[i].offset..(ms[i].offset + ms[i].unit.size - 1)}
     IN  IF over = {} THEN data[k] ELSE LET m == ms[Max(over)] IN <<m.unit.origin, k - m.offset + 1>>]

Prefill(r) ==
  /\ At(r, "fill")
  /\ LET ms == Staged(st[r].unread)
     IN  Steps(r, [st[r] EXCEPT !.pc = "meta", !.turn = 1, !.sent = 0, !.data = Written(@, ms),
                                !.meta = [i \in DOMAIN ms |-> Described(ms[i])],
                                !.unread = SubSeq(@, Len(ms) + 1, Len(@))])
PrefillFails(r) == At(r, "fill") /\ st[r].unread # <<>> /\ Fails(r, "read")

\* The rank whose turn it is.
Root(s) == CHOOSE r \in s.group : Position(r, s.group) = s.turn
Chunks1(r) == IF Root(st[r]) = r THEN st[r].meta ELSE st[r].rmeta
DataSize(ms) == IF ms = <<>> THEN 0 ELSE Last(ms).offset + Last(ms).size

\* The next turn; after the last, another batch while ranges are missing.  A
\* round without a single chunk would never end.
NextTurn(s) ==
  IF s.turn < Cardinality(s.group) THEN [s EXCEPT !.turn = @ + 1, !.pc = "meta"]
  ELSE IF s.toRead = 0 THEN [s EXCEPT !.pc = "ready"]
  ELSE IF s.sent = 0 THEN Raised(s) ELSE [s EXCEPT !.pc = "fill"]

\* The metadata has arrived: how many chunks follow.
Told(s, root, ms) ==
  LET t == [s EXCEPT !.rmeta = IF root THEN @ ELSE ms, !.toRead = @ - Len(ms), !.sent = @ + Len(ms)]
  IN  IF ms = <<>> THEN NextTurn(t) ELSE [t EXCEPT !.pc = "data"]

\* The data has: a receiver has as many bytes as the metadata says.
Filled(s, root, data, size) ==
  [s EXCEPT !.pc = "hand", !.recv = IF root THEN @ ELSE [k \in DOMAIN @ |-> IF k < size THEN data[k] ELSE @[k]]]

\* Every chunk of the batch is handed over, out of the buffer it is in.
HandOver(r) ==
  /\ At(r, "hand")
  /\ LET s == st[r]
         ms == Chunks1(r)
         buf == IF Root(s) = r THEN s.data ELSE s.recv
         Handed(m) == [origin |-> m.origin, bytes |-> [k \in 1..m.size |-> buf[m.offset + k - 1]]]
     IN  Steps(r, NextTurn([s EXCEPT !.got = @ \o [i \in DOMAIN ms |-> Handed(ms[i])]]))
Abandon(r) == At(r, "hand") /\ Fails(r, "abandon")

-----------------------------------------------------------------------------
(* Collectives.                                                             *)

Waiting(r) == st[r].pc \in {"gather", "group", "warmup", "reduce", "meta", "data", "barrier"}
Members(r) == IF st[r].pc \in {"gather", "group"} THEN World ELSE st[r].group
Call(r) == [op |-> st[r].pc, members |-> Members(r),
            root |-> IF st[r].pc \in {"meta", "data"} THEN Root(st[r]) ELSE 0,
            size |-> IF st[r].pc = "data" THEN DataSize(Chunks1(r)) ELSE 0]

\* What the call a member is in does to it, once all of them are there.
Passed(q, free) ==
  LET s == st[q]
      root == Root(s)
  IN  CASE s.pc = "gather" -> Decided([s EXCEPT !.discovered = TRUE])
        [] s.pc = "group" -> Decided([s EXCEPT !.group = NodeOf(q)])
        [] s.pc = "warmup" -> [s EXCEPT !.pc = "reduce", !.free = free[q]]
        [] s.pc = "reduce" -> Reduced(s, Min({st[p].free : p \in s.group}))
        [] s.pc = "meta" -> Told(s, root = q, st[root].meta)
        [] s.pc = "data" -> Filled(s, root = q, st[root].data, DataSize(Chunks1(q)))
        [] s.pc = "barrier" -> [s EXCEPT !.pc = "out", !.group = {}]

\* What a rank may read of its device: too little (0) or enough (1); a reading
\* that fails is -1.
Readings(r) ==
  IF ~At(r, "warmup") THEN {[q \in World |-> 0]}
  ELSE {f \in [World -> {-1, 0, 1}] :
          /\ \A q \in World \ Members(r) : f[q] = 0
          /\ (\E q \in World : f[q] < 0) => "unreadable" \in Faults /\ faults < MaxFaults}

Meet(r) ==
  /\ Waiting(r) /\ \A q \in Members(r) : Waiting(q) /\ Call(q) = Call(r)
  /\ \E free \in Readings(r) :
       /\ st' = [q \in World |-> IF q \in Members(r) THEN Passed(q, free) ELSE st[q]]
       /\ faults' = IF \E q \in World : free[q] < 0 THEN faults + 1 ELSE faults
  /\ UNCHANGED plan

\* A peer has gone: the call times out.
TimeOut(r) ==
  /\ Waiting(r) /\ \E q \in Members(r) : st[q].pc \in {"raised", "out"}
  /\ Steps(r, Raised(st[r]))

\* A peer is only late, by more than the timeout.
TimeOutLate(r) ==
  /\ Waiting(r) /\ \E q \in Members(r) : ~Waiting(q)
  /\ Fails(r, "late")

-----------------------------------------------------------------------------
(* __exit__: a barrier, unless the rank is leaving with an exception; the   *)
(* group is destroyed either way.                                           *)
Exit(r) ==
  /\ At(r, "ready") /\ st[r].stream = Len(plan.job.streams)
  /\ Steps(r, [st[r] EXCEPT !.pc = IF st[r].group = {} THEN "out" ELSE "barrier"])
ExitRaised(r) == At(r, "raised") /\ Steps(r, [st[r] EXCEPT !.pc = "out", !.group = {}])

Acts(r) ==
  \/ StreamFiles(r) \/ ReadLocal(r) \/ TakeShare(r) \/ Prefill(r) \/ HandOver(r) \/ Meet(r) \/ TimeOut(r)
  \/ Exit(r) \/ ExitRaised(r)
Breaks(r) == ReadLocalFails(r) \/ PrefillFails(r) \/ Abandon(r) \/ TimeOutLate(r)

Over == (\A r \in World : At(r, "out")) /\ UNCHANGED vars
Next == (\E r \in World : Acts(r) \/ Breaks(r)) \/ Over

\* While some rank can run, or a collective has all its members, one does.
Fairness == WF_vars(\E r \in World : Acts(r))
FairSpec == Init /\ [][Next]_vars /\ Fairness

-----------------------------------------------------------------------------
Wanted == {Tensor(u) : u \in Range(plan.units)}
NoneFailed == \A r \in World : ~st[r].failed

(* What a rank hands over are ranges of the load with their own bytes, and  *)
(* a rank whose stream ends without an error has handed over each of them   *)
(* once, whoever read it: the countdown of get_chunks, the shares and the   *)
(* layout of the staging buffers agree on every rank.                       *)
EveryRankHasAll ==
  \A r \in World :
    /\ Range(st[r].got) \subseteq Wanted
    /\ At(r, "ready") /\ st[r].stream > 0 => Range(st[r].got) = Wanted /\ Len(st[r].got) = TotalRanges

(* Until a rank raises, the ranks stay in step: two that wait for each      *)
(* other are in the same call, with the same root and size, and no rank     *)
(* waits for one that has left, whatever each node decided about its        *)
(* memory ("EVERY RANK TAKES THIS BRANCH OR NONE DOES", "THE GROUP IS       *)
(* KEPT" in set_is_distributed).                                            *)
NoneStranded ==
  NoneFailed => \A r \in World : Waiting(r) =>
    \A q \in Members(r) : /\ ~At(q, "out")
                          /\ Waiting(q) /\ r \in Members(q) => Call(q) = Call(r)

(* The shares of a group are the load, no range in two of them, and spans   *)
(* are balanced; and a rank reads exactly its share, or all if alone: the   *)
(* reads of a submission move its ranges' bytes, each once and to its place *)
(* (partition.py, requests_iterator.py, assigner.cc, batches.cc,            *)
(* chunk_splitter.cc).                                                      *)
ReadsAreTheLoad ==
  /\ \A r \in World : At(r, "share") =>
       /\ SharedOut(plan.job.policy, plan.job.load, Cardinality(st[r].group))
       /\ \A q \in Range(Submissions(MyShare(r), ShareRing(r), TRUE)) : ReadsExactly(q)
  /\ \A r \in World : At(r, "local") /\ LocalRing # Refused =>
       \A q \in Range(Submissions(WholeLoad(plan.job.load), LocalRing, ~OnDevice(plan.job))) : ReadsExactly(q)

(* A ring is within its limit and holds every request, and every range of a *)
(* request has bytes of its own in the slot, where a direct read can land   *)
(* (_ring_sizing, _device_ring_shape, _place, rank_memory_limit).           *)
RingsHold ==
  LET Holds(stream, ring, direct, limit, buffers) ==
        /\ FitsLimit(stream, ring, limit, IF buffers = 0 THEN DefaultBuffers ELSE buffers)
        /\ \A q \in Range(Packed(AllRanges(stream), ring.size)) : PlacedWell(q, ring, direct, 0)
  IN  /\ \A r \in World : At(r, "share") => Holds(MyShare(r), ShareRing(r), TRUE, RankLimit(r), 0)
      /\ \A r \in World : At(r, "local") /\ LocalRing # Refused =>
           LET all == WholeLoad(plan.job.load)
           IN  Holds(all, LocalRing, ~OnDevice(plan.job),
                     IF OnDevice(plan.job) THEN DeviceBudget(all, plan.job.free) ELSE plan.job.limit, plan.job.buffers)

(* Every rank ends: it has its load or has raised, nobody waits for ever,   *)
(* and none raises unless something failed: a limit too small for one range *)
(* is the only refusal of the streamer's own (no batch is ever empty while  *)
(* ranges are missing, "No chunks to read").                                *)
LoadEnds == <>(\A r \in World : At(r, "out") /\ (st[r].failed => faults > 0 \/ LocalRing = Refused))
=============================================================================
