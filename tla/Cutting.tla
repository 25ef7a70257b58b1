------------------------------- MODULE Cutting -------------------------------
(***************************************************************************)
(* From a submission's ranges to what the workers read                     *)
(* (src/cpp/streamer/impl: assigner, batches, chunk_splitter): ranges that *)
(* touch in the file and in memory become one transfer; the transfers of a *)
(* group are divided between its workloads by bytes; a transfer's ranges   *)
(* are cut into tasks at the range, slice and chunk boundaries; the tasks  *)
(* of a slice (a Batch) are gathered into chunks, one read each.  Pure: a  *)
(* range is [file, offset, size, dst]; ReadsExactly walks the whole path.  *)
(***************************************************************************)
EXTENDS Integers, Sequences, SequencesExt, FiniteSetsExt

CONSTANTS Group,       \* file -> -1 (synchronous) or the group of its mount
          Workers,     \* _num_workers of the synchronous group
          BlockBytes,  \* block_bytesize: what a workload's share is a multiple of
          ChunkBytes   \* chunk_bytesize

ASSUME SizesAssumption ==
  Workers \in Nat \ {0} /\ BlockBytes \in Nat \ {0} /\ ChunkBytes \in Nat \ {0}

Least2(a, b) == IF a <= b THEN a ELSE b
Size(ps) == FoldLeft(LAMBDA n, p : n + p.size, 0, ps)

-----------------------------------------------------------------------------
(* A range extends the open transfer only if it touches it in both the file *)
(* and the destination; a transfer never spans two files.                   *)
Adjacent(t, r) ==
  t.file = r.file /\ t.offset + t.size = r.offset /\ t.dst + t.size = r.dst

Opened(r) == [file |-> r.file, offset |-> r.offset, size |-> r.size, dst |-> r.dst, ranges |-> <<r>>]

(* coalesce, one range.                                                     *)
Extended(ts, r) ==
  IF ts # <<>> /\ Adjacent(Last(ts), r)
  THEN Append(Front(ts), [Last(ts) EXCEPT !.size = @ + r.size, !.ranges = Append(@, r)])
  ELSE Append(ts, Opened(r))

Coalesce(ranges) == FoldLeft(Extended, <<>>, ranges)

-----------------------------------------------------------------------------
(* bytes_per_worker_for: whole blocks each, and the first takes the rest.   *)
Workloads(bytes, workers) == Max({Least2(bytes \div BlockBytes, workers), 1})
BaseBytes(bytes, workers) == ((bytes \div BlockBytes) \div Workloads(bytes, workers)) * BlockBytes

(* What workload k of a group aims for.                                     *)
Target(bytes, workers, k) ==
  LET base == BaseBytes(bytes, workers)
  IN  IF k = 0 THEN base + (bytes - Workloads(bytes, workers) * base) ELSE base

(* assign_group: each workload in turn takes as much of the transfers, in   *)
(* order, as it still wants; a zero-sized transfer goes to a workload that  *)
(* is full.  A slice is a FileReadTask.                                     *)
AssignGroup(ts, workers, first) ==
  LET bytes == Size(ts)
      Given(a, t) ==
        LET give[slot \in Nat, given \in Nat, done \in Nat] ==
              LET want == Target(bytes, workers, slot) - given
                  n == Least2(t.size - done, want)
                  slice == [of |-> t, workload |-> first + slot, offset |-> t.offset + done, size |-> n]
              IN  IF t.size > 0 /\ want <= 0 THEN give[slot + 1, 0, done]
                  ELSE IF done + n = t.size THEN [slot |-> slot, given |-> given + n, slices |-> <<slice>>]
                  ELSE [give[slot, given + n, done + n] EXCEPT !.slices = <<slice>> \o @]
        IN  [give[a.slot, a.given, 0] EXCEPT !.slices = a.slices \o @]
  IN  FoldLeft(Given, [slot |-> 0, given |-> 0, slices |-> <<>>], ts)

InGroup(ts, g) == SelectSeq(ts, LAMBDA t : Group[t.file] = g)

(* assign: group by group, the synchronous one first; workload numbers go   *)
(* on from one group to the next.                                           *)
Assign(ts) ==
  LET groups == SetToSortSeq({Group[ts[i].file] : i \in DOMAIN ts}, <)
      Next1(a, g) ==
        LET done == AssignGroup(InGroup(ts, g), IF g < 0 THEN Workers ELSE 1, a.used)
        IN  [used |-> a.used + done.slot + 1, slices |-> a.slices \o done.slices]
  IN  FoldLeft(Next1, [used |-> 0, slices |-> <<>>], groups).slices

-----------------------------------------------------------------------------
(* Fault: the boundary is counted from the start of the range.              *)
ToChunkBoundaryRelative(r, done) == ChunkBytes - (done % ChunkBytes)

(* Boundaries are absolute file offsets.                                    *)
ToChunkBoundary(r, done) == ChunkBytes - ((r.offset + done) % ChunkBytes)

(* build_tasks and handle_request: every range of the transfer, cut where a *)
(* chunk or the current slice ends.  BatchItr::consume leaves an exhausted  *)
(* slice only when bytes are asked for.                                     *)
Tasks(t, slices) ==
  LET Cut(a, r) ==
        LET cut[slice \in Nat, left \in Nat, done \in Nat] ==
              LET want == Least2(r.size - done, ToChunkBoundary(r, done))
                  at == IF left = 0 /\ want > 0 THEN slice + 1 ELSE slice
                  room == IF at = slice THEN left ELSE slices[at].size
                  n == Least2(room, want)
                  task == [slice |-> at, offset |-> r.offset + done, size |-> n, dst |-> r.dst + done, range |-> r]
              IN  IF done + n = r.size THEN [slice |-> at, left |-> room - n, tasks |-> <<task>>]
                  ELSE [cut[at, room - n, done + n] EXCEPT !.tasks = <<task>> \o @]
        IN  [cut[a.slice, a.left, 0] EXCEPT !.tasks = a.tasks \o @]
  IN  FoldLeft(Cut, [slice |-> 1, left |-> slices[1].size, tasks |-> <<>>], t.ranges).tasks

ChunkEnd(offset) == (offset \div ChunkBytes + 1) * ChunkBytes

(* split_into_chunks: a task opens a chunk when it is the first or has      *)
(* bytes past the open one; a batch of zero-sized tasks has no chunk.       *)
Split(file, tasks) ==
  LET Joined(cs, t) ==
        IF cs = <<>> \/ (t.size > 0 /\ t.offset >= ChunkEnd(Last(cs).offset))
        THEN Append(cs, [file |-> file, offset |-> t.offset, size |-> t.size, dst |-> t.dst, tasks |-> <<t>>])
        ELSE Append(Front(cs), [Last(cs) EXCEPT !.size = @ + t.size, !.tasks = Append(@, t)])
      cs == FoldLeft(Joined, <<>>, tasks)
  IN  IF Len(cs) = 1 /\ cs[1].size = 0 THEN <<>> ELSE cs

(* The batches of a transfer, each the tasks of one of its slices.          *)
BatchesOf(t, slices) ==
  LET tasks == Tasks(t, slices)
  IN  [i \in DOMAIN slices |-> [file |-> t.file, workload |-> slices[i].workload,
                                tasks |-> SelectSeq(tasks, LAMBDA k : k.slice = i)]]

Batches(ts, slices) ==
  FlattenSeq([i \in DOMAIN ts |-> BatchesOf(ts[i], SelectSeq(slices, LAMBDA s : s.of = ts[i]))])

Chunks(bs) == FlattenSeq([i \in DOMAIN bs |-> Split(bs[i].file, bs[i].tasks)])

-----------------------------------------------------------------------------
(* The bytes a piece moves, as pairs of a file byte and a memory byte.      *)
Moved(p) == {[file |-> p.file, at |-> p.offset + k, to |-> p.dst + k] : k \in 0..(p.size - 1)}
MovedBy(ps) == UNION {Moved(ps[i]) : i \in DOMAIN ps}

(* The reads of a submission move exactly the bytes asked for, each once    *)
(* and to its place; a read crosses no chunk boundary and covers its tasks; *)
(* every range, zero-sized ones too, has a task to answer it through.       *)
Covers(cs, bs, ranges) ==
  /\ MovedBy(cs) = MovedBy(ranges) /\ Size(cs) = Size(ranges)
  /\ \A i \in DOMAIN cs :
       /\ cs[i].offset + cs[i].size <= ChunkEnd(cs[i].offset)
       /\ \A j \in DOMAIN cs[i].tasks :
            LET t == cs[i].tasks[j]
                before == Size(SubSeq(cs[i].tasks, 1, j - 1))
            IN  t.offset = cs[i].offset + before /\ t.dst = cs[i].dst + before
  /\ \A i \in DOMAIN ranges : \E b \in DOMAIN bs : \E j \in DOMAIN bs[b].tasks : bs[b].tasks[j].range = ranges[i]

ReadsExactly(ranges) ==
  LET ts == Coalesce(ranges)
      bs == Batches(ts, Assign(ts))
  IN  Covers(Chunks(bs), bs, ranges)
=============================================================================
