------------------------------ MODULE RingSizing ------------------------------
(***************************************************************************)
(* How a stream is laid out in memory (file_streamer/requests_iterator.py):*)
(* the shape of its ring, the requests its ranges are packed into, and the *)
(* address of every range in its slot.  A stream is a sequence of          *)
(* [path, ranges], a range [offset, size, origin]; a ring is               *)
(* [size, depth], and Refused when the limit cannot hold one range.        *)
(***************************************************************************)
EXTENDS Partition

CONSTANTS DefaultBuffers,  \* DEFAULT_RING_BUFFERS; at most 9, so no depth is sampled away
          DirectBlock,     \* the block the mounts require
          MaxPads,         \* _max_pads_per_buffer()
          DeviceLimit      \* _device_memory_limit()

ASSUME RingAssumption ==
  /\ DefaultBuffers \in 1..9 /\ DirectBlock \in Nat \ {0} /\ MaxPads \in Nat
  /\ DeviceLimit \in Nat \ {0}

Refused == [size |-> 0, depth |-> 0]
AllRanges(stream) == FlattenSeq([i \in DOMAIN stream |-> stream[i].ranges])
Total(stream) == Bytes(AllRanges(stream))
LargestRange(stream) == Max({0} \cup {r.size : r \in Range(AllRanges(stream))})

(* FilesRequestsIterator: a request takes ranges in order while they fit,   *)
(* across file boundaries.                                                  *)
Packed(rs, size) ==
  LET Put(qs, r) == IF qs # <<>> /\ Bytes(Last(qs)) + r.size <= size
                    THEN Append(Front(qs), Append(Last(qs), r)) ELSE Append(qs, <<r>>)
  IN  FoldLeft(Put, <<>>, rs)

(* _requests_needed: greedy packing over the prefix sums.                   *)
RequestsNeeded(stream, size) ==
  FoldLeft(LAMBDA a, r : IF r.size <= a.room THEN [a EXCEPT !.room = @ - r.size]
                         ELSE [n |-> a.n + 1, room |-> size - r.size],
           [n |-> 0, room |-> -1], AllRanges(stream)).n

(* _span_whole_stream: the smallest buffer with which `target` hold it all. *)
SpanWholeStream(stream, size, most, target) ==
  LET spans == {b \in size..most : RequestsNeeded(stream, b) <= target}
      b == Search(size, most, spans)
  IN  IF most \notin spans THEN Refused ELSE [size |-> b, depth |-> RequestsNeeded(stream, b)]

(* Fault: the buffer is as large as the depth allows, whatever the ranges.  *)
BufferSizeUnfloored(stream, budget, target) == budget \div target

(* As large as the depth allows, floored by the largest range.              *)
BufferSize(stream, budget, target) == Max({LargestRange(stream), budget \div target})

(* _ring_sizing under a limit: span the stream if the limit has headroom,   *)
(* else as many buffers as it pays for.                                     *)
LimitedRing(stream, limit, target) ==
  LET budget == Min({limit, Total(stream)})
      size == BufferSize(stream, budget, target)
      spanned == SpanWholeStream(stream, size, limit \div target, target)
  IN  IF limit < LargestRange(stream) THEN Refused
      ELSE IF size = 0 THEN [size |-> 0, depth |-> 1]
      ELSE IF Total(stream) < limit /\ spanned # Refused THEN spanned
      ELSE [size |-> size, depth |-> Min({target, budget \div size})]

(* with_memory_mode and _get_memory_mode: -1 is unlimited, 0 holds only the *)
(* largest range.                                                           *)
HostRing(stream, limit, buffers) ==
  LET target == IF buffers = 0 THEN DefaultBuffers ELSE buffers
      size == BufferSize(stream, Total(stream), target)
  IN  CASE limit = 0 -> [size |-> LargestRange(stream), depth |-> 1]
        [] limit = -1 -> IF size = 0 THEN [size |-> 0, depth |-> 1]
                         ELSE [size |-> size, depth |-> Min({target, Total(stream) \div size})]
        [] OTHER -> LimitedRing(stream, limit, target)

-----------------------------------------------------------------------------
(* The device ring.                                                         *)

DeviceFloor(stream) == 2 * LargestRange(stream)

(* The target, raised when the data needs more, and half of what is free at *)
(* most (DEFAULT_DEVICE_MEMORY_FRACTION).                                   *)
DeviceBudget(stream, free) == Min({Max({DeviceLimit, DeviceFloor(stream)}), free \div 2})

(* _packing_fill, as the bytes used and the bytes of the buffers taken.     *)
PackingFill(stream, size) ==
  LET qs == Packed(SelectSeq(AllRanges(stream), LAMBDA r : r.size > 0), size)
  IN  [used |-> Total(stream), of |-> Len(qs) * size]

(* The better of two rings: fuller, and at equal fill smaller.              *)
Better(a, b) ==
  LET x == a.fill.used * b.fill.of
      y == b.fill.used * a.fill.of
  IN  x > y \/ (x = y /\ a.size * a.depth < b.size * b.depth)

(* _device_ring_shape: asked for a depth, that depth; else the depth whose  *)
(* buffers pack best.                                                       *)
DeviceShape(stream, budget, buffers) ==
  LET largest == LargestRange(stream)
      target == IF buffers = 0 THEN DefaultBuffers ELSE buffers
      deepest == Min({target, budget \div largest})
      Try(d) == LET size == Max({largest, budget \div d})
                IN  [size |-> size, depth |-> Min({target, budget \div size}), fill |-> PackingFill(stream, size)]
      Keep(best, d) == IF Try(d).depth >= 2 /\ (best = <<>> \/ Better(Try(d), best[1])) THEN <<Try(d)>> ELSE best
      best == FoldLeft(Keep, <<>>, [i \in 1..(deepest - 1) |-> i + 1])
  IN  IF largest = 0 THEN LimitedRing(stream, budget, DefaultBuffers)
      ELSE IF Total(stream) < budget \/ deepest < 2 THEN LimitedRing(stream, budget, target)
      ELSE IF buffers # 0 THEN [size |-> Max({largest, budget \div deepest}), depth |-> deepest]
      ELSE IF best = <<>> THEN LimitedRing(stream, budget, DefaultBuffers)
      ELSE [size |-> best[1].size, depth |-> best[1].depth]

(* device_ring_sizing: Refused sends the stream to the host ring.           *)
DeviceRing(stream, free, buffers) ==
  LET budget == DeviceBudget(stream, free)
  IN  IF budget = 0 \/ budget < DeviceFloor(stream) THEN Refused ELSE DeviceShape(stream, budget, buffers)

-----------------------------------------------------------------------------
(* _place, one range: pushed forward, if aligned, until its address and its *)
(* file offset leave the same remainder.                                    *)
Pad(r, cursor, aligned) == IF aligned THEN (r.offset - cursor) % DirectBlock ELSE 0
Laid(rs, base, aligned) ==
  FoldLeft(LAMBDA a, r : LET at == a.cursor + Pad(r, a.cursor, aligned)
                         IN  [cursor |-> at + r.size, placed |-> Append(a.placed, [dst |-> at, range |-> r])],
           [cursor |-> base, placed |-> <<>>], rs)

SlotSize(ring, direct) == ring.size + IF direct THEN DirectBlock * MaxPads ELSE 0

(* next_request: aligned if the pads fit the slot, else packed tightly.     *)
Place(q, ring, direct, base) ==
  LET aligned == Laid(q, base, direct)
  IN  IF aligned.cursor <= base + SlotSize(ring, direct) THEN aligned ELSE Laid(q, base, FALSE)

-----------------------------------------------------------------------------
(* A ring within its limit that can hold every request: the buffers are     *)
(* paid for, each request fits one, and a stream smaller than the limit     *)
(* never waits for a slot if some buffer size the limit pays for spans it.  *)
FitsLimit(stream, ring, limit, target) ==
  LET qs == Packed(AllRanges(stream), ring.size)
  IN  /\ ring.depth >= 1 /\ (limit > 0 => ring.depth * ring.size <= limit)
      /\ \A i \in DOMAIN qs : Bytes(qs[i]) <= ring.size
      /\ limit > Total(stream) /\ ring.depth < Len(qs) =>
           \A b \in ring.size..(limit \div target) : Len(Packed(AllRanges(stream), b)) > target

(* Every range of a request has its own bytes of the slot, and lies where a *)
(* direct read may land unless the pads did not fit.                        *)
PlacedWell(q, ring, direct, base) ==
  LET p == Place(q, ring, direct, base)
      tight == Laid(q, base, direct).cursor > base + SlotSize(ring, direct)
  IN  /\ p.cursor <= base + SlotSize(ring, direct)
      /\ \A i \in DOMAIN q : direct /\ ~tight => (p.placed[i].dst - q[i].offset) % DirectBlock = 0
      /\ \A i, j \in DOMAIN q : i < j => p.placed[i].dst + q[i].size <= p.placed[j].dst
=============================================================================
