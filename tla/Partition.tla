------------------------------ MODULE Partition ------------------------------
(***************************************************************************)
(* How a load is shared between the ranks of a distribution group          *)
(* (distributed_streamer/partition.py).  A load is a sequence of           *)
(* FileChunks, [id, path, ranges], a range [offset, size].  A share is a   *)
(* sequence of [path, ranges] whose ranges carry the origin (the map from  *)
(* the share's own indexes back to the caller's).                          *)
(***************************************************************************)
EXTENDS Integers, Sequences, SequencesExt, FiniteSetsExt, Functions

(* list.sort() and sorted(): stable.                                        *)
StableSort(s, Before(_, _)) ==
  FoldLeft(LAMBDA t, x : SelectSeq(t, LAMBDA e : ~Before(x, e)) \o <<x>>
                           \o SelectSeq(t, LAMBDA e : Before(x, e)), <<>>, s)

(* Binary search for the smallest member of lo..hi in good, as the code     *)
(* probes it: right only if good has no gaps above its smallest.            *)
Search(lo, hi, good) ==
  LET least[l \in lo..hi, h \in lo..hi] ==
        LET mid == (l + h) \div 2
        IN  IF l >= h THEN l ELSE IF mid \in good THEN least[l, mid] ELSE least[mid + 1, h]
  IN  least[lo, hi]

Bytes(rs) == FoldLeft(LAMBDA n, r : n + r.size, 0, rs)
Larger(a, b) == a.size > b.size
InFileOrder(a, b) == a.offset < b.offset \/ (a.offset = b.offset /\ a.size < b.size)

(* The ranges of a FileChunks, each with where it came from.                *)
Origins(f) ==
  [i \in DOMAIN f.ranges |-> [path |-> f.path, offset |-> f.ranges[i].offset, size |-> f.ranges[i].size,
                              origin |-> <<f.id, i - 1>>]]
Units(load) == FlattenSeq([i \in DOMAIN load |-> Origins(load[i])])

(* The first of the emptiest partitions takes the next item, largest first. *)
Emptiest(totals) == CHOOSE i \in DOMAIN totals : totals[i] = Min(Range(totals))
                                                 /\ \A j \in 1..(i - 1) : totals[j] # totals[i]
Deal(items, n) ==
  LET Give(a, x) == LET i == Emptiest(a.totals)
                    IN  [totals |-> [a.totals EXCEPT ![i] = @ + x.size], parts |-> [a.parts EXCEPT ![i] = Append(@, x)]]
  IN  FoldLeft(Give, [totals |-> [i \in 1..n |-> 0], parts |-> [i \in 1..n |-> <<>>]],
               StableSort(items, Larger)).parts

(* Consecutive units of one file become one FileChunks.                     *)
Grouped(units) ==
  LET Put(a, u) == IF a # <<>> /\ Last(a).path = u.path
                   THEN Append(Front(a), [Last(a) EXCEPT !.ranges = Append(@, u)])
                   ELSE Append(a, [path |-> u.path, ranges |-> <<u>>])
  IN  FoldLeft(Put, <<>>, units)

(* partition_by_chunks: units dealt by size, then put back in file order,   *)
(* one FileChunks per path in the order paths are first met.                *)
ByChunks(load, n) ==
  LET Rebuilt(units) ==
        LET paths == FoldLeft(LAMBDA a, u : IF Contains(a, u.path) THEN a ELSE Append(a, u.path), <<>>, units)
        IN  [i \in DOMAIN paths |-> [path |-> paths[i], ranges |->
               StableSort(SelectSeq(units, LAMBDA u : u.path = paths[i]), InFileOrder)]]
      parts == Deal(Units(load), n)
  IN  [i \in 1..n |-> Rebuilt(parts[i])]

(* partition_by_files: whole FileChunks dealt by size.                      *)
ByFiles(load, n) ==
  LET parts == Deal([i \in DOMAIN load |-> [of |-> load[i], size |-> Bytes(load[i].ranges)]], n)
  IN  [r \in 1..n |-> [i \in DOMAIN parts[r] |-> [path |-> parts[r][i].of.path, ranges |-> Origins(parts[r][i].of)]]]

(* _flatten: the load as one stream, each file's ranges in file order.      *)
Flatten(load) == FlattenSeq([i \in DOMAIN load |-> StableSort(Origins(load[i]), InFileOrder)])

(* Fault: a unit that fits exactly is left for the next rank.               *)
FitsUnder(units, start, ceiling) ==
  Max({e \in start..Len(units) : Bytes(SubSeq(units, start + 1, e)) < ceiling \/ e = start})

(* The furthest unit whose bytes from start still fit under the ceiling.    *)
Fits(units, start, ceiling) ==
  Max({e \in start..Len(units) : Bytes(SubSeq(units, start + 1, e)) <= ceiling})

(* cuts(): where each of n spans ends under this ceiling; it is feasible if *)
(* the last ends with the stream.                                           *)
Cuts(units, n, ceiling) ==
  FoldLeft(LAMBDA ends, k : Append(ends, Fits(units, IF ends = <<>> THEN 0 ELSE Last(ends), ceiling)),
           <<>>, [k \in 1..n |-> k])
Feasible(units, n, ceiling) == Last(Cuts(units, n, ceiling)) = Len(units)

(* _span_ends: the smallest ceiling under which n spans are enough.         *)
SpanEnds(units, n) ==
  LET total == Bytes(units)
      low == Max({units[i].size : i \in DOMAIN units} \cup {total \div n})
  IN  Cuts(units, n, Search(low, total, {c \in low..total : Feasible(units, n, c)}))

(* partition_by_spans.                                                      *)
BySpans(load, n) ==
  LET units == Flatten(load)
      ends == SpanEnds(units, n)
  IN  IF units = <<>> THEN [i \in 1..n |-> <<>>]
      ELSE [i \in 1..n |-> Grouped(SubSeq(units, (IF i = 1 THEN 0 ELSE ends[i - 1]) + 1, ends[i]))]

Shares(policy, load, n) ==
  CASE policy = "chunks" -> ByChunks(load, n)
    [] policy = "files" -> ByFiles(load, n)
    [] policy = "spans" -> BySpans(load, n)

(* total_chunks: every range of the load, whatever the shares.              *)
TotalChunks(load) == Len(Units(load))

-----------------------------------------------------------------------------
ShareUnits(share) == FlattenSeq([i \in DOMAIN share |-> share[i].ranges])
ShareBytes(share) == Bytes(ShareUnits(share))

(* The ways to cut a stream of m units into n spans, for reference.         *)
AllCuts(m, n) == {ends \in [1..n -> 0..m] : ends[n] = m /\ \A i \in 1..(n - 1) : ends[i] <= ends[i + 1]}
Widest(units, ends) ==
  Max({Bytes(SubSeq(units, (IF i = 1 THEN 0 ELSE ends[i - 1]) + 1, ends[i])) : i \in DOMAIN ends})

(* Every range is in exactly one share, as the range it is; and spans are   *)
(* balanced: no cut between ranges has a smaller largest part.              *)
SharedOut(policy, load, n) ==
  LET shares == Shares(policy, load, n)
      all == FlattenSeq([i \in 1..n |-> ShareUnits(shares[i])])
      widest == Max({ShareBytes(shares[i]) : i \in 1..n})
  IN  /\ Range(all) = Range(Units(load)) /\ Len(all) = TotalChunks(load)
      /\ policy = "spans" => \A ends \in AllCuts(Len(all), n) : widest <= Widest(Flatten(load), ends)
=============================================================================
