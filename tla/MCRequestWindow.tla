-------------------------- MODULE MCRequestWindow --------------------------
(* TLC instances of RequestWindow. *)
EXTENDS RequestWindow

\* Three requests over two slots: the second crosses a file boundary and the
\* last ends in an empty range; one file has no range at all.
CrossingFiles == <<<<2, 1>>, <<>>, <<1, 2, 0>>>>
CrossingRanges == FlattenSeq([f \in DOMAIN CrossingFiles |->
  [i \in DOMAIN CrossingFiles[f] |-> [file |-> f, index |-> i - 1, size |-> CrossingFiles[f][i]]]])

\* File order is on by default; the reused ring is also run without it.
Asked == {[kind |-> k, ordered |-> TRUE] : k \in {"owned", "reused", "device"}}
         \cup {[kind |-> "reused", ordered |-> FALSE]}
=============================================================================
