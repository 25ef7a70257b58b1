------------------------ MODULE MCDistributedStreamer ------------------------
(***************************************************************************)
(* Jobs for the distributed streamer: a few loads shared by two nodes or   *)
(* one in every policy, and many loads of one process, for the rings and   *)
(* the reads.  File "b" is on a mount that is read asynchronously.         *)
(***************************************************************************)
EXTENDS DistributedStreamer

Mounts == [p \in {"a", "b"} |-> IF p = "a" THEN -1 ELSE 0]

\* Ranges with these sizes one after the other, each after its gap.
Contiguous(sizes, gaps) ==
  FoldLeft(LAMBDA a, i : [at |-> a.at + gaps[i] + sizes[i],
                          rs |-> Append(a.rs, [offset |-> a.at + gaps[i], size |-> sizes[i]])],
           [at |-> 1, rs |-> <<>>], [i \in DOMAIN sizes |-> i]).rs
File(id, path, ranges) == [id |-> id, path |-> path, ranges |-> ranges]

NoGaps == <<0, 0, 0, 0>>
TwoFiles == <<File(0, "a", Contiguous(<<1, 1, 2>>, NoGaps)), File(1, "b", Contiguous(<<3>>, NoGaps))>>
OneLarge == <<File(0, "a", Contiguous(<<1, 6, 0, 1>>, NoGaps))>>
SameFile == <<File(0, "a", Contiguous(<<1>>, NoGaps)), File(1, "a", Contiguous(<<1, 2>>, <<4, 0>>))>>

Job(l, p, n, s, m) ==
  [load |-> l, nodes |-> n, streams |-> s, policy |-> p, limit |-> 6, buffers |-> 0, free |-> -1, measured |-> m]
Policies == {"chunks", "files", "spans"}
Jobs ==
  {Job(TwoFiles, p, <<{1, 2}, {3}>>, <<TRUE, TRUE>>, TRUE) : p \in {"files", "spans"}}
  \cup {Job(l, p, <<{1, 2, 3}>>, <<TRUE>>, FALSE) : l \in {OneLarge, SameFile}, p \in Policies}
  \cup {Job(SameFile, "chunks", <<{1, 2}, {3}>>, <<TRUE, FALSE>>, FALSE), Job(OneLarge, "files", <<{1, 2}>>, <<TRUE, TRUE>>, TRUE)}

Sizes == {<<3, 1, 2>>, <<1, 1, 1, 1>>, <<2, 0, 3>>, <<0, 0>>, <<5>>, <<1, 3, 3, 1>>}
Alone ==
  {[load |-> <<File(0, "a", Contiguous(s, g)), File(1, "b", Reverse(Contiguous(t, NoGaps)))>>,
    nodes |-> <<{1}>>, streams |-> <<TRUE>>, policy |-> "spans", limit |-> m, buffers |-> b, free |-> f, measured |-> TRUE] :
     s \in Sizes, g \in {NoGaps, <<3, 0, 5, 0>>}, t \in {<<>>, <<2, 2, 1>>}, m \in {-1, 0, 5, 9, 20},
     b \in {0, 2}, f \in {-1, 14, 40}}

JobsAndAlone == Jobs \cup Alone
AllFaults == {"read", "abandon", "late", "unreadable"}
=============================================================================
