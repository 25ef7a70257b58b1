----------------------------- MODULE MCStreamer -----------------------------
(* Small instances of Streamer.                                             *)
EXTENDS Streamer, TLC

CONSTANTS p1, p2, w1, w2

MCSubmitters == {p1, p2}
MCWorkers == {w1, w2}

Task(r, e) == [range |-> r, end |-> e]

(* Range 1 straddles two workloads; the second workload has two blocks, the *)
(* first of which ends inside range 2.                                      *)
Straddling == [ranges |-> 2, work |->
  << << <<Task(1, 2)>> >>, << <<Task(1, 1), Task(2, 3)>> >> >>]
(* A range of size zero in a batch of its own, and an ordinary one.         *)
WithEmpty == [ranges |-> 2, work |-> << << <<Task(1, 0)>>, <<Task(2, 1)>> >> >>]
Nothing == [ranges |-> 0, work |-> <<>>]
(* One range; the assigner left the first workload empty.                   *)
Single == [ranges |-> 1, work |-> << <<>>, << <<Task(1, 1)>> >> >>]

(* One caller with each of the shapes, or two callers at the same time.     *)
Alone(sh) == (p1 :> <<sh>>) @@ (p2 :> <<>>)
Together == [p \in MCSubmitters |-> <<Single>>]
MCPlans == {Alone(sh) : sh \in {Straddling, WithEmpty, Nothing}} \cup {Together}
=============================================================================
