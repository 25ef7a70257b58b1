-------------------------- MODULE ResponseContract --------------------------
(***************************************************************************)
(* What a streamer promises its caller about responses, whatever pools,    *)
(* queues and threads stand behind it (Streamer::async_request and         *)
(* Streamer::response, src/cpp/streamer/impl/streamer/streamer.cc): an     *)
(* accepted submission owes one response per range, every response pays    *)
(* for a different range, and the response that pays the last one is the   *)
(* one reported as completing the submission.                              *)
(***************************************************************************)
EXTENDS Naturals

CONSTANTS Ids,      \* submission ids
          Ranges    \* range numbers

VARIABLES owed,     \* per submission, the ranges not answered yet
          opened,   \* the submissions accepted so far
          done,     \* the submissions reported complete
          closed    \* the streamer has been torn down

vars == <<owed, opened, done, closed>>

Init ==
  /\ owed = [id \in Ids |-> {}]
  /\ opened = {}
  /\ done = {}
  /\ closed = FALSE

Accept(id) ==
  /\ id \notin opened
  /\ ~closed
  /\ opened' = opened \cup {id}
  /\ \E R \in (SUBSET Ranges) \ {{}} : owed' = [owed EXCEPT ![id] = R]
  /\ UNCHANGED <<done, closed>>

Answer(id, r) ==
  /\ r \in owed[id]
  /\ owed' = [owed EXCEPT ![id] = @ \ {r}]
  /\ done' = IF owed[id] = {r} THEN done \cup {id} ELSE done
  /\ UNCHANGED <<opened, closed>>

Close ==
  /\ closed' = TRUE
  /\ UNCHANGED <<owed, opened, done>>

Next ==
  \/ \E id \in Ids : Accept(id) \/ \E r \in Ranges : Answer(id, r)
  \/ Close

Spec == Init /\ [][Next]_vars
=============================================================================
