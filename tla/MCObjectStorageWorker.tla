------------------------ MODULE MCObjectStorageWorker ------------------------
(* Small instances of ObjectStorageWorker: one that fails and is torn down, *)
(* and one that retries.                                                    *)
EXTENDS ObjectStorageWorker

CONSTANT b1

Host(f) == [dev |-> FALSE, file |-> f]
Dev(f) == [dev |-> TRUE, file |-> f]

(* A device chunk, a workload without chunks, and one of two files whose    *)
(* device chunk parks behind the copy of the first.                         *)
WorkParked == << <<Dev(1)>>, <<>>, <<Dev(1), Host(2)>> >>

MCBuffers == {b1}

VARIABLE retries   \* which of the two this behaviour is of

Retrying == INSTANCE ObjectStorageWorker WITH MaxRetries <- 1, MaxFaults <- 0, Teardown <- FALSE

EitherInit == retries \in BOOLEAN /\ IF retries THEN Retrying!Init ELSE Init
Either(R, F) == UNCHANGED retries /\ IF retries THEN R ELSE F
EitherNext == Either(Retrying!Next, Next)
either == <<vars, retries>>

EitherFairness ==
  /\ WF_either(Either(Retrying!worker, worker))
  /\ SF_either(\E c \in Chunks : Either(Retrying!Promote(c), Promote(c)))
  /\ WF_either(\E rd \in reads, r \in ReadCodes : Either(Retrying!ReadLands(rd, r), ReadLands(rd, r)))
  /\ WF_either(\E cp \in copying, r \in CopyCodes : Either(Retrying!CopyLands(cp, r), CopyLands(cp, r)))
  /\ WF_either(\E d \in reporting : Either(Retrying!CopyReports(d), CopyReports(d)))
  /\ WF_either(Either(Retrying!StopResponder, StopResponder)) /\ WF_either(Either(Retrying!StopPool, StopPool))

EitherSpec == EitherInit /\ [][EitherNext]_either /\ EitherFairness
=============================================================================
