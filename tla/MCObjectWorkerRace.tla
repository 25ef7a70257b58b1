-------------------------- MODULE MCObjectWorkerRace --------------------------
(* The instance of ObjectStorageWorker in which a read is reported twice.   *)
EXTENDS ObjectStorageWorker

CONSTANTS b1, b2

Host(f) == [dev |-> FALSE, file |-> f]
Dev(f) == [dev |-> TRUE, file |-> f]

(* A second workload that parks behind the copies of the first.             *)
WorkParked == << <<Dev(1), Dev(1)>>, <<Dev(1), Host(1)>> >>

MCBuffers == {b1, b2}
=============================================================================
