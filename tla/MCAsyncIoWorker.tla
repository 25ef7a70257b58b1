--------------------------- MODULE MCAsyncIoWorker ---------------------------
(* Small instances of AsyncIoWorker, one on each engine.                    *)
EXTENDS AsyncIoWorker

Odd(f) == [dev |-> FALSE, file |-> f, ragged |-> TRUE]
Dev(f) == [dev |-> TRUE, file |-> f, ragged |-> FALSE]
Load(cs, z) == [chunks |-> cs, zero |-> z]

(* On io_uring: a ragged host chunk and a device chunk of one file.         *)
WorkUring == << Load(<<Odd(1), Dev(1)>>, FALSE) >>
(* On libaio: these, and a workload of a zero-sized range and of a device   *)
(* chunk that finds no staging buffer free.                                 *)
WorkLibaio == << Load(<<Odd(1), Dev(1)>>, FALSE), Load(<<Dev(1)>>, TRUE) >>

VARIABLE libaio   \* which of the two this behaviour is of

Libaio == INSTANCE AsyncIoWorker WITH
  Engine <- "libaio", Work <- WorkLibaio, Units <- 1, MaxTransient <- 0, MaxStalls <- 0, MaxRefusals <- 0

EitherInit == libaio \in BOOLEAN /\ IF libaio THEN Libaio!Init ELSE Init
Either(L, U) == UNCHANGED libaio /\ IF libaio THEN L ELSE U
EitherNext == Either(Libaio!Next, Next)
either == <<vars, libaio>>

EitherFairness ==
  /\ WF_either(Either(Libaio!worker, worker))
  /\ \A c \in Libaio!Chunks :
       /\ WF_either(\E rd \in kernel : rd.id = c /\ Either(Libaio!ReadEnds(rd), ReadEnds(rd)))
       /\ WF_either(Either(Libaio!CopyEnds(c), CopyEnds(c)))

EitherSpec == EitherInit /\ [][EitherNext]_either /\ EitherFairness

(* On libaio too every slot, buffer and attempt is accounted for and every  *)
(* answer is true, the reads io_submit refused outright among them, and the *)
(* queue has room only for what has been given back (LibaioEngine::flush).  *)
LibaioSound == libaio => Libaio!Sound
=============================================================================
