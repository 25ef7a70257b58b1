---------------------------- MODULE MCDevicePath ----------------------------
(* Small instances of DevicePath.                                           *)
EXTENDS DevicePath

CONSTANTS r1, r2

MCReaders == {r1, r2}
Load(one, two) == [r \in MCReaders |-> IF r = r1 THEN one ELSE two]

(* More blocks than buffers; two threads on one lane; a batch after another *)
(* one on the buffers it left.                                              *)
MCLoads == {Load(<<3>>, <<>>), Load(<<2>>, <<1>>), Load(<<1, 2>>, <<>>)}
=============================================================================
