-------------------------- MODULE ThreadPoolProofs --------------------------
(***************************************************************************)
(* Proofs about ThreadPool, for any number of threads and requests.        *)
(*                                                                         *)
(* Inv is inductive.  Its heart is TokensMatch, the balance between the    *)
(* semaphore and the deque that holds while the two are updated in         *)
(* separate steps: it is what makes the unguarded front() of a pop safe,   *)
(* and a message that is there is what makes the popped request one.       *)
(***************************************************************************)
EXTENDS ThreadPool, FiniteSetTheorems, TLAPS

(* A thread past its pop has a request in hand.                             *)
HandFull == \A t \in Threads : pc[t] \in {"check", "exec"} => hand[t] \in Requests

(* A push under way is the push of a request that has been sent.            *)
PushingSent == \A r \in pushing : fate[r] # "unsent"

(* The pool's flag is raised before the deque's, and the deque's before its *)
(* stop tokens are posted.                                                  *)
FlagsOrdered == (dstopped => stopped) /\ (tokens > 0 => dstopped)

Inv == TypeOK /\ TokensMatch /\ HandFull /\ PushingSent /\ FlagsOrdered /\ ExitsIdle

-----------------------------------------------------------------------------
(* A set of threads has a size.                                             *)
LEMMA ThreadSubset ==
  ASSUME NEW S \in SUBSET Threads
  PROVE  IsFiniteSet(S) /\ Cardinality(S) \in Nat
BY ThreadsAssumption, FS_Subset, FS_CardinalityType

(* A thread that enters a set of threads makes it one larger.               *)
LEMMA ThreadEnters ==
  ASSUME NEW S \in SUBSET Threads, NEW t \in Threads, t \notin S
  PROVE  Cardinality(S \cup {t}) = Cardinality(S) + 1
BY ThreadSubset, FS_AddElement

(* A thread that leaves a set of threads makes it one smaller.              *)
LEMMA ThreadLeaves ==
  ASSUME NEW S \in SUBSET Threads, NEW t \in S
  PROVE  Cardinality(S \ {t}) = Cardinality(S) - 1 /\ Cardinality(S) > 0
<1>1. IsFiniteSet(S) /\ Cardinality(S) \in Nat
  BY ThreadSubset
<1>2. Cardinality(S \ {t}) = Cardinality(S) - 1
  BY <1>1, FS_RemoveElement
<1>3. Cardinality(S) # 0
  BY <1>1, FS_EmptySet
<1> QED BY <1>1, <1>2, <1>3

(* The same two facts for a set of requests.                                *)
LEMMA RequestEnters ==
  ASSUME NEW S \in SUBSET Requests, NEW r \in Requests, r \notin S
  PROVE  Cardinality(S \cup {r}) = Cardinality(S) + 1
BY RequestsAssumption, FS_Subset, FS_AddElement

(* Taking a request out of a set of them lowers its cardinality by one.    *)
LEMMA RequestLeaves ==
  ASSUME NEW S \in SUBSET Requests, NEW r \in S
  PROVE  Cardinality(S \ {r}) = Cardinality(S) - 1
BY RequestsAssumption, FS_Subset, FS_RemoveElement

(* A set of requests has a natural cardinality.                            *)
LEMMA RequestSubset ==
  ASSUME NEW S \in SUBSET Requests
  PROVE  Cardinality(S) \in Nat
BY RequestsAssumption, FS_Subset, FS_CardinalityType

(* The balance gives a pop its message: Deque::pop and try_pop may call     *)
(* front() without looking.                                                 *)
LEMMA BalanceFeedsPop == TypeOK /\ TokensMatch => NeverPopEmpty
<1> SUFFICES ASSUME TypeOK, TokensMatch, ~dstopped, NEW t \in Admitted
             PROVE  deque # <<>>
  BY DEF NeverPopEmpty
<1>1. Cardinality(Admitted) > 0 /\ Cardinality(Admitted) \in Nat
  BY ThreadLeaves, ThreadSubset DEF Admitted
<1>2. Cardinality(pushing) \in Nat
  BY RequestSubset DEF TypeOK
<1>3. Len(deque) > 0
  BY <1>1, <1>2 DEF TypeOK, TokensMatch
<1> QED BY <1>3

-----------------------------------------------------------------------------
(* The pool starts balanced.                                                *)
LEMMA InitInv == Init => Inv
<1> SUFFICES ASSUME Init PROVE Inv
  OBVIOUS
<1>1. Admitted = {}
  BY DEF Init, Admitted
<1>2. TokensMatch
  BY <1>1, FS_EmptySet DEF Init, TokensMatch
<1>3. TypeOK
  <2>1. deque \in Seq(Requests) /\ sem \in Nat /\ tokens \in Nat
    BY DEF Init
  <2>2. dstopped \in BOOLEAN /\ stopped \in BOOLEAN
    BY Zenon DEF Init
  <2>3. /\ pushing \in SUBSET Requests /\ pc \in [Threads -> Places]
        /\ hand \in [Threads -> Requests \cup {None}]
        /\ held \in [Threads -> SUBSET Requests]
        /\ fate \in [Requests -> Fates]
    BY DEF Init, Places, Fates
  <2> QED BY <2>1, <2>2, <2>3 DEF TypeOK
<1>4. HandFull /\ PushingSent /\ FlagsOrdered /\ ExitsIdle
  BY DEF Init, HandFull, PushingSent, FlagsOrdered, ExitsIdle
<1> QED BY <1>2, <1>3, <1>4 DEF Inv

(* A step that moves thread t, which is not in a critical section           *)
(* before or after, does not change who is admitted.                        *)
LEMMA AdmittedSame ==
  ASSUME TypeOK, NEW t \in Threads, NEW p \in Places,
         p \notin {"tryLock", "popLock"}, pc[t] \notin {"tryLock", "popLock"},
         pc' = [pc EXCEPT ![t] = p]
  PROVE  Admitted' = Admitted
BY DEF TypeOK, Admitted

(* A thread that took a token joins the admitted ones.                      *)
LEMMA AdmittedEnters ==
  ASSUME TypeOK, NEW t \in Threads, NEW p \in {"tryLock", "popLock"},
         pc[t] \notin {"tryLock", "popLock"},
         pc' = [pc EXCEPT ![t] = p]
  PROVE  Cardinality(Admitted') = Cardinality(Admitted) + 1
<1>1. Admitted' = Admitted \cup {t} /\ t \notin Admitted
  BY DEF TypeOK, Admitted
<1> QED BY <1>1, ThreadEnters DEF Admitted

(* A thread that used its token leaves the admitted ones.                   *)
LEMMA AdmittedLeaves ==
  ASSUME TypeOK, NEW t \in Threads, NEW p \in Places,
         p \notin {"tryLock", "popLock"}, pc[t] \in {"tryLock", "popLock"},
         pc' = [pc EXCEPT ![t] = p]
  PROVE  Cardinality(Admitted') = Cardinality(Admitted) - 1
<1>1. Admitted' = Admitted \ {t} /\ t \in Admitted
  BY DEF TypeOK, Admitted
<1> QED BY <1>1, ThreadLeaves DEF Admitted

-----------------------------------------------------------------------------
(* A pop that holds a token takes a request off the deque.                  *)
LEMMA TakesRequest ==
  ASSUME Inv, ~dstopped, NEW t \in Threads, pc[t] \in {"tryLock", "popLock"}
  PROVE  /\ Head(deque) \in Requests
         /\ Tail(deque) \in Seq(Requests)
         /\ Len(Tail(deque)) = Len(deque) - 1
<1>1. deque # <<>>
  BY BalanceFeedsPop DEF Inv, NeverPopEmpty, Admitted
<1> QED BY <1>1 DEF Inv, TypeOK

(* The two halves of Deque::push keep the balance.                          *)
LEMMA PushInv ==
  ASSUME Inv, NEW r \in Requests, PushMessage(r) \/ PushToken(r)
  PROVE  Inv'
<1> USE DEF Inv
<1>1. Admitted' = Admitted
  BY DEF PushMessage, PushToken, Admitted
<1>2. /\ Cardinality(Admitted) \in Nat
      /\ Cardinality(pushing) \in Nat
      /\ Len(deque) \in Nat
  BY ThreadSubset, RequestSubset DEF Admitted, TypeOK
<1>3. CASE PushMessage(r)
  <2>1. TypeOK'
    BY <1>3 DEF TypeOK, PushMessage, Fates
  <2>2. TokensMatch'
    <3>1. r \notin pushing
      BY <1>3 DEF PushMessage, PushingSent
    <3>2. Cardinality(pushing') = Cardinality(pushing) + 1
      BY <1>3, <3>1, RequestEnters DEF PushMessage, TypeOK
    <3>3. Len(deque') = Len(deque) + 1
      BY <1>3 DEF PushMessage, TypeOK
    <3>4. sem' = sem /\ sem \in Nat /\ dstopped' = dstopped
      BY <1>3 DEF PushMessage, TypeOK
    <3> QED BY <1>1, <1>2, <3>2, <3>3, <3>4 DEF TokensMatch
  <2>3. HandFull' /\ PushingSent' /\ FlagsOrdered' /\ ExitsIdle'
    BY <1>3 DEF TypeOK, PushMessage, HandFull, PushingSent, FlagsOrdered, ExitsIdle
  <2> QED BY <2>1, <2>2, <2>3
<1>4. CASE PushToken(r)
  <2>1. TypeOK'
    BY <1>4 DEF TypeOK, PushToken
  <2>2. TokensMatch'
    <3>1. Cardinality(pushing') = Cardinality(pushing) - 1
      BY <1>4, RequestLeaves DEF PushToken, TypeOK
    <3> QED BY <1>1, <1>2, <1>4, <3>1 DEF TokensMatch, PushToken, TypeOK
  <2>3. HandFull' /\ PushingSent' /\ FlagsOrdered' /\ ExitsIdle'
    BY <1>4 DEF TypeOK, PushToken, HandFull, PushingSent, FlagsOrdered, ExitsIdle
  <2> QED BY <2>1, <2>2, <2>3
<1> QED BY <1>3, <1>4

(* Teardown posts its tokens after the deque is closed, when the balance no *)
(* longer speaks.                                                           *)
LEMMA StopInv ==
  ASSUME Inv, StopPool \/ StopDeque \/ StopToken
  PROVE  Inv'
<1> USE DEF Inv
<1>1. Admitted' = Admitted
  BY DEF StopPool, StopDeque, StopToken, Admitted
<1>2. Cardinality(Threads) \in Nat
  BY ThreadSubset
<1>3. tokens' \in Nat /\ sem' \in Nat
  BY <1>2 DEF StopPool, StopDeque, StopToken, TypeOK
<1>4. dstopped' \in BOOLEAN /\ stopped' \in BOOLEAN
  BY Zenon DEF StopPool, StopDeque, StopToken, TypeOK
<1>5. TypeOK'
  BY <1>3, <1>4 DEF StopPool, StopDeque, StopToken, TypeOK
<1>6. FlagsOrdered'
  BY DEF StopPool, StopDeque, StopToken, FlagsOrdered, TypeOK
<1>7. TokensMatch'
  BY <1>1 DEF StopPool, StopDeque, StopToken, TokensMatch, FlagsOrdered
<1>8. HandFull' /\ PushingSent' /\ ExitsIdle'
  BY DEF StopPool, StopDeque, StopToken, HandFull, PushingSent, ExitsIdle
<1> QED BY <1>5, <1>6, <1>7, <1>8

(* Deque::try_pop: a token moves from the semaphore to the thread, and then *)
(* a message leaves with it - or, once the deque is closed, the token goes  *)
(* back.                                                                    *)
LEMMA TryPopInv ==
  ASSUME Inv, NEW t \in Threads, TryWait(t) \/ TryLock(t)
  PROVE  Inv'
<1> USE DEF Inv
<1>0. Cardinality(Admitted) \in Nat /\ Cardinality(pushing) \in Nat /\ Len(deque) \in Nat
  BY ThreadSubset, RequestSubset DEF Admitted, TypeOK
<1>1. NothingPopped(t) \in {"drain", "wait"} /\ (NothingPopped(t) = "wait" => held[t] = {})
  BY DEF NothingPopped
<1>2. ASSUME TryWait(t) PROVE Inv'
  <2>1. CASE sem > 0 /\ sem' = sem - 1 /\ pc' = [pc EXCEPT ![t] = "tryLock"]
    <3>1. TypeOK'
      BY <1>2, <2>1 DEF TypeOK, TryWait, Places
    <3>2. TokensMatch'
      <4>1. Cardinality(Admitted') = Cardinality(Admitted) + 1
        BY <1>2, <2>1, AdmittedEnters DEF TryWait
      <4>2. pushing' = pushing /\ deque' = deque /\ dstopped' = dstopped
        BY <1>2 DEF TryWait
      <4> QED BY <1>0, <2>1, <4>1, <4>2 DEF TokensMatch, TypeOK
    <3>3. HandFull' /\ PushingSent' /\ FlagsOrdered' /\ ExitsIdle'
      BY <1>2, <2>1 DEF TypeOK, TryWait, HandFull, PushingSent, FlagsOrdered, ExitsIdle
    <3> QED BY <3>1, <3>2, <3>3
  <2>2. CASE sem = 0 /\ sem' = sem /\ pc' = [pc EXCEPT ![t] = NothingPopped(t)]
    <3>1. TypeOK'
      BY <1>1, <1>2, <2>2 DEF TypeOK, TryWait, Places
    <3>2. TokensMatch'
      <4>1. Admitted' = Admitted
        BY <1>1, <1>2, <2>2, AdmittedSame DEF TryWait, Places
      <4>2. pushing' = pushing /\ deque' = deque /\ dstopped' = dstopped
        BY <1>2 DEF TryWait
      <4> QED BY <2>2, <4>1, <4>2 DEF TokensMatch
    <3>3. HandFull' /\ PushingSent' /\ FlagsOrdered' /\ ExitsIdle'
      BY <1>1, <1>2, <2>2 DEF TypeOK, TryWait, HandFull, PushingSent, FlagsOrdered, ExitsIdle
    <3> QED BY <3>1, <3>2, <3>3
  <2> QED BY <1>2, <2>1, <2>2 DEF TryWait
<1>3. ASSUME TryLock(t) PROVE Inv'
  <2>0. /\ pc[t] = "tryLock" /\ dstopped' = dstopped /\ stopped' = stopped
        /\ tokens' = tokens /\ pushing' = pushing /\ held' = held /\ fate' = fate
    BY <1>3 DEF TryLock
  <2>1. CASE /\ dstopped /\ sem' = sem + 1 /\ pc' = [pc EXCEPT ![t] = NothingPopped(t)]
             /\ deque' = deque /\ hand' = hand
    <3>1. TypeOK'
      BY <1>1, <2>0, <2>1 DEF TypeOK, Places
    <3>2. TokensMatch' /\ HandFull' /\ PushingSent' /\ FlagsOrdered' /\ ExitsIdle'
      BY <1>1, <2>0, <2>1
         DEF TypeOK, TokensMatch, HandFull, PushingSent, FlagsOrdered, ExitsIdle
    <3> QED BY <3>1, <3>2
  <2>2. CASE ~dstopped /\ TakeFront(t) /\ sem' = sem
    <3>1. TypeOK'
      BY <2>0, <2>2, TakesRequest DEF TypeOK, TakeFront, Places
    <3>2. TokensMatch'
      <4>1. Cardinality(Admitted') = Cardinality(Admitted) - 1
        BY <2>0, <2>2, AdmittedLeaves DEF TakeFront, Places
      <4>2. Len(deque') = Len(deque) - 1
        BY <2>0, <2>2, TakesRequest DEF TakeFront
      <4> QED BY <1>0, <2>0, <2>2, <4>1, <4>2 DEF TokensMatch, TypeOK
    <3>3. HandFull' /\ PushingSent' /\ FlagsOrdered' /\ ExitsIdle'
      BY <2>0, <2>2, TakesRequest
         DEF TypeOK, TakeFront, HandFull, PushingSent, FlagsOrdered, ExitsIdle
    <3> QED BY <3>1, <3>2, <3>3
  <2> QED BY <1>3, <2>1, <2>2 DEF TryLock
<1> QED BY <1>2, <1>3

(* Deque::pop, on a thread whose worker is idle: it leaves with a message,  *)
(* or for good.                                                             *)
LEMMA PopInv ==
  ASSUME Inv, NEW t \in Threads, PopWait(t) \/ PopLock(t)
  PROVE  Inv'
<1> USE DEF Inv
<1>0. Cardinality(Admitted) \in Nat /\ Cardinality(pushing) \in Nat /\ Len(deque) \in Nat
  BY ThreadSubset, RequestSubset DEF Admitted, TypeOK
<1>1. ASSUME PopWait(t) PROVE Inv'
  <2>1. TypeOK'
    BY <1>1 DEF TypeOK, PopWait, Places
  <2>2. TokensMatch'
    <3>1. Cardinality(Admitted') = Cardinality(Admitted) + 1
      BY <1>1, AdmittedEnters DEF PopWait
    <3>2. pushing' = pushing /\ deque' = deque /\ dstopped' = dstopped /\ sem' = sem - 1
      BY <1>1 DEF PopWait
    <3> QED BY <1>0, <3>1, <3>2 DEF TokensMatch, TypeOK
  <2>3. HandFull' /\ PushingSent' /\ FlagsOrdered' /\ ExitsIdle'
    BY <1>1 DEF TypeOK, PopWait, HandFull, PushingSent, FlagsOrdered, ExitsIdle
  <2> QED BY <2>1, <2>2, <2>3
<1>2. ASSUME PopLock(t) PROVE Inv'
  <2>0. /\ pc[t] = "popLock" /\ dstopped' = dstopped /\ stopped' = stopped /\ sem' = sem
        /\ tokens' = tokens /\ pushing' = pushing /\ held' = held /\ fate' = fate
    BY <1>2 DEF PopLock
  <2>1. CASE dstopped /\ pc' = [pc EXCEPT ![t] = "exit"] /\ deque' = deque /\ hand' = hand
    <3>1. TypeOK'
      BY <2>0, <2>1 DEF TypeOK, Places
    <3>2. TokensMatch' /\ HandFull' /\ PushingSent' /\ FlagsOrdered' /\ ExitsIdle'
      BY <2>0, <2>1
         DEF TypeOK, TokensMatch, HandFull, PushingSent, FlagsOrdered, ExitsIdle
    <3> QED BY <3>1, <3>2
  <2>2. CASE ~dstopped /\ TakeFront(t)
    <3>1. TypeOK'
      BY <2>0, <2>2, TakesRequest DEF TypeOK, TakeFront, Places
    <3>2. TokensMatch'
      <4>1. Cardinality(Admitted') = Cardinality(Admitted) - 1
        BY <2>0, <2>2, AdmittedLeaves DEF TakeFront, Places
      <4>2. Len(deque') = Len(deque) - 1
        BY <2>0, <2>2, TakesRequest DEF TakeFront
      <4> QED BY <1>0, <2>0, <2>2, <4>1, <4>2 DEF TokensMatch, TypeOK
    <3>3. HandFull' /\ PushingSent' /\ FlagsOrdered' /\ ExitsIdle'
      BY <2>0, <2>2, TakesRequest
         DEF TypeOK, TakeFront, HandFull, PushingSent, FlagsOrdered, ExitsIdle
    <3> QED BY <3>1, <3>2, <3>3
  <2> QED BY <1>2, <2>1, <2>2 DEF PopLock
<1> QED BY <1>1, <1>2

(* worker_routine with a request in hand, and Worker::execute and drain:    *)
(* no token moves, no message moves, and the worker's window only ever      *)
(* takes in the request in hand.                                            *)
LEMMA WorkInv ==
  ASSUME Inv, NEW t \in Threads, CheckStopped(t) \/ Execute(t) \/ Drain(t)
  PROVE  Inv'
<1> USE DEF Inv
<1>1. /\ deque' = deque /\ sem' = sem /\ dstopped' = dstopped /\ stopped' = stopped
      /\ tokens' = tokens /\ pushing' = pushing
  BY DEF CheckStopped, Execute, Drain
<1>2. PICK p \in {"try", "exec"} :
         /\ pc' = [pc EXCEPT ![t] = p]
         /\ pc[t] \in {"check", "exec", "drain"}
         /\ p = "exec" => pc[t] = "check" /\ hand' = hand
  BY DEF CheckStopped, Execute, Drain, Settle
<1>3. /\ hand' \in [Threads -> Requests \cup {None}]
      /\ hand' = hand \/ hand' = [hand EXCEPT ![t] = None]
  BY DEF CheckStopped, Execute, Drain, TypeOK
<1>4. /\ fate' \in [Requests -> Fates]
      /\ \A r \in Requests : fate'[r] = fate[r] \/ fate'[r] # "unsent"
  BY DEF CheckStopped, Execute, Drain, Settle, TypeOK, Fates
<1>5. /\ held' \in [Threads -> SUBSET Requests]
      /\ \A u \in Threads : u # t => held'[u] = held[u]
  <2>1. CASE CheckStopped(t)
    BY <2>1 DEF CheckStopped, TypeOK
  <2>2. CASE Execute(t)
    <3>1. hand[t] \in Requests
      BY <2>2 DEF Execute, HandFull
    <3>2. PICK S : held' = [held EXCEPT ![t] = (held[t] \cup {hand[t]}) \ S]
      BY <2>2 DEF Execute, Settle
    <3> QED BY <3>1, <3>2 DEF TypeOK
  <2>3. CASE Drain(t)
    <3>1. PICK S : held' = [held EXCEPT ![t] = held[t] \ S]
      BY <2>3 DEF Drain, Settle
    <3> QED BY <3>1 DEF TypeOK
  <2> QED BY <2>1, <2>2, <2>3
<1>6. TypeOK'
  BY <1>1, <1>2, <1>3, <1>4, <1>5 DEF TypeOK, Places
<1>7. TokensMatch'
  <2>1. Admitted' = Admitted
    BY <1>2, AdmittedSame DEF Places
  <2> QED BY <1>1, <2>1 DEF TokensMatch
<1>8. HandFull'
  BY <1>2, <1>3 DEF HandFull, TypeOK
<1>9. PushingSent' /\ FlagsOrdered'
  BY <1>1, <1>4 DEF PushingSent, FlagsOrdered, TypeOK
<1>10. ExitsIdle'
  BY <1>2, <1>5 DEF ExitsIdle, TypeOK
<1> QED BY <1>6, <1>7, <1>8, <1>9, <1>10

(* Every step of the pool preserves the invariant.                          *)
LEMMA NextInv == Inv /\ [Next]_vars => Inv'
<1> SUFFICES ASSUME Inv, [Next]_vars PROVE Inv'
  OBVIOUS
<1>1. CASE UNCHANGED vars
  BY <1>1 DEF vars, Inv, TypeOK, TokensMatch, HandFull, PushingSent, FlagsOrdered,
              ExitsIdle, Admitted
<1>2. CASE Joined
  BY <1>1, <1>2 DEF Joined
<1>3. CASE \E r \in Requests : PushMessage(r) \/ PushToken(r)
  BY <1>3, PushInv
<1>4. CASE StopPool \/ StopDeque \/ StopToken
  BY <1>4, StopInv
<1>5. ASSUME NEW t \in Threads, worker_routine(t) PROVE Inv'
  BY <1>5, TryPopInv, PopInv, WorkInv DEF worker_routine
<1> QED BY <1>1, <1>2, <1>3, <1>4, <1>5 DEF Next

(* The inductive invariant holds throughout every run of the pool.          *)
LEMMA Invariance == Spec => []Inv
BY InitInv, NextInv, PTL DEF Spec

(* The pool's state is always well typed; in particular the request a       *)
(* thread carries out of Deque::pop is one a caller pushed.                 *)
THEOREM TypeCorrect == Spec => []TypeOK
BY Invariance, PTL DEF Inv

(* Tokens and messages agree as long as the deque is open, although every   *)
(* push and every pop updates them in two separate steps.                   *)
THEOREM TokensAlwaysMatch == Spec => []TokensMatch
BY Invariance, PTL DEF Inv

(* No thread that Deque::pop or try_pop has admitted ever finds the deque   *)
(* empty, with any number of threads popping and callers pushing.           *)
THEOREM PopsNeverEmpty == Spec => []NeverPopEmpty
<1>1. Inv => NeverPopEmpty
  BY BalanceFeedsPop DEF Inv
<1> QED BY <1>1, Invariance, PTL

(* A thread parks or exits only with an idle worker, so whatever was in     *)
(* flight when the pool stopped has been aborted, not forgotten.            *)
THEOREM ThreadsExitIdle == Spec => []ExitsIdle
BY Invariance, PTL DEF Inv

-----------------------------------------------------------------------------
(* The threads ~ThreadPool still has to join.                               *)
Alive == {t \in Threads : pc[t] # "exit"}

(* Every step of a closed pool keeps a token for every thread to be joined: *)
(* a thread spends one only to exit, and try_pop gives back what it took.   *)
LEMMA NextWakes == Inv /\ WakesEveryone /\ [Next]_vars => WakesEveryone'
<1> SUFFICES ASSUME Inv, WakesEveryone, [Next]_vars, dstopped'
             PROVE  sem' + tokens' + Cardinality(Admitted') >= Cardinality(Alive')
  BY DEF WakesEveryone, Alive
<1> USE DEF Inv
<1>a. /\ sem \in Nat /\ tokens \in Nat
      /\ Cardinality(Admitted) \in Nat /\ Cardinality(Alive) \in Nat
  BY ThreadSubset DEF TypeOK, Admitted, Alive
<1>b. ASSUME dstopped
      PROVE  sem + tokens + Cardinality(Admitted) >= Cardinality(Alive)
  BY <1>b DEF WakesEveryone, Alive
<1>1. CASE UNCHANGED vars
  <2>1. /\ sem' = sem /\ tokens' = tokens /\ dstopped' = dstopped
        /\ Admitted' = Admitted /\ Alive' = Alive
    BY <1>1 DEF vars, Admitted, Alive
  <2> QED BY <1>b, <2>1
<1>2. ASSUME NEW r \in Requests, PushMessage(r) \/ PushToken(r)
      PROVE  sem' + tokens' + Cardinality(Admitted') >= Cardinality(Alive')
  <2>1. /\ sem' = sem \/ sem' = sem + 1
        /\ tokens' = tokens /\ dstopped' = dstopped
        /\ Admitted' = Admitted /\ Alive' = Alive
    BY <1>2 DEF PushMessage, PushToken, Admitted, Alive
  <2> QED BY <1>a, <1>b, <2>1
<1>3. CASE StopPool
  <2>1. /\ sem' = sem /\ tokens' = tokens /\ dstopped' = dstopped
        /\ Admitted' = Admitted /\ Alive' = Alive
    BY <1>3 DEF StopPool, Admitted, Alive
  <2> QED BY <1>b, <2>1
<1>4. CASE StopDeque
  <2>1. /\ sem' = sem /\ tokens' = Cardinality(Threads)
        /\ Admitted' = Admitted /\ Alive' = Alive
    BY <1>4 DEF StopDeque, Admitted, Alive
  <2>2. Cardinality(Alive) <= Cardinality(Threads) /\ Cardinality(Threads) \in Nat
    BY ThreadsAssumption, FS_Subset, FS_CardinalityType DEF Alive
  <2> QED BY <1>a, <2>1, <2>2
<1>5. CASE StopToken
  <2>1. /\ sem' = sem + 1 /\ tokens' = tokens - 1 /\ dstopped' = dstopped
        /\ Admitted' = Admitted /\ Alive' = Alive
    BY <1>5 DEF StopToken, Admitted, Alive
  <2> QED BY <1>a, <1>b, <2>1
<1>6. ASSUME NEW t \in Threads, worker_routine(t)
      PROVE  sem' + tokens' + Cardinality(Admitted') >= Cardinality(Alive')
  <2>0. tokens' = tokens /\ dstopped' = dstopped /\ dstopped
    BY <1>6 DEF worker_routine, TryWait, TryLock, PopWait, PopLock, CheckStopped,
                Execute, Drain
  <2>1. NothingPopped(t) \in {"drain", "wait"}
    BY DEF NothingPopped
  <2>2. CASE TryWait(t) /\ sem > 0
    <3>1. Cardinality(Admitted') = Cardinality(Admitted) + 1
      BY <2>2, AdmittedEnters DEF TryWait
    <3>2. sem' = sem - 1 /\ Alive' = Alive
      BY <2>2 DEF TryWait, Alive, TypeOK
    <3> QED BY <1>a, <1>b, <2>0, <3>1, <3>2
  <2>3. CASE TryWait(t) /\ sem = 0
    <3>1. Admitted' = Admitted
      BY <2>1, <2>3, AdmittedSame DEF TryWait, Places
    <3>2. sem' = sem /\ Alive' = Alive
      BY <2>1, <2>3 DEF TryWait, Alive, TypeOK
    <3> QED BY <1>a, <1>b, <2>0, <3>1, <3>2
  <2>4. CASE TryLock(t)
    <3>1. Cardinality(Admitted') = Cardinality(Admitted) - 1
      BY <2>0, <2>1, <2>4, AdmittedLeaves DEF TryLock, Places
    <3>2. sem' = sem + 1 /\ Alive' = Alive
      BY <2>0, <2>1, <2>4 DEF TryLock, Alive, TypeOK
    <3> QED BY <1>a, <1>b, <2>0, <3>1, <3>2
  <2>5. CASE PopWait(t)
    <3>1. Cardinality(Admitted') = Cardinality(Admitted) + 1
      BY <2>5, AdmittedEnters DEF PopWait
    <3>2. sem' = sem - 1 /\ Alive' = Alive
      BY <2>5 DEF PopWait, Alive, TypeOK
    <3> QED BY <1>a, <1>b, <2>0, <3>1, <3>2
  <2>6. CASE PopLock(t)
    <3>1. Cardinality(Admitted') = Cardinality(Admitted) - 1
      BY <2>0, <2>6, AdmittedLeaves DEF PopLock, Places
    <3>2. sem' = sem /\ Alive' = Alive \ {t} /\ t \in Alive
      BY <2>0, <2>6 DEF PopLock, Alive, TypeOK
    <3>3. Cardinality(Alive') = Cardinality(Alive) - 1
      BY <3>2, ThreadLeaves DEF Alive
    <3> QED BY <1>a, <1>b, <2>0, <3>1, <3>2, <3>3
  <2>7. CASE CheckStopped(t) \/ Execute(t) \/ Drain(t)
    <3>1. PICK p \in {"try", "exec"} :
             pc' = [pc EXCEPT ![t] = p] /\ pc[t] \in {"check", "exec", "drain"}
      BY <2>7 DEF CheckStopped, Execute, Drain, Settle
    <3>2. Admitted' = Admitted
      BY <3>1, AdmittedSame DEF Places
    <3>3. sem' = sem /\ Alive' = Alive
      BY <2>7, <3>1 DEF CheckStopped, Execute, Drain, Alive, TypeOK
    <3> QED BY <1>a, <1>b, <2>0, <3>2, <3>3
  <2>8. sem > 0 \/ sem = 0
    BY <1>a
  <2> QED BY <1>6, <2>2, <2>3, <2>4, <2>5, <2>6, <2>7, <2>8 DEF worker_routine
<1>7. CASE Joined
  BY <1>1, <1>7 DEF Joined
<1> QED BY <1>1, <1>2, <1>3, <1>4, <1>5, <1>6, <1>7 DEF Next

(* ~ThreadPool never leaves a thread parked: with any number of threads,    *)
(* enough tokens remain to wake each one that has not exited.               *)
THEOREM NobodyParkedForEver == Spec => []WakesEveryone
<1>1. Init => WakesEveryone
  BY DEF Init, WakesEveryone
<1> QED BY <1>1, NextWakes, Invariance, PTL DEF Spec

-----------------------------------------------------------------------------
(* A thread that has not popped carries nothing in hand.                    *)
HandEmpty == \A t \in Threads : pc[t] \notin {"check", "exec"} => hand[t] = None

Placed == OnePlace /\ HandEmpty

(* A request that the pool does not have is nowhere in it.                  *)
LEMMA PushPlaces ==
  ASSUME Inv, Placed, NEW r \in Requests, PushMessage(r)
  PROVE  Placed'
<1> USE DEF Inv, Placed
<1>1. /\ deque' = Append(deque, r) /\ fate' = [fate EXCEPT ![r] = "pool"] /\ fate[r] = "unsent"
      /\ pc' = pc /\ hand' = hand /\ held' = held
  BY DEF PushMessage
<1>2. \A t \in Threads : Carried(t)' = Carried(t)
  BY <1>1 DEF Carried
<1>3. /\ \A i \in 1..Len(deque) : deque[i] # r
      /\ \A t \in Threads : r \notin Carried(t)
  BY <1>1 DEF OnePlace
<1>4. /\ Len(deque') = Len(deque) + 1 /\ Len(deque) \in Nat
      /\ \A i \in 1..Len(deque) : deque'[i] = deque[i]
      /\ deque'[Len(deque) + 1] = r
  BY <1>1 DEF TypeOK
<1>5. \A i, j \in 1..Len(deque') : deque'[i] = deque'[j] => i = j
  BY <1>3, <1>4 DEF OnePlace
<1>6. \A t, u \in Threads : t # u => Carried(t)' \cap Carried(u)' = {}
  BY <1>2 DEF OnePlace
<1>7. \A t \in Threads : hand'[t] \notin held'[t]
  BY <1>1 DEF OnePlace
<1>8. \A t \in Threads : \A i \in 1..Len(deque') : deque'[i] \notin Carried(t)'
  BY <1>2, <1>3, <1>4 DEF OnePlace
<1>9. ASSUME NEW q \in Requests
      PROVE  fate'[q] = "pool" <=>
               (\E i \in 1..Len(deque') : deque'[i] = q) \/ (\E t \in Threads : q \in Carried(t)')
  <2>1. CASE q = r
    BY <1>1, <1>4, <2>1 DEF TypeOK
  <2>2. CASE q # r
    <3>1. fate'[q] = fate[q]
      BY <1>1, <2>2 DEF TypeOK
    <3>2. (\E i \in 1..Len(deque') : deque'[i] = q) <=> (\E i \in 1..Len(deque) : deque[i] = q)
      BY <1>4, <2>2
    <3> QED BY <1>2, <3>1, <3>2 DEF OnePlace
  <2> QED BY <2>1, <2>2
<1> QED BY <1>1, <1>5, <1>6, <1>7, <1>8, <1>9 DEF OnePlace, HandEmpty

(* A pop moves the front of the deque into an empty hand.                   *)
LEMMA TakePlaces ==
  ASSUME Inv, Placed, ~dstopped, NEW t \in Threads, pc[t] \in {"tryLock", "popLock"},
         TakeFront(t), held' = held, fate' = fate
  PROVE  Placed'
<1> USE DEF Inv, Placed
<1> DEFINE r == Head(deque)
<1>1. deque # <<>>
  BY BalanceFeedsPop DEF NeverPopEmpty, Admitted
<1>2. /\ Len(deque) \in Nat /\ Len(deque) >= 1 /\ r = deque[1] /\ r \in Requests
      /\ Len(deque') = Len(deque) - 1
      /\ \A i \in 1..(Len(deque) - 1) : deque'[i] = deque[i + 1]
  BY <1>1 DEF TypeOK, TakeFront
<1>3. /\ hand[t] = None /\ hand' = [hand EXCEPT ![t] = r] /\ pc' = [pc EXCEPT ![t] = "check"]
  BY DEF HandEmpty, TakeFront
<1>4. /\ Carried(t)' = Carried(t) \cup {r}
      /\ \A u \in Threads : u # t => Carried(u)' = Carried(u)
  BY <1>2, <1>3, NoneAssumption DEF Carried, TypeOK
<1>5. \A u \in Threads : r \notin Carried(u)
  BY <1>2 DEF OnePlace
<1>6. \A i \in 1..Len(deque') : deque'[i] # r
  BY <1>2 DEF OnePlace
<1>7. \A i, j \in 1..Len(deque') : deque'[i] = deque'[j] => i = j
  BY <1>2 DEF OnePlace
<1>8. \A v, u \in Threads : v # u => Carried(v)' \cap Carried(u)' = {}
  BY <1>4, <1>5 DEF OnePlace
<1>9. \A u \in Threads : hand'[u] \notin held'[u]
  BY <1>3, <1>5 DEF OnePlace, Carried, TypeOK
<1>10. \A u \in Threads : \A i \in 1..Len(deque') : deque'[i] \notin Carried(u)'
  BY <1>2, <1>4, <1>6 DEF OnePlace
<1>11. ASSUME NEW q \in Requests
       PROVE  fate'[q] = "pool" <=>
                (\E i \in 1..Len(deque') : deque'[i] = q) \/ (\E u \in Threads : q \in Carried(u)')
  <2>1. CASE q = r
    BY <1>2, <1>4, <2>1 DEF OnePlace
  <2>2. CASE q # r
    <3>1. (\E i \in 1..Len(deque') : deque'[i] = q) <=> (\E i \in 1..Len(deque) : deque[i] = q)
      <4>1. ASSUME NEW i \in 1..Len(deque), deque[i] = q
            PROVE  \E j \in 1..Len(deque') : deque'[j] = q
        <5>1. i # 1 /\ i - 1 \in 1..Len(deque') /\ deque'[i - 1] = q
          BY <1>2, <2>2, <4>1
        <5> QED BY <5>1
      <4>2. ASSUME NEW i \in 1..Len(deque'), deque'[i] = q
            PROVE  \E j \in 1..Len(deque) : deque[j] = q
        <5>1. i + 1 \in 1..Len(deque) /\ deque[i + 1] = q
          BY <1>2, <4>2
        <5> QED BY <5>1
      <4> QED BY <4>1, <4>2
    <3>2. (\E u \in Threads : q \in Carried(u)') <=> (\E u \in Threads : q \in Carried(u))
      BY <1>4, <2>2
    <3> QED BY <3>1, <3>2 DEF OnePlace
  <2> QED BY <2>1, <2>2
<1>12. HandEmpty'
  BY <1>3 DEF HandEmpty, TypeOK
<1> QED BY <1>7, <1>8, <1>9, <1>10, <1>11, <1>12 DEF OnePlace

(* A thread that settles the requests S it carries leaves the others where  *)
(* they are.                                                                *)
LEMMA SettlePlaces ==
  ASSUME Inv, Placed, NEW t \in Threads, NEW S \in SUBSET Carried(t),
         deque' = deque,
         Carried(t)' = Carried(t) \ S,
         \A u \in Threads : u # t => Carried(u)' = Carried(u),
         \A u \in Threads : hand'[u] \notin held'[u],
         \A q \in Requests : IF q \in S THEN fate'[q] # "pool" ELSE fate'[q] = fate[q],
         HandEmpty'
  PROVE  Placed'
<1> USE DEF Inv, Placed
<1>1. \A u, v \in Threads : u # v => Carried(u)' \cap Carried(v)' = {}
  BY DEF OnePlace
<1>2. \A u \in Threads : \A i \in 1..Len(deque') : deque'[i] \notin Carried(u)'
  BY DEF OnePlace
<1>3. ASSUME NEW q \in Requests
      PROVE  fate'[q] = "pool" <=>
               (\E i \in 1..Len(deque') : deque'[i] = q) \/ (\E u \in Threads : q \in Carried(u)')
  <2>1. CASE q \in S
    <3>1. \A i \in 1..Len(deque') : deque'[i] # q
      BY <2>1 DEF OnePlace
    <3>2. \A u \in Threads : q \notin Carried(u)'
      BY <2>1 DEF OnePlace
    <3> QED BY <2>1, <3>1, <3>2
  <2>2. CASE q \notin S
    <3>1. \A u \in Threads : q \in Carried(u)' <=> q \in Carried(u)
      BY <2>2
    <3> QED BY <2>2, <3>1 DEF OnePlace
  <2> QED BY <2>1, <2>2
<1>4. \A i, j \in 1..Len(deque') : deque'[i] = deque'[j] => i = j
  BY DEF OnePlace
<1> QED BY <1>1, <1>2, <1>3, <1>4 DEF OnePlace

(* Thread t settles the requests S: none of them as still in the pool, and  *)
(* as dropped or aborted only once the pool is stopped.                     *)
Settles(t, S) ==
  /\ Carried(t)' = Carried(t) \ S
  /\ \A u \in Threads : u # t => Carried(u)' = Carried(u)
  /\ \A u \in Threads : hand'[u] \notin held'[u]
  /\ \A q \in Requests :
        IF q \in S
        THEN fate'[q] = "done" \/ (stopped /\ fate'[q] \in {"aborted", "dropped"})
        ELSE fate'[q] = fate[q]
  /\ HandEmpty'

(* A step of worker_routine past its pop settles some of what the thread    *)
(* carries.                                                                 *)
LEMMA WorkSettles ==
  ASSUME Inv, Placed, NEW t \in Threads, CheckStopped(t) \/ Execute(t) \/ Drain(t)
  PROVE  \E S \in SUBSET Carried(t) : Settles(t, S)
<1> USE DEF Inv, Placed
<1>0. \A u \in Threads : None \notin held[u]
  BY NoneAssumption DEF TypeOK
<1>1. CASE CheckStopped(t) /\ stopped
  <2>1. /\ pc[t] = "check" /\ held' = held /\ hand' = [hand EXCEPT ![t] = None]
        /\ fate' = [fate EXCEPT ![hand[t]] = "dropped"] /\ pc' = [pc EXCEPT ![t] = "try"]
    BY <1>1 DEF CheckStopped
  <2>2. hand[t] \in Requests /\ hand[t] # None /\ hand[t] \notin held[t]
    BY <2>1, NoneAssumption DEF HandFull, OnePlace
  <2>3. {hand[t]} \in SUBSET Carried(t)
    BY <2>2 DEF Carried
  <2>4. /\ Carried(t)' = Carried(t) \ {hand[t]}
        /\ \A u \in Threads : u # t => Carried(u)' = Carried(u)
    BY <2>1, <2>2 DEF Carried, TypeOK
  <2>5. \A u \in Threads : hand'[u] \notin held'[u]
    BY <1>0, <2>1 DEF OnePlace, TypeOK
  <2>6. \A q \in Requests : IF q = hand[t] THEN fate'[q] = "dropped" ELSE fate'[q] = fate[q]
    BY <2>1, <2>2 DEF TypeOK
  <2>7. HandEmpty'
    BY <2>1 DEF HandEmpty, TypeOK
  <2>8. Settles(t, {hand[t]})
    BY <1>1, <2>4, <2>5, <2>6, <2>7 DEF Settles
  <2> QED BY <2>3, <2>8
<1>2. CASE CheckStopped(t) /\ ~stopped
  <2>1. /\ pc[t] = "check" /\ held' = held /\ hand' = hand /\ fate' = fate
        /\ pc' = [pc EXCEPT ![t] = "exec"]
    BY <1>2 DEF CheckStopped
  <2>2. HandEmpty'
    BY <2>1 DEF HandEmpty, TypeOK
  <2>3. Settles(t, {})
    BY <2>1, <2>2 DEF Settles, Carried, OnePlace
  <2> QED BY <2>3
<1>3. CASE Execute(t)
  <2>1. /\ pc[t] = "exec" /\ hand' = [hand EXCEPT ![t] = None] /\ pc' = [pc EXCEPT ![t] = "try"]
    BY <1>3 DEF Execute, Settle
  <2>2. hand[t] \in Requests /\ hand[t] # None
    BY <2>1, NoneAssumption DEF HandFull
  <2>3. Carried(t) = held[t] \cup {hand[t]}
    BY <2>2 DEF Carried
  <2>4. PICK S \in SUBSET Carried(t), how \in {"done", "aborted"} :
           /\ how = "aborted" => stopped
           /\ Settle(t, Carried(t), S, how)
    BY <1>3, <2>3 DEF Execute
  <2>5. Settles(t, S)
    <3>1. held' = [held EXCEPT ![t] = Carried(t) \ S]
      BY <2>4 DEF Settle
    <3>2. /\ Carried(t)' = Carried(t) \ S
          /\ \A u \in Threads : u # t => Carried(u)' = Carried(u)
      BY <2>1, <3>1 DEF Carried, TypeOK
    <3>3. \A u \in Threads : hand'[u] \notin held'[u]
      BY <1>0, <2>1, <2>2, <2>3, <3>1 DEF OnePlace, TypeOK
    <3>4. \A q \in Requests : fate'[q] = IF q \in S THEN how ELSE fate[q]
      BY <2>4 DEF Settle
    <3>5. HandEmpty'
      BY <2>1 DEF HandEmpty, TypeOK
    <3> QED BY <2>4, <3>2, <3>3, <3>4, <3>5 DEF Settles
  <2> QED BY <2>5
<1>4. CASE Drain(t)
  <2>1. /\ pc[t] = "drain" /\ hand' = hand /\ hand[t] = None /\ pc' = [pc EXCEPT ![t] = "try"]
    BY <1>4 DEF Drain, Settle, HandEmpty
  <2>2. Carried(t) = held[t]
    BY <2>1 DEF Carried
  <2>3. PICK S \in SUBSET Carried(t), how \in {"done", "aborted"} :
           /\ how = "aborted" => stopped
           /\ Settle(t, Carried(t), S, how)
    BY <1>4, <2>2 DEF Drain
  <2>4. Settles(t, S)
    <3>1. held' = [held EXCEPT ![t] = Carried(t) \ S]
      BY <2>3 DEF Settle
    <3>2. /\ Carried(t)' = Carried(t) \ S
          /\ \A u \in Threads : u # t => Carried(u)' = Carried(u)
      BY <2>1, <2>2, <3>1 DEF Carried, TypeOK
    <3>3. \A u \in Threads : hand'[u] \notin held'[u]
      BY <1>0, <2>1, <2>2, <3>1 DEF OnePlace, TypeOK
    <3>4. \A q \in Requests : fate'[q] = IF q \in S THEN how ELSE fate[q]
      BY <2>3 DEF Settle
    <3>5. HandEmpty'
      BY <2>1 DEF HandEmpty, TypeOK
    <3> QED BY <2>3, <3>2, <3>3, <3>4, <3>5 DEF Settles
  <2> QED BY <2>4
<1>5. stopped \/ ~stopped
  OBVIOUS
<1> QED BY <1>1, <1>2, <1>3, <1>4, <1>5

(* A step that changes neither what is queued nor what is carried.          *)
LEMMA SamePlaces ==
  ASSUME Placed, deque' = deque, hand' = hand, held' = held, fate' = fate, HandEmpty'
  PROVE  Placed'
<1>1. \A t \in Threads : Carried(t)' = Carried(t)
  BY DEF Carried
<1> QED BY <1>1 DEF Placed, OnePlace

(* Every step keeps each request in one place.                              *)
LEMMA NextPlaced == Inv /\ Placed /\ [Next]_vars => Placed'
<1> SUFFICES ASSUME Inv, Placed, [Next]_vars PROVE Placed'
  OBVIOUS
<1> USE DEF Inv
<1>1. CASE UNCHANGED vars
  <2>1. HandEmpty'
    BY <1>1 DEF vars, Placed, HandEmpty
  <2> QED BY <1>1, <2>1, SamePlaces DEF vars
<1>2. ASSUME NEW r \in Requests, PushToken(r) PROVE Placed'
  <2>1. HandEmpty'
    BY <1>2 DEF PushToken, Placed, HandEmpty
  <2> QED BY <1>2, <2>1, SamePlaces DEF PushToken
<1>3. CASE StopPool \/ StopDeque \/ StopToken
  <2>1. HandEmpty'
    BY <1>3 DEF StopPool, StopDeque, StopToken, Placed, HandEmpty
  <2> QED BY <1>3, <2>1, SamePlaces DEF StopPool, StopDeque, StopToken
<1>4. ASSUME NEW t \in Threads, worker_routine(t) PROVE Placed'
  <2>1. NothingPopped(t) \notin {"check", "exec"}
    BY DEF NothingPopped
  <2>2. CASE TryWait(t) \/ PopWait(t)
    <3>1. HandEmpty'
      BY <2>1, <2>2 DEF TryWait, PopWait, Placed, HandEmpty, TypeOK
    <3> QED BY <2>2, <3>1, SamePlaces DEF TryWait, PopWait
  <2>3. CASE (TryLock(t) \/ PopLock(t)) /\ dstopped
    <3>1. HandEmpty'
      BY <2>1, <2>3 DEF TryLock, PopLock, Placed, HandEmpty, TypeOK
    <3> QED BY <2>3, <3>1, SamePlaces DEF TryLock, PopLock
  <2>4. CASE (TryLock(t) \/ PopLock(t)) /\ ~dstopped
    BY <2>4, TakePlaces DEF TryLock, PopLock
  <2>5. CASE CheckStopped(t) \/ Execute(t) \/ Drain(t)
    <3>1. deque' = deque
      BY <2>5 DEF CheckStopped, Execute, Drain
    <3>2. PICK S \in SUBSET Carried(t) : Settles(t, S)
      BY <2>5, WorkSettles
    <3> QED BY <3>1, <3>2, SettlePlaces DEF Settles
  <2>6. dstopped \/ ~dstopped
    OBVIOUS
  <2> QED BY <1>4, <2>2, <2>3, <2>4, <2>5, <2>6 DEF worker_routine
<1>5. CASE Joined
  BY <1>1, <1>5 DEF Joined
<1>6. ASSUME NEW r \in Requests, PushMessage(r) PROVE Placed'
  BY <1>6, PushPlaces
<1> QED BY <1>1, <1>2, <1>3, <1>4, <1>5, <1>6 DEF Next

(* Every request has its one place throughout every run of the pool.       *)
LEMMA PlacedInvariance == Spec => []Placed
<1>1. Init => Placed
  <2> SUFFICES ASSUME Init PROVE Placed
    OBVIOUS
  <2>1. \A t \in Threads : Carried(t) = {}
    BY DEF Init, Carried
  <2>2. Len(deque) = 0
    BY DEF Init
  <2> QED BY <2>1, <2>2 DEF Init, Placed, OnePlace, HandEmpty
<1> QED BY <1>1, NextPlaced, Invariance, PTL DEF Spec

(* No request is ever run by two threads, queued twice, or lost between the *)
(* deque and a worker.                                                      *)
THEOREM OnePlaceAlways == Spec => []OnePlace
BY PlacedInvariance, PTL DEF Placed

(* A settled request is never settled again, and only teardown drops or     *)
(* aborts one.                                                              *)
THEOREM FatesAreFinal == Spec => FateIsFinal
<1> DEFINE Final == \A r \in Requests :
        /\ fate[r] \in {"done", "aborted", "dropped"} => fate'[r] = fate[r]
        /\ fate'[r] \in {"aborted", "dropped"} /\ fate'[r] # fate[r] => stopped
<1>1. Inv /\ Placed /\ [Next]_vars => [Final]_vars
  <2> SUFFICES ASSUME Inv, Placed, Next PROVE Final
    BY DEF Final
  <2>1. CASE fate' = fate
    BY <2>1
  <2>2. ASSUME NEW r \in Requests, PushMessage(r) PROVE Final
    BY <2>2 DEF PushMessage, Inv, TypeOK
  <2>3. ASSUME NEW t \in Threads, CheckStopped(t) \/ Execute(t) \/ Drain(t) PROVE Final
    <3>1. PICK S \in SUBSET Carried(t) : Settles(t, S)
      BY <2>3, WorkSettles
    <3>2. \A q \in Requests : q \in S => fate[q] = "pool"
      BY DEF Placed, OnePlace
    <3> QED BY <3>1, <3>2 DEF Settles
  <2>4. fate' = fate \/ (\E r \in Requests : PushMessage(r))
        \/ (\E t \in Threads : CheckStopped(t) \/ Execute(t) \/ Drain(t))
    BY DEF Next, PushToken, StopPool, StopDeque, StopToken, worker_routine, TryWait,
           TryLock, PopWait, PopLock, Joined, vars
  <2> QED BY <2>1, <2>2, <2>3, <2>4
<1> QED BY <1>1, Invariance, PlacedInvariance, PTL DEF Spec, FateIsFinal
=============================================================================
