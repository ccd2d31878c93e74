------------------------ MODULE CommandStream_proofs ------------------------
(***************************************************************************)
(* What follows from the command stream's promise, and so holds of every   *)
(* backend that is shown to implement it.                                  *)
(***************************************************************************)
EXTENDS CommandStream, SequenceTheorems, TLAPS

StreamType ==
  /\ queued \in Nat /\ executed \in Nat /\ executed <= queued
  /\ pending \in Seq(Nat) /\ lossy \in BOOLEAN

IInv == StreamType /\ InOrder /\ NothingLost

LEMMA InitIInv == Init => IInv
<1> SUFFICES ASSUME Init PROVE IInv
  OBVIOUS
<1>1. pending \in Seq(Nat) /\ Len(pending) = 0 /\ DOMAIN pending = {}
  BY EmptySeq DEF Init
<1>2. queued = 0 /\ executed = 0 /\ lossy = FALSE
  BY DEF Init
<1>3. StreamType
  <2>1. lossy \in BOOLEAN
    BY <1>2
  <2> QED
    BY <1>1, <1>2, <2>1 DEF StreamType
<1>4. InOrder /\ NothingLost
  BY <1>1, <1>2 DEF InOrder, NothingLost
<1> QED
  BY <1>3, <1>4 DEF IInv

LEMMA QueueIInv == IInv /\ Queue => IInv'
<1> SUFFICES ASSUME IInv, Queue PROVE IInv'
  OBVIOUS
<1> DEFINE n == Len(pending)
<1>0. /\ queued \in Nat /\ executed \in Nat /\ executed <= queued
      /\ pending \in Seq(Nat) /\ lossy \in BOOLEAN
      /\ n \in Nat /\ DOMAIN pending = 1 .. n
  BY DEF IInv, StreamType
<1>1. /\ queued' = queued + 1 /\ executed' = executed /\ lossy' = lossy
      /\ pending' = Append(pending, queued + 1)
  BY DEF Queue
<1>2. /\ pending' \in Seq(Nat) /\ Len(pending') = n + 1
      /\ DOMAIN pending' = 1 .. n + 1 /\ pending'[n + 1] = queued + 1
      /\ \A i \in 1 .. n : pending'[i] = pending[i]
  BY <1>0, <1>1, AppendProperties
<1> HIDE DEF n
<1>3. \A i \in 1 .. n : executed < pending[i] /\ pending[i] <= queued /\ pending[i] \in Nat
  BY <1>0 DEF IInv, InOrder, n
<1>4. \A i, j \in 1 .. n : i < j => pending[i] < pending[j]
  BY <1>0 DEF IInv, InOrder
<1>5. StreamType'
  BY <1>0, <1>1, <1>2 DEF StreamType
<1>6. InOrder'
  <2>1. ASSUME NEW i \in 1 .. n + 1
        PROVE  executed' < pending'[i] /\ pending'[i] <= queued'
    BY <1>0, <1>1, <1>2, <1>3
  <2>2. ASSUME NEW i \in 1 .. n + 1, NEW j \in 1 .. n + 1, i < j
        PROVE  pending'[i] < pending'[j]
    <3>1. i \in 1 .. n
      BY <1>0, <2>2
    <3>2. CASE j = n + 1
      BY <1>0, <1>2, <1>3, <3>1, <3>2
    <3>3. CASE j \in 1 .. n
      BY <1>2, <1>4, <2>2, <3>1, <3>3
    <3> QED
      BY <1>0, <3>2, <3>3
  <2> QED
    BY <1>2, <2>1, <2>2 DEF InOrder
<1>7. NothingLost'
  <2>1. SUFFICES ASSUME ~lossy'
                 PROVE  /\ Len(pending') = queued' - executed'
                        /\ \A i \in DOMAIN pending' : pending'[i] = executed' + i
    BY DEF NothingLost
  <2>2. n = queued - executed /\ \A i \in 1 .. n : pending[i] = executed + i
    BY <1>0, <1>1, <2>1 DEF IInv, NothingLost, n
  <2> QED
    BY <1>0, <1>1, <1>2, <2>2
<1> QED
  BY <1>5, <1>6, <1>7 DEF IInv

LEMMA ExecuteIInv == IInv /\ Execute => IInv'
<1> SUFFICES ASSUME IInv, Execute PROVE IInv'
  OBVIOUS
<1> DEFINE n == Len(pending)
<1>0. /\ queued \in Nat /\ executed \in Nat /\ executed <= queued
      /\ pending \in Seq(Nat) /\ lossy \in BOOLEAN
      /\ n \in Nat /\ n > 0 /\ DOMAIN pending = 1 .. n
  BY DEF IInv, StreamType, Execute
<1>1. /\ queued' = queued /\ executed' = pending[1] /\ lossy' = lossy
      /\ pending' = Tail(pending)
  BY <1>0 DEF Execute
<1>2. /\ pending' \in Seq(Nat) /\ Len(pending') = n - 1
      /\ DOMAIN pending' = 1 .. n - 1
      /\ \A i \in 1 .. n - 1 : pending'[i] = pending[i + 1]
  BY <1>0, <1>1
<1> HIDE DEF n
<1>3. \A i \in 1 .. n : executed < pending[i] /\ pending[i] <= queued
  BY <1>0 DEF IInv, InOrder
<1>t. \A i \in 1 .. n : pending[i] \in Nat
  BY <1>0
<1>4. \A i, j \in 1 .. n : i < j => pending[i] < pending[j]
  BY <1>0 DEF IInv, InOrder
<1>5. StreamType'
  BY <1>0, <1>1, <1>2, <1>3, <1>t DEF StreamType
<1>6. InOrder'
  <2>1. ASSUME NEW i \in 1 .. n - 1
        PROVE  executed' < pending'[i] /\ pending'[i] <= queued'
    <3>1. 1 \in 1 .. n /\ i + 1 \in 1 .. n /\ 1 < i + 1
      BY <1>0
    <3> QED
      BY <1>1, <1>2, <1>3, <1>4, <3>1
  <2>2. ASSUME NEW i \in 1 .. n - 1, NEW j \in 1 .. n - 1, i < j
        PROVE  pending'[i] < pending'[j]
    <3>1. i + 1 \in 1 .. n /\ j + 1 \in 1 .. n /\ i + 1 < j + 1
      BY <1>0, <2>2
    <3> QED
      BY <1>2, <1>4, <3>1
  <2> QED
    BY <1>2, <2>1, <2>2 DEF InOrder
<1>7. NothingLost'
  <2>1. SUFFICES ASSUME ~lossy'
                 PROVE  /\ Len(pending') = queued' - executed'
                        /\ \A i \in DOMAIN pending' : pending'[i] = executed' + i
    BY DEF NothingLost
  <2>2. n = queued - executed /\ \A i \in 1 .. n : pending[i] = executed + i
    BY <1>0, <1>1, <2>1 DEF IInv, NothingLost, n
  <2>3. 1 \in 1 .. n /\ executed' = executed + 1
    BY <1>0, <1>1, <2>2
  <2>4. \A i \in 1 .. n - 1 : pending'[i] = executed + (i + 1)
    BY <1>0, <1>2, <2>2
  <2>5. Len(pending') = queued' - executed'
    BY <1>0, <1>1, <1>2, <2>2, <2>3
  <2>6. \A i \in 1 .. n - 1 : pending'[i] = executed' + i
    <3>1. SUFFICES ASSUME NEW i \in 1 .. n - 1 PROVE pending'[i] = executed' + i
      OBVIOUS
    <3>2. pending'[i] = executed + (i + 1)
      BY <2>4
    <3>3. executed + (i + 1) = (executed + 1) + i
      BY <1>0
    <3> QED
      BY <2>3, <3>2, <3>3
  <2> QED
    BY <1>2, <2>5, <2>6
<1> QED
  BY <1>5, <1>6, <1>7 DEF IInv

LEMMA LoseIInv == IInv /\ Lose => IInv'
<1> SUFFICES ASSUME IInv, Lose PROVE IInv'
  OBVIOUS
<1> DEFINE n == Len(pending)
<1>0. /\ queued \in Nat /\ executed \in Nat /\ executed <= queued
      /\ pending \in Seq(Nat) /\ n \in Nat /\ DOMAIN pending = 1 .. n
  BY DEF IInv, StreamType
<1>1. /\ queued' = queued /\ executed' = executed /\ lossy' = TRUE
  BY DEF Lose
<1>2. PICK i \in 1 .. n + 1, j \in 0 .. n : pending' = SubSeq(pending, i, j)
  BY DEF Lose
<1> DEFINE m == IF i <= j THEN j - i + 1 ELSE 0
<1>m. /\ m \in Nat /\ i \in Nat /\ j \in Nat
      /\ \A k \in 1 .. m : k + i - 1 \in 1 .. n
  BY <1>0
<1>3. /\ pending' \in Seq(Nat) /\ Len(pending') = m
      /\ \A k \in 1 .. m : pending'[k] = pending[k + i - 1]
  <2>1. \A k \in i .. j : pending[k] \in Nat
    BY <1>0
  <2>2. \A k \in 1 .. m : pending[i + k - 1] = pending[k + i - 1]
    BY <1>m
  <2> QED
    BY <1>0, <1>2, <1>m, <2>1, <2>2, SubSeqProperties
<1>4. DOMAIN pending' = 1 .. m
  BY <1>3
<1> HIDE DEF m, n
<1>5. \A k \in 1 .. n : executed < pending[k] /\ pending[k] <= queued
  BY <1>0 DEF IInv, InOrder
<1>6. \A k, l \in 1 .. n : k < l => pending[k] < pending[l]
  BY <1>0 DEF IInv, InOrder
<1>7. InOrder'
  <2>1. ASSUME NEW k \in 1 .. m
        PROVE  executed' < pending'[k] /\ pending'[k] <= queued'
    BY <1>1, <1>3, <1>5, <1>m
  <2>2. ASSUME NEW k \in 1 .. m, NEW l \in 1 .. m, k < l
        PROVE  pending'[k] < pending'[l]
    <3>1. /\ k + i - 1 \in 1 .. n /\ l + i - 1 \in 1 .. n
          /\ k + i - 1 < l + i - 1
      BY <1>m, <2>2
    <3> QED
      BY <1>3, <1>6, <3>1
  <2> QED
    BY <1>4, <2>1, <2>2 DEF InOrder
<1> QED
  BY <1>0, <1>1, <1>3, <1>7 DEF IInv, StreamType, NothingLost

LEMMA Invariance == Spec => []IInv
<1>1. IInv /\ UNCHANGED vars => IInv'
  BY DEF IInv, StreamType, InOrder, NothingLost, vars
<1>2. IInv /\ [Next]_vars => IInv'
  BY <1>1, QueueIInv, ExecuteIInv, LoseIInv DEF Next
<1> QED
  BY <1>2, InitIInv, PTL DEF Spec

\* Whatever a backend gives up, the card never sees an item twice or after a
\* younger one.
THEOREM OrderKept == Spec => []InOrder
<1>1. IInv => InOrder
  BY DEF IInv
<1> QED
  BY <1>1, Invariance, PTL

\* A backend that gave nothing up has every item executed or under way.
THEOREM NothingMissing == Spec => []NothingLost
<1>1. IInv => NothingLost
  BY DEF IInv
<1> QED
  BY <1>1, Invariance, PTL
=============================================================================
