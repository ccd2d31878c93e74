------------------------ MODULE MmioSubmission_proofs ------------------------
(***************************************************************************)
(* Proofs about MmioSubmission for every buffer size, FIFO size and number *)
(* of turns of the loops: its invariants, and that it implements           *)
(* CommandStream.                                                          *)
(***************************************************************************)
EXTENDS MmioSubmission, SequenceTheorems, TLAPS

\* Flushed never passes Wptr, and outside of a started backend both are 0.
PointersOK ==
  /\ flushed <= wptr
  /\ ~active => flushed = 0 /\ wptr = 0 /\ pc = "idle"

\* What CSMMIORBBMStuff has left to do, the buffer holds and the FIFO takes.
BatchOK ==
  /\ entries <= wptr - flushed
  /\ entries + Len(fifo) <= FifoSize
  /\ entries > 0 => pc \in {"grab", "flush", "stop"}

\* A caller that got its Grab has room for what it still has to write.
RoomOK ==
  /\ pc \in {"idle", "mid", "flush", "stop"} => count = 0
  /\ pc = "write" /\ "grab" \notin ranOut => wptr + count <= Size
  /\ pc = "undefined" => "grab" \in ranOut

IInv == TypeOK /\ PointersOK /\ BatchOK /\ RoomOK

LEMMA InitInv == Init => IInv
<1> SUFFICES ASSUME Init PROVE IInv
  OBVIOUS
<1> USE SizeAssumption, MaxGrabAssumption, FifoAssumption, LoopAssumption
<1>1. fifo \in Seq(Nat) /\ Len(fifo) = 0
  BY DEF Init
<1>2. buffer \in [0 .. Size - 1 -> Nat]
  BY DEF Init
<1>3. ranOut \subseteq {"grab", "flush", "stop"}
  BY DEF Init
<1>4. /\ active = FALSE /\ pc = "idle"
      /\ count = 0 /\ tries = 0 /\ entries = 0 /\ flushed = 0 /\ wptr = 0
      /\ queued = 0 /\ executed = 0
  BY DEF Init
<1>5. TypeOK
  BY <1>1, <1>2, <1>3, <1>4 DEF TypeOK
<1>6. PointersOK /\ BatchOK /\ RoomOK
  BY <1>1, <1>4 DEF PointersOK, BatchOK, RoomOK
<1> QED
  BY <1>5, <1>6 DEF IInv

LEMMA NextInv == IInv /\ [Next]_vars => IInv'
<1> SUFFICES ASSUME IInv, [Next]_vars PROVE IInv'
  OBVIOUS
<1> USE SizeAssumption, MaxGrabAssumption, FifoAssumption, LoopAssumption
<1> USE DEF IInv, TypeOK, PointersOK, BatchOK, RoomOK, cs, loop, rbbm
<1>g. ASSUME NEW n \in 1 .. MaxGrab, Grab(n) PROVE IInv'
  BY <1>g DEF Grab
<1>1. CASE Start
  BY <1>1 DEF Start
<1>2. CASE Flush
  BY <1>2 DEF Flush, Drained
<1>3. CASE Stop
  BY <1>3 DEF Stop
<1>4. CASE Advance
  BY <1>4 DEF Advance, Drained
<1>5. CASE MoreScanlines
  BY <1>5 DEF MoreScanlines
<1>6. CASE GrabRoom
  BY <1>6 DEF GrabRoom, HasRoom
<1>7. CASE GrabRewind
  BY <1>7 DEF GrabRewind, HasRoom, Drained
<1>8. CASE GrabGiveUp
  BY <1>8 DEF GrabGiveUp
<1>9. CASE RegWrite
  <2>1. CASE wptr < Size
    <3>1. buffer' = [buffer EXCEPT ![wptr] = queued + 1] /\ queued + 1 \in Nat
      BY <1>9, <2>1 DEF RegWrite
    <3>2. buffer' \in [0 .. Size - 1 -> Nat]
      BY <3>1
    <3>3. /\ wptr' = wptr + 1 /\ wptr' \in 0 .. Size
          /\ count' = count - 1 /\ count' \in 0 .. MaxGrab
          /\ queued' \in Nat /\ pc = "write"
          /\ UNCHANGED <<active, pc, flushed, tries, entries, fifo, executed, ranOut>>
      BY <1>9, <2>1 DEF RegWrite
    <3>4. TypeOK'
      BY <3>2, <3>3
    <3>5. PointersOK' /\ BatchOK' /\ RoomOK'
      BY <3>3
    <3> QED
      BY <3>4, <3>5
  <2>2. CASE ~(wptr < Size)
    <3>1. "grab" \in ranOut
      BY <1>9, <2>2 DEF RegWrite
    <3>2. pc' = "undefined"
          /\ UNCHANGED <<active, count, buffer, flushed, wptr, tries, entries,
                         fifo, queued, executed, ranOut>>
      BY <1>9, <2>2 DEF RegWrite
    <3> QED
      BY <1>9, <3>1, <3>2 DEF RegWrite
  <2> QED
    BY <2>1, <2>2
<1>10. CASE StuffRead
  BY <1>10 DEF StuffRead, InLoop, HasRoom, Drained, RoomOrRest
<1>11. CASE StuffWrite
  BY <1>11 DEF StuffWrite
<1>12. CASE FlushDone
  BY <1>12 DEF FlushDone, Drained
<1>13. CASE FlushGiveUp
  BY <1>13 DEF FlushGiveUp
<1>14. CASE StopDone
  <2>1. ranOut' \subseteq {"grab", "flush", "stop"}
    BY <1>14 DEF StopDone
  <2>2. /\ pc = "stop" /\ pc' = "idle" /\ entries = 0
        /\ tries' = 0 /\ flushed' = 0 /\ wptr' = 0 /\ active' = FALSE
        /\ UNCHANGED <<buffer, count, entries, fifo, executed, queued>>
    BY <1>14 DEF StopDone
  <2>3. TypeOK'
    <3>1. 0 \in 0 .. LoopCount /\ 0 \in 0 .. Size /\ FALSE \in BOOLEAN
      OBVIOUS
    <3>2. TypeOK
      OBVIOUS
    <3> HIDE DEF IInv, PointersOK, BatchOK, RoomOK
    <3> QED
      BY <2>1, <2>2, <3>1, <3>2
  <2>4. PointersOK' /\ BatchOK' /\ RoomOK'
    BY <2>2
  <2> QED
    BY <2>3, <2>4
<1>15. CASE CardExecute
  BY <1>15 DEF CardExecute
<1>u. CASE UNCHANGED vars
  BY <1>u DEF vars
<1> QED
  BY <1>g, <1>1, <1>2, <1>3, <1>4, <1>5, <1>6, <1>7, <1>8, <1>9, <1>10, <1>11, <1>12, <1>13, <1>14, <1>15, <1>u DEF Next, Driver

LEMMA Invariance == Spec => []IInv
<1>1. Init => IInv
  BY InitInv
<1>2. IInv /\ [Next]_vars => IInv'
  BY NextInv
<1> QED
  BY <1>1, <1>2, PTL DEF Spec

\* Every variable keeps its type: the pointers of the buffer stay inside it,
\* whatever the calls and however slow the card.
THEOREM TypeCorrect == Spec => []TypeOK
<1>1. IInv => TypeOK
  BY DEF IInv
<1> QED
  BY <1>1, Invariance, PTL

\* CSMMIORBBMStuff never writes into a full FIFO.
THEOREM FifoSafe == Spec => []FifoNeverOverrun
<1>1. IInv => FifoNeverOverrun
  BY FifoAssumption DEF IInv, TypeOK, BatchOK, FifoNeverOverrun
<1> QED
  BY <1>1, Invariance, PTL

\* A caller writes past the buffer only after CSMMIOGrab gave up.
THEOREM OverrunSafe == Spec => []OverrunOnlyAfterGiveUp
<1>1. IInv => OverrunOnlyAfterGiveUp
  BY DEF IInv, RoomOK, OverrunOnlyAfterGiveUp
<1> QED
  BY <1>1, Invariance, PTL
-----------------------------------------------------------------------------
(***************************************************************************)
(* The refinement.  Init of MmioSubmission is Init of the stream, and each *)
(* step is a step of the stream or leaves it alone.                        *)
(***************************************************************************)
\* What UnderWay is, element by element.
IsUnderWay(u, f, b, from, to) ==
  /\ u \in Seq(Nat)
  /\ Len(u) = Len(f) + to - from
  /\ \A i \in 1 .. Len(f) : u[i] = f[i]
  /\ \A i \in Len(f) + 1 .. Len(f) + to - from :
       u[i] = b[from + i - Len(f) - 1]

LEMMA UnderWayFacts ==
  ASSUME NEW f \in Seq(Nat), NEW b \in [0 .. Size - 1 -> Nat],
         NEW from \in 0 .. Size, NEW to \in 0 .. Size, from <= to
  PROVE  IsUnderWay(UnderWay(f, b, from, to), f, b, from, to)
<1> DEFINE n == Len(f) + to - from
           e(i) == IF i <= Len(f) THEN f[i] ELSE b[from + i - Len(f) - 1]
           u == [i \in 1 .. n |-> e(i)]
<1>1. Len(f) \in Nat /\ n \in Nat /\ Len(f) <= n
  BY SizeAssumption
<1>2. ASSUME NEW i \in 1 .. n PROVE e(i) \in Nat
  BY <1>1, SizeAssumption
<1>3. UnderWay(f, b, from, to) = u
  BY DEF UnderWay
<1>4. \A i \in 1 .. Len(f) : i \in 1 .. n /\ e(i) = f[i]
  BY <1>1
<1>5. \A i \in Len(f) + 1 .. n : i \in 1 .. n /\ e(i) = b[from + i - Len(f) - 1]
  BY <1>1
<1> HIDE DEF n, e
<1>6. u \in Seq(Nat) /\ Len(u) = n
  BY <1>1, <1>2
<1>7. \A i \in 1 .. n : u[i] = e(i)
  OBVIOUS
<1> HIDE DEF u
<1>8. /\ \A i \in 1 .. Len(f) : u[i] = f[i]
      /\ \A i \in Len(f) + 1 .. n : u[i] = b[from + i - Len(f) - 1]
  BY <1>4, <1>5, <1>7
<1> QED
  BY <1>3, <1>6, <1>8 DEF n, IsUnderWay

\* A write at the end of the buffer's part appends.
LEMMA UnderWayAppend ==
  ASSUME NEW f \in Seq(Nat), NEW b \in [0 .. Size - 1 -> Nat], NEW w \in Nat,
         NEW from \in 0 .. Size, NEW to \in 0 .. Size - 1, from <= to
  PROVE  UnderWay(f, [b EXCEPT ![to] = w], from, to + 1)
           = Append(UnderWay(f, b, from, to), w)
<1> DEFINE c == [b EXCEPT ![to] = w]
           old == UnderWay(f, b, from, to)
           new == UnderWay(f, c, from, to + 1)
           n == Len(f) + to - from
<1>1. c \in [0 .. Size - 1 -> Nat] /\ c[to] = w
  BY SizeAssumption
<1>2. \A i \in 0 .. Size - 1 : i # to => c[i] = b[i]
  BY SizeAssumption
<1> HIDE DEF c
<1>3. /\ to + 1 \in 0 .. Size /\ to \in 0 .. Size /\ from <= to + 1
      /\ Len(f) \in Nat /\ n \in Nat /\ Len(f) <= n
      /\ Len(f) + (to + 1) - from = n + 1
  BY SizeAssumption
<1>4. /\ old \in Seq(Nat) /\ Len(old) = n
      /\ \A i \in 1 .. Len(f) : old[i] = f[i]
      /\ \A i \in Len(f) + 1 .. n : old[i] = b[from + i - Len(f) - 1]
  <2>1. to \in 0 .. Size
    BY <1>3
  <2> QED
    BY <2>1, UnderWayFacts DEF IsUnderWay
<1>5. /\ new \in Seq(Nat) /\ Len(new) = n + 1
      /\ \A i \in 1 .. Len(f) : new[i] = f[i]
      /\ \A i \in Len(f) + 1 .. n + 1 : new[i] = c[from + i - Len(f) - 1]
  <2> DEFINE last == to + 1
  <2>1. last \in 0 .. Size /\ from <= last /\ Len(f) + last - from = n + 1
    BY <1>3
  <2> HIDE DEF last
  <2>2. IsUnderWay(UnderWay(f, c, from, last), f, c, from, last)
    BY <1>1, <2>1, UnderWayFacts
  <2> HIDE DEF n
  <2> QED
    BY <2>1, <2>2 DEF last, IsUnderWay
<1> HIDE DEF old, new
<1>6. /\ Append(old, w) \in Seq(Nat) /\ Len(Append(old, w)) = n + 1
      /\ \A i \in 1 .. n : Append(old, w)[i] = old[i]
      /\ Append(old, w)[n + 1] = w
  <2>1. /\ Append(old, w) \in Seq(Nat) /\ Len(Append(old, w)) = Len(old) + 1
        /\ \A i \in 1 .. Len(old) : Append(old, w)[i] = old[i]
        /\ Append(old, w)[Len(old) + 1] = w
    BY <1>4, AppendProperties
  <2> QED
    BY <1>4, <2>1
<1>7. ASSUME NEW i \in 1 .. n PROVE new[i] = old[i]
  <2>1. CASE i <= Len(f)
    BY <1>3, <1>4, <1>5, <2>1
  <2>2. CASE i > Len(f)
    <3>1. from + i - Len(f) - 1 \in 0 .. Size - 1 /\ from + i - Len(f) - 1 # to
      BY <1>3, <2>2, SizeAssumption
    <3>2. i \in Len(f) + 1 .. n /\ i \in Len(f) + 1 .. n + 1
      BY <1>3, <2>2
    <3> QED
      BY <1>2, <1>4, <1>5, <3>1, <3>2
  <2> QED
    BY <1>3, <2>1, <2>2
<1>8. new[n + 1] = w
  <2>1. n + 1 \in Len(f) + 1 .. n + 1 /\ from + (n + 1) - Len(f) - 1 = to
    BY <1>3
  <2> QED
    BY <1>1, <1>5, <2>1
<1>9. \A i \in 1 .. n + 1 : new[i] = Append(old, w)[i]
  <2> HIDE DEF n
  <2> QED
    BY <1>3, <1>6, <1>7, <1>8
<1>10. new = Append(old, w)
  BY <1>5, <1>6, <1>9, SeqEqual
<1> QED
  BY <1>10 DEF c, old, new

\* Moving the oldest of the buffer to the end of the FIFO changes nothing.
LEMMA UnderWayMove ==
  ASSUME NEW f \in Seq(Nat), NEW b \in [0 .. Size - 1 -> Nat],
         NEW from \in 0 .. Size, NEW to \in 0 .. Size, from < to
  PROVE  UnderWay(Append(f, b[from]), b, from + 1, to) = UnderWay(f, b, from, to)
<1> DEFINE g == Append(f, b[from])
           next == from + 1
           old == UnderWay(f, b, from, to)
           new == UnderWay(g, b, next, to)
           n == Len(f) + to - from
<1>1. /\ next \in 0 .. Size /\ next <= to /\ next = from + 1 /\ b[from] \in Nat
      /\ from \in Nat /\ to \in Nat /\ Len(f) \in Nat /\ n \in Nat
  BY SizeAssumption
<1>2. /\ g \in Seq(Nat) /\ Len(g) = Len(f) + 1
      /\ \A i \in 1 .. Len(f) : g[i] = f[i]
      /\ g[Len(f) + 1] = b[from]
  <2>1. b[from] \in Nat
    BY <1>1
  <2> QED
    BY <2>1, AppendProperties
<1> HIDE DEF g, next
<1>3. /\ old \in Seq(Nat) /\ Len(old) = n
      /\ \A i \in 1 .. Len(f) : old[i] = f[i]
      /\ \A i \in Len(f) + 1 .. n : old[i] = b[from + i - Len(f) - 1]
  <2>1. from <= to
    BY <1>1
  <2> HIDE DEF n
  <2>2. IsUnderWay(UnderWay(f, b, from, to), f, b, from, to)
    BY <2>1, UnderWayFacts
  <2> QED
    BY <2>2 DEF n, IsUnderWay
<1>4. /\ new \in Seq(Nat) /\ Len(new) = Len(g) + to - next
      /\ \A i \in 1 .. Len(g) : new[i] = g[i]
      /\ \A i \in Len(g) + 1 .. Len(g) + to - next : new[i] = b[next + i - Len(g) - 1]
  <2>1. g \in Seq(Nat) /\ next \in 0 .. Size /\ next <= to
    BY <1>1, <1>2
  <2> HIDE DEF new
  <2>2. IsUnderWay(UnderWay(g, b, next, to), g, b, next, to)
    BY <2>1, UnderWayFacts
  <2> QED
    BY <2>2 DEF new, IsUnderWay
<1> HIDE DEF old, new
<1>5. Len(g) + to - next = n
  BY <1>1, <1>2
<1>6. ASSUME NEW i \in 1 .. n PROVE new[i] = old[i]
  <2>1. CASE i <= Len(f)
    <3>1. i \in 1 .. Len(f) /\ i \in 1 .. Len(g)
      BY <1>1, <1>2, <2>1
    <3> QED
      BY <1>2, <1>3, <1>4, <3>1
  <2>2. CASE i = Len(f) + 1
    <3>1. /\ i \in 1 .. Len(g) /\ i \in Len(f) + 1 .. n
          /\ from + i - Len(f) - 1 = from
      BY <1>1, <1>2, <2>2
    <3> QED
      BY <1>2, <1>3, <1>4, <2>2, <3>1
  <2>3. CASE i > Len(f) + 1
    <3>1. /\ i \in Len(g) + 1 .. n /\ i \in Len(f) + 1 .. n
          /\ from + i - Len(f) - 1 = next + i - Len(g) - 1
      BY <1>1, <1>2, <2>3
    <3> QED
      BY <1>3, <1>4, <1>5, <3>1
  <2> QED
    BY <1>1, <2>1, <2>2, <2>3
<1>7. new = old
  BY <1>3, <1>4, <1>5, <1>6, SeqEqual
<1> QED
  BY <1>7 DEF g, next, old, new

\* Taking the head of the FIFO takes the head of all.
LEMMA UnderWayTake ==
  ASSUME NEW f \in Seq(Nat), NEW b \in [0 .. Size - 1 -> Nat],
         NEW from \in 0 .. Size, NEW to \in 0 .. Size, from <= to, f # << >>
  PROVE  /\ UnderWay(f, b, from, to) # << >>
         /\ Head(UnderWay(f, b, from, to)) = Head(f)
         /\ Tail(UnderWay(f, b, from, to)) = UnderWay(Tail(f), b, from, to)
<1> DEFINE g == Tail(f)
           old == UnderWay(f, b, from, to)
           new == UnderWay(g, b, from, to)
           n == Len(f) + to - from
<1>1. /\ g \in Seq(Nat) /\ Len(g) = Len(f) - 1
      /\ \A i \in 1 .. Len(g) : g[i] = f[i + 1]
  BY HeadTailProperties
<1>2. /\ Len(f) \in Nat /\ Len(f) > 0 /\ n \in Nat /\ n > 0 /\ Len(f) <= n
      /\ from \in Nat /\ to \in Nat /\ Head(f) = f[1]
  <2>1. Len(f) \in Nat /\ Len(f) > 0
    OBVIOUS
  <2>2. Head(f) = f[1]
    OBVIOUS
  <2> QED
    BY <2>1, <2>2, SizeAssumption
<1> HIDE DEF g
<1>3. /\ old \in Seq(Nat) /\ Len(old) = n
      /\ \A i \in 1 .. Len(f) : old[i] = f[i]
      /\ \A i \in Len(f) + 1 .. n : old[i] = b[from + i - Len(f) - 1]
  BY UnderWayFacts DEF IsUnderWay
<1>4. /\ new \in Seq(Nat) /\ Len(new) = Len(g) + to - from
      /\ \A i \in 1 .. Len(g) : new[i] = g[i]
      /\ \A i \in Len(g) + 1 .. Len(g) + to - from : new[i] = b[from + i - Len(g) - 1]
  <2>1. g \in Seq(Nat)
    BY <1>1
  <2> HIDE DEF new
  <2>2. IsUnderWay(UnderWay(g, b, from, to), g, b, from, to)
    BY <2>1, UnderWayFacts
  <2> QED
    BY <2>2 DEF new, IsUnderWay
<1> HIDE DEF old, new
<1>5. Len(g) + to - from = n - 1
  BY <1>1, <1>2
<1> HIDE DEF n
<1>6. old # << >> /\ Head(old) = old[1]
  BY <1>2, <1>3
<1>7. /\ Tail(old) \in Seq(Nat) /\ Len(Tail(old)) = n - 1
      /\ \A i \in 1 .. n - 1 : Tail(old)[i] = old[i + 1]
  <2>1. /\ Tail(old) \in Seq(Nat) /\ Len(Tail(old)) = Len(old) - 1
        /\ \A i \in 1 .. Len(Tail(old)) : Tail(old)[i] = old[i + 1]
    BY <1>3, <1>6, HeadTailProperties
  <2> QED
    BY <1>3, <2>1
<1>8. ASSUME NEW i \in 1 .. n - 1 PROVE new[i] = old[i + 1]
  <2>1. CASE i <= Len(g)
    <3>1. i \in 1 .. Len(g) /\ i + 1 \in 1 .. Len(f)
      BY <1>1, <1>2, <2>1
    <3> QED
      BY <1>1, <1>3, <1>4, <3>1
  <2>2. CASE i > Len(g)
    <3>1. /\ i \in Len(g) + 1 .. n - 1 /\ i + 1 \in Len(f) + 1 .. n
          /\ from + (i + 1) - Len(f) - 1 = from + i - Len(g) - 1
      BY <1>1, <1>2, <2>2
    <3> QED
      BY <1>3, <1>4, <1>5, <3>1
  <2> QED
    BY <1>1, <1>2, <2>1, <2>2
<1>9. new = Tail(old)
  BY <1>4, <1>5, <1>7, <1>8, SeqEqual
<1>10. Head(old) = Head(f)
  BY <1>2, <1>3, <1>6
<1> QED
  BY <1>6, <1>9, <1>10 DEF g, old, new

\* Dropping the buffer's part leaves the FIFO's.
LEMMA UnderWayDrop ==
  ASSUME NEW f \in Seq(Nat), NEW b \in [0 .. Size - 1 -> Nat],
         NEW from \in 0 .. Size, NEW to \in 0 .. Size, from <= to
  PROVE  /\ UnderWay(f, b, 0, 0) = SubSeq(UnderWay(f, b, from, to), 1, Len(f))
         /\ from = to => UnderWay(f, b, 0, 0) = UnderWay(f, b, from, to)
         /\ Len(UnderWay(f, b, from, to)) \in Nat
         /\ Len(f) <= Len(UnderWay(f, b, from, to))
<1> DEFINE old == UnderWay(f, b, from, to)
           new == UnderWay(f, b, 0, 0)
           n == Len(f) + to - from
<1>1. Len(f) \in Nat /\ n \in Nat /\ Len(f) <= n /\ 0 \in 0 .. Size
      /\ (from = to => n = Len(f))
  BY SizeAssumption
<1>2. /\ old \in Seq(Nat) /\ Len(old) = n
      /\ \A i \in 1 .. Len(f) : old[i] = f[i]
  BY UnderWayFacts DEF IsUnderWay
<1>3. /\ new \in Seq(Nat) /\ Len(new) = Len(f) + 0 - 0
      /\ \A i \in 1 .. Len(f) : new[i] = f[i]
  <2>1. 0 \in 0 .. Size /\ 0 <= 0
    BY <1>1
  <2> QED
    BY <2>1, UnderWayFacts DEF IsUnderWay
<1> HIDE DEF old, new, n
<1> DEFINE kept == SubSeq(old, 1, Len(f))
<1>4. \A i \in 1 .. Len(f) : old[i] \in Nat
  BY <1>2
<1>5. /\ kept \in Seq(Nat) /\ Len(kept) = Len(f)
      /\ \A i \in 1 .. Len(f) : kept[i] = old[i]
  <2>1. /\ kept \in Seq(Nat)
        /\ Len(kept) = IF 1 <= Len(f) THEN Len(f) - 1 + 1 ELSE 0
        /\ \A i \in 1 .. Len(f) - 1 + 1 : kept[i] = old[1 + i - 1]
    BY <1>1, <1>4, SubSeqProperties
  <2> HIDE DEF kept
  <2>2. \A i \in 1 .. Len(f) : i \in 1 .. Len(f) - 1 + 1 /\ 1 + i - 1 = i
    BY <1>1
  <2> QED
    BY <1>1, <2>1, <2>2
<1> HIDE DEF kept
<1>6. new = kept
  <2>1. Len(new) = Len(f)
    BY <1>1, <1>3
  <2> QED
    BY <1>2, <1>3, <1>5, <2>1, SeqEqual
<1>7. from = to => new = old
  <2>1. Len(new) = Len(f)
    BY <1>1, <1>3
  <2> QED
    BY <1>1, <1>2, <1>3, <2>1, SeqEqual
<1> QED
  BY <1>1, <1>2, <1>6, <1>7 DEF old, new, kept

LEMMA InitRefines == Init => Stream!Init
<1> SUFFICES ASSUME Init PROVE Stream!Init
  OBVIOUS
<1>1. Pending = << >>
  <2>1. fifo \in Seq(Nat) /\ Len(fifo) = 0
    BY DEF Init
  <2>2. /\ buffer \in [0 .. Size - 1 -> Nat] /\ flushed = 0 /\ wptr = 0
        /\ flushed \in 0 .. Size /\ wptr \in 0 .. Size /\ flushed <= wptr
    BY SizeAssumption DEF Init
  <2>3. IsUnderWay(Pending, fifo, buffer, flushed, wptr)
    BY <2>1, <2>2, UnderWayFacts DEF Pending
  <2>4. Pending \in Seq(Nat) /\ Len(Pending) = 0
    BY <2>1, <2>2, <2>3 DEF IsUnderWay
  <2> QED
    BY <2>4, EmptySeq
<1> QED
  BY <1>1 DEF Init, Stream!Init, Lossy

\* The types and bounds the lemmas above ask for.
LEMMA Plain ==
  ASSUME IInv
  PROVE  /\ fifo \in Seq(Nat) /\ buffer \in [0 .. Size - 1 -> Nat]
         /\ flushed \in 0 .. Size /\ wptr \in 0 .. Size /\ flushed <= wptr
         /\ queued \in Nat
  BY DEF IInv, TypeOK, PointersOK

\* A register write into the buffer appends to the stream.
LEMMA RegWriteRefines ==
  ASSUME IInv, RegWrite, wptr < Size
  PROVE  Stream!Queue
<1>1. /\ buffer' = [buffer EXCEPT ![wptr] = queued + 1]
      /\ wptr' = wptr + 1 /\ queued' = queued + 1
      /\ UNCHANGED <<flushed, fifo, executed, ranOut>>
  BY DEF RegWrite, rbbm
<1>2. wptr \in 0 .. Size - 1 /\ queued + 1 \in Nat
  BY Plain, SizeAssumption
<1>3. Pending' = Append(Pending, queued + 1)
  BY <1>1, <1>2, Plain, UnderWayAppend DEF Pending
<1> QED
  BY <1>1, <1>3 DEF Stream!Queue, Lossy

\* A register write that goes from the buffer into the FIFO stays where it is
\* in the stream.
LEMMA StuffWriteRefines ==
  ASSUME IInv, StuffWrite
  PROVE  UNCHANGED Stream!vars
<1>1. /\ fifo' = Append(fifo, buffer[flushed]) /\ flushed' = flushed + 1
      /\ UNCHANGED <<buffer, wptr, queued, executed, ranOut>>
  BY DEF StuffWrite
<1>2. flushed < wptr
  BY SizeAssumption DEF IInv, TypeOK, BatchOK, StuffWrite
<1>3. Pending' = Pending
  BY <1>1, <1>2, Plain, UnderWayMove DEF Pending
<1> QED
  BY <1>1, <1>3 DEF Stream!vars, Lossy

\* What the card takes is the oldest of the stream.
LEMMA CardExecuteRefines ==
  ASSUME IInv, CardExecute
  PROVE  Stream!Execute
<1>1. /\ fifo # << >> /\ executed' = Head(fifo) /\ fifo' = Tail(fifo)
      /\ UNCHANGED <<buffer, flushed, wptr, queued, ranOut>>
  BY DEF CardExecute, cs
<1>2. /\ Pending # << >> /\ Head(Pending) = Head(fifo)
      /\ Pending' = Tail(Pending)
  <2>1. /\ fifo \in Seq(Nat) /\ buffer \in [0 .. Size - 1 -> Nat]
        /\ flushed \in 0 .. Size /\ wptr \in 0 .. Size /\ flushed <= wptr
    BY Plain
  <2>2. fifo # << >>
    BY <1>1
  <2>3. /\ UnderWay(fifo, buffer, flushed, wptr) # << >>
        /\ Head(UnderWay(fifo, buffer, flushed, wptr)) = Head(fifo)
        /\ Tail(UnderWay(fifo, buffer, flushed, wptr))
             = UnderWay(Tail(fifo), buffer, flushed, wptr)
    BY ONLY <2>1, <2>2, UnderWayTake
  <2>4. Pending' = UnderWay(Tail(fifo), buffer, flushed, wptr)
    BY <1>1, Zenon DEF Pending
  <2> QED
    BY ONLY <2>3, <2>4, Zenon DEF Pending
<1> QED
  BY <1>1, <1>2 DEF Stream!Execute, Lossy

\* A stop that gave up throws the buffer away and keeps the FIFO.
LEMMA StopDoneRefines ==
  ASSUME IInv, StopDone
  PROVE  Stream!Lose \/ UNCHANGED Stream!vars
<1>1. flushed' = 0 /\ wptr' = 0 /\ UNCHANGED <<buffer, fifo, queued, executed>>
  BY DEF StopDone, rbbm
<1>2. /\ Pending' = SubSeq(Pending, 1, Len(fifo))
      /\ Drained => Pending' = Pending
      /\ Len(Pending) \in Nat /\ Len(fifo) <= Len(Pending)
  BY <1>1, Plain, UnderWayDrop DEF Pending, Drained
<1>3. CASE Drained
  BY <1>1, <1>2, <1>3 DEF StopDone, Stream!vars, Lossy
<1>4. CASE ~Drained
  <2>1. Lossy'
    BY <1>4 DEF StopDone, Lossy
  <2>2. 1 \in 1 .. Len(Pending) + 1 /\ Len(fifo) \in 0 .. Len(Pending)
    BY <1>2, Plain
  <2> QED
    BY <1>1, <1>2, <2>1, <2>2 DEF Stream!Lose
<1> QED
  BY <1>3, <1>4

\* The rewind of CSMMIOGrab moves pointers between which there is nothing.
LEMMA RewindRefines ==
  ASSUME IInv, GrabRewind
  PROVE  UNCHANGED Stream!vars
<1>1. /\ flushed = wptr /\ flushed' = 0 /\ wptr' = 0
      /\ UNCHANGED <<buffer, fifo, queued, executed, ranOut>>
  BY DEF GrabRewind, Drained, rbbm
<1>2. Pending' = Pending
  BY <1>1, Plain, UnderWayDrop DEF Pending
<1> QED
  BY <1>1, <1>2 DEF Stream!vars, Lossy

LEMMA NextRefines ==
  IInv /\ [Next]_vars => [Stream!Next]_(Stream!vars)
<1> SUFFICES ASSUME IInv, [Next]_vars PROVE Stream!Next \/ UNCHANGED Stream!vars
  OBVIOUS
<1>1. CASE RegWrite
  <2>1. CASE wptr < Size
    BY <1>1, <2>1, RegWriteRefines DEF Stream!Next
  <2>2. CASE ~(wptr < Size)
    BY <1>1, <2>2 DEF RegWrite, rbbm, Pending, Lossy, Stream!vars
  <2> QED
    BY <2>1, <2>2
<1>2. CASE StuffWrite
  BY <1>2, StuffWriteRefines
<1>3. CASE CardExecute
  BY <1>3, CardExecuteRefines DEF Stream!Next
<1>4. CASE StopDone
  BY <1>4, StopDoneRefines DEF Stream!Next
<1>5. CASE GrabRewind
  BY <1>5, RewindRefines
<1>6. CASE Start
  <2>1. UNCHANGED <<buffer, flushed, wptr, fifo, executed, queued, ranOut>>
    BY <1>6 DEF Start, rbbm, IInv, PointersOK
  <2> QED
    BY <2>1 DEF Pending, Lossy, Stream!vars
<1>7. CASE GrabGiveUp \/ FlushGiveUp
  <2>1. UNCHANGED <<buffer, flushed, wptr, fifo, executed, queued, Lossy>>
    BY <1>7 DEF GrabGiveUp, FlushGiveUp, cs, rbbm, Lossy
  <2> QED
    BY <2>1 DEF Pending, Stream!vars
<1>8. CASE \/ Flush \/ Stop \/ Advance \/ MoreScanlines
           \/ GrabRoom \/ StuffRead \/ FlushDone \/ UNCHANGED vars
           \/ \E n \in 1 .. MaxGrab : Grab(n)
  <2>1. UNCHANGED <<buffer, flushed, wptr, fifo, executed, queued, ranOut>>
    BY <1>8 DEF Flush, Stop, Advance, MoreScanlines, GrabRoom, StuffRead,
                FlushDone, Grab, cs, rbbm, vars
  <2> QED
    BY <2>1 DEF Pending, Lossy, Stream!vars
<1> QED
  BY <1>1, <1>2, <1>3, <1>4, <1>5, <1>6, <1>7, <1>8 DEF Next, Driver

\* The MMIO backend is a command stream: the card gets every register write
\* once and in the order of the calls, and only a RHDCSStop that gave up on
\* the card loses any.
THEOREM Refinement == Spec => ImplementsStream
<1>1. Init => Stream!Init
  BY InitRefines
<1>2. IInv /\ [Next]_vars => [Stream!Next]_(Stream!vars)
  BY NextRefines
<1> QED
  BY <1>1, <1>2, Invariance, PTL DEF Spec, Stream!Spec, ImplementsStream
=============================================================================
