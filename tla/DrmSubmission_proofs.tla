------------------------ MODULE DrmSubmission_proofs ------------------------
(***************************************************************************)
(* Proofs about DrmSubmission for every pool of buffers, buffer size and   *)
(* number of turns of the loops.                                           *)
(***************************************************************************)
EXTENDS DrmSubmission, SequenceTheorems, FunctionTheorems, FiniteSetTheorems, TLAPS

\* Which buffer the server has in each phase of a call, and what the phase
\* returns to.
PhaseOK ==
  /\ pc \in {"write", "flush", "discard", "wait"} => active
  /\ active /\ pc # "segv" =>
       (slot = NoBuffer <=> (pc = "stop" \/ (pc = "get" /\ after = "grab")))
  /\ ~active => slot = NoBuffer /\ pc \in {"idle", "get", "segv"}
  /\ pc = "flush" => after \in {"idle", "wait"}
  /\ pc = "discard" => after \in {"grab", "stop"}
  /\ pc = "get" => after \in {"start", "grab", "hold"}
  /\ pc = "get" /\ after = "hold" => active
  /\ pc = "get" /\ after = "start" => ~active

\* The pointers are in order, and a Grab has room for what is not yet written.
PointersOK ==
  /\ flushed <= wptr
  /\ pc = "write" => count > 0 /\ wptr + count <= Size
  /\ pc \in {"discard", "get"} /\ after = "grab" => count > 0
  /\ Aligned

RingOK == \A i \in DOMAIN ring : ring[i].from <= ring[i].to

IInv ==
  /\ TypeOK /\ PhaseOK /\ PointersOK /\ PaddingFits /\ RingOK
  /\ BuffersConserved /\ SubmittedUntouched

LEMMA EvenUnit ==
  ASSUME NEW n \in Nat, n % Align = 0, n % 2 = 1
  PROVE  (n + 1) % 2 = 0 /\ (n + 1) % Align = 0
<1>1. CASE Align = 1
  BY <1>1
<1>2. CASE Align = 2
  BY <1>2
<1>3. CASE Align = 4
  BY <1>3
<1>4. CASE Align = 8
  BY <1>4
<1>5. CASE Align = 16
  BY <1>5
<1> QED
  BY <1>1, <1>2, <1>3, <1>4, <1>5, AlignAssumption

LEMMA DiscardedAppend ==
  ASSUME NEW r \in Seq(Submissions), NEW s \in Submissions
  PROVE  Discarded(Append(r, s)) =
           Discarded(r) \union IF s.discard THEN {s.buf} ELSE {}
<1> DEFINE q == Append(r, s)
<1>1. /\ Len(r) \in Nat /\ DOMAIN r = 1 .. Len(r) /\ DOMAIN q = 1 .. Len(r) + 1
      /\ q[Len(r) + 1] = s
  OBVIOUS
<1>2. \A i \in 1 .. Len(r) : q[i] = r[i]
  OBVIOUS
<1> HIDE DEF q
<1>3. \A i \in DOMAIN q : i \in DOMAIN r \/ i = Len(r) + 1
  BY <1>1
<1>4. \A i \in DOMAIN r : i \in DOMAIN q /\ q[i] = r[i]
  BY <1>1, <1>2
<1>5. Len(r) + 1 \in DOMAIN q
  BY <1>1
<1>6. Discarded(q) = Discarded(r) \union IF s.discard THEN {s.buf} ELSE {}
  BY <1>1, <1>3, <1>4, <1>5 DEF Discarded
<1> QED
  BY <1>6 DEF q

LEMMA DiscardedTail ==
  ASSUME NEW r \in Seq(Submissions), r # << >>
  PROVE  Discarded(r) =
           Discarded(Tail(r)) \union IF r[1].discard THEN {r[1].buf} ELSE {}
<1> DEFINE q == Tail(r)
<1>1. /\ Len(r) \in Nat /\ Len(r) > 0 /\ DOMAIN r = 1 .. Len(r)
      /\ DOMAIN q = 1 .. Len(r) - 1
  OBVIOUS
<1>2. \A i \in 1 .. Len(r) - 1 : q[i] = r[i + 1]
  OBVIOUS
<1> HIDE DEF q
<1>3. \A i \in DOMAIN q : i + 1 \in DOMAIN r /\ q[i] = r[i + 1]
  BY <1>1, <1>2
<1>4. \A i \in DOMAIN r : i = 1 \/ (i - 1 \in DOMAIN q /\ q[i - 1] = r[i])
  BY <1>1, <1>2
<1>5. 1 \in DOMAIN r
  BY <1>1
<1>6. Discarded(r) = Discarded(q) \union IF r[1].discard THEN {r[1].buf} ELSE {}
  BY <1>3, <1>4, <1>5 DEF Discarded
<1> QED
  BY <1>6 DEF q

LEMMA PhaseStep ==
  ASSUME TypeOK, PhaseOK, PointersOK, [Next]_vars
  PROVE  PhaseOK'
<1> USE DEF PhaseOK
<1>0. /\ slot \in Buffers \union {NoBuffer} /\ NoBuffer \notin Buffers
      /\ free \subseteq Buffers /\ held \subseteq Buffers /\ count \in Nat
  BY BufferAssumption, GrabAssumption DEF TypeOK
<1>1. CASE Start \/ Stop \/ IndirectBufferGet \/ Reset
  BY <1>0, <1>1 DEF Start, Stop, IndirectBufferGet, Reset, cs, call
<1>g. ASSUME NEW n \in 1 .. MaxGrab, Grab(n) PROVE PhaseOK'
  BY <1>0, <1>g DEF Grab, cs
<1>f. ASSUME NEW next \in {"idle", "wait"}, Flush(next) PROVE PhaseOK'
  BY <1>0, <1>f DEF Flush, cs
<1>2. CASE \E b \in held : IndirectBufferDiscard(b)
  BY <1>0, <1>2 DEF IndirectBufferDiscard, cs, call
<1>3. CASE Write
  BY <1>0, <1>3 DEF Write
<1>4. CASE Pad
  BY <1>0, <1>4 DEF Pad
<1>5. CASE FlushSubmit \/ DiscardSubmit
  BY <1>0, <1>5 DEF FlushSubmit, DiscardSubmit
<1>6. CASE GetGranted
  BY <1>0, <1>6 DEF GetGranted, cs
<1>7. CASE GetBusy \/ GetGiveUp \/ StopBusy
  BY <1>0, <1>7 DEF GetBusy, GetGiveUp, StopBusy, cs
<1>8. CASE StopIdle \/ StopError \/ StopNow
  BY <1>0, <1>8 DEF StopIdle, StopError, StopNow, StopReturns
<1>9. CASE IdleBusy \/ IdleDone \/ IdleFailed \/ CpExecute \/ CpRetire
  BY <1>0, <1>9 DEF IdleBusy, IdleDone, IdleFailed, CpExecute, CpRetire, cs, call
<1>10. CASE UNCHANGED vars
  BY <1>10 DEF vars
<1> QED
  BY <1>g, <1>f, <1>1, <1>2, <1>3, <1>4, <1>5, <1>6, <1>7, <1>8, <1>9, <1>10
     DEF Next, Server

LEMMA PointersStep ==
  ASSUME TypeOK, PhaseOK, PointersOK, [Next]_vars
  PROVE  PointersOK'
<1> USE DEF PointersOK, Aligned
<1>0. /\ flushed \in Nat /\ wptr \in Nat /\ count \in Nat /\ Size \in Nat
      /\ MaxGrab \in Nat /\ MaxGrab <= Size /\ Align \in Nat \ {0}
      /\ 0 % 2 = 0 /\ 0 % Align = 0
  BY SizeAssumption, AlignAssumption, GrabAssumption DEF TypeOK
<1>1. CASE Start \/ Stop \/ IndirectBufferGet \/ Reset
  BY <1>0, <1>1 DEF Start, Stop, IndirectBufferGet, Reset, cs, call
<1>2. CASE \E n \in 1 .. MaxGrab : Grab(n)
  BY <1>0, <1>2 DEF Grab, cs
<1>3. CASE \/ \E next \in {"idle", "wait"} : Flush(next)
           \/ \E b \in held : IndirectBufferDiscard(b)
  BY <1>0, <1>3 DEF Flush, IndirectBufferDiscard, cs, call
<1>4. CASE Write
  BY <1>0, <1>4 DEF Write
<1>5. CASE Pad
  <2>1. /\ flushed' = flushed /\ count' = count /\ after' = after
        /\ pc \in {"flush", "discard"} /\ (pc' = pc \/ pc' = "recursing")
        /\ (wptr' = wptr \/ wptr' = wptr + 1)
    BY <1>5 DEF Pad
  <2> QED
    BY <1>0, <2>1
<1>6. CASE FlushSubmit
  <2>1. /\ wptr' = IF wptr % 2 = 1 THEN wptr + 1 ELSE wptr
        /\ flushed' = wptr' /\ wptr % Align = 0 /\ wptr \in Nat
        /\ pc' \in {"idle", "wait"}
    BY <1>0, <1>6 DEF FlushSubmit, Padded, PhaseOK
  <2>2. wptr' \in Nat /\ wptr' % 2 = 0 /\ wptr' % Align = 0
    BY <2>1, EvenUnit
  <2> QED
    BY <2>1, <2>2
<1>7. CASE DiscardSubmit
  BY <1>0, <1>7 DEF DiscardSubmit
<1>8. CASE GetGranted
  <2>1. /\ pc = "get" /\ count' = count /\ pc' \in {"write", "idle"}
        /\ pc' = "write" => after = "grab"
        /\ \/ pc' = "idle" /\ flushed' = flushed /\ wptr' = wptr
           \/ flushed' = 0 /\ wptr' = 0
    BY <1>8 DEF GetGranted, cs
  <2>2. count <= Size
    BY GrabAssumption, SizeAssumption DEF TypeOK
  <2> QED
    BY <1>0, <2>1, <2>2
<1>9. CASE GetBusy \/ GetGiveUp \/ StopBusy
  BY <1>0, <1>9 DEF GetBusy, GetGiveUp, StopBusy, cs
<1>10. CASE StopIdle \/ StopError \/ StopNow
  BY <1>0, <1>10 DEF StopIdle, StopError, StopNow, StopReturns
<1>11. CASE IdleBusy \/ IdleDone \/ IdleFailed \/ CpExecute \/ CpRetire
  BY <1>0, <1>11 DEF IdleBusy, IdleDone, IdleFailed, CpExecute, CpRetire, cs, call
<1>12. CASE UNCHANGED vars
  BY <1>12 DEF vars
<1> QED
  BY <1>1, <1>2, <1>3, <1>4, <1>5, <1>6, <1>7, <1>8, <1>9, <1>10, <1>11, <1>12
     DEF Next, Server

\* The room a padding loop needs is there: Size is a multiple of Align, so a
\* full buffer is padded.
LEMMA PaddingStep ==
  ASSUME TypeOK, PhaseOK, PaddingFits, [Next]_vars
  PROVE  PaddingFits'
<1> USE DEF PaddingFits
<1>1. CASE Start \/ Stop \/ IndirectBufferGet \/ Reset \/ Write
  BY <1>1 DEF Start, Stop, IndirectBufferGet, Reset, call, Write
<1>2. CASE \/ \E n \in 1 .. MaxGrab : Grab(n)
           \/ \E next \in {"idle", "wait"} : Flush(next)
           \/ \E b \in held : IndirectBufferDiscard(b)
  BY <1>2 DEF Grab, Flush, IndirectBufferDiscard, call
<1>3. CASE Pad
  <2>1. /\ wptr % Align # 0 /\ Size % Align = 0 /\ wptr \in 0 .. Size
        /\ Size \in Nat
    BY <1>3, SizeAssumption, AlignAssumption DEF Pad, Padded, TypeOK
  <2>2. Size - wptr >= 1
    BY <2>1
  <2> QED
    BY <1>3, <2>1, <2>2 DEF Pad
<1>4. CASE FlushSubmit \/ DiscardSubmit \/ GetGranted \/ GetBusy \/ GetGiveUp
  BY <1>4 DEF FlushSubmit, DiscardSubmit, GetGranted, GetBusy, GetGiveUp, PhaseOK
<1>5. CASE StopBusy \/ StopIdle \/ StopError \/ StopNow
  BY <1>5 DEF StopBusy, StopIdle, StopError, StopNow, StopReturns
<1>6. CASE IdleBusy \/ IdleDone \/ IdleFailed \/ CpExecute \/ CpRetire
  BY <1>6 DEF IdleBusy, IdleDone, IdleFailed, CpExecute, CpRetire, call
<1>7. CASE UNCHANGED vars
  BY <1>7 DEF vars
<1> QED
  BY <1>1, <1>2, <1>3, <1>4, <1>5, <1>6, <1>7 DEF Next, Server

\* What a step can do to the ring: nothing, queue a submission, drop them all,
\* execute a word of the oldest submission, or retire it.
Queued(s) == s.from <= s.to /\ ring' = Append(ring, s)

LEMMA RingMoves ==
  ASSUME TypeOK, PhaseOK, PointersOK, [Next]_vars
  PROVE  \/ ring' = ring
         \/ \E s \in Submissions : Queued(s)
         \/ ring' = << >>
         \/ /\ ring # << >> /\ ring[1].from < ring[1].to
            /\ ring' = [ring EXCEPT ![1].from = ring[1].from + 1]
         \/ ring # << >> /\ ring' = Tail(ring)
<1> DEFINE Goal ==
         \/ ring' = ring
         \/ \E s \in Submissions : Queued(s)
         \/ ring' = << >>
         \/ /\ ring # << >> /\ ring[1].from < ring[1].to
            /\ ring' = [ring EXCEPT ![1].from = ring[1].from + 1]
         \/ ring # << >> /\ ring' = Tail(ring)
<1> SUFFICES Goal
  OBVIOUS
<1> HIDE DEF Goal
<1>a. ASSUME NEW b \in Buffers, NEW from \in 0 .. Size, NEW to \in 0 .. Size,
             NEW d \in BOOLEAN, from <= to,
             ring' = Append(ring, Submission(b, from, to, d))
      PROVE  Goal
  <2>1. Submission(b, from, to, d) \in Submissions
    BY DEF Submission, Submissions
  <2>2. Queued(Submission(b, from, to, d))
    BY <1>a DEF Queued, Submission
  <2> QED
    BY <2>1, <2>2 DEF Goal
<1>d. ASSUME NEW b \in held, IndirectBufferDiscard(b) PROVE Goal
  <2>1. /\ ring' = Append(ring, Submission(b, 0, 1, TRUE)) /\ b \in Buffers
        /\ 0 \in 0 .. Size /\ 1 \in 0 .. Size /\ 0 <= 1 /\ TRUE \in BOOLEAN
    BY <1>d, SizeAssumption DEF IndirectBufferDiscard, TypeOK
  <2> QED
    BY <2>1, <1>a
<1>1. CASE FlushSubmit
  <2>1. /\ ring' = Append(ring, Submission(slot, flushed, wptr, FALSE))
        /\ slot \in Buffers /\ flushed \in 0 .. Size /\ wptr \in 0 .. Size
        /\ flushed <= wptr
    BY <1>1 DEF FlushSubmit, TypeOK, PhaseOK, PointersOK
  <2> QED
    BY <2>1, <1>a
<1>2. CASE DiscardSubmit
  <2>1. /\ ring' = Append(ring, Submission(slot, flushed, wptr, TRUE))
        /\ slot \in Buffers /\ flushed \in 0 .. Size /\ wptr \in 0 .. Size
        /\ flushed <= wptr
    BY <1>2 DEF DiscardSubmit, TypeOK, PhaseOK, PointersOK
  <2> QED
    BY <2>1, <1>a
<1>3. CASE CpExecute
  <2>1. ring[1] = Head(ring)
    BY <1>3 DEF CpExecute, TypeOK
  <2>2. /\ ring # << >> /\ Head(ring).from < Head(ring).to
        /\ ring' = [ring EXCEPT ![1].from = Head(ring).from + 1]
    BY <1>3 DEF CpExecute
  <2> QED
    BY <2>1, <2>2 DEF Goal
<1>4. CASE CpRetire
  BY <1>4 DEF CpRetire, Goal
<1>5. CASE Reset \/ StopNow
  BY <1>5 DEF Reset, StopNow, Drop, Goal
<1>6. CASE \/ Start \/ Stop \/ IndirectBufferGet
           \/ \E n \in 1 .. MaxGrab : Grab(n)
           \/ \E next \in {"idle", "wait"} : Flush(next)
  BY <1>6 DEF Start, Stop, IndirectBufferGet, Grab, Flush, kernel, Goal
<1>7. CASE Write \/ Pad \/ GetGranted \/ GetBusy \/ GetGiveUp
  BY <1>7 DEF Write, Pad, GetGranted, GetBusy, GetGiveUp, kernel, Goal
<1>8. CASE StopBusy \/ StopIdle \/ StopError \/ IdleBusy \/ IdleDone \/ IdleFailed
  BY <1>8 DEF StopBusy, StopIdle, StopError, IdleBusy, IdleDone, IdleFailed, kernel, Goal
<1>9. CASE UNCHANGED vars
  BY <1>9 DEF vars, Goal
<1> QED
  BY <1>d, <1>1, <1>2, <1>3, <1>4, <1>5, <1>6, <1>7, <1>8, <1>9 DEF Next, Server

\* Whatever it does, the ring stays a sequence of submissions in order.
LEMMA RingStep ==
  ASSUME TypeOK, PhaseOK, PointersOK, RingOK, [Next]_vars
  PROVE  ring' \in Seq(Submissions) /\ RingOK'
<1> USE DEF RingOK
<1>t. ring \in Seq(Submissions)
  BY DEF TypeOK
<1>1. CASE ring' = ring
  BY <1>1, <1>t
<1>2. ASSUME NEW s \in Submissions, Queued(s)
      PROVE  ring' \in Seq(Submissions) /\ RingOK'
  BY <1>2, <1>t, AppendProperties DEF Queued
<1>3. CASE ring' = << >>
  BY <1>3, EmptySeq
<1>4. CASE /\ ring # << >> /\ ring[1].from < ring[1].to
           /\ ring' = [ring EXCEPT ![1].from = ring[1].from + 1]
  <2> DEFINE s == [ring[1] EXCEPT !.from = ring[1].from + 1]
  <2>1. /\ Len(ring) \in Nat /\ 1 \in 1 .. Len(ring)
        /\ DOMAIN ring = 1 .. Len(ring) /\ ring[1] \in Submissions
    BY <1>t, <1>4
  <2>2. s \in Submissions /\ s.from <= s.to
    BY <2>1, <1>4, SizeAssumption DEF Submissions
  <2>3. ring' = [ring EXCEPT ![1] = s]
    BY <1>4
  <2> HIDE DEF s
  <2>4. ring' \in Seq(Submissions)
    BY <1>t, <2>1, <2>2, <2>3
  <2>5. DOMAIN ring' = DOMAIN ring
    BY <2>3
  <2>6. \A i \in DOMAIN ring : ring'[i] = IF i = 1 THEN s ELSE ring[i]
    BY <2>3
  <2> QED
    BY <2>2, <2>4, <2>5, <2>6
<1>5. CASE ring # << >> /\ ring' = Tail(ring)
  <2>1. /\ Tail(ring) \in Seq(Submissions)
        /\ Len(ring) \in Nat /\ DOMAIN ring = 1 .. Len(ring)
        /\ DOMAIN Tail(ring) = 1 .. Len(ring) - 1
        /\ \A i \in 1 .. Len(ring) - 1 : Tail(ring)[i] = ring[i + 1]
    BY <1>t, <1>5
  <2> QED
    BY <1>5, <2>1
<1> QED
  BY <1>1, <1>2, <1>3, <1>4, <1>5, RingMoves

LEMMA DiscardedBuffers ==
  ASSUME NEW r \in Seq(Submissions)
  PROVE  Discarded(r) \subseteq Buffers
<1>1. \A i \in DOMAIN r : r[i] \in Submissions
  OBVIOUS
<1> QED
  BY <1>1 DEF Discarded, Submissions

\* TypeOK in parts that different actions disturb.
ScalarsOK ==
  /\ active \in BOOLEAN /\ slot \in Buffers \union {NoBuffer}
  /\ flushed \in 0 .. Size /\ wptr \in 0 .. Size
  /\ pc \in {"idle", "write", "flush", "discard", "get", "stop", "wait",
             "segv", "recursing"}
  /\ after \in {"none", "start", "grab", "stop", "hold", "idle", "wait"}
  /\ count \in 0 .. MaxGrab /\ tries \in 0 .. LoopCount
  /\ running \in BOOLEAN /\ queued \in Nat

PoolOK == free \subseteq Buffers /\ held \subseteq Buffers /\ dropped \in BOOLEAN

MemOK == mem \in [Buffers -> [0 .. Size - 1 -> Nat]]

LEMMA ScalarsStep ==
  ASSUME TypeOK, PhaseOK, PointersOK, [Next]_vars
  PROVE  ScalarsOK'
<1> USE DEF ScalarsOK
<1>0. /\ Size \in Nat /\ MaxGrab \in Nat /\ MaxGrab <= Size /\ LoopCount \in Nat
      /\ ScalarsOK
  BY SizeAssumption, GrabAssumption, LoopAssumption DEF TypeOK
<1>g. ASSUME NEW n \in 1 .. MaxGrab, Grab(n) PROVE ScalarsOK'
  BY <1>0, <1>g DEF Grab, cs, kernel
<1>f. ASSUME NEW next \in {"idle", "wait"}, Flush(next) PROVE ScalarsOK'
  BY <1>0, <1>f DEF Flush, cs, kernel
<1>d. ASSUME NEW b \in held, IndirectBufferDiscard(b) PROVE ScalarsOK'
  BY <1>0, <1>d DEF IndirectBufferDiscard, cs, call
<1>1. CASE Start \/ Stop \/ IndirectBufferGet
  BY <1>0, <1>1 DEF Start, Stop, IndirectBufferGet, cs, kernel
<1>2. CASE Reset
  BY <1>0, <1>2 DEF Reset, cs, call
<1>3. CASE Write
  <2>1. count > 0 /\ wptr + count <= Size
    BY <1>3 DEF Write, PointersOK
  <2> QED
    BY <1>0, <1>3, <2>1 DEF Write, kernel
<1>4. CASE Pad
  BY <1>0, <1>4 DEF Pad, kernel
<1>5. CASE FlushSubmit
  <2>1. wptr % 2 = 1 => wptr + 1 <= Size
    BY <1>0, SizeAssumption
  <2>2. after \in {"idle", "wait"}
    BY <1>5 DEF FlushSubmit, PhaseOK
  <2>3. /\ wptr' = IF wptr % 2 = 1 THEN wptr + 1 ELSE wptr
        /\ flushed' = wptr' /\ pc' = after /\ after' = "none"
        /\ UNCHANGED <<active, slot, count, tries, running, queued>>
    BY <1>5 DEF FlushSubmit
  <2>4. wptr' \in 0 .. Size
    BY <1>0, <2>1, <2>3
  <2> QED
    BY <1>0, <2>2, <2>3, <2>4
<1>6. CASE DiscardSubmit
  <2>1. /\ slot' = NoBuffer /\ pc' \in {"get", "stop"}
        /\ UNCHANGED <<active, flushed, wptr, after, count, tries, running, queued>>
    BY <1>6 DEF DiscardSubmit
  <2> QED
    BY <1>0, <2>1
<1>7. CASE GetGranted
  <2>1. /\ pc' \in {"write", "idle"} /\ after' = "none" /\ tries' = 0
        /\ UNCHANGED <<count, running, queued>>
    BY <1>7 DEF GetGranted
  <2>2. \/ UNCHANGED cs
        \/ /\ slot' \in free /\ flushed' = 0 /\ wptr' = 0 /\ active' = TRUE
    BY <1>7 DEF GetGranted
  <2>3. free \subseteq Buffers
    BY DEF TypeOK
  <2>4. active' \in BOOLEAN /\ slot' \in Buffers \union {NoBuffer}
    BY <1>0, <2>2, <2>3 DEF cs
  <2>5. flushed' \in 0 .. Size /\ wptr' \in 0 .. Size
    BY <1>0, <2>2 DEF cs
  <2> QED
    BY <1>0, <2>1, <2>4, <2>5
<1>8. CASE GetBusy \/ GetGiveUp
  BY <1>0, <1>8 DEF GetBusy, GetGiveUp, cs, kernel
<1>9. CASE StopBusy \/ IdleBusy
  BY <1>0, <1>9 DEF StopBusy, IdleBusy, cs, kernel
<1>10. CASE StopIdle \/ StopError \/ StopNow
  <2>1. StopReturns /\ (running' = running \/ running' = FALSE)
    BY <1>10 DEF StopIdle, StopError, StopNow
  <2>2. running' \in BOOLEAN /\ active' \in BOOLEAN
    BY <1>0, <2>1 DEF StopReturns
  <2>3. /\ slot' = slot /\ flushed' = 0 /\ wptr' = 0 /\ pc' = "idle"
        /\ after' = "none" /\ count' = count /\ tries' = 0 /\ queued' = queued
    BY <2>1 DEF StopReturns
  <2> QED
    BY <1>0, <2>2, <2>3
<1>11. CASE IdleDone \/ IdleFailed
  BY <1>0, <1>11 DEF IdleDone, IdleFailed, cs, kernel
<1>12. CASE CpExecute \/ CpRetire
  <2>1. UNCHANGED <<cs, call, running, queued>>
    BY <1>12 DEF CpExecute, CpRetire
  <2> QED
    BY <1>0, <2>1 DEF cs, call
<1>13. CASE UNCHANGED vars
  BY <1>0, <1>13 DEF vars
<1> QED
  BY <1>g, <1>f, <1>d, <1>1, <1>2, <1>3, <1>4, <1>5, <1>6, <1>7, <1>8, <1>9,
     <1>10, <1>11, <1>12, <1>13 DEF Next, Server

\* Which steps touch the pool.
LEMMA PoolStep ==
  ASSUME TypeOK, [Next]_vars
  PROVE  PoolOK'
<1> USE DEF PoolOK
<1>0. /\ PoolOK /\ Discarded(ring) \subseteq Buffers
      /\ ring # << >> => Head(ring).buf \in Buffers
  <2>1. PoolOK /\ ring \in Seq(Submissions)
    BY DEF TypeOK
  <2>2. ring # << >> => Head(ring) \in Submissions
    BY <2>1
  <2> QED
    BY <2>1, <2>2, DiscardedBuffers DEF Submissions
<1>d. ASSUME NEW b \in held, IndirectBufferDiscard(b) PROVE PoolOK'
  BY <1>0, <1>d DEF IndirectBufferDiscard
<1>1. CASE Reset \/ StopNow
  <2>1. Drop \/ UNCHANGED <<free, dropped>>
    BY <1>1 DEF Reset, StopNow
  <2>2. held' = held
    BY <1>1 DEF Reset, StopNow, StopReturns
  <2>3. free' \subseteq Buffers /\ dropped' \in BOOLEAN
    BY <1>0, <2>1 DEF Drop
  <2> QED
    BY <1>0, <2>2, <2>3
<1>2. CASE GetGranted
  <2>1. /\ free' \subseteq free /\ held' \subseteq held \union free
        /\ dropped' = dropped
    BY <1>2 DEF GetGranted
  <2> QED
    BY <1>0, <2>1
<1>3. CASE CpRetire
  BY <1>0, <1>3 DEF CpRetire
<1>4. CASE CpExecute
  BY <1>0, <1>4 DEF CpExecute
<1>5. CASE \/ Start \/ Stop \/ IndirectBufferGet
           \/ \E n \in 1 .. MaxGrab : Grab(n)
           \/ \E next \in {"idle", "wait"} : Flush(next)
  BY <1>0, <1>5 DEF Start, Stop, IndirectBufferGet, Grab, Flush, kernel
<1>6. CASE \/ Write \/ Pad \/ FlushSubmit \/ DiscardSubmit
           \/ GetBusy \/ GetGiveUp
  BY <1>0, <1>6
     DEF Write, Pad, FlushSubmit, DiscardSubmit, GetBusy, GetGiveUp, kernel
<1>7. CASE StopBusy \/ StopIdle \/ StopError \/ IdleBusy \/ IdleDone \/ IdleFailed
  BY <1>0, <1>7 DEF StopBusy, StopIdle, StopError, StopReturns, IdleBusy,
                    IdleDone, IdleFailed, kernel
<1>8. CASE UNCHANGED vars
  BY <1>0, <1>8 DEF vars
<1> QED
  BY <1>d, <1>1, <1>2, <1>3, <1>4, <1>5, <1>6, <1>7, <1>8 DEF Next, Server

\* The memory of the buffers is written inside of them, or not at all.
LEMMA MemStep ==
  ASSUME TypeOK, PhaseOK, PointersOK, [Next]_vars
  PROVE  MemOK'
<1>0. MemOK /\ Size \in Nat /\ Size > 0 /\ wptr \in 0 .. Size /\ queued \in Nat
  BY SizeAssumption DEF TypeOK, MemOK
<1>a. ASSUME NEW b \in Buffers, NEW i \in 0 .. Size - 1, NEW w \in Nat,
             mem' = [mem EXCEPT ![b][i] = w]
      PROVE  MemOK'
  BY <1>0, <1>a DEF MemOK
<1>d. ASSUME NEW b \in held, IndirectBufferDiscard(b) PROVE MemOK'
  <2>1. b \in Buffers /\ 0 \in 0 .. Size - 1 /\ mem' = [mem EXCEPT ![b][0] = 0]
    BY <1>0, <1>d DEF IndirectBufferDiscard, TypeOK
  <2> QED
    BY <2>1, <1>a
<1>1. CASE Write
  <2>1. count > 0 /\ wptr + count <= Size /\ slot \in Buffers /\ count \in Nat
    BY <1>1, GrabAssumption DEF Write, PointersOK, PhaseOK, TypeOK
  <2>2. wptr \in 0 .. Size - 1 /\ queued + 1 \in Nat
    BY <1>0, <2>1
  <2>3. mem' = [mem EXCEPT ![slot][wptr] = queued + 1]
    BY <1>1 DEF Write
  <2> QED
    BY <2>1, <2>2, <2>3, <1>a
<1>2. CASE Pad
  <2>1. slot \in Buffers
    BY <1>2 DEF Pad, PhaseOK, TypeOK
  <2>2. mem' = mem \/ (Size - wptr >= 1 /\ mem' = [mem EXCEPT ![slot][wptr] = 0])
    BY <1>0, <1>2 DEF Pad
  <2>3. Size - wptr >= 1 => wptr \in 0 .. Size - 1
    BY <1>0
  <2>4. CASE mem' = mem
    BY <1>0, <2>4 DEF MemOK
  <2>5. CASE Size - wptr >= 1 /\ mem' = [mem EXCEPT ![slot][wptr] = 0]
    BY <2>1, <2>3, <2>5, <1>a
  <2> QED
    BY <2>2, <2>4, <2>5
<1>3. CASE mem' = mem
  BY <1>0, <1>3 DEF MemOK
<1>4. CASE \/ Start \/ Stop \/ Reset \/ IndirectBufferGet
           \/ \E n \in 1 .. MaxGrab : Grab(n)
           \/ \E next \in {"idle", "wait"} : Flush(next)
  BY <1>3, <1>4 DEF Start, Stop, Reset, IndirectBufferGet, Grab, Flush
<1>5. CASE FlushSubmit \/ DiscardSubmit \/ GetGranted \/ GetBusy \/ GetGiveUp
  BY <1>3, <1>5 DEF FlushSubmit, DiscardSubmit, GetGranted, GetBusy, GetGiveUp
<1>6. CASE StopBusy \/ StopIdle \/ StopError \/ StopNow
  BY <1>3, <1>6 DEF StopBusy, StopIdle, StopError, StopNow, StopReturns
<1>7. CASE IdleBusy \/ IdleDone \/ IdleFailed \/ CpExecute \/ CpRetire
  BY <1>3, <1>7 DEF IdleBusy, IdleDone, IdleFailed, CpExecute, CpRetire
<1>8. CASE UNCHANGED vars
  BY <1>3, <1>8 DEF vars
<1> QED
  BY <1>d, <1>1, <1>2, <1>4, <1>5, <1>6, <1>7, <1>8 DEF Next, Server

\* What the CP executes is a word that was written.
LEMMA ExecutedStep ==
  ASSUME TypeOK, [Next]_vars
  PROVE  executed' \in Nat
<1>0. executed \in Nat
  BY DEF TypeOK
<1>1. CASE CpExecute
  <2> DEFINE s == ring[1]
  <2>1. ring # << >> /\ Head(ring) = s /\ s \in Submissions
    BY <1>1 DEF CpExecute, TypeOK
  <2>2. s.buf \in Buffers /\ s.from \in 0 .. Size /\ s.to \in 0 .. Size
    BY <2>1 DEF Submissions
  <2>3. /\ s.from < s.to
        /\ executed' = executed \/ executed' = mem[s.buf][s.from]
    BY <1>1, <2>1 DEF CpExecute
  <2>4. s.from \in 0 .. Size - 1
    BY <2>2, <2>3, SizeAssumption
  <2>5. mem[s.buf][s.from] \in Nat
    BY <2>2, <2>4 DEF TypeOK
  <2> QED
    BY <1>0, <2>3, <2>5
<1>2. CASE \/ Start \/ Stop \/ Reset \/ IndirectBufferGet
           \/ \E n \in 1 .. MaxGrab : Grab(n)
           \/ \E next \in {"idle", "wait"} : Flush(next)
           \/ \E b \in held : IndirectBufferDiscard(b)
  BY <1>0, <1>2 DEF Start, Stop, Reset, IndirectBufferGet, Grab, Flush,
                    IndirectBufferDiscard, kernel
<1>3. CASE \/ Write \/ Pad \/ FlushSubmit \/ DiscardSubmit \/ GetGranted
           \/ GetBusy \/ GetGiveUp
  BY <1>0, <1>3 DEF Write, Pad, FlushSubmit, DiscardSubmit, GetGranted,
                    GetBusy, GetGiveUp, kernel
<1>4. CASE StopBusy \/ StopIdle \/ StopError \/ StopNow
  BY <1>0, <1>4 DEF StopBusy, StopIdle, StopError, StopNow, StopReturns, kernel
<1>5. CASE IdleBusy \/ IdleDone \/ IdleFailed \/ CpRetire
  BY <1>0, <1>5 DEF IdleBusy, IdleDone, IdleFailed, CpRetire, kernel
<1>6. CASE UNCHANGED vars
  BY <1>0, <1>6 DEF vars
<1> QED
  BY <1>1, <1>2, <1>3, <1>4, <1>5, <1>6 DEF Next, Server

LEMMA TypeStep ==
  ASSUME TypeOK, PhaseOK, PointersOK, RingOK, [Next]_vars
  PROVE  TypeOK'
<1>1. ScalarsOK' /\ PoolOK' /\ MemOK' /\ executed' \in Nat /\ ring' \in Seq(Submissions)
  BY ScalarsStep, PoolStep, MemStep, ExecutedStep, RingStep
<1> QED
  BY <1>1 DEF TypeOK, ScalarsOK, PoolOK, MemOK

\* BuffersConserved in the terms of a step: who has which buffer, and that a
\* discard is the last submission of its buffer.
Owners ==
  /\ free \union held \union {slot} \union Discarded(ring) = Buffers \union {slot}
  /\ free \intersect held = {}
  /\ slot \notin free \union held
  /\ Discarded(ring) \intersect (free \union held \union {slot}) = {}

LastDiscard(r) ==
  \A i, j \in DOMAIN r : r[i].discard /\ r[j].buf = r[i].buf => j <= i

LEMMA ConservedParts == BuffersConserved <=> Owners /\ LastDiscard(ring)
BY DEF BuffersConserved, Owners, LastDiscard

LEMMA LastDiscardAppend ==
  ASSUME NEW r \in Seq(Submissions), NEW s \in Submissions,
         LastDiscard(r), s.buf \notin Discarded(r)
  PROVE  LastDiscard(Append(r, s))
<1> DEFINE q == Append(r, s)
<1>1. /\ Len(r) \in Nat /\ DOMAIN r = 1 .. Len(r) /\ DOMAIN q = 1 .. Len(r) + 1
      /\ q[Len(r) + 1] = s
  OBVIOUS
<1>2. \A i \in DOMAIN r : q[i] = r[i]
  OBVIOUS
<1> HIDE DEF q
<1>3. SUFFICES ASSUME NEW i \in DOMAIN q, NEW j \in DOMAIN q,
                      q[i].discard, q[j].buf = q[i].buf
               PROVE  j <= i
  BY DEF LastDiscard, q
<1>4. CASE i = Len(r) + 1
  BY <1>1, <1>4
<1>5. CASE i \in DOMAIN r /\ j \in DOMAIN r
  BY <1>2, <1>3, <1>5 DEF LastDiscard
<1>6. CASE i \in DOMAIN r /\ j = Len(r) + 1
  BY <1>1, <1>2, <1>3, <1>6 DEF Discarded
<1> QED
  BY <1>1, <1>4, <1>5, <1>6

\* A discard that is executed was the only use of its buffer.
LEMMA LastDiscardTail ==
  ASSUME NEW r \in Seq(Submissions), r # << >>, LastDiscard(r)
  PROVE  /\ LastDiscard(Tail(r))
         /\ r[1].discard => \A i \in DOMAIN Tail(r) : Tail(r)[i].buf # r[1].buf
<1> DEFINE q == Tail(r)
<1>1. /\ Len(r) \in Nat /\ Len(r) > 0 /\ DOMAIN r = 1 .. Len(r)
      /\ DOMAIN q = 1 .. Len(r) - 1
  OBVIOUS
<1>2. \A i \in 1 .. Len(r) - 1 : q[i] = r[i + 1]
  OBVIOUS
<1> HIDE DEF q
<1>3. \A i \in DOMAIN q : i \in Nat /\ i > 0 /\ i + 1 \in DOMAIN r /\ q[i] = r[i + 1]
  BY <1>1, <1>2
<1>4. LastDiscard(q)
  <2>1. SUFFICES ASSUME NEW i \in DOMAIN q, NEW j \in DOMAIN q,
                        q[i].discard, q[j].buf = q[i].buf
                 PROVE  j <= i
    BY DEF LastDiscard
  <2>2. /\ i + 1 \in DOMAIN r /\ j + 1 \in DOMAIN r /\ r[i + 1].discard
        /\ r[j + 1].buf = r[i + 1].buf
    BY <1>3, <2>1
  <2>3. j + 1 <= i + 1
    BY <2>2 DEF LastDiscard
  <2> QED
    BY <1>3, <2>3
<1>5. ASSUME r[1].discard, NEW i \in DOMAIN q PROVE q[i].buf # r[1].buf
  <2>1. SUFFICES ASSUME q[i].buf = r[1].buf PROVE FALSE
    OBVIOUS
  <2>2. 1 \in DOMAIN r /\ i + 1 \in DOMAIN r /\ r[i + 1].buf = r[1].buf
    BY <1>1, <1>3, <2>1
  <2>3. i + 1 <= 1
    BY <1>5, <2>2 DEF LastDiscard
  <2> QED
    BY <1>3, <2>3
<1> QED
  BY <1>4, <1>5 DEF q

\* Executing a word changes neither the buffer nor the discard of an entry.
LEMMA ExecuteKeeps ==
  ASSUME NEW r \in Seq(Submissions), r # << >>, NEW n \in Nat,
         NEW q, q = [r EXCEPT ![1].from = n]
  PROVE  /\ DOMAIN q = DOMAIN r
         /\ \A i \in DOMAIN r : /\ q[i].buf = r[i].buf
                                /\ q[i].discard = r[i].discard
                                /\ q[i].to = r[i].to
<1>1. r[1] \in Submissions /\ DOMAIN q = DOMAIN r
  OBVIOUS
<1>2. \A i \in DOMAIN r : q[i] = IF i = 1 THEN [r[1] EXCEPT !.from = n] ELSE r[i]
  OBVIOUS
<1> QED
  BY <1>1, <1>2 DEF Submissions

LEMMA BuffersStep ==
  ASSUME TypeOK, PhaseOK, PointersOK, BuffersConserved, SubmittedUntouched,
         [Next]_vars
  PROVE  BuffersConserved' /\ SubmittedUntouched'
<1> DEFINE Goal == Owners' /\ LastDiscard(ring)' /\ SubmittedUntouched'
<1> SUFFICES Goal
  BY ConservedParts DEF BuffersConserved, Owners, LastDiscard
<1> HIDE DEF Goal
<1>0. /\ Owners /\ LastDiscard(ring) /\ ring \in Seq(Submissions)
      /\ slot \in Buffers \union {NoBuffer} /\ NoBuffer \notin Buffers
      /\ flushed \in Nat /\ wptr \in Nat /\ flushed <= wptr
      /\ free \subseteq Buffers /\ held \subseteq Buffers
  BY ConservedParts, SizeAssumption, BufferAssumption DEF TypeOK, PointersOK
<1>r. \A i \in DOMAIN ring : ring[i] \in Submissions /\ ring[i].buf \in Buffers
                             /\ ring[i].to \in Nat
  <2>1. \A i \in DOMAIN ring : ring[i] \in Submissions
    BY <1>0
  <2> QED
    BY <2>1, SizeAssumption DEF Submissions
<1>x. ASSUME UNCHANGED <<ring, free, held, slot>>, flushed' = flushed \/ slot = NoBuffer
      PROVE  Goal
  <2>1. Owners' /\ LastDiscard(ring)'
    BY <1>0, <1>x DEF Owners, LastDiscard, Discarded
  <2>2. SubmittedUntouched'
    BY <1>0, <1>r, <1>x DEF SubmittedUntouched
  <2> QED
    BY <2>1, <2>2 DEF Goal
\* A submission is queued of a buffer the server owns.
<1>q. ASSUME NEW s \in Submissions, ring' = Append(ring, s),
             s.buf \in held \union {slot}
      PROVE  /\ LastDiscard(ring)'
             /\ Discarded(ring)' =
                  Discarded(ring) \union IF s.discard THEN {s.buf} ELSE {}
             /\ \A i \in DOMAIN ring' : ring'[i] = s \/ \E j \in DOMAIN ring : ring'[i] = ring[j]
  <2>1. s.buf \notin Discarded(ring)
    BY <1>0, <1>q DEF Owners
  <2>2. LastDiscard(Append(ring, s))
    BY <1>0, <2>1, LastDiscardAppend
  <2>3. LastDiscard(ring')
    BY <1>q, <2>2
  <2>4. Discarded(Append(ring, s)) =
          Discarded(ring) \union IF s.discard THEN {s.buf} ELSE {}
    BY <1>0, DiscardedAppend
  <2>5. \A i \in DOMAIN Append(ring, s) :
          Append(ring, s)[i] = s \/ \E j \in DOMAIN ring : Append(ring, s)[i] = ring[j]
    BY <1>0
  <2> QED
    BY <1>q, <2>3, <2>4, <2>5 DEF Discarded, LastDiscard
<1>d. ASSUME NEW b \in held, IndirectBufferDiscard(b) PROVE Goal
  <2> DEFINE s == Submission(b, 0, 1, TRUE)
  <2>1. /\ ring' = Append(ring, s) /\ held' = held \ {b} /\ free' = free
        /\ slot' = slot /\ flushed' = flushed
    BY <1>d DEF IndirectBufferDiscard, cs
  <2>2. s \in Submissions /\ s.buf = b /\ s.discard
    BY <1>0, SizeAssumption DEF Submission, Submissions
  <2> HIDE DEF s
  <2>3. /\ LastDiscard(ring)' /\ Discarded(ring)' = Discarded(ring) \union {b}
        /\ \A i \in DOMAIN ring' : ring'[i] = s \/ \E j \in DOMAIN ring : ring'[i] = ring[j]
    BY <1>q, <2>1, <2>2
  <2>4. b \notin free /\ b # slot /\ b \in Buffers
    BY <1>0 DEF Owners
  <2>5. Owners'
    BY <1>0, <2>1, <2>3, <2>4 DEF Owners
  <2>6. SubmittedUntouched'
    BY <2>1, <2>2, <2>3, <2>4 DEF SubmittedUntouched
  <2> QED
    BY <2>3, <2>5, <2>6 DEF Goal
<1>1. CASE FlushSubmit
  <2> DEFINE s == Submission(slot, flushed, wptr, FALSE)
  <2>1. /\ ring' = Append(ring, s) /\ held' = held /\ free' = free /\ slot' = slot
        /\ wptr' = IF wptr % 2 = 1 THEN wptr + 1 ELSE wptr
        /\ flushed' = wptr' /\ slot \in Buffers
    BY <1>1, <1>0 DEF FlushSubmit, PhaseOK
  <2>2. s \in Submissions /\ s.buf = slot /\ ~s.discard /\ s.to = wptr
    BY <2>1 DEF Submission, Submissions, TypeOK
  <2>3. wptr <= flushed' /\ flushed <= flushed' /\ flushed' \in Nat
    BY <1>0, <2>1
  <2> HIDE DEF s
  <2>4. /\ LastDiscard(ring)' /\ Discarded(ring)' = Discarded(ring)
        /\ \A i \in DOMAIN ring' : ring'[i] = s \/ \E j \in DOMAIN ring : ring'[i] = ring[j]
    BY <1>q, <2>1, <2>2
  <2>5. Owners'
    BY <1>0, <2>1, <2>4 DEF Owners
  <2>6. \A i \in DOMAIN ring : ring[i].buf = slot => ring[i].to <= flushed'
    BY <1>0, <1>r, <2>3 DEF SubmittedUntouched
  <2>7. SubmittedUntouched'
    BY <1>0, <2>1, <2>2, <2>3, <2>4, <2>6 DEF SubmittedUntouched, Owners
  <2> QED
    BY <2>4, <2>5, <2>7 DEF Goal
<1>2. CASE DiscardSubmit
  <2> DEFINE s == Submission(slot, flushed, wptr, TRUE)
  <2>1. /\ ring' = Append(ring, s) /\ held' = held /\ free' = free
        /\ slot' = NoBuffer /\ slot \in Buffers
    BY <1>2, <1>0 DEF DiscardSubmit, PhaseOK
  <2>2. s \in Submissions /\ s.buf = slot /\ s.discard
    BY <2>1 DEF Submission, Submissions, TypeOK
  <2> HIDE DEF s
  <2>4. /\ LastDiscard(ring)' /\ Discarded(ring)' = Discarded(ring) \union {slot}
        /\ \A i \in DOMAIN ring' : ring'[i] = s \/ \E j \in DOMAIN ring : ring'[i] = ring[j]
    BY <1>q, <2>1, <2>2
  <2>d. Discarded(ring) \subseteq Buffers
    BY <1>0, DiscardedBuffers
  <2>5. Owners'
    BY <1>0, <2>1, <2>4, <2>d DEF Owners
  <2>7. SubmittedUntouched'
    BY <1>0, <1>r, <2>1, <2>2, <2>4 DEF SubmittedUntouched, Owners
  <2> QED
    BY <2>4, <2>5, <2>7 DEF Goal
<1>3. CASE GetGranted
  <2>1. PICK b \in free :
          /\ free' = free \ {b} /\ ring' = ring
          /\ \/ after = "hold" /\ held' = held \union {b} /\ UNCHANGED cs
             \/ after # "hold" /\ slot' = b /\ held' = held
    BY <1>3 DEF GetGranted
  <2>2. after # "hold" => slot = NoBuffer
    BY <1>3 DEF GetGranted, PhaseOK
  <2>3. LastDiscard(ring)' /\ Discarded(ring)' = Discarded(ring)
    BY <1>0, <2>1 DEF LastDiscard, Discarded
  <2>b. b \in Buffers /\ \A i \in DOMAIN ring : ring[i].buf # b
    BY <1>0 DEF SubmittedUntouched
  <2>d. Discarded(ring) \subseteq Buffers
    BY <1>0, DiscardedBuffers
  <2>4. CASE after = "hold" /\ held' = held \union {b} /\ UNCHANGED cs
    <3>1. slot' = slot /\ flushed' = flushed
      BY <2>4 DEF cs
    <3>2. Owners'
      BY <1>0, <2>1, <2>3, <2>4, <3>1 DEF Owners
    <3>3. SubmittedUntouched'
      BY <1>0, <2>1, <2>b, <2>4, <3>1 DEF SubmittedUntouched
    <3> QED
      BY <2>3, <3>2, <3>3 DEF Goal
  <2>5. CASE after # "hold" /\ slot' = b /\ held' = held
    <3>2. Owners'
      BY <1>0, <2>1, <2>2, <2>3, <2>5, <2>d, <2>b DEF Owners
    <3>3. SubmittedUntouched'
      BY <1>0, <2>1, <2>b, <2>5 DEF SubmittedUntouched
    <3> QED
      BY <2>3, <3>2, <3>3 DEF Goal
  <2> QED
    BY <2>1, <2>4, <2>5
<1>p. ASSUME Drop, held' = held, slot' = slot PROVE Goal
  <2>1. ring' = << >> /\ free' = free \union Discarded(ring)
    BY <1>p DEF Drop
  <2>2. DOMAIN ring' = {}
    BY <2>1
  <2>3. LastDiscard(ring)' /\ Discarded(ring)' = {} /\ SubmittedUntouched'
    BY <2>2 DEF LastDiscard, Discarded, SubmittedUntouched
  <2>4. Owners'
    BY <1>0, <1>p, <2>1, <2>3 DEF Owners
  <2> QED
    BY <2>3, <2>4 DEF Goal
<1>4. CASE Reset
  BY <1>4, <1>p DEF Reset, cs
<1>5. CASE StopIdle \/ StopError \/ StopNow
  <2>1. /\ held' = held /\ slot' = slot
        /\ Drop \/ UNCHANGED <<ring, free>>
    BY <1>5 DEF StopIdle, StopError, StopNow, StopReturns
  <2>2. slot = NoBuffer
    BY <1>5 DEF StopIdle, StopError, StopNow, PhaseOK
  <2> QED
    BY <2>1, <2>2, <1>p, <1>x
<1>6. CASE CpExecute
  <2>1. ring # << >> /\ UNCHANGED <<cs, free, held>>
    BY <1>6 DEF CpExecute
  <2>2. ring' = [ring EXCEPT ![1].from = Head(ring).from + 1]
    BY <1>6 DEF CpExecute
  <2>3. Head(ring) \in Submissions
    BY <1>0, <2>1
  <2>4. Head(ring).from + 1 \in Nat
    BY <2>3, SizeAssumption DEF Submissions
  <2>5. /\ DOMAIN ring' = DOMAIN ring
        /\ \A i \in DOMAIN ring : /\ ring'[i].buf = ring[i].buf
                                  /\ ring'[i].discard = ring[i].discard
                                  /\ ring'[i].to = ring[i].to
    BY <1>0, <2>1, <2>2, <2>4, ExecuteKeeps
  <2>6. LastDiscard(ring)'
    BY <1>0, <2>5 DEF LastDiscard
  <2>7. Discarded(ring)' = Discarded(ring)
    BY <2>5 DEF Discarded
  <2>8. Owners'
    BY <1>0, <2>1, <2>7 DEF Owners, cs
  <2>9. SubmittedUntouched'
    BY <2>1, <2>5 DEF SubmittedUntouched, cs
  <2> QED
    BY <2>6, <2>8, <2>9 DEF Goal
<1>7. CASE CpRetire
  <2>1. /\ ring # << >> /\ UNCHANGED <<cs, held>> /\ ring' = Tail(ring)
        /\ free' = IF ring[1].discard THEN free \union {ring[1].buf} ELSE free
    <3>1. ring # << >> => Head(ring) = ring[1]
      BY <1>0
    <3> QED
      BY <3>1, <1>7 DEF CpRetire
  <2>2. /\ LastDiscard(Tail(ring))
        /\ ring[1].discard =>
             \A i \in DOMAIN Tail(ring) : Tail(ring)[i].buf # ring[1].buf
    BY <1>0, <2>1, LastDiscardTail
  <2>3. Discarded(ring) = Discarded(Tail(ring))
                            \union IF ring[1].discard THEN {ring[1].buf} ELSE {}
    BY <1>0, <2>1, DiscardedTail
  <2>4. \A i \in DOMAIN Tail(ring) :
          \E j \in DOMAIN ring : Tail(ring)[i] = ring[j]
    BY <1>0, <2>1
  <2> DEFINE q == Tail(ring)
  <2>q. ring' = q /\ LastDiscard(q)
    BY <2>1, <2>2
  <2>5. LastDiscard(ring)'
    BY <2>q DEF LastDiscard
  <2>6. ring[1].discard => ring[1].buf \notin Discarded(q)
    BY <2>2 DEF Discarded
  <2> HIDE DEF q
  <2>7. Discarded(ring)' = Discarded(q)
    BY <2>q DEF Discarded
  <2>8. Discarded(ring) = Discarded(q)
                            \union IF ring[1].discard THEN {ring[1].buf} ELSE {}
    BY <2>3 DEF q
  <2>9. slot' = slot /\ flushed' = flushed /\ held' = held
    BY <2>1 DEF cs
  <2>10. Owners'
    BY <1>0, <2>1, <2>6, <2>7, <2>8, <2>9 DEF Owners
  <2>11. SubmittedUntouched'
    <3>1. SUFFICES ASSUME NEW i \in DOMAIN q
                   PROVE  /\ q[i].buf \notin free' \union held
                          /\ q[i].buf = slot => q[i].to <= flushed
      BY <2>q, <2>9 DEF SubmittedUntouched
    <3>2. PICK j \in DOMAIN ring : q[i] = ring[j]
      BY <2>4 DEF q
    <3>3. ring[1].discard => q[i].buf # ring[1].buf
      BY <2>2 DEF q
    <3> QED
      BY <2>1, <3>2, <3>3 DEF SubmittedUntouched
  <2> QED
    BY <2>5, <2>10, <2>11 DEF Goal
<1>8. CASE \/ Start \/ Stop \/ IndirectBufferGet
           \/ \E n \in 1 .. MaxGrab : Grab(n)
           \/ \E next \in {"idle", "wait"} : Flush(next)
  BY <1>8, <1>x DEF Start, Stop, IndirectBufferGet, Grab, Flush, cs, kernel
<1>9. CASE Write \/ Pad \/ GetBusy \/ GetGiveUp \/ StopBusy
  BY <1>9, <1>x DEF Write, Pad, GetBusy, GetGiveUp, StopBusy, cs, kernel
<1>10. CASE IdleBusy \/ IdleDone \/ IdleFailed
  BY <1>10, <1>x DEF IdleBusy, IdleDone, IdleFailed, cs, kernel
<1>11. CASE UNCHANGED vars
  BY <1>11, <1>x DEF vars
<1> QED
  BY <1>d, <1>1, <1>2, <1>3, <1>4, <1>5, <1>6, <1>7, <1>8, <1>9, <1>10, <1>11
     DEF Next, Server

LEMMA InitIInv == Init => IInv
<1> SUFFICES ASSUME Init PROVE IInv
  OBVIOUS
<1> USE DEF Init
<1>0. /\ Size \in Nat /\ MaxGrab \in Nat /\ LoopCount \in Nat /\ NoBuffer \notin Buffers
      /\ Align \in Nat \ {0} /\ 0 % 2 = 0 /\ 0 % Align = 0
  BY SizeAssumption, GrabAssumption, LoopAssumption, BufferAssumption, AlignAssumption
<1>1. ring \in Seq(Submissions) /\ DOMAIN ring = {} /\ Discarded(ring) = {}
  BY EmptySeq DEF Discarded
<1>2. mem \in [Buffers -> [0 .. Size - 1 -> Nat]]
  OBVIOUS
<1>3. TypeOK
  <2>1. /\ active \in BOOLEAN /\ running \in BOOLEAN /\ dropped \in BOOLEAN
        /\ slot \in Buffers \union {NoBuffer}
        /\ free \subseteq Buffers /\ held \subseteq Buffers
    OBVIOUS
  <2>2. /\ flushed \in 0 .. Size /\ wptr \in 0 .. Size /\ queued \in Nat
        /\ executed \in Nat /\ count \in 0 .. MaxGrab /\ tries \in 0 .. LoopCount
    BY <1>0
  <2>3. /\ pc = "idle" /\ after = "none"
    OBVIOUS
  <2> HIDE DEF Init
  <2> QED
    BY <1>1, <1>2, <2>1, <2>2, <2>3 DEF TypeOK
<1>4. PhaseOK /\ PointersOK /\ PaddingFits
  BY <1>0 DEF PhaseOK, PointersOK, Aligned, PaddingFits
<1>5. RingOK /\ BuffersConserved /\ SubmittedUntouched
  BY <1>0, <1>1 DEF RingOK, BuffersConserved, SubmittedUntouched
<1> QED
  BY <1>3, <1>4, <1>5 DEF IInv

LEMMA StepIInv == IInv /\ [Next]_vars => IInv'
BY TypeStep, PhaseStep, PointersStep, PaddingStep, RingStep, BuffersStep DEF IInv

LEMMA Invariance == Spec => []IInv
BY InitIInv, StepIInv, PTL DEF Spec

\* Every variable keeps its type, whatever the pool, the sizes and the bounds.
THEOREM TypeCorrect == Spec => []TypeOK
<1>1. IInv => TypeOK
  BY DEF IInv
<1> QED
  BY <1>1, Invariance, PTL

\* RHDCSGrab(CS, 1) of a padding loop always finds room: DRMCPFlush and
\* DRMCPBufferDiscard never recurse into the discard of the same buffer.
THEOREM PaddingSafe == Spec => []PaddingFits
<1>1. IInv => PaddingFits
  BY DEF IInv
<1> QED
  BY <1>1, Invariance, PTL

\* Every submission starts quadword aligned and on a padding unit.
THEOREM AlignedSafe == Spec => []Aligned
<1>1. IInv => Aligned
  BY DEF IInv, PointersOK
<1> QED
  BY <1>1, Invariance, PTL

\* The pool, the server and the ring share the buffers out: none is lost, none
\* is handed to two, and each is discarded once.
THEOREM Conservation == Spec => []BuffersConserved
<1>1. IInv => BuffersConserved
  BY DEF IInv
<1> QED
  BY <1>1, Invariance, PTL

\* The server never again writes what it told the CP to execute.
THEOREM NoOverwrite == Spec => []SubmittedUntouched
<1>1. IInv => SubmittedUntouched
  BY DEF IInv
<1> QED
  BY <1>1, Invariance, PTL
-----------------------------------------------------------------------------
(***************************************************************************)
(* What is under way.  A word is held by part i at position k: by a         *)
(* submission, or by what of the current buffer is not submitted.           *)
(***************************************************************************)
Sent(i, k, n) == i \in DOMAIN ring /\ ring[i].from <= k /\ k < ring[i].to /\ n = mem[ring[i].buf][k]
Unsent(i, k, n) == i = Len(ring) + 1 /\ slot # NoBuffer /\ flushed <= k /\ k < wptr /\ n = mem[slot][k]
Holds(i, k, n) == n # 0 /\ (Sent(i, k, n) \/ Unsent(i, k, n))

\* The words younger than lo are under way, all of them, each at one place, older ones before younger ones.
\* Older than lo is what was executed and, after a reset, what was dropped.
UnderWay(lo) ==
  /\ executed <= lo /\ lo <= queued
  /\ dropped \/ lo = executed
  /\ \A i, k, n \in Nat : Holds(i, k, n) => lo < n /\ n <= queued
  /\ \A n \in Nat : lo < n /\ n <= queued => \E i, k \in Nat : Holds(i, k, n)
  /\ \A i, j, k, m, n, o \in Nat : Holds(i, k, n) /\ Holds(j, m, o) /\ Before(<<i, k>>, <<j, m>>) => n < o

\* A sync routine waits for what it has flushed.
Waiting == pc = "wait" => flushed = wptr

\* What a step does to the words under way: nothing, one more, one less, or it drops the oldest.
Outcome(lo, new) ==
  \/ new = lo /\ UNCHANGED <<queued, executed, dropped>>
  \/ new = lo /\ queued' = queued + 1 /\ UNCHANGED <<executed, dropped>>
  \/ new = lo + 1 /\ new <= queued /\ executed' = new /\ UNCHANGED <<queued, dropped>>
  \/ new \in lo .. queued /\ dropped' /\ UNCHANGED <<queued, executed>>

\* Words that keep their order stay under way, whichever parts hold them then.
LEMMA Moved ==
  ASSUME NEW lo \in Nat, UnderWay(lo), NEW g \in [Nat -> Nat], UNCHANGED <<queued, executed, dropped>>,
         \A i, k, n \in Nat : Holds(i, k, n)' => Holds(g[i], k, n),
         \A i, j, k, m, n, o \in Nat : Holds(i, k, n)' /\ Holds(j, m, o)' /\ i < j => g[i] < g[j],
         \A i, k, n \in Nat : Holds(i, k, n) => \E j \in Nat : Holds(j, k, n)'
  PROVE  UnderWay(lo)' /\ Outcome(lo, lo)
<1>1. /\ executed' <= lo /\ lo <= queued' /\ (dropped' \/ lo = executed')
      /\ \A i, k, n \in Nat : Holds(i, k, n)' => lo < n /\ n <= queued'
      /\ \A n \in Nat : lo < n /\ n <= queued' => \E i, k \in Nat : Holds(i, k, n)'
  <2>1. executed' <= lo /\ lo <= queued' /\ (dropped' \/ lo = executed')
    BY DEF UnderWay
  <2>2. ASSUME NEW i \in Nat, NEW k \in Nat, NEW n \in Nat, Holds(i, k, n)' PROVE lo < n /\ n <= queued'
    <3>1. Holds(g[i], k, n) /\ g[i] \in Nat
      BY <2>2
    <3> QED
      BY <3>1 DEF UnderWay
  <2>3. ASSUME NEW n \in Nat, lo < n, n <= queued' PROVE \E i, k \in Nat : Holds(i, k, n)'
    <3>1. PICK i \in Nat, k \in Nat : Holds(i, k, n)
      BY <2>3 DEF UnderWay
    <3> QED
      BY <3>1
  <2> QED
    BY <2>1, <2>2, <2>3
<1>2. ASSUME NEW i \in Nat, NEW j \in Nat, NEW k \in Nat, NEW m \in Nat, NEW n \in Nat, NEW o \in Nat,
             Holds(i, k, n)', Holds(j, m, o)', Before(<<i, k>>, <<j, m>>)
      PROVE  n < o
  <2>1. Holds(g[i], k, n) /\ Holds(g[j], m, o) /\ g[i] \in Nat /\ g[j] \in Nat
    BY <1>2
  <2>2. g[i] < g[j] \/ (g[i] = g[j] /\ k < m)
    BY <1>2 DEF Before
  <2>3. Before(<<g[i], k>>, <<g[j], m>>)
    BY <2>2 DEF Before
  <2> QED
    BY <2>1, <2>3 DEF UnderWay
<1> QED
  BY <1>1, <1>2 DEF UnderWay, Outcome, Before

LEMMA Stays ==
  ASSUME NEW lo \in Nat, UnderWay(lo), UNCHANGED <<queued, executed, dropped>>,
         \A i, k, n \in Nat : Holds(i, k, n)' <=> Holds(i, k, n)
  PROVE  UnderWay(lo)' /\ Outcome(lo, lo)
<1> DEFINE g == [i \in Nat |-> i]
<1>1. g \in [Nat -> Nat] /\ \A i \in Nat : g[i] = i
  OBVIOUS
<1> HIDE DEF g
<1>2. /\ \A i, k, n \in Nat : Holds(i, k, n)' => Holds(g[i], k, n)
      /\ \A i, j, k, m, n, o \in Nat : Holds(i, k, n)' /\ Holds(j, m, o)' /\ i < j => g[i] < g[j]
      /\ \A i, k, n \in Nat : Holds(i, k, n) => \E j \in Nat : Holds(j, k, n)'
  BY <1>1
<1> QED
  BY <1>1, <1>2, Moved

\* The types and bounds that the steps below ask for.
LEMMA Plain ==
  ASSUME IInv
  PROVE  /\ ring \in Seq(Submissions) /\ Len(ring) \in Nat /\ DOMAIN ring = 1 .. Len(ring)
         /\ \A i \in DOMAIN ring : /\ ring[i] \in Submissions /\ ring[i].buf \in Buffers
                                   /\ ring[i].from \in 0 .. Size /\ ring[i].to \in 0 .. Size
                                   /\ ring[i].buf \notin free \union held
                                   /\ ring[i].buf = slot => ring[i].to <= flushed
         /\ Size \in Nat /\ flushed \in Nat /\ wptr \in 0 .. Size /\ flushed <= wptr
         /\ queued \in Nat /\ executed \in Nat /\ NoBuffer \notin Buffers
         /\ mem \in [Buffers -> [0 .. Size - 1 -> Nat]] /\ held \subseteq Buffers /\ slot \notin free \union held
<1>1. \A i \in DOMAIN ring : ring[i] \in Submissions
  BY DEF IInv, TypeOK
<1>2. \A i \in DOMAIN ring : ring[i].buf \in Buffers /\ ring[i].from \in 0 .. Size /\ ring[i].to \in 0 .. Size
  BY <1>1 DEF Submissions
<1>3. slot \notin free \union held
  BY DEF IInv, BuffersConserved
<1> QED
  BY <1>1, <1>2, <1>3, SizeAssumption, BufferAssumption DEF IInv, TypeOK, PointersOK, SubmittedUntouched

\* A word written beyond what is submitted of its buffer leaves the submissions as they were.
LEMMA Written ==
  ASSUME IInv, NEW b \in Buffers, NEW w \in 0 .. Size - 1, NEW v \in Nat, mem' = [mem EXCEPT ![b][w] = v]
  PROVE  /\ \A c \in Buffers, k \in 0 .. Size - 1 : mem'[c][k] = IF c = b /\ k = w THEN v ELSE mem[c][k]
         /\ (\A i \in DOMAIN ring : ring[i].buf = b => ring[i].to <= w) =>
              \A i \in DOMAIN ring : \A k \in Nat : ring[i].from <= k /\ k < ring[i].to =>
                mem'[ring[i].buf][k] = mem[ring[i].buf][k]
<1>1. mem \in [Buffers -> [0 .. Size - 1 -> Nat]] /\ Size \in Nat
  BY Plain
<1>2. \A c \in Buffers, k \in 0 .. Size - 1 : mem'[c][k] = IF c = b /\ k = w THEN v ELSE mem[c][k]
  BY <1>1
<1>3. \A i \in DOMAIN ring : ring[i].buf \in Buffers /\ ring[i].from \in 0 .. Size /\ ring[i].to \in 0 .. Size
  BY Plain
<1>4. \A i \in DOMAIN ring : \A k \in Nat : k < ring[i].to => k \in 0 .. Size - 1
  BY <1>1, <1>3
<1> QED
  BY <1>1, <1>2, <1>3, <1>4

LEMMA WriteStreams ==
  ASSUME IInv, NEW lo \in Nat, UnderWay(lo), Write
  PROVE  UnderWay(lo)' /\ Outcome(lo, lo)
<1>1. /\ mem' = [mem EXCEPT ![slot][wptr] = queued + 1] /\ wptr' = wptr + 1 /\ queued' = queued + 1
      /\ UNCHANGED <<slot, flushed, ring, executed, dropped>>
  BY DEF Write, kernel
<1>2. slot \in Buffers /\ slot # NoBuffer /\ wptr \in 0 .. Size - 1
  BY SizeAssumption, GrabAssumption, BufferAssumption DEF Write, IInv, PhaseOK, PointersOK, TypeOK
<1>3. /\ \A c \in Buffers, k \in 0 .. Size - 1 : mem'[c][k] = IF c = slot /\ k = wptr THEN queued + 1 ELSE mem[c][k]
      /\ \A i \in DOMAIN ring : \A k \in Nat : ring[i].from <= k /\ k < ring[i].to =>
           mem'[ring[i].buf][k] = mem[ring[i].buf][k]
  <2>1. \A i \in DOMAIN ring : ring[i].buf = slot => ring[i].to <= wptr
    BY Plain
  <2>2. queued + 1 \in Nat
    BY Plain
  <2> QED
    BY <1>1, <1>2, <2>1, <2>2, Written
<1>4. \A i, k, n \in Nat : Sent(i, k, n)' <=> Sent(i, k, n)
  BY <1>1, <1>3 DEF Sent
<1>5. \A i, k, n \in Nat : Unsent(i, k, n)' <=>
        Unsent(i, k, n) \/ (i = Len(ring) + 1 /\ k = wptr /\ n = queued + 1)
  <2>1. \A k \in Nat : flushed <= k /\ k < wptr => mem'[slot][k] = mem[slot][k]
    BY <1>2, <1>3, Plain
  <2>2. mem'[slot][wptr] = queued + 1 /\ flushed <= wptr /\ wptr \in Nat
    BY <1>2, <1>3, Plain
  <2> QED
    BY <1>1, <1>2, <2>1, <2>2 DEF Unsent
<1>6. \A i, k, n \in Nat : Holds(i, k, n)' <=>
        Holds(i, k, n) \/ (i = Len(ring) + 1 /\ k = wptr /\ n = queued + 1)
  BY <1>4, <1>5, Plain DEF Holds
\* What was there already is older, and before it.
<1>7. \A i, k, n \in Nat : Holds(i, k, n) => /\ n <= queued
                                            /\ (i < Len(ring) + 1 \/ (i = Len(ring) + 1 /\ k < wptr))
  BY Plain DEF UnderWay, Holds, Sent, Unsent
<1>8. ASSUME NEW i \in Nat, NEW j \in Nat, NEW k \in Nat, NEW m \in Nat, NEW n \in Nat, NEW o \in Nat,
             Holds(i, k, n)', Holds(j, m, o)', Before(<<i, k>>, <<j, m>>)
      PROVE  n < o
  <2>1. CASE Holds(i, k, n) /\ Holds(j, m, o)
    BY <1>8, <2>1 DEF UnderWay
  <2>2. CASE Holds(i, k, n) /\ o = queued + 1
    BY <1>7, <2>2, Plain
  <2>3. CASE ~Holds(i, k, n)
    <3>1. i = Len(ring) + 1 /\ k = wptr /\ n = queued + 1
      BY <1>6, <1>8, <2>3
    <3>2. j < Len(ring) + 1 \/ (j = Len(ring) + 1 /\ m <= wptr)
      BY <1>6, <1>7, <1>8, Plain
    <3> QED
      BY <1>8, <3>1, <3>2, Plain DEF Before
  <2> QED
    BY <1>6, <1>8, <2>1, <2>2, <2>3
<1>9. \A n \in Nat : lo < n /\ n <= queued + 1 => \E i, k \in Nat : Holds(i, k, n)'
  <2>1. SUFFICES ASSUME NEW n \in Nat, lo < n, n <= queued + 1 PROVE \E i, k \in Nat : Holds(i, k, n)'
    OBVIOUS
  <2>2. CASE n <= queued
    BY <1>6, <2>1, <2>2 DEF UnderWay
  <2>3. CASE n = queued + 1
    <3>1. Len(ring) + 1 \in Nat /\ wptr \in Nat
      BY Plain
    <3> QED
      BY <1>6, <2>3, <3>1
  <2> QED
    BY <2>1, <2>2, <2>3, Plain
<1>10. \A i, k, n \in Nat : Holds(i, k, n)' => lo < n /\ n <= queued + 1
  BY <1>6, Plain DEF UnderWay
<1>11. executed <= lo /\ lo <= queued + 1 /\ (dropped \/ lo = executed)
  BY Plain DEF UnderWay
<1> QED
  BY <1>1, <1>8, <1>9, <1>10, <1>11 DEF UnderWay, Outcome

LEMMA PadStreams ==
  ASSUME IInv, NEW lo \in Nat, UnderWay(lo), Pad
  PROVE  UnderWay(lo)' /\ Outcome(lo, lo)
<1>1. UNCHANGED <<slot, flushed, ring, executed, dropped, queued>>
  BY DEF Pad, kernel
<1>2. CASE UNCHANGED <<mem, wptr>>
  <2>1. \A i, k, n \in Nat : Holds(i, k, n)' <=> Holds(i, k, n)
    BY <1>1, <1>2 DEF Holds, Sent, Unsent
  <2> QED
    BY <1>1, <2>1, Stays
<1>3. CASE Size - wptr >= 1 /\ mem' = [mem EXCEPT ![slot][wptr] = 0] /\ wptr' = wptr + 1
  <2>1. slot \in Buffers /\ slot # NoBuffer /\ wptr \in 0 .. Size - 1
    BY <1>3, Plain DEF Pad, IInv, PhaseOK, TypeOK
  <2>2. /\ \A c \in Buffers, k \in 0 .. Size - 1 : mem'[c][k] = IF c = slot /\ k = wptr THEN 0 ELSE mem[c][k]
        /\ \A i \in DOMAIN ring : \A k \in Nat : ring[i].from <= k /\ k < ring[i].to =>
             mem'[ring[i].buf][k] = mem[ring[i].buf][k]
    <3>1. \A i \in DOMAIN ring : ring[i].buf = slot => ring[i].to <= wptr
      BY Plain
    <3>2. mem' = [mem EXCEPT ![slot][wptr] = 0] /\ 0 \in Nat
      BY <1>3
    <3>3. /\ \A c \in Buffers, k \in 0 .. Size - 1 : mem'[c][k] = IF c = slot /\ k = wptr THEN 0 ELSE mem[c][k]
          /\ (\A i \in DOMAIN ring : ring[i].buf = slot => ring[i].to <= wptr) =>
               \A i \in DOMAIN ring : \A k \in Nat : ring[i].from <= k /\ k < ring[i].to =>
                 mem'[ring[i].buf][k] = mem[ring[i].buf][k]
      BY <2>1, <3>2, Written
    <3> QED
      BY <3>1, <3>3
  <2>3. \A i, k, n \in Nat : Sent(i, k, n)' <=> Sent(i, k, n)
    BY <1>1, <2>2 DEF Sent
  <2>4. \A i, k, n \in Nat : n # 0 => (Unsent(i, k, n)' <=> Unsent(i, k, n))
    <3>1. \A k \in Nat : flushed <= k /\ k < wptr => mem'[slot][k] = mem[slot][k]
      BY <2>1, <2>2, Plain
    <3>2. mem'[slot][wptr] = 0 /\ flushed <= wptr /\ wptr \in Nat
      BY <2>1, <2>2, Plain
    <3> QED
      BY <1>1, <1>3, <2>1, <3>1, <3>2 DEF Unsent
  <2>5. \A i, k, n \in Nat : Holds(i, k, n)' <=> Holds(i, k, n)
    BY <2>3, <2>4 DEF Holds
  <2> QED
    BY <1>1, <2>5, Stays
<1> QED
  BY <1>2, <1>3, Plain DEF Pad

\* A submission takes over what the current buffer had unsubmitted.
LEMMA SubmitStreams ==
  ASSUME IInv, NEW lo \in Nat, UnderWay(lo), FlushSubmit \/ DiscardSubmit
  PROVE  UnderWay(lo)' /\ Outcome(lo, lo)
<1>1. PICK discard \in BOOLEAN : ring' = Append(ring, Submission(slot, flushed, wptr, discard))
  BY DEF FlushSubmit, DiscardSubmit
<1> DEFINE s == Submission(slot, flushed, wptr, discard)
<1>2. /\ UNCHANGED <<mem, executed, dropped, queued>> /\ slot # NoBuffer
      /\ slot' = NoBuffer \/ flushed' = wptr'
  BY Plain DEF FlushSubmit, DiscardSubmit, IInv, PhaseOK
<1>3. s \in Submissions /\ s.buf = slot /\ s.from = flushed /\ s.to = wptr
  BY <1>2, Plain DEF Submission, Submissions, IInv, TypeOK
<1> HIDE DEF s
<1>4. /\ Len(ring') = Len(ring) + 1 /\ DOMAIN ring' = 1 .. Len(ring) + 1 /\ ring'[Len(ring) + 1] = s
      /\ \A i \in DOMAIN ring : ring'[i] = ring[i]
  <2>1. ring' = Append(ring, s) /\ ring \in Seq(Submissions)
    BY <1>1, Plain DEF s
  <2> QED
    BY <1>3, <2>1, AppendProperties
<1>5. \A i, k, n \in Nat : Sent(i, k, n)' <=> Sent(i, k, n) \/ Unsent(i, k, n)
  <2>1. \A i \in Nat : i \in DOMAIN ring' <=> i \in DOMAIN ring \/ i = Len(ring) + 1
    BY <1>4, Plain
  <2>2. ~(Len(ring) + 1 \in DOMAIN ring)
    BY Plain
  <2> QED
    BY <1>2, <1>3, <1>4, <2>1, <2>2 DEF Sent, Unsent
<1>6. \A i, k, n \in Nat : ~Unsent(i, k, n)'
  <2>1. wptr' \in Nat
    <3>1. wptr \in Nat
      BY Plain
    <3>2. wptr' = wptr \/ wptr' = wptr + 1
      BY DEF FlushSubmit, DiscardSubmit
    <3> QED
      BY <3>1, <3>2
  <2> QED
    BY <1>2, <2>1 DEF Unsent
<1>7. \A i, k, n \in Nat : Holds(i, k, n)' <=> Holds(i, k, n)
  BY <1>5, <1>6 DEF Holds
<1> QED
  BY <1>2, <1>7, Stays

\* A buffer that is granted holds nothing yet.
LEMMA GrantStreams ==
  ASSUME IInv, NEW lo \in Nat, UnderWay(lo), GetGranted
  PROVE  UnderWay(lo)' /\ Outcome(lo, lo)
<1>1. UNCHANGED <<mem, ring, executed, dropped, queued>>
  BY DEF GetGranted
<1>2. \A i, k, n \in Nat : Sent(i, k, n)' <=> Sent(i, k, n)
  BY <1>1 DEF Sent
<1>3. \A i, k, n \in Nat : Unsent(i, k, n)' <=> Unsent(i, k, n)
  <2>1. CASE after = "hold"
    BY <1>1, <2>1 DEF GetGranted, cs, Unsent
  <2>2. CASE after # "hold"
    <3>1. slot = NoBuffer
      BY <2>2 DEF GetGranted, IInv, PhaseOK
    <3>2. flushed' = 0 /\ wptr' = 0
      BY <2>2 DEF GetGranted
    <3> QED
      BY <3>1, <3>2 DEF Unsent
  <2> QED
    BY <2>1, <2>2
<1>4. \A i, k, n \in Nat : Holds(i, k, n)' <=> Holds(i, k, n)
  BY <1>2, <1>3 DEF Holds
<1> QED
  BY <1>1, <1>4, Stays

\* An indirect buffer that is discarded holds only padding, and goes before what is not submitted.
LEMMA DiscardStreams ==
  ASSUME IInv, NEW lo \in Nat, UnderWay(lo), NEW b \in held, IndirectBufferDiscard(b)
  PROVE  UnderWay(lo)' /\ Outcome(lo, lo)
<1> DEFINE s == Submission(b, 0, 1, TRUE)
           g == [i \in Nat |-> IF i <= Len(ring) THEN i ELSE i - 1]
<1>1. /\ mem' = [mem EXCEPT ![b][0] = 0] /\ ring' = Append(ring, s)
      /\ UNCHANGED <<slot, flushed, wptr, executed, dropped, queued>>
  BY DEF IndirectBufferDiscard, cs
<1>2. b \in Buffers /\ b # slot /\ \A i \in DOMAIN ring : ring[i].buf # b
  BY Plain
<1>3. s \in Submissions /\ s.buf = b /\ s.from = 0 /\ s.to = 1
  BY <1>2, SizeAssumption DEF Submission, Submissions
<1> HIDE DEF s
<1>4. /\ Len(ring') = Len(ring) + 1 /\ DOMAIN ring' = 1 .. Len(ring) + 1 /\ ring'[Len(ring) + 1] = s
      /\ \A i \in DOMAIN ring : ring'[i] = ring[i]
  BY <1>1, <1>3, Plain, AppendProperties
<1>5. /\ mem'[b][0] = 0
      /\ \A i \in DOMAIN ring : \A k \in Nat : ring[i].from <= k /\ k < ring[i].to =>
           mem'[ring[i].buf][k] = mem[ring[i].buf][k]
      /\ \A k \in Nat : slot # NoBuffer /\ k < wptr => mem'[slot][k] = mem[slot][k]
  <2>1. 0 \in 0 .. Size - 1 /\ 0 \in Nat
    BY SizeAssumption
  <2>2. /\ \A c \in Buffers, k \in 0 .. Size - 1 : mem'[c][k] = IF c = b /\ k = 0 THEN 0 ELSE mem[c][k]
        /\ \A i \in DOMAIN ring : \A k \in Nat : ring[i].from <= k /\ k < ring[i].to =>
             mem'[ring[i].buf][k] = mem[ring[i].buf][k]
    BY <1>1, <1>2, <2>1, Written
  <2>3. slot # NoBuffer => slot \in Buffers
    BY DEF IInv, TypeOK
  <2>4. mem'[b][0] = 0
    BY <1>2, <2>1, <2>2
  <2>5. ASSUME NEW k \in Nat, slot # NoBuffer, k < wptr PROVE mem'[slot][k] = mem[slot][k]
    <3>1. k \in 0 .. Size - 1 /\ slot \in Buffers
      BY <2>3, <2>5, Plain
    <3>2. slot # b
      BY Plain
    <3> QED
      BY <2>2, <3>1, <3>2
  <2> QED
    BY <2>2, <2>4, <2>5
<1>6. \A i, k, n \in Nat : n # 0 => (Sent(i, k, n)' <=> Sent(i, k, n))
  <2>1. \A i \in Nat : i \in DOMAIN ring' <=> i \in DOMAIN ring \/ i = Len(ring) + 1
    BY <1>4, Plain
  <2>2. ~(Len(ring) + 1 \in DOMAIN ring)
    BY Plain
  <2>3. \A k \in Nat : s.from <= k /\ k < s.to => mem'[s.buf][k] = 0
    BY <1>3, <1>5
  <2> QED
    BY <1>4, <1>5, <2>1, <2>2, <2>3 DEF Sent
<1>7. \A i, k, n \in Nat : Unsent(i + 1, k, n)' <=> Unsent(i, k, n)
  BY <1>1, <1>4, <1>5, Plain DEF Unsent
<1>8. \A i, k, n \in Nat : Holds(i, k, n)' =>
        \/ i <= Len(ring) /\ Holds(i, k, n)
        \/ i = Len(ring) + 2 /\ Holds(i - 1, k, n)
  <2>1. SUFFICES ASSUME NEW i \in Nat, NEW k \in Nat, NEW n \in Nat, Holds(i, k, n)'
                 PROVE  \/ i <= Len(ring) /\ Holds(i, k, n)
                        \/ i = Len(ring) + 2 /\ Holds(i - 1, k, n)
    OBVIOUS
  <2>2. CASE Sent(i, k, n)'
    <3>1. n # 0
      BY <2>1 DEF Holds
    <3>2. Sent(i, k, n)
      BY <1>6, <2>2, <3>1
    <3>3. i <= Len(ring)
      <4>1. i \in DOMAIN ring
        BY <3>2 DEF Sent
      <4> QED
        BY <4>1, Plain
    <3> QED
      BY <3>1, <3>2, <3>3 DEF Holds
  <2>3. CASE Unsent(i, k, n)'
    <3>1. i = Len(ring) + 2 /\ i - 1 \in Nat /\ (i - 1) + 1 = i
      BY <1>4, <2>3, Plain DEF Unsent
    <3> DEFINE j == i - 1
    <3>2. j \in Nat /\ j + 1 = i
      BY <3>1
    <3> HIDE DEF j
    <3>3. Unsent(j + 1, k, n)'
      BY <2>3, <3>2
    <3>4. Unsent(j, k, n)
      BY <1>7, <3>2, <3>3
    <3> QED
      BY <2>1, <3>1, <3>4 DEF Holds, j
  <2> QED
    BY <2>1, <2>2, <2>3 DEF Holds
<1>9. \A i, k, n \in Nat : Holds(i, k, n) => \E j \in Nat : Holds(j, k, n)'
  <2>1. SUFFICES ASSUME NEW i \in Nat, NEW k \in Nat, NEW n \in Nat, Holds(i, k, n)
                 PROVE  Holds(i, k, n)' \/ Holds(i + 1, k, n)'
    OBVIOUS
  <2> QED
    BY <1>6, <1>7, <2>1 DEF Holds
<1>10. g \in [Nat -> Nat] /\ \A i \in Nat : g[i] = IF i <= Len(ring) THEN i ELSE i - 1
  BY Plain
<1> HIDE DEF g
<1>11. /\ \A i, k, n \in Nat : Holds(i, k, n)' => Holds(g[i], k, n)
       /\ \A i, j, k, m, n, o \in Nat : Holds(i, k, n)' /\ Holds(j, m, o)' /\ i < j => g[i] < g[j]
  <2>0. Len(ring) \in Nat
    BY Plain
  <2>1. ASSUME NEW i \in Nat, NEW k \in Nat, NEW n \in Nat, Holds(i, k, n)' PROVE Holds(g[i], k, n)
    <3>1. CASE i <= Len(ring) /\ Holds(i, k, n)
      BY <1>10, <3>1
    <3>2. CASE i = Len(ring) + 2 /\ Holds(i - 1, k, n)
      <4>1. ~(i <= Len(ring))
        BY <2>0, <3>2
      <4>2. g[i] = i - 1
        BY <1>10, <4>1
      <4> QED
        BY <3>2, <4>2
    <3> QED
      BY <1>8, <2>1, <3>1, <3>2
  <2>2. \A i, k, n \in Nat : Holds(i, k, n)' => i <= Len(ring) \/ i = Len(ring) + 2
    BY <1>8
  <2>3. ASSUME NEW i \in Nat, NEW j \in Nat, i <= Len(ring) \/ i = Len(ring) + 2, j <= Len(ring) \/ j = Len(ring) + 2,
               i < j
        PROVE  g[i] < g[j]
    <3>1. i <= Len(ring)
      BY <2>0, <2>3
    <3>2. g[i] = i /\ g[j] = IF j <= Len(ring) THEN j ELSE j - 1
      BY <1>10, <3>1
    <3> QED
      BY <2>0, <2>3, <3>1, <3>2
  <2> QED
    BY <2>1, <2>2, <2>3
<1> QED
  BY <1>1, <1>9, <1>10, <1>11, Moved

\* A submission that is done held nothing any more.
LEMMA RetireStreams ==
  ASSUME IInv, NEW lo \in Nat, UnderWay(lo), CpRetire
  PROVE  UnderWay(lo)' /\ Outcome(lo, lo)
<1> DEFINE g == [i \in Nat |-> i + 1]
<1>1. /\ ring # << >> /\ ring' = Tail(ring) /\ Head(ring).from = Head(ring).to
      /\ UNCHANGED <<mem, slot, flushed, wptr, executed, dropped, queued>>
  BY DEF CpRetire, cs
<1>2. /\ Len(ring) > 0 /\ Len(ring') = Len(ring) - 1 /\ DOMAIN ring' = 1 .. Len(ring) - 1
      /\ \A i \in 1 .. Len(ring) - 1 : ring'[i] = ring[i + 1]
      /\ ring[1].from = ring[1].to /\ ring[1].to \in Nat
  <2>1. /\ Tail(ring) \in Seq(Submissions) /\ Len(Tail(ring)) = Len(ring) - 1
        /\ \A i \in 1 .. Len(Tail(ring)) : Tail(ring)[i] = ring[i + 1]
    BY <1>1, Plain, HeadTailProperties
  <2>2. Len(ring) > 0 /\ Head(ring) = ring[1]
    BY <1>1, Plain
  <2>3. DOMAIN Tail(ring) = 1 .. Len(Tail(ring))
    BY <2>1
  <2>4. 1 \in DOMAIN ring
    BY <2>2, Plain
  <2>5. ring[1].to \in Nat
    BY <2>4, Plain
  <2> QED
    BY <1>1, <2>1, <2>2, <2>3, <2>5
<1>3. \A i, k, n \in Nat : Sent(i, k, n)' => Sent(i + 1, k, n)
  BY <1>1, <1>2, Plain DEF Sent
<1>4. \A i, k, n \in Nat : Unsent(i, k, n)' => Unsent(i + 1, k, n)
  BY <1>1, <1>2, Plain DEF Unsent
<1>5. \A i, k, n \in Nat : Holds(i, k, n) => \E j \in Nat : Holds(j, k, n)'
  <2>1. SUFFICES ASSUME NEW i \in Nat, NEW k \in Nat, NEW n \in Nat, Holds(i, k, n)
                 PROVE  \E j \in Nat : Holds(j, k, n)'
    OBVIOUS
  <2>2. i \in 1 .. Len(ring) + 1 /\ i # 1
    <3>1. CASE Sent(i, k, n)
      BY <1>2, <3>1, Plain DEF Sent
    <3>2. CASE Unsent(i, k, n)
      BY <1>2, <3>2, Plain DEF Unsent
    <3> QED
      BY <2>1, <3>1, <3>2 DEF Holds
  <2>3. PICK j \in Nat : i = j + 1 /\ j \in 1 .. Len(ring)
    <3>1. i - 1 \in Nat /\ i = (i - 1) + 1 /\ i - 1 \in 1 .. Len(ring)
      BY <2>2, Plain
    <3> QED
      BY <3>1
  <2>4. CASE Sent(i, k, n)
    <3>1. j \in 1 .. Len(ring) - 1
      BY <2>3, <2>4, Plain DEF Sent
    <3>2. Sent(j, k, n)'
      BY <1>1, <1>2, <2>3, <2>4, <3>1 DEF Sent
    <3> QED
      BY <2>1, <3>2 DEF Holds
  <2>5. CASE Unsent(i, k, n)
    <3>0. j = Len(ring') + 1
      <4>1. i = Len(ring) + 1 /\ Len(ring) \in Nat
        BY <2>5, Plain DEF Unsent
      <4> QED
        BY <1>2, <2>3, <4>1
    <3>1. Unsent(j, k, n)'
      BY <1>1, <2>5, <3>0 DEF Unsent
    <3> QED
      BY <2>1, <3>1 DEF Holds
  <2> QED
    BY <2>1, <2>4, <2>5 DEF Holds
<1>6. g \in [Nat -> Nat] /\ \A i \in Nat : g[i] = i + 1
  OBVIOUS
<1> HIDE DEF g
<1>7. /\ \A i, k, n \in Nat : Holds(i, k, n)' => Holds(g[i], k, n)
      /\ \A i, j, k, m, n, o \in Nat : Holds(i, k, n)' /\ Holds(j, m, o)' /\ i < j => g[i] < g[j]
  <2>1. ASSUME NEW i \in Nat, NEW k \in Nat, NEW n \in Nat, Holds(i, k, n)' PROVE Holds(g[i], k, n)
    <3>1. Holds(i + 1, k, n)
      BY <1>3, <1>4, <2>1 DEF Holds
    <3> QED
      BY <1>6, <3>1
  <2>2. \A i, j \in Nat : i < j => g[i] < g[j]
    BY <1>6
  <2> QED
    BY <2>1, <2>2
<1> QED
  BY <1>1, <1>5, <1>6, <1>7, Moved

\* The CP takes the word at the first place, which is the oldest one, or padding.
LEMMA ExecuteStreams ==
  ASSUME IInv, NEW lo \in Nat, UnderWay(lo), CpExecute
  PROVE  \E new \in Nat : UnderWay(new)' /\ Outcome(lo, new)
<1> DEFINE first == ring[1].from
<1>1. /\ ring # << >> /\ Head(ring).from < Head(ring).to
      /\ executed' = IF mem[Head(ring).buf][Head(ring).from] = 0 THEN executed ELSE mem[Head(ring).buf][Head(ring).from]
      /\ ring' = [ring EXCEPT ![1].from = Head(ring).from + 1]
      /\ UNCHANGED <<mem, slot, flushed, wptr, dropped, queued>>
  BY DEF CpExecute, cs
<1>2. Len(ring) > 0 /\ Head(ring) = ring[1] /\ 1 \in DOMAIN ring /\ ring[1] \in Submissions
  <2>1. Len(ring) > 0 /\ Head(ring) = ring[1]
    BY <1>1, Plain
  <2>2. 1 \in DOMAIN ring
    BY <2>1, Plain
  <2> QED
    BY <2>1, <2>2, Plain
<1>3. first \in 0 .. Size - 1 /\ first < ring[1].to /\ ring[1].buf \in Buffers /\ ring[1].to \in Nat
  BY <1>1, <1>2, Plain
<1>4. PICK w \in Nat : w = mem[ring[1].buf][first]
  <2>1. mem[ring[1].buf][first] \in Nat
    BY <1>3, Plain
  <2> QED
    BY <2>1
<1>5. /\ executed' = IF w = 0 THEN executed ELSE w
      /\ ring' = [ring EXCEPT ![1].from = first + 1]
  BY <1>1, <1>2, <1>4
<1>6. /\ DOMAIN ring' = DOMAIN ring /\ Len(ring') = Len(ring)
      /\ \A i \in DOMAIN ring : /\ ring'[i].buf = ring[i].buf /\ ring'[i].to = ring[i].to
                                /\ ring'[i].from = IF i = 1 THEN first + 1 ELSE ring[i].from
  <2>1. ring'[1] = [ring[1] EXCEPT !.from = first + 1] /\ \A i \in DOMAIN ring : i # 1 => ring'[i] = ring[i]
    BY <1>2, <1>5, Plain
  <2>2. ring'[1].buf = ring[1].buf /\ ring'[1].to = ring[1].to /\ ring'[1].from = first + 1
    BY <1>2, <2>1 DEF Submissions
  <2>3. DOMAIN ring' = DOMAIN ring /\ Len(ring') = Len(ring)
    BY <1>5, Plain
  <2> QED
    BY <2>1, <2>2, <2>3
<1>7. first \in Nat
  BY <1>3, Plain
<1>8. Sent(1, first, w)
  BY <1>2, <1>3, <1>4, <1>7 DEF Sent
<1> HIDE DEF first
<1>9. \A i, k, n \in Nat : Sent(i, k, n)' <=> Sent(i, k, n) /\ ~(i = 1 /\ k = first)
  <2>1. SUFFICES ASSUME NEW i \in Nat, NEW k \in Nat, NEW n \in Nat
                 PROVE  Sent(i, k, n)' <=> Sent(i, k, n) /\ ~(i = 1 /\ k = first)
    OBVIOUS
  <2>2. CASE i # 1
    BY <1>1, <1>6, <2>2 DEF Sent
  <2>3. CASE i = 1
    <3>1. /\ 1 \in DOMAIN ring' /\ ring'[1].from = first + 1 /\ ring'[1].to = ring[1].to
          /\ ring'[1].buf = ring[1].buf /\ mem' = mem
      BY <1>1, <1>2, <1>6
    <3>2. Sent(1, k, n)' <=> first + 1 <= k /\ k < ring[1].to /\ n = mem[ring[1].buf][k]
      BY <3>1 DEF Sent
    <3>3. Sent(1, k, n) <=> first <= k /\ k < ring[1].to /\ n = mem[ring[1].buf][k]
      BY <1>2 DEF Sent, first
    <3>4. first + 1 <= k <=> first <= k /\ k # first
      BY <1>7
    <3> QED
      BY <2>3, <3>2, <3>3, <3>4
  <2> QED
    BY <2>2, <2>3
<1>10. \A i, k, n \in Nat : Unsent(i, k, n)' <=> Unsent(i, k, n)
  BY <1>1, <1>6 DEF Unsent
<1>11. \A i, k, n \in Nat : Unsent(i, k, n) => i > 1
  BY <1>2, Plain DEF Unsent
<1>12. \A i, k, n \in Nat : Holds(i, k, n)' <=> Holds(i, k, n) /\ ~(i = 1 /\ k = first)
  BY <1>9, <1>10, <1>11 DEF Holds
<1>13. \A i, k, n \in Nat : Holds(i, k, n) /\ i = 1 /\ k = first => n = w
  BY <1>8, <1>11 DEF Holds, Sent
<1>14. CASE w = 0
  <2>1. \A i, k, n \in Nat : Holds(i, k, n)' <=> Holds(i, k, n)
    BY <1>12, <1>13, <1>14 DEF Holds
  <2>2. UNCHANGED <<queued, executed, dropped>>
    BY <1>1, <1>5, <1>14
  <2> QED
    BY <2>1, <2>2, Stays
<1>15. CASE w # 0
  <2>1. Holds(1, first, w) /\ 1 \in Nat
    BY <1>8, <1>15 DEF Holds
  <2>2. \A i, k, n \in Nat : Holds(i, k, n) /\ ~(i = 1 /\ k = first) => w < n
    <3>1. SUFFICES ASSUME NEW i \in Nat, NEW k \in Nat, NEW n \in Nat, Holds(i, k, n), ~(i = 1 /\ k = first)
                   PROVE  w < n
      OBVIOUS
    <3>2. i > 1 \/ (i = 1 /\ k > first)
      <4>1. CASE Unsent(i, k, n)
        BY <1>11, <4>1
      <4>2. CASE Sent(i, k, n)
        BY <1>7, <3>1, <4>2, Plain DEF Sent, first
      <4> QED
        BY <3>1, <4>1, <4>2 DEF Holds
    <3>3. Before(<<1, first>>, <<i, k>>)
      BY <3>2 DEF Before
    <3> QED
      BY <1>4, <1>7, <2>1, <3>1, <3>3 DEF UnderWay
  <2>3. w = lo + 1 /\ w <= queued
    <3>1. lo < w /\ w <= queued
      BY <1>4, <1>7, <2>1 DEF UnderWay
    <3>2. PICK i \in Nat, k \in Nat : Holds(i, k, lo + 1)
      <4>1. lo + 1 \in Nat /\ lo < lo + 1 /\ lo + 1 <= queued
        BY <1>4, <3>1, Plain
      <4> QED
        BY <4>1 DEF UnderWay
    <3>3. w = lo + 1 \/ w < lo + 1
      BY <1>13, <2>2, <3>2
    <3> QED
      BY <1>4, <3>1, <3>3
  <2>4. executed' = w /\ UNCHANGED <<queued, dropped>>
    BY <1>1, <1>5, <1>15
  <2>5. /\ \A i, k, n \in Nat : Holds(i, k, n)' => w < n /\ n <= queued
        /\ \A n \in Nat : w < n /\ n <= queued => \E i, k \in Nat : Holds(i, k, n)'
    <3>1. \A i, k, n \in Nat : Holds(i, k, n)' => w < n /\ n <= queued
      BY <1>12, <2>2 DEF UnderWay
    <3>2. ASSUME NEW n \in Nat, w < n, n <= queued PROVE \E i, k \in Nat : Holds(i, k, n)'
      <4>1. lo < n
        BY <2>3, <3>2
      <4>2. PICK i \in Nat, k \in Nat : Holds(i, k, n)
        BY <3>2, <4>1 DEF UnderWay
      <4>3. ~(i = 1 /\ k = first)
        BY <1>4, <1>13, <3>2, <4>2
      <4> QED
        BY <1>12, <4>2, <4>3
    <3> QED
      BY <3>1, <3>2
  <2>6. \A i, j, k, m, n, o \in Nat : Holds(i, k, n)' /\ Holds(j, m, o)' /\ Before(<<i, k>>, <<j, m>>) => n < o
    BY <1>12 DEF UnderWay
  <2>7. executed' <= w /\ w <= queued' /\ w = executed'
    BY <1>4, <2>3, <2>4
  <2>8. UnderWay(w)'
    BY <2>4, <2>5, <2>6, <2>7, Zenon DEF UnderWay
  <2>9. Outcome(lo, w)
    BY <2>3, <2>4 DEF Outcome
  <2> QED
    BY <1>4, <2>8, <2>9
<1> QED
  BY <1>14, <1>15

LEMMA Least ==
  ASSUME NEW T, T \subseteq Nat, T # {}
  PROVE  \E x \in T : \A y \in T : x <= y
<1>1. PICK x \in T : \A y \in T : <<y, x>> \notin OpToRel(<, Nat)
  BY NatLessThanWellFounded, WFMin
<1>2. \A y \in Nat : y < x => <<y, x>> \in OpToRel(<, Nat)
  BY DEF OpToRel
<1>3. \A y \in T : x <= y
  <2>1. SUFFICES ASSUME NEW y \in T PROVE ~(y < x)
    OBVIOUS
  <2>2. <<y, x>> \notin OpToRel(<, Nat) /\ y \in Nat
    BY <1>1
  <2> QED
    BY <1>2, <2>2
<1> QED
  BY <1>3

\* Submissions that are dropped were older than what is not submitted.
LEMMA DropStreams ==
  ASSUME IInv, NEW lo \in Nat, UnderWay(lo), Drop, UNCHANGED <<mem, slot, queued, executed>>,
         slot = NoBuffer \/ UNCHANGED <<flushed, wptr>>
  PROVE  \E new \in Nat : UnderWay(new)' /\ Outcome(lo, new)
<1> DEFINE last == Len(ring) + 1
           T == {n \in Nat : n # 0 /\ \E k \in Nat : Unsent(last, k, n)}
<1>1. ring' = << >> /\ dropped' = (dropped \/ ring # << >>)
  BY DEF Drop
<1>2. DOMAIN ring' = {} /\ Len(ring') = 0
  BY <1>1
<1>3. last \in Nat
  BY Plain
<1>4. \A k, n \in Nat : Unsent(1, k, n)' <=> Unsent(last, k, n)
  BY <1>2 DEF Unsent
<1> HIDE DEF last
<1>5. \A i, k, n \in Nat : Holds(i, k, n)' <=> i = 1 /\ n # 0 /\ Unsent(last, k, n)
  <2>1. \A i, k, n \in Nat : ~Sent(i, k, n)'
    BY <1>2 DEF Sent
  <2>2. \A i, k, n \in Nat : Unsent(i, k, n)' => i = 1
    BY <1>2 DEF Unsent
  <2> QED
    BY <1>4, <2>1, <2>2 DEF Holds
<1>6. CASE ring = << >>
  <2>1. DOMAIN ring = {} /\ last = 1 /\ dropped' = dropped
    BY <1>1, <1>6, Plain DEF last, IInv, TypeOK
  <2>2. \A i, k, n \in Nat : Holds(i, k, n) <=> i = 1 /\ n # 0 /\ Unsent(last, k, n)
    BY <2>1 DEF Holds, Sent, Unsent, last
  <2>3. \A i, k, n \in Nat : Holds(i, k, n)' <=> Holds(i, k, n)
    BY <1>5, <2>2
  <2> QED
    BY <2>1, <2>3, Stays
<1>7. CASE ring # << >>
  <2>1. dropped'
    BY <1>1, <1>7
  <2>2. \A k, n \in Nat : n # 0 /\ Unsent(last, k, n) => Holds(last, k, n)
    BY DEF Holds
  <2>3. \A i, k, n \in Nat : Holds(i, k, n) => Unsent(last, k, n) \/ (Sent(i, k, n) /\ i < last)
    BY Plain DEF Holds, Sent, Unsent, last
  <2>4. \A i, j, k, m, n, o \in Nat : Holds(i, k, n)' /\ Holds(j, m, o)' /\ Before(<<i, k>>, <<j, m>>) => n < o
    <3>1. SUFFICES ASSUME NEW i \in Nat, NEW j \in Nat, NEW k \in Nat, NEW m \in Nat, NEW n \in Nat, NEW o \in Nat,
                          Holds(i, k, n)', Holds(j, m, o)', Before(<<i, k>>, <<j, m>>)
                   PROVE  n < o
      OBVIOUS
    <3>2. i = 1 /\ j = 1 /\ Holds(last, k, n) /\ Holds(last, m, o)
      BY <1>5, <2>2, <3>1
    <3>3. Before(<<last, k>>, <<last, m>>)
      BY <3>1, <3>2 DEF Before
    <3> QED
      BY <1>3, <3>2, <3>3 DEF UnderWay
  <2>5. CASE T = {}
    <3>1. \A i, k, n \in Nat : ~Holds(i, k, n)'
      BY <1>5, <2>5
    <3>2. UnderWay(queued)'
      BY <2>1, <3>1, Plain DEF UnderWay
    <3>3. queued \in Nat /\ lo <= queued
      BY Plain DEF UnderWay
    <3>4. Outcome(lo, queued)
      <4>1. queued \in lo .. queued
        BY <3>3
      <4> QED
        BY <2>1, <4>1, Zenon DEF Outcome
    <3> QED
      BY <3>2, <3>3, <3>4
  <2>6. CASE T # {}
    <3>1. PICK w \in T : \A n \in T : w <= n
      <4>1. T \subseteq Nat
        OBVIOUS
      <4> HIDE DEF T
      <4> QED
        BY <2>6, <4>1, Least
    <3>2. PICK p \in Nat : w # 0 /\ w \in Nat /\ Holds(last, p, w)
      BY <2>2, <3>1
    <3>3. lo < w /\ w <= queued
      BY <1>3, <3>2 DEF UnderWay
    <3>4. PICK new \in Nat : w = new + 1
      <4>1. w - 1 \in Nat /\ w = (w - 1) + 1
        BY <3>2
      <4> QED
        BY <4>1
    <3>5. executed <= new /\ lo <= new /\ new <= queued
      BY <3>3, <3>4, Plain DEF UnderWay
    <3>6. \A i, k, n \in Nat : Holds(i, k, n)' => new < n /\ n <= queued
      <4>1. SUFFICES ASSUME NEW i \in Nat, NEW k \in Nat, NEW n \in Nat, Holds(i, k, n)'
                     PROVE  new < n /\ n <= queued
        OBVIOUS
      <4>2. n \in T /\ Holds(last, k, n)
        BY <1>5, <2>2, <4>1
      <4>3. w <= n
        BY <3>1, <4>2
      <4>4. n <= queued
        BY <1>3, <4>2 DEF UnderWay
      <4> QED
        BY <3>4, <4>3, <4>4
    <3>7. \A n \in Nat : new < n /\ n <= queued => \E i, k \in Nat : Holds(i, k, n)'
      <4>1. SUFFICES ASSUME NEW n \in Nat, new < n, n <= queued PROVE \E i, k \in Nat : Holds(i, k, n)'
        OBVIOUS
      <4>2. lo < n /\ w <= n
        BY <3>4, <3>5, <4>1
      <4>3. PICK i \in Nat, k \in Nat : Holds(i, k, n)
        BY <4>1, <4>2 DEF UnderWay
      <4>4. Unsent(last, k, n)
        <5>1. SUFFICES ASSUME i < last PROVE FALSE
          BY <2>3, <4>3
        <5>2. Before(<<i, k>>, <<last, p>>)
          BY <5>1 DEF Before
        <5>3. n < w
          BY <1>3, <3>2, <4>3, <5>2 DEF UnderWay
        <5> QED
          BY <3>2, <4>2, <5>3
      <4>5. Holds(1, k, n)'
        BY <1>5, <4>3, <4>4 DEF Holds
      <4> QED
        BY <4>5
    <3>8. UnderWay(new)'
      BY <2>1, <2>4, <3>5, <3>6, <3>7 DEF UnderWay, Before
    <3>9. new \in lo .. queued
      BY <3>5, Plain
    <3> QED
      BY <2>1, <3>8, <3>9 DEF Outcome
  <2> QED
    BY <2>5, <2>6
<1> QED
  BY <1>6, <1>7

\* A buffer is given back before the CP is stopped.
LEMMA StopStreams ==
  ASSUME IInv, NEW lo \in Nat, UnderWay(lo), StopReturns, UNCHANGED <<ring, dropped>>, pc = "stop"
  PROVE  UnderWay(lo)' /\ Outcome(lo, lo)
<1>1. UNCHANGED <<mem, slot, ring, queued, executed, dropped>>
  BY DEF StopReturns
<1>2. slot = NoBuffer
  BY DEF IInv, PhaseOK
<1>3. \A i, k, n \in Nat : Holds(i, k, n)' <=> Holds(i, k, n)
  BY <1>1, <1>2 DEF Holds, Sent, Unsent
<1> QED
  BY <1>1, <1>3, Stays

LEMMA StreamStep ==
  ASSUME IInv, NEW lo \in Nat, UnderWay(lo), [Next]_vars
  PROVE  \E new \in Nat : UnderWay(new)' /\ Outcome(lo, new)
<1>s. ASSUME UNCHANGED <<mem, slot, flushed, wptr, ring, queued, executed, dropped>>
      PROVE  UnderWay(lo)' /\ Outcome(lo, lo)
  <2>1. \A i, k, n \in Nat : Holds(i, k, n)' <=> Holds(i, k, n)
    BY <1>s DEF Holds, Sent, Unsent
  <2> QED
    BY <1>s, <2>1, Stays
<1>1. CASE Write
  BY <1>1, WriteStreams
<1>2. CASE Pad
  BY <1>2, PadStreams
<1>3. CASE FlushSubmit \/ DiscardSubmit
  BY <1>3, SubmitStreams
<1>4. CASE GetGranted
  BY <1>4, GrantStreams
<1>5. CASE \E b \in held : IndirectBufferDiscard(b)
  BY <1>5, DiscardStreams
<1>6. CASE CpExecute
  BY <1>6, ExecuteStreams
<1>7. CASE CpRetire
  BY <1>7, RetireStreams
<1>8. CASE Reset
  <2>1. Drop /\ UNCHANGED <<mem, slot, queued, executed, flushed, wptr>>
    BY <1>8 DEF Reset, cs
  <2> QED
    BY <2>1, DropStreams
<1>9. CASE StopIdle \/ StopError
  BY <1>9, StopStreams DEF StopIdle, StopError
<1>10. CASE StopNow
  <2>1. StopReturns /\ pc = "stop" /\ UNCHANGED <<mem, slot, queued, executed>> /\ slot = NoBuffer
    BY <1>10 DEF StopNow, StopReturns, IInv, PhaseOK
  <2>2. Drop \/ UNCHANGED <<ring, free, dropped>>
    BY <1>10 DEF StopNow
  <2>3. CASE Drop
    BY <2>1, <2>3, DropStreams
  <2>4. CASE UNCHANGED <<ring, free, dropped>>
    BY <2>1, <2>4, StopStreams
  <2> QED
    BY <2>2, <2>3, <2>4
<1>11. CASE \/ Start \/ Stop \/ IndirectBufferGet
            \/ \E n \in 1 .. MaxGrab : Grab(n)
            \/ \E next \in {"idle", "wait"} : Flush(next)
  BY <1>s, <1>11 DEF Start, Stop, IndirectBufferGet, Grab, Flush, cs, kernel
<1>12. CASE \/ GetBusy \/ GetGiveUp \/ StopBusy \/ IdleBusy \/ IdleDone \/ IdleFailed \/ UNCHANGED vars
  BY <1>s, <1>12 DEF GetBusy, GetGiveUp, StopBusy, IdleBusy, IdleDone, IdleFailed, cs, kernel, vars
<1> QED
  BY <1>1, <1>2, <1>3, <1>4, <1>5, <1>6, <1>7, <1>8, <1>9, <1>10, <1>11, <1>12 DEF Next, Server

LEMMA WaitingStep ==
  ASSUME PhaseOK, Waiting, [Next]_vars
  PROVE  Waiting'
<1> USE DEF Waiting
<1>1. CASE \E next \in {"idle", "wait"} : Flush(next)
  BY <1>1 DEF Flush, cs
<1>2. CASE \/ Start \/ Stop \/ IndirectBufferGet \/ Reset
           \/ \E n \in 1 .. MaxGrab : Grab(n)
           \/ \E b \in held : IndirectBufferDiscard(b)
  BY <1>2 DEF Start, Stop, IndirectBufferGet, Reset, Grab, IndirectBufferDiscard, cs, call
<1>3. CASE Write \/ Pad \/ FlushSubmit \/ DiscardSubmit \/ GetGranted \/ GetBusy \/ GetGiveUp
  BY <1>3 DEF Write, Pad, FlushSubmit, DiscardSubmit, GetGranted, GetBusy, GetGiveUp
<1>4. CASE StopBusy \/ StopIdle \/ StopError \/ StopNow
  BY <1>4 DEF StopBusy, StopIdle, StopError, StopNow, StopReturns
<1>5. CASE IdleBusy \/ IdleDone \/ IdleFailed \/ CpExecute \/ CpRetire
  BY <1>5 DEF IdleBusy, IdleDone, IdleFailed, CpExecute, CpRetire, cs, call
<1>6. CASE UNCHANGED vars
  BY <1>6 DEF vars
<1> QED
  BY <1>1, <1>2, <1>3, <1>4, <1>5, <1>6 DEF Next, Server

LEMMA InitStreams == Init => UnderWay(0) /\ Waiting
<1> SUFFICES ASSUME Init PROVE UnderWay(0) /\ Waiting
  OBVIOUS
<1>1. /\ ring = << >> /\ slot = NoBuffer /\ executed = 0 /\ queued = 0 /\ pc = "idle"
  BY DEF Init
<1>2. \A i, k, n \in Nat : ~Holds(i, k, n)
  BY <1>1 DEF Holds, Sent, Unsent
<1>3. UnderWay(0)
  BY <1>1, <1>2 DEF UnderWay
<1> QED
  BY <1>1, <1>3 DEF Waiting

StreamRight == \E lo \in Nat : UnderWay(lo)

LEMMA StreamInvariance == Spec => [](IInv /\ StreamRight /\ Waiting)
<1>1. Init => StreamRight /\ Waiting
  BY InitStreams DEF StreamRight
<1>2. IInv /\ StreamRight /\ Waiting /\ [Next]_vars => (StreamRight /\ Waiting)'
  <2>1. SUFFICES ASSUME IInv, StreamRight, Waiting, [Next]_vars PROVE StreamRight' /\ Waiting'
    OBVIOUS
  <2>2. PICK lo \in Nat : UnderWay(lo)
    BY <2>1 DEF StreamRight
  <2>3. StreamRight'
    BY <2>1, <2>2, StreamStep DEF StreamRight
  <2>4. Waiting'
    BY <2>1, WaitingStep DEF IInv
  <2> QED
    BY <2>3, <2>4
<1> QED
  BY <1>1, <1>2, InitIInv, StepIInv, PTL DEF Spec

\* When a sync routine has flushed and RHDCSIdle returned TRUE, everything written so far is executed,
\* unless submissions were dropped: an empty ring and nothing unsubmitted leave no word under way.
THEOREM SyncDone == Spec => SyncMeansDone
<1>1. ASSUME IInv, StreamRight, Waiting, IdleDone PROVE dropped \/ executed = queued
  <2>1. /\ pc = "wait" /\ ring = << >> /\ flushed = wptr
    BY <1>1 DEF IdleDone, Waiting
  <2>2. PICK lo \in Nat : UnderWay(lo)
    BY <1>1 DEF StreamRight
  <2>3. \A i, k, n \in Nat : ~Holds(i, k, n)
    <3>1. flushed \in Nat
      BY <1>1, Plain
    <3> QED
      BY <2>1, <3>1 DEF Holds, Sent, Unsent
  <2>4. queued \in Nat /\ executed \in Nat
    BY <1>1, Plain
  <2>5. ~(lo < queued)
    BY <2>2, <2>3, <2>4 DEF UnderWay
  <2> QED
    BY <2>2, <2>4, <2>5 DEF UnderWay
<1>2. IInv /\ StreamRight /\ Waiting /\ [Next]_vars => [IdleDone => dropped \/ executed = queued]_vars
  BY <1>1
<1> QED
  BY <1>2, StreamInvariance, PTL DEF Spec, SyncMeansDone
-----------------------------------------------------------------------------
(***************************************************************************)
(* The refinement mapping.  The rank of a place is the number of its word  *)
(* among those under way, so what is pending is the words after lo.        *)
(***************************************************************************)
Run(lo, hi) == [r \in 1 .. hi - lo |-> lo + r]

\* v numbers the elements of P from lo + 1 to hi.
Numbered(P, v, lo, hi) ==
  /\ \A p \in P : lo < v[p]
  /\ \A n \in Nat : lo < n /\ n <= hi => \E p \in P : v[p] = n
  /\ \A p, q \in P : v[p] = v[q] => p = q

Below(P, v, m) == {q \in P : v[q] < m}

LEMMA Counted ==
  ASSUME NEW P, NEW lo \in Nat, NEW hi \in Nat, NEW v \in [P -> Nat], Numbered(P, v, lo, hi),
         NEW m \in Nat, lo < m, m <= hi + 1
  PROVE  Cardinality(Below(P, v, m)) = m - lo - 1
<1> USE DEF Numbered
<1> DEFINE S == (lo + 1) .. (m - 1)
           T == {q \in P : v[q] < m}
           F == [n \in S |-> CHOOSE p \in P : v[p] = n]
<1>1. \A n \in S : n \in Nat /\ lo < n /\ n <= hi /\ n < m
  OBVIOUS
<1>2. \A n \in S : F[n] \in P /\ v[F[n]] = n
  <2>1. \A n \in S : \E p \in P : v[p] = n
    BY <1>1
  <2> QED
    BY <2>1
<1>3. F \in [S -> T]
  BY <1>1, <1>2
<1>4. \A a, b \in S : F[a] = F[b] => a = b
  BY <1>2
<1>5. \A q \in T : \E n \in S : F[n] = q
  <2>1. SUFFICES ASSUME NEW q \in T PROVE F[v[q]] = q /\ v[q] \in S
    OBVIOUS
  <2>2. v[q] \in S
    OBVIOUS
  <2> QED
    BY <1>2, <2>2
<1> HIDE DEF F
<1>6. F \in Bijection(S, T)
  BY <1>3, <1>4, <1>5, Fun_IsBij
<1>7. ExistsBijection(S, T)
  BY <1>6 DEF ExistsBijection
<1>8. lo + 1 \in Int /\ m - 1 \in Int
  OBVIOUS
<1>9. IsFiniteSet(S) /\ Cardinality(S) = m - lo - 1
  BY <1>8, FS_Interval
<1> HIDE DEF S, T
<1>10. IsFiniteSet(T) /\ Cardinality(T) = Cardinality(S)
  BY <1>7, <1>9, FS_Bijection
<1> QED
  BY <1>9, <1>10 DEF T, Below

\* A place is where a part holds a word.
LEMMA PlacesHold ==
  ASSUME IInv
  PROVE  /\ \A p \in Places : p = <<p[1], p[2]>> /\ p[1] \in Nat /\ p[2] \in Nat /\ Word(p) \in Nat
         /\ \A i, k, n \in Nat : Holds(i, k, n) <=> <<i, k>> \in Places /\ Word(<<i, k>>) = n
<1> DEFINE last == Submission(slot, flushed, IF slot = NoBuffer THEN flushed ELSE wptr, FALSE)
<1>1. /\ Len(ring) \in Nat /\ DOMAIN ring = 1 .. Len(ring) /\ DOMAIN Parts = 1 .. Len(ring) + 1
      /\ Parts[Len(ring) + 1] = last
      /\ \A i \in 1 .. Len(ring) : Parts[i] = ring[i]
  <2>1. ring \in Seq(Submissions) /\ Len(ring) \in Nat /\ DOMAIN ring = 1 .. Len(ring)
    BY Plain
  <2> HIDE DEF last
  <2>2. /\ Len(Append(ring, last)) = Len(ring) + 1 /\ DOMAIN Append(ring, last) = 1 .. Len(ring) + 1
        /\ Append(ring, last)[Len(ring) + 1] = last
        /\ \A i \in 1 .. Len(ring) : Append(ring, last)[i] = ring[i]
    BY <2>1
  <2>3. Parts = Append(ring, last)
    BY DEF Parts, last
  <2> QED
    BY <2>1, <2>2, <2>3
<1>2. /\ last.buf = slot /\ last.from = flushed
      /\ last.to = IF slot = NoBuffer THEN flushed ELSE wptr
  BY DEF Submission
<1> HIDE DEF last
<1>3. slot \in Buffers \union {NoBuffer}
  BY DEF IInv, TypeOK
<1>4. \A i \in DOMAIN Parts : Parts[i].from \in Nat /\ Parts[i].to \in 0 .. Size
  <2>1. SUFFICES ASSUME NEW i \in DOMAIN Parts PROVE Parts[i].from \in Nat /\ Parts[i].to \in 0 .. Size
    OBVIOUS
  <2>2. CASE i \in DOMAIN ring
    BY <1>1, <2>2, Plain
  <2>3. CASE i = Len(ring) + 1
    BY <1>1, <1>2, <2>3, Plain
  <2> QED
    BY <1>1, <2>2, <2>3
<1>5. \A p : p \in Places <=>
        \E i \in DOMAIN Parts : \E k \in Parts[i].from .. Parts[i].to - 1 :
           p = <<i, k>> /\ mem[Parts[i].buf][k] # 0
  BY DEF Places, Word
<1>6. ASSUME NEW i \in Nat, NEW k \in Nat
      PROVE  <<i, k>> \in Places <=>
               i \in DOMAIN Parts /\ Parts[i].from <= k /\ k < Parts[i].to /\ mem[Parts[i].buf][k] # 0
  <2>1. <<i, k>> \in Places <=>
               i \in DOMAIN Parts /\ k \in Parts[i].from .. Parts[i].to - 1 /\ mem[Parts[i].buf][k] # 0
    BY <1>5
  <2> QED
    BY <1>4, <2>1, Plain
<1>7. \A i, k, n \in Nat : Holds(i, k, n) <=> <<i, k>> \in Places /\ Word(<<i, k>>) = n
  <2>1. SUFFICES ASSUME NEW i \in Nat, NEW k \in Nat, NEW n \in Nat
                 PROVE  Holds(i, k, n) <=> <<i, k>> \in Places /\ mem[Parts[i].buf][k] = n
    BY DEF Word
  <2>2. CASE i \in DOMAIN ring
    BY <1>1, <1>6, <2>2, Plain DEF Holds, Sent, Unsent
  <2>3. CASE i = Len(ring) + 1
    <3>1. i \notin DOMAIN ring /\ i \in DOMAIN Parts /\ Parts[i] = last /\ flushed \in Nat
      BY <1>1, <2>3, Plain
    <3>2. Holds(i, k, n) <=> n # 0 /\ slot # NoBuffer /\ flushed <= k /\ k < wptr /\ n = mem[slot][k]
      BY <2>3, <3>1 DEF Holds, Sent, Unsent
    <3>3. <<i, k>> \in Places <=> flushed <= k /\ k < last.to /\ mem[slot][k] # 0
      BY <1>2, <1>6, <3>1
    <3>4. k < last.to /\ flushed <= k <=> slot # NoBuffer /\ k < wptr /\ flushed <= k
      BY <1>2, <3>1
    <3> QED
      BY <1>2, <3>1, <3>2, <3>3, <3>4
  <2>4. CASE i \notin DOMAIN Parts
    BY <1>1, <1>6, <2>4 DEF Holds, Sent, Unsent
  <2> QED
    BY <1>1, <2>2, <2>3, <2>4
<1>8. ASSUME NEW p \in Places
      PROVE  p = <<p[1], p[2]>> /\ p[1] \in Nat /\ p[2] \in Nat /\ Word(p) \in Nat
  <2>0. PICK i \in DOMAIN Parts : \E k \in Parts[i].from .. Parts[i].to - 1 : p = <<i, k>>
    BY <1>5, <1>8
  <2>1. PICK k \in Parts[i].from .. Parts[i].to - 1 : p = <<i, k>>
    BY <2>0
  <2>2. i \in Nat /\ k \in Nat /\ k \in 0 .. Size - 1 /\ Parts[i].from <= k /\ k < Parts[i].to
    BY <1>1, <1>4, <2>1, Plain
  <2>3. Parts[i].buf \in Buffers
    <3>1. CASE i \in DOMAIN ring
      BY <1>1, <3>1, Plain
    <3>2. CASE i = Len(ring) + 1
      BY <1>1, <1>2, <1>3, <2>2, <3>2, Plain
    <3> QED
      BY <1>1, <2>1, <3>1, <3>2
  <2>4. mem[Parts[i].buf][k] \in Nat
    BY <2>2, <2>3, Plain
  <2> QED
    BY <2>1, <2>2, <2>4 DEF Word
<1> QED
  BY <1>7, <1>8

\* The words are in the order of their places, and each has one.
LEMMA PlacesOrdered ==
  ASSUME IInv, NEW lo \in Nat, UnderWay(lo)
  PROVE  /\ \A p \in Places : lo < Word(p) /\ Word(p) <= queued
         /\ \A n \in Nat : lo < n /\ n <= queued => \E p \in Places : Word(p) = n
         /\ \A p, q \in Places : Before(q, p) <=> Word(q) < Word(p)
         /\ \A p, q \in Places : Word(p) = Word(q) => p = q
<1>1. ASSUME NEW p \in Places
      PROVE  p[1] \in Nat /\ p[2] \in Nat /\ Word(p) \in Nat /\ Holds(p[1], p[2], Word(p))
  <2>1. p = <<p[1], p[2]>> /\ p[1] \in Nat /\ p[2] \in Nat /\ Word(p) \in Nat
    BY <1>1, PlacesHold
  <2> QED
    BY <1>1, <2>1, PlacesHold
<1>2. \A p \in Places : lo < Word(p) /\ Word(p) <= queued
  BY <1>1 DEF UnderWay
<1>3. ASSUME NEW n \in Nat, lo < n, n <= queued PROVE \E p \in Places : Word(p) = n
  <2>1. PICK i \in Nat, k \in Nat : Holds(i, k, n)
    BY <1>3 DEF UnderWay
  <2>2. <<i, k>> \in Places /\ Word(<<i, k>>) = n
    BY <2>1, PlacesHold
  <2> QED
    BY <2>2
<1>4. ASSUME NEW p \in Places, NEW q \in Places, Before(q, p) PROVE Word(q) < Word(p)
  <2>1. Before(<<q[1], q[2]>>, <<p[1], p[2]>>)
    BY <1>4 DEF Before
  <2>2. p[1] \in Nat /\ p[2] \in Nat /\ Word(p) \in Nat /\ Holds(p[1], p[2], Word(p))
    BY <1>1
  <2>3. q[1] \in Nat /\ q[2] \in Nat /\ Word(q) \in Nat /\ Holds(q[1], q[2], Word(q))
    BY <1>1
  <2> QED
    BY <2>1, <2>2, <2>3 DEF UnderWay
<1>5. ASSUME NEW p \in Places, NEW q \in Places, p # q PROVE Before(p, q) \/ Before(q, p)
  <2>1. p = <<p[1], p[2]>> /\ p[1] \in Nat /\ p[2] \in Nat
    BY PlacesHold
  <2>2. q = <<q[1], q[2]>> /\ q[1] \in Nat /\ q[2] \in Nat
    BY PlacesHold
  <2>3. p[1] # q[1] \/ p[2] # q[2]
    BY <1>5, <2>1, <2>2
  <2> QED
    BY <2>1, <2>2, <2>3 DEF Before
<1>6. \A p, q \in Places : Word(p) = Word(q) => p = q
  <2>1. SUFFICES ASSUME NEW p \in Places, NEW q \in Places, p # q PROVE Word(p) # Word(q)
    OBVIOUS
  <2>2. Word(p) < Word(q) \/ Word(q) < Word(p)
    BY <1>4, <1>5, <2>1
  <2> QED
    BY <1>1, <2>2
<1>7. \A p, q \in Places : Before(q, p) <=> Word(q) < Word(p)
  <2>1. SUFFICES ASSUME NEW p \in Places, NEW q \in Places, Word(q) < Word(p) PROVE Before(q, p)
    BY <1>4
  <2>2. Word(p) \in Nat /\ Word(q) \in Nat
    BY <1>1
  <2>3. p # q
    BY <2>1, <2>2
  <2>4. ~Before(p, q)
    BY <1>4, <2>1, <2>2
  <2> QED
    BY <1>5, <2>3, <2>4
<1> QED
  BY <1>2, <1>3, <1>6, <1>7

LEMMA Ranks ==
  ASSUME IInv, NEW lo \in Nat, UnderWay(lo)
  PROVE  /\ Cardinality(Places) = queued - lo
         /\ \A p \in Places : Rank(p, Places) = Word(p) - lo
<1> DEFINE P == Places
           v == [p \in P |-> Word(p)]
<1>1. queued \in Nat /\ lo <= queued
  BY Plain DEF UnderWay
<1>2. \A p \in P : v[p] = Word(p)
  OBVIOUS
<1>3. v \in [P -> Nat]
  BY PlacesHold
<1>o. /\ \A p \in P : lo < Word(p) /\ Word(p) <= queued
      /\ \A n \in Nat : lo < n /\ n <= queued => \E p \in P : Word(p) = n
      /\ \A p, q \in P : Before(q, p) <=> Word(q) < Word(p)
      /\ \A p, q \in P : Word(p) = Word(q) => p = q
  BY PlacesOrdered
<1> HIDE DEF P, v
<1>4. Numbered(P, v, lo, queued)
  BY <1>2, <1>o DEF Numbered
<1>5. ASSUME NEW m \in Nat, lo < m, m <= queued + 1
      PROVE  Cardinality(Below(P, v, m)) = m - lo - 1
  BY <1>1, <1>3, <1>4, <1>5, Counted
<1>6. Cardinality(P) = queued - lo
  <2>1. Below(P, v, queued + 1) = P
    <3>1. \A q \in P : v[q] \in Nat /\ v[q] <= queued
      BY <1>2, <1>3, <1>o
    <3> QED
      BY <1>1, <3>1 DEF Below
  <2>2. queued + 1 \in Nat /\ lo < queued + 1 /\ queued + 1 <= queued + 1
    BY <1>1
  <2>3. Cardinality(Below(P, v, queued + 1)) = (queued + 1) - lo - 1
    BY <1>5, <2>2
  <2>4. (queued + 1) - lo - 1 = queued - lo
    BY <1>1
  <2> QED
    BY <2>1, <2>3, <2>4
<1>7. ASSUME NEW p \in P PROVE Rank(p, P) = Word(p) - lo
  <2>1. v[p] \in Nat /\ lo < v[p] /\ v[p] <= queued + 1 /\ v[p] = Word(p)
    BY <1>1, <1>2, <1>3, <1>o
  <2>2. {q \in P : Before(q, p)} = Below(P, v, v[p])
    BY <1>2, <1>o DEF Below
  <2>3. Cardinality(Below(P, v, v[p])) = v[p] - lo - 1
    BY <1>5, <2>1
  <2>4. Rank(p, P) = (v[p] - lo - 1) + 1
    BY <2>2, <2>3 DEF Rank
  <2> QED
    BY <2>1, <2>4
<1> QED
  BY <1>6, <1>7 DEF P

\* So pending is the words from lo + 1 on, in order.
PendingRight == \A lo \in Nat : UnderWay(lo) => Pending = Run(lo, queued)

LEMMA PendingRuns == IInv => PendingRight
<1> SUFFICES ASSUME IInv, NEW lo \in Nat, UnderWay(lo) PROVE Pending = Run(lo, queued)
  BY DEF PendingRight
<1> DEFINE P == Places
<1>1. queued \in Nat /\ lo <= queued
  BY Plain DEF UnderWay
<1>2. /\ Cardinality(P) = queued - lo
      /\ \A p \in P : Rank(p, P) = Word(p) - lo
  BY Ranks
<1>3. /\ \A p \in P : Word(p) \in Nat
      /\ \A n \in Nat : lo < n /\ n <= queued => \E p \in P : Word(p) = n
  BY PlacesOrdered, PlacesHold
<1>4. Pending = [r \in 1 .. Cardinality(P) |-> Word(CHOOSE p \in P : Rank(p, P) = r)]
  BY DEF Pending
<1> HIDE DEF P
<1>5. ASSUME NEW r \in 1 .. queued - lo PROVE Word(CHOOSE p \in P : Rank(p, P) = r) = lo + r
  <2>1. lo + r \in Nat /\ lo < lo + r /\ lo + r <= queued
    BY <1>1
  <2>2. PICK p \in P : Word(p) = lo + r
    BY <1>3, <2>1
  <2>3. Rank(p, P) = r
    BY <1>1, <1>2, <2>2
  <2> DEFINE c == CHOOSE x \in P : Rank(x, P) = r
  <2>4. c \in P /\ Rank(c, P) = r
    BY <2>3
  <2> HIDE DEF c
  <2>5. Word(c) - lo = r /\ Word(c) \in Nat
    BY <1>2, <1>3, <2>4
  <2>6. Word(c) = lo + r
    BY <1>1, <2>5
  <2> QED
    BY <2>6 DEF c
<1> QED
  BY <1>2, <1>4, <1>5 DEF Run

LEMMA Runs ==
  ASSUME NEW lo \in Nat, NEW hi \in Nat, lo <= hi
  PROVE  /\ Run(lo, hi) \in Seq(Nat) /\ Len(Run(lo, hi)) = hi - lo
         /\ \A r \in 1 .. hi - lo : Run(lo, hi)[r] = lo + r
<1> DEFINE s == Run(lo, hi)
<1>1. s \in [1 .. hi - lo -> Nat] /\ \A r \in 1 .. hi - lo : s[r] = lo + r
  BY DEF Run
<1>2. hi - lo \in Nat
  OBVIOUS
<1> HIDE DEF s
<1>3. s \in Seq(Nat) /\ Len(s) = hi - lo
  BY <1>1, <1>2
<1> QED
  BY <1>1, <1>3 DEF s

\* A word that is written makes the run one longer, ...
LEMMA RunAppend ==
  ASSUME NEW lo \in Nat, NEW hi \in Nat, lo <= hi
  PROVE  Run(lo, hi + 1) = Append(Run(lo, hi), hi + 1)
<1> DEFINE s == Run(lo, hi)
           u == Run(lo, hi + 1)
<1>1. /\ s \in Seq(Nat) /\ Len(s) = hi - lo /\ \A r \in 1 .. hi - lo : s[r] = lo + r
  BY Runs
<1>2. /\ u \in Seq(Nat) /\ Len(u) = hi - lo + 1 /\ \A r \in 1 .. hi - lo + 1 : u[r] = lo + r
  <2>1. hi + 1 \in Nat /\ lo <= hi + 1 /\ (hi + 1) - lo = hi - lo + 1
    OBVIOUS
  <2> QED
    BY <2>1, Runs
<1> HIDE DEF s, u
<1>3. /\ Append(s, hi + 1) \in Seq(Nat) /\ Len(Append(s, hi + 1)) = hi - lo + 1
      /\ \A r \in 1 .. hi - lo : Append(s, hi + 1)[r] = lo + r
      /\ Append(s, hi + 1)[hi - lo + 1] = lo + (hi - lo + 1)
  BY <1>1, AppendProperties
<1>4. \A r \in 1 .. Len(u) : u[r] = Append(s, hi + 1)[r]
  <2>1. SUFFICES ASSUME NEW r \in 1 .. hi - lo + 1 PROVE u[r] = Append(s, hi + 1)[r]
    BY <1>2
  <2>2. r \in 1 .. hi - lo \/ r = hi - lo + 1
    BY <2>1
  <2> QED
    BY <1>2, <1>3, <2>2
<1>5. u = Append(s, hi + 1)
  BY <1>2, <1>3, <1>4, SeqEqual
<1> QED
  BY <1>5 DEF s, u

\* ... and one that leaves, or several that are dropped, take its front away.
LEMMA RunSuffix ==
  ASSUME NEW lo \in Nat, NEW hi \in Nat, NEW new \in lo .. hi
  PROVE  /\ Run(new, hi) = SubSeq(Run(lo, hi), new - lo + 1, hi - lo)
         /\ new = lo + 1 => /\ Run(lo, hi) # << >> /\ Head(Run(lo, hi)) = new
                            /\ Run(new, hi) = Tail(Run(lo, hi))
<1> DEFINE s == Run(lo, hi)
           u == Run(new, hi)
           d == SubSeq(s, new - lo + 1, hi - lo)
<1>1. new \in Nat /\ lo <= new /\ new <= hi /\ lo <= hi
  OBVIOUS
<1>2. s \in Seq(Nat) /\ Len(s) = hi - lo /\ \A r \in 1 .. hi - lo : s[r] = lo + r
  BY <1>1, Runs
<1>3. u \in Seq(Nat) /\ Len(u) = hi - new /\ \A r \in 1 .. hi - new : u[r] = new + r
  BY <1>1, Runs
<1>4. d \in Seq(Nat) /\ Len(d) = hi - new /\ \A r \in 1 .. hi - new : d[r] = new + r
  <2>1. d = [r \in 1 .. hi - new |-> s[r + (new - lo)]]
    <3>1. (hi - lo) - (new - lo + 1) + 1 = hi - new
      BY <1>1
    <3>2. d = [r \in 1 .. (hi - lo) - (new - lo + 1) + 1 |-> s[r + (new - lo + 1) - 1]]
      OBVIOUS
    <3>3. \A r \in 1 .. hi - new : r + (new - lo + 1) - 1 = r + (new - lo)
      BY <1>1
    <3> QED
      BY <3>1, <3>2, <3>3
  <2> HIDE DEF d, s
  <2>2. \A r \in 1 .. hi - new : r + (new - lo) \in 1 .. hi - lo /\ lo + (r + (new - lo)) = new + r /\ new + r \in Nat
    BY <1>1
  <2>3. \A r \in 1 .. hi - new : d[r] = new + r
    BY <1>2, <2>1, <2>2
  <2>4. d \in [1 .. hi - new -> Nat] /\ hi - new \in Nat
    BY <1>1, <1>2, <2>1, <2>2
  <2> QED
    BY <2>3, <2>4
<1> HIDE DEF s, u, d
<1>5. u = d
  BY <1>3, <1>4, SeqEqual
<1>6. ASSUME new = lo + 1 PROVE s # << >> /\ Head(s) = new /\ u = Tail(s)
  <2>1. Len(s) > 0 /\ s # << >> /\ Head(s) = s[1] /\ 1 \in 1 .. hi - lo
    BY <1>1, <1>2, <1>6
  <2>2. /\ Tail(s) \in Seq(Nat) /\ Len(Tail(s)) = Len(s) - 1
        /\ \A r \in 1 .. Len(Tail(s)) : Tail(s)[r] = s[r + 1]
    BY <1>2, <2>1, HeadTailProperties
  <2>3. Len(u) = Len(Tail(s))
    BY <1>1, <1>2, <1>3, <1>6, <2>2
  <2>4. \A r \in 1 .. Len(u) : u[r] = Tail(s)[r]
    BY <1>1, <1>2, <1>3, <1>6, <2>2
  <2>5. u = Tail(s)
    BY <1>3, <2>2, <2>3, <2>4, SeqEqual
  <2> QED
    BY <1>2, <1>6, <2>1, <2>5
<1> QED
  BY <1>5, <1>6 DEF s, u, d

LEMMA InitImplements ==
  ASSUME Init, IInv, PendingRight
  PROVE  Stream!Init
<1>1. UnderWay(0) /\ 0 \in Nat /\ queued = 0 /\ executed = 0 /\ dropped = FALSE
  BY InitStreams DEF Init
<1>2. Pending = Run(0, 0)
  BY <1>1 DEF PendingRight
<1>3. Run(0, 0) = << >>
  <2>1. Run(0, 0) \in Seq(Nat) /\ Len(Run(0, 0)) = 0
    BY Runs
  <2> HIDE DEF Run
  <2> QED
    BY <2>1, EmptySeq
<1> QED
  BY <1>1, <1>2, <1>3 DEF Stream!Init

\* Every step is a step of the command stream, or none.
LEMMA StepImplements ==
  ASSUME IInv, StreamRight, PendingRight, [Next]_vars, IInv', PendingRight'
  PROVE  [Stream!Next]_(Stream!vars)
<1>1. PICK lo \in Nat : UnderWay(lo)
  BY DEF StreamRight
<1>2. PICK new \in Nat : UnderWay(new)' /\ Outcome(lo, new)
  BY <1>1, StreamStep
<1>3. Pending = Run(lo, queued) /\ Pending' = Run(new, queued')
  BY <1>1, <1>2 DEF PendingRight
<1>4. queued \in Nat /\ lo <= queued
  BY <1>1, Plain DEF UnderWay
<1>5. CASE new = lo /\ UNCHANGED <<queued, executed, dropped>>
  BY <1>3, <1>5 DEF Stream!vars
<1>6. CASE new = lo /\ queued' = queued + 1 /\ UNCHANGED <<executed, dropped>>
  <2>1. Pending' = Append(Pending, queued + 1)
    BY <1>3, <1>4, <1>6, RunAppend
  <2> QED
    BY <1>6, <2>1 DEF Stream!Next, Stream!Queue
<1>7. CASE new = lo + 1 /\ new <= queued /\ executed' = new /\ UNCHANGED <<queued, dropped>>
  <2>1. new \in lo .. queued /\ new = lo + 1
    BY <1>4, <1>7
  <2>2. Pending # << >> /\ Head(Pending) = new /\ Pending' = Tail(Pending)
    BY <1>3, <1>4, <1>7, <2>1, RunSuffix
  <2> QED
    BY <1>7, <2>2 DEF Stream!Next, Stream!Execute
<1>8. CASE new \in lo .. queued /\ dropped' /\ UNCHANGED <<queued, executed>>
  <2>1. Pending' = SubSeq(Pending, new - lo + 1, queued - lo)
    BY <1>3, <1>4, <1>8, RunSuffix
  <2>2. Len(Pending) = queued - lo
    BY <1>3, <1>4, Runs
  <2>3. new - lo + 1 \in 1 .. Len(Pending) + 1 /\ queued - lo \in 0 .. Len(Pending)
    BY <1>4, <1>8, <2>2
  <2>4. dropped' = TRUE
    BY <1>8 DEF IInv, TypeOK
  <2> QED
    BY <1>8, <2>1, <2>3, <2>4 DEF Stream!Next, Stream!Lose
<1> QED
  BY <1>2, <1>5, <1>6, <1>7, <1>8 DEF Outcome

\* The DRM backend is a command stream: the CP executes every word once and in the order of writing,
\* across flushes, swaps of the buffer and stops, and only a reset or a stop that gave up loses any.
THEOREM Refinement == Spec => ImplementsStream
<1>1. IInv => PendingRight
  BY PendingRuns
<1>2. Init /\ IInv /\ PendingRight => Stream!Init
  BY InitImplements
<1>3. /\ IInv /\ StreamRight /\ PendingRight /\ [Next]_vars /\ IInv' /\ PendingRight'
      => [Stream!Next]_(Stream!vars)
  BY StepImplements
<1> QED
  BY <1>1, <1>2, <1>3, StreamInvariance, PTL DEF Spec, Stream!Spec, ImplementsStream
-----------------------------------------------------------------------------
(***************************************************************************)
(* A buffer to be had.                                                     *)
(***************************************************************************)

\* The pool is larger than what the accel code holds on to.
PoolSuffices == IsFiniteSet(Buffers) /\ MaxHeld < Cardinality(Buffers)

\* Nothing is written and no buffer is asked for before the CP is started.
Started == active \/ pc = "get" => running

\* The accel code asks for one more only when it holds fewer than it ever does.
HeldOK ==
  /\ Cardinality(held) <= MaxHeld
  /\ pc = "get" /\ after = "hold" => Cardinality(held) < MaxHeld

LEMMA StartedStep ==
  ASSUME PhaseOK, Started, [Next]_vars
  PROVE  Started'
<1> USE DEF Started
<1>1. CASE \/ Start \/ Stop \/ IndirectBufferGet \/ Reset
           \/ \E n \in 1 .. MaxGrab : Grab(n)
           \/ \E next \in {"idle", "wait"} : Flush(next)
           \/ \E b \in held : IndirectBufferDiscard(b)
  BY <1>1 DEF Start, Stop, IndirectBufferGet, Reset, Grab, Flush, IndirectBufferDiscard, cs, call, kernel
<1>2. CASE Write \/ Pad \/ FlushSubmit \/ DiscardSubmit
  BY <1>2 DEF Write, Pad, FlushSubmit, DiscardSubmit, kernel, PhaseOK
<1>3. CASE GetGranted \/ GetBusy \/ GetGiveUp
  BY <1>3 DEF GetGranted, GetBusy, GetGiveUp, cs, kernel
<1>4. CASE StopBusy \/ StopIdle \/ StopError \/ StopNow
  BY <1>4 DEF StopBusy, StopIdle, StopError, StopNow, StopReturns, cs, kernel
<1>5. CASE IdleBusy \/ IdleDone \/ IdleFailed \/ CpExecute \/ CpRetire
  BY <1>5 DEF IdleBusy, IdleDone, IdleFailed, CpExecute, CpRetire, cs, call, kernel
<1>6. CASE UNCHANGED vars
  BY <1>6 DEF vars
<1> QED
  BY <1>1, <1>2, <1>3, <1>4, <1>5, <1>6 DEF Next, Server

LEMMA OneMore ==
  ASSUME NEW S, NEW x, IsFiniteSet(S)
  PROVE  /\ IsFiniteSet(S \union {x}) /\ Cardinality(S) \in Nat
         /\ Cardinality(S \union {x}) \in Nat /\ Cardinality(S \union {x}) <= Cardinality(S) + 1
<1> DEFINE T == S \union {x}
<1>1. /\ IsFiniteSet(T)
      /\ Cardinality(T) = IF x \in S THEN Cardinality(S) ELSE Cardinality(S) + 1
  BY FS_AddElement
<1>2. Cardinality(S) \in Nat
  BY FS_CardinalityType
<1> HIDE DEF T
<1>3. Cardinality(T) \in Nat /\ Cardinality(T) <= Cardinality(S) + 1
  BY <1>1, <1>2
<1> QED
  BY <1>1, <1>2, <1>3 DEF T

LEMMA HeldStep ==
  ASSUME PoolSuffices, TypeOK, PhaseOK, HeldOK, [Next]_vars
  PROVE  HeldOK'
<1> USE DEF HeldOK
<1>1. /\ held \subseteq Buffers /\ free \subseteq Buffers /\ MaxHeld \in Nat
  BY BoundAssumption DEF TypeOK
<1>2. IsFiniteSet(held)
  BY <1>1, FS_Subset DEF PoolSuffices
<1>3. Cardinality(held) \in Nat
  BY <1>2, FS_CardinalityType
<1>4. CASE GetGranted
  <2>1. pc = "get" /\ pc' # "get"
    BY <1>4 DEF GetGranted
  <2>2. CASE after = "hold"
    <3>1. PICK b \in free : held' = held \union {b}
      BY <1>4, <2>2 DEF GetGranted
    <3>2. Cardinality(held \union {b}) \in Nat /\ Cardinality(held \union {b}) <= Cardinality(held) + 1
      BY <1>2, OneMore
    <3> QED
      BY <1>1, <1>3, <2>1, <2>2, <3>1, <3>2
  <2>3. CASE after # "hold"
    BY <1>4, <2>1, <2>3 DEF GetGranted
  <2> QED
    BY <2>2, <2>3
<1>5. ASSUME NEW b \in held, IndirectBufferDiscard(b) PROVE HeldOK'
  <2>1. held' = held \ {b} /\ pc = "idle" /\ pc' = pc
    BY <1>5 DEF IndirectBufferDiscard, call
  <2>2. Cardinality(held \ {b}) = Cardinality(held) - 1
    BY <1>2, <1>5, FS_RemoveElement
  <2> QED
    BY <1>1, <1>3, <2>1, <2>2
<1>6. CASE IndirectBufferGet
  BY <1>1, <1>3, <1>6 DEF IndirectBufferGet, kernel
<1>7. CASE \/ Start \/ Stop \/ Reset
           \/ \E n \in 1 .. MaxGrab : Grab(n)
           \/ \E next \in {"idle", "wait"} : Flush(next)
  BY <1>7 DEF Start, Stop, Reset, Grab, Flush, call, kernel
<1>8. CASE Write \/ Pad \/ FlushSubmit \/ DiscardSubmit \/ GetBusy \/ GetGiveUp
  BY <1>8 DEF Write, Pad, FlushSubmit, DiscardSubmit, GetBusy, GetGiveUp, kernel, PhaseOK
<1>9. CASE StopBusy \/ StopIdle \/ StopError \/ StopNow
  BY <1>9 DEF StopBusy, StopIdle, StopError, StopNow, StopReturns, kernel
<1>10. CASE IdleBusy \/ IdleDone \/ IdleFailed \/ CpExecute \/ CpRetire
  BY <1>10 DEF IdleBusy, IdleDone, IdleFailed, CpExecute, CpRetire, call, kernel
<1>11. CASE UNCHANGED vars
  BY <1>11 DEF vars
<1> QED
  BY <1>4, <1>5, <1>6, <1>7, <1>8, <1>9, <1>10, <1>11 DEF Next, Server

\* With none in the pool and none to come back, all buffers are with the accel code and the server.
LEMMA SomeBuffer ==
  ASSUME PoolSuffices, IInv, Started, HeldOK, pc = "get"
  PROVE  free # {} \/ (running /\ Discarded(ring) # {})
<1> SUFFICES ASSUME free = {}, Discarded(ring) = {} PROVE FALSE
  BY DEF Started
<1>1. /\ held \union {slot} = Buffers \union {slot}
      /\ held \subseteq Buffers /\ NoBuffer \notin Buffers /\ MaxHeld \in Nat
  BY BufferAssumption, BoundAssumption DEF IInv, TypeOK, BuffersConserved
<1>2. IsFiniteSet(held)
  BY <1>1, FS_Subset DEF PoolSuffices
<1>3. Cardinality(held) \in Nat /\ Cardinality(Buffers) \in Nat
  BY <1>2, FS_CardinalityType DEF PoolSuffices
<1>4. CASE slot = NoBuffer
  <2>1. Buffers = held
    BY <1>1, <1>4
  <2> QED
    BY <1>1, <1>3, <2>1 DEF HeldOK, PoolSuffices
<1>5. CASE slot # NoBuffer
  <2>1. after = "hold"
    BY <1>5 DEF IInv, PhaseOK
  <2>2. Buffers \subseteq held \union {slot}
    BY <1>1
  <2>3. /\ IsFiniteSet(held \union {slot}) /\ Cardinality(held \union {slot}) \in Nat
        /\ Cardinality(held \union {slot}) <= Cardinality(held) + 1
    BY <1>2, OneMore
  <2>4. Cardinality(Buffers) <= Cardinality(held \union {slot})
    BY <2>2, <2>3, FS_Subset
  <2>5. Cardinality(held) < MaxHeld
    BY <2>1 DEF HeldOK
  <2> QED
    BY <1>1, <1>3, <2>3, <2>4, <2>5 DEF PoolSuffices
<1> QED
  BY <1>4, <1>5

\* RHDDRMCPBuffer asks drmDMA for a buffer when there is one or when the running CP has one to give back,
\* so that only a CP that hangs makes it throw in the towel.
THEOREM GetsABuffer == PoolSuffices => (Spec => []GetCanSucceed)
<1> SUFFICES ASSUME PoolSuffices PROVE Spec => []GetCanSucceed
  OBVIOUS
<1>1. Init => Started /\ HeldOK
  <2>1. SUFFICES ASSUME Init PROVE Started /\ HeldOK
    OBVIOUS
  <2>2. held = {} /\ active = FALSE /\ pc = "idle"
    BY <2>1 DEF Init
  <2>3. Cardinality({}) = 0
    BY FS_EmptySet
  <2> QED
    BY <2>2, <2>3, BoundAssumption DEF Started, HeldOK
<1>2. IInv /\ Started /\ HeldOK /\ [Next]_vars => (Started /\ HeldOK)'
  BY StartedStep, HeldStep DEF IInv
<1>3. IInv /\ Started /\ HeldOK => GetCanSucceed
  BY SomeBuffer DEF GetCanSucceed
<1> QED
  BY <1>1, <1>2, <1>3, Invariance, PTL DEF Spec
=============================================================================
