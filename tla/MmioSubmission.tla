--------------------------- MODULE MmioSubmission ---------------------------
(***************************************************************************)
(* The MMIO backend of rhd_cs.c (CSMMIOxxx), used on R5xx without DRI, with *)
(* the generic calls around it (RHDCSGrab, RHDCSRegWrite, RHDCSAdvance,     *)
(* RHDCSFlush, RHDCSStart, RHDCSStop).  Register writes are collected in a  *)
(* linear buffer; CSMMIORBBMStuff copies as many as the RBBM has room for  *)
(* into the card's FIFO, which the card drains on its own.                 *)
(*                                                                         *)
(* A register write takes two words of the buffer, register then value,    *)
(* and this backend is only ever used two words at a time (RHDCSRegWrite,  *)
(* RHDCSGrab(CS, 2 * n)): here sizes and pointers count register writes,   *)
(* and a register write is its number in the order of writing.  The loops  *)
(* of up to CS_LOOP_COUNT turns are kept, with the count as a constant:    *)
(* that they give up is the point.                                         *)
(***************************************************************************)
EXTENDS Integers, Sequences

CONSTANTS
  Size,        \* register writes in the buffer: half of CS->Size
  MaxGrab,     \* the largest number of register writes one Grab asks for
  FifoSize,    \* slots of the RBBM FIFO
  LoopCount,   \* CS_LOOP_COUNT
  MaxWrites    \* bound of the exploration: writes queued in one behaviour

ASSUME SizeAssumption == Size \in Nat /\ Size > 0
ASSUME MaxGrabAssumption == MaxGrab \in Nat /\ MaxGrab <= Size
ASSUME FifoAssumption == FifoSize \in Nat
ASSUME LoopAssumption == LoopCount \in Nat
ASSUME WritesAssumption == MaxWrites \in Nat

VARIABLES
  active,    \* CS->Active
  pc,        \* the call the server is in, "mid" between two scanlines
  count,     \* what the Grab asks for, then what of it is not yet written
  tries,     \* i of the loop the server is in, 0 outside of a loop
  entries,   \* register writes CSMMIORBBMStuff has still to do
  buffer,    \* CS->Buffer
  flushed,   \* CS->Flushed
  wptr,      \* CS->Wptr
  fifo,      \* the card's FIFO of register writes
  queued,    \* how many register writes were written into the buffer
  executed,  \* the number of the last register write the card took
  ranOut     \* the loops that ran out of turns: "grab", "flush", "stop"

cs == <<active, buffer, flushed, wptr>>
loop == <<count, tries, entries>>
rbbm == <<fifo, executed>>
vars == <<active, pc, count, tries, entries, buffer, flushed, wptr,
          fifo, queued, executed, ranOut>>

Init ==
  /\ active = FALSE
  /\ pc = "idle"
  /\ count = 0 /\ tries = 0 /\ entries = 0
  /\ buffer = [i \in 0 .. Size - 1 |-> 0]
  /\ flushed = 0 /\ wptr = 0
  /\ fifo = << >>
  /\ queued = 0 /\ executed = 0
  /\ ranOut = {}
-----------------------------------------------------------------------------
\* RHDCSStart; CS->Start is NULL for MMIO.
Start ==
  /\ pc = "idle" /\ ~active
  /\ active' = TRUE
  /\ flushed' = 0 /\ wptr' = 0
  /\ UNCHANGED <<pc, loop, buffer, rbbm, queued, ranOut>>

\* RHDCSGrab(CS, 2 * n), then CSMMIOGrab's loop.
Grab(n) ==
  /\ pc \in {"idle", "mid"} /\ active
  /\ queued + n <= MaxWrites
  /\ pc' = "grab"
  /\ count' = n
  /\ UNCHANGED <<cs, tries, entries, rbbm, queued, ranOut>>

HasRoom == Size - wptr >= count
Drained == flushed = wptr

GrabRoom ==
  /\ pc = "grab" /\ entries = 0 /\ tries < LoopCount
  /\ HasRoom
  /\ pc' = "write" /\ tries' = 0
  /\ UNCHANGED <<cs, count, entries, rbbm, queued, ranOut>>

\* MUTANT of GrabRewind: without waiting for what is not yet stuffed.
GrabRewindUndrained ==
  /\ pc = "grab" /\ entries = 0 /\ tries < LoopCount
  /\ ~HasRoom
  /\ wptr' = 0 /\ flushed' = 0
  /\ pc' = "write" /\ tries' = 0
  /\ UNCHANGED <<active, buffer, count, entries, rbbm, queued, ranOut>>

GrabRewind ==
  /\ pc = "grab" /\ entries = 0 /\ tries < LoopCount
  /\ ~HasRoom /\ Drained
  /\ wptr' = 0 /\ flushed' = 0
  /\ pc' = "write" /\ tries' = 0
  /\ UNCHANGED <<active, buffer, count, entries, rbbm, queued, ranOut>>

\* "Failed to get %d slots in the RBBM." is logged, and the caller writes on.
GrabGiveUp ==
  /\ pc = "grab" /\ entries = 0 /\ tries = LoopCount
  /\ ranOut' = ranOut \union {"grab"}
  /\ pc' = "write" /\ tries' = 0
  /\ UNCHANGED <<cs, count, entries, rbbm, queued>>

\* RHDCSRegWrite.  Past the end of the buffer the store is undefined, and
\* so is everything after it.
RegWrite ==
  /\ pc = "write" /\ count > 0
  /\ IF wptr < Size
     THEN /\ buffer' = [buffer EXCEPT ![wptr] = queued + 1]
          /\ wptr' = wptr + 1
          /\ queued' = queued + 1
          /\ count' = count - 1
          /\ UNCHANGED pc
     ELSE /\ pc' = "undefined"
          /\ UNCHANGED <<buffer, wptr, queued, count>>
  /\ UNCHANGED <<active, flushed, tries, entries, rbbm, ranOut>>

\* MUTANT of Advance: AdvanceFlush is FALSE, as it is for the DRM backend.
AdvanceWithoutFlush ==
  /\ pc = "write" /\ count = 0
  /\ pc' = "idle"
  /\ UNCHANGED <<cs, loop, rbbm, queued, ranOut>>

\* The routine ends with RHDCSAdvance, which flushes because AdvanceFlush is
\* set, or is a scanline of an image of which more scanlines follow.
Advance ==
  /\ pc = "write" /\ count = 0
  /\ pc' = IF Drained THEN "idle" ELSE "flush"
  /\ UNCHANGED <<cs, loop, rbbm, queued, ranOut>>

MoreScanlines ==
  /\ pc = "write" /\ count = 0
  /\ queued < MaxWrites
  /\ pc' = "mid"
  /\ UNCHANGED <<cs, loop, rbbm, queued, ranOut>>

\* RHDCSFlush from a sync routine.
Flush ==
  /\ pc = "idle" /\ active
  /\ ~Drained
  /\ pc' = "flush"
  /\ UNCHANGED <<cs, loop, rbbm, queued, ranOut>>

\* RHDCSStop; CS->Stop is CSMMIOFlush.
Stop ==
  /\ pc = "idle" /\ active
  /\ pc' = "stop"
  /\ UNCHANGED <<cs, loop, rbbm, queued, ranOut>>
-----------------------------------------------------------------------------
\* CSMMIORBBMStuff: the free entries are read once, then that many pairs, or
\* all there are, are written while the card goes on draining.
InLoop == \/ pc = "grab" /\ ~HasRoom /\ ~Drained
          \/ pc \in {"flush", "stop"} /\ ~Drained

RoomOrRest(room, rest) == IF room < rest THEN room ELSE rest

\* MUTANT of StuffRead: the room in the FIFO is not looked at.
StuffReadAll ==
  /\ InLoop /\ entries = 0 /\ tries < LoopCount
  /\ entries' = wptr - flushed
  /\ tries' = tries + 1
  /\ UNCHANGED <<cs, pc, count, rbbm, queued, ranOut>>

StuffRead ==
  /\ InLoop /\ entries = 0 /\ tries < LoopCount
  /\ entries' = RoomOrRest(FifoSize - Len(fifo), wptr - flushed)
  /\ tries' = tries + 1
  /\ UNCHANGED <<cs, pc, count, rbbm, queued, ranOut>>

StuffWrite ==
  /\ entries > 0
  /\ fifo' = Append(fifo, buffer[flushed])
  /\ flushed' = flushed + 1
  /\ entries' = entries - 1
  /\ UNCHANGED <<active, pc, count, tries, buffer, wptr, queued, executed,
                 ranOut>>

FlushDone ==
  /\ pc = "flush" /\ entries = 0 /\ tries < LoopCount
  /\ Drained
  /\ pc' = "idle" /\ tries' = 0
  /\ UNCHANGED <<cs, count, entries, rbbm, queued, ranOut>>

\* "Failed to empty the RBBM." is logged; what is left stays in the buffer.
FlushGiveUp ==
  /\ pc = "flush" /\ entries = 0 /\ tries = LoopCount
  /\ ranOut' = ranOut \union {"flush"}
  /\ pc' = "idle" /\ tries' = 0
  /\ UNCHANGED <<cs, count, entries, rbbm, queued>>

\* After the Stop callback RHDCSStop clears the pointers, whatever is left.
StopDone ==
  /\ pc = "stop" /\ entries = 0
  /\ Drained \/ tries = LoopCount
  /\ ranOut' = IF Drained THEN ranOut ELSE ranOut \union {"stop"}
  /\ flushed' = 0 /\ wptr' = 0
  /\ active' = FALSE
  /\ pc' = "idle" /\ tries' = 0
  /\ UNCHANGED <<buffer, count, entries, rbbm, queued>>

\* The card takes a register write out of its FIFO.
CardExecute ==
  /\ fifo # << >>
  /\ executed' = Head(fifo)
  /\ fifo' = Tail(fifo)
  /\ UNCHANGED <<cs, pc, loop, queued, ranOut>>

Driver ==
  \/ GrabRoom \/ GrabRewind \/ GrabGiveUp \/ RegWrite
  \/ StuffRead \/ StuffWrite \/ FlushDone \/ FlushGiveUp \/ StopDone

Next ==
  \/ Start \/ Flush \/ Stop
  \/ \E n \in 1 .. MaxGrab : Grab(n)
  \/ Advance \/ MoreScanlines
  \/ Driver
  \/ CardExecute

Spec == Init /\ [][Next]_vars

\* The server finishes the call it is in, and an image whose scanlines it has
\* begun; the card drains its FIFO.  That X draws, flushes or stops again is
\* not assumed.
Fairness ==
  /\ WF_vars(Driver)
  /\ WF_vars(Advance \/ MoreScanlines)
  /\ WF_vars(pc = "mid" /\ \E n \in 1 .. MaxGrab : Grab(n))
  /\ WF_vars(CardExecute)

FairSpec == Spec /\ Fairness
-----------------------------------------------------------------------------
TypeOK ==
  /\ active \in BOOLEAN
  /\ pc \in {"idle", "grab", "write", "mid", "flush", "stop", "undefined"}
  /\ count \in 0 .. MaxGrab
  /\ tries \in 0 .. LoopCount
  /\ entries \in Nat
  /\ buffer \in [0 .. Size - 1 -> Nat]
  /\ flushed \in 0 .. Size /\ wptr \in 0 .. Size
  /\ fifo \in Seq(Nat)
  /\ queued \in Nat /\ executed \in Nat
  /\ ranOut \subseteq {"grab", "flush", "stop"}

\* The card's FIFO is never written when full, although CSMMIORBBMStuff reads
\* the number of free entries once and then writes that many while the card
\* is running.
FifoNeverOverrun == Len(fifo) <= FifoSize

\* CSMMIOGrab returns without the room it was asked for in three ways; only
\* the one that ran out of turns lets a caller write past the buffer.
OverrunOnlyAfterGiveUp == pc = "undefined" => "grab" \in ranOut

\* The register writes under way, oldest first: those in a FIFO f, then those
\* in a buffer b at the positions from .. to - 1.
UnderWay(f, b, from, to) ==
  [i \in 1 .. Len(f) + to - from |->
     IF i <= Len(f) THEN f[i] ELSE b[from + i - Len(f) - 1]]

Pending == UnderWay(fifo, buffer, flushed, wptr)

Lossy == "stop" \in ranOut

Stream == INSTANCE CommandStream WITH pending <- Pending, lossy <- Lossy

\* The backend implements the command stream: the card gets every register
\* write once and in order, and only a RHDCSStop that gave up loses any.
ImplementsStream == Stream!Spec

\* A register write that was queued reaches the card, without X having to
\* draw again, unless a loop gave up on the card.
Delivered ==
  \A k \in 1 .. MaxWrites :
    queued >= k ~> (executed >= k \/ ranOut # {})
=============================================================================
