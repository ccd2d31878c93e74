--------------------------- MODULE DrmSubmission ---------------------------
(***************************************************************************)
(* The DRM backend of rhd_cs.c (DRMCPxxx) with the generic calls around it *)
(* (RHDCSGrab, RHDCSWrite, RHDCSFlush, RHDCSIdle, RHDCSStart, RHDCSStop,   *)
(* RHDCSReset) and the buffer calls of rhd_dri.c it uses (RHDDRMCPBuffer,  *)
(* RHDDRMIndirectBufferGet and ...Discard).  Commands are written into an  *)
(* indirect buffer of the kernel's pool; a flush tells the kernel to have  *)
(* the command processor (CP) execute a part of it, later; a discard does  *)
(* so for the rest and gives the buffer back.                              *)
(*                                                                         *)
(* Pointers count words.  A word is its number in the order of writing;    *)
(* the padding CP_PACKET2 is 0.  The kernel and the CP are external: the   *)
(* ring of submissions, the pool and what the ioctls answer are modelled   *)
(* from the way rhd_cs.c and rhd_dri.c use them.                           *)
(***************************************************************************)
EXTENDS Integers, Sequences, FiniteSets

CONSTANTS
  Buffers,    \* the kernel's DMA buffers
  NoBuffer,   \* CP->DrmBuffer = NULL
  Size,       \* CS->Size, (64 << 10) / 4 words
  Align,      \* words a submission is padded to: 16 from R600 on, else 1
  MaxGrab,    \* the largest Count of a Grab
  LoopCount,  \* R5XX_LOOP_COUNT, R5XX_IDLE_RETRY and the 2000000 of DRMCPIdle
  MaxHeld,    \* separate indirect buffers the accel code holds at a time
  MaxWords    \* bound of the exploration: words written in one behaviour

ASSUME BufferAssumption == NoBuffer \notin Buffers
ASSUME SizeAssumption == Size \in Nat /\ Size > 0 /\ Size % 2 = 0
ASSUME AlignAssumption == Align \in {1, 2, 4, 8, 16} /\ Size % Align = 0
ASSUME GrabAssumption == MaxGrab \in Nat /\ MaxGrab <= Size
ASSUME LoopAssumption == LoopCount \in Nat
ASSUME BoundAssumption == MaxHeld \in Nat /\ MaxWords \in Nat

VARIABLES
  active,    \* CS->Active
  slot,      \* CP->DrmBuffer
  flushed,   \* CS->Flushed
  wptr,      \* CS->Wptr
  pc,        \* what the server is doing
  after,     \* the call a discard or a get returns to
  count,     \* words of the current Grab not yet written
  tries,     \* i of the loop the server is in, 0 outside of a loop
  mem,       \* what is in the buffers
  ring,      \* submissions the kernel has queued for the CP, oldest first
  free,      \* buffers of the pool drmDMA can hand out
  held,      \* separate indirect buffers the accel code holds
  running,   \* is the CP started?
  queued,    \* how many words were written
  executed,  \* the number of the last word the CP executed
  dropped    \* has a reset, or a stop that gave up, dropped submissions?

cs == <<active, slot, flushed, wptr>>
call == <<pc, after, count, tries>>
kernel == <<ring, free, held, running, executed, dropped>>
vars == <<active, slot, flushed, wptr, pc, after, count, tries, mem,
          ring, free, held, running, queued, executed, dropped>>

Init ==
  /\ active = FALSE /\ slot = NoBuffer /\ flushed = 0 /\ wptr = 0
  /\ pc = "idle" /\ after = "none" /\ count = 0 /\ tries = 0
  /\ mem = [b \in Buffers |-> [i \in 0 .. Size - 1 |-> 0]]
  /\ ring = << >> /\ free = Buffers /\ held = {}
  /\ running = FALSE /\ dropped = FALSE
  /\ queued = 0 /\ executed = 0

Submission(b, from, to, discard) ==
  [buf |-> b, from |-> from, to |-> to, discard |-> discard]
-----------------------------------------------------------------------------
\* MUTANT of Start: without CP_START.
StartWithoutCp ==
  /\ pc = "idle" /\ ~active
  /\ pc' = "get" /\ after' = "start"
  /\ UNCHANGED <<cs, count, tries, mem, kernel, queued>>

\* RHDCSStart and DRMCPStart: CP_START, then a buffer.  (DrmBuffer is NULL, or
\* "stale buffer present!" would be logged.)
Start ==
  /\ pc = "idle" /\ ~active
  /\ running' = TRUE
  /\ pc' = "get" /\ after' = "start"
  /\ UNCHANGED <<cs, count, tries, mem, ring, free, held, queued, executed, dropped>>

\* RHDCSGrab: DRMCPGrab swaps the buffer when the room does not suffice.
Grab(n) ==
  /\ pc = "idle" /\ active
  /\ queued + n <= MaxWords
  /\ count' = n
  /\ IF Size - wptr < n
     THEN pc' = "discard" /\ after' = "grab"
     ELSE pc' = "write" /\ UNCHANGED after
  /\ UNCHANGED <<cs, tries, mem, kernel, queued>>

\* RHDCSWrite.
Write ==
  /\ pc = "write"
  /\ mem' = [mem EXCEPT ![slot][wptr] = queued + 1]
  /\ wptr' = wptr + 1
  /\ queued' = queued + 1
  /\ count' = count - 1
  /\ pc' = IF count = 1 THEN "idle" ELSE "write"
  /\ UNCHANGED <<active, slot, flushed, after, tries, kernel>>

\* RHDCSFlush, alone or before RHDCSIdle in the sync routines.
Flush(next) ==
  /\ pc = "idle" /\ active
  /\ IF flushed # wptr
     THEN pc' = "flush" /\ after' = next
     ELSE pc' = next /\ UNCHANGED after
  /\ UNCHANGED <<cs, count, tries, mem, kernel, queued>>

\* RHDCSStop: DRMCPStop discards the buffer, then stops the CP.
Stop ==
  /\ pc = "idle" /\ active
  /\ pc' = "discard" /\ after' = "stop"
  /\ UNCHANGED <<cs, count, tries, mem, kernel, queued>>

\* RHDDRMIndirectBufferGet, for buffers the accel code fills on its own.
IndirectBufferGet ==
  /\ pc = "idle" /\ active
  /\ Cardinality(held) < MaxHeld
  /\ pc' = "get" /\ after' = "hold"
  /\ UNCHANGED <<cs, count, tries, mem, kernel, queued>>

\* RHDDRMIndirectBufferDiscard: a buffer that holds one padding word.
IndirectBufferDiscard(b) ==
  /\ pc = "idle" /\ b \in held
  /\ mem' = [mem EXCEPT ![b][0] = 0]
  /\ ring' = Append(ring, Submission(b, 0, 1, TRUE))
  /\ held' = held \ {b}
  /\ UNCHANGED <<cs, call, free, running, executed, dropped, queued>>
-----------------------------------------------------------------------------
Padded == wptr % Align = 0

\* The loop that pads a submission calls RHDCSGrab(CS, 1).  Should that find
\* the buffer full, DRMCPBufferDiscard would pad the same full buffer again,
\* without end.
Pad ==
  /\ pc \in {"flush", "discard"} /\ ~Padded
  /\ IF Size - wptr < 1
     THEN pc' = "recursing" /\ UNCHANGED <<mem, wptr>>
     ELSE /\ mem' = [mem EXCEPT ![slot][wptr] = 0]
          /\ wptr' = wptr + 1
          /\ UNCHANGED pc
  /\ UNCHANGED <<active, slot, flushed, after, count, tries, kernel, queued>>

\* MUTANT of FlushSubmit: CS->Flushed is not moved on.
FlushSubmitAgain ==
  /\ pc = "flush" /\ Padded
  /\ ring' = Append(ring, Submission(slot, flushed, wptr, FALSE))
  /\ wptr' = IF wptr % 2 = 1 THEN wptr + 1 ELSE wptr
  /\ pc' = after /\ after' = "none"
  /\ UNCHANGED <<active, slot, flushed, count, tries, mem, free, held, running,
                 executed, dropped, queued>>

\* MUTANT of FlushSubmit: indirect.end is off by one.
FlushSubmitShort ==
  /\ pc = "flush" /\ Padded
  /\ ring' = Append(ring, Submission(slot, flushed, wptr - 1, FALSE))
  /\ wptr' = IF wptr % 2 = 1 THEN wptr + 1 ELSE wptr
  /\ flushed' = wptr'
  /\ pc' = after /\ after' = "none"
  /\ UNCHANGED <<active, slot, count, tries, mem, free, held, running,
                 executed, dropped, queued>>

\* DRMCPFlush: what is new in the buffer is submitted, the next submission
\* starts quadword aligned.
FlushSubmit ==
  /\ pc = "flush" /\ Padded
  /\ ring' = Append(ring, Submission(slot, flushed, wptr, FALSE))
  /\ wptr' = IF wptr % 2 = 1 THEN wptr + 1 ELSE wptr
  /\ flushed' = wptr'
  /\ pc' = after /\ after' = "none"
  /\ UNCHANGED <<active, slot, count, tries, mem, free, held, running,
                 executed, dropped, queued>>

\* MUTANT of DiscardSubmit: CP->DrmBuffer is kept.
DiscardSubmitKeep ==
  /\ pc = "discard" /\ Padded
  /\ ring' = Append(ring, Submission(slot, flushed, wptr, TRUE))
  /\ pc' = IF after = "grab" THEN "get" ELSE "stop"
  /\ UNCHANGED <<active, slot, flushed, wptr, after, count, tries, mem, free,
                 held, running, executed, dropped, queued>>

\* MUTANT of DiscardSubmit: indirect.start is 0.
DiscardSubmitAll ==
  /\ pc = "discard" /\ Padded
  /\ ring' = Append(ring, Submission(slot, 0, wptr, TRUE))
  /\ slot' = NoBuffer
  /\ pc' = IF after = "grab" THEN "get" ELSE "stop"
  /\ UNCHANGED <<active, flushed, wptr, after, count, tries, mem, free, held,
                 running, executed, dropped, queued>>

\* DRMCPBufferDiscard, and the buffer is forgotten: DRMCPGrab asks for another
\* one, DRMCPStop stops the CP.
DiscardSubmit ==
  /\ pc = "discard" /\ Padded
  /\ ring' = Append(ring, Submission(slot, flushed, wptr, TRUE))
  /\ slot' = NoBuffer
  /\ pc' = IF after = "grab" THEN "get" ELSE "stop"
  /\ UNCHANGED <<active, flushed, wptr, after, count, tries, mem, free, held,
                 running, executed, dropped, queued>>

\* RHDDRMCPBuffer: drmDMA grants a free buffer.
GetGranted ==
  /\ pc = "get" /\ tries < LoopCount
  /\ \E b \in free :
       /\ free' = free \ {b}
       /\ IF after = "hold"
          THEN held' = held \union {b} /\ UNCHANGED cs
          ELSE /\ slot' = b /\ flushed' = 0 /\ wptr' = 0
               /\ active' = TRUE
               /\ UNCHANGED held
  /\ pc' = IF after = "grab" THEN "write" ELSE "idle"
  /\ after' = "none" /\ tries' = 0
  /\ UNCHANGED <<count, mem, ring, running, executed, dropped, queued>>

\* drmDMA finds none, and is asked again.
GetBusy ==
  /\ pc = "get" /\ tries < LoopCount /\ free = {}
  /\ tries' = tries + 1
  /\ UNCHANGED <<cs, pc, after, count, mem, kernel, queued>>

\* "throwing in the towel: SIGSEGV ahead!"
GetGiveUp ==
  /\ pc = "get" /\ tries = LoopCount
  /\ pc' = "segv"
  /\ UNCHANGED <<cs, after, count, tries, mem, kernel, queued>>

\* CP_STOP and CP_IDLE answer -EBUSY (-16) as long as the CP has work.
StopBusy ==
  /\ pc = "stop" /\ tries < LoopCount /\ ring # << >>
  /\ tries' = tries + 1
  /\ UNCHANGED <<cs, pc, after, count, mem, kernel, queued>>

\* The end of RHDCSStop, after the Stop callback.
StopReturns ==
  /\ pc' = "idle" /\ after' = "none" /\ tries' = 0
  /\ flushed' = 0 /\ wptr' = 0 /\ active' = FALSE
  /\ UNCHANGED <<slot, count, mem, held, executed, queued>>

StopIdle ==
  /\ pc = "stop" /\ tries < LoopCount /\ ring = << >>
  /\ running' = FALSE
  /\ StopReturns
  /\ UNCHANGED <<ring, free, dropped>>

\* Another error: DRMCPStop returns, the CP runs on.
StopError ==
  /\ pc = "stop" /\ tries < LoopCount
  /\ StopReturns
  /\ UNCHANGED <<ring, free, running, dropped>>

\* Buffers whose discard is in the ring.
Discarded(r) == {r[i].buf : i \in {j \in DOMAIN r : r[j].discard}}

\* What the kernel drops is never executed, and its discards are done.
Drop ==
  /\ ring' = << >>
  /\ free' = free \union Discarded(ring)
  /\ dropped' = (dropped \/ ring # << >>)

\* The retries are used up: CP_STOP without idling.  What becomes of the work
\* in the ring is the kernel's affair.
StopNow ==
  /\ pc = "stop" /\ tries = LoopCount
  /\ running' = FALSE
  /\ StopReturns
  /\ Drop \/ UNCHANGED <<ring, free, dropped>>

\* DRMCPIdle.
IdleBusy ==
  /\ pc = "wait" /\ tries < LoopCount /\ ring # << >>
  /\ tries' = tries + 1
  /\ UNCHANGED <<cs, pc, after, count, mem, kernel, queued>>

\* MUTANT of IdleDone: -EBUSY is taken for done.
IdleDoneBusy ==
  /\ pc = "wait" /\ tries < LoopCount
  /\ pc' = "idle" /\ tries' = 0
  /\ UNCHANGED <<cs, after, count, mem, kernel, queued>>

IdleDone ==
  /\ pc = "wait" /\ tries < LoopCount /\ ring = << >>
  /\ pc' = "idle" /\ tries' = 0
  /\ UNCHANGED <<cs, after, count, mem, kernel, queued>>

IdleFailed ==
  /\ pc = "wait"
  /\ pc' = "idle" /\ tries' = 0
  /\ UNCHANGED <<cs, after, count, mem, kernel, queued>>

\* RHDCSReset from the engine reset of the sync routines: CP_RESET, CP_START.
Reset ==
  /\ pc = "idle" /\ active
  /\ Drop
  /\ running' = TRUE
  /\ UNCHANGED <<cs, call, mem, held, executed, queued>>
-----------------------------------------------------------------------------
\* The CP takes the next word of the oldest submission, from memory, now.
CpExecute ==
  /\ running /\ ring # << >>
  /\ LET s == Head(ring)
         word == mem[s.buf][s.from]
     IN /\ s.from < s.to
        /\ executed' = IF word = 0 THEN executed ELSE word
        /\ ring' = [ring EXCEPT ![1].from = s.from + 1]
  /\ UNCHANGED <<cs, call, mem, free, held, running, dropped, queued>>

\* A submission is done, its buffer goes back to the pool if discarded.
CpRetire ==
  /\ running /\ ring # << >>
  /\ LET s == Head(ring)
     IN /\ s.from = s.to
        /\ free' = IF s.discard THEN free \union {s.buf} ELSE free
        /\ ring' = Tail(ring)
  /\ UNCHANGED <<cs, call, mem, held, running, executed, dropped, queued>>

Server ==
  \/ Write \/ Pad \/ FlushSubmit \/ DiscardSubmit
  \/ GetGranted \/ GetBusy \/ GetGiveUp
  \/ StopBusy \/ StopIdle \/ StopError \/ StopNow
  \/ IdleBusy \/ IdleDone \/ IdleFailed

Next ==
  \/ Start \/ Stop \/ Reset \/ IndirectBufferGet
  \/ \E n \in 1 .. MaxGrab : Grab(n)
  \/ \E next \in {"idle", "wait"} : Flush(next)
  \/ \E b \in held : IndirectBufferDiscard(b)
  \/ Server
  \/ CpExecute \/ CpRetire

Spec == Init /\ [][Next]_vars

\* The server finishes the call it is in, and a CP that is started works.
FairSpec == Spec /\ WF_vars(Server) /\ WF_vars(CpExecute \/ CpRetire)
-----------------------------------------------------------------------------
(* The refinement mapping onto CommandStream. *)

\* The parts of buffers that words are under way in, oldest first: the submissions, and what of the current
\* buffer is not submitted.
Parts == Append(ring, Submission(slot, flushed, IF slot = NoBuffer THEN flushed ELSE wptr, FALSE))
Word(p) == mem[Parts[p[1]].buf][p[2]]

\* Where the words are, the padding left out: which part, and where in its buffer.
Places == {p \in UNION {{i} \X (Parts[i].from .. Parts[i].to - 1) : i \in DOMAIN Parts} : Word(p) # 0}
Before(p, q) == p[1] < q[1] \/ (p[1] = q[1] /\ p[2] < q[2])
Rank(p, places) == Cardinality({q \in places : Before(q, p)}) + 1

Pending == LET places == Places
           IN  [r \in 1 .. Cardinality(places) |-> Word(CHOOSE p \in places : Rank(p, places) = r)]

Stream == INSTANCE CommandStream WITH pending <- Pending, lossy <- dropped

\* The backend implements the command stream: the CP executes every word once
\* and in the order of writing, across flushes, swaps of the buffer and
\* stops, although it reads them from memory the server goes on using.
ImplementsStream == Stream!Spec
-----------------------------------------------------------------------------
Submissions ==
  [buf : Buffers, from : 0 .. Size, to : 0 .. Size, discard : BOOLEAN]

TypeOK ==
  /\ active \in BOOLEAN /\ slot \in Buffers \union {NoBuffer}
  /\ flushed \in 0 .. Size /\ wptr \in 0 .. Size
  /\ pc \in {"idle", "write", "flush", "discard", "get", "stop", "wait",
             "segv", "recursing"}
  /\ after \in {"none", "start", "grab", "stop", "hold", "idle", "wait"}
  /\ count \in 0 .. MaxGrab /\ tries \in 0 .. LoopCount
  /\ mem \in [Buffers -> [0 .. Size - 1 -> Nat]]
  /\ ring \in Seq(Submissions)
  /\ free \subseteq Buffers /\ held \subseteq Buffers
  /\ running \in BOOLEAN /\ dropped \in BOOLEAN
  /\ queued \in Nat /\ executed \in Nat

\* No buffer is lost and none is given back twice: each is in the pool, held,
\* the current one, or waits in the ring for exactly one discard.
BuffersConserved ==
  /\ free \union held \union {slot} \union Discarded(ring)
       = Buffers \union {slot}
  /\ free \intersect held = {}
  /\ slot \notin free \union held
  /\ Discarded(ring) \intersect (free \union held \union {slot}) = {}
  /\ \A i, j \in DOMAIN ring :
       ring[i].discard /\ ring[j].buf = ring[i].buf => j <= i

\* RHDCSWrite only stores beyond what is submitted: the CP reads the buffer
\* later, and must find what was there when it was told to.
SubmittedUntouched ==
  \A i \in DOMAIN ring :
    /\ ring[i].buf \notin free \union held
    /\ ring[i].buf = slot => ring[i].to <= flushed

\* A padding loop never finds the buffer full, which would have it discard
\* the buffer it is padding and recurse.
PaddingFits == pc # "recursing"

\* Every submission of the command stream starts quadword aligned, as the
\* comment in DRMCPFlush asks for, and on a full padding unit.
Aligned == flushed % 2 = 0 /\ flushed % Align = 0

\* The server asks for a buffer only when there is one, or when the CP is
\* started and has one to give back: "throwing in the towel" takes a CP that
\* hangs, or is too slow for the retries.
GetCanSucceed ==
  pc = "get" => free # {} \/ (running /\ Discarded(ring) # {})

\* When a sync routine has flushed and RHDCSIdle returned TRUE, everything
\* written so far is executed, unless submissions were dropped.
SyncMeansDone == [][IdleDone => dropped \/ executed = queued]_vars

\* What was flushed is executed, unless the CP is stopped or reset.
FlushedIsExecuted ==
  \A k \in 1 .. MaxWords :
    pc = "flush" /\ queued >= k ~> executed >= k \/ dropped \/ ~running
=============================================================================
