--------------------------- MODULE CommandStream ---------------------------
(***************************************************************************)
(* What a command submission backend of rhd_cs.c promises the acceleration *)
(* code that writes into it (RHDCSGrab, RHDCSWrite, RHDCSRegWrite): the     *)
(* card executes what was written, each item once and in the order it was  *)
(* written.  Items are numbered in the order they are written, so the      *)
(* promise speaks of numbers and not of register values.                   *)
(*                                                                         *)
(* A backend may lose items, but only in a step that says so: a loop that  *)
(* gives up, a command processor that is reset.  Even then what is left    *)
(* keeps its order.                                                        *)
(***************************************************************************)
EXTENDS Naturals, Sequences

VARIABLES
  queued,    \* how many items have been written so far
  pending,   \* the items written and not yet executed, oldest first
  executed,  \* the number of the last item the card executed
  lossy      \* has the backend ever given items up?

vars == <<queued, pending, executed, lossy>>

Init ==
  /\ queued = 0
  /\ pending = << >>
  /\ executed = 0
  /\ lossy = FALSE

Queue ==
  /\ queued' = queued + 1
  /\ pending' = Append(pending, queued + 1)
  /\ UNCHANGED <<executed, lossy>>

Execute ==
  /\ pending # << >>
  /\ executed' = Head(pending)
  /\ pending' = Tail(pending)
  /\ UNCHANGED <<queued, lossy>>

\* What is lost is the oldest items (a reset of the command processor), the
\* newest (a driver buffer thrown away), or both.
Lose ==
  /\ lossy' = TRUE
  /\ \E i \in 1 .. Len(pending) + 1, j \in 0 .. Len(pending) :
       pending' = SubSeq(pending, i, j)
  /\ UNCHANGED <<queued, executed>>

Next == Queue \/ Execute \/ Lose

Spec == Init /\ [][Next]_vars
-----------------------------------------------------------------------------
\* Items come out in the order they went in, and none comes out twice: what
\* is pending is younger than what was executed, and increases.  Consequence
\* of the promise RHDCSWrite (rhd_cs.h) makes to every accel routine.
InOrder ==
  /\ \A i \in DOMAIN pending : executed < pending[i] /\ pending[i] <= queued
  /\ \A i, j \in DOMAIN pending : i < j => pending[i] < pending[j]

\* As long as no loop of the backend gave up, nothing is missing: what was
\* executed and what is pending is exactly what was written.
NothingLost ==
  ~lossy => /\ Len(pending) = queued - executed
            /\ \A i \in DOMAIN pending : pending[i] = executed + i
=============================================================================
