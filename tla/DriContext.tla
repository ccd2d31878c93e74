---------------------------- MODULE DriContext ----------------------------
(***************************************************************************)
(* The X server sharing the card with direct rendering clients: the DRI    *)
(* callbacks of rhd_dri.c (RHDEnterServer, RHDLeaveServer through          *)
(* RHDDRISwapContext, RHDDRIContextClaim) with the state they keep in step  *)
(* with the command stream: CS->Clean (rhd_cs.h), the engineMode and        *)
(* XHas3DEngineState of r5xx_accel.c, the ctx_owner of the SAREA.  It is    *)
(* the R5xx with the DRM backend and EXA; the routines of r5xx_exa.c and    *)
(* radeon_exa_render.c are reduced to what they ask of the engines.        *)
(*                                                                         *)
(* The CP executes what it is given in the order of submission, so the     *)
(* properties are about that order: stream is all that was submitted, by   *)
(* X and by clients; buffer is what X wrote and did not submit yet         *)
(* (DrmSubmission shows it arrives once and in order).  Clients, the locks  *)
(* of DRI and the other user of the card are external.                     *)
(***************************************************************************)
EXTENDS Naturals, Sequences

CONSTANTS
  Clients,   \* direct rendering clients
  Server,    \* DRIGetContext(pScreen)
  Nobody,    \* ctx_owner of a fresh SAREA
  MaxItems   \* bound of the exploration: length of stream and buffer

ASSUME OwnerAssumption == {Server, Nobody} \intersect Clients = {} /\ Server # Nobody
ASSUME BoundAssumption == MaxItems \in Nat

VARIABLES
  clean,       \* CS->Clean
  engineMode,  \* R5xx3D->engineMode
  has3D,       \* R5xx3D->XHas3DEngineState
  owner,       \* pSAREAPriv->ctx_owner
  marked,      \* exaSyncMarker # exaMarkerSynced
  inServer,    \* is X between its wakeup and its block handler, with the lock?
  vtSema,      \* pScrn->vtSema
  buffer,      \* written into the CS, not flushed
  stream,      \* submitted by anyone, oldest first
  waitSpent    \* has a sync flushed the wait of RHDEnterServer with no work after it?

vars == <<clean, engineMode, has3D, owner, marked, inServer, vtSema, buffer,
          stream, waitSpent>>

Draws == {"draw2D", "draw3D"}
ServerOps == Draws \union
  {"cacheFlush",                            \* R5xxDstCacheFlush, R5xxZCacheFlush
   "waitFull",                              \* R5xxEngineWaitIdleFull
   "wait2D", "wait3D", "wait2D3D",          \* WAIT_UNTIL one engine, or both
   "setup3D",                               \* the state R5xx3DSetup writes
   "reset"}                                 \* R5xxEngineReset
Item(op) == [op |-> op, by |-> Server]
Items(ops) == [i \in DOMAIN ops |-> Item(ops[i])]

Order == stream \o buffer
Room(n) == Len(Order) + n <= MaxItems

\* RHDCSInit, RHDCSStart and the R5xxEngineWaitIdleFull of RHDScreenInit.
Init ==
  /\ clean = "DONE" /\ engineMode = "FULL" /\ has3D = FALSE
  /\ owner = Nobody /\ marked = FALSE
  /\ inServer = TRUE /\ vtSema = TRUE
  /\ buffer = Items(<<"waitFull">>) /\ stream = << >>
  /\ waitSpent = FALSE
-----------------------------------------------------------------------------
\* MUTANT of Grabbed: X's work after an untouched wakeup is not noted.
GrabbedQueued == IF clean = "QUEUED" THEN "DONE" ELSE clean

\* _RHDCSGrab notes that X does something.
Grabbed == IF clean \in {"QUEUED", "UNTOUCHED"} THEN "DONE" ELSE clean

\* X writes commands.  Any of the RHDCSGrabs may find the buffer full, and
\* submit what is in it.
Write(ops) ==
  \/ buffer' = buffer \o Items(ops) /\ UNCHANGED stream
  \/ \E k \in 0 .. Len(ops) - 1 :
       /\ stream' = stream \o buffer \o Items(SubSeq(ops, 1, k))
       /\ buffer' = Items(SubSeq(ops, k + 1, Len(ops)))

\* X writes commands and calls RHDCSFlush.
WriteFlush(ops) ==
  /\ stream' = stream \o buffer \o Items(ops)
  /\ buffer' = << >>

\* MUTANT of WaitIdle2D: waits in the wrong mode.
WaitIdle2DFull(mode) == IF mode = "FULL" THEN <<"wait2D">> ELSE << >>

\* R5xxEngineWaitIdle3D before the 2D engine is used, R5xxEngineWaitIdle2D
\* after it and before the 3D engine is used.
WaitIdle3D(mode) == IF mode = "IDLE_2D" THEN <<"wait3D">> ELSE << >>
WaitIdle2D(mode) == IF mode = "IDLE_3D" THEN <<"wait2D">> ELSE << >>
After3D == "IDLE_3D"
After2D == "IDLE_2D"

\* MUTANT of Claimed: the context is not claimed.
NotClaimed == owner

\* RHDDRIContextClaim.
Claimed == Server

\* R5xx2DIdle: when the engine does not go idle, R5xxEngineReset.
Idles(timeout) == IF timeout THEN <<"reset">> ELSE << >>
StateAfter(timeout, state) == IF timeout THEN FALSE ELSE state
-----------------------------------------------------------------------------
\* R5xxEXAPrepareSolid or ...PrepareCopy, the rectangles, and ...Done.
TwoD ==
  /\ inServer /\ vtSema /\ Room(3)
  /\ Write(WaitIdle3D(engineMode) \o <<"draw2D">> \o WaitIdle2D(After3D))
  /\ engineMode' = After2D
  /\ clean' = Grabbed
  /\ marked' = TRUE
  /\ UNCHANGED <<has3D, owner, inServer, vtSema, waitSpent>>

\* R5xxEXAUploadToScreenCP: each pass is flushed.
Upload ==
  /\ inServer /\ vtSema /\ Room(3)
  /\ stream' = Order \o Items(WaitIdle3D(engineMode) \o <<"draw2D">>)
  /\ buffer' = Items(WaitIdle2D(After3D))
  /\ engineMode' = After2D
  /\ clean' = Grabbed
  /\ marked' = TRUE
  /\ UNCHANGED <<has3D, owner, inServer, vtSema, waitSpent>>

\* R5xxEXADownloadFromScreenCP: each pass is flushed and waited for.
Download ==
  /\ inServer /\ vtSema /\ Room(4)
  /\ \E timeout \in BOOLEAN :
       /\ stream' = Order \o Items(WaitIdle3D(engineMode) \o <<"draw2D">>
                                     \o Idles(timeout))
       /\ has3D' = StateAfter(timeout, has3D)
  /\ buffer' = Items(WaitIdle2D(After3D))
  /\ engineMode' = After2D
  /\ clean' = Grabbed
  /\ marked' = FALSE
  /\ UNCHANGED <<owner, inServer, vtSema, waitSpent>>

\* R5xx3DSetup, unless X's state is still in the engine.
Setup3D ==
  IF has3D THEN << >> ELSE <<"cacheFlush", "wait2D3D", "setup3D">>

\* R300PrepareComposite, the rectangles, RadeonDoneComposite.
Composite ==
  /\ inServer /\ vtSema /\ Room(Len(Setup3D) + 4)
  /\ Write(Setup3D \o WaitIdle2D(engineMode)
             \o <<"draw3D", "cacheFlush", "wait3D">>)
  /\ owner' = IF has3D THEN owner ELSE Claimed
  /\ has3D' = TRUE
  /\ engineMode' = After2D
  /\ clean' = Grabbed
  /\ marked' = TRUE
  /\ UNCHANGED <<inServer, vtSema, waitSpent>>

\* R300PrepareComposite refuses a format or a texture after the setup.
CompositeRefused ==
  /\ inServer /\ vtSema /\ Room(3)
  /\ ~has3D
  /\ Write(Setup3D)
  /\ owner' = Claimed
  /\ has3D' = TRUE
  /\ clean' = Grabbed
  /\ UNCHANGED <<engineMode, marked, inServer, vtSema, waitSpent>>

\* R5xxEXASync, before the CPU reads or writes a pixmap.
Sync ==
  /\ inServer /\ vtSema /\ Room(1)
  /\ marked
  /\ \E timeout \in BOOLEAN :
       /\ WriteFlush(Idles(timeout))
       /\ has3D' = StateAfter(timeout, has3D)
  /\ marked' = FALSE
  /\ waitSpent' = (waitSpent \/ clean = "QUEUED")
  /\ UNCHANGED <<clean, engineMode, owner, inServer, vtSema>>
-----------------------------------------------------------------------------
\* MUTANT of MustClean: what X left untouched is taken for clean.
MustCleanTouched == owner # Server /\ clean \notin {"QUEUED", "UNTOUCHED"}

\* RHDEnterServer.  Clean stays what it was when the wait is queued already.
MustClean == owner # Server /\ clean # "QUEUED"

WakeUp ==
  /\ ~inServer /\ Room(2)
  /\ inServer' = TRUE
  /\ marked' = TRUE
  /\ IF MustClean
     THEN /\ Write(<<"cacheFlush", "waitFull">>)
          /\ engineMode' = "FULL"
     ELSE UNCHANGED <<buffer, stream, engineMode>>
  /\ clean' = CASE clean = "QUEUED" -> clean
                [] MustClean -> "QUEUED"
                [] OTHER -> "UNTOUCHED"
  /\ has3D' = IF owner # Server THEN FALSE ELSE has3D
  /\ UNCHANGED <<owner, vtSema, waitSpent>>

\* RHDLeaveServer.
BlockHandler ==
  /\ inServer /\ vtSema
  /\ inServer' = FALSE
  /\ IF clean = "DONE"
     THEN WriteFlush(<<"cacheFlush">>) /\ clean' = "DIRTY"
     ELSE UNCHANGED <<buffer, stream, clean>>
  /\ UNCHANGED <<engineMode, has3D, owner, marked, vtSema, waitSpent>>

\* RHDLeaveVT: with the lock held, rhdEngineIdle and RHDCSStop.
LeaveVT ==
  /\ inServer /\ vtSema /\ Room(3)
  /\ vtSema' = FALSE
  /\ \E timeout \in BOOLEAN :
       /\ WriteFlush(<<"cacheFlush", "waitFull">> \o Idles(timeout))
       /\ has3D' = StateAfter(timeout, has3D)
  /\ engineMode' = "FULL"
  /\ clean' = Grabbed
  /\ UNCHANGED <<owner, marked, inServer, waitSpent>>

\* RHDEnterVT, after somebody else used the card: RHDCSStart, a wait, which is
\* flushed and waited for.
EnterVT ==
  /\ ~vtSema /\ Room(3)
  /\ vtSema' = TRUE
  /\ \E timeout \in BOOLEAN :
       stream' = stream \o <<[op |-> "render", by |-> Nobody]>>
                   \o Items(Idles(timeout) \o <<"waitFull">>)
  /\ buffer' = << >>
  /\ has3D' = FALSE
  /\ engineMode' = "FULL"
  /\ clean' = "DONE"
  /\ UNCHANGED <<owner, marked, inServer, waitSpent>>

\* A client draws with the lock, and loads its state if it is not the owner.
ClientDraws(c) ==
  /\ ~inServer /\ Room(1)
  /\ stream' = Append(stream, [op |-> IF owner = c THEN "render" ELSE "load", by |-> c])
  /\ owner' = c
  /\ UNCHANGED <<clean, engineMode, has3D, marked, inServer, vtSema, buffer, waitSpent>>

Next ==
  \/ TwoD \/ Upload \/ Download \/ Composite \/ CompositeRefused \/ Sync
  \/ WakeUp \/ BlockHandler \/ LeaveVT \/ EnterVT
  \/ \E c \in Clients : ClientDraws(c)

Spec == Init /\ [][Next]_vars

\* The server runs its block handler before it sleeps, and it always sleeps
\* again.
FairSpec == Spec /\ WF_vars(BlockHandler)
-----------------------------------------------------------------------------
StreamItem ==
  [op : ServerOps, by : {Server}] \union [op : {"load", "render"}, by : Clients \union {Nobody}]

TypeOK ==
  /\ clean \in {"DIRTY", "UNTOUCHED", "QUEUED", "DONE"}
  /\ engineMode \in {"FULL", "IDLE_2D", "IDLE_3D"}
  /\ {has3D, marked, inServer, vtSema, waitSpent} \subseteq BOOLEAN
  /\ owner \in Clients \union {Server, Nobody}
  /\ stream \in Seq(StreamItem) /\ buffer \in Seq([op : ServerOps, by : {Server}])

\* Is there an item with one of these ops between the positions i and j?
Between(i, j, ops) == \E k \in i + 1 .. j - 1 : Order[k].op \in ops

\* "When we switch between 3d and 2d rendering all the time, we need to make
\* sure that the other engine is idle first before the new engine goes and
\* fires off" (r5xx_accel.c), across owners of the card: X draws only after a
\* wait for whatever another owner drew before.
EnginesIdle ==
  \A i, j \in DOMAIN Order :
    (i < j /\ Order[i].by # Server /\ Order[j].op \in Draws)
      => Between(i, j, {"waitFull", "wait2D3D"})

\* The one way to lose that wait is a sync that submits what RHDEnterServer
\* queued although X has done no work of its own.
EnginesIdleUnlessSpent == waitSpent \/ EnginesIdle

\* The same inside X: its 2D drawing waits for its 3D drawing, and the other
\* way round, however the routines follow each other and resets intervene.
EnginesExclusive ==
  \A i, j \in DOMAIN Order :
    i < j =>
      /\ Order[i].op = "draw3D" /\ Order[j].op = "draw2D" =>
           Between(i, j, {"waitFull", "wait3D", "wait2D3D"})
      /\ Order[i].op = "draw2D" /\ Order[j].op = "draw3D" =>
           Between(i, j, {"waitFull", "wait2D", "wait2D3D"})

\* "if we've generated any CP commands we must flush them to the kernel
\* module now" (RHDLeaveServer): a client that gets the card never overtakes
\* what X drew.
NotOvertaken ==
  ~inServer => \A i \in DOMAIN buffer : buffer[i].op \notin Draws

\* Item k takes the 3D state of its owner out of the engine: a reset, or what
\* somebody else loads, sets up or draws.
Overwrites(k, who) ==
  \/ Order[k].op = "reset"
  \/ Order[k].op \in {"load", "render", "setup3D"} /\ Order[k].by # who

\* Neither R5xxEngineReset nor RHDEnterVT writes ctx_owner: who owned the
\* context before the reset, or before the VT was another's, still does.
Unclaimed(k) == Order[k].op = "reset" \/ Order[k].by = Nobody

\* X's 3D drawing finds X's state in the engine: no client, no other user of
\* the card and no reset came between the setup and the drawing.
ServerStateLoaded ==
  \A j \in DOMAIN Order : Order[j].op = "draw3D" =>
    \E i \in 1 .. j - 1 :
      /\ Order[i].op = "setup3D"
      /\ \A k \in i + 1 .. j - 1 : ~Overwrites(k, Server)

\* "the client detects when it's context is not currently loaded and then
\* load's it itself" (rhd_dri.c): a client that draws without loading its state,
\* because the SAREA says it owns the context, does find it in the engine.
ClientStateLoaded ==
  \A j \in DOMAIN Order :
    (Order[j].op = "render" /\ Order[j].by \in Clients) =>
      \E i \in 1 .. j - 1 :
        /\ Order[i] = [op |-> "load", by |-> Order[j].by]
        /\ \A k \in i + 1 .. j - 1 : ~Overwrites(k, Order[j].by)

\* It does, but for the resets and the visits to other VTs since it loaded it:
\* neither X's setup nor another client's load or drawing goes unnoticed.
ClientStateLoadedUnlessUnclaimed ==
  \A j \in DOMAIN Order :
    (Order[j].op = "render" /\ Order[j].by \in Clients) =>
      \E i \in 1 .. j - 1 :
        /\ Order[i] = [op |-> "load", by |-> Order[j].by]
        /\ \A k \in i + 1 .. j - 1 : Overwrites(k, Order[j].by) => Unclaimed(k)

\* X draws in 3D with its own state, whatever came between, by XHas3DEngineState;
\* a client with its own by ctx_owner, unless the engine was reset or used from
\* another VT since it was loaded.  The two predictions are kept in step by
\* nothing but RHDDRIContextClaim.
StatesLoadedUnlessUnclaimed == ServerStateLoaded /\ ClientStateLoadedUnlessUnclaimed

\* What X draws is submitted although nothing but the end of the wakeup makes
\* it: AdvanceFlush is FALSE for this backend.
DrawingSubmitted ==
  (\E i \in DOMAIN buffer : buffer[i].op \in Draws)
    ~> (\A i \in DOMAIN buffer : buffer[i].op \notin Draws)
=============================================================================
