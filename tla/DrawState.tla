----------------------------- MODULE DrawState -----------------------------
(***************************************************************************)
(* X drawing with the 3D engine: an operation of EXA or Xv is prepared,    *)
(* which writes the registers it cares for, is given its rectangles, and   *)
(* is done.  What no operation cares for is left to a default state, which *)
(* is only written when X believes that it is not in the card              *)
(* (XHas3DEngineState).  What an operation writes and reads is a table, in *)
(* R600Drawing and R5xxDrawing.                                            *)
(*                                                                         *)
(* From R600 on an operation is written into an indirect buffer of its own,*)
(* which is given to the CP as a whole (R600CPFlushIndirect), is replaced  *)
(* by another when the rectangles do not fit, and is discarded when there  *)
(* are none.  Before that an operation is written into the command stream, *)
(* where nothing is taken back.                                            *)
(*                                                                         *)
(* The CP executes in the order in which it is given things, so registers  *)
(* are followed in this order; when drawing is finished is another matter. *)
(* EXA, direct rendering clients and consoles are external.                *)
(***************************************************************************)
EXTENDS R600Drawing, R5xxDrawing

(***************************************************************************)
(* A card has                                                              *)
(*   operations  name |-> operation                                        *)
(*   registers   what there is of registers, each in a group written as one*)
(*   fields      the fields of accel_state that outlive a call             *)
(*   defaults    the registers the default state sets                      *)
(*   buffers     do operations have buffers of their own?                  *)
(*   claims      does writing the default state claim the context?         *)
(* An operation has                                                        *)
(*   sets, writes  the fields and the registers its preparation sets       *)
(*   draws         the registers that are set with each draw               *)
(*   reads, uses   the registers its draws, the fields its later calls read*)
(*   stale         those of the fields that it does not set                *)
(*   engine3D      does it draw with the 3D engine?                        *)
(*   refused       may it be refused after the default state was written?  *)
(*   passes        is each rectangle prepared, drawn and done for itself?  *)
(*   evicts        may its preparation move a pixmap out, by a "download"? *)
(*   late          the fields it sets after that                           *)
(*   splits        does it go on in another buffer when one is full?       *)
(*   marked        does EXA mark a sync when it is done?                   *)
(*   waits         does it wait until it is drawn?                         *)
(***************************************************************************)
\* The cards: R600 to R700, R500 with vertex processing, and RS600 to RS740
\* without.
Cards == [R600 |-> R600, R500 |-> R5xx(TRUE), RS690 |-> R5xx(FALSE)]

VARIABLES
  card,      \* the name of the card
  regs,      \* who wrote its registers last: "own" (the operation drawn last), "default" or "other"
  fields,    \* who set the fields of accel_state last: "own" or "other"
  op,        \* the operation that is prepared, or "none"
  ib,        \* what its buffer does before it draws
  vertices,  \* are there any in the buffer?
  has3D,     \* XHas3DEngineState
  owner,     \* pSAREAPriv->ctx_owner
  inServer,  \* is X between its wakeup and its block handler, with the lock?
  vtSema,    \* pScrn->vtSema
  code,      \* are the shaders in memory as R600LoadShaders put them there?
  unwaited,  \* has a client drawn since the CP last waited for the engine?
  found,     \* what the last draw of X found
  lost,      \* was a default state discarded that X believes to be loaded?
  flight,    \* what the CP was given and the card may still be drawing: "marked", "unmarked" or "client"
  gaveUp,    \* has X given up to wait for that?
  marked,    \* is a sync marked that EXA has not waited for?
  software   \* is X drawing with the CPU, into pixmaps the card can draw to?

engine == <<regs, unwaited, found, flight>>
operation == <<fields, op, ib, vertices>>
context == <<has3D, owner, lost>>
server == <<inServer, vtSema, code, marked, software>>
drawingVars == <<card, regs, unwaited, found, flight, gaveUp, fields, op, ib, vertices,
                 has3D, owner, lost, inServer, vtSema, code, marked, software>>

Card == Cards[card]
Operations == Card.operations
Op == Operations[op]
Own(o) == o.writes \union o.draws

Put(m, S, who) == [x \in DOMAIN m |-> IF x \in S THEN who ELSE m[x]]
Overwritten == [r \in Card.registers |-> "other"]
NoIB == [default |-> FALSE, setup |-> FALSE]
Nothing == [stray |-> {}, unset |-> {}, unwaited |-> FALSE, code |-> TRUE, lost |-> FALSE]

\* What was an operation's own is somebody else's when it is done.
Left(m) == [x \in DOMAIN m |-> IF m[x] = "own" THEN "other" ELSE m[x]]

DrawingInit ==
  /\ card \in DOMAIN Cards
  /\ regs = Overwritten /\ unwaited = FALSE /\ found = Nothing
  /\ flight = {} /\ gaveUp = FALSE
  /\ fields = [f \in Card.fields |-> "other"]
  /\ op = "none" /\ ib = NoIB /\ vertices = FALSE
  /\ has3D = FALSE /\ owner = "nobody" /\ lost = FALSE
  /\ inServer = TRUE /\ vtSema = TRUE /\ code = TRUE
  /\ marked = FALSE /\ software = FALSE
-----------------------------------------------------------------------------
(* What the CP is given *)

\* set_default_state and R5xx3DSetup are called with each preparation, and
\* return at once when XHas3DEngineState says so.
Beginning(o) == [default |-> o.engine3D /\ ~has3D, setup |-> TRUE]

\* The registers once the beginning b of operation o was executed.
Executed(rs, b, o) ==
  LET default == IF b.default THEN Put(rs, Card.defaults, "default") ELSE rs
  IN IF b.setup THEN Put(default, o.writes, "own") ELSE default

\* start_3d waits for whatever was drawn before; of R5xx3DSetup one knows it.
WaitedFor(b) == IF Card.buffers THEN b.setup ELSE b.default

\* What a draw of operation o reads that is not as it means it to be.
Stray(rs, o) ==
  {r \in o.reads : rs[r] # IF r \in Own(o) THEN "own" ELSE "default"}

\* EXA waits for what it has marked.
Kind(o) == IF o.marked THEN "marked" ELSE "unmarked"

\* A draw of the operation prepared, behind the beginning b; done with it?
Draw(b, done) ==
  LET o == Op
      rs == Put(Executed(regs, b, o), o.draws, "own")
      unfinished == unwaited /\ ~WaitedFor(b)
  IN
  /\ regs' = IF done THEN Left(rs) ELSE rs
  /\ unwaited' = unfinished
  /\ found' = [stray |-> Stray(rs, o),
               unset |-> {f \in o.uses \ o.stale : fields[f] # "own"},
               unwaited |-> unfinished, code |-> code, lost |-> lost]
  /\ flight' = flight \union {Kind(o)}
-----------------------------------------------------------------------------
(* The operations *)

\* May X draw with the card?
Drawing == inServer /\ vtSema /\ ~software

\* R5xx3DSetup claims the context; nothing of R600 does.
Claimed(o) == IF Card.claims /\ o.engine3D /\ ~has3D THEN "X" ELSE owner

\* The preparation of an operation.  From R600 on it only fills a buffer;
\* one that is done in passes has nothing to draw yet.
Prepare(n) ==
  LET o == Operations[n] b == Beginning(o) IN
  /\ Drawing /\ op = "none"
  /\ op' = n /\ vertices' = FALSE
  /\ fields' = Put(fields, o.sets \union o.late, "own")
  /\ IF Card.buffers
     THEN /\ ib' = IF o.passes THEN NoIB ELSE b
          /\ has3D' = (has3D \/ ~o.passes)
          /\ UNCHANGED <<regs, unwaited, owner>>
     ELSE /\ ib' = NoIB
          /\ regs' = Executed(regs, b, o)
          /\ has3D' = (has3D \/ o.engine3D)
          /\ unwaited' = (unwaited /\ ~WaitedFor(b))
          /\ owner' = Claimed(o)
  /\ UNCHANGED <<card, found, flight, gaveUp, lost, server>>

\* A preparation that fails after the default state was written: the buffer
\* is discarded, or forgotten.  (One that is refused before that leaves
\* nothing behind.)
Refuse(n) ==
  LET o == Operations[n] b == Beginning(o) IN
  /\ Drawing /\ op = "none" /\ o.refused
  /\ has3D' = TRUE
  /\ IF Card.buffers
     THEN /\ lost' = (lost \/ b.default)
          /\ UNCHANGED <<regs, unwaited, owner>>
     ELSE /\ regs' = Put(Executed(regs, b, o), o.writes, "other")
          /\ unwaited' = (unwaited /\ ~WaitedFor(b))
          /\ owner' = Claimed(o)
          /\ UNCHANGED lost
  /\ UNCHANGED <<card, operation, found, flight, gaveUp, server>>

\* exaOffscreenAlloc moves a pixmap out of the way, amid the preparation.
\* A download waits, and may give up.
PrepareEvicting(n) ==
  LET o == Operations[n] IN
  /\ Drawing /\ op = "none" /\ o.evicts
  /\ LET down == Operations["download"] b == Beginning(down) IN
     /\ fields' = Put(Put(Put(fields, o.sets, "own"), down.sets, "other"), o.late, "own")
     /\ regs' = Left(Put(Executed(regs, b, down), down.draws, "own"))
     /\ unwaited' = (unwaited /\ ~WaitedFor(b))
  /\ op' = n /\ vertices' = FALSE /\ ib' = NoIB
  /\ has3D' = TRUE
  /\ \/ flight' = {} /\ gaveUp' = FALSE
     \/ flight' = flight \union {"unmarked"} /\ gaveUp' = TRUE
  /\ UNCHANGED <<card, found, owner, lost, server>>

\* A rectangle for a buffer.
Rectangle ==
  /\ Drawing /\ op # "none" /\ Card.buffers /\ ~Op.passes
  /\ vertices' = TRUE
  /\ UNCHANGED <<card, engine, gaveUp, fields, op, ib, context, server>>

\* A rectangle that does not fit: the buffer is drawn and the operation goes
\* on in another one, for which nothing is set up again.
Split ==
  /\ Drawing /\ op # "none" /\ Card.buffers /\ Op.splits /\ vertices
  /\ Draw(ib, FALSE)
  /\ ib' = NoIB
  /\ UNCHANGED <<card, gaveUp, fields, op, vertices, context, server>>

\* A rectangle of an operation that is written into the stream.
DrawRectangle ==
  /\ Drawing /\ op # "none" /\ ~Card.buffers
  /\ Draw(NoIB, FALSE)
  /\ UNCHANGED <<card, gaveUp, operation, context, server>>

\* A rectangle that is prepared, drawn and done (R600DoPrepareCopy,
\* R600AppendCopyVertex, R600DoCopy).
Pass ==
  /\ Drawing /\ op # "none" /\ Op.passes
  /\ Draw(Beginning(Op), FALSE)
  /\ has3D' = TRUE
  /\ UNCHANGED <<card, gaveUp, operation, owner, lost, server>>

\* The operation is done: its buffer is drawn, or discarded if it is empty.
Done ==
  /\ Drawing /\ op # "none" /\ ~Op.waits
  /\ IF Card.buffers /\ vertices
     THEN Draw(ib, TRUE) /\ UNCHANGED lost
     ELSE lost' = (lost \/ ib.default) /\ regs' = Left(regs) /\ UNCHANGED <<unwaited, found, flight>>
  /\ op' = "none" /\ ib' = NoIB /\ vertices' = FALSE
  /\ marked' = (marked \/ Op.marked)
  /\ fields' = Left(fields)
  /\ UNCHANGED <<card, gaveUp, has3D, owner, inServer, vtSema, code, software>>

\* RHDCSIdle, whose answer nobody looks at.  Before R600 the engine is asked
\* as well, and is reset when it does not come to rest (R5xx2DIdle).
Waits ==
  \/ flight' = {} /\ gaveUp' = FALSE /\ regs' = Left(regs) /\ UNCHANGED has3D
  \/ Card.buffers /\ flight # {} /\ gaveUp' = TRUE /\ regs' = Left(regs) /\ UNCHANGED <<flight, has3D>>
  \/ ~Card.buffers /\ flight' = {} /\ gaveUp' = FALSE /\ regs' = Overwritten /\ has3D' = FALSE

\* A download is done when its rows were fetched.
DoneWaiting ==
  /\ Drawing /\ op # "none" /\ Op.waits
  /\ Waits
  /\ op' = "none" /\ ib' = NoIB /\ vertices' = FALSE
  /\ fields' = Left(fields)
  /\ UNCHANGED <<card, unwaited, found, owner, lost, server>>

\* The card finishes what it was given.
Finish ==
  /\ flight # {} /\ flight' = {} /\ gaveUp' = FALSE
  /\ UNCHANGED <<card, regs, unwaited, found, operation, context, server>>
-----------------------------------------------------------------------------
(* Drawing by others *)

\* exaPrepareAccess: R600EXASync or R5xxEXASync, if a sync is marked.
PrepareAccess ==
  /\ Drawing /\ op = "none"
  /\ software' = TRUE /\ marked' = FALSE
  /\ IF marked THEN Waits ELSE UNCHANGED <<flight, gaveUp, regs, has3D>>
  /\ UNCHANGED <<card, unwaited, found, operation, owner, lost, inServer, vtSema, code>>

FinishAccess ==
  /\ software /\ software' = FALSE
  /\ UNCHANGED <<card, engine, gaveUp, operation, context, inServer, vtSema, code, marked>>

\* X's block handler: it gives the lock away.
Block ==
  /\ Drawing /\ op = "none"
  /\ inServer' = FALSE
  /\ UNCHANGED <<card, engine, gaveUp, operation, context, vtSema, code, marked, software>>

\* A client takes the lock, and the context if it is not its own.
ClientDraws ==
  /\ ~inServer
  /\ owner' = "client" /\ regs' = Overwritten /\ unwaited' = TRUE
  /\ flight' = flight \union {"client"}
  /\ UNCHANGED <<card, found, gaveUp, operation, has3D, lost, server>>

\* MUTANT of Marked: RHDEnterServer without exaMarkSync.
AsMarked == marked

\* RHDEnterServer has EXA wait for clients, whether any drew or not.
Marked == TRUE

\* MUTANT of Reconsidered: RHDEnterServer leaves XHas3DEngineState alone.
Unconsidered == has3D

\* XHas3DEngineState in RHDEnterServer.
Reconsidered == has3D /\ owner = "X"

\* RHDEnterServer, when X wakes up.  Before R600 it queues a wait in front of
\* whatever X draws next (which DriContext follows); on R600 R6xxCacheFlush
\* and R6xxEngineWaitIdleFull do nothing.
WakeUp ==
  /\ ~inServer /\ inServer' = TRUE
  /\ marked' = Marked
  /\ has3D' = Reconsidered
  /\ lost' = (lost /\ owner = "X")
  /\ unwaited' = (unwaited /\ (Card.buffers \/ owner = "X"))
  /\ UNCHANGED <<card, regs, found, flight, gaveUp, operation, owner, vtSema, code, software>>

\* rhdEngineIdle, before modes are switched and consoles: the engine comes to
\* rest or is reset.
EngineIdle ==
  /\ flight' = {} /\ gaveUp' = FALSE /\ unwaited' = FALSE
  /\ \/ UNCHANGED <<regs, has3D, lost>>
     \/ regs' = Overwritten /\ has3D' = FALSE /\ lost' = FALSE

SwitchMode ==
  /\ Drawing /\ op = "none"
  /\ EngineIdle
  /\ UNCHANGED <<card, found, operation, owner, server>>

\* RHDLeaveVT.  What the console does to memory and registers is not known.
LeaveVT ==
  /\ Drawing /\ op = "none"
  /\ EngineIdle
  /\ vtSema' = FALSE /\ code' = FALSE
  /\ UNCHANGED <<card, found, operation, owner, inServer, marked, software>>

\* RHDEnterVT: the shaders are loaded and the default state is forgotten.
EnterVT ==
  /\ ~vtSema /\ vtSema' = TRUE
  /\ code' = TRUE
  /\ regs' = Overwritten /\ has3D' = FALSE /\ lost' = FALSE
  /\ UNCHANGED <<card, unwaited, found, flight, gaveUp, operation, owner, inServer, marked, software>>

DrawingNext ==
  \/ \E n \in DOMAIN Operations : Prepare(n) \/ Refuse(n) \/ PrepareEvicting(n)
  \/ Rectangle \/ Split \/ DrawRectangle \/ Pass \/ Done \/ DoneWaiting \/ Finish
  \/ PrepareAccess \/ FinishAccess \/ Block \/ ClientDraws \/ WakeUp
  \/ SwitchMode \/ LeaveVT \/ EnterVT

DrawingSpec == DrawingInit /\ [][DrawingNext]_drawingVars
-----------------------------------------------------------------------------
(* Properties *)

\* Whatever X draws with the 3D engine, whoever drew before it and however
\* the server lost the card in between, finds each register it reads as it
\* wrote it or as the default state left it, the fields of accel_state as its
\* own preparation set them, its shaders in memory, and nothing of a client's
\* still under way.  (A default state that was discarded with an empty or
\* refused buffer and is believed to be loaded is left out.)
DrawsFindTheirState ==
  ~found.lost => found.stray = {} /\ found.unset = {} /\ ~found.unwaited /\ found.code

\* While X draws with the CPU nothing is drawn to the same memory by the card,
\* neither X's own operations nor a client's, unless the wait for them was
\* given up.  (Xv, for which no sync is marked, is left out.)
SoftwareAfterDrawing ==
  software /\ ~gaveUp => flight \subseteq {"unmarked"}
=============================================================================
