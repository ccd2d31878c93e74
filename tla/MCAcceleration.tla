--------------------------- MODULE MCAcceleration ---------------------------
(***************************************************************************)
(* Acceleration for TLC: drawing on three cards, the transfers and the     *)
(* copies of R600, the lines that are sent with commands, the frames of    *)
(* four kinds of cards, and the register writes of cards without DRI.      *)
(* They share no state, so each is explored by itself.                     *)
(***************************************************************************)
EXTENDS DrawState, Transfers, OverlapCopy, XaaScanlines, VideoFrames, MmioSubmission

VARIABLE machine  \* which of them is explored

Machines == {"drawing", "transfers", "copies", "lines", "frames", "registers"}

Adapter(r600, agp, exa, cpp, side, cursor) ==
  [r600 |-> r600, agp |-> agp, exa |-> exa, cpp |-> cpp, side |-> side, cursor |-> cursor]
PcieR600 == Adapter(TRUE, FALSE, TRUE, 4, 8192, TRUE)
AgpR600 == Adapter(TRUE, TRUE, TRUE, 4, 8192, TRUE)
R580 == Adapter(FALSE, FALSE, TRUE, 4, 4096, TRUE)
RS690 == Adapter(FALSE, FALSE, FALSE, 2, 2048, FALSE)

UsualAdapters == {PcieR600, AgpR600, R580, RS690}
OneR600 == {PcieR600}

Wanted(format, across, down) == [format |-> format, w |-> across, h |-> down]

\* Frames about CIF and QCIF, and one as wide as RS690 goes.
UsualSizes == {Wanted("YV12", 351, 287), Wanted("I420", 176, 144), Wanted("YUY2", 175, 143), Wanted("UYVY", 352, 288),
               Wanted("YV12", 2049, 36)}

\* Frames of 64 kB and less.
SmallSizes == {Wanted("YV12", 64, 64), Wanted("YUY2", 64, 48), Wanted("YUY2", 352, 288), Wanted("I420", 176, 144)}

\* Where the two ports' buffers may be, one of the places hard to align.
UsualPlaces == {0, 4096 * 256, 4096 * 512 + 6}

\* The premises of FramesWhole and FramesInside hold of the usual cards and sizes.
ASSUME UsualSizesFit == Sizes = UsualSizes => SoftwareCopiesFit /\ BuffersLargeEnough

AccelerationInit ==
  /\ machine \in Machines
  /\ DrawingInit /\ TransferInit /\ CopyInit /\ LinesInit /\ VideoInit /\ Init
  /\ machine # "drawing" => card = "R600"
  /\ machine # "frames" => adapter = PcieR600

AccelerationNext ==
  \/ /\ machine = "drawing" /\ DrawingNext
     /\ UNCHANGED <<transferVars, copyVars, lineVars, videoVars, vars>>
  \/ /\ machine = "transfers" /\ TransferNext
     /\ UNCHANGED <<drawingVars, copyVars, lineVars, videoVars, vars>>
  \/ /\ machine = "copies" /\ CopyNext
     /\ UNCHANGED <<drawingVars, transferVars, lineVars, videoVars, vars>>
  \/ /\ machine = "lines" /\ LinesNext
     /\ UNCHANGED <<drawingVars, transferVars, copyVars, videoVars, vars>>
  \/ /\ machine = "frames" /\ VideoNext
     /\ UNCHANGED <<drawingVars, transferVars, copyVars, lineVars, vars>>
  \/ /\ machine = "registers" /\ Next
     /\ UNCHANGED <<drawingVars, transferVars, copyVars, lineVars, videoVars>>

AccelerationSpec ==
  /\ AccelerationInit
  /\ [][AccelerationNext /\ UNCHANGED machine]_<<machine, drawingVars, transferVars, copyVars, lineVars, videoVars, vars>>

\* The Fairness of MmioSubmission, where its actions are taken at all.
RegistersFairly ==
  /\ WF_vars(machine = "registers" /\ Driver)
  /\ WF_vars(machine = "registers" /\ (Advance \/ MoreScanlines))
  /\ WF_vars(machine = "registers" /\ pc = "mid" /\ \E n \in 1 .. MaxGrab : Grab(n))
  /\ WF_vars(machine = "registers" /\ CardExecute)

AccelerationFairSpec == AccelerationSpec /\ RegistersFairly
=============================================================================
