---------------------------- MODULE MCModesetting ----------------------------
(***************************************************************************)
(* Mode setting for TLC: the clocks of the CRTCs and the DIG encoders, each *)
(* explored by itself.                                                     *)
(***************************************************************************)
EXTENDS PixelClocks, DigEncoders

VARIABLE machine  \* which of them is explored

ModesettingInit ==
  /\ machine \in {"clocks", "encoders"}
  /\ PixelInit /\ EncoderInit
  /\ machine = "encoders" => chip = "R500"
  /\ machine = "clocks" => ~randr /\ card = (CHOOSE c \in Cards : TRUE) /\ path = CHOOSE p \in ConsolePaths : TRUE

ModesettingNext ==
  \/ machine = "clocks" /\ PixelNext /\ UNCHANGED encoderVars
  \/ machine = "encoders" /\ EncoderNext /\ UNCHANGED pixelVars

ModesettingSpec == ModesettingInit /\ [][ModesettingNext /\ UNCHANGED machine]_<<machine, pixelVars, encoderVars>>
=============================================================================
