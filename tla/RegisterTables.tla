--------------------------- MODULE RegisterTables ---------------------------
(***************************************************************************)
(* What a handler of the driver does to the registers of a part of the     *)
(* display hardware, in the end: it switches some on, some off, and sets    *)
(* some to what the driver wants; or it returns at once when a switch is    *)
(* off.                                                                    *)
(*                                                                         *)
(* A register is split where some of its bits switch the part on: these    *)
(* are fields of their own and are "on" or "off".  Of all the others it    *)
(* only matters who wrote them.                                            *)
(***************************************************************************)
EXTENDS Integers

Powers == {"ON", "RESET", "SHUTDOWN"}          \* RHD_POWER_...
Levels == Powers \union {"UNKNOWN"}

\* The lists on which the registers that the BIOS writes are saved, in the order
\* in which rhdRestore restores them: that of the scaler and that of the mode of
\* a CRTC, and that of an output.
NoList == 0
ScaleList == 1
ModeList == 2
OutputList == 3
SaveLists == ScaleList..OutputList

Writes(on, off, set) == [on |-> on, off |-> off, set |-> set, unless |-> {}, list |-> NoList]
Nothing == Writes({}, {}, {})
Touched(w) == w.on \union w.off \union w.set

\* Between two calls of atomSetRegisterListLocation.
Listed(list, w) == [w EXCEPT !.list = list]

SkippedBy(rs, w) == \E g \in w.unless : rs[g] = "off"

After(rs, w) ==
  [f \in DOMAIN rs |->
     IF SkippedBy(rs, w) THEN rs[f]
     ELSE IF f \in w.on THEN "on" ELSE IF f \in w.off THEN "off"
     ELSE IF f \in w.set THEN "driver" ELSE rs[f]]

\* A Power handler that does not look at what it was told before.
ByPower(on, reset, shutdown) ==
  [lp \in Levels \X Powers |->
     CASE lp[2] = "ON" -> on [] lp[2] = "RESET" -> reset [] lp[2] = "SHUTDOWN" -> shutdown]

Dark(reset, shutdown) ==
  [p \in {"RESET", "SHUTDOWN"} |-> IF p = "RESET" THEN reset ELSE shutdown]
=============================================================================
