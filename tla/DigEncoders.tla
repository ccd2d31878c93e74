---------------------------- MODULE DigEncoders -----------------------------
(***************************************************************************)
(* The two DIG encoders of an RV620 and up, and the outputs that share them:*)
(* UNIPHYA and UNIPHYB can each have either, the LVTMA only the second.     *)
(* One bit crosses the links between encoders and UNIPHYs (rhd_dig.c).      *)
(*                                                                         *)
(* Who has which encoder is settled when a mode is set, by the server's     *)
(* RandR through the hooks in rhd_randr.c, or without RandR once and for    *)
(* all by rhdModeLayoutSelect.  RandR calls one hook at a time, in its own  *)
(* order, and it may be told half way that a mode cannot be set: crtcOf and *)
(* the round that is going on are the server's and external.                *)
(***************************************************************************)
EXTENDS Integers, FiniteSets

CONSTANTS
  Cards,            \* the sets of outputs that a card can have
  MaxCalls          \* how many calls from outside a card with all three outputs gets

Outputs == {"UNIPHYA", "UNIPHYB", "LVTMA"}
Crtcs == {"D1", "D2"}
Encoders == {1, 2}             \* DIG1 and DIG2, and 0 is ENCODER_NONE
None == "none"

ASSUME CardsAssumption == Cards \subseteq SUBSET Outputs /\ {} \notin Cards
ASSUME MaxCallsAssumption == MaxCalls \in Nat

VARIABLES
  card,              \* rhdPtr->Outputs
  randr,             \* does RandR drive the outputs?
  EncoderID,         \* Private->EncoderID of an output
  DigEncoderOutput,  \* rhdPtr->DigEncoderOutput, an encoder's output
  Active,            \* Output->Active: these outputs
  Crtc,              \* Output->Crtc
  path,              \* the hardware, and the encoder that the BIOS is told
  asleep,            \* without RandR, the outputs have been powered down
  screen,            \* who has the screen: "none" before the layout
  store,             \* what EncoderSave saved, for each output
  console,           \* the path as the console had it
  crtcOf,            \* the server's output->crtc, None where it has none
  round,             \* the round of calls that is going on
  calls,             \* how many calls there have been, on a card with three outputs
  spoiled            \* outputs that a refused mode left without an encoder or a picture

driver == <<EncoderID, DigEncoderOutput, Active, Crtc, asleep>>
encoderVars == <<card, randr, EncoderID, DigEncoderOutput, Active, Crtc, path, asleep, screen,
                 store, console, crtcOf, round, calls, spoiled>>

\* A round: what it is at, the outputs that this is still to be done for, the
\* CRTC whose mode it sets, those that come after it, and the server's crtcOf
\* from before.
Idle == [at |-> "idle", todo |-> {}, crtc |-> None, later |-> {}, before |-> [o \in Outputs |-> None]]
At(at, todo) == [round EXCEPT !.at = at, !.todo = todo]
Done(o) == round.todo \ {o}
-----------------------------------------------------------------------------
(* The hardware.  swap is LINK_STEER_SWAP, dig[e] is whether an encoder is on *)
(* and which CRTC it takes its picture from, lit the transmitters that are    *)
(* on, and known the UNIPHYs that have their atc->Encoder. *)

digProbeEncoder(o, h) ==
  CASE o = "LVTMA"   -> 2
    [] o = "UNIPHYA" -> IF h.swap THEN 2 ELSE 1
    [] o = "UNIPHYB" -> IF h.swap THEN 1 ELSE 2

\* The encoder an output is linked to, if nobody else has it.
Probed(o, h) ==
  LET e == digProbeEncoder(o, h) IN IF DigEncoderOutput[e] = None THEN e ELSE 0

EncoderPower(o, p, h) ==
  LET e == IF EncoderID[o] # 0 THEN EncoderID[o] ELSE Probed(o, h) IN
  IF e = 0 THEN h ELSE [h EXCEPT !.dig[e].on = (p = "ON")]

\* The LVTMA's is in the driver and never asks for the encoder.
TransmitterPower(o, p, h) ==
  IF o # "LVTMA" /\ o \notin h.known /\ Probed(o, h) = 0 THEN h
  ELSE [h EXCEPT !.known = @ \union {o}, !.lit = IF p = "ON" THEN @ \union {o} ELSE @ \ {o}]

DigPower(o, p, h) ==
  IF p = "ON" THEN TransmitterPower(o, p, EncoderPower(o, p, h))
  ELSE EncoderPower(o, p, TransmitterPower(o, p, h))

\* What is done for some of the outputs, in the order of the list.
ForEach(Do(_, _), os, h) ==
  LET Next(o, g) == IF o \in os THEN Do(o, g) ELSE g
  IN  Next("LVTMA", Next("UNIPHYB", Next("UNIPHYA", h)))

\* RHDOutputsPower and RHDOutputsShutdownInactive, for the outputs that they
\* are about.
OutputsPower(os, p, h) == ForEach(LAMBDA o, g : DigPower(o, p, g), os, h)

\* MUTANT of EncoderSet: the link of UNIPHYB is crossed for the wrong encoder.
EncoderSetSteered(o, h) ==
  [h EXCEPT !.dig[EncoderID[o]].source = Crtc[o],
            !.swap = CASE o = "UNIPHYA" -> EncoderID[o] = 2
                       [] o = "UNIPHYB" -> EncoderID[o] = 2
                       [] o = "LVTMA"   -> @]

EncoderSet(o, h) ==
  [h EXCEPT !.dig[EncoderID[o]].source = Crtc[o],
            !.swap = CASE o = "UNIPHYA" -> EncoderID[o] = 2
                       [] o = "UNIPHYB" -> EncoderID[o] = 1
                       [] o = "LVTMA"   -> @]

\* MUTANT of EncoderSave: the encoder that the driver last used is saved.
EncoderSaveOwn(o) ==
  LET e == IF EncoderID[o] = 0 THEN digProbeEncoder(o, path) ELSE EncoderID[o] IN
  [encoder |-> e, dig |-> path.dig[e], swap |-> path.swap]

EncoderSave(o) ==
  LET e == digProbeEncoder(o, path) IN [encoder |-> e, dig |-> path.dig[e], swap |-> path.swap]

EncoderRestore(o, h) ==
  [h EXCEPT !.dig[store[o].encoder] = store[o].dig, !.swap = store[o].swap]

(* Who has which encoder. *)

\* The encoder that an output gets from DigAllocFree, 0 when it is refused.
Allocated(o, owner) ==
  IF EncoderID[o] # 0 THEN EncoderID[o]
  ELSE IF o # "LVTMA" /\ owner[1] = None THEN 1
  ELSE IF owner[2] = None THEN 2 ELSE 0

\* rhdRRFreeOutputs
Freed == {o \in card : crtcOf[o] = None}
-----------------------------------------------------------------------------
\* The console drives as many of the outputs as there are encoders for.
ConsolePaths ==
  LET Drives(s, os) ==
        \A e \in Encoders : Cardinality({o \in os : digProbeEncoder(o, [swap |-> s]) = e}) <= 1
  IN  {[swap |-> h[1], lit |-> h[2], known |-> {},
        dig |-> [e \in Encoders |->
          [on |-> \E o \in h[2] : digProbeEncoder(o, [swap |-> h[1]]) = e, source |-> "console"]]] :
         h \in {g \in BOOLEAN \X SUBSET card :
                  Drives(g[1], g[2]) /\ \A o \in card \ g[2] : ~Drives(g[1], g[2] \union {o})}}

Unsaved == [o \in Outputs |-> [encoder |-> 0, dig |-> "unsaved", swap |-> FALSE]]

EncoderInit ==
  /\ card \in Cards
  /\ randr \in BOOLEAN
  /\ EncoderID = [o \in Outputs |-> 0] /\ DigEncoderOutput = [e \in Encoders |-> None]
  /\ Active = {} /\ Crtc = [o \in Outputs |-> None]
  /\ path \in ConsolePaths /\ console = path
  /\ asleep = FALSE /\ screen = "none"
  /\ store = Unsaved
  /\ crtcOf = [o \in Outputs |-> None]
  /\ round = Idle /\ calls = 0 /\ spoiled = {}

(* The layout *)

\* rhdModeLayoutSelect, for the connected outputs in the order of its list, which
\* are dealt to the two CRTCs in turn.
LayoutSelect ==
  /\ screen = "none" /\ ~randr /\ round = Idle
  /\ \E connected \in SUBSET card \ {{}} : round' = [Idle EXCEPT !.at = "layout", !.todo = connected]
  /\ UNCHANGED <<card, randr, calls, driver, path, screen, store, console, crtcOf, spoiled>>

Layout(o) ==
  LET e == Allocated(o, DigEncoderOutput) IN
  /\ round.at = "layout" /\ o \in round.todo
  /\ IF e = 0 THEN UNCHANGED <<driver, path>>
     ELSE /\ EncoderID' = [EncoderID EXCEPT ![o] = e]
          /\ DigEncoderOutput' = [DigEncoderOutput EXCEPT ![e] = o]
          /\ path' = [path EXCEPT !.known = @ \union {o}]
          /\ Active' = Active \union {o}
          /\ Crtc' = [Crtc EXCEPT ![o] = IF Cardinality(Active) % 2 = 0 THEN "D1" ELSE "D2"]
          /\ UNCHANGED asleep
  /\ round' = IF Done(o) = {} THEN Idle ELSE At("layout", Done(o))
  /\ screen' = IF Done(o) = {} THEN "console" ELSE screen
  /\ UNCHANGED <<card, randr, calls, store, console, crtcOf, spoiled>>

\* External: xf86InitialConfiguration, of RHDRandrPreInit.
InitialConfiguration ==
  /\ screen = "none" /\ randr
  /\ crtcOf' \in {f \in [Outputs -> Crtcs \union {None}] : \A o \in Outputs \ card : f[o] = None}
  /\ screen' = "console"
  /\ UNCHANGED <<card, randr, calls, driver, path, store, console, round, spoiled>>

(* The screen *)

\* The CRTCs that the server has outputs on.
Used == {crtcOf[o] : o \in card} \ {None}
OutputsOf(c) == {o \in card : crtcOf[o] = c}

\* The modes of these CRTCs are set one after the other, and then what is not
\* used is switched off.
Rounds(cs) ==
  IF cs = {} THEN [Idle EXCEPT !.at = "unused", !.todo = {o \in card : crtcOf[o] = None}]
  ELSE LET c == IF "D1" \in cs THEN "D1" ELSE "D2" IN
       [at |-> "fixup", todo |-> OutputsOf(c), crtc |-> c, later |-> cs \ {c}, before |-> crtcOf]

\* rhdSetMode: the modes of the active outputs.
StaticRound == [Idle EXCEPT !.at = "mode", !.todo = Active]

\* MaxCalls bounds the calls from outside on a card with all three outputs.
Counted == IF card = Outputs THEN calls < MaxCalls /\ calls' = calls + 1 ELSE UNCHANGED calls

\* RHDEnterVT: rhdSave, and with RandR RHDPrepareMode and xf86SetDesiredModes.
EnterVT ==
  /\ Counted
  /\ screen = "console"
  /\ screen' = "driver"
  /\ store' = [o \in Outputs |-> IF o \in card THEN EncoderSave(o) ELSE store[o]]
  /\ path' = IF randr THEN OutputsPower(Active, "RESET", path) ELSE path
  /\ round' = IF randr THEN Rounds(Used) ELSE StaticRound
  /\ UNCHANGED <<card, randr, driver, console, crtcOf, spoiled>>

\* RHDLeaveVT.  What was saved is not looked at again.
LeaveVT ==
  /\ Counted
  /\ screen = "driver" /\ round = Idle
  /\ screen' = "console"
  /\ path' = ForEach(EncoderRestore, card, path)
  /\ store' = Unsaved
  /\ UNCHANGED <<card, randr, driver, console, crtcOf, round, spoiled>>

\* External: whoever has the screen sets a mode.
ConsoleSets ==
  /\ Counted
  /\ screen = "console"
  /\ \E h \in ConsolePaths : path' = [h EXCEPT !.known = path.known] /\ console' = path'
  /\ UNCHANGED <<card, randr, driver, screen, store, crtcOf, round, spoiled>>

\* RHDSwitchMode without RandR.
SwitchMode ==
  /\ Counted
  /\ screen = "driver" /\ round = Idle /\ ~randr
  /\ path' = OutputsPower(Active, "RESET", path)
  /\ round' = StaticRound
  /\ UNCHANGED <<card, randr, driver, screen, store, console, crtcOf, spoiled>>

\* The output shows the picture of its CRTC, through an encoder of its own that
\* it is linked to.
Driven(o) ==
  LET e == EncoderID[o] IN
  /\ e # 0
  /\ o \in path.lit /\ path.dig[e].on
  /\ path.dig[e].source = Crtc[o] /\ digProbeEncoder(o, path) = e
  /\ randr => crtcOf[o] = Crtc[o]

(* The rounds of RandR *)

\* External: a client puts these outputs on a CRTC, or switches it off.
CrtcSet(c, os) ==
  /\ Counted
  /\ screen = "driver" /\ round = Idle /\ randr
  /\ crtcOf' = [o \in Outputs |-> IF o \in os THEN c ELSE IF crtcOf[o] = c THEN None ELSE crtcOf[o]]
  /\ round' = IF os = {}
              THEN [Idle EXCEPT !.at = "unused", !.todo = {o \in card : crtcOf'[o] = None}]
              ELSE [at |-> "fixup", todo |-> os, crtc |-> c, later |-> {}, before |-> crtcOf]
  /\ UNCHANGED <<card, randr, driver, path, screen, store, console, spoiled>>

\* rhdRROutputModeFixup.  A mode can also be refused for what it is; then, and
\* when there is no encoder, the server takes its crtcOf back and goes no
\* further, but what was freed stays freed.
OutputModeFixup(o, valid) ==
  LET free == [e \in Encoders |-> IF DigEncoderOutput[e] \in Freed THEN None ELSE DigEncoderOutput[e]]
      e == Allocated(o, free)
      freed == [p \in Outputs |-> IF p \in Freed THEN 0 ELSE EncoderID[p]]
  IN
  /\ round.at = "fixup" /\ o \in round.todo
  /\ EncoderID' = IF e = 0 THEN freed ELSE [freed EXCEPT ![o] = e]
  /\ DigEncoderOutput' = IF e = 0 THEN free ELSE [free EXCEPT ![e] = o]
  /\ path' = IF e = 0 THEN path ELSE [path EXCEPT !.known = @ \union {o}]
  /\ IF e # 0 /\ valid
     THEN /\ round' = IF Done(o) = {} THEN At("prepare", OutputsOf(round.crtc)) ELSE At("fixup", Done(o))
          /\ UNCHANGED <<crtcOf, spoiled>>
     ELSE /\ round' = Idle
          /\ crtcOf' = round.before
          /\ spoiled' = spoiled \union {p \in card : crtcOf'[p] # None /\ (EncoderID'[p] = 0 \/ ~Driven(p))}
  /\ UNCHANGED <<card, randr, calls, Active, Crtc, asleep, screen, store, console>>

\* rhdRROutputPrepare, for each output of the CRTC.
OutputPrepare ==
  /\ round.at = "prepare"
  /\ path' = OutputsPower(round.todo, "RESET", path)
  /\ Crtc' = [o \in Outputs |-> IF o \in round.todo THEN None ELSE Crtc[o]]
  /\ round' = At("crtc", round.todo)
  /\ UNCHANGED <<card, randr, calls, EncoderID, DigEncoderOutput, Active, asleep, screen, store, console,
                 crtcOf, spoiled>>

\* rhdRRCrtcModeSet, as far as the outputs are concerned.
CrtcModeSet ==
  /\ round.at = "crtc"
  /\ Crtc' = [o \in Outputs |-> IF crtcOf[o] = round.crtc THEN round.crtc ELSE Crtc[o]]
  /\ round' = At("mode", round.todo)
  /\ UNCHANGED <<card, randr, calls, EncoderID, DigEncoderOutput, Active, path, asleep, screen, store, console,
                 crtcOf, spoiled>>

\* rhdRROutputModeSet and RHDOutputsMode: DigMode of each.
OutputMode ==
  /\ round.at = "mode"
  /\ path' = ForEach(EncoderSet, round.todo, path)
  /\ round' = IF randr THEN At("commit", round.todo) ELSE At("unused", card \ Active)
  /\ UNCHANGED <<card, randr, calls, driver, screen, store, console, crtcOf, spoiled>>

\* rhdRROutputCommit
OutputCommit ==
  /\ round.at = "commit"
  /\ Active' = Active \union round.todo
  /\ path' = OutputsPower(round.todo, "ON", path)
  /\ round' = Rounds(round.later)
  /\ spoiled' = spoiled \ round.todo
  /\ UNCHANGED <<card, randr, calls, EncoderID, DigEncoderOutput, Crtc, asleep, screen, store, console, crtcOf>>

\* xf86DisableUnusedFunctions, with rhdRROutputDpms(DPMSModeOff); without RandR
\* RHDOutputsShutdownInactive, and then the others are switched on.
DisableUnused ==
  LET off == OutputsPower(round.todo, "SHUTDOWN", path) IN
  /\ round.at = "unused"
  /\ path' = IF randr THEN off ELSE OutputsPower(Active, "ON", off)
  /\ Active' = IF randr THEN Active \ round.todo ELSE Active
  /\ asleep' = FALSE
  /\ spoiled' = spoiled \ round.todo
  /\ round' = Idle
  /\ UNCHANGED <<card, randr, calls, EncoderID, DigEncoderOutput, Crtc, screen, store, console, crtcOf>>

(* Power management *)

\* rhdRROutputDpms for the outputs that have a CRTC.  The server is dead when
\* one is switched on that the driver does not know to have it.
OutputDpms(p) ==
  LET os == {o \in card : crtcOf[o] # None} IN
  /\ Counted
  /\ screen = "driver" /\ round = Idle /\ randr
  /\ path' = OutputsPower(os, p, path)
  /\ Active' = IF p = "ON" THEN Active \union os ELSE Active \ os
  /\ screen' = IF p = "ON" /\ \E o \in os : Crtc[o] # crtcOf[o] THEN "dead" ELSE screen
  /\ UNCHANGED <<card, randr, EncoderID, DigEncoderOutput, Crtc, asleep, store, console,
                 crtcOf, round, spoiled>>

\* RHDDisplayPowerManagementSet
DisplayPowerManagementSet(on) ==
  /\ Counted
  /\ screen = "driver" /\ round = Idle /\ ~randr
  /\ path' = OutputsPower(Active, IF on THEN "ON" ELSE "RESET", path)
  /\ asleep' = ~on
  /\ UNCHANGED <<card, randr, EncoderID, DigEncoderOutput, Active, Crtc, screen, store, console,
                 crtcOf, round, spoiled>>

EncoderNext ==
  \/ LayoutSelect \/ \E o \in Outputs : Layout(o)
  \/ InitialConfiguration
  \/ EnterVT \/ LeaveVT \/ ConsoleSets \/ SwitchMode
  \/ \E c \in Crtcs, os \in SUBSET card : CrtcSet(c, os)
  \/ \E o \in Outputs, valid \in BOOLEAN : OutputModeFixup(o, valid)
  \/ OutputPrepare \/ CrtcModeSet \/ OutputMode \/ OutputCommit \/ DisableUnused
  \/ \E p \in {"ON", "RESET", "SHUTDOWN"} : OutputDpms(p)
  \/ \E on \in BOOLEAN : DisplayPowerManagementSet(on)

EncoderSpec == EncoderInit /\ [][EncoderNext]_encoderVars

-----------------------------------------------------------------------------
Settled == screen = "driver" /\ round = Idle /\ ~asleep

\* What is active is seen, except for the outputs that a refused mode took the
\* encoder of: each has an encoder of its own that is on, is linked to it and
\* takes its picture from the CRTC that the output is on, whoever was given
\* which encoder before, in whatever order RandR set the CRTCs, and whatever
\* was switched off meanwhile.  At no moment do the outputs and the encoders
\* disagree about who has whom (DigAllocFree).
LitOutputsDriven ==
  /\ \A e \in Encoders, o \in Outputs : EncoderID[o] = e <=> DigEncoderOutput[e] = o
  /\ Settled => \A o \in Active \ spoiled : Driven(o)

\* When the screen is the console's, the links and the encoders of the outputs
\* are as it had them (EncoderSave, EncoderRestore), whichever encoders the
\* driver has given the outputs in between.
ConsoleLinksBack ==
  screen = "console" =>
    /\ path.swap = console.swap
    /\ \A o \in card : path.dig[digProbeEncoder(o, console)] = console.dig[digProbeEncoder(o, console)]
=============================================================================
