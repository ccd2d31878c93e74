---------------------------- MODULE PixelClocks ----------------------------
(***************************************************************************)
(* The two pixel clock PLLs (rhd_pll.c), the multiplexers that give each   *)
(* CRTC one of them, and, from the RV620 on, the source of the display     *)
(* clock that "DCCG" hooks off a pixel clock.  A routine is the sequence   *)
(* of its register writes and a write is an action, since the hardware     *)
(* looks at the registers between them.                                    *)
(*                                                                         *)
(* The hardware is external: a PLL that is started locks or does not, and  *)
(* a multiplexer follows its register only while the PLL it still uses     *)
(* runs.  Pulses that are over at once and the values of the dividers are  *)
(* left out: what counts is whose they are.  The console may set any clocks*)
(* while it has the screen, as long as they work.                          *)
(***************************************************************************)
EXTENDS Integers, Sequences

PLLs == {1, 2}      \* PLL_ID_PLL1 and PLL_ID_PLL2
ClockedCrtcs == {1, 2}  \* rhdPtr->Crtc[i]->PLL is rhdPtr->PLLs[i]
External == 3       \* DCCG_DISP_CLK_SRCSEL: the external clock, not a PLL
Powers == {"ON", "RESET", "SHUTDOWN"}

VARIABLES
  chip,     \* the chip: an R500, an M54, or an RV620 and up
  pll,      \* the registers of each PLL: its bits in PxPLL_CNTL and what it has
            \* calibrated, whose dividers it has, what feeds the clock (the
            \* POST_DIV_SRC, and the bits in DISP_CLK_CNTL and the SYM divider),
            \* and its spread spectrum
  mux,      \* PCLK_CRTCx_CNTL: the PLL each CRTC should use
  follows,  \* the PLL each CRTC does use
  dccg,     \* DCCG_DISP_CLK_SRCSEL, the PLL or External
  holder,   \* who has the screen, the console or the driver
  pending,  \* the routines of the handler that are still to be called
  todo,     \* the writes of the current routine that are still to be done
  stored,   \* PLL->Store..., what RHDPLLsSave has saved
  active,   \* PLL->Active
  before,   \* all the registers as the console has them, or had them last
  wanted    \* what the driver asked of each PLL last since it has the screen

hardware == <<pll, mux, follows, dccg>>
kept == <<holder, stored, active, before, wanted>>
pixelVars == <<chip, hardware, pending, todo, kept>>

Resting == pending = <<>> /\ todo = <<>>
HasDccg == chip = "RV620"

\* !(PxPLL_CNTL & 0x03): powered and not in reset.
Runs(p) == ~pll[p].reset /\ ~pll[p].down
-----------------------------------------------------------------------------
(* The writes.  Every one of them is the head of todo. *)

Write(p, fields) == [op |-> "Write", pll |-> p, fields |-> fields]
PowerDown(p) == [op |-> "PowerDown", pll |-> p]
Lock(p) == [op |-> "Lock", pll |-> p]
Grab(p, c) == [op |-> "Grab", pll |-> p, crtc |-> c]
SetDccg(d) == [op |-> "SetDccg", source |-> d]
ReleaseDccg(p) == [op |-> "ReleaseDccg", pll |-> p]
ResetDccg(p) == [op |-> "ResetDccg", pll |-> p]

Doing(op) == todo # <<>> /\ Head(todo).op = op

\* What the PLLs do after a write: one that is stopped loses its lock, and
\* the multiplexers of the CRTCs follow their registers if they can.
Hardware(newPLL, newMux) ==
  LET Stopped(p) == newPLL[p].reset \/ newPLL[p].down IN
  /\ pll' = [p \in PLLs |-> IF Stopped(p) THEN [newPLL[p] EXCEPT !.cal = "none"] ELSE newPLL[p]]
  /\ mux' = newMux
  /\ follows' = [c \in ClockedCrtcs |-> IF Stopped(follows[c]) THEN follows[c] ELSE newMux[c]]

Updated(p, fields) ==
  [pll EXCEPT ![p] = [f \in DOMAIN @ |-> IF f \in DOMAIN fields THEN fields[f] ELSE @[f]]]

DoWrite ==
  /\ Doing("Write")
  /\ Hardware(Updated(Head(todo).pll, Head(todo).fields), mux)
  /\ todo' = Tail(todo)
  /\ UNCHANGED <<chip, dccg, pending, kept>>

\* "Sometimes we have to keep unused PLL running", when the driver of the
\* differential clock, which is set elsewhere, is not disabled.
DoPowerDown ==
  /\ Doing("PowerDown")
  /\ \E down \in IF HasDccg THEN {TRUE, pll[Head(todo).pll].down} ELSE {TRUE} :
       Hardware(Updated(Head(todo).pll, [down |-> down]), mux)
  /\ todo' = Tail(todo)
  /\ UNCHANGED <<chip, dccg, pending, kept>>

\* The end of PLLxCalibrate: the wait for the PLL to lock is over.
DoLock ==
  /\ Doing("Lock")
  /\ \E cal \in {"locked", "failed"} :
       Hardware(Updated(Head(todo).pll, [reset |-> FALSE, cal |-> cal]), mux)
  /\ todo' = Tail(todo)
  /\ UNCHANGED <<chip, dccg, pending, kept>>

\* MUTANT of Poke: the PLL in use is believed to run.
PokeNever(p) == <<>>

\* "if the current pll is not active, then poke it just enough to flip owners"
Poke(p) ==
  IF Runs(p) THEN <<>>
  ELSE <<Write(p, [reset |-> FALSE, down |-> FALSE]),
         Write(p, [reset |-> pll[p].reset, down |-> pll[p].down])>>

\* R500PLLCRTCGrab: the current PLL is the one the register had before.
DoGrab ==
  /\ Doing("Grab")
  /\ LET c == Head(todo).crtc IN
     /\ Hardware(pll, [mux EXCEPT ![c] = Head(todo).pll])
     /\ todo' = Poke(mux[c]) \o Tail(todo)
  /\ UNCHANGED <<chip, dccg, pending, kept>>

DoSetDccg ==
  /\ Doing("SetDccg")
  /\ dccg' = Head(todo).source
  /\ todo' = Tail(todo)
  /\ UNCHANGED <<chip, pll, mux, follows, pending, kept>>

\* "set to other PLL or external"
Released(p) ==
  CASE dccg # p -> dccg
    [] dccg = p /\ Runs(3 - p) /\ pll[3 - p].cal = "locked" -> 3 - p
    [] OTHER -> External

DoReleaseDccg ==
  /\ Doing("ReleaseDccg")
  /\ dccg' = Released(Head(todo).pll)
  /\ todo' = Tail(todo)
  /\ UNCHANGED <<chip, pll, mux, follows, pending, kept>>

DoResetDccg ==
  /\ Doing("ResetDccg")
  /\ dccg' = IF dccg = Head(todo).pll THEN External ELSE dccg
  /\ todo' = Tail(todo)
  /\ UNCHANGED <<chip, pll, mux, follows, pending, kept>>
-----------------------------------------------------------------------------
(* The routines: what they write, when they are called in the present state. *)

When(condition, writes) == IF condition THEN writes ELSE <<>>

\* RV620DCCGCLKAvailable
DccgAvailable(p) == HasDccg /\ dccg \in {p, External}

Calibrate(p) == <<Write(p, [reset |-> TRUE]), Lock(p)>>

R500Power(p, power) ==
  CASE power = "ON"       -> <<Write(p, [down |-> FALSE])>> \o Calibrate(p)
    [] power = "RESET"    -> <<Write(p, [reset |-> TRUE]), Write(p, [down |-> FALSE])>>
    [] power = "SHUTDOWN" -> <<Write(p, [reset |-> TRUE]), PowerDown(p)>>

RV620Power(p, power) ==
  CASE power = "ON"       -> When(DccgAvailable(p), <<ResetDccg(p)>>) \o R500Power(p, "ON")
                               \o When(DccgAvailable(p), <<SetDccg(p)>>)
    [] power = "RESET"    -> <<ReleaseDccg(p)>> \o R500Power(p, "RESET")
    [] power = "SHUTDOWN" -> <<ReleaseDccg(p)>> \o R500Power(p, "SHUTDOWN")
                               \o <<Write(p, [glitch |-> TRUE])>>

Power(p, power) == IF HasDccg THEN RV620Power(p, power) ELSE R500Power(p, power)

R500SetLow(p, whose) ==
  <<Write(p, [src |-> "reference"]), Write(p, [div |-> whose]), Write(p, [down |-> FALSE]),
    Write(p, [reset |-> TRUE, down |-> TRUE]), Write(p, [down |-> FALSE])>>
  \o Calibrate(p) \o <<Write(p, [src |-> "pll"])>>

RV620SetLow(p, whose) ==
  <<Write(p, [src |-> "reference", feed |-> "reference"]),
    Write(p, [reset |-> TRUE]), Write(p, [down |-> TRUE]), Write(p, [glitch |-> TRUE]),
    Write(p, [src |-> "pll", div |-> whose]), Write(p, [down |-> FALSE]), Write(p, [glitch |-> FALSE])>>
  \o Calibrate(p) \o <<Write(p, [src |-> "pll", feed |-> "pll"])>>

\* R500PLLxSet and RV620PLLxSet: each CRTC has the PLL with its number.
R500Set(p) == <<Write(p, [ss |-> FALSE])>> \o R500SetLow(p, "driver") \o <<Grab(p, p)>>

RV620Set(p) ==
  When(DccgAvailable(p), <<ResetDccg(p)>>)
  \o <<Write(p, [ss |-> FALSE])>> \o RV620SetLow(p, "driver") \o <<Grab(p, p)>>
  \o When(DccgAvailable(p), <<SetDccg(p)>>)

\* MUTANT of Owned: the owner of the second CRTC is not put back.
OwnedFirst(p) == When(stored[p].owner[1], <<Grab(p, 1)>>)

Owned(p) == When(stored[p].owner[1], <<Grab(p, 1)>>) \o When(stored[p].owner[2], <<Grab(p, 2)>>)

\* "HotFix: always keep spread spectrum disabled on restore", for PLL1.
R500Restore(p) ==
  (IF stored[p].active
   THEN R500SetLow(p, "console") \o When(p = 2 /\ chip # "M54", <<Write(p, [ss |-> stored[p].ss])>>)
   ELSE R500Power(p, "SHUTDOWN") \o <<Write(p, [div |-> "console", ss |-> stored[p].ss])>>)
  \o Owned(p)

\* RV620PLL1Restore and RV620PLL2Restore: only PLL1 gets the display clock
\* back before the CRTCs get theirs.
RV620Restore(p) ==
  When(DccgAvailable(p), <<SetDccg(External)>>)
  \o (IF stored[p].active
      THEN RV620SetLow(p, "console") \o <<Write(p, [ss |-> stored[p].ss])>>
           \o When(p = 1 /\ stored[p].dccgOwner, <<SetDccg(stored[p].dccg)>>)
      ELSE RV620Power(p, "SHUTDOWN") \o
           <<Write(p, [div |-> "console", src |-> stored[p].src]),
             Write(p, [ss |-> stored[p].ss]), Write(p, [glitch |-> stored[p].glitch])>>)
  \o Owned(p) \o When(stored[p].dccgOwner, <<SetDccg(stored[p].dccg)>>)

Set(p) == IF HasDccg THEN RV620Set(p) ELSE R500Set(p)
Restore(p) == IF HasDccg THEN RV620Restore(p) ELSE R500Restore(p)

Body(call) ==
  CASE call.routine = "Set"     -> Set(call.pll)
    [] call.routine = "Power"   -> Power(call.pll, call.power)
    [] call.routine = "Restore" -> Restore(call.pll)

CallRoutine ==
  /\ pending # <<>> /\ todo = <<>>
  /\ todo' = Body(Head(pending))
  /\ pending' = Tail(pending)
  /\ UNCHANGED <<chip, hardware, kept>>
-----------------------------------------------------------------------------
(* The handlers. *)

Nothing == [saved |-> FALSE]

\* R500PLLxSave and RV620PLLxSave: PxPLL_CNTL is saved as one bit.
SavedPLL(p) ==
  [active |-> Runs(p), src |-> pll[p].src, ss |-> pll[p].ss, glitch |-> pll[p].glitch,
   owner |-> [c \in ClockedCrtcs |-> mux[c] = p],
   dccgOwner |-> DccgAvailable(p), dccg |-> IF DccgAvailable(p) THEN dccg ELSE 1]

\* RHDEnterVT: RHDPLLsSave.
PixelEnterVT ==
  /\ Resting /\ holder = "console"
  /\ holder' = "driver"
  /\ stored' = [p \in PLLs |-> SavedPLL(p)]
  /\ wanted' = [p \in PLLs |-> "nothing"]
  /\ UNCHANGED <<chip, hardware, pending, todo, active, before>>

\* RHDPLLSet, for a clock that PLLCalculate finds dividers for.
SetMode(p) ==
  /\ Resting /\ holder = "driver"
  /\ pending' = <<[routine |-> "Set", pll |-> p]>>
  /\ active' = [active EXCEPT ![p] = TRUE]
  /\ wanted' = [wanted EXCEPT ![p] = "clock"]
  /\ UNCHANGED <<chip, hardware, todo, holder, stored, before>>

\* RHDPLLPower, as rhdRRCrtcDpms uses it: a CRTC that has no mode is only shut
\* down.
SetPower(p, power) ==
  /\ Resting /\ holder = "driver"
  /\ power = "SHUTDOWN" \/ wanted[p] # "nothing"
  /\ pending' = <<[routine |-> "Power", pll |-> p, power |-> power]>>
  /\ wanted' = [wanted EXCEPT ![p] =
       CASE @ = "nothing" -> "nothing"
         [] @ # "nothing" /\ power = "ON" -> "clock"
         [] OTHER -> "pause"]
  /\ UNCHANGED <<chip, hardware, todo, holder, stored, active, before>>

Shutdown(p) == When(~active[p], <<[routine |-> "Power", pll |-> p, power |-> "SHUTDOWN"]>>)

\* RHDPLLsShutdownInactive
ShutdownInactive ==
  /\ Resting /\ holder = "driver"
  /\ pending' = Shutdown(1) \o Shutdown(2)
  /\ pending' # <<>>
  /\ UNCHANGED <<chip, hardware, todo, kept>>

\* RHDLeaveVT: RHDPLLsRestore.
PixelLeaveVT ==
  /\ Resting /\ holder = "driver"
  /\ holder' = "console"
  /\ pending' = <<[routine |-> "Restore", pll |-> 1], [routine |-> "Restore", pll |-> 2]>>
  /\ UNCHANGED <<chip, hardware, todo, stored, active, before, wanted>>

\* What a console sets up: a PLL runs and feeds its clock or does not, and
\* the display clock comes from one that runs.  Spread spectrum is set on both
\* or on none.
ConsolePLL(runs, spread) ==
  [reset |-> ~runs, down |-> ~runs, cal |-> IF runs THEN "locked" ELSE "none", div |-> "console",
   src |-> IF runs THEN "pll" ELSE "reference", feed |-> IF runs THEN "pll" ELSE "reference",
   ss |-> spread, glitch |-> FALSE]

ConsoleSources(run) == IF HasDccg THEN {External} \union run ELSE {External}

ConsoleSetsClocks ==
  /\ Resting /\ holder = "console"
  /\ \E run \in SUBSET PLLs, spread \in {{}, PLLs}, owner \in [ClockedCrtcs -> PLLs] :
       /\ pll' = [p \in PLLs |-> ConsolePLL(p \in run, p \in spread)]
       /\ mux' = owner /\ follows' = owner
       /\ dccg' \in ConsoleSources(run)
  /\ before' = [pll |-> pll', mux |-> mux', dccg |-> dccg']
  /\ UNCHANGED <<chip, pending, todo, holder, stored, active, wanted>>

PixelInit ==
  /\ chip \in {"R500", "M54", "RV620"}
  /\ pll = [p \in PLLs |-> ConsolePLL(p = 1, FALSE)]
  /\ mux = [c \in ClockedCrtcs |-> 1] /\ follows = mux
  /\ dccg \in ConsoleSources({1})
  /\ holder = "console" /\ pending = <<>> /\ todo = <<>>
  /\ stored = [p \in PLLs |-> Nothing]
  /\ active = [p \in PLLs |-> FALSE]
  /\ before = [pll |-> pll, mux |-> mux, dccg |-> dccg]
  /\ wanted = [p \in PLLs |-> "nothing"]

PixelNext ==
  \/ PixelEnterVT \/ PixelLeaveVT \/ ConsoleSetsClocks \/ ShutdownInactive
  \/ \E p \in PLLs : SetMode(p) \/ \E power \in Powers : SetPower(p, power)
  \/ CallRoutine
  \/ DoWrite \/ DoPowerDown \/ DoLock \/ DoGrab
  \/ DoSetDccg \/ DoReleaseDccg \/ DoResetDccg

-----------------------------------------------------------------------------
\* "With the solution here we no longer hardlock" (RV620PLL1Restore): at no
\* moment, between whichever two writes, does the display clock come from a PLL
\* that is stopped or was not calibrated since it was started.  "the ownership can
\* only be switched when the currently referenced PLL is active" (R500PLLCRTCGrab):
\* whatever state the PLLs are in when a CRTC changes hands, it does use the PLL
\* that its register names.  And a CRTC whose clock was set, and whose PLL was
\* not stopped since, has its own PLL and that one runs with the driver's
\* dividers, whatever was done with the other PLL in between.
ClocksRun ==
  /\ dccg \in PLLs => Runs(dccg) /\ pll[dccg].cal # "none"
  /\ Resting => follows = mux
  /\ Resting /\ holder = "driver" =>
       \A p \in PLLs : wanted[p] = "clock" =>
         /\ follows[p] = p
         /\ Runs(p) /\ pll[p].cal # "none"
         /\ pll[p].div = "driver" /\ pll[p].src = "pll"

\* What is not put back, by what the code says itself: spread spectrum of a
\* PLL that ran, on PLL1 and on the M54.
SpreadBack(p) ==
  \/ pll[p].ss = before.pll[p].ss
  \/ before.pll[p].cal = "locked" /\ ~pll[p].ss /\ ~HasDccg /\ (p = 1 \/ chip = "M54")

\* Who leaves the driver's screen gets the clocks back: the PLLs that ran do,
\* with their dividers, the others are stopped, the CRTCs and the display clock
\* use those they used, in whatever order the two PLLs are restored and whoever
\* had the display clock in between.
ConsoleClocksBack ==
  Resting /\ holder = "console" =>
    /\ mux = before.mux /\ follows = before.mux /\ dccg = before.dccg
    /\ \A p \in PLLs :
         /\ Runs(p) <=> before.pll[p].cal = "locked"
         /\ Runs(p) => pll[p].cal # "none" /\ pll[p].src = "pll"
         /\ HasDccg => pll[p].src = before.pll[p].src /\ pll[p].glitch = before.pll[p].glitch
         /\ pll[p].div = "console" /\ SpreadBack(p)
=============================================================================
