--------------------------- MODULE PowerManagement ---------------------------
(***************************************************************************)
(* rhd_pm.c, with the setting up of the I2C buses in rhd_i2c.c.             *)
(*                                                                         *)
(* The BIOS tells the limits of the card's clocks, the clocks it would run  *)
(* with and configurations known to work; each may be missing or nonsense.  *)
(* RHDPmInit makes states of them, and the driver selects its idle state    *)
(* whenever it takes the screen, having saved the console's clocks, which   *)
(* it sets again when it leaves.  The memory clock and the voltage are read *)
(* but not set (rhd_pm.c:286-305).  The DDC clock of an R5xx is derived     *)
(* from the engine clock.                                                   *)
(***************************************************************************)
EXTENDS I2CEngines

CONSTANTS
  CompareMin, SaveMin, CompareMax,   \* COMPARE_MIN_ and SAVE_MIN_ENGINE_CLOCK, COMPARE_MAX_...
  Machines,       \* cards with their BIOS, their lines and the user's options
  ConsoleClocks   \* what the engine clock of a console may be

ASSUME PowerAssumption == /\ CompareMin \in Nat \ {0} /\ SaveMin \in Nat /\ CompareMax \in Nat
                          /\ CompareMin <= SaveMin /\ SaveMin <= CompareMax

\* struct rhdPowerState: unsigned clocks.  A negative ForceLowPowerMode option is an engine clock, too.
Settings == [engine : Nat, memory : Nat]
ASSUME MachinesAssumption ==
  /\ ConsoleClocks \subseteq Nat
  /\ Machines \subseteq
       [gen : {"r5xx", "rs690", "r6xx", "rv620"}, lines : Seq({"known", "odd", "unnamed"}),
        bios : [min : Settings, max : Settings, default : Settings, known : Seq(Settings),
                memory : Nat, reads : BOOLEAN],
        user : [low : BOOLEAN, engine : Int]]

VARIABLES
  card,      \* the machine, one of Machines
  pm,        \* rhdPtr->Pm: Minimum, Maximum, Default, Current, Stored and States[RHD_PM_IDLE]
  clock,     \* the engine clock the card runs with
  console,   \* the engine clock the console had when the driver took the screen
  screen,    \* who has the screen
  lost       \* a clock could not be set while the console's were restored

power == <<card, pm, clock, console, screen, lost>>

NoPm == [min |-> <<>>]
State(e, m) == [engine |-> e, memory |-> m]
\* A negative option, taken for an unsigned clock.
Unsigned(v) == IF v < 0 THEN CompareMax + 1 ELSE v

----------------------------------------------------------------------------
(* Buses *)

\* rhdGetI2CPrescale: from the engine clock, or on later chips the reference clock.
EngineDriven == gen \in {"r5xx", "rs690"}
PrescaleClock(p) == IF ~EngineDriven THEN 0 ELSE IF p # NoPm THEN p.current.engine ELSE card.bios.default.engine

\* rhdInitI2C: what becomes of a line whose pins the BIOS names, names oddly, or does not name.
HasBus(l) == CASE card.lines[l] = "known"   -> TRUE
               [] card.lines[l] = "odd"     -> gen = "rv620"
               [] card.lines[l] = "unnamed" -> gen \in {"r5xx", "r6xx"} \/ (gen = "rv620" /\ l <= 3)
\* An RS690 needs the names: without them there are no buses, and no screen.
I2CFails == gen = "rs690" /\ \E l \in DOMAIN card.lines : card.lines[l] = "unnamed"
InitI2C == buses' = [l \in DOMAIN card.lines |-> IF HasBus(l) THEN PrescaleClock(pm) ELSE NoBus]

\* rhdI2CRecalcPrescale stops at the first line without a bus.
Reached(l) == \A k \in 1 .. l : buses[k] # NoBus
RecalcPrescale(p) == [l \in DOMAIN buses |-> IF Reached(l) THEN PrescaleClock(p) ELSE buses[l]]

----------------------------------------------------------------------------
(* Validation: each operator takes the whole Pm, as a setting is compared with what may be itself *)

Put(p, s, f, v) == [p EXCEPT ![s][f] = v]
Raised(c, by) == IF c < by THEN by ELSE c
Lowered(c, by) == IF c > by /\ by # 0 THEN by ELSE c

\* One clock within the limits, if these make sense, or else 0, which is ignored.
Limited(c, min, max, default) ==
  LET raised  == Raised(c, min)
      safe    == IF raised < CompareMin THEN SaveMin ELSE raised
      lowered == Lowered(safe, max)
      sane    == IF lowered > CompareMax THEN default ELSE lowered
  IN  IF sane > CompareMax THEN 0 ELSE sane

\* rhdPmValidateSetting for one clock of setting s.  Comparing it with itself changes nothing.
ValidateClock(p, s, f) ==
  LET Other(t, same) == IF t = s THEN same ELSE p[t][f]
  IN  Put(p, s, f, Limited(IF p[s][f] = 0 THEN p.current[f] ELSE p[s][f],
                           Other("min", 0), Other("max", 0), Other("default", CompareMax + 1)))
Validate(p, s) == ValidateClock(ValidateClock(p, s, "engine"), s, "memory")

\* rhdPmValidateClearSetting
ClearClock(c) == IF c < CompareMin \/ c > CompareMax THEN 0 ELSE c
ClearSetting(s) == State(ClearClock(s.engine), ClearClock(s.memory))

\* rhdPmValidateMinMax: the range takes in what the card is known to run with.
RaiseMax(p, s) == [p EXCEPT !.max = State(Raised(@.engine, s.engine), Raised(@.memory, s.memory))]
\* An unknown minimum is taken from s as well.
FillMin(p, s) == [p EXCEPT !.min = State(IF @.engine = 0 THEN s.engine ELSE Lowered(@.engine, s.engine),
                                         IF @.memory = 0 THEN s.memory ELSE Lowered(@.memory, s.memory))]
\* Each of the configurations raises the maximum and lowers the minimum.
Highest(c, clocks) == Max({c} \union clocks)
Lowest(c, clocks) == Min({c} \union (clocks \ {0}))
Known(p, configurations) ==
  LET Clocks(f) == {ClearClock(s[f]) : s \in configurations}
  IN  [p EXCEPT !.max = State(Highest(@.engine, Clocks("engine")), Highest(@.memory, Clocks("memory"))),
                !.min = State(Lowest(@.engine, Clocks("engine")), Lowest(@.memory, Clocks("memory")))]
ValidateMinMax(p) ==
  LET raised == RaiseMax(RaiseMax(p, p.default), p.current)
      ranged == FillMin(FillMin(raised, p.default), p.current)
      valid  == Validate(Validate(Validate(ranged, "max"), "min"), "default")
  IN  Known(valid, Range(card.bios.known))

\* rhdPmSelectSettings: the idle state is the default, or what the option ForceLowPowerMode asks for.
SelectSettings(p0) ==
  LET p == [p0 EXCEPT !.idle = p0.default]
      u == card.user.engine
      forced == Validate(Put(Put(p, "idle", "engine", IF u = 0 THEN p.min.engine ELSE Unsigned(u)),
                             "idle", "memory", p.min.memory), "idle")
  IN  IF ~card.user.low THEN p ELSE IF u < 0 THEN Put(forced, "idle", "engine", -u) ELSE forced

\* rhdPmGetRawState on top of what is there already.
RawState(s) == IF card.bios.reads THEN State(clock, card.bios.memory) ELSE s

\* RHDPmInit
PmOf == LET b == card.bios
            p == [min |-> b.min, max |-> b.max, default |-> b.default, idle |-> b.default, stored |-> State(0, 0),
                  current |-> ClearSetting(RawState(b.default))]
            q == IF p.default.engine = 0 \/ p.default.memory = 0 THEN [p EXCEPT !.default = p.current] ELSE p
        IN  SelectSettings(Validate(ValidateMinMax(q), "current"))

----------------------------------------------------------------------------
(* The driver *)

Init == /\ card \in Machines /\ gen = card.gen /\ clock \in ConsoleClocks
        /\ buses = <<>> /\ pm = NoPm /\ console = clock /\ screen = "none" /\ lost = FALSE
        /\ I2CInit

PreInit == /\ screen = "none" /\ buses = <<>> /\ ~I2CFails /\ InitI2C
           /\ UNCHANGED <<gen, device, wants, owner, control, engine, call, power>>
PmInit == /\ screen = "none" /\ buses # <<>>
          /\ pm' = PmOf /\ screen' = "console"
          /\ UNCHANGED <<i2c, card, clock, console, lost>>
\* Without the chip's limits there is no power management.
PmInitFails == /\ screen = "none" /\ buses # <<>> /\ screen' = "console"
               /\ UNCHANGED <<i2c, card, pm, clock, console, lost>>

\* rhdPmSetRawState from a Pm p: AtomBIOS sets the clock, or fails.
SetRawState(p, s, ok) ==
  LET c == p[s].engine
      q == [p EXCEPT !.current.engine = c]
      sets == c # 0 /\ c # p.current.engine
  IN  IF sets /\ ok THEN pm' = q /\ clock' = c /\ buses' = IF EngineDriven THEN RecalcPrescale(q) ELSE buses
      ELSE pm' = p /\ UNCHANGED <<clock, buses>>

\* MUTANT of EnterVT: saves the clock that the driver thinks it has set last.
EnterVTSavesCurrent ==
  /\ screen = "console" /\ call.pc = "none"
  /\ screen' = "driver" /\ console' = clock /\ lost' = FALSE
  /\ IF pm = NoPm THEN UNCHANGED <<pm, clock, buses>>
     ELSE \E ok \in BOOLEAN : SetRawState([pm EXCEPT !.stored = ClearSetting(pm.current)], "idle", ok)
  /\ UNCHANGED <<gen, device, wants, owner, control, engine, call, card>>

\* RHDScreenInit and RHDEnterVT: RHDPmSave, and at the end the idle state.
EnterVT ==
  /\ screen = "console" /\ call.pc = "none"
  /\ screen' = "driver" /\ console' = clock /\ lost' = FALSE
  /\ IF pm = NoPm THEN UNCHANGED <<pm, clock, buses>>
     ELSE \E ok \in BOOLEAN :
            SetRawState([pm EXCEPT !.stored = ClearSetting(RawState(pm.default))], "idle", ok)
  /\ UNCHANGED <<gen, device, wants, owner, control, engine, call, card>>

\* RHDLeaveVT and RHDCloseScreen: RHDPmRestore.
LeaveVT ==
  /\ screen = "driver" /\ call.pc = "none"
  /\ screen' = "console"
  /\ IF pm = NoPm \/ pm.stored = State(0, 0) THEN UNCHANGED <<pm, clock, buses, lost>>
     ELSE \E ok \in BOOLEAN : SetRawState(pm, "stored", ok) /\ lost' = ~ok
  /\ UNCHANGED <<gen, device, wants, owner, control, engine, call, card, console>>

\* A console may run with a clock of its own.
ConsoleSets ==
  /\ screen = "console" /\ clock' \in ConsoleClocks \ {clock} /\ console' = clock'
  /\ UNCHANGED <<i2c, card, pm, screen, lost>>

\* Lines matter to a card that has buses.
Probing == screen # "none" /\ (\E l \in DOMAIN buses : buses[l] # NoBus) /\ Transfers /\ UNCHANGED power

Next == PreInit \/ PmInit \/ PmInitFails \/ EnterVT \/ LeaveVT \/ ConsoleSets \/ Probing
Spec == Init /\ [][Next]_<<i2c, power>>

----------------------------------------------------------------------------
(* Properties *)

\* Whenever no call is in progress software has no claim on an R5xx engine that the card uses too, whether
\* the engine was granted or not and however the transfer ended, and its registers are as they were.
EngineHandedBack == call.pc \in {"none", "done"} => ~wants /\ owner # "software" /\ control = Untouched

\* A read that succeeds returns what the monitor holds there, in order and from one end to the other, through
\* chunks, offsets that wrap, transfers given up before and the engine's late answers to them.  (The RV620's
\* engine is not reset when it is given up: a transfer that finds it running is left out.)
ReadRight ==
  call.pc = "done" /\ call.ok /\ ~call.overrun =>
    \E k \in {"monitor", "echo"} : call.got = [i \in 1 .. call.size |-> Byte(k, call.from + i - 1)]

Sensible(c) == c \in CompareMin .. CompareMax

\* What the driver sets the engine clock to lies in the range that is safe, or is left alone, if one of the
\* chip's maximum and default makes sense, whatever of the other limits, the current clock and the known
\* configurations is missing or nonsense, unless the user insists.  If both make sense it lies in the range that
\* was worked out.  (A maximum that is too high is replaced by a default without another look at that.)
ClockInRange ==
  pm # NoPm /\ card.user.engine >= 0 =>
    LET b == card.bios
    IN  /\ Sensible(b.max.engine) \/ Sensible(b.default.engine) => pm.idle.engine = 0 \/ Sensible(pm.idle.engine)
        /\ Sensible(b.max.engine) /\ Sensible(b.default.engine)
           /\ (b.min.engine <= CompareMax \/ b.default.memory # 0) => pm.idle.engine \in pm.min.engine .. pm.max.engine

\* The console gets back the engine clock it had when the driver took the screen, whatever was set in
\* between and however the console had changed it, if it can be read, is plausible and can be set.
ConsoleClockBack == screen = "console" /\ card.bios.reads /\ Sensible(console) /\ ~lost => clock = console

\* Where the DDC clock is derived from the engine clock, the buses that the recalculation reaches have a
\* prescale for the clock that was set last, or still the first one.
BusesFollow ==
  EngineDriven /\ pm # NoPm =>
    \A l \in DOMAIN buses : Reached(l) => buses[l] \in {card.bios.default.engine, pm.current.engine}

\* Saving, setting and restoring the engine clock, through failures, options and a BIOS that may tell nonsense.
ClocksKept == ClockInRange /\ ConsoleClockBack /\ BusesFollow
=============================================================================
