--------------------------- MODULE SavedRegisters ---------------------------
(***************************************************************************)
(* A part of the display hardware that the driver borrows from the console:*)
(* its registers are saved when the driver takes the screen (rhdSave),     *)
(* written while it has it, and restored when it gives the screen back     *)
(* (rhdRestore).  What a part's handlers read and write is a table, Units; *)
(* OutputRegisters, CrtcRegisters, CardRegisters and AtomRegisters hold the*)
(* tables of this driver.                                                  *)
(*                                                                         *)
(* Where the driver leaves the writing to the tables of the BIOS, which    *)
(* registers these write is only known when they do: a register that is on  *)
(* no list yet is put with its value on the list in use just before it is   *)
(* written (atomSaveRegisters), and restoring the lists takes the place of  *)
(* Restore.                                                                *)
(***************************************************************************)
EXTENDS RegisterTables

CONSTANTS
  Units,     \* a part's name |-> what its handlers do to its registers
  Consoles   \* what the console writes: one value for each of its modes

(***************************************************************************)
(* A table has                                                             *)
(*   fields    the fields of its registers                                 *)
(*   switches  those of them that are on or off                            *)
(*   saves     what Save reads into the store                              *)
(*   restores  what Restore writes back from it                            *)
(*   saving    what Save itself writes once it has read that               *)
(*   sense     what is left behind by looking for a monitor                *)
(*   mode      the mode set                                                *)
(*   power     the Power handler, for what it was told before              *)
(*   touches   the other handlers that write, each of them                 *)
(*   idled     whether rhdAllIdle resets the part                          *)
(*   latched   whether Power leaves out what its PowerState says is done   *)
(*   lit       the switches that are on in a part that is on               *)
(*   dark      those that are off in one that is off, for each Power       *)
(*   lost      what the driver writes and does not put back                *)
(* Of what a handler with a list writes, the driver itself writes what is   *)
(* in saves, and the BIOS the rest.                                        *)
(***************************************************************************)
Handlers(u) ==
  {u.sense, u.mode, u.saving} \union u.touches \union {u.power[lp] : lp \in Levels \X Powers}

ASSUME UnitsAssumption ==
  \A n \in DOMAIN Units :
    LET u == Units[n] IN
    /\ u.switches \subseteq u.fields
    /\ u.restores \subseteq u.saves /\ u.saves \subseteq u.fields

ASSUME ConsolesAssumption == Consoles \intersect {"on", "off", "driver", "unsaved"} = {}

\* Whatever any handler writes is restored, goes on a list, or is known to be
\* lost; and nothing goes on a list before the registers are saved.
NothingForgotten ==
  \A n \in DOMAIN Units :
    LET u == Units[n] IN
    /\ u.sense.list = NoList /\ u.saving.list = NoList
    /\ \A h \in Handlers(u) :
         /\ h.list \in SaveLists \union {NoList}
         /\ Touched(h) \subseteq
              u.restores \union u.lost \union IF h.list = NoList THEN {} ELSE u.fields \ u.saves

LeavesOn(h, f) == f \in h.on \/ f \notin h.off \union h.set
LeavesOff(h, f) == f \notin h.on /\ (f \in h.off \/ f \notin h.set)

\* Who switches it on: each Power, the mode set with nobody ever switching it
\* off, or the first Power after a shutdown.
OnByPower(u, f) ==
  \A l \in Levels : f \in u.power[<<l, "ON">>].on /\ u.power[<<l, "ON">>].unless = {}
OnByMode(u, f) ==
  f \in u.mode.on /\ u.mode.unless = {} /\ \A h \in Handlers(u) : LeavesOn(h, f)
OnByFirstPower(u, f) ==
  /\ u.latched /\ f \notin u.lost
  /\ \A l \in {"SHUTDOWN", "UNKNOWN"} :
       f \in u.power[<<l, "ON">>].on /\ u.power[<<l, "ON">>].unless = {}
  /\ \A h \in {u.sense, u.mode, u.saving} \union u.touches
              \union {u.power[<<l, "RESET">>] : l \in Levels}
              \union {u.power[<<l, "ON">>] : l \in {"ON", "RESET"}} : f \notin Touched(h)

\* The switches of a part are left to Power, and no handler but it undoes what
\* Power did.
SwitchesFollow ==
  \A n \in DOMAIN Units :
    LET u == Units[n] IN
    /\ \A f \in u.lit :
         /\ f \in u.fields
         /\ OnByPower(u, f) \/ OnByMode(u, f) \/ OnByFirstPower(u, f)
         /\ \A h \in {u.sense} \union u.touches : LeavesOn(h, f)
    /\ \A p \in {"RESET", "SHUTDOWN"} : \A f \in u.dark[p] :
         /\ f \in u.fields
         /\ \A l \in Levels :
              /\ f \in u.power[<<l, p>>].off \ u.power[<<l, p>>].on
              /\ u.power[<<l, p>>].unless \subseteq {f}
         /\ \A h \in {u.sense} \union u.touches : LeavesOff(h, f)

VARIABLES
  unit,     \* the name of the part
  regs,     \* its registers
  store,    \* Private->Store..., and Private->Stored
  stored,
  lists,    \* the save lists: what each holds of each register
  level,    \* Private->PowerState, where there is one
  ready,    \* has the part been given a mode since the driver has the screen?
  asked,    \* what it was asked to do last since then, and since its last mode
  screen,   \* who has the screen
  console,  \* the registers as the console wrote them last
  sensed,   \* has anybody looked for a monitor since, while it had the screen?
  carried   \* the PowerState is of an earlier time with the screen

vars == <<unit, regs, store, stored, lists, level, ready, asked, screen, console, sensed, carried>>
driver == <<store, stored, level, ready, asked, carried>>

U == Units[unit]
Values == {"on", "off", "driver", "unsaved"} \union Consoles

ConsoleRegisters(u) ==
  {[f \in u.fields |-> IF f \in u.switches THEN IF f \in lit THEN "on" ELSE "off" ELSE c] :
     lit \in SUBSET u.switches, c \in Consoles}

\* The lists that hold a register.
Holding(ls, f) == {i \in SaveLists : ls[i][f] # "unsaved"}
Empty == [i \in SaveLists |-> [f \in U.fields |-> "unsaved"]]

\* MUTANT of Recorded: only the list in use is searched.
RecordedTwice(ls, rs, w) ==
  [i \in SaveLists |-> [f \in U.fields |->
     IF i = w.list /\ f \in Touched(w) \ U.saves /\ ~SkippedBy(rs, w) /\ ls[i][f] = "unsaved"
     THEN rs[f] ELSE ls[i][f]]]

Recorded(ls, rs, w) ==
  [i \in SaveLists |-> [f \in U.fields |->
     IF i = w.list /\ f \in Touched(w) \ U.saves /\ ~SkippedBy(rs, w) /\ Holding(ls, f) = {}
     THEN rs[f] ELSE ls[i][f]]]

Do(w) ==
  /\ regs' = After(regs, w)
  /\ lists' = Recorded(lists, regs, w)

\* rhdAllIdle, for this part.
Idling == IF U.idled THEN U.power[<<"UNKNOWN", "RESET">>] ELSE Nothing

\* The last list that is restored has the last word.
Restored(rs, ls) ==
  [f \in U.fields |->
     IF f \in U.restores THEN store[f]
     ELSE IF Holding(ls, f) = {} THEN rs[f]
     ELSE ls[CHOOSE i \in Holding(ls, f) : \A j \in Holding(ls, f) : j <= i][f]]
-----------------------------------------------------------------------------
Init ==
  /\ unit \in DOMAIN Units
  /\ regs \in ConsoleRegisters(U)
  /\ store = [f \in U.fields |-> "unsaved"] /\ stored = FALSE
  /\ lists = Empty
  /\ level = "UNKNOWN"
  /\ ready = FALSE /\ asked = "NOTHING"
  /\ screen = "console" /\ console = regs
  /\ sensed = FALSE /\ carried = FALSE

\* Output->Sense: before the first screen, from PreInit, or with the screen.
Sense ==
  /\ screen = "driver" \/ ~stored
  /\ Do(U.sense)
  /\ sensed' = (sensed \/ screen = "console")
  /\ UNCHANGED <<unit, driver, screen, console>>

Saved(rs) == [f \in U.fields |-> IF f \in U.saves THEN rs[f] ELSE "unsaved"]

\* rhdSave and rhdAllIdle, of RHDEnterVT or of RHDScreenInit.  Saving a CRTC
\* drops its lists; that of an output is empty then.
EnterVT ==
  /\ screen = "console"
  /\ screen' = "driver"
  /\ store' = Saved(regs)
  /\ stored' = TRUE
  /\ LET rs == After(regs, U.saving) IN
       /\ regs' = After(rs, Idling)
       /\ lists' = Recorded([lists EXCEPT ![ScaleList] = Empty[ScaleList], ![ModeList] = Empty[ModeList]], rs, Idling)
  /\ ready' = FALSE /\ asked' = "NOTHING"
  /\ carried' = (level \in {"ON", "RESET"})
  /\ UNCHANGED <<unit, level, console, sensed>>

\* Output->Mode, or ModeSet and what goes with it.
Mode ==
  /\ screen = "driver"
  /\ Do(U.mode)
  /\ ready' = TRUE /\ asked' = "NOTHING"
  /\ UNCHANGED <<unit, store, stored, level, carried, screen, console, sensed>>

\* MUTANT of LevelAfter: a reset raises the level from a shutdown.
LevelRaised(l, p) == p

\* What the PowerState is after Power: a reset does not raise it.
LevelAfter(l, p) == IF p = "RESET" /\ l # "ON" THEN l ELSE p

\* Output->Power.  Nothing is turned on without a mode.
Power(p) ==
  /\ screen = "driver"
  /\ p = "ON" => ready
  /\ Do(U.power[<<level, p>>])
  /\ level' = LevelAfter(level, p)
  /\ carried' = (carried /\ p # "SHUTDOWN")
  /\ asked' = p
  /\ UNCHANGED <<unit, ready, store, stored, screen, console, sensed>>

\* The properties of the output, the cursor, the colours, the timer.
Touch ==
  /\ screen = "driver"
  /\ \E w \in U.touches : Do(w)
  /\ UNCHANGED <<unit, driver, screen, console, sensed>>

\* rhdAllIdle and rhdRestore, of RHDLeaveVT or of RHDCloseScreen.
LeaveVT ==
  /\ screen = "driver"
  /\ screen' = "console"
  /\ regs' = Restored(After(regs, Idling), Recorded(lists, regs, Idling))
  /\ lists' = Empty
  /\ UNCHANGED <<unit, driver, console, sensed>>

\* External: another VT, a BIOS call, whoever has the screen sets a mode.
ConsoleSets ==
  /\ screen = "console"
  /\ regs' \in ConsoleRegisters(U)
  /\ console' = regs'
  /\ sensed' = FALSE
  /\ UNCHANGED <<unit, driver, lists, screen>>

Next ==
  \/ Sense \/ EnterVT \/ Mode \/ Touch \/ LeaveVT \/ ConsoleSets
  \/ \E p \in Powers : Power(p)

Spec == Init /\ [][Next]_vars
-----------------------------------------------------------------------------
TypeOK ==
  /\ unit \in DOMAIN Units
  /\ regs \in [U.fields -> Values] /\ console \in [U.fields -> Values]
  /\ store \in [U.fields -> Values] /\ stored \in BOOLEAN
  /\ lists \in [SaveLists -> [U.fields -> Values]]
  /\ level \in Levels
  /\ ready \in BOOLEAN /\ asked \in Powers \union {"NOTHING"}
  /\ screen \in {"console", "driver"}
  /\ sensed \in BOOLEAN /\ carried \in BOOLEAN

Excused == U.lost \union (IF sensed THEN Touched(U.sense) ELSE {})

\* However often the screen changed hands, whatever the console set in
\* between and whatever was left half done, the console finds each register as
\* it last wrote it, but for the ones the driver is known not to put back, and
\* the ones that PreInit had changed before anything was saved.
ConsoleRegistersBack ==
  screen = "console" => \A f \in U.fields \ Excused : regs[f] = console[f]

\* A part that was asked to be on has all of its switches on, whatever was
\* asked of it before and whatever sensing did in between; and one that was
\* asked to be off has them off.  The exception is a PowerState that dates
\* from before the console had the screen: then a switch may be as the console
\* had it.
PowerAsAsked ==
  screen = "driver" =>
    /\ asked = "ON" => \A f \in U.lit : regs[f] = "on" \/ (carried /\ U.latched /\ regs[f] = console[f])
    /\ asked \in {"RESET", "SHUTDOWN"} => \A f \in U.dark[asked] : regs[f] = "off"
=============================================================================
