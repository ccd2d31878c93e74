--------------------------- MODULE Screen_proofs ---------------------------
(***************************************************************************)
(* The life of a screen, and what its units' handlers keep for the console.*)
(*                                                                         *)
(* SavedRegisters: the console gets its registers back from any part whose *)
(* handlers write only what the part restores, what goes on a save list or *)
(* what is known to be lost, whatever the table is and however many modes  *)
(* consoles have.                                                          *)
(*                                                                         *)
(* ScreenLifecycle: whatever the order of the server's handlers, the call  *)
(* that fails and the moment the card loses its memory, the console comes  *)
(* back and X rests in place.                                              *)
(***************************************************************************)
EXTENDS ScreenLifecycle, SavedRegisters, TLAPS

-----------------------------------------------------------------------------
\* A handler leaves alone what it does not touch.
LEMMA AfterKeeps ==
  ASSUME NEW rs, NEW w, NEW f \in DOMAIN rs, f \notin Touched(w)
  PROVE  After(rs, w)[f] = rs[f]
  BY DEF After, Touched

LEMMA AfterType ==
  ASSUME NEW F, NEW rs \in [F -> Values], NEW w
  PROVE  After(rs, w) \in [F -> Values]
  <1>. DEFINE new(f) == IF SkippedBy(rs, w) THEN rs[f]
                        ELSE IF f \in w.on THEN "on" ELSE IF f \in w.off THEN "off"
                        ELSE IF f \in w.set THEN "driver" ELSE rs[f]
  <1>1. ASSUME NEW f \in F PROVE new(f) \in Values
    BY DEF Values
  <1>2. After(rs, w) = [f \in F |-> new(f)]
    BY DEF After
  <1>. HIDE DEF new
  <1>. QED BY <1>1, <1>2

LEMMA ConsoleRegistersType ==
  ASSUME NEW u
  PROVE  ConsoleRegisters(u) \subseteq [u.fields -> Values]
  BY DEF ConsoleRegisters, Values

LEMMA EmptyType == Empty \in [SaveLists -> [U.fields -> Values]]
  BY DEF Empty, Values

LEMMA RecordedType ==
  ASSUME NEW rs \in [U.fields -> Values], NEW ls \in [SaveLists -> [U.fields -> Values]], NEW w
  PROVE  Recorded(ls, rs, w) \in [SaveLists -> [U.fields -> Values]]
  BY DEF Recorded

\* A handler without a list records nothing.
LEMMA NothingRecorded ==
  ASSUME NEW rs, NEW ls \in [SaveLists -> [U.fields -> Values]], NEW w, w.list = NoList
  PROVE  Recorded(ls, rs, w) = ls
  BY DEF Recorded, SaveLists, ScaleList, OutputList, NoList

\* Of the lists that hold a register one is restored last.
LEMMA LastHolding ==
  ASSUME NEW ls, NEW f, Holding(ls, f) # {}
  PROVE  \E i \in Holding(ls, f) : \A j \in Holding(ls, f) : j <= i
  <1>. DEFINE H == Holding(ls, f)
  <1>1. H \subseteq {1, 2, 3}
    BY DEF Holding, SaveLists, ScaleList, OutputList
  <1>. HIDE DEF H
  <1>2. CASE 3 \in H
    BY <1>1, <1>2 DEF H
  <1>3. CASE 3 \notin H /\ 2 \in H
    BY <1>1, <1>3 DEF H
  <1>4. CASE H \subseteq {1}
    BY <1>4 DEF H
  <1>. QED BY <1>1, <1>2, <1>3, <1>4

\* What is restored is what is saved, what the last list holds, or what is there.
LEMMA RestoredIs ==
  ASSUME NEW rs, NEW ls, NEW f \in U.fields \ U.restores
  PROVE  \/ Holding(ls, f) = {} /\ Restored(rs, ls)[f] = rs[f]
         \/ \E i \in Holding(ls, f) : Restored(rs, ls)[f] = ls[i][f]
  <1>1. CASE Holding(ls, f) = {}
    BY <1>1 DEF Restored
  <1>2. CASE Holding(ls, f) # {}
    <2>. DEFINE last == CHOOSE i \in Holding(ls, f) : \A j \in Holding(ls, f) : j <= i
    <2>1. last \in Holding(ls, f)
      BY <1>2, LastHolding
    <2>2. Restored(rs, ls)[f] = ls[last][f]
      BY <1>2 DEF Restored
    <2>. QED BY <2>1, <2>2
  <1>. QED BY <1>1, <1>2

LEMMA RestoredType ==
  ASSUME TypeOK, NEW rs \in [U.fields -> Values], NEW ls \in [SaveLists -> [U.fields -> Values]]
  PROVE  Restored(rs, ls) \in [U.fields -> Values]
  <1>1. ASSUME NEW f \in U.fields PROVE Restored(rs, ls)[f] \in Values
    <2>1. CASE f \in U.restores
      BY <2>1 DEF Restored, TypeOK
    <2>2. CASE f \notin U.restores
      BY <2>2, RestoredIs DEF Holding
    <2>. QED BY <2>1, <2>2
  <1>2. Restored(rs, ls) = [f \in U.fields |-> Restored(rs, ls)[f]]
    BY DEF Restored
  <1>. QED BY <1>1, <1>2

\* The part and its handlers stay what they are.
LEMMA UnitStays ==
  ASSUME [Next]_vars
  PROVE  unit' = unit /\ U' = U /\ Empty' = Empty
  BY DEF Next, vars, Sense, EnterVT, Mode, Touch, LeaveVT, ConsoleSets, Power, U, Empty
-----------------------------------------------------------------------------
LEMMA TypeInit == Init => TypeOK
  <1>. SUFFICES ASSUME Init PROVE TypeOK
    OBVIOUS
  <1>1. regs \in [U.fields -> Values] /\ console \in [U.fields -> Values]
    BY ConsoleRegistersType DEF Init
  <1>2. store \in [U.fields -> Values]
    BY DEF Init, Values
  <1>. QED BY <1>1, <1>2, EmptyType DEF Init, TypeOK, Levels

\* A handler called while the driver has the screen, or at any time.
LEMMA DoType ==
  ASSUME TypeOK, NEW w, Do(w)
  PROVE  /\ regs' \in [U.fields -> Values]
         /\ lists' \in [SaveLists -> [U.fields -> Values]]
  BY AfterType, RecordedType DEF TypeOK, Do

LEMMA TypeNext == TypeOK /\ [Next]_vars => TypeOK'
  <1>. SUFFICES ASSUME TypeOK, [Next]_vars PROVE TypeOK'
    OBVIOUS
  <1>. USE DEF TypeOK
  <1>0. unit' = unit /\ U' = U
    BY UnitStays
  <1>1. CASE Sense
    BY <1>0, <1>1, DoType DEF Sense, driver
  <1>2. CASE EnterVT
    <2>1. Saved(regs) \in [U.fields -> Values]
      BY DEF Saved, Values
    <2>. DEFINE rs == After(regs, U.saving)
                ls == [lists EXCEPT ![ScaleList] = Empty[ScaleList], ![ModeList] = Empty[ModeList]]
    <2>2. rs \in [U.fields -> Values]
      BY AfterType
    <2>3. ls \in [SaveLists -> [U.fields -> Values]]
      BY EmptyType DEF SaveLists, ScaleList, ModeList, OutputList
    <2>4. regs' \in [U.fields -> Values]
      BY <1>2, <2>2, AfterType DEF EnterVT
    <2>5. lists' \in [SaveLists -> [U.fields -> Values]]
      BY <1>2, <2>2, <2>3, RecordedType DEF EnterVT
    <2>6. carried' \in BOOLEAN
      <3>1. CASE level \in {"ON", "RESET"}
        BY <1>2, <3>1 DEF EnterVT
      <3>2. CASE level \notin {"ON", "RESET"}
        BY <1>2, <3>2 DEF EnterVT
      <3>. QED BY <3>1, <3>2
    <2>. QED BY <1>0, <1>2, <2>1, <2>4, <2>5, <2>6 DEF EnterVT
  <1>3. CASE Mode
    BY <1>0, <1>3, DoType DEF Mode
  <1>4. CASE Touch
    BY <1>0, <1>4, DoType DEF Touch, driver
  <1>5. CASE LeaveVT
    <2>1. After(regs, Idling) \in [U.fields -> Values]
      BY AfterType
    <2>2. Recorded(lists, regs, Idling) \in [SaveLists -> [U.fields -> Values]]
      BY RecordedType
    <2>3. regs' \in [U.fields -> Values]
      BY <1>5, <2>1, <2>2, RestoredType DEF LeaveVT
    <2>. QED BY <1>0, <1>5, <2>3, EmptyType DEF LeaveVT, driver
  <1>6. CASE ConsoleSets
    BY <1>0, <1>6, ConsoleRegistersType DEF ConsoleSets, driver
  <1>7. ASSUME NEW p \in Powers, Power(p) PROVE TypeOK'
    BY <1>0, <1>7, DoType DEF Power, LevelAfter, Levels
  <1>8. CASE UNCHANGED vars
    BY <1>0, <1>8 DEF vars
  <1>. QED BY <1>1, <1>2, <1>3, <1>4, <1>5, <1>6, <1>7, <1>8 DEF Next

\* The registers, the store, the lists and the console's registers are those of
\* the part, whatever the tables are.
THEOREM TypeCorrect == Spec => []TypeOK
  BY TypeInit, TypeNext, PTL DEF Spec
-----------------------------------------------------------------------------
\* What Restore will not write is on a list with what the console had, or is
\* still there.
Held(rs, ls) ==
  \A f \in U.fields \ (U.restores \union Excused) :
    /\ \A i \in SaveLists : ls[i][f] \in {"unsaved", console[f]}
    /\ Holding(ls, f) = {} => rs[f] = console[f]

\* While the driver has the screen, what Restore will write is what the console
\* had as well; and while the console has it the lists are empty.
Kept ==
  /\ screen = "driver" => Held(regs, lists) /\ \A f \in U.restores \ Excused : store[f] = console[f]
  /\ screen = "console" => lists = Empty
  /\ \A f \in U.fields : console[f] # "unsaved"

IInv == TypeOK /\ ConsoleRegistersBack /\ Kept

\* What a handler touches that is neither restored nor lost it has a list for.
Restorable(h) ==
  /\ h.list \in SaveLists \union {NoList}
  /\ \A f \in Touched(h) \ (U.restores \union Excused) : h.list \in SaveLists /\ f \in U.fields \ U.saves

LEMMA HandlersRestorable ==
  ASSUME NothingForgotten, TypeOK, NEW h \in Handlers(U)
  PROVE  Restorable(h)
  <1>. USE DEF NothingForgotten, TypeOK, U
  <1>1. h.list \in SaveLists \union {NoList}
    OBVIOUS
  <1>2. Touched(h) \subseteq U.restores \union U.lost \union IF h.list = NoList THEN {} ELSE U.fields \ U.saves
    OBVIOUS
  <1>. QED BY <1>1, <1>2 DEF Restorable, Excused

LEMMA UnitHandlers ==
  /\ U.sense \in Handlers(U) /\ U.mode \in Handlers(U) /\ U.saving \in Handlers(U)
  /\ U.touches \subseteq Handlers(U)
  /\ \A lp \in Levels \X Powers : U.power[lp] \in Handlers(U)
  BY DEF Handlers

LEMMA IdlingRestorable ==
  ASSUME NothingForgotten, TypeOK
  PROVE  Restorable(Idling)
  <1>1. U.power[<<"UNKNOWN", "RESET">>] \in Handlers(U)
    BY UnitHandlers DEF Levels, Powers
  <1>2. Restorable(Nothing)
    BY DEF Restorable, Nothing, Writes, Touched
  <1>. QED BY <1>1, <1>2, HandlersRestorable DEF Idling

\* The heart of it: whatever a handler writes, what the console had is put on a
\* list before it is written for the first time, and only then.
LEMMA HandlerHolds ==
  ASSUME NEW rs \in [U.fields -> Values], NEW ls \in [SaveLists -> [U.fields -> Values]],
         \A f \in U.fields : console[f] # "unsaved",
         Held(rs, ls), NEW h, Restorable(h)
  PROVE  Held(After(rs, h), Recorded(ls, rs, h))
  <1>. SUFFICES ASSUME NEW f \in U.fields \ (U.restores \union Excused)
                PROVE  /\ \A i \in SaveLists : Recorded(ls, rs, h)[i][f] \in {"unsaved", console[f]}
                       /\ Holding(Recorded(ls, rs, h), f) = {} => After(rs, h)[f] = console[f]
    BY DEF Held
  <1>0. /\ \A i \in SaveLists : ls[i][f] \in {"unsaved", console[f]}
        /\ Holding(ls, f) = {} => rs[f] = console[f]
    BY DEF Held
  <1>. DEFINE new == h.list \in SaveLists /\ f \in Touched(h) \ U.saves /\ ~SkippedBy(rs, h) /\ Holding(ls, f) = {}
  <1>1. CASE new
    <2>1. \A i \in SaveLists : Recorded(ls, rs, h)[i][f] = IF i = h.list THEN rs[f] ELSE ls[i][f]
      BY <1>1 DEF Recorded
    <2>2. rs[f] = console[f] /\ rs[f] # "unsaved"
      BY <1>0, <1>1
    <2>3. h.list \in Holding(Recorded(ls, rs, h), f)
      BY <1>1, <2>1, <2>2 DEF Holding
    <2>. QED BY <1>0, <2>1, <2>2, <2>3
  <1>2. CASE ~new
    <2>1. \A i \in SaveLists : Recorded(ls, rs, h)[i][f] = ls[i][f]
      BY <1>2 DEF Recorded
    <2>2. Holding(Recorded(ls, rs, h), f) = Holding(ls, f)
      BY <2>1 DEF Holding
    <2>3. ASSUME Holding(ls, f) = {} PROVE After(rs, h)[f] = rs[f]
      <3>1. CASE f \in Touched(h)
        <4>1. SkippedBy(rs, h)
          BY <1>2, <2>3, <3>1 DEF Restorable
        <4>. QED BY <4>1 DEF After
      <3>2. CASE f \notin Touched(h)
        BY <3>2, AfterKeeps
      <3>. QED BY <3>1, <3>2
    <2>. QED BY <1>0, <2>1, <2>2, <2>3
  <1>. QED BY <1>1, <1>2

\* A handler called while the driver has the screen.
LEMMA HandlerKeeps ==
  ASSUME NothingForgotten, IInv, screen = "driver", NEW h \in Handlers(U), Do(h),
         UNCHANGED <<unit, store, screen, console, sensed>>
  PROVE  ConsoleRegistersBack' /\ Kept'
  <1>1. U' = U /\ Excused' = Excused /\ screen' = "driver"
    BY DEF U, Excused
  <1>2. Held(regs', lists')
    BY HandlersRestorable, HandlerHolds DEF IInv, TypeOK, Kept, Do
  <1>3. Held(regs, lists)'
    BY <1>1, <1>2 DEF Held
  <1>. QED BY <1>1, <1>3 DEF IInv, Kept, ConsoleRegistersBack

LEMMA IInvInit == Init => IInv
  <1>. SUFFICES ASSUME Init PROVE IInv
    OBVIOUS
  <1>1. \A f \in U.fields : console[f] # "unsaved"
    BY ConsolesAssumption DEF Init, ConsoleRegisters
  <1>. QED BY <1>1, TypeInit DEF Init, IInv, ConsoleRegistersBack, Kept

LEMMA IInvNext == NothingForgotten /\ IInv /\ [Next]_vars => IInv'
  <1>. SUFFICES ASSUME NothingForgotten, IInv, [Next]_vars PROVE ConsoleRegistersBack' /\ Kept'
    BY TypeNext DEF IInv
  <1>0. TypeOK /\ U' = U /\ unit' = unit /\ Empty' = Empty
    BY UnitStays DEF IInv
  <1>a. U.restores \subseteq U.saves /\ U.saves \subseteq U.fields
    BY <1>0, UnitsAssumption DEF TypeOK, U
  <1>b. \A f \in U.fields : console[f] # "unsaved"
    BY DEF IInv, Kept
  <1>c. /\ U.sense.list = NoList /\ U.saving.list = NoList
        /\ \A h \in {U.sense, U.saving} : Touched(h) \subseteq U.restores \union U.lost
    <2>1. unit \in DOMAIN Units
      BY <1>0 DEF TypeOK
    <2>2. U.sense.list = NoList /\ U.saving.list = NoList
      BY <2>1 DEF NothingForgotten, U
    <2>3. Restorable(U.sense) /\ Restorable(U.saving)
      BY <1>0, UnitHandlers, HandlersRestorable
    <2>4. \A h \in {U.sense, U.saving} : h \in Handlers(Units[unit])
      BY UnitHandlers DEF U
    <2>. QED BY <2>1, <2>2, <2>4 DEF NothingForgotten, U
  <1>1. CASE Sense
    <2>2. CASE screen = "driver"
      <3>1. sensed' = sensed
        <4>1. CASE sensed
          BY <1>1, <4>1, <1>0, <2>2 DEF Sense, TypeOK
        <4>2. CASE ~sensed
          BY <1>1, <4>2, <1>0, <2>2 DEF Sense, TypeOK
        <4>. QED BY <4>1, <4>2
      <3>. QED BY <1>1, <2>2, <3>1, UnitHandlers, HandlerKeeps DEF Sense, driver
    <2>3. CASE screen = "console"
      <3>1. Excused' = U.lost \union Touched(U.sense)
        BY <1>0, <1>1, <2>3 DEF Sense, Excused
      <3>2. ASSUME NEW f \in U.fields \ Excused' PROVE regs'[f] = console'[f]
        <4>1. f \notin Touched(U.sense) /\ f \in U.fields \ Excused
          BY <3>1, <3>2 DEF Excused
        <4>2. regs'[f] = regs[f]
          BY <1>0, <1>1, <4>1, AfterKeeps DEF Sense, Do, TypeOK
        <4>. QED BY <1>1, <2>3, <4>1, <4>2 DEF Sense, IInv, ConsoleRegistersBack
      <3>3. lists' = lists
        BY <1>0, <1>1, <1>c, NothingRecorded DEF Sense, Do, TypeOK
      <3>. QED BY <1>0, <1>1, <1>b, <2>3, <3>2, <3>3 DEF Sense, ConsoleRegistersBack, Kept,
         IInv
    <2>. QED BY <1>0, <2>2, <2>3 DEF TypeOK
  <1>2. CASE EnterVT
    <2>. DEFINE rs == After(regs, U.saving)
                ls == [lists EXCEPT ![ScaleList] = Empty[ScaleList], ![ModeList] = Empty[ModeList]]
    <2>1. Excused' = Excused /\ console' = console /\ screen = "console" /\ screen' = "driver"
      BY <1>0, <1>2 DEF EnterVT, Excused
    <2>2. ASSUME NEW f \in U.restores \ Excused PROVE store'[f] = console[f]
      <3>1. f \in U.saves /\ f \in U.fields \ Excused
        BY <1>a, <2>2
      <3>2. store'[f] = regs[f]
        BY <1>2, <3>1 DEF EnterVT, Saved
      <3>. QED BY <2>1, <3>1, <3>2 DEF IInv, ConsoleRegistersBack
    <2>3. rs \in [U.fields -> Values]
      BY <1>0, AfterType DEF TypeOK
    <2>4. ls = Empty /\ ls \in [SaveLists -> [U.fields -> Values]]
      <3>1. lists = Empty
        BY <2>1 DEF IInv, Kept
      <3>2. ls = Empty
        BY <3>1 DEF Empty
      <3>. QED BY <3>2, EmptyType
    <2>5. Held(rs, ls)
      <3>1. ASSUME NEW f \in U.fields \ (U.restores \union Excused) PROVE rs[f] = console[f]
        <4>1. f \notin Touched(U.saving)
          BY <1>c, <3>1 DEF Excused
        <4>2. rs[f] = regs[f]
          BY <1>0, <4>1, AfterKeeps DEF TypeOK
        <4>. QED BY <2>1, <3>1, <4>2 DEF IInv, ConsoleRegistersBack
      <3>2. \A f \in U.fields, i \in SaveLists : ls[i][f] = "unsaved"
        BY <2>4 DEF Empty
      <3>. QED BY <3>1, <3>2 DEF Held
    <2>6. regs' = After(rs, Idling) /\ lists' = Recorded(ls, rs, Idling)
      BY <1>2 DEF EnterVT
    <2>7. Held(regs', lists')
      <3>. HIDE DEF rs, ls
      <3>. QED BY <1>0, <1>b, <2>3, <2>4, <2>5, <2>6, IdlingRestorable, HandlerHolds
    <2>8. Held(regs, lists)'
      BY <1>0, <2>1, <2>7 DEF Held
    <2>. QED BY <1>0, <1>b, <2>1, <2>2, <2>8 DEF ConsoleRegistersBack, Kept
  <1>3. CASE Mode
    BY <1>3, UnitHandlers, HandlerKeeps DEF Mode
  <1>4. CASE Touch
    <2>1. PICK w \in U.touches : Do(w)
      BY <1>4 DEF Touch
    <2>2. w \in Handlers(U)
      BY UnitHandlers
    <2>. QED BY <1>4, <2>1, <2>2, HandlerKeeps DEF Touch, driver
  <1>5. CASE LeaveVT
    <2>. DEFINE rs == After(regs, Idling)
                ls == Recorded(lists, regs, Idling)
    <2>1. Excused' = Excused /\ console' = console /\ screen = "driver" /\ screen' = "console"
      BY <1>0, <1>5 DEF LeaveVT, Excused
    <2>2. Held(rs, ls)
      BY <1>0, <1>b, <2>1, IdlingRestorable, HandlerHolds DEF IInv, TypeOK, Kept
    <2>3. ASSUME NEW f \in U.fields \ Excused PROVE regs'[f] = console[f]
      <3>1. regs' = Restored(rs, ls)
        BY <1>5 DEF LeaveVT
      <3>2. CASE f \in U.restores
        BY <2>1, <2>3, <3>1, <3>2 DEF IInv, Kept, Restored
      <3>3. CASE f \notin U.restores
        <4>. HIDE DEF rs, ls
        <4>. QED BY <2>2, <2>3, <3>1, <3>3, RestoredIs DEF Held, Holding
      <3>. QED BY <3>2, <3>3
    <2>. QED BY <1>0, <1>5, <1>b, <2>1, <2>3 DEF LeaveVT, ConsoleRegistersBack, Kept
  <1>6. CASE ConsoleSets
    <2>1. \A f \in U.fields : console'[f] # "unsaved"
      BY <1>6, ConsolesAssumption DEF ConsoleSets, ConsoleRegisters
    <2>. QED BY <1>0, <1>6, <2>1 DEF ConsoleSets, ConsoleRegistersBack, IInv, Kept
  <1>7. ASSUME NEW p \in Powers, Power(p) PROVE ConsoleRegistersBack' /\ Kept'
    <2>1. U.power[<<level, p>>] \in Handlers(U)
      BY <1>0, UnitHandlers DEF TypeOK
    <2>. QED BY <1>7, <2>1, HandlerKeeps DEF Power
  <1>8. CASE UNCHANGED vars
    BY <1>0, <1>8 DEF vars, IInv, ConsoleRegistersBack, Kept, Held, Excused
  <1>. QED BY <1>1, <1>2, <1>3, <1>4, <1>5, <1>6, <1>7, <1>8 DEF Next

\* If every handler writes only what is restored, saved on a list or known to be
\* lost, the console finds its registers as it left them: after any number of
\* turns, with any handlers called in any order in between.
THEOREM ConsoleRegistersReturn == NothingForgotten => (Spec => []ConsoleRegistersBack)
  <1>1. IInv => ConsoleRegistersBack
    BY DEF IInv
  <1>. SUFFICES ASSUME NothingForgotten PROVE Spec => []ConsoleRegistersBack
    OBVIOUS
  <1>2. IInv /\ [Next]_vars => IInv'
    BY IInvNext
  <1>. QED BY <1>1, <1>2, IInvInit, PTL DEF Spec
-----------------------------------------------------------------------------
(* The switches of a part follow what it is asked.                         *)

Staying(f) == carried /\ U.latched /\ OnByFirstPower(U, f) /\ regs[f] = console[f]

\* What a mode set left on stays on, and what the first Power left on stays on as
\* long as the PowerState says so.
SwitchesKept ==
  screen = "driver" =>
    /\ asked = "ON" => \A f \in U.lit : regs[f] = "on" \/ Staying(f)
    /\ asked \in {"RESET", "SHUTDOWN"} => \A f \in U.dark[asked] : regs[f] = "off"
    /\ ready => \A f \in U.lit : OnByMode(U, f) => regs[f] = "on"
    /\ level \in {"ON", "RESET"} =>
         \A f \in U.lit : OnByFirstPower(U, f) => regs[f] = "on" \/ Staying(f)

LEMMA UnitSwitches ==
  ASSUME SwitchesFollow, TypeOK
  PROVE  /\ \A f \in U.lit :
              /\ f \in U.fields
              /\ OnByPower(U, f) \/ OnByMode(U, f) \/ OnByFirstPower(U, f)
              /\ \A h \in {U.sense} \union U.touches : LeavesOn(h, f)
         /\ \A p \in {"RESET", "SHUTDOWN"} : \A f \in U.dark[p] :
              /\ f \in U.fields
              /\ \A l \in Levels :
                   /\ f \in U.power[<<l, p>>].off \ U.power[<<l, p>>].on
                   /\ U.power[<<l, p>>].unless \subseteq {f}
              /\ \A h \in {U.sense} \union U.touches : LeavesOff(h, f)
<1> DEFINE u == Units[unit]
<1>1. unit \in DOMAIN Units /\ U = u
  BY DEF TypeOK, U
<1> QED
  BY <1>1 DEF SwitchesFollow

\* What a handler does to a switch.
LEMMA AfterOn ==
  ASSUME NEW rs, NEW w, NEW f \in DOMAIN rs
  PROVE  /\ rs[f] = "on" /\ LeavesOn(w, f) => After(rs, w)[f] = "on"
         /\ f \in w.on /\ w.unless = {} => After(rs, w)[f] = "on"
BY DEF After, LeavesOn, SkippedBy

LEMMA AfterOff ==
  ASSUME NEW rs, NEW w, NEW f \in DOMAIN rs
  PROVE  /\ rs[f] = "off" /\ LeavesOff(w, f) => After(rs, w)[f] = "off"
         /\ f \in w.off \ w.on /\ w.unless \subseteq {f} => After(rs, w)[f] = "off"
BY DEF After, LeavesOff, SkippedBy

\* The handlers that what the first Power switched on is safe from.
Harmless ==
  {U.sense, U.mode, U.saving} \union U.touches \union {U.power[<<l, "RESET">>] : l \in Levels}
    \union {U.power[<<l, "ON">>] : l \in {"ON", "RESET"}}

LEMMA FirstPowerKept ==
  ASSUME TypeOK, NEW f \in U.fields, OnByFirstPower(U, f), NEW h \in Harmless,
         regs' = After(regs, h), UNCHANGED <<unit, console, carried>>
  PROVE  regs'[f] = regs[f] /\ (Staying(f) => Staying(f)')
<1>1. f \notin Touched(h)
  BY DEF OnByFirstPower, Harmless
<1>2. regs'[f] = regs[f]
  BY <1>1, AfterKeeps DEF TypeOK
<1> QED
  BY <1>2 DEF Staying, U

\* Sensing, and the handlers of the properties and of the timer.
LEMMA SwitchesLeft ==
  ASSUME SwitchesFollow, TypeOK, SwitchesKept, NEW h \in {U.sense} \union U.touches,
         regs' = After(regs, h), UNCHANGED <<unit, screen, asked, ready, level, console,
                                             carried>>
  PROVE  SwitchesKept'
<1> SUFFICES ASSUME screen = "driver" PROVE SwitchesKept'
  BY DEF SwitchesKept
<1>1. U' = U /\ U.lit \subseteq U.fields
  BY UnitSwitches DEF U
<1>2. h \in Harmless /\ h \in Handlers(U)
  BY UnitHandlers DEF Harmless
<1>3. DOMAIN regs = U.fields
  BY DEF TypeOK
<1>4. ASSUME NEW f \in U.lit, regs[f] = "on" PROVE regs'[f] = "on"
  BY <1>1, <1>3, <1>4, UnitSwitches, AfterOn
<1>5. ASSUME NEW f \in U.lit, Staying(f) PROVE Staying(f)'
  BY <1>1, <1>2, <1>5, FirstPowerKept DEF Staying
<1>6. ASSUME asked \in {"RESET", "SHUTDOWN"}, NEW f \in U.dark[asked] PROVE regs'[f] = "off"
  BY <1>3, <1>6, UnitSwitches, AfterOff DEF SwitchesKept
<1>7. asked = "ON" => \A f \in U.lit : regs'[f] = "on" \/ Staying(f)'
  BY <1>4, <1>5 DEF SwitchesKept
<1>8. ready => \A f \in U.lit : OnByMode(U, f) => regs'[f] = "on"
  BY <1>4 DEF SwitchesKept
<1>9. level \in {"ON", "RESET"} =>
        \A f \in U.lit : OnByFirstPower(U, f) => regs'[f] = "on" \/ Staying(f)'
  BY <1>4, <1>5 DEF SwitchesKept
<1> QED
  BY <1>1, <1>6, <1>7, <1>8, <1>9 DEF SwitchesKept

LEMMA SwitchesEnter ==
  ASSUME SwitchesFollow, TypeOK, ConsoleRegistersBack, EnterVT
  PROVE  SwitchesKept'
<1>1. U' = U /\ screen = "console" /\ ~ready' /\ asked' = "NOTHING" /\ UNCHANGED <<console,
                                                                                   level>>
  BY DEF EnterVT, U
<1>2. ASSUME level \in {"ON", "RESET"}, NEW f \in U.lit, OnByFirstPower(U, f) PROVE Staying(f)'
  <2>1. f \in U.fields /\ f \notin Touched(U.saving) /\ f \notin Touched(U.sense) /\ f \notin U.lost
    BY <1>2, UnitSwitches DEF OnByFirstPower
  <2>2. f \notin Touched(Idling)
    <3>1. f \notin Touched(U.power[<<"UNKNOWN", "RESET">>])
      BY <1>2 DEF OnByFirstPower, Levels
    <3>2. f \notin Touched(Nothing)
      BY DEF Nothing, Writes, Touched
    <3> QED
      BY <3>1, <3>2 DEF Idling
  <2>3. regs[f] = console[f]
    BY <1>1, <2>1 DEF ConsoleRegistersBack, Excused
  <2> DEFINE rs == After(regs, U.saving)
  <2>4. rs[f] = regs[f] /\ f \in DOMAIN rs
    BY <2>1, AfterKeeps DEF TypeOK, After
  <2>5. regs' = After(rs, Idling)
    BY DEF EnterVT
  <2> HIDE DEF rs
  <2>6. regs'[f] = console[f]
    BY <2>2, <2>3, <2>4, <2>5, AfterKeeps
  <2>7. carried'
    BY <1>2 DEF EnterVT
  <2> QED
    BY <1>1, <1>2, <2>6, <2>7 DEF Staying, OnByFirstPower
<1> QED
  BY <1>1, <1>2 DEF SwitchesKept

LEMMA SwitchesMode ==
  ASSUME SwitchesFollow, TypeOK, SwitchesKept, Mode
  PROVE  SwitchesKept'
<1>1. U' = U /\ screen = "driver" /\ asked' = "NOTHING" /\ UNCHANGED <<level, console,
                                                                       carried>>
      /\ regs' = After(regs, U.mode) /\ U.mode \in Handlers(U) /\ U.mode \in Harmless
  BY UnitHandlers DEF Mode, Do, U, Harmless
<1>2. U.lit \subseteq U.fields /\ DOMAIN regs = U.fields
  BY UnitSwitches DEF TypeOK
<1>3. ASSUME NEW f \in U.lit, OnByMode(U, f) PROVE regs'[f] = "on"
  BY <1>1, <1>2, <1>3, AfterOn DEF OnByMode
<1>4. ASSUME NEW f \in U.lit, OnByFirstPower(U, f), regs[f] = "on" \/ Staying(f)
      PROVE  regs'[f] = "on" \/ Staying(f)'
  BY <1>1, <1>2, <1>4, FirstPowerKept DEF Mode
<1> QED
  BY <1>1, <1>3, <1>4 DEF SwitchesKept

LEMMA SwitchesPower ==
  ASSUME SwitchesFollow, TypeOK, SwitchesKept, NEW p \in Powers, Power(p)
  PROVE  SwitchesKept'
<1> DEFINE w == U.power[<<level, p>>]
<1>1. /\ U' = U /\ screen = "driver" /\ asked' = p /\ UNCHANGED <<ready, console>>
      /\ regs' = After(regs, w) /\ w \in Handlers(U) /\ level \in Levels
  BY UnitHandlers DEF Power, Do, U, TypeOK
<1>2. U.lit \subseteq U.fields /\ DOMAIN regs = U.fields
  BY UnitSwitches DEF TypeOK
<1>3. ready => \A f \in U.lit : OnByMode(U, f) => regs'[f] = "on"
  <2> SUFFICES ASSUME ready, NEW f \in U.lit, OnByMode(U, f) PROVE regs'[f] = "on"
    OBVIOUS
  <2>1. regs[f] = "on"
    BY <1>1 DEF SwitchesKept
  <2>2. LeavesOn(w, f)
    BY <1>1 DEF OnByMode
  <2> QED
    BY <1>1, <1>2, <2>1, <2>2, AfterOn
<1>4. ASSUME p # "SHUTDOWN", level \in {"ON", "RESET"}, NEW f \in U.lit, OnByFirstPower(U, f)
      PROVE  regs'[f] = "on" \/ Staying(f)'
  <2>1. regs[f] = "on" \/ Staying(f)
    BY <1>1, <1>4 DEF SwitchesKept
  <2>2. w \in Harmless
    BY <1>1, <1>4 DEF Harmless, Powers
  <2>3. UNCHANGED <<unit, console, carried>>
    <3>1. carried' = carried
      BY <1>4 DEF Power, TypeOK
    <3> QED
      BY <3>1 DEF Power
  <2> QED
    BY <1>1, <1>2, <1>4, <2>1, <2>2, <2>3, FirstPowerKept
<1>5. CASE p = "ON"
  <2>1. ready /\ level' = "ON" /\ level \in Levels
    BY <1>1, <1>5 DEF Power, LevelAfter
  <2>2. ASSUME NEW f \in U.lit, OnByFirstPower(U, f) PROVE regs'[f] = "on" \/ Staying(f)'
    <3>1. CASE level \in {"ON", "RESET"}
      BY <1>4, <1>5, <2>2, <3>1
    <3>2. CASE level \in {"SHUTDOWN", "UNKNOWN"}
      BY <1>1, <1>2, <1>5, <2>2, <3>2, AfterOn DEF OnByFirstPower
    <3> QED
      BY <2>1, <3>1, <3>2 DEF Levels, Powers
  <2>3. ASSUME NEW f \in U.lit PROVE regs'[f] = "on" \/ Staying(f)'
    <3>1. CASE OnByPower(U, f)
      BY <1>1, <1>2, <1>5, <3>1, AfterOn DEF OnByPower
    <3>2. CASE OnByMode(U, f)
      BY <1>3, <2>1, <3>2
    <3>3. CASE OnByFirstPower(U, f)
      BY <2>2, <3>3
    <3> QED
      BY <3>1, <3>2, <3>3, UnitSwitches
  <2> QED
    BY <1>1, <1>3, <1>5, <2>2, <2>3 DEF SwitchesKept
<1>6. CASE p \in {"RESET", "SHUTDOWN"}
  <2>1. \A f \in U.dark[p] : regs'[f] = "off"
    BY <1>1, <1>2, <1>6, UnitSwitches, AfterOff
  <2>2. level' \in {"ON", "RESET"} => p # "SHUTDOWN" /\ level \in {"ON", "RESET"}
    BY <1>6 DEF Power, LevelAfter
  <2> QED
    BY <1>1, <1>3, <1>4, <1>6, <2>1, <2>2 DEF SwitchesKept
<1> QED
  BY <1>5, <1>6 DEF Powers

\* If nobody but Power, or a mode set, has to do with the switches of a part,
\* they are as it was last asked: after any calls, in any order, over any number
\* of turns with the screen.
THEOREM PowerFollows == NothingForgotten /\ SwitchesFollow => (Spec => []PowerAsAsked)
<1> SUFFICES ASSUME NothingForgotten, SwitchesFollow PROVE Spec => []PowerAsAsked
  OBVIOUS
<1>1. Init => SwitchesKept
  BY DEF Init, SwitchesKept
<1>2. IInv /\ SwitchesKept /\ [Next]_vars => SwitchesKept'
  <2> SUFFICES ASSUME IInv, SwitchesKept, [Next]_vars PROVE SwitchesKept'
    OBVIOUS
  <2>0. TypeOK /\ ConsoleRegistersBack
    BY DEF IInv
  <2>1. CASE Sense
    BY <2>0, <2>1, SwitchesLeft DEF Sense, Do, driver
  <2>2. CASE EnterVT
    BY <2>0, <2>2, SwitchesEnter
  <2>3. CASE Mode
    BY <2>0, <2>3, SwitchesMode
  <2>4. CASE Touch
    <3>1. PICK w \in U.touches : Do(w)
      BY <2>4 DEF Touch
    <3> QED
      BY <2>0, <2>4, <3>1, SwitchesLeft DEF Touch, Do, driver
  <2>5. CASE LeaveVT
    BY <2>5 DEF LeaveVT, SwitchesKept
  <2>6. CASE ConsoleSets
    BY <2>6 DEF ConsoleSets, SwitchesKept
  <2>7. ASSUME NEW p \in Powers, Power(p) PROVE SwitchesKept'
    BY <2>0, <2>7, SwitchesPower
  <2>8. CASE UNCHANGED vars
    BY <2>8 DEF vars, SwitchesKept, Staying, U
  <2> QED
    BY <2>1, <2>2, <2>3, <2>4, <2>5, <2>6, <2>7, <2>8 DEF Next
<1>3. SwitchesKept => PowerAsAsked
  BY DEF SwitchesKept, PowerAsAsked, Staying
<1>4. IInv /\ [Next]_vars => IInv'
  BY IInvNext
<1> QED
  BY <1>1, <1>2, <1>3, <1>4, IInvInit, PTL DEF Spec

-----------------------------------------------------------------------------
(* The life of the screen. *)

\* The handlers that give the screen back, and those that take it.
Leaving == {"LeaveVT", "AbortDDX", "CloseActive"}
Entering == {"ScreenInit", "EnterVT"}

\* What of a unit is the console's, or was never moved away from it.
Back(u) == units[u] = "console" \/ (u = "MC" /\ refused)

\* The types, and where a handler can be.
Flags ==
  /\ hasVGA \in BOOLEAN /\ isPCIE \in BOOLEAN /\ vtSema \in BOOLEAN /\ vgaSetup \in BOOLEAN
  /\ engineBusy \in BOOLEAN /\ csActive \in BOOLEAN /\ notIdle \in BOOLEAN /\ refused \in BOOLEAN

Types ==
  /\ server \in {"closed", "open", "away", "aborted", "dead"}
  /\ units \in [ScreenUnits -> {"console", "driver"}]
  /\ saved \in [ScreenUnits -> {"nothing", "console", "driver"}]
  /\ reading \subseteq Crtcs \union {"VGA"}
  /\ csType \in {"none", "MMIO", "DRM"}
  /\ dri \in {"closed", "open"} /\ cp \in {"none", "stopped", "running"}
  /\ lock \in 0 .. 3
  /\ gart \in {"none", "valid", "lost", "empty"}
  /\ backup \in {"none", "empty", "valid", "lost"}

Positions ==
  \/ handler = "none" /\ pc = 0
  \/ handler = "ScreenInit" /\ pc \in 1 .. 12
  \/ handler = "EnterVT" /\ pc \in 1 .. 9
  \/ handler = "LeaveVT" /\ pc \in 1 .. 10
  \/ handler = "AbortDDX" /\ pc \in 1 .. 10
  \/ handler = "SwitchMode" /\ pc \in 1 .. 3
  \/ handler = "CloseActive" /\ pc \in 1 .. 10
  \/ handler = "CloseAway" /\ pc \in 1 .. 3

\* Who runs when.
HandlersRight ==
  /\ handler = "ScreenInit" => server = "closed"
  /\ handler \in {"EnterVT", "CloseAway"} => server = "away"
  /\ handler \in {"LeaveVT", "SwitchMode", "CloseActive"} => server = "open"
  /\ server \in {"aborted", "dead"} => Resting

\* pScrn->vtSema is set from ModeInit until the screen is left.
VtRight ==
  /\ server = "closed" /\ handler # "AbortDDX" => (vtSema => handler = "ScreenInit" /\ pc > 10)
  /\ handler = "ScreenInit" /\ pc > 10 => vtSema
  /\ server = "away" /\ handler \in {"none", "CloseAway"} => ~vtSema
  /\ handler = "EnterVT" /\ pc > 5 => vtSema
  /\ server = "open" /\ handler # "AbortDDX" => vtSema

\* Without the screen everything is the console's, and from Save on its values
\* are kept for every unit but a controller RHDMCRestore would not move.
ConsoleKept ==
  /\ Resting /\ server \in {"closed", "away", "aborted"} => \A u \in ScreenUnits : Back(u)
  /\ handler \in Entering /\ pc = 1 => \A u \in ScreenUnits : Back(u)
  /\ handler = "CloseAway" => \A u \in ScreenUnits : Back(u)
  /\ ~hasVGA => units["VGA"] = "console"
  /\ (Resting /\ server \in {"open", "away"}) \/ (~Resting /\ ~(handler = "ScreenInit" /\ pc = 1))
       => \A u \in ScreenUnits : \/ saved[u] = "console"
                                 \/ u = "MC" /\ refused /\ saved[u] = "driver"
                                 \/ u = "VGA" /\ ~hasVGA

\* A leaving handler has restored the units it has passed.
RestoredSoFar ==
  handler \in Leaving =>
    /\ pc > 5 => Back("MC")
    /\ pc > 6 => Back("PLLs")
    /\ pc > 7 => Back("VGA")
    /\ pc > 8 => Back("CRTCs")
    /\ pc > 9 => Back("Outputs")

\* Nobody reads where the memory controller is about to leave.
Quiet == reading = {} /\ ~engineBusy
VGAQuiet ==
  /\ handler \in Entering /\ pc > 2 => "VGA" \notin reading
  /\ server = "open" /\ handler \in {"none", "SwitchMode"} => "VGA" \notin reading
  /\ handler \in Leaving /\ pc <= 7 => "VGA" \notin reading
  /\ ~hasVGA => "VGA" \notin reading
  /\ hasVGA /\ handler \in Leaving /\ pc = 8 => ~vgaSetup

QuietRight ==
  /\ handler \in Entering /\ pc = 4 => Quiet
  /\ handler \in Leaving /\ pc = 5 => notIdle \/ Quiet
  /\ handler = "CloseActive" /\ pc = 4 => notIdle \/ Quiet

\* While the driver has the screen the controller is where X draws.
MCRight ==
  /\ handler \in Entering /\ pc > 4 => units["MC"] = "driver"
  /\ server = "open" /\ handler \in {"none", "SwitchMode"} => units["MC"] = "driver"

\* The hardware lock is taken as often as the handler's position says, and not at
\* all without DRI.
Locked(n) == lock = IF dri = "closed" THEN 0 ELSE n
LockRight ==
  /\ server = "closed" /\ Resting => lock = 0
  /\ handler = "ScreenInit" => /\ pc <= 6 => lock = 0
                               /\ pc \in {6, 7, 8} => dri = "open"
                               /\ pc > 6 => Locked(1)
  /\ server = "open" /\ handler \in {"none", "SwitchMode"} => Locked(1)
  /\ handler = "LeaveVT" => Locked(IF pc = 1 THEN 1 ELSE 2)
  /\ server = "away" /\ handler \in {"none", "CloseAway"} => Locked(2)
  /\ handler = "EnterVT" => Locked(IF pc > 8 THEN 1 ELSE 2)
  /\ handler \in {"AbortDDX", "CloseActive"} => lock <= IF pc = 1 THEN 2 ELSE 3
  /\ handler = "CloseActive" => lock <= 1

\* The command stream belongs to the generation of the server that made it.
Streaming ==
  \/ server \in {"open", "away"} /\ handler # "AbortDDX"
  \/ handler = "ScreenInit" /\ pc > 9
StreamRight ==
  /\ dri = "closed" => cp = "none"
  /\ csActive /\ csType = "DRM" => dri = "open"
  /\ server = "closed" /\ (handler = "none" \/ (handler = "ScreenInit" /\ pc <= 9)) => csActive = FALSE
  /\ (handler = "CloseActive" /\ pc > 2) \/ (handler = "CloseAway" /\ pc > 1) => csActive = FALSE
  /\ Streaming /\ ~(handler \in {"CloseActive", "CloseAway"} /\ pc > 2) => (csType = "DRM" <=> dri = "open")
  /\ handler = "ScreenInit" /\ pc > 9 => csActive
  /\ server = "open" /\ handler \in {"none", "SwitchMode"} => csActive
  /\ handler = "EnterVT" /\ pc > 7 => csActive
  /\ handler = "LeaveVT" /\ pc <= 3 => csActive
  /\ handler = "CloseActive" /\ pc <= 2 => csActive

\* The copy of the GART table is good wherever the table itself may be lost.
Backup(b) == dri = "open" => backup = "none" \/ b = "valid"
GartRight ==
  /\ handler = "ScreenInit" /\ pc > 7 => Backup(gart)
  /\ server = "open" /\ handler \in {"none", "SwitchMode"} => Backup(gart)
  /\ handler = "LeaveVT" => Backup(IF pc = 1 THEN gart ELSE backup)
  /\ server = "away" /\ Resting => Backup(backup)
  /\ handler = "EnterVT" => Backup(IF pc > 6 THEN gart ELSE backup)
  /\ ~isPCIE => backup = "none"

\* The inductive invariant.
LifecycleInv ==
  /\ Flags /\ Types /\ Positions /\ HandlersRight /\ VtRight /\ ConsoleKept /\ RestoredSoFar
  /\ VGAQuiet /\ QuietRight /\ MCRight /\ LockRight /\ StreamRight /\ GartRight

-----------------------------------------------------------------------------
\* The handlers' calls, written out.
LEMMA Programs ==
  /\ DOMAIN Program = {"ScreenInit", "EnterVT", "LeaveVT", "AbortDDX", "SwitchMode",
                       "CloseActive", "CloseAway"}
  /\ Program["ScreenInit"] = <<"Save", "VGADisable", "AllIdle", "MCSetup", "DRIScreenInit",
                               "DRIFinish", "DRIKernelInit", "DRIBufInit", "CSInit",
                               "ModeInit", "Colormap", "Return">>
  /\ Program["EnterVT"] = <<"Save", "VGADisable", "AllIdle", "MCSetup", "ModeInit",
                            "DRIEnterVT", "CSStart", "Unlock", "Return">>
  /\ Program["LeaveVT"] = <<"DRILeaveVT", "EngineIdle", "CSStop", "AllIdle", "MCRestore",
                            "PLLsRestore", "VGARestore", "CrtcsRestore", "OutputsRestore",
                            "Return">>
  /\ Program["AbortDDX"] = <<"DRILeaveVT", "EngineIdle", "CSStop", "AllIdle", "MCRestore",
                             "PLLsRestore", "VGARestore", "CrtcsRestore", "OutputsRestore",
                             "Return">>
  /\ Program["SwitchMode"] = <<"EngineIdle", "ModeInit", "Return">>
  /\ Program["CloseActive"] = <<"EngineIdle", "CSStop", "AllIdle", "DRIClose", "MCRestore",
                                "PLLsRestore", "VGARestore", "CrtcsRestore", "OutputsRestore",
                                "Return">>
  /\ Program["CloseAway"] = <<"CSStop", "DRIClose", "Return">>
  BY DEF Program, EnterVTCalls, LeaveVTCalls, CloseActiveCalls, CloseAwayCalls

\* And how many there are.
LEMMA Lengths ==
  /\ Len(Program["ScreenInit"]) = 12
  /\ Len(Program["EnterVT"]) = 9
  /\ Len(Program["LeaveVT"]) = 10
  /\ Len(Program["AbortDDX"]) = 10
  /\ Len(Program["SwitchMode"]) = 3
  /\ Len(Program["CloseActive"]) = 10
  /\ Len(Program["CloseAway"]) = 3
  BY Programs

\* Types and Positions are LifecycleTypeOK.
LEMMA TypeIs == LifecycleTypeOK <=> Flags /\ Types /\ Positions
<1>1. Positions <=> \/ handler = "none" /\ pc = 0
                    \/ handler \in DOMAIN Program /\ pc \in 1 .. Len(Program[handler])
  BY Programs, Lengths DEF Positions
<1>2. {hasVGA, isPCIE, vtSema, vgaSetup, engineBusy, csActive, notIdle,
        refused} \subseteq BOOLEAN
        <=> /\ hasVGA \in BOOLEAN /\ isPCIE \in BOOLEAN /\ vtSema \in BOOLEAN /\ vgaSetup \in BOOLEAN
            /\ engineBusy \in BOOLEAN /\ csActive \in BOOLEAN /\ notIdle \in BOOLEAN /\ refused \in BOOLEAN
  OBVIOUS
<1>. QED BY <1>1, <1>2 DEF LifecycleTypeOK, Flags, Types

\* Where a handler is when it comes to a call.
LEMMA AtSave ==
  ASSUME Positions, At("Save")
  PROVE  \/ handler = "ScreenInit" /\ pc = 1
         \/ handler = "EnterVT" /\ pc = 1
  BY Programs DEF Positions, At, Resting

LEMMA AtVGADisable ==
  ASSUME Positions, At("VGADisable")
  PROVE  \/ handler = "ScreenInit" /\ pc = 2
         \/ handler = "EnterVT" /\ pc = 2
  BY Programs DEF Positions, At, Resting

LEMMA AtAllIdle ==
  ASSUME Positions, At("AllIdle")
  PROVE  \/ handler = "ScreenInit" /\ pc = 3
         \/ handler = "EnterVT" /\ pc = 3
         \/ handler = "LeaveVT" /\ pc = 4
         \/ handler = "AbortDDX" /\ pc = 4
         \/ handler = "CloseActive" /\ pc = 3
  BY Programs DEF Positions, At, Resting

LEMMA AtMCSetup ==
  ASSUME Positions, At("MCSetup")
  PROVE  \/ handler = "ScreenInit" /\ pc = 4
         \/ handler = "EnterVT" /\ pc = 4
  BY Programs DEF Positions, At, Resting

LEMMA AtDRIScreenInit ==
  ASSUME Positions, At("DRIScreenInit")
  PROVE  handler = "ScreenInit" /\ pc = 5
  BY Programs DEF Positions, At, Resting

LEMMA AtDRIFinish ==
  ASSUME Positions, At("DRIFinish")
  PROVE  handler = "ScreenInit" /\ pc = 6
  BY Programs DEF Positions, At, Resting

LEMMA AtDRIKernelInit ==
  ASSUME Positions, At("DRIKernelInit")
  PROVE  handler = "ScreenInit" /\ pc = 7
  BY Programs DEF Positions, At, Resting

LEMMA AtDRIBufInit ==
  ASSUME Positions, At("DRIBufInit")
  PROVE  handler = "ScreenInit" /\ pc = 8
  BY Programs DEF Positions, At, Resting

LEMMA AtCSInit ==
  ASSUME Positions, At("CSInit")
  PROVE  handler = "ScreenInit" /\ pc = 9
  BY Programs DEF Positions, At, Resting

LEMMA AtModeInit ==
  ASSUME Positions, At("ModeInit")
  PROVE  \/ handler = "ScreenInit" /\ pc = 10
         \/ handler = "EnterVT" /\ pc = 5
         \/ handler = "SwitchMode" /\ pc = 2
  BY Programs DEF Positions, At, Resting

LEMMA AtColormap ==
  ASSUME Positions, At("Colormap")
  PROVE  handler = "ScreenInit" /\ pc = 11
  BY Programs DEF Positions, At, Resting

LEMMA AtReturn ==
  ASSUME Positions, At("Return")
  PROVE  \/ handler = "ScreenInit" /\ pc = 12
         \/ handler = "EnterVT" /\ pc = 9
         \/ handler = "LeaveVT" /\ pc = 10
         \/ handler = "AbortDDX" /\ pc = 10
         \/ handler = "SwitchMode" /\ pc = 3
         \/ handler = "CloseActive" /\ pc = 10
         \/ handler = "CloseAway" /\ pc = 3
  BY Programs DEF Positions, At, Resting

LEMMA AtDRIEnterVT ==
  ASSUME Positions, At("DRIEnterVT")
  PROVE  handler = "EnterVT" /\ pc = 6
  BY Programs DEF Positions, At, Resting

LEMMA AtCSStart ==
  ASSUME Positions, At("CSStart")
  PROVE  handler = "EnterVT" /\ pc = 7
  BY Programs DEF Positions, At, Resting

LEMMA AtUnlock ==
  ASSUME Positions, At("Unlock")
  PROVE  handler = "EnterVT" /\ pc = 8
  BY Programs DEF Positions, At, Resting

LEMMA AtDRILeaveVT ==
  ASSUME Positions, At("DRILeaveVT")
  PROVE  \/ handler = "LeaveVT" /\ pc = 1
         \/ handler = "AbortDDX" /\ pc = 1
  BY Programs DEF Positions, At, Resting

LEMMA AtEngineIdle ==
  ASSUME Positions, At("EngineIdle")
  PROVE  \/ handler = "LeaveVT" /\ pc = 2
         \/ handler = "AbortDDX" /\ pc = 2
         \/ handler = "SwitchMode" /\ pc = 1
         \/ handler = "CloseActive" /\ pc = 1
  BY Programs DEF Positions, At, Resting

LEMMA AtCSStop ==
  ASSUME Positions, At("CSStop")
  PROVE  \/ handler = "LeaveVT" /\ pc = 3
         \/ handler = "AbortDDX" /\ pc = 3
         \/ handler = "CloseActive" /\ pc = 2
         \/ handler = "CloseAway" /\ pc = 1
  BY Programs DEF Positions, At, Resting

LEMMA AtMCRestore ==
  ASSUME Positions, At("MCRestore")
  PROVE  \/ handler = "LeaveVT" /\ pc = 5
         \/ handler = "AbortDDX" /\ pc = 5
         \/ handler = "CloseActive" /\ pc = 5
  BY Programs DEF Positions, At, Resting

LEMMA AtPLLsRestore ==
  ASSUME Positions, At("PLLsRestore")
  PROVE  \/ handler = "LeaveVT" /\ pc = 6
         \/ handler = "AbortDDX" /\ pc = 6
         \/ handler = "CloseActive" /\ pc = 6
  BY Programs DEF Positions, At, Resting

LEMMA AtVGARestore ==
  ASSUME Positions, At("VGARestore")
  PROVE  \/ handler = "LeaveVT" /\ pc = 7
         \/ handler = "AbortDDX" /\ pc = 7
         \/ handler = "CloseActive" /\ pc = 7
  BY Programs DEF Positions, At, Resting

LEMMA AtCrtcsRestore ==
  ASSUME Positions, At("CrtcsRestore")
  PROVE  \/ handler = "LeaveVT" /\ pc = 8
         \/ handler = "AbortDDX" /\ pc = 8
         \/ handler = "CloseActive" /\ pc = 8
  BY Programs DEF Positions, At, Resting

LEMMA AtOutputsRestore ==
  ASSUME Positions, At("OutputsRestore")
  PROVE  \/ handler = "LeaveVT" /\ pc = 9
         \/ handler = "AbortDDX" /\ pc = 9
         \/ handler = "CloseActive" /\ pc = 9
  BY Programs DEF Positions, At, Resting

LEMMA AtDRIClose ==
  ASSUME Positions, At("DRIClose")
  PROVE  \/ handler = "CloseActive" /\ pc = 4
         \/ handler = "CloseAway" /\ pc = 2
  BY Programs DEF Positions, At, Resting

\* What the controller may say.
LEMMA Readings ==
  ASSUME Flags
  PROVE  /\ TRUE \in MCReadings <=> engineBusy = FALSE
         /\ FALSE \in MCReadings <=> engineBusy = TRUE \/ reading # {}
<1>1. CASE engineBusy = TRUE
  BY <1>1 DEF MCReadings
<1>2. CASE engineBusy = FALSE
  BY <1>2 DEF MCReadings
<1>. QED BY <1>1, <1>2 DEF Flags

\* The tuples an action leaves alone, and how a call goes on, are the same in every
\* lemma from here on.
USE DEF card, control, display, stream, direct, history, Resting, Proceed, Skip, Call

\* One lemma per action: it keeps every part of LifecycleInv.
LEMMA ScreenInitKeeps ==
  ASSUME LifecycleInv, ScreenInit
  PROVE  LifecycleInv'
<1>1. /\ Flags /\ Types /\ Positions /\ HandlersRight /\ VtRight /\ ConsoleKept
      /\ RestoredSoFar /\ VGAQuiet /\ QuietRight /\ MCRight /\ LockRight /\ StreamRight /\ GartRight
  BY DEF LifecycleInv
<1>3. Flags'
  BY <1>1 DEF Flags, ScreenInit
<1>4. Types'
  BY <1>1 DEF Types, ScreenInit
<1>5. Positions' /\ HandlersRight' /\ VtRight'
  BY <1>1 DEF Positions, HandlersRight, VtRight, ScreenInit
<1>6. ConsoleKept' /\ RestoredSoFar'
  BY <1>1 DEF ConsoleKept, RestoredSoFar, Back, ScreenInit
<1>7. VGAQuiet' /\ QuietRight' /\ MCRight'
  BY <1>1 DEF VGAQuiet, Leaving, QuietRight, MCRight, ScreenInit
<1>8. LockRight' /\ StreamRight' /\ GartRight'
  BY <1>1 DEF LockRight, StreamRight, Streaming, GartRight, Backup, ScreenInit
<1>. QED BY <1>3, <1>4, <1>5, <1>6, <1>7, <1>8 DEF LifecycleInv

LEMMA EnterScreenKeeps ==
  ASSUME LifecycleInv, EnterScreen
  PROVE  LifecycleInv'
<1>1. /\ Flags /\ Types /\ Positions /\ HandlersRight /\ VtRight /\ ConsoleKept
      /\ RestoredSoFar /\ VGAQuiet /\ QuietRight /\ MCRight /\ LockRight /\ StreamRight /\ GartRight
  BY DEF LifecycleInv
<1>3. Flags'
  BY <1>1 DEF Flags, EnterScreen
<1>4. Types'
  BY <1>1 DEF Types, EnterScreen
<1>5. Positions' /\ HandlersRight' /\ VtRight'
  BY <1>1 DEF Positions, HandlersRight, VtRight, EnterScreen
<1>6. ConsoleKept' /\ RestoredSoFar'
  BY <1>1 DEF ConsoleKept, RestoredSoFar, Back, EnterScreen
<1>7. VGAQuiet' /\ QuietRight' /\ MCRight'
  BY <1>1 DEF VGAQuiet, Leaving, QuietRight, MCRight, EnterScreen
<1>8. LockRight' /\ StreamRight' /\ GartRight'
  BY <1>1 DEF LockRight, Locked, StreamRight, Streaming, GartRight, Backup, EnterScreen
<1>. QED BY <1>3, <1>4, <1>5, <1>6, <1>7, <1>8 DEF LifecycleInv

LEMMA LeaveScreenKeeps ==
  ASSUME LifecycleInv, LeaveScreen
  PROVE  LifecycleInv'
<1>1. /\ Flags /\ Types /\ Positions /\ HandlersRight /\ VtRight /\ ConsoleKept
      /\ RestoredSoFar /\ VGAQuiet /\ QuietRight /\ MCRight /\ LockRight /\ StreamRight /\ GartRight
  BY DEF LifecycleInv
<1>3. Flags'
  BY <1>1 DEF Flags, LeaveScreen
<1>4. Types'
  BY <1>1 DEF Types, LeaveScreen
<1>5. Positions' /\ HandlersRight' /\ VtRight'
  BY <1>1 DEF Positions, HandlersRight, VtRight, LeaveScreen
<1>6. ConsoleKept' /\ RestoredSoFar'
  BY <1>1 DEF ConsoleKept, RestoredSoFar, Entering, LeaveScreen
<1>7. VGAQuiet' /\ QuietRight' /\ MCRight'
  BY <1>1 DEF VGAQuiet, QuietRight, MCRight, LeaveScreen
<1>8. LockRight' /\ StreamRight' /\ GartRight'
  BY <1>1 DEF LockRight, Locked, StreamRight, Streaming, GartRight, Backup, LeaveScreen
<1>. QED BY <1>3, <1>4, <1>5, <1>6, <1>7, <1>8 DEF LifecycleInv

LEMMA SwitchModeKeeps ==
  ASSUME LifecycleInv, SwitchMode
  PROVE  LifecycleInv'
<1>1. /\ Flags /\ Types /\ Positions /\ HandlersRight /\ VtRight /\ ConsoleKept
      /\ RestoredSoFar /\ VGAQuiet /\ QuietRight /\ MCRight /\ LockRight /\ StreamRight /\ GartRight
  BY DEF LifecycleInv
<1>3. Flags'
  BY <1>1 DEF Flags, SwitchMode
<1>4. Types'
  BY <1>1 DEF Types, SwitchMode
<1>5. Positions' /\ HandlersRight' /\ VtRight'
  BY <1>1 DEF Positions, HandlersRight, VtRight, SwitchMode
<1>6. ConsoleKept' /\ RestoredSoFar'
  BY <1>1 DEF ConsoleKept, RestoredSoFar, Entering, SwitchMode
<1>7. VGAQuiet' /\ QuietRight' /\ MCRight'
  BY <1>1 DEF VGAQuiet, QuietRight, MCRight, SwitchMode
<1>8. LockRight' /\ StreamRight' /\ GartRight'
  BY <1>1 DEF LockRight, Locked, StreamRight, Streaming, GartRight, Backup, SwitchMode
<1>. QED BY <1>3, <1>4, <1>5, <1>6, <1>7, <1>8 DEF LifecycleInv

LEMMA CloseScreenKeeps ==
  ASSUME LifecycleInv, CloseScreen
  PROVE  LifecycleInv'
<1>1. /\ Flags /\ Types /\ Positions /\ HandlersRight /\ VtRight /\ ConsoleKept
      /\ RestoredSoFar /\ VGAQuiet /\ QuietRight /\ MCRight /\ LockRight /\ StreamRight /\ GartRight
  BY DEF LifecycleInv
<1>2. /\ handler = "none" /\ pc = 0 /\ pc' = 1 /\ server' = server
      /\ UNCHANGED <<hasVGA, isPCIE, vtSema, vgaSetup, units, saved, reading, engineBusy,
                     csActive, csType, dri, cp, lock, gart, backup, notIdle, refused>>
  BY <1>1 DEF Positions, CloseScreen
<1>3. \/ server = "open" /\ handler' = "CloseActive"
      \/ server = "away" /\ handler' = "CloseAway"
  <2>1. CASE server = "open"
    BY <1>1, <1>2, <2>1 DEF CloseScreen, CloseHandler, VtRight
  <2>2. CASE server = "away"
    BY <1>1, <1>2, <2>2 DEF CloseScreen, CloseHandler, VtRight
  <2>. QED BY <2>1, <2>2 DEF CloseScreen
<1>4. Flags'
  BY <1>1, <1>2, <1>3 DEF Flags
<1>5. Types'
  BY <1>1, <1>2, <1>3 DEF Types
<1>6. Positions' /\ HandlersRight' /\ VtRight'
  BY <1>1, <1>2, <1>3 DEF Positions, HandlersRight, VtRight
<1>7. ConsoleKept' /\ RestoredSoFar'
  BY <1>1, <1>2, <1>3 DEF ConsoleKept, RestoredSoFar, Back, Entering
<1>8. VGAQuiet' /\ QuietRight' /\ MCRight'
  BY <1>1, <1>2, <1>3 DEF VGAQuiet, Leaving, QuietRight, MCRight
<1>9. LockRight' /\ StreamRight' /\ GartRight'
  BY <1>1, <1>2, <1>3 DEF LockRight, Locked, StreamRight, Streaming, GartRight, Backup
<1>. QED BY <1>4, <1>5, <1>6, <1>7, <1>8, <1>9 DEF LifecycleInv

LEMMA ReturnKeeps ==
  ASSUME LifecycleInv, Return
  PROVE  LifecycleInv'
<1>1. /\ Flags /\ Types /\ Positions /\ HandlersRight /\ VtRight /\ ConsoleKept
      /\ RestoredSoFar /\ VGAQuiet /\ QuietRight /\ MCRight /\ LockRight /\ StreamRight /\ GartRight
  BY DEF LifecycleInv
<1>2. \/ handler = "ScreenInit" /\ pc = 12
      \/ handler = "EnterVT" /\ pc = 9
      \/ handler = "LeaveVT" /\ pc = 10
      \/ handler = "AbortDDX" /\ pc = 10
      \/ handler = "SwitchMode" /\ pc = 3
      \/ handler = "CloseActive" /\ pc = 10
      \/ handler = "CloseAway" /\ pc = 3
  BY <1>1, AtReturn DEF Return
<1>3. /\ handler' = "none" /\ pc' = 0
      /\ UNCHANGED <<hasVGA, isPCIE, vgaSetup, units, saved, reading, engineBusy, csActive,
                     csType, dri, cp, gart, backup, notIdle, refused>>
  BY DEF Return
<1>4. \/ /\ handler \in {"ScreenInit", "EnterVT", "SwitchMode"}
         /\ server' = "open" /\ vtSema' = vtSema /\ lock' = lock
      \/ handler = "LeaveVT" /\ server' = "away" /\ vtSema' = FALSE /\ lock' = lock
      \/ handler = "AbortDDX" /\ server' = "aborted" /\ vtSema' = vtSema /\ lock' = lock
      \/ handler \in {"CloseActive", "CloseAway"} /\ server' = "closed" /\ vtSema' = FALSE /\ lock' = 0
  <2>1. /\ server' = Outcome[handler] /\ lock' = IF Outcome[handler] = "closed" THEN 0 ELSE lock
        /\ vtSema' = (vtSema /\ Outcome[handler] \in {"open", "aborted"})
    BY DEF Return
  <2>2. /\ Outcome["ScreenInit"] = "open" /\ Outcome["EnterVT"] = "open" /\ Outcome["SwitchMode"] = "open"
        /\ Outcome["LeaveVT"] = "away" /\ Outcome["AbortDDX"] = "aborted"
        /\ Outcome["CloseActive"] = "closed" /\ Outcome["CloseAway"] = "closed"
    BY DEF Outcome
  <2>3. Outcome[handler] \in {"open", "aborted"} => vtSema' = vtSema
    BY <1>1, <2>1 DEF Flags
  <2>4. Outcome[handler] \notin {"open", "aborted"} => vtSema' = FALSE
    BY <2>1
  <2>. QED BY <1>2, <2>1, <2>2, <2>3, <2>4
<1>5. Flags'
  BY <1>1, <1>2, <1>3, <1>4 DEF Flags
<1>6. Types'
  BY <1>1, <1>2, <1>3, <1>4 DEF Types
<1>7. Positions' /\ HandlersRight' /\ VtRight'
  BY <1>1, <1>2, <1>3, <1>4 DEF Positions, HandlersRight, VtRight
<1>8. ConsoleKept' /\ RestoredSoFar'
  BY <1>1, <1>2, <1>3, <1>4 DEF ConsoleKept, RestoredSoFar, Back, Leaving, ScreenUnits
<1>9. VGAQuiet' /\ QuietRight' /\ MCRight'
  BY <1>1, <1>2, <1>3, <1>4 DEF VGAQuiet, Entering, Leaving, QuietRight, MCRight, HandlersRight
<1>10. LockRight' /\ StreamRight' /\ GartRight'
  BY <1>1, <1>2, <1>3, <1>4 DEF LockRight, Locked, StreamRight, Streaming, GartRight, Backup,
     HandlersRight
<1>. QED BY <1>5, <1>6, <1>7, <1>8, <1>9, <1>10 DEF LifecycleInv

LEMMA SaveKeeps ==
  ASSUME LifecycleInv, Save
  PROVE  LifecycleInv'
<1>1. /\ Flags /\ Types /\ Positions /\ HandlersRight /\ VtRight /\ ConsoleKept
      /\ RestoredSoFar /\ VGAQuiet /\ QuietRight /\ MCRight /\ LockRight /\ StreamRight /\ GartRight
  BY DEF LifecycleInv
<1>2. \/ handler = "ScreenInit" /\ pc = 1
      \/ handler = "EnterVT" /\ pc = 1
  BY <1>1, AtSave DEF Save
<1>3. Flags'
  BY <1>1, <1>2 DEF Flags, Save
<1>4. Types'
  BY <1>1, <1>2 DEF Types, Save
<1>5. Positions' /\ HandlersRight' /\ VtRight'
  BY <1>1, <1>2 DEF Positions, HandlersRight, VtRight, Save
<1>6. ConsoleKept' /\ RestoredSoFar'
  BY <1>1, <1>2 DEF ConsoleKept, RestoredSoFar, Back, Entering, Types, Save
<1>7. VGAQuiet' /\ QuietRight' /\ MCRight'
  BY <1>1, <1>2 DEF VGAQuiet, QuietRight, MCRight, Save
<1>8. LockRight' /\ StreamRight' /\ GartRight'
  BY <1>1, <1>2 DEF LockRight, Locked, StreamRight, Streaming, GartRight, Backup, Save
<1>. QED BY <1>3, <1>4, <1>5, <1>6, <1>7, <1>8 DEF LifecycleInv

LEMMA VGADisableKeeps ==
  ASSUME LifecycleInv, VGADisable
  PROVE  LifecycleInv'
<1>1. /\ Flags /\ Types /\ Positions /\ HandlersRight /\ VtRight /\ ConsoleKept
      /\ RestoredSoFar /\ VGAQuiet /\ QuietRight /\ MCRight /\ LockRight /\ StreamRight /\ GartRight
  BY DEF LifecycleInv
<1>2. \/ handler = "ScreenInit" /\ pc = 2
      \/ handler = "EnterVT" /\ pc = 2
  BY <1>1, AtVGADisable DEF VGADisable
<1>3. Flags'
  BY <1>1, <1>2 DEF Flags, VGADisable, Silenced
<1>4. Types'
  BY <1>1, <1>2 DEF Types, ScreenUnits, VGADisable, Silenced
<1>5. Positions' /\ HandlersRight' /\ VtRight'
  BY <1>1, <1>2 DEF Positions, HandlersRight, VtRight, VGADisable, Silenced
<1>6. ConsoleKept' /\ RestoredSoFar'
  BY <1>1, <1>2 DEF ConsoleKept, RestoredSoFar, VGADisable, Silenced
<1>7. VGAQuiet' /\ QuietRight' /\ MCRight'
  BY <1>1, <1>2 DEF VGAQuiet, QuietRight, MCRight, VGADisable, Silenced
<1>8. LockRight' /\ StreamRight' /\ GartRight'
  BY <1>1, <1>2 DEF LockRight, Locked, StreamRight, Streaming, GartRight, Backup, VGADisable,
     Silenced
<1>. QED BY <1>3, <1>4, <1>5, <1>6, <1>7, <1>8 DEF LifecycleInv

LEMMA AllIdleKeeps ==
  ASSUME LifecycleInv, AllIdle
  PROVE  LifecycleInv'
<1>1. /\ Flags /\ Types /\ Positions /\ HandlersRight /\ VtRight /\ ConsoleKept
      /\ RestoredSoFar /\ VGAQuiet /\ QuietRight /\ MCRight /\ LockRight /\ StreamRight /\ GartRight
  BY DEF LifecycleInv
<1>2. \/ handler = "ScreenInit" /\ pc = 3
      \/ handler = "EnterVT" /\ pc = 3
      \/ handler = "LeaveVT" /\ pc = 4
      \/ handler = "AbortDDX" /\ pc = 4
      \/ handler = "CloseActive" /\ pc = 3
  BY <1>1, AtAllIdle DEF AllIdle
<1>3. /\ engineBusy = FALSE /\ notIdle' = FALSE
      /\ reading' = reading \ Crtcs /\ pc' = pc + 1
      /\ UNCHANGED <<hasVGA, isPCIE, server, handler, vtSema, vgaSetup, units, saved,
                     engineBusy, csActive, csType, dri, cp, lock, gart, backup, refused>>
  BY <1>1, Readings DEF AllIdle
<1>4. Flags'
  BY <1>1, <1>2, <1>3 DEF Flags
<1>5. Types'
  BY <1>1, <1>2, <1>3 DEF Types
<1>6. Positions' /\ HandlersRight' /\ VtRight'
  BY <1>1, <1>2, <1>3 DEF Positions, HandlersRight, VtRight
<1>7. ConsoleKept' /\ RestoredSoFar'
  BY <1>1, <1>2, <1>3 DEF ConsoleKept, RestoredSoFar
<1>8. VGAQuiet' /\ QuietRight' /\ MCRight'
  BY <1>1, <1>2, <1>3 DEF VGAQuiet, Entering, Leaving, QuietRight, Quiet, MCRight, Types
<1>9. LockRight' /\ StreamRight' /\ GartRight'
  BY <1>1, <1>2, <1>3 DEF LockRight, Locked, StreamRight, Streaming, GartRight, Backup
<1>. QED BY <1>4, <1>5, <1>6, <1>7, <1>8, <1>9 DEF LifecycleInv

LEMMA AllIdleFailsKeeps ==
  ASSUME LifecycleInv, AllIdleFails
  PROVE  LifecycleInv'
<1>1. /\ Flags /\ Types /\ Positions /\ HandlersRight /\ VtRight /\ ConsoleKept
      /\ RestoredSoFar /\ VGAQuiet /\ QuietRight /\ MCRight /\ LockRight /\ StreamRight /\ GartRight
  BY DEF LifecycleInv
<1>2. \/ handler = "ScreenInit" /\ pc = 3
      \/ handler = "EnterVT" /\ pc = 3
      \/ handler = "LeaveVT" /\ pc = 4
      \/ handler = "AbortDDX" /\ pc = 4
      \/ handler = "CloseActive" /\ pc = 3
  BY <1>1, AtAllIdle DEF AllIdleFails
<1>3. /\ notIdle' = TRUE /\ reading' \subseteq reading /\ ("VGA" \in reading' <=> "VGA" \in reading)
      /\ UNCHANGED <<hasVGA, isPCIE, vtSema, vgaSetup, units, saved, engineBusy, csActive,
                     csType, dri, cp, lock, gart, backup, refused>>
  BY DEF AllIdleFails, AllIdleFailsAt, Crtcs
<1>4. \/ /\ handler \in {"ScreenInit", "EnterVT"} /\ handler' = "none" /\ pc' = 0 /\ server' = "dead"
      \/ handler = "EnterVT" /\ handler' = "AbortDDX" /\ pc' = 1 /\ server' = server
      \/ handler \in {"LeaveVT", "AbortDDX"} /\ pc' = pc + 1 /\ handler' = handler /\ server' = server
      \/ handler = "CloseActive" /\ pc' = pc + 2 /\ handler' = handler /\ server' = server
  <2>1. CASE handler \in {"ScreenInit", "EnterVT"}
    <3>1. Fatal
      BY <2>1 DEF AllIdleFails
    <3>2. handler = "ScreenInit" => ~vtSema
      BY <1>1, <1>2 DEF VtRight, HandlersRight
    <3>. QED BY <2>1, <3>1, <3>2 DEF Fatal
  <2>2. CASE handler \in {"LeaveVT", "AbortDDX"}
    BY <2>2 DEF AllIdleFails
  <2>3. CASE handler = "CloseActive"
    BY <2>3 DEF AllIdleFails
  <2>. QED BY <1>2, <2>1, <2>2, <2>3
<1>5. Flags'
  BY <1>1, <1>2, <1>3, <1>4 DEF Flags
<1>6. Types'
  BY <1>1, <1>2, <1>3, <1>4 DEF Types
<1>7. Positions' /\ HandlersRight' /\ VtRight'
  BY <1>1, <1>2, <1>3, <1>4 DEF Positions, HandlersRight, VtRight
<1>8. ConsoleKept' /\ RestoredSoFar'
  BY <1>1, <1>2, <1>3, <1>4 DEF ConsoleKept, RestoredSoFar, Entering
<1>9. VGAQuiet' /\ QuietRight' /\ MCRight'
  BY <1>1, <1>2, <1>3, <1>4 DEF VGAQuiet, Entering, QuietRight, MCRight
<1>10. LockRight' /\ StreamRight' /\ GartRight'
  BY <1>1, <1>2, <1>3, <1>4 DEF LockRight, Locked, StreamRight, Streaming, GartRight, Backup
<1>. QED BY <1>5, <1>6, <1>7, <1>8, <1>9, <1>10 DEF LifecycleInv

LEMMA MCSetupKeeps ==
  ASSUME LifecycleInv, MCSetup
  PROVE  LifecycleInv'
<1>1. /\ Flags /\ Types /\ Positions /\ HandlersRight /\ VtRight /\ ConsoleKept
      /\ RestoredSoFar /\ VGAQuiet /\ QuietRight /\ MCRight /\ LockRight /\ StreamRight /\ GartRight
  BY DEF LifecycleInv
<1>2. \/ handler = "ScreenInit" /\ pc = 4
      \/ handler = "EnterVT" /\ pc = 4
  BY <1>1, AtMCSetup DEF MCSetup
<1>3. /\ units' = [units EXCEPT !["MC"] = "driver"] /\ pc' = pc + 1
      /\ UNCHANGED <<hasVGA, isPCIE, server, handler, vtSema, vgaSetup, saved, reading,
                     engineBusy, csActive, csType, dri, cp, lock, gart, backup, notIdle,
                     refused>>
  <2>1. reading = {} /\ engineBusy = FALSE
    BY <1>1, <1>2 DEF QuietRight, Quiet, Entering
  <2>2. FALSE \notin MCReadings
    BY <1>1, <2>1, Readings
  <2>. QED BY <2>2 DEF MCSetup
<1>4. Flags'
  BY <1>1, <1>2, <1>3 DEF Flags
<1>5. Types'
  BY <1>1, <1>2, <1>3 DEF Types, ScreenUnits
<1>6. Positions' /\ HandlersRight' /\ VtRight'
  BY <1>1, <1>2, <1>3 DEF Positions, HandlersRight, VtRight
<1>7. ConsoleKept' /\ RestoredSoFar'
  BY <1>1, <1>2, <1>3 DEF ConsoleKept, RestoredSoFar
<1>8. VGAQuiet' /\ QuietRight' /\ MCRight'
  BY <1>1, <1>2, <1>3 DEF VGAQuiet, Leaving, QuietRight, MCRight, ScreenUnits, Types
<1>9. LockRight' /\ StreamRight' /\ GartRight'
  BY <1>1, <1>2, <1>3 DEF LockRight, Locked, StreamRight, Streaming, GartRight, Backup
<1>. QED BY <1>4, <1>5, <1>6, <1>7, <1>8, <1>9 DEF LifecycleInv

LEMMA ModeInitKeeps ==
  ASSUME LifecycleInv, ModeInit
  PROVE  LifecycleInv'
<1>1. /\ Flags /\ Types /\ Positions /\ HandlersRight /\ VtRight /\ ConsoleKept
      /\ RestoredSoFar /\ VGAQuiet /\ QuietRight /\ MCRight /\ LockRight /\ StreamRight /\ GartRight
  BY DEF LifecycleInv
<1>2. \/ handler = "ScreenInit" /\ pc = 10
      \/ handler = "EnterVT" /\ pc = 5
      \/ handler = "SwitchMode" /\ pc = 2
  BY <1>1, AtModeInit DEF ModeInit
<1>3. /\ vtSema' = TRUE /\ pc' = pc + 1
      /\ units' = [u \in ScreenUnits |-> IF u \in {"PLLs", "CRTCs", "Outputs"} THEN "driver" ELSE units[u]]
      /\ reading' \subseteq Crtcs \union {"VGA"} /\ ("VGA" \in reading' <=> "VGA" \in reading)
      /\ UNCHANGED <<hasVGA, isPCIE, server, handler, vgaSetup, saved, engineBusy, csActive,
                     csType, dri, cp, lock, gart, backup, notIdle, refused>>
  BY <1>1 DEF ModeInit, Types, Crtcs
<1>4. Flags'
  BY <1>1, <1>2, <1>3 DEF Flags
<1>5. Types'
  BY <1>1, <1>2, <1>3 DEF Types
<1>6. Positions' /\ HandlersRight' /\ VtRight'
  BY <1>1, <1>2, <1>3 DEF Positions, HandlersRight, VtRight
<1>7. ConsoleKept' /\ RestoredSoFar'
  BY <1>1, <1>2, <1>3 DEF ConsoleKept, RestoredSoFar, Leaving, ScreenUnits
<1>8. VGAQuiet' /\ QuietRight' /\ MCRight'
  BY <1>1, <1>2, <1>3 DEF VGAQuiet, Entering, QuietRight, MCRight, ScreenUnits
<1>9. LockRight' /\ StreamRight' /\ GartRight'
  BY <1>1, <1>2, <1>3 DEF LockRight, Locked, StreamRight, Streaming, GartRight, Backup
<1>. QED BY <1>4, <1>5, <1>6, <1>7, <1>8, <1>9 DEF LifecycleInv

LEMMA InitFailsKeeps ==
  ASSUME LifecycleInv, InitFails
  PROVE  LifecycleInv'
<1>1. /\ Flags /\ Types /\ Positions /\ HandlersRight /\ VtRight /\ ConsoleKept
      /\ RestoredSoFar /\ VGAQuiet /\ QuietRight /\ MCRight /\ LockRight /\ StreamRight /\ GartRight
  BY DEF LifecycleInv
<1>2. /\ handler = "ScreenInit" /\ server = "closed"
      /\ UNCHANGED <<hasVGA, isPCIE, vtSema, vgaSetup, units, saved, reading, engineBusy,
                     csActive, csType, dri, cp, lock, gart, backup, notIdle, refused>>
  BY <1>1 DEF InitFails, HandlersRight
<1>3. \/ handler' = "none" /\ pc' = 0 /\ server' = "dead"
      \/ pc > 10 /\ handler' = "AbortDDX" /\ pc' = 1 /\ server' = server
  BY <1>1, <1>2 DEF InitFails, Fatal, VtRight
<1>4. Flags'
  BY <1>1, <1>2, <1>3 DEF Flags
<1>5. Types'
  BY <1>1, <1>2, <1>3 DEF Types
<1>6. Positions' /\ HandlersRight' /\ VtRight'
  BY <1>1, <1>2, <1>3 DEF Positions, HandlersRight, VtRight
<1>7. ConsoleKept' /\ RestoredSoFar'
  BY <1>1, <1>2, <1>3 DEF ConsoleKept, RestoredSoFar, Entering
<1>8. VGAQuiet' /\ QuietRight' /\ MCRight'
  BY <1>1, <1>2, <1>3 DEF VGAQuiet, Entering, Leaving, QuietRight, MCRight, Positions
<1>9. LockRight' /\ StreamRight' /\ GartRight'
  BY <1>1, <1>2, <1>3 DEF LockRight, Locked, StreamRight, Streaming, GartRight, Backup,
     Positions
<1>. QED BY <1>4, <1>5, <1>6, <1>7, <1>8, <1>9 DEF LifecycleInv

LEMMA ColormapKeeps ==
  ASSUME LifecycleInv, Colormap
  PROVE  LifecycleInv'
<1>1. /\ Flags /\ Types /\ Positions /\ HandlersRight /\ VtRight /\ ConsoleKept
      /\ RestoredSoFar /\ VGAQuiet /\ QuietRight /\ MCRight /\ LockRight /\ StreamRight /\ GartRight
  BY DEF LifecycleInv
<1>2. handler = "ScreenInit" /\ pc = 11
  BY <1>1, AtColormap DEF Colormap
<1>3. Flags'
  BY <1>1, <1>2 DEF Flags, Colormap
<1>4. Types'
  BY <1>1, <1>2 DEF Types, Colormap
<1>5. Positions' /\ HandlersRight' /\ VtRight'
  BY <1>1, <1>2 DEF Positions, HandlersRight, VtRight, Colormap
<1>6. ConsoleKept' /\ RestoredSoFar'
  BY <1>1, <1>2 DEF ConsoleKept, RestoredSoFar, Back, Colormap
<1>7. VGAQuiet' /\ QuietRight' /\ MCRight'
  BY <1>1, <1>2 DEF VGAQuiet, QuietRight, MCRight, Colormap
<1>8. LockRight' /\ StreamRight' /\ GartRight'
  BY <1>1, <1>2 DEF LockRight, Locked, StreamRight, Streaming, GartRight, Backup, Colormap
<1>. QED BY <1>3, <1>4, <1>5, <1>6, <1>7, <1>8 DEF LifecycleInv

LEMMA MCRestoreKeeps ==
  ASSUME LifecycleInv, MCRestore
  PROVE  LifecycleInv'
<1>1. /\ Flags /\ Types /\ Positions /\ HandlersRight /\ VtRight /\ ConsoleKept
      /\ RestoredSoFar /\ VGAQuiet /\ QuietRight /\ MCRight /\ LockRight /\ StreamRight /\ GartRight
  BY DEF LifecycleInv
<1>2. \/ handler = "LeaveVT" /\ pc = 5
      \/ handler = "AbortDDX" /\ pc = 5
      \/ handler = "CloseActive" /\ pc = 5
  BY <1>1, AtMCRestore DEF MCRestore
<1>3. /\ \/ units' = [units EXCEPT !["MC"] = saved["MC"]] /\ refused' = refused
         \/ units' = units /\ refused' = TRUE
      /\ pc' = pc + 1 /\ UNCHANGED <<hasVGA, isPCIE, server, handler, vtSema, vgaSetup, saved,
                                     reading, engineBusy, csActive, csType, dri, cp, lock,
                                     gart, backup, notIdle>>
  BY DEF MCRestore
<1>4. saved["MC"] = "console" \/ (refused /\ saved["MC"] = "driver")
  BY <1>1, <1>2 DEF ConsoleKept, ScreenUnits
<1>5. Flags'
  BY <1>1, <1>2, <1>3, <1>4 DEF Flags
<1>6. Types'
  BY <1>1, <1>2, <1>3, <1>4 DEF Types
<1>7. Positions' /\ HandlersRight' /\ VtRight'
  BY <1>1, <1>2, <1>3, <1>4 DEF Positions, HandlersRight, VtRight
<1>8. ConsoleKept'
  BY <1>1, <1>2, <1>3, <1>4 DEF ConsoleKept, ScreenUnits, Types
<1>9. RestoredSoFar'
  BY <1>1, <1>2, <1>3, <1>4 DEF RestoredSoFar, Back, ScreenUnits, Types
<1>10. VGAQuiet' /\ QuietRight' /\ MCRight'
  BY <1>1, <1>2, <1>3, <1>4 DEF VGAQuiet, Entering, QuietRight, MCRight
<1>11. LockRight' /\ StreamRight' /\ GartRight'
  BY <1>1, <1>2, <1>3, <1>4 DEF LockRight, Locked, StreamRight, Streaming, GartRight, Backup
<1>. QED BY <1>5, <1>6, <1>7, <1>8, <1>9, <1>10, <1>11 DEF LifecycleInv

LEMMA PLLsRestoreKeeps ==
  ASSUME LifecycleInv, PLLsRestore
  PROVE  LifecycleInv'
<1>1. /\ Flags /\ Types /\ Positions /\ HandlersRight /\ VtRight /\ ConsoleKept
      /\ RestoredSoFar /\ VGAQuiet /\ QuietRight /\ MCRight /\ LockRight /\ StreamRight /\ GartRight
  BY DEF LifecycleInv
<1>2. \/ handler = "LeaveVT" /\ pc = 6
      \/ handler = "AbortDDX" /\ pc = 6
      \/ handler = "CloseActive" /\ pc = 6
  BY <1>1, AtPLLsRestore DEF PLLsRestore, UnitRestore
<1>3. Flags'
  BY <1>1, <1>2 DEF Flags, PLLsRestore, UnitRestore
<1>4. Types'
  BY <1>1, <1>2 DEF Types, ScreenUnits, ConsoleKept, PLLsRestore, UnitRestore
<1>5. Positions' /\ HandlersRight' /\ VtRight'
  BY <1>1, <1>2 DEF Positions, HandlersRight, VtRight, PLLsRestore, UnitRestore
<1>6. ConsoleKept' /\ RestoredSoFar'
  BY <1>1, <1>2 DEF ConsoleKept, RestoredSoFar, Back, ScreenUnits, Types, PLLsRestore,
     UnitRestore
<1>7. VGAQuiet' /\ QuietRight' /\ MCRight'
  BY <1>1, <1>2 DEF VGAQuiet, QuietRight, MCRight, PLLsRestore, UnitRestore
<1>8. LockRight' /\ StreamRight' /\ GartRight'
  BY <1>1, <1>2 DEF LockRight, Locked, StreamRight, Streaming, GartRight, Backup, PLLsRestore,
     UnitRestore
<1>. QED BY <1>3, <1>4, <1>5, <1>6, <1>7, <1>8 DEF LifecycleInv

LEMMA VGARestoreKeeps ==
  ASSUME LifecycleInv, VGARestore
  PROVE  LifecycleInv'
<1>1. /\ Flags /\ Types /\ Positions /\ HandlersRight /\ VtRight /\ ConsoleKept
      /\ RestoredSoFar /\ VGAQuiet /\ QuietRight /\ MCRight /\ LockRight /\ StreamRight /\ GartRight
  BY DEF LifecycleInv
<1>2. \/ handler = "LeaveVT" /\ pc = 7
      \/ handler = "AbortDDX" /\ pc = 7
      \/ handler = "CloseActive" /\ pc = 7
  BY <1>1, AtVGARestore DEF VGARestore
<1>3. /\ \/ /\ hasVGA = TRUE /\ units' = [units EXCEPT !["VGA"] = saved["VGA"]]
            /\ reading' = reading \union {"VGA"} /\ vgaSetup' = FALSE
         \/ hasVGA = FALSE /\ units' = units /\ reading' = reading /\ vgaSetup' = vgaSetup
      /\ pc' = pc + 1 /\ UNCHANGED <<hasVGA, isPCIE, server, handler, vtSema, saved,
                                     engineBusy, csActive, csType, dri, cp, lock, gart,
                                     backup, notIdle, refused>>
  BY <1>1 DEF VGARestore
<1>4. hasVGA => saved["VGA"] = "console"
  BY <1>1, <1>2 DEF ConsoleKept, ScreenUnits
<1>5. /\ units' \in [ScreenUnits -> {"console", "driver"}] /\ reading' \subseteq Crtcs \union {"VGA"}
  <2>1. CASE hasVGA = TRUE
    BY <1>1, <1>3, <1>4, <2>1 DEF Types
  <2>2. CASE hasVGA = FALSE
    BY <1>1, <1>3, <2>2 DEF Types
  <2>. QED BY <1>1, <2>1, <2>2 DEF Flags
<1>6. Flags'
  BY <1>1, <1>2, <1>3, <1>4, <1>5 DEF Flags
<1>7. Types'
  BY <1>1, <1>2, <1>3, <1>4, <1>5 DEF Types
<1>8. Positions' /\ HandlersRight' /\ VtRight'
  BY <1>1, <1>2, <1>3, <1>4, <1>5 DEF Positions, HandlersRight, VtRight
<1>9. ConsoleKept' /\ RestoredSoFar'
  BY <1>1, <1>2, <1>3, <1>4, <1>5 DEF ConsoleKept, RestoredSoFar, Back, ScreenUnits
<1>10. VGAQuiet' /\ QuietRight' /\ MCRight'
  BY <1>1, <1>2, <1>3, <1>4, <1>5 DEF VGAQuiet, Entering, QuietRight, MCRight
<1>11. LockRight' /\ StreamRight' /\ GartRight'
  BY <1>1, <1>2, <1>3, <1>4, <1>5 DEF LockRight, Locked, StreamRight, Streaming, GartRight,
     Backup
<1>. QED BY <1>6, <1>7, <1>8, <1>9, <1>10, <1>11 DEF LifecycleInv

LEMMA CrtcsRestoreKeeps ==
  ASSUME LifecycleInv, CrtcsRestore
  PROVE  LifecycleInv'
<1>1. /\ Flags /\ Types /\ Positions /\ HandlersRight /\ VtRight /\ ConsoleKept
      /\ RestoredSoFar /\ VGAQuiet /\ QuietRight /\ MCRight /\ LockRight /\ StreamRight /\ GartRight
  BY DEF LifecycleInv
<1>2. \/ handler = "LeaveVT" /\ pc = 8
      \/ handler = "AbortDDX" /\ pc = 8
      \/ handler = "CloseActive" /\ pc = 8
  BY <1>1, AtCrtcsRestore DEF CrtcsRestore
<1>3. saved["CRTCs"] = "console"
  BY <1>1, <1>2 DEF ConsoleKept, ScreenUnits
<1>4. \/ /\ vgaSetup = FALSE /\ units' = [units EXCEPT !["CRTCs"] = "console"]
         /\ pc' = pc + 1 /\ server' = server /\ handler' = handler
      \/ /\ vgaSetup = TRUE /\ units' = units
         /\ \/ handler' = "AbortDDX" /\ pc' = 1 /\ server' = server /\ handler # "AbortDDX"
            \/ handler' = "none" /\ pc' = 0 /\ server' = "dead"
  BY <1>1, <1>3 DEF CrtcsRestore, Fatal
<1>5. /\ units' \in [ScreenUnits -> {"console", "driver"}]
      /\ reading' \subseteq Crtcs \union {"VGA"} /\ ("VGA" \in reading' <=> "VGA" \in reading)
      /\ UNCHANGED <<hasVGA, isPCIE, vtSema, vgaSetup, saved, engineBusy, csActive, csType,
                     dri, cp, lock, gart, backup, notIdle, refused>>
  BY <1>1, <1>4 DEF CrtcsRestore, Types, ScreenUnits, Crtcs
<1>6. Flags'
  BY <1>1, <1>2, <1>3, <1>4, <1>5 DEF Flags
<1>7. Types'
  BY <1>1, <1>2, <1>3, <1>4, <1>5 DEF Types
<1>8. Positions' /\ HandlersRight' /\ VtRight'
  BY <1>1, <1>2, <1>3, <1>4, <1>5 DEF Positions, HandlersRight, VtRight
<1>9. ConsoleKept' /\ RestoredSoFar'
  BY <1>1, <1>2, <1>3, <1>4, <1>5 DEF ConsoleKept, RestoredSoFar, Back, Entering, ScreenUnits
<1>10. VGAQuiet' /\ QuietRight' /\ MCRight'
  BY <1>1, <1>2, <1>3, <1>4, <1>5 DEF VGAQuiet, Entering, Leaving, QuietRight, MCRight
<1>11. LockRight' /\ StreamRight' /\ GartRight'
  BY <1>1, <1>2, <1>3, <1>4, <1>5 DEF LockRight, Locked, StreamRight, Streaming, GartRight,
     Backup, Types
<1>. QED BY <1>6, <1>7, <1>8, <1>9, <1>10, <1>11 DEF LifecycleInv

LEMMA OutputsRestoreKeeps ==
  ASSUME LifecycleInv, OutputsRestore
  PROVE  LifecycleInv'
<1>1. /\ Flags /\ Types /\ Positions /\ HandlersRight /\ VtRight /\ ConsoleKept
      /\ RestoredSoFar /\ VGAQuiet /\ QuietRight /\ MCRight /\ LockRight /\ StreamRight /\ GartRight
  BY DEF LifecycleInv
<1>2. \/ handler = "LeaveVT" /\ pc = 9
      \/ handler = "AbortDDX" /\ pc = 9
      \/ handler = "CloseActive" /\ pc = 9
  BY <1>1, AtOutputsRestore DEF OutputsRestore, UnitRestore
<1>3. Flags'
  BY <1>1, <1>2 DEF Flags, OutputsRestore, UnitRestore
<1>4. Types'
  BY <1>1, <1>2 DEF Types, ScreenUnits, ConsoleKept, OutputsRestore, UnitRestore
<1>5. Positions' /\ HandlersRight' /\ VtRight'
  BY <1>1, <1>2 DEF Positions, HandlersRight, VtRight, OutputsRestore, UnitRestore
<1>6. ConsoleKept' /\ RestoredSoFar'
  BY <1>1, <1>2 DEF ConsoleKept, RestoredSoFar, Back, ScreenUnits, Types, OutputsRestore,
     UnitRestore
<1>7. VGAQuiet' /\ QuietRight' /\ MCRight'
  BY <1>1, <1>2 DEF VGAQuiet, QuietRight, MCRight, OutputsRestore, UnitRestore
<1>8. LockRight' /\ StreamRight' /\ GartRight'
  BY <1>1, <1>2 DEF LockRight, Locked, StreamRight, Streaming, GartRight, Backup,
     OutputsRestore, UnitRestore
<1>. QED BY <1>3, <1>4, <1>5, <1>6, <1>7, <1>8 DEF LifecycleInv

LEMMA DRIScreenInitKeeps ==
  ASSUME LifecycleInv, DRIScreenInit
  PROVE  LifecycleInv'
<1>1. /\ Flags /\ Types /\ Positions /\ HandlersRight /\ VtRight /\ ConsoleKept
      /\ RestoredSoFar /\ VGAQuiet /\ QuietRight /\ MCRight /\ LockRight /\ StreamRight /\ GartRight
  BY DEF LifecycleInv
<1>2. handler = "ScreenInit" /\ pc = 5
  BY <1>1, AtDRIScreenInit DEF DRIScreenInit
<1>3. Flags'
  BY <1>1, <1>2 DEF Flags, DRIScreenInit, Closed
<1>4. Types'
  BY <1>1, <1>2 DEF Types, DRIScreenInit, Closed
<1>5. Positions' /\ HandlersRight' /\ VtRight'
  BY <1>1, <1>2 DEF Positions, HandlersRight, VtRight, DRIScreenInit, Closed
<1>6. ConsoleKept' /\ RestoredSoFar'
  BY <1>1, <1>2 DEF ConsoleKept, RestoredSoFar, Leaving, DRIScreenInit, Closed
<1>7. VGAQuiet' /\ QuietRight' /\ MCRight'
  BY <1>1, <1>2 DEF VGAQuiet, QuietRight, MCRight, DRIScreenInit, Closed
<1>8. LockRight' /\ StreamRight' /\ GartRight'
  BY <1>1, <1>2 DEF LockRight, Locked, StreamRight, Streaming, GartRight, Backup,
     HandlersRight, DRIScreenInit, Closed
<1>. QED BY <1>3, <1>4, <1>5, <1>6, <1>7, <1>8 DEF LifecycleInv

LEMMA DRIFinishKeeps ==
  ASSUME LifecycleInv, DRIFinish
  PROVE  LifecycleInv'
<1>1. /\ Flags /\ Types /\ Positions /\ HandlersRight /\ VtRight /\ ConsoleKept
      /\ RestoredSoFar /\ VGAQuiet /\ QuietRight /\ MCRight /\ LockRight /\ StreamRight /\ GartRight
  BY DEF LifecycleInv
<1>2. handler = "ScreenInit" /\ pc = 6
  BY <1>1, AtDRIFinish DEF DRIFinish
<1>3. Flags'
  BY <1>1, <1>2 DEF Flags, DRIFinish, Closed
<1>4. Types'
  BY <1>1, <1>2 DEF Types, DRIFinish, Closed
<1>5. Positions' /\ HandlersRight' /\ VtRight'
  BY <1>1, <1>2 DEF Positions, HandlersRight, VtRight, DRIFinish, Closed
<1>6. ConsoleKept' /\ RestoredSoFar'
  BY <1>1, <1>2 DEF ConsoleKept, RestoredSoFar, Leaving, DRIFinish, Closed
<1>7. VGAQuiet' /\ QuietRight' /\ MCRight'
  BY <1>1, <1>2 DEF VGAQuiet, QuietRight, MCRight, DRIFinish, Closed
<1>8. LockRight' /\ StreamRight' /\ GartRight'
  BY <1>1, <1>2 DEF LockRight, Locked, StreamRight, Streaming, GartRight, Backup,
     HandlersRight, DRIFinish, Closed
<1>. QED BY <1>3, <1>4, <1>5, <1>6, <1>7, <1>8 DEF LifecycleInv

LEMMA DRIKernelInitKeeps ==
  ASSUME LifecycleInv, DRIKernelInit
  PROVE  LifecycleInv'
<1>1. /\ Flags /\ Types /\ Positions /\ HandlersRight /\ VtRight /\ ConsoleKept
      /\ RestoredSoFar /\ VGAQuiet /\ QuietRight /\ MCRight /\ LockRight /\ StreamRight /\ GartRight
  BY DEF LifecycleInv
<1>2. handler = "ScreenInit" /\ pc = 7
  BY <1>1, AtDRIKernelInit DEF DRIKernelInit
<1>3. Flags'
  BY <1>1, <1>2 DEF Flags, DRIKernelInit, Closed
<1>4. Types'
  BY <1>1, <1>2 DEF Types, DRIKernelInit, Closed
<1>5. Positions' /\ HandlersRight' /\ VtRight'
  BY <1>1, <1>2 DEF Positions, HandlersRight, VtRight, DRIKernelInit, Closed
<1>6. ConsoleKept' /\ RestoredSoFar'
  BY <1>1, <1>2 DEF ConsoleKept, RestoredSoFar, Leaving, DRIKernelInit, Closed
<1>7. VGAQuiet' /\ QuietRight' /\ MCRight'
  BY <1>1, <1>2 DEF VGAQuiet, Leaving, QuietRight, MCRight, DRIKernelInit, Closed
<1>8. LockRight' /\ StreamRight' /\ GartRight'
  BY <1>1, <1>2 DEF LockRight, Locked, StreamRight, Streaming, GartRight, Backup,
     HandlersRight, DRIKernelInit, Closed
<1>. QED BY <1>3, <1>4, <1>5, <1>6, <1>7, <1>8 DEF LifecycleInv

LEMMA DRIBufInitKeeps ==
  ASSUME LifecycleInv, DRIBufInit
  PROVE  LifecycleInv'
<1>1. /\ Flags /\ Types /\ Positions /\ HandlersRight /\ VtRight /\ ConsoleKept
      /\ RestoredSoFar /\ VGAQuiet /\ QuietRight /\ MCRight /\ LockRight /\ StreamRight /\ GartRight
  BY DEF LifecycleInv
<1>2. handler = "ScreenInit" /\ pc = 8
  BY <1>1, AtDRIBufInit DEF DRIBufInit
<1>3. Flags'
  BY <1>1, <1>2 DEF Flags, DRIBufInit, Closed
<1>4. Types'
  BY <1>1, <1>2 DEF Types, DRIBufInit, Closed
<1>5. Positions' /\ HandlersRight' /\ VtRight'
  BY <1>1, <1>2 DEF Positions, HandlersRight, VtRight, DRIBufInit, Closed
<1>6. ConsoleKept' /\ RestoredSoFar'
  BY <1>1, <1>2 DEF ConsoleKept, RestoredSoFar, Leaving, DRIBufInit, Closed
<1>7. VGAQuiet' /\ QuietRight' /\ MCRight'
  BY <1>1, <1>2 DEF VGAQuiet, QuietRight, MCRight, DRIBufInit, Closed
<1>8. LockRight' /\ StreamRight' /\ GartRight'
  BY <1>1, <1>2 DEF LockRight, Locked, StreamRight, Streaming, GartRight, Backup,
     HandlersRight, DRIBufInit, Closed
<1>. QED BY <1>3, <1>4, <1>5, <1>6, <1>7, <1>8 DEF LifecycleInv

LEMMA DRILeaveVTKeeps ==
  ASSUME LifecycleInv, DRILeaveVT
  PROVE  LifecycleInv'
<1>1. /\ Flags /\ Types /\ Positions /\ HandlersRight /\ VtRight /\ ConsoleKept
      /\ RestoredSoFar /\ VGAQuiet /\ QuietRight /\ MCRight /\ LockRight /\ StreamRight /\ GartRight
  BY DEF LifecycleInv
<1>2. \/ handler = "LeaveVT" /\ pc = 1
      \/ handler = "AbortDDX" /\ pc = 1
  BY <1>1, AtDRILeaveVT DEF DRILeaveVT
<1>3. Flags'
  BY <1>1, <1>2 DEF Flags, DRILeaveVT, BackedUp
<1>4. Types'
  BY <1>1, <1>2 DEF Types, LockRight, Locked, DRILeaveVT, BackedUp
<1>5. Positions' /\ HandlersRight' /\ VtRight'
  BY <1>1, <1>2 DEF Positions, HandlersRight, VtRight, DRILeaveVT, BackedUp
<1>6. ConsoleKept' /\ RestoredSoFar'
  BY <1>1, <1>2 DEF ConsoleKept, RestoredSoFar, DRILeaveVT, BackedUp
<1>7. VGAQuiet' /\ QuietRight' /\ MCRight'
  BY <1>1, <1>2 DEF VGAQuiet, QuietRight, MCRight, DRILeaveVT, BackedUp
<1>8. LockRight' /\ StreamRight' /\ GartRight'
  BY <1>1, <1>2 DEF LockRight, Locked, StreamRight, Streaming, GartRight, Backup, Types,
     DRILeaveVT, BackedUp
<1>. QED BY <1>3, <1>4, <1>5, <1>6, <1>7, <1>8 DEF LifecycleInv

LEMMA DRIEnterVTKeeps ==
  ASSUME LifecycleInv, DRIEnterVT
  PROVE  LifecycleInv'
<1>1. /\ Flags /\ Types /\ Positions /\ HandlersRight /\ VtRight /\ ConsoleKept
      /\ RestoredSoFar /\ VGAQuiet /\ QuietRight /\ MCRight /\ LockRight /\ StreamRight /\ GartRight
  BY DEF LifecycleInv
<1>2. handler = "EnterVT" /\ pc = 6
  BY <1>1, AtDRIEnterVT DEF DRIEnterVT
<1>3. Flags'
  BY <1>1, <1>2 DEF Flags, DRIEnterVT, PutBack
<1>4. Types'
  BY <1>1, <1>2 DEF Types, DRIEnterVT, PutBack
<1>5. Positions' /\ HandlersRight' /\ VtRight'
  BY <1>1, <1>2 DEF Positions, HandlersRight, VtRight, DRIEnterVT, PutBack
<1>6. ConsoleKept' /\ RestoredSoFar'
  BY <1>1, <1>2 DEF ConsoleKept, RestoredSoFar, Leaving, DRIEnterVT, PutBack
<1>7. VGAQuiet' /\ QuietRight' /\ MCRight'
  BY <1>1, <1>2 DEF VGAQuiet, QuietRight, MCRight, DRIEnterVT, PutBack
<1>8. LockRight' /\ StreamRight' /\ GartRight'
  BY <1>1, <1>2 DEF LockRight, Locked, StreamRight, Streaming, GartRight, Backup, DRIEnterVT,
     PutBack
<1>. QED BY <1>3, <1>4, <1>5, <1>6, <1>7, <1>8 DEF LifecycleInv

LEMMA UnlockKeeps ==
  ASSUME LifecycleInv, Unlock
  PROVE  LifecycleInv'
<1>1. /\ Flags /\ Types /\ Positions /\ HandlersRight /\ VtRight /\ ConsoleKept
      /\ RestoredSoFar /\ VGAQuiet /\ QuietRight /\ MCRight /\ LockRight /\ StreamRight /\ GartRight
  BY DEF LifecycleInv
<1>2. handler = "EnterVT" /\ pc = 8
  BY <1>1, AtUnlock DEF Unlock
<1>3. Flags'
  BY <1>1, <1>2 DEF Flags, Unlock, Unlocked
<1>4. Types'
  BY <1>1, <1>2 DEF Types, LockRight, Locked, Unlock, Unlocked
<1>5. Positions' /\ HandlersRight' /\ VtRight'
  BY <1>1, <1>2 DEF Positions, HandlersRight, VtRight, Unlock, Unlocked
<1>6. ConsoleKept' /\ RestoredSoFar'
  BY <1>1, <1>2 DEF ConsoleKept, RestoredSoFar, Leaving, Unlock, Unlocked
<1>7. VGAQuiet' /\ QuietRight' /\ MCRight'
  BY <1>1, <1>2 DEF VGAQuiet, QuietRight, MCRight, Unlock, Unlocked
<1>8. LockRight' /\ StreamRight' /\ GartRight'
  BY <1>1, <1>2 DEF LockRight, Locked, StreamRight, Streaming, GartRight, Backup, Types,
     Unlock, Unlocked
<1>. QED BY <1>3, <1>4, <1>5, <1>6, <1>7, <1>8 DEF LifecycleInv

LEMMA DRICloseKeeps ==
  ASSUME LifecycleInv, DRIClose
  PROVE  LifecycleInv'
<1>1. /\ Flags /\ Types /\ Positions /\ HandlersRight /\ VtRight /\ ConsoleKept
      /\ RestoredSoFar /\ VGAQuiet /\ QuietRight /\ MCRight /\ LockRight /\ StreamRight /\ GartRight
  BY DEF LifecycleInv
<1>2. \/ handler = "CloseActive" /\ pc = 4
      \/ handler = "CloseAway" /\ pc = 2
  BY <1>1, AtDRIClose DEF DRIClose
<1>3. Flags'
  BY <1>1, <1>2 DEF Flags, DRIClose, Closed
<1>4. Types'
  BY <1>1, <1>2 DEF Types, DRIClose, Closed
<1>5. Positions' /\ HandlersRight' /\ VtRight'
  BY <1>1, <1>2 DEF Positions, HandlersRight, VtRight, DRIClose, Closed
<1>6. ConsoleKept' /\ RestoredSoFar'
  BY <1>1, <1>2 DEF ConsoleKept, RestoredSoFar, Back, DRIClose, Closed
<1>7. VGAQuiet' /\ QuietRight' /\ MCRight'
  BY <1>1, <1>2 DEF VGAQuiet, Entering, QuietRight, Quiet, MCRight, DRIClose, Closed
<1>8. LockRight' /\ StreamRight' /\ GartRight'
  BY <1>1, <1>2 DEF LockRight, Locked, StreamRight, Streaming, GartRight, Backup, DRIClose,
     Closed
<1>. QED BY <1>3, <1>4, <1>5, <1>6, <1>7, <1>8 DEF LifecycleInv

LEMMA CSStartKeeps ==
  ASSUME LifecycleInv, CSStart
  PROVE  LifecycleInv'
<1>1. /\ Flags /\ Types /\ Positions /\ HandlersRight /\ VtRight /\ ConsoleKept
      /\ RestoredSoFar /\ VGAQuiet /\ QuietRight /\ MCRight /\ LockRight /\ StreamRight /\ GartRight
  BY DEF LifecycleInv
<1>2. handler = "EnterVT" /\ pc = 7
  BY <1>1, AtCSStart DEF CSStart
<1>3. Flags'
  BY <1>1, <1>2 DEF Flags, CSStart, CpStarted
<1>4. Types'
  BY <1>1, <1>2 DEF Types, CSStart, CpStarted
<1>5. Positions' /\ HandlersRight' /\ VtRight'
  BY <1>1, <1>2 DEF Positions, HandlersRight, VtRight, CSStart, CpStarted
<1>6. ConsoleKept' /\ RestoredSoFar'
  BY <1>1, <1>2 DEF ConsoleKept, RestoredSoFar, Leaving, CSStart, CpStarted
<1>7. VGAQuiet' /\ QuietRight' /\ MCRight'
  BY <1>1, <1>2 DEF VGAQuiet, Leaving, QuietRight, MCRight, CSStart, CpStarted
<1>8. LockRight' /\ StreamRight' /\ GartRight'
  BY <1>1, <1>2 DEF LockRight, Locked, StreamRight, Streaming, GartRight, Backup,
     HandlersRight, CSStart, CpStarted
<1>. QED BY <1>3, <1>4, <1>5, <1>6, <1>7, <1>8 DEF LifecycleInv

LEMMA CSInitKeeps ==
  ASSUME LifecycleInv, CSInit
  PROVE  LifecycleInv'
<1>1. /\ Flags /\ Types /\ Positions /\ HandlersRight /\ VtRight /\ ConsoleKept
      /\ RestoredSoFar /\ VGAQuiet /\ QuietRight /\ MCRight /\ LockRight /\ StreamRight /\ GartRight
  BY DEF LifecycleInv
<1>2. handler = "ScreenInit" /\ pc = 9
  BY <1>1, AtCSInit DEF CSInit
<1>3. Flags'
  BY <1>1, <1>2 DEF Flags, CSInit
<1>4. Types'
  BY <1>1, <1>2 DEF Types, CSInit
<1>5. Positions' /\ HandlersRight' /\ VtRight'
  BY <1>1, <1>2 DEF Positions, HandlersRight, VtRight, CSInit
<1>6. ConsoleKept' /\ RestoredSoFar'
  BY <1>1, <1>2 DEF ConsoleKept, RestoredSoFar, Leaving, CSInit
<1>7. VGAQuiet' /\ QuietRight' /\ MCRight'
  BY <1>1, <1>2 DEF VGAQuiet, QuietRight, MCRight, CSInit
<1>8. LockRight' /\ StreamRight' /\ GartRight'
  BY <1>1, <1>2 DEF LockRight, Locked, StreamRight, Streaming, GartRight, Backup, CSInit
<1>. QED BY <1>3, <1>4, <1>5, <1>6, <1>7, <1>8 DEF LifecycleInv

LEMMA CSStopKeeps ==
  ASSUME LifecycleInv, CSStop
  PROVE  LifecycleInv'
<1>1. /\ Flags /\ Types /\ Positions /\ HandlersRight /\ VtRight /\ ConsoleKept
      /\ RestoredSoFar /\ VGAQuiet /\ QuietRight /\ MCRight /\ LockRight /\ StreamRight /\ GartRight
  BY DEF LifecycleInv
<1>2. \/ handler = "LeaveVT" /\ pc = 3
      \/ handler = "AbortDDX" /\ pc = 3
      \/ handler = "CloseActive" /\ pc = 2
      \/ handler = "CloseAway" /\ pc = 1
  BY <1>1, AtCSStop DEF CSStop
<1>3. /\ csActive' = FALSE /\ cp' \in {"stopped", cp} /\ pc' = pc + 1
      /\ ~csActive \/ csType # "DRM" => cp' = cp
      /\ UNCHANGED <<hasVGA, isPCIE, server, handler, vtSema, vgaSetup, units, saved, reading,
                     engineBusy, csType, dri, lock, gart, backup, notIdle, refused>>
  BY DEF CSStop
<1>4. Flags'
  BY <1>1, <1>2, <1>3 DEF Flags
<1>5. Types'
  BY <1>1, <1>2, <1>3 DEF Types
<1>6. Positions' /\ HandlersRight' /\ VtRight'
  BY <1>1, <1>2, <1>3 DEF Positions, HandlersRight, VtRight
<1>7. ConsoleKept' /\ RestoredSoFar'
  BY <1>1, <1>2, <1>3 DEF ConsoleKept, RestoredSoFar, Back
<1>8. VGAQuiet' /\ QuietRight' /\ MCRight'
  BY <1>1, <1>2, <1>3 DEF VGAQuiet, Entering, QuietRight, MCRight
<1>9. LockRight'
  BY <1>1, <1>2, <1>3 DEF LockRight, Locked
<1>10. StreamRight'
  BY <1>1, <1>2, <1>3 DEF StreamRight, Streaming
<1>11. GartRight'
  BY <1>1, <1>2, <1>3 DEF GartRight, Backup
<1>. QED BY <1>4, <1>5, <1>6, <1>7, <1>8, <1>9, <1>10, <1>11 DEF LifecycleInv

LEMMA EngineIdleKeeps ==
  ASSUME LifecycleInv, EngineIdle
  PROVE  LifecycleInv'
<1>1. /\ Flags /\ Types /\ Positions /\ HandlersRight /\ VtRight /\ ConsoleKept
      /\ RestoredSoFar /\ VGAQuiet /\ QuietRight /\ MCRight /\ LockRight /\ StreamRight /\ GartRight
  BY DEF LifecycleInv
<1>2. \/ handler = "LeaveVT" /\ pc = 2
      \/ handler = "AbortDDX" /\ pc = 2
      \/ handler = "SwitchMode" /\ pc = 1
      \/ handler = "CloseActive" /\ pc = 1
  BY <1>1, AtEngineIdle DEF EngineIdle
<1>3. Flags'
  BY <1>1, <1>2 DEF Flags, EngineIdle
<1>4. Types'
  BY <1>1, <1>2 DEF Types, EngineIdle
<1>5. Positions' /\ HandlersRight' /\ VtRight'
  BY <1>1, <1>2 DEF Positions, HandlersRight, VtRight, EngineIdle
<1>6. ConsoleKept' /\ RestoredSoFar'
  BY <1>1, <1>2 DEF ConsoleKept, RestoredSoFar, EngineIdle
<1>7. VGAQuiet' /\ QuietRight' /\ MCRight'
  BY <1>1, <1>2 DEF VGAQuiet, Leaving, QuietRight, MCRight, EngineIdle
<1>8. LockRight' /\ StreamRight' /\ GartRight'
  BY <1>1, <1>2 DEF LockRight, Locked, StreamRight, Streaming, GartRight, Backup, Types,
     EngineIdle
<1>. QED BY <1>3, <1>4, <1>5, <1>6, <1>7, <1>8 DEF LifecycleInv

LEMMA DrawKeeps ==
  ASSUME LifecycleInv, Draw
  PROVE  LifecycleInv'
<1>1. /\ Flags /\ Types /\ Positions /\ HandlersRight /\ VtRight /\ ConsoleKept
      /\ RestoredSoFar /\ VGAQuiet /\ QuietRight /\ MCRight /\ LockRight /\ StreamRight /\ GartRight
  BY DEF LifecycleInv
<1>3. Flags'
  BY <1>1 DEF Flags, Draw
<1>4. Types'
  BY <1>1 DEF Types, Draw
<1>5. Positions' /\ HandlersRight' /\ VtRight'
  BY <1>1 DEF Positions, HandlersRight, VtRight, Draw
<1>6. ConsoleKept' /\ RestoredSoFar'
  BY <1>1 DEF ConsoleKept, RestoredSoFar, Back, Draw
<1>7. VGAQuiet' /\ QuietRight' /\ MCRight'
  BY <1>1 DEF VGAQuiet, Entering, Leaving, QuietRight, MCRight, Draw
<1>8. LockRight' /\ StreamRight' /\ GartRight'
  BY <1>1 DEF LockRight, Locked, StreamRight, Streaming, GartRight, Backup, Draw
<1>. QED BY <1>3, <1>4, <1>5, <1>6, <1>7, <1>8 DEF LifecycleInv

LEMMA EngineFinishesKeeps ==
  ASSUME LifecycleInv, EngineFinishes
  PROVE  LifecycleInv'
<1>1. /\ Flags /\ Types /\ Positions /\ HandlersRight /\ VtRight /\ ConsoleKept
      /\ RestoredSoFar /\ VGAQuiet /\ QuietRight /\ MCRight /\ LockRight /\ StreamRight /\ GartRight
  BY DEF LifecycleInv
<1>3. Flags'
  BY <1>1 DEF Flags, EngineFinishes
<1>4. Types'
  BY <1>1 DEF Types, EngineFinishes
<1>5. Positions' /\ HandlersRight' /\ VtRight'
  BY <1>1 DEF Positions, HandlersRight, VtRight, EngineFinishes
<1>6. ConsoleKept' /\ RestoredSoFar'
  BY <1>1 DEF ConsoleKept, RestoredSoFar, Back, EngineFinishes
<1>7. VGAQuiet' /\ QuietRight' /\ MCRight'
  BY <1>1 DEF VGAQuiet, QuietRight, Quiet, MCRight, EngineFinishes
<1>8. LockRight' /\ StreamRight' /\ GartRight'
  BY <1>1 DEF LockRight, Locked, StreamRight, Streaming, GartRight, Backup, EngineFinishes
<1>. QED BY <1>3, <1>4, <1>5, <1>6, <1>7, <1>8 DEF LifecycleInv

LEMMA LoseMemoryKeeps ==
  ASSUME LifecycleInv, LoseMemory
  PROVE  LifecycleInv'
<1>1. /\ Flags /\ Types /\ Positions /\ HandlersRight /\ VtRight /\ ConsoleKept
      /\ RestoredSoFar /\ VGAQuiet /\ QuietRight /\ MCRight /\ LockRight /\ StreamRight /\ GartRight
  BY DEF LifecycleInv
<1>3. Flags'
  BY <1>1 DEF Flags, LoseMemory
<1>4. Types'
  BY <1>1 DEF Types, LoseMemory
<1>5. Positions' /\ HandlersRight' /\ VtRight'
  BY <1>1 DEF Positions, HandlersRight, VtRight, LoseMemory
<1>6. ConsoleKept' /\ RestoredSoFar'
  BY <1>1 DEF ConsoleKept, RestoredSoFar, Back, LoseMemory
<1>7. VGAQuiet' /\ QuietRight' /\ MCRight'
  BY <1>1 DEF VGAQuiet, QuietRight, Quiet, MCRight, LoseMemory
<1>8. LockRight' /\ StreamRight' /\ GartRight'
  BY <1>1 DEF LockRight, Locked, StreamRight, Streaming, GartRight, Backup, LoseMemory
<1>. QED BY <1>3, <1>4, <1>5, <1>6, <1>7, <1>8 DEF LifecycleInv

\* The server starts: the console is there, and nothing of the driver is.
LEMMA LifecycleInitRight == LifecycleInit => LifecycleInv
<1>. SUFFICES ASSUME LifecycleInit PROVE LifecycleInv
  OBVIOUS
<1>1. Flags /\ Positions
  BY DEF LifecycleInit, Flags, Positions
<1>5. Types
  BY DEF LifecycleInit, Types, ConsoleReads, Crtcs
<1>2. HandlersRight /\ VtRight /\ ConsoleKept /\ RestoredSoFar
  BY DEF LifecycleInit, HandlersRight, VtRight, ConsoleKept, RestoredSoFar, Back, ScreenUnits
<1>3. VGAQuiet /\ QuietRight /\ MCRight
  BY DEF LifecycleInit, VGAQuiet, QuietRight, MCRight, Leaving, ConsoleReads
<1>4. LockRight /\ StreamRight /\ GartRight
  BY DEF LifecycleInit, LockRight, StreamRight, GartRight, Streaming
<1>. QED BY <1>1, <1>2, <1>3, <1>4, <1>5 DEF LifecycleInv

\* What no variable of changes keeps LifecycleInv.
\* Steps of nobody.
LEMMA LifecycleStutter ==
  ASSUME LifecycleInv, UNCHANGED lifecycleVars
  PROVE  LifecycleInv'
<1>1. UNCHANGED <<hasVGA, isPCIE, server, handler, pc, vtSema, vgaSetup, units, saved,
                  reading, engineBusy, csActive, csType, dri, cp, lock, gart, backup, notIdle,
                  refused>>
  BY DEF lifecycleVars
<1>2. Flags' /\ Types' /\ Positions'
  BY <1>1 DEF LifecycleInv, Flags, Types, Positions
<1>3. HandlersRight' /\ VtRight' /\ ConsoleKept' /\ RestoredSoFar'
  BY <1>1 DEF LifecycleInv, HandlersRight, VtRight, ConsoleKept, RestoredSoFar, Back
<1>4. VGAQuiet' /\ QuietRight' /\ MCRight'
  BY <1>1 DEF LifecycleInv, VGAQuiet, QuietRight, MCRight, Quiet
<1>5. LockRight' /\ StreamRight' /\ GartRight'
  BY <1>1 DEF LifecycleInv, LockRight, StreamRight, GartRight, Locked, Streaming, Backup
<1>. QED BY <1>2, <1>3, <1>4, <1>5 DEF LifecycleInv

\* Each routine keeps LifecycleInv.
LEMMA LifecycleStep == LifecycleInv /\ [LifecycleNext]_lifecycleVars => LifecycleInv'
<1>. SUFFICES ASSUME LifecycleInv, [LifecycleNext]_lifecycleVars PROVE LifecycleInv'
  OBVIOUS
<1>1. CASE ScreenInit
  BY <1>1, ScreenInitKeeps
<1>2. CASE EnterScreen
  BY <1>2, EnterScreenKeeps
<1>3. CASE LeaveScreen
  BY <1>3, LeaveScreenKeeps
<1>4. CASE SwitchMode
  BY <1>4, SwitchModeKeeps
<1>5. CASE CloseScreen
  BY <1>5, CloseScreenKeeps
<1>6. CASE Return
  BY <1>6, ReturnKeeps
<1>7. CASE Save
  BY <1>7, SaveKeeps
<1>8. CASE VGADisable
  BY <1>8, VGADisableKeeps
<1>9. CASE AllIdle
  BY <1>9, AllIdleKeeps
<1>10. CASE AllIdleFails
  BY <1>10, AllIdleFailsKeeps
<1>11. CASE MCSetup
  BY <1>11, MCSetupKeeps
<1>12. CASE ModeInit
  BY <1>12, ModeInitKeeps
<1>13. CASE InitFails
  BY <1>13, InitFailsKeeps
<1>14. CASE Colormap
  BY <1>14, ColormapKeeps
<1>15. CASE MCRestore
  BY <1>15, MCRestoreKeeps
<1>16. CASE PLLsRestore
  BY <1>16, PLLsRestoreKeeps
<1>17. CASE VGARestore
  BY <1>17, VGARestoreKeeps
<1>18. CASE CrtcsRestore
  BY <1>18, CrtcsRestoreKeeps
<1>19. CASE OutputsRestore
  BY <1>19, OutputsRestoreKeeps
<1>20. CASE DRIScreenInit
  BY <1>20, DRIScreenInitKeeps
<1>21. CASE DRIFinish
  BY <1>21, DRIFinishKeeps
<1>22. CASE DRIKernelInit
  BY <1>22, DRIKernelInitKeeps
<1>23. CASE DRIBufInit
  BY <1>23, DRIBufInitKeeps
<1>24. CASE DRILeaveVT
  BY <1>24, DRILeaveVTKeeps
<1>25. CASE DRIEnterVT
  BY <1>25, DRIEnterVTKeeps
<1>26. CASE Unlock
  BY <1>26, UnlockKeeps
<1>27. CASE DRIClose
  BY <1>27, DRICloseKeeps
<1>28. CASE CSStart
  BY <1>28, CSStartKeeps
<1>29. CASE CSInit
  BY <1>29, CSInitKeeps
<1>30. CASE CSStop
  BY <1>30, CSStopKeeps
<1>31. CASE EngineIdle
  BY <1>31, EngineIdleKeeps
<1>32. CASE Draw
  BY <1>32, DrawKeeps
<1>33. CASE EngineFinishes
  BY <1>33, EngineFinishesKeeps
<1>34. CASE LoseMemory
  BY <1>34, LoseMemoryKeeps
<1>35. CASE UNCHANGED lifecycleVars
  BY <1>35, LifecycleStutter
<1>. QED BY <1>1, <1>2, <1>3, <1>4, <1>5, <1>6, <1>7, <1>8, <1>9, <1>10, <1>11, <1>12, <1>13,
   <1>14, <1>15, <1>16, <1>17, <1>18, <1>19, <1>20, <1>21, <1>22, <1>23, <1>24, <1>25, <1>26,
   <1>27, <1>28, <1>29, <1>30, <1>31, <1>32, <1>33, <1>34, <1>35 DEF LifecycleNext

\* LifecycleInv is invariant.
LEMMA LifecycleInvariant == LifecycleSpec => []LifecycleInv
<1>1. LifecycleInit => LifecycleInv
  BY LifecycleInitRight
<1>2. LifecycleInv /\ [LifecycleNext]_lifecycleVars => LifecycleInv'
  BY LifecycleStep
<1>. QED BY <1>1, <1>2, PTL DEF LifecycleSpec

\* Type correctness of the screen's life: a handler is always at one of its calls.
THEOREM LifecycleType == LifecycleSpec => []LifecycleTypeOK
<1>1. LifecycleInv => LifecycleTypeOK
  BY TypeIs DEF LifecycleInv
<1>. QED BY <1>1, LifecycleInvariant, PTL

\* Whoever leaves the driver's screen, by VT switch, at the end of the server or in
\* its death, finds the console's values in all units but a memory controller
\* RHDMCRestore could not move.
THEOREM ConsoleComesBack == LifecycleSpec => []ConsoleBack
<1>1. LifecycleInv => ConsoleBack
  BY DEF LifecycleInv, ConsoleBack, ConsoleKept, Back
<1>. QED BY <1>1, LifecycleInvariant, PTL

\* Between two handlers the memory controller is where X draws and the hardware
\* lock is held as often as the server will give it back.
THEOREM ScreenRestsInPlace == LifecycleSpec => []RestsInPlace
<1>1. ASSUME LifecycleInv PROVE RestsInPlace
  BY <1>1 DEF LifecycleInv, RestsInPlace, MCRight, LockRight, Locked
<1>. QED BY <1>1, LifecycleInvariant, PTL

\* The CP has its GART table, as long as there is a copy to restore it from, and
\* only a dying server waits for the engine without a command stream.
THEOREM CommandsCanAlwaysRun == LifecycleSpec => []CommandsCanRun
<1>1. ASSUME LifecycleInv PROVE CommandsCanRun
  <2>1. GartTableKept \/ backup = "none"
    BY <1>1 DEF LifecycleInv, Types, GartTableKept, GartRight, StreamRight, Backup
  <2>2. ASSUME At("EngineIdle") PROVE csActive \/ handler = "AbortDDX"
    BY <1>1, <2>2, AtEngineIdle DEF LifecycleInv, HandlersRight, StreamRight
  <2>. QED BY <2>1, <2>2 DEF CommandsCanRun
<1>. QED BY <1>1, LifecycleInvariant, PTL

\* The memory controller is moved when nobody can read, unless a handler goes on
\* after rhdAllIdle has failed.
THEOREM MovedQuietly == LifecycleSpec => MCMovedQuietly
<1>. DEFINE Quietly == units'["MC"] # units["MC"] => (reading = {} /\ ~engineBusy) \/ notIdle
<1>1. ASSUME LifecycleInv, [LifecycleNext]_lifecycleVars PROVE Quietly
  <2>1. CASE MCSetup
    BY <1>1, <2>1, AtMCSetup DEF LifecycleInv, MCSetup, QuietRight, Quiet, Entering
  <2>2. CASE MCRestore
    BY <1>1, <2>2, AtMCRestore DEF LifecycleInv, MCRestore, QuietRight, Quiet, Leaving
  <2>3. CASE VGADisable \/ VGARestore \/ CrtcsRestore \/ PLLsRestore \/ OutputsRestore \/ ModeInit
    BY <1>1, <2>3 DEF LifecycleInv, Types, ScreenUnits, VGADisable, VGARestore, CrtcsRestore,
       PLLsRestore, OutputsRestore, UnitRestore, ModeInit
  <2>4. CASE ~(\/ MCSetup \/ MCRestore \/ VGADisable \/ VGARestore \/ CrtcsRestore
               \/ PLLsRestore \/ OutputsRestore \/ ModeInit)
    <3>1. UNCHANGED units
      BY <1>1, <2>4 DEF LifecycleNext, ScreenInit, EnterScreen, LeaveScreen, SwitchMode,
         CloseScreen, Return, Save, AllIdle, AllIdleFails, InitFails, Colormap, DRIScreenInit,
         DRIFinish, DRIKernelInit, DRIBufInit, DRILeaveVT, DRIEnterVT, Unlock, DRIClose,
         CSStart, CSInit, CSStop, EngineIdle, Draw, EngineFinishes, LoseMemory, lifecycleVars
    <3>. QED BY <3>1
  <2>. QED BY <2>1, <2>2, <2>3, <2>4
<1>2. LifecycleSpec => [][Quietly]_lifecycleVars
  BY <1>1, LifecycleInvariant, PTL DEF LifecycleSpec
<1>. QED BY <1>2 DEF MCMovedQuietly
=============================================================================
