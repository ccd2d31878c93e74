---------------------------- MODULE AtomInterpreter ----------------------------
(***************************************************************************)
(* The interpreter of the video BIOS's command tables: ParseTable of        *)
(* AtomBios/Decoder.c, the commands of AtomBios/CD_Operations.c, the        *)
(* services of hwserv_drv.c and the callbacks of rhd_atombios.c.  A table   *)
(* is a map from offsets to commands; the parser keeps a chain of working   *)
(* tables, moves its caller's parameter space along with each call, and     *)
(* reads and writes fields of 32 bit words wherever a command points.       *)
(***************************************************************************)
EXTENDS Integers, Sequences, FiniteSetsExt

CONSTANTS
  ByteBits,         \* the bits of a byte: 8
  Images,           \* the BIOS images the driver may meet, by name
  CardStates,       \* what the registers and the frame buffer may hold at first
  Volatile,         \* the registers the card changes by itself
  ParameterSpaces,  \* what the driver may hand to a table
  Garbage,          \* what a word that nobody has written may hold
  FirstFlags,       \* and CompareFlags
  MaxExecs          \* how many tables the driver executes

ASSUME ByteAssumption == ByteBits \in Nat \ {0}
-----------------------------------------------------------------------------
\* A word of four bytes is the set of its bits that are set.
Bits == 0 .. 4 * ByteBits - 1
Word == SUBSET Bits

Shl(w, n) == {b \in Bits : b - n \in w}
Shr(w, n) == {b \in Bits : b + n \in w}
Not(w) == Bits \ w
Number(w) == MapThenSumSet(LAMBDA b : 2 ^ b, w)
WordOf(n) == {b \in Bits : (n \div 2 ^ b) % 2 = 1}

\* ALIGNMENT_TYPE, and the three tables that are indexed by it.
Alignments ==
  {"Dword", "LowerWord", "MiddleWord", "UpperWord", "Byte0", "Byte1", "Byte2", "Byte3"}
Width(a) ==
  CASE a = "Dword" -> 4 * ByteBits
    [] a \in {"LowerWord", "MiddleWord", "UpperWord"} -> 2 * ByteBits
    [] OTHER -> ByteBits
AlignmentMask(a) == 0 .. Width(a) - 1
SourceAlignmentShift(a) ==
  CASE a \in {"MiddleWord", "Byte1"} -> ByteBits
    [] a \in {"UpperWord", "Byte2"} -> 2 * ByteBits
    [] a = "Byte3" -> 3 * ByteBits
    [] OTHER -> 0
DestinationAlignmentShift(d) == d * ByteBits

\* GetParametersDirect...: an immediate is as wide as the alignment says, and
\* from then on the source counts as aligned to the bottom.
Immediate(a) ==
  CASE a = "Dword" -> "Dword"
    [] a \in {"LowerWord", "MiddleWord", "UpperWord"} -> "LowerWord"
    [] OTHER -> "Byte0"
-----------------------------------------------------------------------------
\* What a command does to the destination D, given the source S.

CommonSource(S, a, d) ==
  Shl(Shr(S, SourceAlignmentShift(a)) \intersect AlignmentMask(a), DestinationAlignmentShift(d))

\* The field of the destination that a command addresses.
Field(a, d) == Shl(AlignmentMask(a), DestinationAlignmentShift(d))
SourceField(a) == Shl(AlignmentMask(a), SourceAlignmentShift(a))

\* MUTANT of ProcessMove: the rest of the destination is not kept.
MoveAll(D, S, a, d) == CommonSource(S, a, d)

ProcessMove(D, S, a, d) ==
  IF a = "Dword" THEN S ELSE (D \ Field(a, d)) \union CommonSource(S, a, d)
ProcessAnd(D, S, a, d) ==
  D \intersect (Shl(Shr(S, SourceAlignmentShift(a)), DestinationAlignmentShift(d)) \union Not(Field(a, d)))
ProcessOr(D, S, a, d) == D \union CommonSource(S, a, d)
ProcessXor(D, S, a, d) ==
  (D \ CommonSource(S, a, d)) \union (CommonSource(S, a, d) \ D)
\* M is the immediate, S the other source, which is not shifted.
ProcessMask(D, M, S, a, d) ==
  (D \intersect (Shl(M, DestinationAlignmentShift(d)) \union Not(Field(a, d))))
    \union Shl(S \intersect AlignmentMask(a), DestinationAlignmentShift(d))
ProcessClear(D, a) == D \ SourceField(a)

\* C leaves shifts by 32 and more undefined: the count modulo 32, or nothing is left.
Counts(n) == IF n < 4 * ByteBits THEN {n} ELSE {n % (4 * ByteBits), 4 * ByteBits}
ProcessShift(D, n, left, a) ==
  LET inside == D \intersect SourceField(a) IN
  ((IF left THEN Shl(inside, n) ELSE Shr(inside, n)) \intersect SourceField(a)) \union (D \ SourceField(a))

ProcessADD(D, S, a, d) == WordOf(Number(D) + Number(CommonSource(S, a, d)))
ProcessSUB(D, S, a, d) == WordOf(Number(D) - Number(CommonSource(S, a, d)) + 2 ^ (4 * ByteBits))

\* CommonOperationDataTransformation.
OperandSource(S, a) == Shr(S, SourceAlignmentShift(a)) \intersect AlignmentMask(a)
OperandDest(D, a, d) == Shr(D, DestinationAlignmentShift(d)) \intersect AlignmentMask(a)

ProcessCompare(x, y) == IF x = y THEN "Equal" ELSE IF x < y THEN "Below" ELSE "Above"
ProcessTest(x, y) == IF x \intersect y # {} THEN "NotEqual" ELSE "Equal"
-----------------------------------------------------------------------------
\* Commands, with the opcodes of one group as one op and the kinds of their
\* operands as dst and src.
Logic == {"MOVE", "AND", "OR", "XOR"}
Arithmetic == {"ADD", "SUB", "SHL", "SHR"}
Results == {"MUL", "DIV", "COMPARE", "TEST"}
Jumps == {"JUMP", "JUMP_E", "JUMP_NE"}
WithHeader == Logic \union Arithmetic \union Results
                \union {"SHIFT", "MASK", "CLEAR", "SET_FB_BASE", "SWITCH"}
NotImplementedOps == {"REPEAT", "BEEP", "SAVE_REG", "RESTORE_REG"}

\* The bytes of an operand: the number of a register and the offset of a word of
\* the data block take two, all others one.
OperandSize(kind) == IF kind \in {"REG", "ID"} THEN 2 ELSE 1
DirectSize(a) == CASE Immediate(a) = "Dword" -> 4 [] Immediate(a) = "LowerWord" -> 2 [] OTHER -> 1
SourceSize(c) == IF c.op = "SHIFT" THEN 1 ELSE IF c.src = "IMM" THEN DirectSize(c.align) ELSE OperandSize(c.src)

\* How the source counts as aligned once it has been read.
SourceAlignment(c) ==
  IF c.op = "MASK" \/ (c.op # "CLEAR" /\ c.src = "IMM") THEN Immediate(c.align) ELSE c.align

\* The layout of the commands in a table.
Size(c) ==
  CASE c.op \in Logic \union Arithmetic \union Results \union {"SHIFT"} -> 2 + OperandSize(c.dst) + SourceSize(c)
    [] c.op = "MASK" -> 2 + OperandSize(c.dst) + DirectSize(c.align) + SourceSize(c)
    [] c.op = "CLEAR" -> 2 + OperandSize(c.dst)
    [] c.op \in {"SET_FB_BASE", "SWITCH"} -> 2 + SourceSize(c)
    [] c.op = "CASE" -> 3 + DirectSize(c.align)
    [] c.op = "DS" -> 3 + c.length
    [] c.op \in Jumps \union {"SET_ATI_PORT", "SET_REG_BLOCK"} -> 3
    [] c.op \in {"CALL_TABLE", "SET_DATA_BLOCK", "DELAY", "POST_CARD", "DEBUG", "END_SWITCH"} -> 2
    [] OTHER -> 1

\* IndirectIOParserCommands: the bytes of the indirect IO table's commands.
IOSize(e) ==
  CASE e.op = "NOP" -> 1 [] e.op = "ID" -> 2 [] e.op \in {"MOVE_INDEX", "MOVE_ATTR", "MOVE_DATA"} -> 4
    [] OTHER -> 3
-----------------------------------------------------------------------------
\* What the parser takes for granted of an image: commands follow one another,
\* jumps lead to commands, a switch is followed by its cases, and every indirect
\* program has an end, which leads back to the start of the indirect table.
Falls(c) ==
  /\ c.op \notin {"EOT", "INVALID"} \union NotImplementedOps
  /\ c.op = "JUMP" => c.when # "NoCondition"
OfSwitch == {"CASE", "END_SWITCH"}
Follows(c, next) ==
  IF c.op \in {"SWITCH", "CASE"} THEN next.op \in OfSwitch /\ (next.op = "CASE" => next.align = c.align)
  ELSE next.op \notin OfSwitch
WellFormedTable(t) ==
  /\ 0 \in DOMAIN t.code /\ t.code[0].op \notin OfSwitch
  /\ t.ps \in Nat /\ t.ws \in Nat
  /\ \A o \in DOMAIN t.code : LET c == t.code[o] IN
       /\ o \in Nat
       /\ Falls(c) => o + Size(c) \in DOMAIN t.code /\ Follows(c, t.code[o + Size(c)])
       /\ c.op \in Jumps \union {"CASE"} => c.to \in DOMAIN t.code /\ t.code[c.to].op \notin OfSwitch
       /\ c.op \in WithHeader => c.align \in Alignments
       /\ c.op = "DS" => c.length \in Nat
WellFormedIO(io) ==
  /\ 0 \in DOMAIN io
  /\ \A o \in DOMAIN io :
       /\ o \in Nat
       /\ io[o].op # "NOP" => o + IOSize(io[o]) \in DOMAIN io
       /\ io[o].op \notin {"NOP", "END"} => io[o + IOSize(io[o])].op # "NOP"
       /\ io[o].op = "END" => io[o].back = o + 1
WellFormed(m) == (\A t \in DOMAIN m.tables : WellFormedTable(m.tables[t])) /\ WellFormedIO(m.io)

ASSUME ImagesAssumption == \A m \in DOMAIN Images : WellFormed(Images[m])

\* The words of an image, of the driver and of the card have four bytes.
Words(f) == f \in [DOMAIN f -> Word]
WordsOf(t) ==
  \A o \in DOMAIN t.code : LET c == t.code[o] IN
    /\ c.op \in WithHeader \ {"CLEAR", "SHIFT"} => (c.src = "IMM" => c.value \in Word)
    /\ c.op = "MASK" => c.mask \in Word
    /\ c.op = "CASE" => c.value \in Word
ASSUME WordsAssumption ==
  /\ \A m \in DOMAIN Images :
       Words(Images[m].data) /\ \A t \in DOMAIN Images[m].tables : WordsOf(Images[m].tables[t])
  /\ \A s \in CardStates \union ParameterSpaces : Words(s)
  /\ Garbage \subseteq Word
-----------------------------------------------------------------------------
VARIABLES
  image,            \* the BIOS image
  fbScratch,        \* handle->fbBase or handle->scratchBase
  recording,        \* handle->SaveList
  before,           \* history: the registers before the first table
  phase,            \* where the parser is in a command, or "idle"
  resume,           \* and where it goes on after indirect IO
  cmd,              \* pCmd: the offset of the command
  stack,            \* the working tables, the running one last
  temp,             \* the operands and the state of PARSER_TEMP_DATA
  ioPointer,        \* IndirectIOTablePointer
  params,           \* the words the driver handed over
  pParameterSpace,  \* and where among them the running table's begin
  places,           \* the registers and the frame buffer
  atomSaved,        \* what is on the save list
  unrecorded,       \* did a save find no memory?
  result,           \* what ParseTable returned
  execs             \* the tables executed

chosen == <<image, fbScratch, recording, before>>
saves == <<atomSaved, unrecorded>>
outcome == <<result, execs>>
interpreterVars == <<chosen, phase, resume, cmd, stack, temp, ioPointer, params, pParameterSpace, places, saves, outcome>>

BIOS == Images[image]
Running == stack[Len(stack)]
Table == BIOS.tables[Running.table]
Cmd == Table.code[cmd]
Advance(n) == stack' = [stack EXCEPT ![Len(stack)].ip = @ + n]

\* What memory holds at i; what is not there reads as nothing.
Held(m, i) == IF i \in DOMAIN m THEN m[i] ELSE {}

\* GetParametersWS and PutDataWS: the words that are not in the work space.
WS_QUOTIENT_C == 64
WS_REMINDER_C == 65
WS_DATAPTR_C == 66
WS_SHIFT_C == 67
WS_OR_MASK_C == 68
WS_AND_MASK_C == 69
WS_FB_WINDOW_C == 70
WS_ATTRIBUTES_C == 71
WS_REGPTR_C == 72
Special(n) ==
  CASE n = WS_QUOTIENT_C -> {temp.Quotient} [] n = WS_REMINDER_C -> {temp.Reminder}
    [] n = WS_DATAPTR_C -> {WordOf(temp.DataBlock)} [] n = WS_REGPTR_C -> {WordOf(temp.RegBlock)}
    [] n = WS_OR_MASK_C -> {{s} \intersect Bits : s \in Counts(temp.Shift)}
    [] n = WS_AND_MASK_C -> {Not({s}) : s \in Counts(temp.Shift)}
    [] n = WS_FB_WINDOW_C -> {temp.FBWindow} [] n = WS_ATTRIBUTES_C -> {temp.Attributes}
    [] OTHER -> {{}}
PutSpecial(n, w) ==
  LET half == w \intersect AlignmentMask("LowerWord") IN
  CASE n = WS_QUOTIENT_C -> [temp EXCEPT !.Quotient = w] [] n = WS_REMINDER_C -> [temp EXCEPT !.Reminder = w]
    [] n = WS_DATAPTR_C -> [temp EXCEPT !.DataBlock = Number(half)]
    [] n = WS_REGPTR_C -> [temp EXCEPT !.RegBlock = Number(half)]
    [] n = WS_SHIFT_C -> [temp EXCEPT !.Shift = Number(w \intersect AlignmentMask("Byte0"))]
    [] n = WS_FB_WINDOW_C -> [temp EXCEPT !.FBWindow = w]
    [] n = WS_ATTRIBUTES_C -> [temp EXCEPT !.Attributes = half]
    [] OTHER -> temp

FBWord(i) == <<"FB", i + Number(temp.FBWindow) \div 4>>

\* What an operand reads as.  CailReadPCIConfigData is called with a size in
\* bytes and takes it for one in bits: it reads nothing.
Operand(kind, i, a) ==
  CASE kind = "PS" -> {Held(params, pParameterSpace + i)}
    [] kind = "WS" -> {Held(Running.ws, i)}
    [] kind = "SPECIAL" -> Special(i)
    [] kind = "FB" -> {IF fbScratch THEN Held(places, FBWord(i)) ELSE {}}
    [] kind = "ID" -> {Held(BIOS.data, i + temp.DataBlock)}
    [] kind = "REG" /\ temp.Port = "ATI" -> {Held(places, <<"REG", i + temp.RegBlock>>)}
    [] kind = "REG" /\ temp.Port = "PCI" -> {g \intersect AlignmentMask(Immediate(a)) : g \in Garbage}
    [] kind = "REG" /\ temp.Port = "SYSIO" -> {{}}
    [] OTHER -> {Held(places, <<kind, i>>)}

\* The first value of each register goes on the list, if there is memory.
atomSaveRegisters(p) ==
  \/ /\ ~recording \/ p \in DOMAIN atomSaved
     /\ UNCHANGED saves
  \/ /\ recording /\ p \notin DOMAIN atomSaved
     /\ \/ /\ atomSaved' = [q \in DOMAIN atomSaved \union {p} |-> IF q = p THEN Held(places, p) ELSE atomSaved[q]]
           /\ UNCHANGED unrecorded
        \/ unrecorded' = TRUE /\ UNCHANGED atomSaved

\* MUTANT of CailWrite: the register is not saved.
WriteUnsaved(p, w) == UNCHANGED saves /\ places' = [places EXCEPT ![p] = w]

\* CailWriteATIRegister, CailWriteMC and CailWritePLL.
CailWrite(p, w) == atomSaveRegisters(p) /\ places' = [places EXCEPT ![p] = w]

\* No byte is written.  With libpciaccess saving writes a 0 instead of reading.
CailWritePCIConfigData(p) ==
  \/ atomSaveRegisters(p) /\ UNCHANGED places
  \/ /\ recording /\ p \notin DOMAIN atomSaved
     /\ atomSaved' = [q \in DOMAIN atomSaved \union {p} |-> IF q = p THEN {} ELSE atomSaved[q]]
     /\ places' = [places EXCEPT ![p] = {}]
     /\ UNCHANGED unrecorded
-----------------------------------------------------------------------------
InterpreterInit ==
  /\ image \in DOMAIN Images /\ fbScratch \in BOOLEAN /\ recording \in BOOLEAN
  /\ places \in CardStates /\ before = places
  /\ phase = "idle" /\ resume = "idle" /\ cmd = 0 /\ stack = <<>>
  /\ temp = [Dest |-> {}, Source |-> {}, Mask |-> {}, Index |-> 0, IndirectData |-> {}, into |-> "Nothing",
             Quotient |-> {}, Reminder |-> {}, FBWindow |-> {}, Attributes |-> {}, RegBlock |-> 0,
             DataBlock |-> 0, Shift |-> 0, Flags |-> "Equal", Port |-> "ATI", PortID |-> 0]
  /\ ioPointer = 0
  /\ params \in ParameterSpaces /\ pParameterSpace = 0
  /\ atomSaved = [p \in {} |-> {}] /\ unrecorded = FALSE
  /\ result = "SUCCESS" /\ execs = 0

ReturnWith(r) == stack' = <<>> /\ phase' = "idle" /\ result' = r

\* The working table of table i, where there is memory for it.
Enter(i, tables, ps) ==
  \/ /\ \E ws \in [0 .. BIOS.tables[i].ws - 1 -> Garbage] :
          stack' = Append(tables, [table |-> i, ip |-> 0, ws |-> ws, base |-> ps])
     /\ phase' = "fetch"
     /\ UNCHANGED result
  \/ ReturnWith("UNEXPECTED_BEHAVIOR")

\* rhdAtomExec and the beginning of ParseTable.  Much of PARSER_TEMP_DATA is
\* not initialised.
Exec ==
  /\ phase = "idle" /\ execs < MaxExecs
  /\ execs' = execs + 1
  /\ \E i \in DOMAIN BIOS.tables : Enter(i, <<>>, 0)
  /\ params' \in ParameterSpaces /\ pParameterSpace' = 0
  /\ ioPointer' = 0
  /\ \E g \in Garbage, f \in FirstFlags :
       temp' = [temp EXCEPT !.Dest = g, !.Source = g, !.IndirectData = g, !.Quotient = g, !.Reminder = g,
                  !.Attributes = g \intersect AlignmentMask("LowerWord"), !.DataBlock = Number(g \intersect AlignmentMask("LowerWord")),
                  !.Shift = Number(g \intersect AlignmentMask("Byte0")), !.Flags = f,
                  !.RegBlock = 0, !.FBWindow = {}, !.Port = "ATI", !.PortID = 0]
  /\ UNCHANGED <<chosen, resume, cmd, places, saves>>
-----------------------------------------------------------------------------
\* Commands of one step.

AtOp(ops) == phase = "fetch" /\ Table.code[Running.ip].op \in ops
Here == Table.code[Running.ip]
onlyTemp == <<chosen, phase, resume, cmd, ioPointer, params, pParameterSpace, places, saves, outcome>>

cmdSet_ATI_Port ==
  /\ AtOp({"SET_ATI_PORT"})
  /\ temp' = [temp EXCEPT !.Port = "ATI", !.PortID = Here.port]
  /\ Advance(3)
  /\ UNCHANGED onlyTemp

cmdSet_X_Port ==
  /\ AtOp({"SET_PCI_PORT", "SET_SYS_IO_PORT"})
  /\ temp' = [temp EXCEPT !.Port = IF Here.op = "SET_PCI_PORT" THEN "PCI" ELSE "SYSIO"]
  /\ Advance(1)
  /\ UNCHANGED onlyTemp

cmdSet_Reg_Block ==
  /\ AtOp({"SET_REG_BLOCK"})
  /\ temp' = [temp EXCEPT !.RegBlock = Here.value]
  /\ Advance(3)
  /\ UNCHANGED onlyTemp

DB_CURRENT_COMMAND_TABLE == 255
cmdSetDataBlock ==
  /\ AtOp({"SET_DATA_BLOCK"})
  /\ temp' = [temp EXCEPT !.DataBlock =
               CASE Here.value = 0 -> 0
                 [] Here.value = DB_CURRENT_COMMAND_TABLE -> Table.head
                 [] OTHER -> BIOS.blocks[Here.value]]
  /\ Advance(2)
  /\ UNCHANGED onlyTemp

\* Delays, POST codes, debug output, data to jump over, and nothing at all.
Pass ==
  /\ AtOp({"DELAY", "POST_CARD", "DEBUG", "DS", "NOP"})
  /\ Advance(CASE Here.op = "NOP" -> 1 [] Here.op = "DS" -> 3 + Here.length [] OTHER -> 2)
  /\ UNCHANGED <<onlyTemp, temp>>

Taken(c) ==
  \/ c.op = "JUMP" /\ c.when \in {"NoCondition", temp.Flags}
  \/ c.op = "JUMP_E" /\ temp.Flags \in {"Equal", c.when}
  \/ c.op = "JUMP_NE" /\ temp.Flags # "Equal"

ProcessJump ==
  /\ AtOp(Jumps)
  /\ IF Taken(Here) THEN stack' = [stack EXCEPT ![Len(stack)].ip = Here.to] ELSE Advance(3)
  /\ UNCHANGED <<onlyTemp, temp>>

\* The parameter space moves on by what the calling table uses of it.  A table
\* that is not there is not called.
cmdCall_Table ==
  /\ AtOp({"CALL_TABLE"})
  /\ IF Here.value \in DOMAIN BIOS.tables
     THEN /\ pParameterSpace' = pParameterSpace + Table.ps
          /\ Enter(Here.value, [stack EXCEPT ![Len(stack)].ip = @ + 2], pParameterSpace + Table.ps)
     ELSE Advance(2) /\ UNCHANGED <<pParameterSpace, phase, result>>
  /\ UNCHANGED <<chosen, resume, cmd, temp, ioPointer, params, places, saves, execs>>

\* MUTANT of ParametersBack: by what the table that ends used of it.
ParametersOfCallee == pParameterSpace - Table.ps

\* Where the parameter space of the table to return to begins.
ParametersBack == pParameterSpace - BIOS.tables[stack[Len(stack) - 1].table].ps

EndOfTable ==
  /\ AtOp({"EOT"})
  /\ IF Len(stack) = 1
     THEN ReturnWith("SUCCESS") /\ UNCHANGED pParameterSpace
     ELSE /\ stack' = SubSeq(stack, 1, Len(stack) - 1)
          /\ pParameterSpace' = ParametersBack
          /\ UNCHANGED <<phase, result>>
  /\ UNCHANGED <<chosen, resume, cmd, temp, ioPointer, params, places, saves, execs>>

\* What the parser does not know ends it, and all the tables that wait.
Refuse ==
  /\ AtOp(NotImplementedOps \union {"INVALID"})
  /\ ReturnWith(IF Here.op = "INVALID" THEN "INVALID_OPCODE" ELSE "NOT_IMPLEMENTED")
  /\ UNCHANGED <<chosen, resume, cmd, temp, ioPointer, params, pParameterSpace, places, saves, execs>>
-----------------------------------------------------------------------------
\* Commands with a header: the destination is read, then the source, then the
\* result is written.

ProcessCommandProperties ==
  /\ AtOp(WithHeader)
  /\ cmd' = Running.ip
  /\ phase' = IF Here.op \in {"SET_FB_BASE", "SWITCH"} THEN "source" ELSE "dest"
  /\ Advance(2)
  /\ UNCHANGED <<chosen, resume, temp, ioPointer, params, pParameterSpace, places, saves, outcome>>

Into(field, w) ==
  CASE field = "Dest" -> [temp EXCEPT !.Dest = w] [] field = "Source" -> [temp EXCEPT !.Source = w]
    [] OTHER -> temp

\* A register of another port than the memory mapped one is read and written by
\* a program of the indirect IO table.
Indirect(kind) == kind = "REG" /\ temp.Port = "ATI" /\ temp.PortID # 0
INDIRECT_IO_WRITE == 2 ^ (ByteBits - 1)

Get(kind, i, field, next) ==
  IF Indirect(kind)
  THEN /\ temp' = [temp EXCEPT !.Index = i + temp.RegBlock, !.IndirectData = WordOf(temp.PortID), !.into = field]
       /\ phase' = "search" /\ resume' = next
  ELSE /\ \E w \in Operand(kind, i, Cmd.align) : temp' = Into(field, w)
       /\ phase' = next /\ UNCHANGED resume

\* MUTANT of SkipDestination: one byte, whatever the destination is.
SkipByte(c) == 1

\* A dword that is moved replaces the destination, which is skipped.
SkipDestination(c) == OperandSize(c.dst)

GetDestination ==
  /\ phase = "dest"
  /\ LET next == CASE Cmd.op = "MASK" -> "immediate" [] Cmd.op = "CLEAR" -> "execute" [] OTHER -> "source" IN
     IF Cmd.op = "MOVE" /\ Cmd.align = "Dword"
     THEN phase' = next /\ Advance(SkipDestination(Cmd)) /\ UNCHANGED <<temp, resume>>
     ELSE Get(Cmd.dst, Cmd.at, "Dest", next) /\ Advance(OperandSize(Cmd.dst))
  /\ UNCHANGED <<chosen, cmd, ioPointer, params, pParameterSpace, places, saves, outcome>>

\* The first source of a mask.
GetParametersDirect ==
  /\ phase = "immediate"
  /\ temp' = [temp EXCEPT !.Mask = Cmd.mask]
  /\ phase' = "source"
  /\ Advance(DirectSize(Cmd.align))
  /\ UNCHANGED <<chosen, resume, cmd, ioPointer, params, pParameterSpace, places, saves, outcome>>

GetSource ==
  /\ phase = "source"
  /\ LET next == IF Cmd.op = "SWITCH" THEN "switch" ELSE "execute" IN
     CASE Cmd.op = "SHIFT" ->
            phase' = next /\ Advance(1) /\ UNCHANGED <<temp, resume>>
       [] Cmd.op # "SHIFT" /\ Cmd.src = "IMM" ->
            /\ temp' = [temp EXCEPT !.Source = Cmd.value]
            /\ phase' = next /\ Advance(DirectSize(Cmd.align)) /\ UNCHANGED resume
       [] OTHER -> Get(Cmd.src, Cmd.from, "Source", next) /\ Advance(OperandSize(Cmd.src))
  /\ UNCHANGED <<chosen, cmd, ioPointer, params, pParameterSpace, places, saves, outcome>>

\* The new words of the destination that a command may leave.
NewDest(c) ==
  LET D == temp.Dest  S == temp.Source  a == SourceAlignment(c)  d == c.d IN
  CASE c.op = "MOVE" -> {ProcessMove(D, S, a, d)}
    [] c.op = "AND" -> {ProcessAnd(D, S, a, d)}
    [] c.op = "OR" -> {ProcessOr(D, S, a, d)}
    [] c.op = "XOR" -> {ProcessXor(D, S, a, d)}
    [] c.op = "MASK" -> {ProcessMask(D, temp.Mask, S, a, d)}
    [] c.op = "CLEAR" -> {ProcessClear(D, a)}
    [] c.op = "SHIFT" -> {ProcessShift(D, n, c.left, c.align) : n \in Counts(c.count)}
    [] c.op = "ADD" -> {ProcessADD(D, S, a, d)}
    [] c.op = "SUB" -> {ProcessSUB(D, S, a, d)}
    [] c.op = "SHL" -> {Shl(D, n) : n \in Counts(Number(CommonSource(S, a, d)))}
    [] c.op = "SHR" -> {Shr(D, n) : n \in Counts(Number(CommonSource(S, a, d)))}

Changes == Logic \union Arithmetic \union {"SHIFT", "MASK", "CLEAR"}

Execute ==
  /\ phase = "execute" /\ Cmd.op \in Changes
  /\ \E w \in NewDest(Cmd) : temp' = [temp EXCEPT !.Dest = w]
  /\ phase' = "put"
  /\ UNCHANGED <<chosen, resume, cmd, stack, ioPointer, params, pParameterSpace, places, saves, outcome>>

\* Commands that keep their result in PARSER_TEMP_DATA.  A division by 0 ends the server.
Evaluate ==
  /\ phase = "execute" /\ Cmd.op \in Results \union {"SET_FB_BASE"}
  /\ LET S == OperandSource(temp.Source, SourceAlignment(Cmd))
         D == OperandDest(temp.Dest, SourceAlignment(Cmd), Cmd.d) IN
     /\ phase' = IF Cmd.op = "DIV" /\ S = {} THEN "dead" ELSE "fetch"
     /\ temp' = CASE Cmd.op = "MUL" -> [temp EXCEPT !.Quotient = WordOf(Number(D) * Number(S))]
                  [] Cmd.op = "DIV" /\ S = {} -> temp
                  [] Cmd.op = "DIV" /\ S # {} -> [temp EXCEPT !.Quotient = WordOf(Number(D) \div Number(S)),
                                                             !.Reminder = WordOf(Number(D) % Number(S))]
                  [] Cmd.op = "COMPARE" -> [temp EXCEPT !.Flags = ProcessCompare(Number(D), Number(S))]
                  [] Cmd.op = "TEST" -> [temp EXCEPT !.Flags = ProcessTest(D, S)]
                  [] Cmd.op = "SET_FB_BASE" -> [temp EXCEPT !.FBWindow = S]
  /\ UNCHANGED <<chosen, resume, cmd, stack, ioPointer, params, pParameterSpace, places, saves, outcome>>

\* PutDataRegister: register 0 holds an index, which is written four times as
\* large.
PutDataRegister ==
  /\ phase = "put" /\ Cmd.dst = "REG"
  /\ CASE Indirect("REG") ->
            /\ temp' = [temp EXCEPT !.Index = Cmd.at + temp.RegBlock, !.into = "Nothing",
                                    !.IndirectData = WordOf(temp.PortID + INDIRECT_IO_WRITE)]
            /\ phase' = "search" /\ resume' = "fetch"
            /\ UNCHANGED <<places, saves>>
       [] temp.Port = "ATI" /\ temp.PortID = 0 ->
            LET Index == Cmd.at + temp.RegBlock IN
            /\ CailWrite(<<"REG", Index % 2 ^ (2 * ByteBits)>>, IF Index = 0 THEN Shl(temp.Dest, 2) ELSE temp.Dest)
            /\ phase' = "fetch" /\ UNCHANGED <<temp, resume>>
       [] temp.Port = "PCI" ->
            CailWritePCIConfigData(<<"PCI", Cmd.at + temp.RegBlock>>) /\ phase' = "fetch" /\ UNCHANGED <<temp, resume>>
       [] temp.Port = "SYSIO" -> phase' = "fetch" /\ UNCHANGED <<temp, resume, places, saves>>
  /\ UNCHANGED <<chosen, cmd, stack, ioPointer, params, pParameterSpace, outcome>>

PutData ==
  /\ phase = "put" /\ Cmd.dst # "REG"
  /\ phase' = "fetch"
  /\ params' = IF Cmd.dst = "PS" THEN [params EXCEPT ![pParameterSpace + Cmd.at] = temp.Dest] ELSE params
  /\ stack' = IF Cmd.dst = "WS" THEN [stack EXCEPT ![Len(stack)].ws[Cmd.at] = temp.Dest] ELSE stack
  /\ temp' = IF Cmd.dst = "SPECIAL" THEN PutSpecial(Cmd.at, temp.Dest) ELSE temp
  /\ CASE Cmd.dst \in {"PLL", "MC"} -> CailWrite(<<Cmd.dst, Cmd.at>>, temp.Dest)
       [] Cmd.dst = "FB" /\ fbScratch -> places' = [places EXCEPT ![FBWord(Cmd.at)] = temp.Dest] /\ UNCHANGED saves
       [] OTHER -> UNCHANGED <<places, saves>>
  /\ UNCHANGED <<chosen, resume, cmd, ioPointer, pParameterSpace, outcome>>

\* ProcessSwitch: from case to case, until one has the value or none is left.
SwitchCase ==
  /\ phase = "switch" /\ Here.op = "CASE"
  /\ temp' = [temp EXCEPT !.Dest = Here.value]
  /\ IF OperandSource(temp.Source, SourceAlignment(Cmd)) = Here.value
     THEN stack' = [stack EXCEPT ![Len(stack)].ip = Here.to] /\ phase' = "fetch"
     ELSE Advance(3 + DirectSize(Cmd.align)) /\ UNCHANGED phase
  /\ UNCHANGED <<chosen, resume, cmd, ioPointer, params, pParameterSpace, places, saves, outcome>>


SwitchEnd ==
  /\ phase = "switch" /\ Here.op = "END_SWITCH"
  /\ phase' = "fetch"
  /\ Advance(2)
  /\ UNCHANGED <<chosen, resume, cmd, temp, ioPointer, params, pParameterSpace, places, saves, outcome>>
-----------------------------------------------------------------------------
\* IndirectInputOutput: the program that is asked for is looked up, run, and
\* the pointer goes back to the beginning of the table.
Entry == BIOS.io[ioPointer]
parserHeld == <<chosen, cmd, stack, params, pParameterSpace, outcome>>

\* A program that is not there reads as 0, and the pointer stays at the end.
Search ==
  /\ phase = "search"
  /\ LET found == Entry.op = "ID" /\ Entry.id = Number(temp.IndirectData) IN
     CASE Entry.op = "NOP" -> phase' = resume /\ temp' = Into(temp.into, {}) /\ UNCHANGED ioPointer
       [] found -> phase' = "indirect" /\ ioPointer' = ioPointer + IOSize(Entry) /\ UNCHANGED temp
       [] OTHER -> ioPointer' = ioPointer + IOSize(Entry) /\ UNCHANGED <<phase, temp>>
  /\ UNCHANGED <<parserHeld, resume, places, saves>>

Low(n) == 0 .. n - 1
MoveBits(w, e) ==
  (temp.IndirectData \ Shl(Low(e.bits), e.to)) \union Shl(Shr(w, e.from) \intersect Low(e.bits), e.to)

IndirectCommand ==
  /\ phase = "indirect" /\ Entry.op # "END"
  /\ ioPointer' = ioPointer + IOSize(Entry)
  /\ IF Entry.op = "WRITE" THEN CailWrite(<<"REG", Entry.reg>>, temp.IndirectData) ELSE UNCHANGED <<places, saves>>
  /\ temp' = [temp EXCEPT !.IndirectData =
               CASE Entry.op = "READ" -> Held(places, <<"REG", Entry.reg>>)
                 [] Entry.op = "CLEAR" -> @ \ Shl(Low(Entry.bits), Entry.to)
                 [] Entry.op = "SET" -> @ \union Shl(Low(Entry.bits), Entry.to)
                 [] Entry.op = "MOVE_INDEX" -> MoveBits(WordOf(temp.Index), Entry)
                 [] Entry.op = "MOVE_ATTR" -> MoveBits(temp.Attributes, Entry)
                 [] Entry.op = "MOVE_DATA" -> MoveBits(temp.Dest, Entry)
                 [] OTHER -> @]
  /\ UNCHANGED <<parserHeld, phase, resume>>

\* Where the pointer goes at the end of a program.
BackToTable(e) == ioPointer - e.back + 1

EndOfProgram ==
  /\ phase = "indirect" /\ Entry.op = "END"
  /\ ioPointer' = BackToTable(Entry)
  /\ temp' = Into(temp.into, temp.IndirectData)
  /\ phase' = resume
  /\ UNCHANGED <<parserHeld, resume, places, saves>>

\* The card changes a register while a table runs.
CardTurns ==
  /\ phase \notin {"idle", "dead"}
  /\ \E p \in Volatile \intersect DOMAIN places : places' = [places EXCEPT ![p] = Not(@)]
  /\ UNCHANGED <<chosen, phase, resume, cmd, stack, temp, ioPointer, params, pParameterSpace, saves, outcome>>
-----------------------------------------------------------------------------
OneStepCommands ==
  \/ cmdSet_ATI_Port \/ cmdSet_X_Port \/ cmdSet_Reg_Block \/ cmdSetDataBlock
  \/ Pass \/ ProcessJump \/ cmdCall_Table \/ EndOfTable \/ Refuse
HeaderCommands ==
  \/ ProcessCommandProperties \/ GetDestination \/ GetParametersDirect \/ GetSource
  \/ Execute \/ Evaluate \/ PutDataRegister \/ PutData \/ SwitchCase \/ SwitchEnd
IndirectInputOutput == Search \/ IndirectCommand \/ EndOfProgram

InterpreterNext == Exec \/ OneStepCommands \/ HeaderCommands \/ IndirectInputOutput \/ CardTurns

InterpreterSpec == InterpreterInit /\ [][InterpreterNext]_interpreterVars
-----------------------------------------------------------------------------
Parsing == phase \notin {"idle", "dead"}
InIndirect == phase \in {"search", "indirect"}

\* A table may be entered, or gone on with, at the command at o.
Standing(t, o) == o \in DOMAIN t.code /\ t.code[o].op \notin OfSwitch

\* The bytes of command c that the parser has read in phase ph.
Consumed(c, ph) ==
  CASE ph = "dest" -> 2
    [] ph = "immediate" -> 2 + OperandSize(c.dst)
    [] ph = "source" -> Size(c) - SourceSize(c)
    [] OTHER -> Size(c)

\* Where in table t phase ph finds the parser, in the command at k or behind it.
StandsAt(t, ip, k, ph) ==
  CASE ph = "fetch" -> Standing(t, ip)
    [] ph = "switch" -> ip \in DOMAIN t.code /\ t.code[ip].op \in OfSwitch
    [] OTHER -> k \in DOMAIN t.code /\ ip = k + Consumed(t.code[k], ph)

\* The parser never loses its place: the running table stands at a command, or
\* as far into one as its operands have been read, indirect IO in between or not;
\* the tables that wait stand behind their calls; and the indirect table is
\* read from its beginning, except after a program that is not there was asked for.
ParserOnTrack ==
  /\ Parsing => StandsAt(Table, Running.ip, cmd, IF InIndirect THEN resume ELSE phase)
  /\ \A i \in 1 .. Len(stack) - 1 : Standing(BIOS.tables[stack[i].table], stack[i].ip)
  /\ Parsing /\ ~InIndirect => ioPointer = 0 \/ Entry.op = "NOP"
  /\ InIndirect => ioPointer \in DOMAIN BIOS.io

\* Every table finds the parameters that it was handed, however its callees
\* ended: its parameter space begins behind those of all the tables that wait for
\* it, and a table that succeeds leaves its caller's where it was.
ParametersKept ==
  /\ stack # <<>> => stack[1].base = 0 /\ pParameterSpace = Running.base
  /\ \A i \in 1 .. Len(stack) - 1 : stack[i + 1].base = stack[i].base + BIOS.tables[stack[i].table].ps
  /\ phase = "idle" /\ result = "SUCCESS" => pParameterSpace = 0

\* A whole word is moved to the bottom, whatever the destination's alignment.
Bottom(c) == IF c.op = "MOVE" /\ c.align = "Dword" THEN 0 ELSE c.d

\* Bit by bit, what a command on a field leaves in bit b of the field: D and S
\* are the words that it finds.
FieldOps == Logic \union {"MASK", "CLEAR", "SHIFT"}
FieldOf(c) ==
  IF c.op \in {"CLEAR", "SHIFT"} THEN SourceField(c.align) ELSE Field(SourceAlignment(c), Bottom(c))
BitOf(c, D, S, b) ==
  LET k == b - DestinationAlignmentShift(Bottom(c))
      s == k + SourceAlignmentShift(SourceAlignment(c)) \in S IN
  CASE c.op = "MOVE" -> s
    [] c.op = "AND" -> b \in D /\ s
    [] c.op = "OR" -> b \in D \/ s
    [] c.op = "XOR" -> (b \in D) # s
    [] c.op = "MASK" -> (b \in D /\ k \in c.mask) \/ k \in S

\* The word of the parameter or work space at i.
Memory(kind, i) == IF kind = "PS" THEN Held(params, pParameterSpace + i) ELSE Held(Running.ws, i)
OfTable(kind) == kind \in {"PS", "WS"}
SourceWord(c) == IF c.src = "IMM" THEN c.value ELSE Memory(c.src, c.from)

\* A command on a field writes back the rest of the word as it found it, and in
\* the field what the operation says of the fields of its operands, however these
\* are aligned and whatever was read in between.
FieldsKept ==
  phase = "put" /\ Cmd.op \in FieldOps /\ OfTable(Cmd.dst) =>
    LET D == Memory(Cmd.dst, Cmd.at) IN
    /\ \A b \in Bits \ FieldOf(Cmd) : b \in temp.Dest <=> b \in D
    /\ Cmd.op = "CLEAR" => temp.Dest \intersect FieldOf(Cmd) = {}
    /\ Cmd.op \in Logic \union {"MASK"} /\ (Cmd.src = "IMM" \/ OfTable(Cmd.src)) =>
         \A b \in Bits \intersect FieldOf(Cmd) : b \in temp.Dest <=> BitOf(Cmd, D, SourceWord(Cmd), b)

\* While registers are recorded, every register that a table has changed is
\* on the list with the value it had before the first table, whichever way
\* it was written, unless there was no memory for the list.
ChangedAreSaved ==
  recording /\ ~unrecorded =>
    \A p \in DOMAIN places : p[1] \in {"REG", "PLL", "MC"} /\ p \notin Volatile =>
      IF p \in DOMAIN atomSaved THEN atomSaved[p] = before[p] ELSE places[p] = before[p]
===============================================================================
