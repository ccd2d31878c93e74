----------------------------- MODULE MCInterpreter -----------------------------
(***************************************************************************)
(* Small BIOS images for the interpreter: with bytes of one bit, a table of  *)
(* each kind of command, and tables that use every operation on fields at    *)
(* every alignment.                                                         *)
(***************************************************************************)
EXTENDS AtomInterpreter, TLC

\* A function that is computed once, and not wherever it is applied.
Computed(f) == f @@ <<>>

\* The table of a program, a sequence of commands where jumps name their places in it.
TableOf(program) ==
  LET commands == program.commands
      off[i \in 1 .. Len(commands)] == IF i = 1 THEN 0 ELSE off[i - 1] + Size(commands[i - 1])
      placed(c) == IF "to" \in DOMAIN c THEN [c EXCEPT !.to = off[@]] ELSE c IN
  [ps |-> program.ps, ws |-> program.ws, head |-> 1,
   code |-> Computed([o \in {off[i] : i \in DOMAIN commands} |-> placed(commands[CHOOSE i \in DOMAIN commands : off[i] = o])])]

OpOnly(op) == [op |-> op]
Value(op, v) == [op |-> op, value |-> v]
Port(n) == [op |-> "SET_ATI_PORT", port |-> n]
JumpTo(op, when, i) == [op |-> op, when |-> when, to |-> i]
Op(op, dst, at, src, from, align, d) ==
  [op |-> op, dst |-> dst, at |-> at, src |-> src, from |-> from, align |-> align, d |-> d]
OpImm(op, dst, at, value, align, d) ==
  [op |-> op, dst |-> dst, at |-> at, src |-> "IMM", value |-> value, align |-> align, d |-> d]
Mask(dst, at, mask, src, from, align, d) ==
  [op |-> "MASK", dst |-> dst, at |-> at, mask |-> mask, src |-> src, from |-> from, align |-> align, d |-> d]
Clear(dst, at, align) == [op |-> "CLEAR", dst |-> dst, at |-> at, align |-> align, d |-> 0]
Shift(dst, at, left, count, align) ==
  [op |-> "SHIFT", dst |-> dst, at |-> at, left |-> left, count |-> count, align |-> align, d |-> 0]
Case(value, align, i) == [op |-> "CASE", value |-> value, align |-> align, to |-> i]
EOT == OpOnly("EOT")

\* Programs 1 and 2 read and write port 1.
IndirectTable ==
  LET program == <<[op |-> "ID", id |-> 1], [op |-> "CLEAR", bits |-> 1, to |-> 0],
                   [op |-> "MOVE_INDEX", bits |-> 2, from |-> 0, to |-> 1], [op |-> "WRITE", reg |-> 2],
                   [op |-> "READ", reg |-> 3], [op |-> "END"],
                   [op |-> "ID", id |-> 2], [op |-> "SET", bits |-> 1, to |-> 3], [op |-> "MOVE_ATTR", bits |-> 1, from |-> 0, to |-> 2],
                   [op |-> "WRITE", reg |-> 2], [op |-> "MOVE_DATA", bits |-> 4, from |-> 0, to |-> 0],
                   [op |-> "WRITE", reg |-> 3], [op |-> "END"], [op |-> "NOP"]>>
      off[i \in DOMAIN program] == IF i = 1 THEN 0 ELSE off[i - 1] + IOSize(program[i - 1]) IN
  Computed([o \in {off[i] : i \in DOMAIN program} |->
     LET e == program[CHOOSE i \in DOMAIN program : off[i] = o] IN
     IF e.op = "END" THEN [op |-> "END", back |-> o + 1] ELSE e])

ImageOf(programs) ==
  [tables |-> Computed([t \in DOMAIN programs |-> TableOf(programs[t])]), io |-> IndirectTable,
   blocks |-> [b \in {1} |-> 2], data |-> [i \in 2 .. 3 |-> {i}]]

Listing(ps, ws, commands) == [ps |-> ps, ws |-> ws, commands |-> commands]
One(ps, ws, commands) == <<Listing(ps, ws, commands)>>

Calls ==
  <<Listing(2, 1, <<Value("CALL_TABLE", 2), Value("CALL_TABLE", 9), Value("CALL_TABLE", 3),
                    Op("MOVE", "PS", 0, "PS", 1, "Dword", 0), EOT>>),
    Listing(1, 0, <<Op("OR", "PS", 0, "PS", 1, "Byte1", 2), Value("CALL_TABLE", 3), EOT>>),
    Listing(0, 1, <<Op("MOVE", "WS", 0, "PS", 0, "LowerWord", 1), EOT>>)>>

Waits ==
  One(2, 0, <<OpImm("TEST", "REG", 1, {0}, "Byte0", 0), JumpTo("JUMP", "Equal", 1), Op("COMPARE", "PS", 0, "PS", 1, "Byte0", 2),
                   JumpTo("JUMP_E", "Below", 7), JumpTo("JUMP_NE", "NoCondition", 8), OpOnly("NOP"),
                   [op |-> "DS", length |-> 2],
                   [op |-> "SWITCH", src |-> "PS", from |-> 0, align |-> "LowerWord"],
                   Case({}, "LowerWord", 12), Case({0}, "LowerWord", 13), OpOnly("END_SWITCH"),
                   OpOnly("DELAY"), JumpTo("JUMP", "NoCondition", 14), EOT>>)

Indirectly ==
  One(2, 0, <<Port(1), Op("MOVE", "REG", 1, "PS", 0, "Byte1", 2), Op("XOR", "PS", 1, "REG", 0, "UpperWord", 0),
                   Port(3), Op("OR", "PS", 0, "REG", 1, "Dword", 0), Port(1), Op("MOVE", "REG", 2, "PS", 1, "Dword", 0),
                   Port(0), Op("AND", "REG", 0, "PS", 0, "LowerWord", 1), EOT>>)

Ports ==
  One(2, 0, <<OpOnly("SET_PCI_PORT"), Op("MOVE", "REG", 1, "PS", 0, "Byte0", 1), Op("AND", "PS", 0, "REG", 1, "Byte0", 0),
                   OpOnly("SET_SYS_IO_PORT"), Op("MOVE", "REG", 1, "PS", 0, "Dword", 0), Op("XOR", "PS", 1, "REG", 1, "Byte3", 0),
                   EOT>>)

Places ==
  One(1, 1, <<Value("SET_REG_BLOCK", 2), Op("MOVE", "REG", 0, "PS", 0, "Dword", 0), Op("OR", "PLL", 0, "PS", 0, "Byte1", 3),
                   Mask("MC", 0, {0}, "PS", 0, "LowerWord", 1), Clear("PLL", 0, "UpperWord"),
                   [op |-> "SET_FB_BASE", src |-> "PS", from |-> 0, align |-> "Byte3"],
                   Op("MOVE", "FB", 0, "PS", 0, "Byte2", 0), Op("XOR", "PS", 0, "FB", 0, "Dword", 0),
                   Value("SET_DATA_BLOCK", 1), Op("MOVE", "PS", 0, "ID", 1, "Dword", 0), Value("SET_DATA_BLOCK", 255),
                   Op("MOVE", "WS", 0, "ID", 1, "LowerWord", 0), Value("SET_DATA_BLOCK", 0),
                   Op("MOVE", "MC", 0, "WS", 0, "MiddleWord", 2), EOT>>)

Numbers ==
  One(2, 1, <<Op("MUL", "PS", 0, "PS", 1, "LowerWord", 0), Op("MOVE", "PS", 1, "SPECIAL", WS_QUOTIENT_C, "Dword", 0),
                   OpImm("ADD", "PS", 1, {0}, "Byte0", 1), Op("SUB", "PS", 0, "PS", 1, "LowerWord", 1),
                   Op("SHL", "PS", 0, "PS", 1, "Byte2", 1), Op("SHR", "PS", 1, "PS", 0, "LowerWord", 2),
                   Op("MOVE", "SPECIAL", WS_SHIFT_C, "PS", 1, "Dword", 0), Op("AND", "PS", 0, "SPECIAL", WS_AND_MASK_C, "Dword", 0),
                   Op("OR", "PS", 1, "SPECIAL", WS_OR_MASK_C, "Dword", 0), Op("MOVE", "SPECIAL", WS_REGPTR_C, "PS", 1, "Dword", 0),
                   Op("MOVE", "SPECIAL", WS_ATTRIBUTES_C, "PS", 0, "LowerWord", 1), Op("XOR", "SPECIAL", WS_DATAPTR_C, "PS", 0, "Byte0", 0),
                   Op("DIV", "PS", 0, "PS", 1, "Byte0", 0), Op("MOVE", "PS", 0, "SPECIAL", WS_REMINDER_C, "Dword", 0), EOT>>)

Refusals ==
  <<Listing(1, 0, <<Value("CALL_TABLE", 2), EOT>>), Listing(0, 0, <<OpOnly("REPEAT")>>),
    Listing(1, 0, <<Value("CALL_TABLE", 1), OpOnly("INVALID")>>)>>

\* Every operation on a field of the first parameter, at every alignment.
FieldCommand(op, src, align, d) ==
  CASE op = "MASK" -> Mask("PS", 0, {0}, "PS", 1, align, d)
    [] op = "CLEAR" -> Clear("PS", 0, align)
    [] op = "SHIFT" -> Shift("PS", 0, d < 2, d, align)
    [] op \in Logic /\ src = "PS" -> Op(op, "PS", 0, "PS", 1, align, d)
    [] OTHER -> OpImm(op, "PS", 0, {0, 3}, align, d)
Fields(op, src, align) == One(2, 1, [i \in 1 .. 4 |-> FieldCommand(op, src, align, i - 1)] \o <<EOT>>)

Commanded == {"Calls", "Waits", "Indirectly", "Ports", "Places", "Numbers", "Refusals"} \X {""} \X {""}
FieldImages == (FieldOps \X {"PS"} \X Alignments) \union (Logic \X {"IMM"} \X Alignments)

ImageTable ==
  Computed([m \in Commanded \union FieldImages |->
    ImageOf(CASE m[1] = "Calls" -> Calls [] m[1] = "Waits" -> Waits [] m[1] = "Indirectly" -> Indirectly
              [] m[1] = "Ports" -> Ports [] m[1] = "Places" -> Places [] m[1] = "Numbers" -> Numbers
              [] m[1] = "Refusals" -> Refusals
              [] OTHER -> Fields(m[1], m[2], m[3]))])

\* TLC evaluates what a CONSTANT is given at each use, and a definition like ImageTable once.
AllImages == ImageTable

\* Register 1 changes by itself.
Polled == {<<"REG", 1>>}
Cards ==
  {[p \in {<<"REG", 0>>} |-> {}]} \union
  {[p \in ({"REG"} \X (0 .. 3)) \union ({"PLL", "MC", "PCI", "FB"} \X {0}) |-> {0, 2}]}
SomeParameters == {[i \in 0 .. 3 |-> IF i = 0 THEN {0, 2} ELSE S] : S \in {{}, {0, 1}, {0, 3}, {1, 2}, {2, 3}}}
BothGarbage == {{}, Bits}
TwoFlags == {"Equal", "Above"}

\* The tables for fields touch neither the card nor the save list.
FieldsAlone ==
  /\ image \in FieldImages <=> DOMAIN places = {<<"REG", 0>>}
  /\ image \in FieldImages => ~recording /\ ~fbScratch
===============================================================================
