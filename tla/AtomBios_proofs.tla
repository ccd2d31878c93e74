-------------------------- MODULE AtomBios_proofs ---------------------------
(***************************************************************************)
(* Proofs about what is done through the BIOS.  First the interpreter of    *)
(* its command tables, for every image that is well formed, every width of  *)
(* a byte and every number of tables run.  Then the DIG encoders that those *)
(* tables switch, for every card and every number of calls.                 *)
(***************************************************************************)
EXTENDS AtomInterpreter, DigEncoders, SequenceTheorems, TLAPS

Spaces == UNION {[0 .. n - 1 -> Word] : n \in Nat}
Frames == [table : DOMAIN BIOS.tables, ip : Nat, ws : Spaces, base : Int]

Phases ==
  {"idle", "dead", "fetch", "dest", "immediate", "source", "execute", "put", "switch", "search", "indirect"}

\* Where the parser may go on after indirect IO.
Resumes == {"fetch", "immediate", "source", "execute", "switch"}

TempType ==
  temp \in [Dest : Word, Source : Word, Mask : Word, Index : {temp.Index}, IndirectData : Word,
            into : {"Dest", "Source", "Nothing"}, Quotient : Word, Reminder : Word, FBWindow : Word,
            Attributes : Word, RegBlock : {temp.RegBlock}, DataBlock : {temp.DataBlock}, Shift : {temp.Shift},
            Flags : {temp.Flags}, Port : {"ATI", "PCI", "SYSIO"}, PortID : {temp.PortID}]

StackType ==
  /\ stack \in Seq(Frames)
  /\ phase = "idle" <=> stack = <<>>

AtomType ==
  /\ image \in DOMAIN Images
  /\ phase \in Phases
  /\ InIndirect => resume \in Resumes
  /\ cmd \in Nat
  /\ StackType /\ TempType
  /\ Words(params) /\ Words(places)
  /\ pParameterSpace \in Int

LEMMA SizesAreBytes ==
  ASSUME NEW c, c.op = "DS" => c.length \in Nat
  PROVE  Size(c) \in Nat /\ Size(c) > 0 /\ SourceSize(c) \in Nat /\ OperandSize(c.dst) \in Nat /\ DirectSize(c.align) \in Nat
<1>1. \A k : OperandSize(k) \in 1 .. 2
  BY DEF OperandSize
<1>2. \A a : DirectSize(a) \in 1 .. 4
  BY DEF DirectSize
<1>3. SourceSize(c) \in 1 .. 4
  BY <1>1, <1>2 DEF SourceSize
<1>4. Size(c) \in Nat /\ Size(c) > 0
  BY <1>1, <1>2, <1>3 DEF Size
<1> QED
  BY <1>1, <1>2, <1>3, <1>4

LEMMA WordsHold ==
  ASSUME NEW f, Words(f), NEW i
  PROVE  Held(f, i) \in Word
<1>1. {} \in Word
  BY DEF Word
<1> QED
  BY <1>1 DEF Words, Held

LEMMA ShiftedWords ==
  ASSUME NEW w, NEW n
  PROVE  Shl(w, n) \in Word /\ Shr(w, n) \in Word /\ Not(w) \in Word /\ WordOf(n) \in Word
BY DEF Shl, Shr, Not, WordOf, Word

LEMMA SpecialWords ==
  ASSUME TempType, NEW n
  PROVE  Special(n) \subseteq Word
<1>1. temp.Quotient \in Word /\ temp.Reminder \in Word /\ temp.FBWindow \in Word /\ temp.Attributes \in Word
  BY DEF TempType
<1>2. WordOf(temp.DataBlock) \in Word /\ WordOf(temp.RegBlock) \in Word
  BY ShiftedWords
<1>3. \A s : {s} \intersect Bits \in Word /\ Not({s}) \in Word
  BY ShiftedWords DEF Word
<1>4. {} \in Word
  BY DEF Word
<1> QED
  BY <1>1, <1>2, <1>3, <1>4 DEF Special

LEMMA OperandWords ==
  ASSUME AtomType, phase # "idle", NEW kind, NEW i, NEW a
  PROVE  Operand(kind, i, a) \subseteq Word
<1>1. \A j : Held(params, j) \in Word /\ Held(places, j) \in Word
  BY WordsHold DEF AtomType
<1>2. \A j : Held(BIOS.data, j) \in Word
  BY WordsHold, WordsAssumption DEF AtomType, BIOS
<1>3. Running \in Frames
  <2>1. Len(stack) \in 1 .. Len(stack)
    BY DEF AtomType, StackType
  <2> QED
    BY <2>1 DEF AtomType, StackType, Running
<1>4. Words(Running.ws)
  BY <1>3 DEF Frames, Spaces, Words
<1>5. \A j : Held(Running.ws, j) \in Word
  BY <1>4, WordsHold
<1>6. Special(i) \subseteq Word
  BY SpecialWords DEF AtomType
<1>7. {} \in Word
  BY DEF Word
<1>8. \A g \in Garbage : \A A : g \intersect A \in Word
  BY WordsAssumption DEF Word
<1> QED
  BY <1>1, <1>2, <1>5, <1>6, <1>7, <1>8 DEF Operand

\* The commands that reach a phase.
OpsIn(ph) ==
  CASE ph = "dest" -> WithHeader \ {"SET_FB_BASE", "SWITCH"}
    [] ph = "immediate" -> {"MASK"}
    [] ph = "source" -> WithHeader \ {"CLEAR"}
    [] ph = "execute" -> WithHeader \ {"SWITCH"}
    [] ph = "put" -> Changes
    [] OTHER -> {"SWITCH"}

Reached(t, ip, k, ph) ==
  /\ StandsAt(t, ip, k, ph)
  /\ ph # "fetch" => k \in DOMAIN t.code /\ t.code[k].op \in OpsIn(ph)
  /\ ph = "switch" => (t.code[ip].op = "CASE" => t.code[ip].align = t.code[k].align)

Ops == {"MOVE", "AND", "OR", "XOR", "ADD", "SUB", "SHL", "SHR", "MUL", "DIV", "COMPARE", "TEST",
        "SHIFT", "MASK", "CLEAR", "SET_FB_BASE", "SWITCH"}
LEMMA OpsAreThese == WithHeader = Ops
BY DEF WithHeader, Ops, Logic, Arithmetic, Results

LEMMA SizeOf ==
  ASSUME NEW c
  PROVE  /\ c.op = "MASK" => Size(c) = 2 + OperandSize(c.dst) + DirectSize(c.align) + SourceSize(c)
         /\ c.op = "CLEAR" => Size(c) = 2 + OperandSize(c.dst)
         /\ c.op \in {"SET_FB_BASE", "SWITCH"} => Size(c) = 2 + SourceSize(c)
         /\ c.op = "CASE" => Size(c) = 3 + DirectSize(c.align)
         /\ c.op \in Logic \union Arithmetic \union Results \union {"SHIFT"} =>
              Size(c) = 2 + OperandSize(c.dst) + SourceSize(c)
<1> DEFINE plain == Logic \union Arithmetic \union Results \union {"SHIFT"}
           three == Jumps \union {"SET_ATI_PORT", "SET_REG_BLOCK"}
           two == {"CALL_TABLE", "SET_DATA_BLOCK", "DELAY", "POST_CARD", "DEBUG", "END_SWITCH"}
<1>1. \A o \in {"MASK", "CLEAR", "SET_FB_BASE", "SWITCH", "CASE"} : o \notin plain /\ o \notin three /\ o \notin two
  BY DEF Logic, Arithmetic, Results, Jumps
<1>2. \A o \in plain : o \notin {"MASK", "CLEAR", "SET_FB_BASE", "SWITCH", "CASE", "DS"} /\ o \notin three /\ o \notin two
  BY DEF Logic, Arithmetic, Results, Jumps
<1> HIDE DEF plain, three, two
<1>3. Size(c) = CASE c.op \in plain -> 2 + OperandSize(c.dst) + SourceSize(c)
    [] c.op = "MASK" -> 2 + OperandSize(c.dst) + DirectSize(c.align) + SourceSize(c)
    [] c.op = "CLEAR" -> 2 + OperandSize(c.dst)
    [] c.op \in {"SET_FB_BASE", "SWITCH"} -> 2 + SourceSize(c)
    [] c.op = "CASE" -> 3 + DirectSize(c.align)
    [] c.op = "DS" -> 3 + c.length
    [] c.op \in three -> 3
    [] c.op \in two -> 2
    [] OTHER -> 1
  BY DEF plain, three, two, Size
<1>4. c.op = "MASK" => Size(c) = 2 + OperandSize(c.dst) + DirectSize(c.align) + SourceSize(c)
  BY <1>1, <1>3
<1>5. c.op = "CLEAR" => Size(c) = 2 + OperandSize(c.dst)
  BY <1>1, <1>3
<1>6. c.op \in {"SET_FB_BASE", "SWITCH"} => Size(c) = 2 + SourceSize(c)
  BY <1>1, <1>3
<1>7. c.op = "CASE" => Size(c) = 3 + DirectSize(c.align)
  BY <1>1, <1>3
<1>8. c.op \in plain => Size(c) = 2 + OperandSize(c.dst) + SourceSize(c)
  BY <1>2, <1>3
<1> QED
  BY <1>4, <1>5, <1>6, <1>7, <1>8 DEF plain

LEMMA SmallSizes ==
  ASSUME NEW c, NEW n,
         \/ n = 3 /\ c.op \in Jumps \union {"SET_ATI_PORT", "SET_REG_BLOCK"}
         \/ n = 2 /\ c.op \in {"CALL_TABLE", "SET_DATA_BLOCK", "DELAY", "POST_CARD", "DEBUG", "END_SWITCH"}
         \/ n = 1 /\ c.op \in {"SET_PCI_PORT", "SET_SYS_IO_PORT", "NOP"}
         \/ n = 3 + c.length /\ c.op = "DS"
  PROVE  Size(c) = n
<1> DEFINE plain == Logic \union Arithmetic \union Results \union {"SHIFT"}
           three == Jumps \union {"SET_ATI_PORT", "SET_REG_BLOCK"}
           two == {"CALL_TABLE", "SET_DATA_BLOCK", "DELAY", "POST_CARD", "DEBUG", "END_SWITCH"}
           others == {"MASK", "CLEAR", "SET_FB_BASE", "SWITCH", "CASE"}
           one == {"SET_PCI_PORT", "SET_SYS_IO_PORT", "NOP"}
<1>1. \A o \in three : o \notin plain /\ o \notin two /\ o \notin others /\ o # "DS"
  BY DEF Logic, Arithmetic, Results, Jumps
<1>2. \A o \in two : o \notin plain /\ o \notin three /\ o \notin others /\ o # "DS"
  BY DEF Logic, Arithmetic, Results, Jumps
<1>3. \A o \in one : o \notin plain /\ o \notin three /\ o \notin two /\ o \notin others /\ o # "DS"
  BY DEF Logic, Arithmetic, Results, Jumps
<1>4. "DS" \notin plain /\ "DS" \notin three /\ "DS" \notin two
  BY DEF Logic, Arithmetic, Results, Jumps
<1> HIDE DEF plain, three, two, one
<1>5. Size(c) = CASE c.op \in plain -> 2 + OperandSize(c.dst) + SourceSize(c)
    [] c.op = "MASK" -> 2 + OperandSize(c.dst) + DirectSize(c.align) + SourceSize(c)
    [] c.op = "CLEAR" -> 2 + OperandSize(c.dst)
    [] c.op \in {"SET_FB_BASE", "SWITCH"} -> 2 + SourceSize(c)
    [] c.op = "CASE" -> 3 + DirectSize(c.align)
    [] c.op = "DS" -> 3 + c.length
    [] c.op \in three -> 3
    [] c.op \in two -> 2
    [] OTHER -> 1
  BY DEF plain, three, two, Size
<1>6. CASE n = 3 /\ c.op \in three
  BY <1>1, <1>5, <1>6
<1>7. CASE n = 2 /\ c.op \in two
  BY <1>2, <1>5, <1>7
<1>8. CASE n = 1 /\ c.op \in one
  BY <1>3, <1>5, <1>8
<1>9. CASE n = 3 + c.length /\ c.op = "DS"
  BY <1>4, <1>5, <1>9
<1> QED
  BY <1>6, <1>7, <1>8, <1>9 DEF three, two, one

LEMMA HeaderReached ==
  ASSUME NEW t, WellFormedTable(t), NEW o, Standing(t, o), t.code[o].op \in WithHeader,
         NEW ph, ph = IF t.code[o].op \in {"SET_FB_BASE", "SWITCH"} THEN "source" ELSE "dest"
  PROVE  Reached(t, o + 2, o, ph)
<1> DEFINE c == t.code[o]
<1>1. CASE c.op \in {"SET_FB_BASE", "SWITCH"}
  <2>1. Size(c) - SourceSize(c) = 2
    <3>1. Size(c) = 2 + SourceSize(c)
      BY <1>1, SizeOf
    <3>2. SourceSize(c) \in Int
      BY <1>1 DEF SourceSize, DirectSize, OperandSize
    <3> QED
      BY <3>1, <3>2
  <2>2. ph = "source"
    BY <1>1
  <2>3. c.op \in OpsIn("source")
    BY <1>1, OpsAreThese DEF OpsIn, Ops
  <2> QED
    BY <2>1, <2>2, <2>3 DEF Reached, StandsAt, Standing, Consumed
<1>2. CASE c.op \notin {"SET_FB_BASE", "SWITCH"}
  <2>1. c.op \in OpsIn("dest")
    BY <1>2, OpsAreThese DEF OpsIn, Ops
  <2> QED
    BY <1>2, <2>1 DEF Reached, StandsAt, Standing, Consumed
<1> QED
  BY <1>1, <1>2

\* Where the destination has been read.
AfterDest(op) == CASE op = "MASK" -> "immediate" [] op = "CLEAR" -> "execute" [] OTHER -> "source"

LEMMA CommandSizes ==
  ASSUME NEW c, c.op \in OpsIn("dest")
  PROVE  /\ c.op = "MASK" => Size(c) = 2 + OperandSize(c.dst) + DirectSize(c.align) + SourceSize(c)
         /\ c.op = "CLEAR" => Size(c) = 2 + OperandSize(c.dst)
         /\ c.op \notin {"MASK", "CLEAR"} => Size(c) = 2 + OperandSize(c.dst) + SourceSize(c)
         /\ OperandSize(c.dst) \in Nat /\ DirectSize(c.align) \in Nat /\ SourceSize(c) \in Nat
<1>1. c.op \in Ops \ {"SET_FB_BASE", "SWITCH"}
  BY OpsAreThese DEF OpsIn
<1>2. c.op = "MASK" => Size(c) = 2 + OperandSize(c.dst) + DirectSize(c.align) + SourceSize(c)
  BY SizeOf
<1>3. c.op = "CLEAR" => Size(c) = 2 + OperandSize(c.dst)
  BY SizeOf
<1>4. c.op \notin {"MASK", "CLEAR"} => Size(c) = 2 + OperandSize(c.dst) + SourceSize(c)
  <2>1. c.op \notin {"MASK", "CLEAR"} => c.op \in Logic \union Arithmetic \union Results \union {"SHIFT"}
    BY <1>1 DEF Logic, Arithmetic, Results, Ops
  <2> QED
    BY <2>1, SizeOf
<1>5. OperandSize(c.dst) \in Nat /\ DirectSize(c.align) \in Nat /\ SourceSize(c) \in Nat
  BY DEF OperandSize, DirectSize, SourceSize
<1> QED
  BY <1>2, <1>3, <1>4, <1>5

LEMMA DestReached ==
  ASSUME NEW t, WellFormedTable(t), NEW k, NEW ip, Reached(t, ip, k, "dest")
  PROVE  Reached(t, ip + OperandSize(t.code[k].dst), k, AfterDest(t.code[k].op))
<1> DEFINE c == t.code[k]
<1>1. k \in DOMAIN t.code /\ c.op \in OpsIn("dest") /\ ip = k + 2 /\ k \in Nat
  BY DEF Reached, StandsAt, Consumed, WellFormedTable
<1>2. c.op \in Ops \ {"SET_FB_BASE", "SWITCH"}
  BY <1>1, OpsAreThese DEF OpsIn
<1>3. CASE c.op = "MASK"
  <2>1. AfterDest(c.op) = "immediate"
    BY <1>3 DEF AfterDest
  <2>2. ip + OperandSize(c.dst) = k + (2 + OperandSize(c.dst))
    BY <1>1, CommandSizes
  <2>3. c.op \in OpsIn("immediate")
    BY <1>3 DEF OpsIn
  <2> QED
    BY <1>1, <2>1, <2>2, <2>3 DEF Reached, StandsAt, Consumed
<1>4. CASE c.op = "CLEAR"
  <2>1. AfterDest(c.op) = "execute"
    BY <1>4 DEF AfterDest
  <2>2. ip + OperandSize(c.dst) = k + Size(c)
    BY <1>1, <1>4, CommandSizes
  <2>3. c.op \in OpsIn("execute")
    BY <1>2, OpsAreThese DEF OpsIn
  <2> QED
    BY <1>1, <2>1, <2>2, <2>3 DEF Reached, StandsAt, Consumed
<1>5. CASE c.op \notin {"MASK", "CLEAR"}
  <2>1. AfterDest(c.op) = "source"
    BY <1>5 DEF AfterDest
  <2>2. ip + OperandSize(c.dst) = k + (Size(c) - SourceSize(c))
    BY <1>1, <1>5, CommandSizes
  <2>3. c.op \in OpsIn("source")
    BY <1>2, <1>5, OpsAreThese DEF OpsIn
  <2> QED
    BY <1>1, <2>1, <2>2, <2>3 DEF Reached, StandsAt, Consumed
<1> QED
  BY <1>3, <1>4, <1>5

LEMMA ImmediateReached ==
  ASSUME NEW t, WellFormedTable(t), NEW k, NEW ip, Reached(t, ip, k, "immediate")
  PROVE  Reached(t, ip + DirectSize(t.code[k].align), k, "source")
<1> DEFINE c == t.code[k]
<1>1. k \in DOMAIN t.code /\ c.op = "MASK" /\ ip = k + (2 + OperandSize(c.dst)) /\ k \in Nat
  BY DEF Reached, StandsAt, Consumed, WellFormedTable, OpsIn
<1>2. c.op \in OpsIn("dest") /\ c.op \in OpsIn("source")
  BY <1>1, OpsAreThese DEF OpsIn, Ops
<1>3. ip + DirectSize(c.align) = k + (Size(c) - SourceSize(c))
  BY <1>1, <1>2, CommandSizes
<1> QED
  BY <1>1, <1>2, <1>3 DEF Reached, StandsAt, Consumed

LEMMA Falling ==
  ASSUME NEW t, WellFormedTable(t), NEW o \in DOMAIN t.code,
         t.code[o].op \notin {"EOT", "INVALID"} \union NotImplementedOps,
         t.code[o].op = "JUMP" => t.code[o].when # "NoCondition"
  PROVE  o + Size(t.code[o]) \in DOMAIN t.code /\ Follows(t.code[o], t.code[o + Size(t.code[o])])
BY DEF WellFormedTable, Falls

LEMMA SourceReached ==
  ASSUME NEW t, WellFormedTable(t), NEW k, NEW ip, Reached(t, ip, k, "source")
  PROVE  Reached(t, ip + SourceSize(t.code[k]), k, IF t.code[k].op = "SWITCH" THEN "switch" ELSE "execute")
<1> DEFINE c == t.code[k]
<1>1. k \in DOMAIN t.code /\ c.op \in OpsIn("source") /\ ip = k + (Size(c) - SourceSize(c)) /\ k \in Nat
  BY DEF Reached, StandsAt, Consumed, WellFormedTable
<1>2. c.op \in Ops \ {"CLEAR"}
  BY <1>1, OpsAreThese DEF OpsIn
<1>3. Size(c) \in Nat /\ SourceSize(c) \in Nat
  BY <1>1, SizesAreBytes DEF WellFormedTable
<1>4. ip + SourceSize(c) = k + Size(c)
  BY <1>1, <1>3
<1>5. CASE c.op = "SWITCH"
  <2>1. k + Size(c) \in DOMAIN t.code /\ Follows(c, t.code[k + Size(c)])
    BY <1>1, <1>5, Falling DEF NotImplementedOps
  <2> QED
    BY <1>1, <1>4, <1>5, <2>1 DEF Reached, StandsAt, Follows, OpsIn
<1>6. CASE c.op # "SWITCH"
  <2>1. c.op \in OpsIn("execute")
    BY <1>2, <1>6, OpsAreThese DEF OpsIn
  <2> QED
    BY <1>1, <1>4, <1>6, <2>1 DEF Reached, StandsAt, Consumed
<1> QED
  BY <1>5, <1>6

LEMMA ExecuteReached ==
  ASSUME NEW t, WellFormedTable(t), NEW k, NEW ip, NEW ph \in {"execute", "put"}, Reached(t, ip, k, ph)
  PROVE  /\ t.code[k].op \in Changes => Reached(t, ip, k, "put")
         /\ Reached(t, ip, k, "fetch")
<1> DEFINE c == t.code[k]
<1>1. k \in DOMAIN t.code /\ c.op \in OpsIn(ph) /\ ip = k + Size(c)
  BY DEF Reached, StandsAt, Consumed
<1>2. c.op \in Ops \ {"SWITCH"}
  BY <1>1, OpsAreThese DEF OpsIn, Changes, Ops, Logic, Arithmetic
<1>3. c.op \in Changes => Reached(t, ip, k, "put")
  BY <1>1 DEF Reached, StandsAt, Consumed, OpsIn
<1>4. ip \in DOMAIN t.code /\ Follows(c, t.code[ip])
  BY <1>1, <1>2, Falling DEF NotImplementedOps, Ops
<1>5. t.code[ip].op \notin OfSwitch
  BY <1>2, <1>4 DEF Follows, Ops
<1> QED
  BY <1>3, <1>4, <1>5 DEF Reached, StandsAt, Standing

LEMMA CaseReached ==
  ASSUME NEW t, WellFormedTable(t), NEW k, NEW ip, Reached(t, ip, k, "switch")
  PROVE  /\ t.code[ip].op = "CASE" => /\ Reached(t, t.code[ip].to, k, "fetch")
                                      /\ Reached(t, ip + (3 + DirectSize(t.code[k].align)), k, "switch")
         /\ t.code[ip].op = "END_SWITCH" => Reached(t, ip + 2, k, "fetch")
<1> DEFINE c == t.code[ip]
<1>1. ip \in DOMAIN t.code /\ k \in DOMAIN t.code /\ t.code[k].op = "SWITCH"
      /\ (c.op = "CASE" => c.align = t.code[k].align)
  BY DEF Reached, StandsAt, OpsIn
<1>2. ASSUME c.op = "CASE"
      PROVE  Reached(t, c.to, k, "fetch") /\ Reached(t, ip + (3 + DirectSize(t.code[k].align)), k, "switch")
  <2>1. Size(c) = 3 + DirectSize(t.code[k].align)
    BY <1>1, <1>2, SizeOf
  <2>2. ip + Size(c) \in DOMAIN t.code /\ Follows(c, t.code[ip + Size(c)])
    BY <1>1, <1>2, Falling DEF NotImplementedOps
  <2>3. c.to \in DOMAIN t.code /\ t.code[c.to].op \notin OfSwitch
    BY <1>1, <1>2 DEF WellFormedTable
  <2>4. Reached(t, c.to, k, "fetch")
    BY <2>3 DEF Reached, StandsAt, Standing
  <2>5. Reached(t, ip + Size(c), k, "switch")
    BY <1>1, <1>2, <2>2 DEF Reached, StandsAt, Follows, OpsIn
  <2> QED
    BY <2>1, <2>4, <2>5
<1>3. ASSUME c.op = "END_SWITCH"
      PROVE  Reached(t, ip + 2, k, "fetch")
  <2>1. Size(c) = 2
    BY <1>3, SmallSizes
  <2>2. ip + Size(c) \in DOMAIN t.code /\ Follows(c, t.code[ip + Size(c)])
    BY <1>1, <1>3, Falling DEF NotImplementedOps
  <2> QED
    BY <1>3, <2>1, <2>2 DEF Reached, StandsAt, Standing, Follows
<1> QED
  BY <1>2, <1>3

LEMMA CommandReached ==
  ASSUME NEW t, WellFormedTable(t), NEW o, Standing(t, o), NEW k, NEW n, NEW c, c = t.code[o],
         \/ n = 3 /\ c.op \in (Jumps \ {"JUMP"}) \union {"SET_ATI_PORT", "SET_REG_BLOCK"}
         \/ n = 3 /\ c.op = "JUMP" /\ c.when # "NoCondition"
         \/ n = 2 /\ c.op \in {"CALL_TABLE", "SET_DATA_BLOCK", "DELAY", "POST_CARD", "DEBUG"}
         \/ n = 1 /\ c.op \in {"SET_PCI_PORT", "SET_SYS_IO_PORT", "NOP"}
         \/ n = 3 + c.length /\ c.op = "DS"
  PROVE  n \in Nat /\ Reached(t, o + n, k, "fetch")
<1>1. o \in DOMAIN t.code /\ (c.op = "DS" => c.length \in Nat) /\ o \in Nat
  BY DEF Standing, WellFormedTable
<1>2. n \in Nat
  BY <1>1
<1>3. Size(c) = n
  BY SmallSizes DEF Jumps
<1>4. /\ c.op \notin {"EOT", "INVALID"} \union NotImplementedOps
      /\ c.op = "JUMP" => c.when # "NoCondition"
      /\ c.op \notin {"SWITCH", "CASE"}
  BY DEF Jumps, NotImplementedOps
<1>5. o + n \in DOMAIN t.code /\ Follows(c, t.code[o + n])
  BY <1>1, <1>3, <1>4, Falling
<1>6. t.code[o + n].op \notin OfSwitch
  BY <1>4, <1>5 DEF Follows
<1> QED
  BY <1>2, <1>5, <1>6 DEF Reached, StandsAt, Standing

LEMMA JumpReached ==
  ASSUME NEW t, WellFormedTable(t), NEW o, Standing(t, o), NEW k, NEW c, c = t.code[o], c.op \in Jumps
  PROVE  c.to \in Nat /\ Reached(t, c.to, k, "fetch")
<1>1. c.to \in DOMAIN t.code /\ t.code[c.to].op \notin OfSwitch
  BY DEF Standing, WellFormedTable
<1>2. c.to \in Nat
  BY <1>1 DEF WellFormedTable
<1> QED
  BY <1>1, <1>2 DEF Reached, StandsAt, Standing
-----------------------------------------------------------------------------
Eff == IF InIndirect THEN resume ELSE phase

Track ==
  /\ Parsing => Reached(Table, Running.ip, cmd, Eff)
  /\ \A i \in 1 .. Len(stack) - 1 : Standing(BIOS.tables[stack[i].table], stack[i].ip)

IOTrack ==
  /\ ioPointer \in DOMAIN BIOS.io
  /\ ~InIndirect => ioPointer = 0 \/ Entry.op = "NOP"
  /\ phase = "indirect" => Entry.op # "NOP"

TrackInv == AtomType /\ Track /\ IOTrack

LEMMA ImageIsWell ==
  ASSUME image \in DOMAIN Images
  PROVE  /\ \A i \in DOMAIN BIOS.tables : WellFormedTable(BIOS.tables[i]) /\ WordsOf(BIOS.tables[i])
         /\ WellFormedIO(BIOS.io)
BY ImagesAssumption, WordsAssumption DEF BIOS, WellFormed

LEMMA TopFrame ==
  ASSUME StackType, phase # "idle"
  PROVE  /\ Len(stack) \in Nat /\ Len(stack) >= 1 /\ Len(stack) \in DOMAIN stack /\ DOMAIN stack = 1 .. Len(stack)
         /\ Running \in Frames /\ Running.ip \in Nat /\ Running.table \in DOMAIN BIOS.tables
<1>1. Len(stack) \in Nat /\ Len(stack) >= 1 /\ DOMAIN stack = 1 .. Len(stack)
  BY DEF StackType
<1>2. Len(stack) \in DOMAIN stack
  BY <1>1
<1>3. Running \in Frames
  BY <1>2 DEF StackType, Running
<1> QED
  BY <1>1, <1>2, <1>3 DEF Frames

LEMMA TopReplaced ==
  ASSUME StackType, phase # "idle", image' = image, phase' # "idle", NEW f \in Frames,
         stack' = [stack EXCEPT ![Len(stack)] = f]
  PROVE  /\ StackType'
         /\ Len(stack') = Len(stack) /\ Running' = f
         /\ \A i \in 1 .. Len(stack) - 1 : stack'[i] = stack[i]
<1>1. Len(stack) \in Nat /\ Len(stack) >= 1 /\ Len(stack) \in DOMAIN stack /\ DOMAIN stack = 1 .. Len(stack)
  BY TopFrame
<1>2. Frames' = Frames
  BY DEF Frames, BIOS
<1>3. stack' \in Seq(Frames) /\ Len(stack') = Len(stack)
  BY ExceptSeq, <1>1 DEF StackType
<1>4. stack'[Len(stack)] = f
  BY <1>1
<1>5. \A i \in 1 .. Len(stack) - 1 : stack'[i] = stack[i]
  <2>1. \A i \in 1 .. Len(stack) : stack'[i] = IF i = Len(stack) THEN f ELSE stack[i]
    BY ExceptSeq, <1>1 DEF StackType
  <2>2. \A m \in Nat : \A i \in 1 .. m - 1 : i \in 1 .. m /\ i # m
    OBVIOUS
  <2> QED
    BY <1>1, <2>1, <2>2
<1>6. stack' # <<>>
  BY <1>1, <1>3
<1> QED
  BY <1>2, <1>3, <1>4, <1>5, <1>6 DEF StackType, Running

LEMMA TrackReplaced ==
  ASSUME StackType, Track, phase # "idle", image' = image, phase' # "idle", NEW f \in Frames, f.table = Running.table,
         stack' = [stack EXCEPT ![Len(stack)] = f],
         Parsing' => Reached(Table, f.ip, cmd', Eff')
  PROVE  StackType' /\ Track' /\ Table' = Table /\ Running' = f
<1>1. /\ StackType'
      /\ Len(stack') = Len(stack) /\ Running' = f
      /\ \A i \in 1 .. Len(stack) - 1 : stack'[i] = stack[i]
  BY TopReplaced
<1>2. BIOS' = BIOS
  BY DEF BIOS
<1>3. Table' = Table
  BY <1>1, <1>2 DEF Table
<1>4. (Parsing => Reached(Table, Running.ip, cmd, Eff))'
  BY <1>1, <1>3
<1>5. (\A i \in 1 .. Len(stack) - 1 : Standing(BIOS.tables[stack[i].table], stack[i].ip))'
  BY <1>1, <1>2 DEF Track
<1> QED
  BY <1>1, <1>3, <1>4, <1>5 DEF Track

LEMMA TrackMoves ==
  ASSUME StackType, Track, phase # "idle", image' = image, phase' # "idle", NEW n \in Nat, Advance(n),
         Parsing' => Reached(Table, Running.ip + n, cmd', Eff')
  PROVE  StackType' /\ Track' /\ Table' = Table /\ Running' = [Running EXCEPT !.ip = @ + n]
<1> DEFINE f == [Running EXCEPT !.ip = @ + n]
<1>1. Running \in Frames
  BY TopFrame
<1>2. Running.ip + n \in Nat
  BY TopFrame
<1>3. f \in Frames /\ f.table = Running.table /\ f.ip = Running.ip + n
  BY <1>1, <1>2 DEF Frames
<1>4. stack' = [stack EXCEPT ![Len(stack)] = f]
  BY DEF Advance, Running
<1> HIDE DEF f
<1>5. StackType' /\ Track' /\ Table' = Table /\ Running' = f
  BY <1>3, <1>4, TrackReplaced
<1> QED
  BY <1>5 DEF f

LEMMA TrackJumps ==
  ASSUME StackType, Track, phase # "idle", image' = image, phase' # "idle", NEW o \in Nat,
         stack' = [stack EXCEPT ![Len(stack)].ip = o],
         Parsing' => Reached(Table, o, cmd', Eff')
  PROVE  StackType' /\ Track' /\ Table' = Table /\ Running' = [Running EXCEPT !.ip = o]
<1> DEFINE f == [Running EXCEPT !.ip = o]
<1>1. Running \in Frames
  BY TopFrame
<1>2. f \in Frames /\ f.table = Running.table /\ f.ip = o
  BY <1>1 DEF Frames
<1>3. stack' = [stack EXCEPT ![Len(stack)] = f]
  BY DEF Running
<1> HIDE DEF f
<1>4. StackType' /\ Track' /\ Table' = Table /\ Running' = f
  BY <1>2, <1>3, TrackReplaced
<1> QED
  BY <1>4 DEF f

LEMMA TrackStays ==
  ASSUME StackType, Track, phase # "idle", image' = image, phase' # "idle", stack' = stack,
         Parsing' => Reached(Table, Running.ip, cmd', Eff')
  PROVE  StackType' /\ Track' /\ Table' = Table /\ Running' = Running
<1>1. BIOS' = BIOS /\ Running' = Running
  BY DEF BIOS, Running
<1>2. Table' = Table
  BY <1>1 DEF Table
<1>3. Frames' = Frames
  BY <1>1 DEF Frames
<1>4. StackType'
  BY <1>3 DEF StackType
<1>5. (Parsing => Reached(Table, Running.ip, cmd, Eff))'
  BY <1>1, <1>2
<1>6. (\A i \in 1 .. Len(stack) - 1 : Standing(BIOS.tables[stack[i].table], stack[i].ip))'
  BY <1>1 DEF Track
<1> QED
  BY <1>1, <1>2, <1>4, <1>5, <1>6 DEF Track

LEMMA FrameEntered ==
  ASSUME image \in DOMAIN Images, NEW i \in DOMAIN BIOS.tables, NEW ps \in Int,
         NEW ws \in [0 .. BIOS.tables[i].ws - 1 -> Garbage]
  PROVE  [table |-> i, ip |-> 0, ws |-> ws, base |-> ps] \in Frames
<1>1. BIOS.tables[i].ws \in Nat
  BY ImageIsWell DEF WellFormedTable
<1>2. Garbage \subseteq Word
  BY WordsAssumption
<1>3. ws \in [0 .. BIOS.tables[i].ws - 1 -> Word]
  BY <1>2
<1>4. ws \in Spaces
  BY <1>1, <1>3 DEF Spaces
<1> QED
  BY <1>4 DEF Frames

LEMMA TrackEnters ==
  ASSUME image \in DOMAIN Images, image' = image, NEW tables \in Seq(Frames), NEW i \in DOMAIN BIOS.tables, NEW ps \in Int,
         \A j \in 1 .. Len(tables) : Standing(BIOS.tables[tables[j].table], tables[j].ip),
         Enter(i, tables, ps)
  PROVE  StackType' /\ Track' /\ phase' \in {"fetch", "idle"}
<1>1. BIOS' = BIOS /\ Frames' = Frames
  BY DEF BIOS, Frames
<1>2. CASE ReturnWith("UNEXPECTED_BEHAVIOR")
  <2>1. stack' = <<>> /\ phase' = "idle"
    BY <1>2 DEF ReturnWith
  <2>2. stack' \in Seq(Frames) /\ Len(stack') = 0
    BY <2>1, EmptySeq
  <2> QED
    BY <1>1, <2>1, <2>2 DEF StackType, Track, Parsing
<1>3. ASSUME NEW ws \in [0 .. BIOS.tables[i].ws - 1 -> Garbage],
             stack' = Append(tables, [table |-> i, ip |-> 0, ws |-> ws, base |-> ps]),
             phase' = "fetch"
      PROVE  StackType' /\ Track' /\ phase' \in {"fetch", "idle"}
  <2> DEFINE f == [table |-> i, ip |-> 0, ws |-> ws, base |-> ps]
  <2>1. f \in Frames
    BY FrameEntered
  <2>2. f.table = i /\ f.ip = 0
    OBVIOUS
  <2> HIDE DEF f
  <2>3. stack' \in Seq(Frames) /\ Len(stack') = Len(tables) + 1 /\ stack'[Len(tables) + 1] = f
        /\ \A j \in 1 .. Len(tables) : stack'[j] = tables[j]
    BY <1>3, <2>1, AppendProperties DEF f
  <2>4. Len(tables) \in Nat
    OBVIOUS
  <2>5. stack' # <<>>
    BY <2>3, <2>4
  <2>6. Running' = f /\ Table' = BIOS.tables[i]
    BY <1>1, <2>2, <2>3 DEF Running, Table
  <2>7. Standing(BIOS.tables[i], 0)
    BY ImageIsWell DEF WellFormedTable, Standing
  <2>8. Eff' = "fetch"
    BY <1>3 DEF Eff, InIndirect
  <2>9. Reached(Table', Running'.ip, cmd', Eff')
    BY <2>2, <2>6, <2>7, <2>8 DEF Reached, StandsAt
  <2>10. \A j \in 1 .. Len(stack') - 1 : Standing(BIOS'.tables[stack'[j].table], stack'[j].ip)
    BY <1>1, <2>3, <2>4
  <2> QED
    BY <1>1, <1>3, <2>3, <2>5, <2>9, <2>10 DEF StackType, Track
<1> QED
  BY <1>2, <1>3 DEF Enter

LEMMA NowReached ==
  ASSUME TrackInv, Parsing
  PROVE  /\ phase # "idle" /\ Running.table \in DOMAIN BIOS.tables /\ Running.ip \in Nat
         /\ WellFormedTable(Table) /\ WordsOf(Table)
         /\ Reached(Table, Running.ip, cmd, Eff)
<1>1. phase # "idle"
  BY DEF Parsing
<1>2. Running.table \in DOMAIN BIOS.tables /\ Running.ip \in Nat
  BY <1>1, TopFrame DEF TrackInv, AtomType
<1> QED
  BY <1>1, <1>2, ImageIsWell DEF TrackInv, AtomType, Track, Table

\* What reading an operand leaves.
LEMMA WordTaken ==
  ASSUME AtomType, phase # "idle", NEW kind, NEW i, NEW next \in Resumes, NEW field \in {"Dest", "Source"},
         Get(kind, i, field, next)
  PROVE  /\ TempType' /\ Eff' = next
         /\ phase' \in Phases \ {"idle", "indirect"} /\ (InIndirect' => resume' \in Resumes)
<1>0. next \in Phases \ {"idle", "search", "indirect"}
  BY DEF Resumes, Phases
<1>1. CASE Indirect(kind)
  <2>1. /\ temp' = [temp EXCEPT !.Index = i + temp.RegBlock, !.IndirectData = WordOf(temp.PortID), !.into = field]
        /\ phase' = "search" /\ resume' = next
    BY <1>1 DEF Get
  <2>2. WordOf(temp.PortID) \in Word
    BY ShiftedWords
  <2>3. TempType'
    BY <2>1, <2>2 DEF AtomType, TempType
  <2> QED
    BY <2>1, <2>3 DEF Eff, InIndirect, Phases
<1>2. CASE ~Indirect(kind)
  <2>1. phase' = next /\ resume' = resume
    BY <1>2 DEF Get
  <2>2. PICK w \in Operand(kind, i, Cmd.align) : temp' = Into(field, w)
    BY <1>2 DEF Get
  <2>3. w \in Word
    BY <2>2, OperandWords
  <2>4. TempType'
    BY <2>2, <2>3 DEF AtomType, TempType, Into
  <2> QED
    BY <1>0, <2>1, <2>4 DEF Eff, InIndirect
<1> QED
  BY <1>1, <1>2

LEMMA TrackInit == InterpreterInit => TrackInv
<1> SUFFICES ASSUME InterpreterInit PROVE TrackInv
  OBVIOUS
<1>1. phase = "idle" /\ stack = <<>> /\ resume = "idle" /\ cmd = 0 /\ ioPointer = 0 /\ pParameterSpace = 0
  BY DEF InterpreterInit
<1>2. image \in DOMAIN Images /\ Words(params) /\ Words(places)
  BY WordsAssumption DEF InterpreterInit
<1>3. TempType
  <2>1. {} \in Word
    BY DEF Word
  <2> QED
    BY <2>1 DEF InterpreterInit, TempType
<1>4. stack \in Seq(Frames) /\ Len(stack) = 0
  BY <1>1, EmptySeq
<1>5. 0 \in DOMAIN BIOS.io
  BY <1>2, ImageIsWell DEF WellFormedIO
<1>6. AtomType
  BY <1>1, <1>2, <1>3, <1>4 DEF AtomType, StackType, InIndirect, Phases
<1>7. Track
  BY <1>1, <1>4 DEF Track, Parsing
<1>8. IOTrack
  BY <1>1, <1>5 DEF IOTrack, InIndirect
<1> QED
  BY <1>6, <1>7, <1>8 DEF TrackInv

LEMMA TrackExec == TrackInv /\ Exec => TrackInv'
<1> SUFFICES ASSUME TrackInv, Exec PROVE TrackInv'
  OBVIOUS
<1>1. image \in DOMAIN Images /\ image' = image /\ BIOS' = BIOS
  BY DEF TrackInv, AtomType, Exec, chosen, BIOS
<1>2. PICK i \in DOMAIN BIOS.tables, none \in {<<>>}, ps \in {0} : Enter(i, none, ps)
  BY DEF Exec
<1>3. none \in Seq(Frames) /\ Len(none) = 0 /\ ps \in Int
  BY <1>2, EmptySeq
<1>4. StackType' /\ Track' /\ phase' \in {"fetch", "idle"}
  <2>1. \A j \in 1 .. Len(none) : Standing(BIOS.tables[none[j].table], none[j].ip)
    BY <1>3
  <2> QED
    BY <1>1, <1>2, <1>3, <2>1, TrackEnters
<1>5. Words(params') /\ Words(places') /\ pParameterSpace' \in Int /\ cmd' \in Nat
  BY WordsAssumption DEF TrackInv, AtomType, Exec
<1>6. TempType'
  <2>1. PICK g \in Garbage, f \in FirstFlags :
         temp' = [temp EXCEPT !.Dest = g, !.Source = g, !.IndirectData = g, !.Quotient = g, !.Reminder = g,
                  !.Attributes = g \intersect AlignmentMask("LowerWord"), !.DataBlock = Number(g \intersect AlignmentMask("LowerWord")),
                  !.Shift = Number(g \intersect AlignmentMask("Byte0")), !.Flags = f,
                  !.RegBlock = 0, !.FBWindow = {}, !.Port = "ATI", !.PortID = 0]
    BY DEF Exec
  <2>2. g \in Word /\ g \intersect AlignmentMask("LowerWord") \in Word /\ {} \in Word
    BY WordsAssumption DEF Word
  <2> QED
    BY <2>1, <2>2 DEF TrackInv, AtomType, TempType
<1>7. AtomType'
  BY <1>1, <1>4, <1>5, <1>6 DEF AtomType, InIndirect, Phases
<1>8. IOTrack'
  <2>1. 0 \in DOMAIN BIOS.io
    BY <1>1, ImageIsWell DEF WellFormedIO
  <2>2. ioPointer' = 0
    BY DEF Exec
  <2> QED
    BY <1>1, <1>4, <2>1, <2>2 DEF IOTrack, InIndirect
<1> QED
  BY <1>4, <1>7, <1>8 DEF TrackInv

\* Steps that leave indirect IO alone.
LEMMA IOStays ==
  ASSUME IOTrack, ~InIndirect, image' = image, ioPointer' = ioPointer, phase' # "indirect"
  PROVE  IOTrack'
<1>1. BIOS' = BIOS /\ Entry' = Entry
  BY DEF BIOS, Entry
<1> QED
  BY <1>1 DEF IOTrack

LEMMA TempWordType ==
  ASSUME TempType, NEW w \in Word
  PROVE  /\ temp' = [temp EXCEPT !.Dest = w] => TempType'
         /\ temp' = [temp EXCEPT !.Source = w] => TempType'
         /\ temp' = [temp EXCEPT !.Mask = w] => TempType'
         /\ temp' = [temp EXCEPT !.IndirectData = w] => TempType'
         /\ temp' = temp => TempType'
         /\ \A f : temp' = Into(f, w) => TempType'
<1>1. temp' = [temp EXCEPT !.Dest = w] => TempType'
  BY DEF TempType
<1>2. temp' = [temp EXCEPT !.Source = w] => TempType'
  BY DEF TempType
<1>3. temp' = [temp EXCEPT !.Mask = w] => TempType'
  BY DEF TempType
<1>4. temp' = [temp EXCEPT !.IndirectData = w] => TempType'
  BY DEF TempType
<1>5. temp' = temp => TempType'
  BY DEF TempType
<1>6. \A f : temp' = Into(f, w) => TempType'
  BY <1>1, <1>2, <1>5 DEF Into
<1> QED
  BY <1>1, <1>2, <1>3, <1>4, <1>5, <1>6

LEMMA AtFetch ==
  ASSUME NEW ops, TrackInv, AtOp(ops)
  PROVE  /\ Parsing /\ ~InIndirect /\ Eff = "fetch" /\ Here.op \in ops
         /\ Standing(Table, Running.ip) /\ Here = Table.code[Running.ip]
<1>1. Parsing /\ ~InIndirect /\ Eff = "fetch" /\ Here.op \in ops
  BY DEF AtOp, Parsing, InIndirect, Eff, Here
<1>2. Reached(Table, Running.ip, cmd, "fetch")
  BY <1>1, NowReached
<1> QED
  BY <1>1, <1>2 DEF Reached, StandsAt, Here

LEMMA FetchReached ==
  ASSUME NEW ops, TrackInv, AtOp(ops), NEW n,
         \/ n = 3 /\ Here.op \in (Jumps \ {"JUMP"}) \union {"SET_ATI_PORT", "SET_REG_BLOCK"}
         \/ n = 3 /\ Here.op = "JUMP" /\ Here.when # "NoCondition"
         \/ n = 2 /\ Here.op \in {"CALL_TABLE", "SET_DATA_BLOCK", "DELAY", "POST_CARD", "DEBUG"}
         \/ n = 1 /\ Here.op \in {"SET_PCI_PORT", "SET_SYS_IO_PORT", "NOP"}
         \/ n = 3 + Here.length /\ Here.op = "DS"
  PROVE  n \in Nat /\ Reached(Table, Running.ip + n, cmd, "fetch")
<1>1. WellFormedTable(Table) /\ Standing(Table, Running.ip) /\ Here = Table.code[Running.ip]
  BY AtFetch, NowReached
<1> QED
  BY <1>1, CommandReached

\* Commands of one step that only change temp.
LEMMA TrackOnlyTemp ==
  ASSUME TrackInv, NEW ops, AtOp(ops), UNCHANGED onlyTemp, TempType',
         \/ \E n \in Nat : Advance(n) /\ Reached(Table, Running.ip + n, cmd, "fetch")
         \/ \E o \in Nat : stack' = [stack EXCEPT ![Len(stack)].ip = o] /\ Reached(Table, o, cmd, "fetch")
  PROVE  TrackInv'
<1>1. phase = "fetch" /\ UNCHANGED <<image, phase, resume, cmd, ioPointer, params, pParameterSpace, places>>
  BY DEF AtOp, onlyTemp, chosen
<1>2. Eff' = "fetch" /\ ~InIndirect /\ ~InIndirect'
  BY <1>1 DEF Eff, InIndirect
<1>3. StackType' /\ Track'
  <2>1. ASSUME NEW n \in Nat, Advance(n), Reached(Table, Running.ip + n, cmd, "fetch")
        PROVE  StackType' /\ Track'
    BY <1>1, <1>2, <2>1, TrackMoves DEF TrackInv, AtomType
  <2>2. ASSUME NEW o \in Nat, stack' = [stack EXCEPT ![Len(stack)].ip = o], Reached(Table, o, cmd, "fetch")
        PROVE  StackType' /\ Track'
    BY <1>1, <1>2, <2>2, TrackJumps DEF TrackInv, AtomType
  <2> QED
    BY <2>1, <2>2
<1>4. AtomType'
  BY <1>1, <1>2, <1>3 DEF TrackInv, AtomType, Words
<1>5. IOTrack'
  BY <1>1, <1>2, IOStays DEF TrackInv
<1> QED
  BY <1>3, <1>4, <1>5 DEF TrackInv

LEMMA Refused ==
  ASSUME AtomType, IOTrack, ~InIndirect, NEW r, ReturnWith(r),
         UNCHANGED <<image, resume, cmd, temp, ioPointer, params, places>>, pParameterSpace' \in Int
  PROVE  TrackInv'
<1>1. stack' = <<>> /\ phase' = "idle"
  BY DEF ReturnWith
<1>2. stack' \in Seq(Frames') /\ Len(stack') = 0
  BY <1>1, EmptySeq
<1>3. AtomType'
  BY <1>1, <1>2 DEF AtomType, StackType, TempType, Words, InIndirect, Phases
<1>4. Track'
  BY <1>1, <1>2 DEF Track, Parsing
<1>5. IOTrack'
  BY <1>1, IOStays
<1> QED
  BY <1>3, <1>4, <1>5 DEF TrackInv

LEMMA TrackCall == TrackInv /\ cmdCall_Table => TrackInv'
<1> SUFFICES ASSUME TrackInv, cmdCall_Table PROVE TrackInv'
  OBVIOUS
<1>1. AtOp({"CALL_TABLE"}) /\ UNCHANGED <<chosen, resume, cmd, temp, ioPointer, params, places, saves, execs>>
  BY DEF cmdCall_Table
<1>2. image' = image /\ UNCHANGED <<resume, cmd, temp, ioPointer, params, places>>
  BY <1>1 DEF chosen
<1>3. Parsing /\ ~InIndirect /\ Eff = "fetch" /\ Here.op = "CALL_TABLE" /\ phase # "idle"
  BY <1>1, AtFetch, NowReached
<1>4. Reached(Table, Running.ip + 2, cmd, "fetch")
  BY <1>1, <1>3, FetchReached
<1>5. TempType' /\ Words(params') /\ Words(places') /\ cmd' \in Nat /\ image' \in DOMAIN Images
  BY <1>2 DEF TrackInv, AtomType, TempType
<1>6. CASE Here.value \in DOMAIN BIOS.tables
  <2>1. PICK ps, tables : /\ ps = pParameterSpace + Table.ps /\ pParameterSpace' = ps
                          /\ tables = [stack EXCEPT ![Len(stack)].ip = @ + 2]
                          /\ Enter(Here.value, tables, ps)
    BY <1>6 DEF cmdCall_Table
  <2>2. ps \in Int
    BY <1>3, <2>1, NowReached DEF TrackInv, AtomType, WellFormedTable
  <2>3. tables \in Seq(Frames) /\ Len(tables) = Len(stack) /\ Len(stack) \in Nat
        /\ \A i \in 1 .. Len(stack) : tables[i] = IF i = Len(stack) THEN [Running EXCEPT !.ip = @ + 2] ELSE stack[i]
    <3> DEFINE f == [Running EXCEPT !.ip = @ + 2]
    <3>1. Running \in Frames /\ Running.ip + 2 \in Nat /\ Len(stack) \in Nat /\ Len(stack) \in 1 .. Len(stack)
      BY <1>3, TopFrame DEF TrackInv, AtomType
    <3>2. f \in Frames
      BY <3>1 DEF Frames
    <3>3. tables = [stack EXCEPT ![Len(stack)] = f]
      BY <2>1 DEF Running
    <3> HIDE DEF f
    <3>4. stack \in Seq(Frames)
      BY DEF TrackInv, AtomType, StackType
    <3>5. /\ tables \in Seq(Frames) /\ Len(tables) = Len(stack)
          /\ \A i \in 1 .. Len(stack) : tables[i] = IF i = Len(stack) THEN f ELSE stack[i]
      BY <3>1, <3>2, <3>3, <3>4, ExceptSeq
    <3> QED
      BY <3>1, <3>5 DEF f
  <2>4. \A i \in 1 .. Len(tables) : Standing(BIOS.tables[tables[i].table], tables[i].ip)
    <3> SUFFICES ASSUME NEW i \in 1 .. Len(stack)
                 PROVE  Standing(BIOS.tables[tables[i].table], tables[i].ip)
      BY <2>3
    <3>1. CASE i = Len(stack)
      <4>1. tables[i] = [Running EXCEPT !.ip = @ + 2]
        BY <2>3, <3>1
      <4>2. Running \in Frames
        BY <1>3, TopFrame DEF TrackInv, AtomType
      <4>3. tables[i].table = Running.table /\ tables[i].ip = Running.ip + 2
        BY <4>1, <4>2 DEF Frames
      <4> QED
        BY <1>4, <4>3 DEF Reached, StandsAt, Table
    <3>2. CASE i # Len(stack)
      <4>1. tables[i] = stack[i]
        BY <2>3, <3>2
      <4>2. i \in 1 .. Len(stack) - 1
        BY <2>3, <3>2
      <4> QED
        BY <4>1, <4>2 DEF TrackInv, Track
    <3> QED
      BY <3>1, <3>2
  <2>5. StackType' /\ Track' /\ phase' \in {"fetch", "idle"}
    BY <1>2, <1>6, <2>1, <2>2, <2>3, <2>4, TrackEnters DEF TrackInv, AtomType
  <2>6. ~InIndirect' /\ phase' # "indirect" /\ phase' \in Phases
    BY <2>5 DEF InIndirect, Phases
  <2>7. AtomType'
    BY <1>5, <2>1, <2>2, <2>5, <2>6 DEF AtomType
  <2>8. IOTrack'
    BY <1>2, <1>3, <2>6, IOStays DEF TrackInv
  <2> QED
    BY <2>5, <2>7, <2>8 DEF TrackInv
<1>7. CASE Here.value \notin DOMAIN BIOS.tables
  <2>1. Advance(2) /\ UNCHANGED <<pParameterSpace, phase, result>>
    BY <1>7 DEF cmdCall_Table
  <2>2. phase = "fetch" /\ phase' = "fetch"
    BY <1>1, <2>1 DEF AtOp
  <2>3. Eff' = "fetch" /\ ~InIndirect'
    BY <2>2 DEF Eff, InIndirect
  <2>4. StackType' /\ Track'
    BY <1>2, <1>3, <1>4, <2>1, <2>2, <2>3, TrackMoves DEF TrackInv, AtomType
  <2>5. AtomType'
    BY <1>5, <2>1, <2>2, <2>3, <2>4 DEF TrackInv, AtomType
  <2>6. IOTrack'
    BY <1>2, <1>3, <2>2, IOStays DEF TrackInv
  <2> QED
    BY <2>4, <2>5, <2>6 DEF TrackInv
<1> QED
  BY <1>6, <1>7

LEMMA TrackReturn == TrackInv /\ EndOfTable => TrackInv'
<1> SUFFICES ASSUME TrackInv, EndOfTable PROVE TrackInv'
  OBVIOUS
<1>1. AtOp({"EOT"}) /\ UNCHANGED <<chosen, resume, cmd, temp, ioPointer, params, places, saves, execs>>
  BY DEF EndOfTable
<1>2. image' = image /\ BIOS' = BIOS /\ UNCHANGED <<resume, cmd, temp, ioPointer, params, places>>
  BY <1>1 DEF chosen, BIOS
<1>3. Parsing /\ ~InIndirect /\ phase # "idle" /\ phase = "fetch"
  BY <1>1, AtFetch, NowReached DEF AtOp
<1>4. TempType' /\ Words(params') /\ Words(places') /\ cmd' \in Nat /\ image' \in DOMAIN Images
  BY <1>2 DEF TrackInv, AtomType, TempType
<1>5. CASE Len(stack) = 1
  BY <1>2, <1>3, <1>5, Refused DEF EndOfTable, TrackInv, AtomType
<1>6. CASE Len(stack) # 1
  <2> DEFINE n == Len(stack) - 1
  <2>1. /\ stack' = SubSeq(stack, 1, n) /\ phase' = "fetch"
        /\ pParameterSpace' = pParameterSpace - BIOS.tables[stack[n].table].ps
    BY <1>3, <1>6 DEF EndOfTable, ParametersBack
  <2>2. Len(stack) \in Nat /\ n \in 1 .. Len(stack) /\ n >= 1
    BY <1>3, <1>6, TopFrame DEF TrackInv, AtomType
  <2>3. stack \in Seq(Frames)
    BY DEF TrackInv, AtomType, StackType
  <2> HIDE DEF n
  <2>4. stack' \in Seq(Frames) /\ Len(stack') = n /\ \A i \in 1 .. n : stack'[i] = stack[i]
    <3>1. \A i \in 1 .. n : stack[i] \in Frames
      <4>1. \A i \in 1 .. n : i \in 1 .. Len(stack)
        BY <2>2
      <4> QED
        BY <2>3, <4>1
    <3>2. stack' = [i \in 1 .. n |-> stack[i]]
      <4>1. \A i \in 1 .. n : i + 1 - 1 = i
        OBVIOUS
      <4> QED
        BY <2>1, <2>2, <2>3, SubSeqProperties
    <3> QED
      BY <2>2, <3>1, <3>2
  <2>5. n \in Nat /\ n = Len(stack) - 1
    BY <2>2 DEF n
  <2>6. Frames' = Frames
    BY <1>2 DEF Frames
  <2>7. stack' # <<>>
    BY <2>2, <2>4
  <2>8. StackType'
    BY <2>1, <2>4, <2>6, <2>7 DEF StackType
  <2>9. Running' = stack[n] /\ Table' = BIOS.tables[stack[n].table]
    BY <1>2, <2>2, <2>4 DEF Running, Table
  <2>10. \A i \in 1 .. n : Standing(BIOS.tables[stack[i].table], stack[i].ip)
    BY <2>5 DEF TrackInv, Track
  <2>11. Eff' = "fetch" /\ ~InIndirect'
    BY <2>1 DEF Eff, InIndirect
  <2>12. Reached(Table', Running'.ip, cmd', Eff')
    <3>1. Standing(BIOS.tables[stack[n].table], stack[n].ip)
      BY <2>2, <2>10
    <3> QED
      BY <2>9, <2>11, <3>1 DEF Reached, StandsAt
  <2>13. \A i \in 1 .. Len(stack') - 1 : Standing(BIOS'.tables[stack'[i].table], stack'[i].ip)
    <3>1. \A i \in 1 .. n - 1 : i \in 1 .. n
      BY <2>5
    <3> QED
      BY <1>2, <2>4, <2>10, <3>1
  <2>14. Track'
    BY <2>12, <2>13 DEF Track
  <2>15. pParameterSpace' \in Int
    <3>1. stack[n] \in Frames
      BY <2>2, <2>3
    <3>2. stack[n].table \in DOMAIN BIOS.tables
      BY <3>1 DEF Frames
    <3>3. BIOS.tables[stack[n].table].ps \in Nat
      BY <3>2, ImageIsWell DEF TrackInv, AtomType, WellFormedTable
    <3> QED
      BY <2>1, <3>3 DEF TrackInv, AtomType
  <2>16. AtomType'
    BY <1>4, <2>1, <2>8, <2>11, <2>15 DEF AtomType, Phases
  <2>17. IOTrack'
    BY <1>2, <1>3, <2>1, IOStays DEF TrackInv
  <2> QED
    BY <2>14, <2>16, <2>17 DEF TrackInv
<1> QED
  BY <1>5, <1>6

LEMMA TrackRefuse == TrackInv /\ Refuse => TrackInv'
<1> SUFFICES ASSUME TrackInv, Refuse PROVE TrackInv'
  OBVIOUS
<1>1. AtOp(NotImplementedOps \union {"INVALID"})
      /\ UNCHANGED <<chosen, resume, cmd, temp, ioPointer, params, pParameterSpace, places, saves, execs>>
  BY DEF Refuse
<1>2. PICK r : ReturnWith(r)
  BY DEF Refuse
<1>3. UNCHANGED <<image, resume, cmd, temp, ioPointer, params, pParameterSpace, places>>
  BY <1>1 DEF chosen
<1>4. ~InIndirect
  BY <1>1, AtFetch
<1> QED
  BY <1>2, <1>3, <1>4, Refused DEF TrackInv, AtomType

LEMMA TrackOneStep == TrackInv /\ OneStepCommands => TrackInv'
<1> SUFFICES ASSUME TrackInv, OneStepCommands PROVE TrackInv'
  OBVIOUS
<1> USE DEF TrackInv
<1>0. WellFormedTable(Table) \/ ~Parsing
  BY NowReached
<1>1. CASE cmdSet_ATI_Port
  <2>1. AtOp({"SET_ATI_PORT"}) /\ UNCHANGED onlyTemp /\ Advance(3)
        /\ temp' = [temp EXCEPT !.Port = "ATI", !.PortID = Here.port]
    BY <1>1 DEF cmdSet_ATI_Port
  <2>2. Reached(Table, Running.ip + 3, cmd, "fetch")
    <3>1. Here.op \in {"SET_ATI_PORT"}
      BY <2>1, AtFetch
    <3> QED
      BY <2>1, <3>1, FetchReached
  <2>3. TempType'
    BY <2>1 DEF AtomType, TempType
  <2> QED
    BY <2>1, <2>2, <2>3, TrackOnlyTemp
<1>2. CASE cmdSet_X_Port
  <2>1. AtOp({"SET_PCI_PORT", "SET_SYS_IO_PORT"}) /\ UNCHANGED onlyTemp /\ Advance(1)
        /\ temp' = [temp EXCEPT !.Port = IF Here.op = "SET_PCI_PORT" THEN "PCI" ELSE "SYSIO"]
    BY <1>2 DEF cmdSet_X_Port
  <2>2. Reached(Table, Running.ip + 1, cmd, "fetch")
    <3>1. Here.op \in {"SET_PCI_PORT", "SET_SYS_IO_PORT"}
      BY <2>1, AtFetch
    <3> QED
      BY <2>1, <3>1, FetchReached
  <2>3. TempType'
    BY <2>1 DEF AtomType, TempType
  <2> QED
    BY <2>1, <2>2, <2>3, TrackOnlyTemp
<1>3. CASE cmdSet_Reg_Block
  <2>1. AtOp({"SET_REG_BLOCK"}) /\ UNCHANGED onlyTemp /\ Advance(3)
        /\ temp' = [temp EXCEPT !.RegBlock = Here.value]
    BY <1>3 DEF cmdSet_Reg_Block
  <2>2. Reached(Table, Running.ip + 3, cmd, "fetch")
    <3>1. Here.op \in {"SET_REG_BLOCK"}
      BY <2>1, AtFetch
    <3> QED
      BY <2>1, <3>1, FetchReached
  <2>3. TempType'
    BY <2>1 DEF AtomType, TempType
  <2> QED
    BY <2>1, <2>2, <2>3, TrackOnlyTemp
<1>4. CASE cmdSetDataBlock
  <2>1. AtOp({"SET_DATA_BLOCK"}) /\ UNCHANGED onlyTemp /\ Advance(2)
    BY <1>4 DEF cmdSetDataBlock
  <2>2. Reached(Table, Running.ip + 2, cmd, "fetch")
    <3>1. Here.op \in {"SET_DATA_BLOCK"}
      BY <2>1, AtFetch
    <3> QED
      BY <2>1, <3>1, FetchReached
  <2>3. PICK b : temp' = [temp EXCEPT !.DataBlock = b]
    BY <1>4 DEF cmdSetDataBlock
  <2>4. TempType'
    BY <2>3 DEF AtomType, TempType
  <2> QED
    BY <2>1, <2>2, <2>4, TrackOnlyTemp
<1>5. CASE Pass
  <2> DEFINE n == CASE Here.op = "NOP" -> 1 [] Here.op = "DS" -> 3 + Here.length [] OTHER -> 2
  <2>1. AtOp({"DELAY", "POST_CARD", "DEBUG", "DS", "NOP"}) /\ UNCHANGED <<onlyTemp, temp>> /\ Advance(n)
    BY <1>5 DEF Pass
  <2>2. n \in Nat /\ Reached(Table, Running.ip + n, cmd, "fetch")
    <3>1. \/ n = 2 /\ Here.op \in {"DELAY", "POST_CARD", "DEBUG"}
          \/ n = 1 /\ Here.op = "NOP"
          \/ n = 3 + Here.length /\ Here.op = "DS"
      BY <2>1, AtFetch
    <3> HIDE DEF n
    <3> QED
      BY <2>1, <3>1, FetchReached
  <2>3. TempType'
    BY <2>1 DEF AtomType, TempType
  <2> QED
    BY <2>1, <2>2, <2>3, TrackOnlyTemp
<1>6. CASE ProcessJump
  <2>1. AtOp(Jumps) /\ UNCHANGED <<onlyTemp, temp>>
        /\ IF Taken(Here) THEN stack' = [stack EXCEPT ![Len(stack)].ip = Here.to] ELSE Advance(3)
    BY <1>6 DEF ProcessJump
  <2>2. TempType'
    BY <2>1 DEF AtomType, TempType
  <2>3. CASE Taken(Here)
    <3>1. Here.to \in Nat /\ Reached(Table, Here.to, cmd, "fetch")
      BY <1>0, <2>1, AtFetch, JumpReached
    <3> QED
      BY <2>1, <2>2, <2>3, <3>1, TrackOnlyTemp
  <2>4. CASE ~Taken(Here)
    <3>1. Here.op = "JUMP" => Here.when # "NoCondition"
      BY <2>4 DEF Taken
    <3>2. Here.op \in Jumps
      BY <2>1, AtFetch
    <3>3. Reached(Table, Running.ip + 3, cmd, "fetch")
      BY <2>1, <3>1, <3>2, FetchReached
    <3> QED
      BY <2>1, <2>2, <2>4, <3>3, TrackOnlyTemp
  <2> QED
    BY <2>3, <2>4
<1>7. CASE cmdCall_Table
  BY <1>7, TrackCall
<1>8. CASE EndOfTable
  BY <1>8, TrackReturn
<1>9. CASE Refuse
  BY <1>9, TrackRefuse
<1> QED
  BY <1>1, <1>2, <1>3, <1>4, <1>5, <1>6, <1>7, <1>8, <1>9 DEF OneStepCommands

-----------------------------------------------------------------------------
\* The phases of a command with a header.
InCommand == {"dest", "immediate", "source", "execute", "put", "switch"}

LEMMA AtPhase ==
  ASSUME TrackInv, phase \in InCommand
  PROVE  /\ Parsing /\ ~InIndirect /\ Eff = phase /\ phase # "idle"
         /\ WellFormedTable(Table) /\ WordsOf(Table)
         /\ Reached(Table, Running.ip, cmd, phase)
         /\ cmd \in DOMAIN Table.code /\ Cmd = Table.code[cmd] /\ Cmd.op \in OpsIn(phase)
<1>1. Parsing /\ ~InIndirect /\ Eff = phase /\ phase # "idle" /\ phase # "fetch"
  BY DEF InCommand, Parsing, InIndirect, Eff
<1>2. WellFormedTable(Table) /\ WordsOf(Table) /\ Reached(Table, Running.ip, cmd, phase)
  BY <1>1, NowReached
<1> QED
  BY <1>1, <1>2 DEF Reached, Cmd

\* What every step of a command with a header leaves alone.
Kept ==
  /\ image' = image /\ cmd' \in Nat /\ ioPointer' = ioPointer /\ pParameterSpace' = pParameterSpace
  /\ TempType' /\ Words(params') /\ Words(places')
  /\ phase' \in Phases \ {"idle", "indirect"} /\ (InIndirect' => resume' \in Resumes)

LEMMA TrackAdvances ==
  ASSUME TrackInv, ~InIndirect, phase # "idle", Kept, NEW n \in Nat, Advance(n),
         Parsing' => Reached(Table, Running.ip + n, cmd', Eff')
  PROVE  TrackInv'
<1>1. StackType' /\ Track'
  BY TrackMoves DEF TrackInv, AtomType, Kept
<1>2. AtomType'
  BY <1>1 DEF TrackInv, AtomType, Kept
<1>3. IOTrack'
  BY IOStays DEF TrackInv, Kept
<1> QED
  BY <1>1, <1>2, <1>3 DEF TrackInv

LEMMA TrackRemains ==
  ASSUME TrackInv, ~InIndirect, phase # "idle", Kept, stack' = stack,
         Parsing' => Reached(Table, Running.ip, cmd', Eff')
  PROVE  TrackInv'
<1>1. StackType' /\ Track'
  BY TrackStays DEF TrackInv, AtomType, Kept
<1>2. AtomType'
  BY <1>1 DEF TrackInv, AtomType, Kept
<1>3. IOTrack'
  BY IOStays DEF TrackInv, Kept
<1> QED
  BY <1>1, <1>2, <1>3 DEF TrackInv

LEMMA TrackHeader == TrackInv /\ ProcessCommandProperties => TrackInv'
<1> SUFFICES ASSUME TrackInv, ProcessCommandProperties PROVE TrackInv'
  OBVIOUS
<1>1. /\ AtOp(WithHeader) /\ cmd' = Running.ip /\ Advance(2)
      /\ phase' = IF Here.op \in {"SET_FB_BASE", "SWITCH"} THEN "source" ELSE "dest"
      /\ UNCHANGED <<chosen, resume, temp, ioPointer, params, pParameterSpace, places, saves, outcome>>
  BY DEF ProcessCommandProperties
<1>2. /\ Parsing /\ ~InIndirect /\ phase # "idle" /\ Here.op \in WithHeader
      /\ Standing(Table, Running.ip) /\ Here = Table.code[Running.ip]
      /\ WellFormedTable(Table) /\ Running.ip \in Nat
  BY <1>1, AtFetch, NowReached
<1>3. Reached(Table, Running.ip + 2, cmd', phase')
  BY <1>1, <1>2, HeaderReached
<1>4. phase' \in {"source", "dest"} /\ Eff' = phase' /\ ~InIndirect'
  BY <1>1 DEF Eff, InIndirect
<1>5. Kept
  BY <1>1, <1>2, <1>4 DEF Kept, chosen, TrackInv, AtomType, TempType, Words, Phases
<1> QED
  BY <1>1, <1>2, <1>3, <1>4, <1>5, TrackAdvances

LEMMA TrackDestination == TrackInv /\ GetDestination => TrackInv'
<1> SUFFICES ASSUME TrackInv, GetDestination PROVE TrackInv'
  OBVIOUS
<1> DEFINE next == AfterDest(Cmd.op)
<1>1. /\ phase = "dest"
      /\ UNCHANGED <<chosen, cmd, ioPointer, params, pParameterSpace, places, saves, outcome>>
      /\ \/ phase' = next /\ Advance(OperandSize(Cmd.dst)) /\ UNCHANGED <<temp, resume>>
         \/ Get(Cmd.dst, Cmd.at, "Dest", next) /\ Advance(OperandSize(Cmd.dst))
  BY DEF GetDestination, AfterDest, SkipDestination
<1>2. /\ Parsing /\ ~InIndirect /\ phase # "idle"
      /\ Reached(Table, Running.ip, cmd, "dest") /\ WellFormedTable(Table) /\ Cmd = Table.code[cmd]
  BY <1>1, AtPhase DEF InCommand
<1>3. Reached(Table, Running.ip + OperandSize(Cmd.dst), cmd, next)
  BY <1>2, DestReached
<1>4. next \in {"immediate", "execute", "source"}
  BY DEF AfterDest
<1>5. OperandSize(Cmd.dst) \in Nat
  BY DEF OperandSize
<1> HIDE DEF next
<1>6. Advance(OperandSize(Cmd.dst)) /\ Eff' = next /\ Kept
  <2>1. /\ image' = image /\ cmd' \in Nat /\ ioPointer' = ioPointer /\ pParameterSpace' = pParameterSpace
        /\ Words(params') /\ Words(places')
    BY <1>1 DEF chosen, TrackInv, AtomType, Words
  <2>2. CASE phase' = next /\ Advance(OperandSize(Cmd.dst)) /\ UNCHANGED <<temp, resume>>
    <3>1. TempType'
      BY <2>2 DEF TrackInv, AtomType, TempType
    <3> QED
      BY <1>4, <2>1, <2>2, <3>1 DEF Kept, Eff, InIndirect, Phases
  <2>3. CASE Get(Cmd.dst, Cmd.at, "Dest", next) /\ Advance(OperandSize(Cmd.dst))
    <3>1. next \in Resumes
      BY <1>4 DEF Resumes
    <3>2. /\ TempType' /\ Eff' = next
          /\ phase' \in Phases \ {"idle", "indirect"} /\ (InIndirect' => resume' \in Resumes)
      BY <1>2, <2>3, <3>1, WordTaken DEF TrackInv
    <3> QED
      BY <2>1, <2>3, <3>2 DEF Kept
  <2> QED
    BY <1>1, <2>2, <2>3
<1> QED
  BY <1>1, <1>2, <1>3, <1>5, <1>6, TrackAdvances

LEMMA TrackImmediate == TrackInv /\ GetParametersDirect => TrackInv'
<1> SUFFICES ASSUME TrackInv, GetParametersDirect PROVE TrackInv'
  OBVIOUS
<1>1. /\ phase = "immediate" /\ temp' = [temp EXCEPT !.Mask = Cmd.mask] /\ phase' = "source"
      /\ Advance(DirectSize(Cmd.align))
      /\ UNCHANGED <<chosen, resume, cmd, ioPointer, params, pParameterSpace, places, saves, outcome>>
  BY DEF GetParametersDirect
<1>2. /\ Parsing /\ ~InIndirect /\ phase # "idle" /\ WordsOf(Table) /\ cmd \in DOMAIN Table.code
      /\ Reached(Table, Running.ip, cmd, "immediate") /\ WellFormedTable(Table) /\ Cmd = Table.code[cmd]
      /\ Cmd.op \in OpsIn("immediate")
  BY <1>1, AtPhase DEF InCommand
<1>3. Reached(Table, Running.ip + DirectSize(Cmd.align), cmd, "source")
  BY <1>2, ImmediateReached
<1>4. DirectSize(Cmd.align) \in Nat
  BY DEF DirectSize
<1>5. Cmd.mask \in Word
  BY <1>2 DEF OpsIn, WordsOf
<1>6. TempType'
  BY <1>1, <1>5, TempWordType DEF TrackInv, AtomType
<1>7. Eff' = "source" /\ ~InIndirect'
  BY <1>1 DEF Eff, InIndirect
<1>8. Kept
  BY <1>1, <1>6, <1>7 DEF Kept, chosen, TrackInv, AtomType, Words, Phases
<1> QED
  BY <1>1, <1>2, <1>3, <1>4, <1>7, <1>8, TrackAdvances

LEMMA TrackSource == TrackInv /\ GetSource => TrackInv'
<1> SUFFICES ASSUME TrackInv, GetSource PROVE TrackInv'
  OBVIOUS
<1> DEFINE next == IF Cmd.op = "SWITCH" THEN "switch" ELSE "execute"
<1>1. phase = "source" /\ UNCHANGED <<chosen, cmd, ioPointer, params, pParameterSpace, places, saves, outcome>>
  BY DEF GetSource
<1>2. /\ Parsing /\ ~InIndirect /\ phase # "idle" /\ WordsOf(Table) /\ cmd \in DOMAIN Table.code
      /\ Reached(Table, Running.ip, cmd, "source") /\ WellFormedTable(Table) /\ Cmd = Table.code[cmd]
      /\ Cmd.op \in OpsIn("source")
  BY <1>1, AtPhase DEF InCommand
<1>3. Reached(Table, Running.ip + SourceSize(Cmd), cmd, next)
  BY <1>2, SourceReached
<1>4. next \in {"switch", "execute"}
  OBVIOUS
<1>5. SourceSize(Cmd) \in Nat
  BY DEF SourceSize, DirectSize, OperandSize
<1>6. image' = image /\ cmd' \in Nat /\ ioPointer' = ioPointer /\ pParameterSpace' = pParameterSpace
      /\ Words(params') /\ Words(places')
  BY <1>1 DEF chosen, TrackInv, AtomType, Words
<1>7. Advance(SourceSize(Cmd)) /\ Eff' = next /\ Kept
  <2>1. CASE Cmd.op = "SHIFT"
    <3>1. phase' = next /\ Advance(1) /\ UNCHANGED <<temp, resume>>
      BY <2>1 DEF GetSource
    <3>2. SourceSize(Cmd) = 1
      BY <2>1 DEF SourceSize
    <3>3. TempType'
      BY <3>1 DEF TrackInv, AtomType, TempType
    <3> QED
      BY <1>4, <1>6, <3>1, <3>2, <3>3 DEF Kept, Eff, InIndirect, Phases
  <2>2. CASE Cmd.op # "SHIFT" /\ Cmd.src = "IMM"
    <3>1. /\ temp' = [temp EXCEPT !.Source = Cmd.value]
          /\ phase' = next /\ Advance(DirectSize(Cmd.align)) /\ UNCHANGED resume
      BY <2>2 DEF GetSource
    <3>2. SourceSize(Cmd) = DirectSize(Cmd.align)
      BY <2>2 DEF SourceSize
    <3>3. Cmd.value \in Word
      BY <1>2, <2>2 DEF OpsIn, WordsOf
    <3>4. TempType'
      BY <3>1, <3>3, TempWordType DEF TrackInv, AtomType
    <3> QED
      BY <1>4, <1>6, <3>1, <3>2, <3>4 DEF Kept, Eff, InIndirect, Phases
  <2>3. CASE Cmd.op # "SHIFT" /\ Cmd.src # "IMM"
    <3>1. Get(Cmd.src, Cmd.from, "Source", next) /\ Advance(OperandSize(Cmd.src))
      BY <2>3 DEF GetSource
    <3>2. SourceSize(Cmd) = OperandSize(Cmd.src)
      BY <2>3 DEF SourceSize
    <3>3. next \in Resumes
      BY <1>4 DEF Resumes
    <3> HIDE DEF next
    <3>4. /\ TempType' /\ Eff' = next
          /\ phase' \in Phases \ {"idle", "indirect"} /\ (InIndirect' => resume' \in Resumes)
      BY <1>2, <3>1, <3>3, WordTaken DEF TrackInv
    <3> QED
      BY <1>6, <3>1, <3>2, <3>4 DEF Kept
  <2> QED
    BY <2>1, <2>2, <2>3
<1> HIDE DEF next
<1> QED
  BY <1>1, <1>2, <1>3, <1>5, <1>6, <1>7, TrackAdvances

LEMMA ResultWords ==
  ASSUME TempType, NEW c, c.op \in Changes
  PROVE  NewDest(c) \subseteq Word
<1> DEFINE D == temp.Dest  S == temp.Source
<1>1. D \in Word /\ S \in Word
  BY DEF TempType
<1>2. \A w, n : Shl(w, n) \in Word /\ Shr(w, n) \in Word
  BY ShiftedWords
<1>3. \A n : WordOf(n) \in Word
  BY ShiftedWords
<1> HIDE DEF D, S
<1>4. \A a, d : CommonSource(S, a, d) \in Word
  BY <1>2 DEF CommonSource
<1>5. \A a, d : ProcessMove(D, S, a, d) \in Word
  BY <1>1, <1>4 DEF ProcessMove, Word
<1>6. \A a, d : ProcessAnd(D, S, a, d) \in Word
  BY <1>1 DEF ProcessAnd, Word
<1>7. \A a, d : ProcessOr(D, S, a, d) \in Word /\ ProcessXor(D, S, a, d) \in Word
  BY <1>1, <1>4 DEF ProcessOr, ProcessXor, Word
<1>8. \A M, a, d : ProcessMask(D, M, S, a, d) \in Word
  <2>1. \A w, n : Shl(w, n) \subseteq Bits
    BY <1>2 DEF Word
  <2> QED
    BY <1>1, <2>1 DEF ProcessMask, Word
<1>9. \A a : ProcessClear(D, a) \in Word
  BY <1>1 DEF ProcessClear, Word
<1>10. \A n, left, a : ProcessShift(D, n, left, a) \in Word
  <2>1. \A w, n : Shl(w, n) \subseteq Bits /\ Shr(w, n) \subseteq Bits
    BY <1>2 DEF Word
  <2> QED
    BY <1>1, <2>1 DEF ProcessShift, Word
<1>11. \A a, d : ProcessADD(D, S, a, d) \in Word /\ ProcessSUB(D, S, a, d) \in Word
  BY <1>3 DEF ProcessADD, ProcessSUB
<1>12. NewDest(c) =
    CASE c.op = "MOVE" -> {ProcessMove(D, S, SourceAlignment(c), c.d)}
    [] c.op = "AND" -> {ProcessAnd(D, S, SourceAlignment(c), c.d)}
    [] c.op = "OR" -> {ProcessOr(D, S, SourceAlignment(c), c.d)}
    [] c.op = "XOR" -> {ProcessXor(D, S, SourceAlignment(c), c.d)}
    [] c.op = "MASK" -> {ProcessMask(D, temp.Mask, S, SourceAlignment(c), c.d)}
    [] c.op = "CLEAR" -> {ProcessClear(D, SourceAlignment(c))}
    [] c.op = "SHIFT" -> {ProcessShift(D, n, c.left, c.align) : n \in Counts(c.count)}
    [] c.op = "ADD" -> {ProcessADD(D, S, SourceAlignment(c), c.d)}
    [] c.op = "SUB" -> {ProcessSUB(D, S, SourceAlignment(c), c.d)}
    [] c.op = "SHL" -> {Shl(D, n) : n \in Counts(Number(CommonSource(S, SourceAlignment(c), c.d)))}
    [] c.op = "SHR" -> {Shr(D, n) : n \in Counts(Number(CommonSource(S, SourceAlignment(c), c.d)))}
  BY DEF NewDest, D, S
<1>13. c.op \in {"MOVE", "AND", "OR", "XOR", "MASK", "CLEAR", "SHIFT", "ADD", "SUB", "SHL", "SHR"}
  BY DEF Changes, Logic, Arithmetic
<1>14. CASE c.op \in {"MOVE", "AND", "OR", "XOR"}
  BY <1>5, <1>6, <1>7, <1>12, <1>14
<1>15. CASE c.op \in {"MASK", "CLEAR", "SHIFT"}
  BY <1>8, <1>9, <1>10, <1>12, <1>15
<1>16. CASE c.op \in {"ADD", "SUB", "SHL", "SHR"}
  BY <1>2, <1>11, <1>12, <1>16
<1> QED
  BY <1>13, <1>14, <1>15, <1>16

LEMMA TrackExecute == TrackInv /\ Execute => TrackInv'
<1> SUFFICES ASSUME TrackInv, Execute PROVE TrackInv'
  OBVIOUS
<1>1. /\ phase = "execute" /\ Cmd.op \in Changes /\ phase' = "put"
      /\ UNCHANGED <<chosen, resume, cmd, stack, ioPointer, params, pParameterSpace, places, saves, outcome>>
  BY DEF Execute
<1>2. /\ Parsing /\ ~InIndirect /\ phase # "idle"
      /\ Reached(Table, Running.ip, cmd, "execute") /\ WellFormedTable(Table) /\ Cmd = Table.code[cmd]
  BY <1>1, AtPhase DEF InCommand
<1>3. Reached(Table, Running.ip, cmd, "put")
  BY <1>1, <1>2, ExecuteReached
<1>4. PICK w \in NewDest(Cmd) : temp' = [temp EXCEPT !.Dest = w]
  BY DEF Execute
<1>5. w \in Word
  BY <1>1, <1>4, ResultWords DEF TrackInv, AtomType
<1>6. TempType'
  BY <1>4, <1>5, TempWordType DEF TrackInv, AtomType
<1>7. Eff' = "put" /\ ~InIndirect'
  BY <1>1 DEF Eff, InIndirect
<1>8. Kept
  BY <1>1, <1>6, <1>7 DEF Kept, chosen, TrackInv, AtomType, Words, Phases
<1> QED
  BY <1>1, <1>2, <1>3, <1>7, <1>8, TrackRemains

LEMMA TrackEvaluate == TrackInv /\ Evaluate => TrackInv'
<1> SUFFICES ASSUME TrackInv, Evaluate PROVE TrackInv'
  OBVIOUS
<1>1. /\ phase = "execute" /\ Cmd.op \in Results \union {"SET_FB_BASE"} /\ phase' \in {"dead", "fetch"}
      /\ UNCHANGED <<chosen, resume, cmd, stack, ioPointer, params, pParameterSpace, places, saves, outcome>>
  BY DEF Evaluate
<1>2. /\ Parsing /\ ~InIndirect /\ phase # "idle"
      /\ Reached(Table, Running.ip, cmd, "execute") /\ WellFormedTable(Table) /\ Cmd = Table.code[cmd]
  BY <1>1, AtPhase DEF InCommand
<1>3. Reached(Table, Running.ip, cmd, "fetch")
  BY <1>1, <1>2, ExecuteReached
<1>4. PICK S, D : /\ S = OperandSource(temp.Source, SourceAlignment(Cmd))
                  /\ D = OperandDest(temp.Dest, SourceAlignment(Cmd), Cmd.d)
                  /\ temp' = CASE Cmd.op = "MUL" -> [temp EXCEPT !.Quotient = WordOf(Number(D) * Number(S))]
                       [] Cmd.op = "DIV" /\ S = {} -> temp
                       [] Cmd.op = "DIV" /\ S # {} -> [temp EXCEPT !.Quotient = WordOf(Number(D) \div Number(S)),
                                                             !.Reminder = WordOf(Number(D) % Number(S))]
                       [] Cmd.op = "COMPARE" -> [temp EXCEPT !.Flags = ProcessCompare(Number(D), Number(S))]
                       [] Cmd.op = "TEST" -> [temp EXCEPT !.Flags = ProcessTest(D, S)]
                       [] Cmd.op = "SET_FB_BASE" -> [temp EXCEPT !.FBWindow = S]
  BY DEF Evaluate
<1>5. S \in Word
  BY <1>4 DEF OperandSource, Shr, Word
<1>6. Cmd.op \in {"MUL", "DIV", "COMPARE", "TEST", "SET_FB_BASE"}
  BY <1>1 DEF Results
<1>7. PICK q, r : q = WordOf(Number(D) * Number(S)) /\ q \in Word /\ r = ProcessCompare(Number(D), Number(S))
  BY ShiftedWords
<1>8. PICK q2, r2 : q2 = WordOf(Number(D) \div Number(S)) /\ q2 \in Word /\ r2 = WordOf(Number(D) % Number(S)) /\ r2 \in Word
  BY ShiftedWords
<1>9. PICK g : g = ProcessTest(D, S)
  OBVIOUS
<1>10. TempType'
  <2>1. \/ temp' = [temp EXCEPT !.Quotient = q] \/ temp' = temp
        \/ temp' = [temp EXCEPT !.Quotient = q2, !.Reminder = r2]
        \/ temp' = [temp EXCEPT !.Flags = r] \/ temp' = [temp EXCEPT !.Flags = g]
        \/ temp' = [temp EXCEPT !.FBWindow = S]
    BY <1>4, <1>6, <1>7, <1>8, <1>9
  <2>2. TempType
    BY DEF TrackInv, AtomType
  <2>3. CASE temp' = [temp EXCEPT !.Quotient = q]
    BY <1>7, <2>2, <2>3 DEF TempType
  <2>4. CASE temp' = temp
    BY <2>2, <2>4 DEF TempType
  <2>5. CASE temp' = [temp EXCEPT !.Quotient = q2, !.Reminder = r2]
    BY <1>8, <2>2, <2>5 DEF TempType
  <2>6. CASE temp' = [temp EXCEPT !.Flags = r]
    BY <2>2, <2>6 DEF TempType
  <2>7. CASE temp' = [temp EXCEPT !.Flags = g]
    BY <2>2, <2>7 DEF TempType
  <2>8. CASE temp' = [temp EXCEPT !.FBWindow = S]
    BY <1>5, <2>2, <2>8 DEF TempType
  <2> QED
    BY <2>1, <2>3, <2>4, <2>5, <2>6, <2>7, <2>8
<1>11. Parsing' => phase' = "fetch" /\ Eff' = "fetch"
  BY <1>1 DEF Eff, InIndirect, Parsing
<1>12. Kept
  BY <1>1, <1>10 DEF Kept, chosen, TrackInv, AtomType, Words, Phases, InIndirect
<1> QED
  BY <1>1, <1>2, <1>3, <1>11, <1>12, TrackRemains

LEMMA WordWritten ==
  ASSUME NEW f, Words(f), NEW p, NEW w \in Word
  PROVE  Words([f EXCEPT ![p] = w])
BY DEF Words

LEMMA TrackPutRegister == TrackInv /\ PutDataRegister => TrackInv'
<1> SUFFICES ASSUME TrackInv, PutDataRegister PROVE TrackInv'
  OBVIOUS
<1>1. /\ phase = "put" /\ Cmd.dst = "REG"
      /\ UNCHANGED <<chosen, cmd, stack, ioPointer, params, pParameterSpace, outcome>>
  BY DEF PutDataRegister
<1>2. /\ Parsing /\ ~InIndirect /\ phase # "idle"
      /\ Reached(Table, Running.ip, cmd, "put") /\ WellFormedTable(Table) /\ Cmd = Table.code[cmd]
  BY <1>1, AtPhase DEF InCommand
<1>3. Reached(Table, Running.ip, cmd, "fetch")
  BY <1>2, ExecuteReached
<1>4. TempType /\ temp.Dest \in Word /\ temp.Port \in {"ATI", "PCI", "SYSIO"} /\ Words(places)
  BY DEF TrackInv, AtomType, TempType
<1>5. image' = image /\ cmd' \in Nat /\ ioPointer' = ioPointer /\ pParameterSpace' = pParameterSpace /\ Words(params')
  BY <1>1 DEF chosen, TrackInv, AtomType, Words
<1>6. TempType' /\ Words(places') /\ Eff' = "fetch"
      /\ phase' \in {"fetch", "search"} /\ (InIndirect' => resume' \in Resumes)
  <2>1. CASE Indirect("REG")
    <3>1. /\ temp' = [temp EXCEPT !.Index = Cmd.at + temp.RegBlock, !.into = "Nothing",
                                  !.IndirectData = WordOf(temp.PortID + INDIRECT_IO_WRITE)]
          /\ phase' = "search" /\ resume' = "fetch" /\ places' = places
      BY <2>1 DEF PutDataRegister, Indirect
    <3>2. WordOf(temp.PortID + INDIRECT_IO_WRITE) \in Word
      BY ShiftedWords
    <3>3. TempType'
      BY <1>4, <3>1, <3>2 DEF TempType
    <3> QED
      BY <1>4, <3>1, <3>3 DEF Eff, InIndirect, Resumes
  <2>2. CASE temp.Port = "ATI" /\ temp.PortID = 0
    <3>1. PICK p, w : /\ CailWrite(p, w) /\ w \in {temp.Dest, Shl(temp.Dest, 2)}
                      /\ phase' = "fetch" /\ UNCHANGED <<temp, resume>>
      BY <2>2 DEF PutDataRegister, Indirect
    <3>2. w \in Word
      BY <1>4, <3>1, ShiftedWords
    <3>3. Words(places')
      BY <1>4, <3>1, <3>2, WordWritten DEF CailWrite
    <3>4. TempType'
      BY <1>4, <3>1 DEF TempType
    <3> QED
      BY <3>1, <3>3, <3>4 DEF Eff, InIndirect
  <2>3. CASE temp.Port = "PCI"
    <3>1. PICK p : CailWritePCIConfigData(p) /\ phase' = "fetch" /\ UNCHANGED <<temp, resume>>
      BY <2>3 DEF PutDataRegister, Indirect
    <3>2. {} \in Word
      BY DEF Word
    <3>3. Words(places')
      BY <1>4, <3>1, <3>2, WordWritten DEF CailWritePCIConfigData, Words
    <3>4. TempType'
      BY <1>4, <3>1 DEF TempType
    <3> QED
      BY <3>1, <3>3, <3>4 DEF Eff, InIndirect
  <2>4. CASE temp.Port = "SYSIO"
    <3>1. phase' = "fetch" /\ UNCHANGED <<temp, resume, places>>
      BY <2>4 DEF PutDataRegister, Indirect
    <3>2. TempType'
      BY <1>4, <3>1 DEF TempType
    <3> QED
      BY <1>4, <3>1, <3>2 DEF Eff, InIndirect
  <2> QED
    BY <1>4, <2>1, <2>2, <2>3, <2>4 DEF Indirect
<1>7. Kept
  BY <1>5, <1>6 DEF Kept, Phases
<1> QED
  BY <1>1, <1>2, <1>3, <1>5, <1>6, <1>7, TrackRemains

LEMMA SpecialKept ==
  ASSUME TempType, NEW n, NEW w \in Word, temp' = PutSpecial(n, w)
  PROVE  TempType'
<1> DEFINE half == w \intersect AlignmentMask("LowerWord")
<1>1. half \in Word
  BY DEF Word
<1> HIDE DEF half
<1>2. PICK m, k : m = Number(half) /\ k = Number(w \intersect AlignmentMask("Byte0"))
  OBVIOUS
<1>3. \/ temp' = [temp EXCEPT !.Quotient = w] \/ temp' = [temp EXCEPT !.Reminder = w]
      \/ temp' = [temp EXCEPT !.DataBlock = m] \/ temp' = [temp EXCEPT !.RegBlock = m]
      \/ temp' = [temp EXCEPT !.Shift = k] \/ temp' = [temp EXCEPT !.FBWindow = w]
      \/ temp' = [temp EXCEPT !.Attributes = half] \/ temp' = temp
  BY <1>2 DEF PutSpecial, half
<1>4. CASE temp' = [temp EXCEPT !.Quotient = w]
  BY <1>4 DEF TempType
<1>5. CASE temp' = [temp EXCEPT !.Reminder = w]
  BY <1>5 DEF TempType
<1>6. CASE temp' = [temp EXCEPT !.DataBlock = m]
  BY <1>6 DEF TempType
<1>7. CASE temp' = [temp EXCEPT !.RegBlock = m]
  BY <1>7 DEF TempType
<1>8. CASE temp' = [temp EXCEPT !.Shift = k]
  BY <1>8 DEF TempType
<1>9. CASE temp' = [temp EXCEPT !.FBWindow = w]
  BY <1>9 DEF TempType
<1>10. CASE temp' = [temp EXCEPT !.Attributes = half]
  BY <1>1, <1>10 DEF TempType
<1>11. CASE temp' = temp
  BY <1>11 DEF TempType
<1> QED
  BY <1>3, <1>4, <1>5, <1>6, <1>7, <1>8, <1>9, <1>10, <1>11

LEMMA TrackPut == TrackInv /\ PutData => TrackInv'
<1> SUFFICES ASSUME TrackInv, PutData PROVE TrackInv'
  OBVIOUS
<1>1. /\ phase = "put" /\ phase' = "fetch"
      /\ UNCHANGED <<chosen, resume, cmd, ioPointer, pParameterSpace, outcome>>
      /\ params' = IF Cmd.dst = "PS" THEN [params EXCEPT ![pParameterSpace + Cmd.at] = temp.Dest] ELSE params
      /\ stack' = IF Cmd.dst = "WS" THEN [stack EXCEPT ![Len(stack)].ws[Cmd.at] = temp.Dest] ELSE stack
      /\ temp' = IF Cmd.dst = "SPECIAL" THEN PutSpecial(Cmd.at, temp.Dest) ELSE temp
  BY DEF PutData
<1>2. /\ Parsing /\ ~InIndirect /\ phase # "idle"
      /\ Reached(Table, Running.ip, cmd, "put") /\ WellFormedTable(Table) /\ Cmd = Table.code[cmd]
  BY <1>1, AtPhase DEF InCommand
<1>3. Reached(Table, Running.ip, cmd, "fetch")
  BY <1>2, ExecuteReached
<1>4. TempType /\ temp.Dest \in Word /\ Words(places) /\ Words(params)
  BY DEF TrackInv, AtomType, TempType
<1>5. TempType'
  BY <1>1, <1>4, SpecialKept, TempWordType
<1>6. Words(params')
  BY <1>1, <1>4, WordWritten
<1>7. Words(places')
  <2>1. CASE Cmd.dst \in {"PLL", "MC"}
    <3>1. CailWrite(<<Cmd.dst, Cmd.at>>, temp.Dest)
      BY <2>1 DEF PutData
    <3> QED
      BY <1>4, <3>1, WordWritten DEF CailWrite
  <2>2. CASE Cmd.dst = "FB" /\ fbScratch
    <3>1. places' = [places EXCEPT ![FBWord(Cmd.at)] = temp.Dest]
      BY <2>2 DEF PutData
    <3> QED
      BY <1>4, <3>1, WordWritten
  <2>3. CASE Cmd.dst \notin {"PLL", "MC"} /\ ~(Cmd.dst = "FB" /\ fbScratch)
    BY <1>4, <2>3 DEF PutData, Words
  <2> QED
    BY <2>1, <2>2, <2>3
<1>8. Eff' = "fetch" /\ ~InIndirect'
  BY <1>1 DEF Eff, InIndirect
<1>9. Kept
  BY <1>1, <1>5, <1>6, <1>7, <1>8 DEF Kept, chosen, TrackInv, AtomType, Phases
<1>10. CASE Cmd.dst # "WS"
  BY <1>1, <1>2, <1>3, <1>8, <1>9, <1>10, TrackRemains
<1>11. CASE Cmd.dst = "WS"
  <2> DEFINE f == [Running EXCEPT !.ws = [Running.ws EXCEPT ![Cmd.at] = temp.Dest]]
  <2>1. Running \in Frames
    BY <1>2, TopFrame DEF TrackInv, AtomType
  <2>2. [Running.ws EXCEPT ![Cmd.at] = temp.Dest] \in Spaces
    <3>1. PICK n \in Nat : Running.ws \in [0 .. n - 1 -> Word]
      BY <2>1 DEF Frames, Spaces
    <3>2. [Running.ws EXCEPT ![Cmd.at] = temp.Dest] \in [0 .. n - 1 -> Word]
      BY <1>4, <3>1
    <3> QED
      BY <3>2 DEF Spaces
  <2>3. f \in Frames /\ f.table = Running.table /\ f.ip = Running.ip
    BY <2>1, <2>2 DEF Frames
  <2>4. stack' = [stack EXCEPT ![Len(stack)] = f]
    BY <1>1, <1>11 DEF Running
  <2> HIDE DEF f
  <2>5. image' = image /\ phase' # "idle" /\ Reached(Table, f.ip, cmd', Eff')
    BY <1>1, <1>3, <1>8, <2>3 DEF chosen
  <2>6. StackType' /\ Track'
    BY <1>2, <2>3, <2>4, <2>5, TrackReplaced DEF TrackInv, AtomType
  <2>7. AtomType'
    BY <1>9, <2>6 DEF Kept, TrackInv, AtomType
  <2>8. IOTrack'
    BY <1>2, <1>9, IOStays DEF TrackInv, Kept
  <2> QED
    BY <2>6, <2>7, <2>8 DEF TrackInv
<1> QED
  BY <1>10, <1>11

LEMMA TrackSwitch == TrackInv /\ (SwitchCase \/ SwitchEnd) => TrackInv'
<1> SUFFICES ASSUME TrackInv, SwitchCase \/ SwitchEnd PROVE TrackInv'
  OBVIOUS
<1>1. phase = "switch" /\ UNCHANGED <<chosen, resume, cmd, ioPointer, params, pParameterSpace, places, saves, outcome>>
  BY DEF SwitchCase, SwitchEnd
<1>2. /\ Parsing /\ ~InIndirect /\ phase # "idle" /\ WordsOf(Table)
      /\ Reached(Table, Running.ip, cmd, "switch") /\ WellFormedTable(Table) /\ Cmd = Table.code[cmd]
  BY <1>1, AtPhase DEF InCommand
<1>3. Running.ip \in DOMAIN Table.code /\ Here = Table.code[Running.ip]
  BY <1>2 DEF Reached, StandsAt, Here
<1>4. TempType /\ image' = image
  BY <1>1 DEF TrackInv, AtomType, chosen
<1>5. ASSUME TempType', phase' \in {"fetch", "switch"}
      PROVE  Kept /\ Eff' = phase' /\ ~InIndirect'
  BY <1>1, <1>5 DEF Kept, chosen, TrackInv, AtomType, Words, Phases, InIndirect, Eff
<1>6. CASE SwitchCase
  <2>1. Here.op = "CASE" /\ temp' = [temp EXCEPT !.Dest = Here.value]
        /\ \/ stack' = [stack EXCEPT ![Len(stack)].ip = Here.to] /\ phase' = "fetch"
           \/ Advance(3 + DirectSize(Cmd.align)) /\ UNCHANGED phase
    BY <1>6 DEF SwitchCase
  <2>2. Here.value \in Word
    BY <1>2, <1>3, <2>1 DEF WordsOf
  <2>3. TempType'
    BY <1>4, <2>1, <2>2, TempWordType
  <2>4. Kept /\ Eff' = phase' /\ ~InIndirect'
    BY <1>1, <1>5, <2>1, <2>3
  <2>5. Reached(Table, Here.to, cmd, "fetch") /\ Reached(Table, Running.ip + (3 + DirectSize(Cmd.align)), cmd, "switch")
    BY <1>2, <1>3, <2>1, CaseReached
  <2>6. CASE stack' = [stack EXCEPT ![Len(stack)].ip = Here.to] /\ phase' = "fetch"
    <3>1. Here.to \in Nat
      BY <1>2, <1>3, <2>1 DEF WellFormedTable
    <3>2. StackType' /\ Track'
      BY <1>1, <1>2, <1>4, <2>4, <2>5, <2>6, <3>1, TrackJumps DEF TrackInv, AtomType
    <3>3. AtomType'
      BY <2>4, <3>2 DEF Kept, TrackInv, AtomType
    <3>4. IOTrack'
      BY <1>2, <2>4, IOStays DEF TrackInv, Kept
    <3> QED
      BY <3>2, <3>3, <3>4 DEF TrackInv
  <2>7. CASE Advance(3 + DirectSize(Cmd.align)) /\ UNCHANGED phase
    <3>1. 3 + DirectSize(Cmd.align) \in Nat
      BY DEF DirectSize
    <3> QED
      BY <1>1, <1>2, <2>4, <2>5, <2>7, <3>1, TrackAdvances
  <2> QED
    BY <2>1, <2>6, <2>7
<1>7. CASE SwitchEnd
  <2>1. Here.op = "END_SWITCH" /\ phase' = "fetch" /\ Advance(2) /\ temp' = temp
    BY <1>7 DEF SwitchEnd
  <2>2. TempType'
    BY <1>4, <2>1 DEF TempType
  <2>3. Kept /\ Eff' = "fetch"
    BY <1>5, <2>1, <2>2
  <2>4. Reached(Table, Running.ip + 2, cmd, "fetch")
    BY <1>2, <1>3, <2>1, CaseReached
  <2> QED
    BY <1>1, <1>2, <2>1, <2>3, <2>4, TrackAdvances
<1> QED
  BY <1>6, <1>7

LEMMA TrackHeaders == TrackInv /\ HeaderCommands => TrackInv'
BY TrackHeader, TrackDestination, TrackImmediate, TrackSource, TrackExecute, TrackEvaluate, TrackPutRegister, TrackPut,
   TrackSwitch DEF HeaderCommands

-----------------------------------------------------------------------------
LEMMA AtEntry ==
  ASSUME TrackInv, InIndirect
  PROVE  /\ Parsing /\ phase # "idle" /\ Eff = resume /\ resume \in Resumes
         /\ Reached(Table, Running.ip, cmd, resume)
         /\ WellFormedIO(BIOS.io) /\ ioPointer \in DOMAIN BIOS.io
<1>1. Parsing /\ phase # "idle" /\ Eff = resume /\ resume \in Resumes
  <2>1. Eff = resume
    BY DEF Eff
  <2>2. resume \in Resumes
    BY DEF TrackInv, AtomType
  <2>3. Parsing /\ phase # "idle"
    BY DEF InIndirect, Parsing
  <2> QED
    BY <2>1, <2>2, <2>3
<1>2. Reached(Table, Running.ip, cmd, resume)
  BY <1>1, NowReached
<1> QED
  BY <1>1, <1>2, ImageIsWell DEF TrackInv, AtomType, IOTrack

LEMMA TrackIndirectIO ==
  ASSUME TrackInv, InIndirect, UNCHANGED <<parserHeld, resume>>, TempType', Words(places'),
         phase' \in {"search", "indirect", resume}, IOTrack'
  PROVE  TrackInv'
<1>1. /\ Parsing /\ phase # "idle" /\ Eff = resume /\ resume \in Resumes
      /\ Reached(Table, Running.ip, cmd, resume)
  BY AtEntry
<1>2. image' = image /\ UNCHANGED <<cmd, stack, params, pParameterSpace, resume>>
  BY DEF parserHeld, chosen
<1>3. Eff' = resume /\ phase' # "idle" /\ phase' \in Phases
  BY <1>1, <1>2 DEF Eff, InIndirect, Resumes, Phases
<1>4. StackType' /\ Track'
  BY <1>1, <1>2, <1>3, TrackStays DEF TrackInv, AtomType
<1>5. AtomType'
  BY <1>1, <1>2, <1>3, <1>4 DEF TrackInv, AtomType
<1> QED
  BY <1>4, <1>5 DEF TrackInv

LEMMA TrackIO == TrackInv /\ IndirectInputOutput => TrackInv'
<1> SUFFICES ASSUME TrackInv, IndirectInputOutput PROVE TrackInv'
  OBVIOUS
<1>1. InIndirect /\ UNCHANGED <<parserHeld, resume>> /\ BIOS' = BIOS
  BY DEF IndirectInputOutput, Search, IndirectCommand, EndOfProgram, InIndirect, parserHeld, chosen, BIOS
<1>2. /\ resume \in Resumes /\ resume' = resume
      /\ WellFormedIO(BIOS.io) /\ ioPointer \in DOMAIN BIOS.io
  BY <1>1, AtEntry
<1>3. TempType /\ Words(places)
  BY DEF TrackInv, AtomType
<1>4. Entry.op # "NOP" => ioPointer + IOSize(Entry) \in DOMAIN BIOS.io
  BY <1>2 DEF WellFormedIO, Entry
<1>5. Entry.op \notin {"NOP", "END"} => BIOS.io[ioPointer + IOSize(Entry)].op # "NOP"
  BY <1>2 DEF WellFormedIO, Entry
<1>6. resume \notin {"search", "indirect"}
  BY <1>2 DEF Resumes
<1>7. {} \in Word
  BY DEF Word
<1>8. CASE Search
  <2>1. phase = "search" /\ UNCHANGED places
    BY <1>8 DEF Search
  <2>2. CASE Entry.op = "NOP"
    <3>1. phase' = resume /\ temp' = Into(temp.into, {}) /\ UNCHANGED ioPointer
      BY <1>8, <2>2 DEF Search
    <3>2. TempType'
      BY <1>3, <1>7, <3>1, TempWordType
    <3>3. Entry' = Entry
      BY <1>1, <3>1 DEF Entry
    <3>4. IOTrack'
      BY <1>1, <1>2, <1>6, <2>2, <3>1, <3>3 DEF IOTrack
    <3> QED
      BY <1>1, <1>3, <2>1, <3>1, <3>2, <3>4, TrackIndirectIO DEF Words
  <2>3. CASE Entry.op # "NOP" /\ Entry.op = "ID" /\ Entry.id = Number(temp.IndirectData)
    <3>1. phase' = "indirect" /\ ioPointer' = ioPointer + IOSize(Entry) /\ UNCHANGED temp
      BY <1>8, <2>3 DEF Search
    <3>2. Entry' = BIOS.io[ioPointer + IOSize(Entry)]
      BY <1>1, <3>1 DEF Entry
    <3>3. TempType'
      BY <1>3, <3>1 DEF TempType
    <3>4. IOTrack'
      BY <1>1, <1>4, <1>5, <2>3, <3>1, <3>2 DEF IOTrack, InIndirect
    <3> QED
      BY <1>1, <1>3, <2>1, <3>1, <3>3, <3>4, TrackIndirectIO DEF Words
  <2>4. CASE Entry.op # "NOP" /\ ~(Entry.op = "ID" /\ Entry.id = Number(temp.IndirectData))
    <3>1. phase' = "search" /\ ioPointer' = ioPointer + IOSize(Entry) /\ UNCHANGED temp
      BY <1>8, <2>1, <2>4 DEF Search
    <3>2. TempType'
      BY <1>3, <3>1 DEF TempType
    <3>3. IOTrack'
      BY <1>1, <1>4, <2>4, <3>1 DEF IOTrack, InIndirect
    <3> QED
      BY <1>1, <1>3, <2>1, <3>1, <3>2, <3>3, TrackIndirectIO DEF Words
  <2> QED
    BY <2>2, <2>3, <2>4
<1>9. CASE IndirectCommand
  <2>1. /\ phase = "indirect" /\ Entry.op # "END" /\ phase' = phase
        /\ ioPointer' = ioPointer + IOSize(Entry)
        /\ \/ CailWrite(<<"REG", Entry.reg>>, temp.IndirectData)
           \/ UNCHANGED places
    BY <1>9 DEF IndirectCommand
  <2>2. Entry.op # "NOP"
    BY <2>1 DEF TrackInv, IOTrack
  <2>3. Entry' = BIOS.io[ioPointer + IOSize(Entry)]
    BY <1>1, <2>1 DEF Entry
  <2>4. IOTrack'
    BY <1>1, <1>4, <1>5, <2>1, <2>2, <2>3 DEF IOTrack, InIndirect
  <2>5. temp.IndirectData \in Word
    BY <1>3 DEF TempType
  <2>6. Words(places')
    BY <1>3, <2>1, <2>5, WordWritten DEF CailWrite, Words
  <2>7. PICK w : w \in Word /\ temp' = [temp EXCEPT !.IndirectData = w]
    <3> DEFINE old == temp.IndirectData
    <3>1. \A v, a, b : old \ v \in Word /\ old \union Shl(a, b) \in Word
      <4>1. \A a, b : Shl(a, b) \subseteq Bits
        BY ShiftedWords DEF Word
      <4> QED
        BY <2>5, <4>1 DEF Word
    <3>2. \A v : MoveBits(v, Entry) \in Word
      <4>1. \A a, b : Shl(a, b) \subseteq Bits
        BY ShiftedWords DEF Word
      <4> QED
        BY <2>5, <4>1 DEF MoveBits, Word
    <3>3. Held(places, <<"REG", Entry.reg>>) \in Word
      BY <1>3, WordsHold
    <3> DEFINE new == CASE Entry.op = "READ" -> Held(places, <<"REG", Entry.reg>>)
                 [] Entry.op = "CLEAR" -> old \ Shl(Low(Entry.bits), Entry.to)
                 [] Entry.op = "SET" -> old \union Shl(Low(Entry.bits), Entry.to)
                 [] Entry.op = "MOVE_INDEX" -> MoveBits(WordOf(temp.Index), Entry)
                 [] Entry.op = "MOVE_ATTR" -> MoveBits(temp.Attributes, Entry)
                 [] Entry.op = "MOVE_DATA" -> MoveBits(temp.Dest, Entry)
                 [] OTHER -> old
    <3>4. temp' = [temp EXCEPT !.IndirectData = new]
      BY <1>9 DEF IndirectCommand
    <3>5. new \in Word
      BY <2>5, <3>1, <3>2, <3>3
    <3> HIDE DEF new
    <3> QED
      BY <3>4, <3>5
  <2>8. TempType'
    BY <1>3, <2>7, TempWordType
  <2> QED
    BY <1>1, <2>1, <2>4, <2>6, <2>8, TrackIndirectIO
<1>10. CASE EndOfProgram
  <2>1. /\ phase = "indirect" /\ Entry.op = "END" /\ ioPointer' = ioPointer - Entry.back + 1
        /\ temp' = Into(temp.into, temp.IndirectData) /\ phase' = resume /\ UNCHANGED places
    BY <1>10 DEF EndOfProgram, BackToTable
  <2>2. Entry.back = ioPointer + 1 /\ ioPointer \in Nat /\ 0 \in DOMAIN BIOS.io
    BY <1>2, <2>1 DEF WellFormedIO, Entry
  <2>3. ioPointer' = 0
    BY <2>1, <2>2
  <2>4. IOTrack'
    BY <1>1, <1>2, <1>6, <2>1, <2>2, <2>3 DEF IOTrack
  <2>5. temp.IndirectData \in Word
    BY <1>3 DEF TempType
  <2>6. TempType'
    BY <1>3, <2>1, <2>5, TempWordType
  <2> QED
    BY <1>1, <1>3, <2>1, <2>4, <2>6, TrackIndirectIO DEF Words
<1> QED
  BY <1>8, <1>9, <1>10 DEF IndirectInputOutput

LEMMA TrackCard == TrackInv /\ CardTurns => TrackInv'
<1> SUFFICES ASSUME TrackInv, CardTurns PROVE TrackInv'
  OBVIOUS
<1>1. UNCHANGED <<chosen, phase, resume, cmd, stack, temp, ioPointer, params, pParameterSpace, saves, outcome>>
      /\ Parsing
  BY DEF CardTurns, Parsing
<1>2. PICK p : places' = [places EXCEPT ![p] = Not(@)]
  BY DEF CardTurns
<1>3. Words(places')
  <2>1. \A w : Not(w) \in Word
    BY ShiftedWords
  <2> QED
    BY <1>2, <2>1 DEF TrackInv, AtomType, Words
<1>4. phase # "idle" /\ Reached(Table, Running.ip, cmd, Eff)
  BY <1>1, NowReached
<1>5. image' = image /\ UNCHANGED <<phase, resume, cmd, stack, temp, ioPointer, params, pParameterSpace>>
  BY <1>1 DEF chosen
<1>6. Eff' = Eff /\ InIndirect' = InIndirect /\ BIOS' = BIOS
  BY <1>5 DEF Eff, InIndirect, BIOS
<1>7. StackType' /\ Track'
  BY <1>4, <1>5, <1>6, TrackStays DEF TrackInv, AtomType
<1>8. TempType'
  BY <1>5 DEF TrackInv, AtomType, TempType
<1>9. AtomType'
  BY <1>3, <1>5, <1>6, <1>7, <1>8 DEF TrackInv, AtomType, Words
<1>10. IOTrack'
  BY <1>5, <1>6 DEF TrackInv, IOTrack, Entry
<1> QED
  BY <1>7, <1>9, <1>10 DEF TrackInv

LEMMA TrackStutter == TrackInv /\ UNCHANGED interpreterVars => TrackInv'
<1> SUFFICES ASSUME TrackInv, UNCHANGED interpreterVars PROVE TrackInv'
  OBVIOUS
<1>1. UNCHANGED <<image, phase, resume, cmd, stack, temp, ioPointer, params, pParameterSpace, places>>
  BY DEF interpreterVars, chosen
<1>2. BIOS' = BIOS /\ Frames' = Frames /\ Running' = Running /\ Eff' = Eff /\ InIndirect' = InIndirect /\ Parsing' = Parsing
  BY <1>1 DEF BIOS, Frames, Running, Eff, InIndirect, Parsing
<1>3. Table' = Table /\ Entry' = Entry
  BY <1>1, <1>2 DEF Table, Entry
<1>4. AtomType'
  BY <1>1, <1>2 DEF TrackInv, AtomType, StackType, TempType, Words
<1>5. Track'
  BY <1>1, <1>2, <1>3 DEF TrackInv, Track
<1>6. IOTrack'
  BY <1>1, <1>2, <1>3 DEF TrackInv, IOTrack
<1> QED
  BY <1>4, <1>5, <1>6 DEF TrackInv

LEMMA TrackStep == TrackInv /\ [InterpreterNext]_interpreterVars => TrackInv'
BY TrackExec, TrackOneStep, TrackHeaders, TrackIO, TrackCard, TrackStutter DEF InterpreterNext

LEMMA TrackShown == TrackInv => ParserOnTrack
<1> SUFFICES ASSUME TrackInv PROVE ParserOnTrack
  OBVIOUS
<1>1. Parsing => StandsAt(Table, Running.ip, cmd, IF InIndirect THEN resume ELSE phase)
  BY DEF TrackInv, Track, Reached, Eff
<1> QED
  BY <1>1 DEF TrackInv, Track, IOTrack, ParserOnTrack

LEMMA AlwaysOnTrack == InterpreterSpec => []TrackInv
<1>1. InterpreterInit => TrackInv
  BY TrackInit
<1>2. TrackInv /\ [InterpreterNext]_interpreterVars => TrackInv'
  BY TrackStep
<1> QED
  BY <1>1, <1>2, PTL DEF InterpreterSpec

\* The parser never loses its place in a table: ParseTable always reads a
\* command where a command begins.
THEOREM OnTrack == InterpreterSpec => []ParserOnTrack
BY AlwaysOnTrack, TrackShown, PTL

\* Every variable has its type.
THEOREM TypeCorrect == InterpreterSpec => []AtomType
<1>1. TrackInv => AtomType
  BY DEF TrackInv
<1> QED
  BY <1>1, AlwaysOnTrack, PTL
-----------------------------------------------------------------------------
\* The tables that wait and the running one remain, with the parameters they have.
SameFrames ==
  /\ Len(stack') = Len(stack)
  /\ \A i \in 1 .. Len(stack) : stack'[i].table = stack[i].table /\ stack'[i].base = stack[i].base

LEMMA ParametersStay ==
  ASSUME TrackInv, TrackInv', ParametersKept, phase # "idle", SameFrames,
         image' = image, pParameterSpace' = pParameterSpace
  PROVE  ParametersKept'
<1>1. Len(stack) \in Nat /\ Len(stack) >= 1
  BY TopFrame DEF TrackInv, AtomType
<1>2. stack' # <<>> /\ phase' # "idle"
  <2>1. Len(stack') >= 1
    BY <1>1 DEF SameFrames
  <2>2. stack' # <<>>
    <3>1. Len(<<>>) = 0
      BY EmptySeq
    <3> QED
      BY <2>1, <3>1
  <2> QED
    BY <2>2 DEF TrackInv, AtomType, StackType
<1>3. stack # <<>>
  BY DEF TrackInv, AtomType, StackType
<1>4. stack'[1].base = stack[1].base /\ Running'.base = Running.base
  BY <1>1 DEF SameFrames, Running
<1>5. stack'[1].base = 0 /\ pParameterSpace' = Running'.base
  BY <1>3, <1>4 DEF ParametersKept
<1>6. \A i \in 1 .. Len(stack') - 1 : stack'[i + 1].base = stack'[i].base + BIOS'.tables[stack'[i].table].ps
  <2> SUFFICES ASSUME NEW i \in 1 .. Len(stack) - 1
               PROVE  stack'[i + 1].base = stack'[i].base + BIOS'.tables[stack'[i].table].ps
    BY DEF SameFrames
  <2>1. i \in 1 .. Len(stack) /\ i + 1 \in 1 .. Len(stack)
    BY <1>1
  <2>2. stack[i + 1].base = stack[i].base + BIOS.tables[stack[i].table].ps
    BY DEF ParametersKept
  <2>3. stack'[i].table = stack[i].table /\ stack'[i].base = stack[i].base
    BY <2>1 DEF SameFrames
  <2>4. stack'[i + 1].base = stack[i + 1].base
    BY <2>1 DEF SameFrames
  <2>5. BIOS' = BIOS
    BY DEF BIOS
  <2> QED
    BY <2>2, <2>3, <2>4, <2>5
<1> QED
  BY <1>2, <1>5, <1>6 DEF ParametersKept

LEMMA FramesStay ==
  ASSUME TrackInv, phase # "idle",
         \/ stack' = stack
         \/ \E n : stack' = [stack EXCEPT ![Len(stack)].ip = n]
         \/ \E n : Advance(n)
         \/ \E i, w : stack' = [stack EXCEPT ![Len(stack)].ws[i] = w]
  PROVE  SameFrames
<1>1. /\ Len(stack) \in Nat /\ Len(stack) >= 1 /\ DOMAIN stack = 1 .. Len(stack) /\ Running \in Frames
      /\ stack \in Seq(Frames)
  BY TopFrame DEF TrackInv, AtomType, StackType
<1>2. ASSUME NEW f, f.table = Running.table, f.base = Running.base, stack' = [stack EXCEPT ![Len(stack)] = f]
      PROVE  SameFrames
  <2>1. Len(stack') = Len(stack)
    <3>1. stack' = [i \in 1 .. Len(stack) |-> IF i = Len(stack) THEN f ELSE stack[i]]
      BY <1>1, <1>2
    <3> QED
      BY <1>1, <3>1
  <2>2. \A i \in 1 .. Len(stack) : stack'[i] = IF i = Len(stack) THEN f ELSE stack[i]
    BY <1>1, <1>2
  <2> QED
    BY <1>2, <2>1, <2>2 DEF SameFrames, Running
<1>3. CASE stack' = stack
  BY <1>3 DEF SameFrames
<1>4. ASSUME NEW n, stack' = [stack EXCEPT ![Len(stack)].ip = n]
      PROVE  SameFrames
  <2> DEFINE f == [Running EXCEPT !.ip = n]
  <2>1. f.table = Running.table /\ f.base = Running.base
    BY <1>1 DEF Frames
  <2>2. stack' = [stack EXCEPT ![Len(stack)] = f]
    BY <1>4 DEF Running
  <2> HIDE DEF f
  <2> QED
    BY <1>2, <2>1, <2>2
<1>5. ASSUME NEW n, Advance(n)
      PROVE  SameFrames
  BY <1>4, <1>5 DEF Advance
<1>6. ASSUME NEW i, NEW w, stack' = [stack EXCEPT ![Len(stack)].ws[i] = w]
      PROVE  SameFrames
  <2> DEFINE f == [Running EXCEPT !.ws = [Running.ws EXCEPT ![i] = w]]
  <2>1. f.table = Running.table /\ f.base = Running.base
    BY <1>1 DEF Frames
  <2>2. stack' = [stack EXCEPT ![Len(stack)] = f]
    BY <1>6 DEF Running
  <2> HIDE DEF f
  <2> QED
    BY <1>2, <2>1, <2>2
<1> QED
  BY <1>3, <1>4, <1>5, <1>6

\* The steps that neither call a table nor return from one.
LEMMA ParametersInTable ==
  ASSUME TrackInv, TrackInv', ParametersKept,
         \/ cmdSet_ATI_Port \/ cmdSet_X_Port \/ cmdSet_Reg_Block \/ cmdSetDataBlock \/ Pass \/ ProcessJump
         \/ HeaderCommands \/ IndirectInputOutput \/ CardTurns
  PROVE  ParametersKept'
<1>1. phase # "idle" /\ image' = image /\ pParameterSpace' = pParameterSpace
  <2>1. CASE cmdSet_ATI_Port \/ cmdSet_X_Port \/ cmdSet_Reg_Block \/ cmdSetDataBlock \/ Pass \/ ProcessJump
    BY <2>1 DEF cmdSet_ATI_Port, cmdSet_X_Port, cmdSet_Reg_Block, cmdSetDataBlock, Pass, ProcessJump, AtOp, onlyTemp, chosen
  <2>2. CASE HeaderCommands
    BY <2>2 DEF HeaderCommands, ProcessCommandProperties, GetDestination, GetParametersDirect, GetSource, Execute,
                Evaluate, PutDataRegister, PutData, SwitchCase, SwitchEnd, AtOp, chosen
  <2>3. CASE IndirectInputOutput
    BY <2>3 DEF IndirectInputOutput, Search, IndirectCommand, EndOfProgram, parserHeld, chosen
  <2>4. CASE CardTurns
    BY <2>4 DEF CardTurns, chosen
  <2> QED
    BY <2>1, <2>2, <2>3, <2>4
<1>2. \/ stack' = stack
      \/ \E n : stack' = [stack EXCEPT ![Len(stack)].ip = n]
      \/ \E n : Advance(n)
      \/ \E i, w : stack' = [stack EXCEPT ![Len(stack)].ws[i] = w]
  <2>1. CASE cmdSet_ATI_Port \/ cmdSet_X_Port \/ cmdSet_Reg_Block \/ cmdSetDataBlock \/ Pass
    BY <2>1 DEF cmdSet_ATI_Port, cmdSet_X_Port, cmdSet_Reg_Block, cmdSetDataBlock, Pass
  <2>2. CASE ProcessJump
    BY <2>2 DEF ProcessJump
  <2>3. CASE ProcessCommandProperties \/ GetDestination \/ GetParametersDirect
    BY <2>3 DEF ProcessCommandProperties, GetDestination, GetParametersDirect
  <2>4. CASE GetSource
    <3>1. CASE Cmd.op = "SHIFT"
      BY <2>4, <3>1 DEF GetSource
    <3>2. CASE Cmd.op # "SHIFT" /\ Cmd.src = "IMM"
      BY <2>4, <3>2 DEF GetSource
    <3>3. CASE Cmd.op # "SHIFT" /\ Cmd.src # "IMM"
      BY <2>4, <3>3 DEF GetSource
    <3> QED
      BY <3>1, <3>2, <3>3
  <2>5. CASE Execute \/ Evaluate \/ PutDataRegister
    BY <2>5 DEF Execute, Evaluate, PutDataRegister
  <2>6. CASE PutData
    BY <2>6 DEF PutData
  <2>7. CASE SwitchCase \/ SwitchEnd
    BY <2>7 DEF SwitchCase, SwitchEnd
  <2>8. CASE IndirectInputOutput
    BY <2>8 DEF IndirectInputOutput, Search, IndirectCommand, EndOfProgram, parserHeld
  <2>9. CASE CardTurns
    BY <2>9 DEF CardTurns
  <2> QED
    BY <2>1, <2>2, <2>3, <2>4, <2>5, <2>6, <2>7, <2>8, <2>9 DEF HeaderCommands
<1>3. SameFrames
  BY <1>1, <1>2, FramesStay
<1> QED
  BY <1>1, <1>3, ParametersStay

\* A table is entered behind the ones that wait for it.
LEMMA ParametersEntered ==
  ASSUME NEW tables \in Seq(Frames), NEW i \in DOMAIN BIOS.tables, NEW ps \in Int, Enter(i, tables, ps),
         image' = image, pParameterSpace' = ps,
         tables = <<>> => ps = 0,
         tables # <<>> => /\ tables[1].base = 0
                          /\ ps = tables[Len(tables)].base + BIOS.tables[tables[Len(tables)].table].ps,
         \A j \in 1 .. Len(tables) - 1 : tables[j + 1].base = tables[j].base + BIOS.tables[tables[j].table].ps
  PROVE  ParametersKept'
<1>1. BIOS' = BIOS
  BY DEF BIOS
<1>2. Len(<<>>) = 0
  BY EmptySeq
<1>3. CASE ReturnWith("UNEXPECTED_BEHAVIOR")
  <2>1. stack' = <<>> /\ result' = "UNEXPECTED_BEHAVIOR"
    BY <1>3 DEF ReturnWith
  <2>2. Len(stack') - 1 = -1
    BY <1>2, <2>1
  <2> QED
    BY <2>1, <2>2 DEF ParametersKept
<1>4. ASSUME NEW ws, stack' = Append(tables, [table |-> i, ip |-> 0, ws |-> ws, base |-> ps]), phase' = "fetch"
      PROVE  ParametersKept'
  <2> DEFINE f == [table |-> i, ip |-> 0, ws |-> ws, base |-> ps]
             n == Len(tables)
  <2>1. f.base = ps /\ f.table = i
    OBVIOUS
  <2> HIDE DEF f
  <2>2. n \in Nat /\ Len(stack') = n + 1 /\ stack'[n + 1] = f /\ \A j \in 1 .. n : stack'[j] = tables[j]
    BY <1>4, AppendProperties DEF f
  <2>3. Running' = f
    BY <2>2 DEF Running
  <2>4. n = 0 <=> tables = <<>>
    BY EmptySeq
  <2>5. stack'[1].base = 0
    <3>1. CASE n = 0
      BY <2>1, <2>2, <2>4, <3>1
    <3>2. CASE n # 0
      <4>1. 1 \in 1 .. n
        BY <2>2, <3>2
      <4>2. stack'[1] = tables[1]
        BY <2>2, <4>1
      <4> QED
        BY <2>4, <3>2, <4>2
    <3> QED
      BY <3>1, <3>2
  <2> HIDE DEF n
  <2>6. \A j \in 1 .. n : stack'[j + 1].base = stack'[j].base + BIOS.tables[stack'[j].table].ps
    <3> SUFFICES ASSUME NEW j \in 1 .. n
                 PROVE  stack'[j + 1].base = stack'[j].base + BIOS.tables[stack'[j].table].ps
      OBVIOUS
    <3>1. stack'[j] = tables[j]
      BY <2>2
    <3>2. CASE j = n
      <4>1. tables # <<>>
        BY <2>2, <2>4, <3>2
      <4> QED
        BY <2>1, <2>2, <3>1, <3>2, <4>1 DEF n
    <3>3. CASE j # n
      <4>1. j + 1 \in 1 .. n /\ j \in 1 .. n - 1
        BY <2>2, <3>3
      <4>2. stack'[j + 1] = tables[j + 1]
        BY <2>2, <4>1
      <4> QED
        BY <3>1, <4>1, <4>2 DEF n
    <3> QED
      BY <3>2, <3>3
  <2>7. Len(stack') - 1 = n
    BY <2>2
  <2> QED
    BY <1>1, <1>4, <2>1, <2>3, <2>5, <2>6, <2>7 DEF ParametersKept
<1> QED
  BY <1>3, <1>4 DEF Enter

LEMMA ParametersCall ==
  ASSUME TrackInv, TrackInv', ParametersKept, cmdCall_Table
  PROVE  ParametersKept'
<1>1. AtOp({"CALL_TABLE"}) /\ UNCHANGED <<chosen, resume, cmd, temp, ioPointer, params, places, saves, execs>>
  BY DEF cmdCall_Table
<1>2. image' = image
  BY <1>1 DEF chosen
<1>3. phase # "idle" /\ stack # <<>>
  BY <1>1, AtFetch, NowReached DEF TrackInv, AtomType, StackType
<1>4. CASE Here.value \notin DOMAIN BIOS.tables
  <2>1. Advance(2) /\ pParameterSpace' = pParameterSpace
    BY <1>4 DEF cmdCall_Table
  <2>2. SameFrames
    BY <1>3, <2>1, FramesStay
  <2> QED
    BY <1>2, <1>3, <2>1, <2>2, ParametersStay
<1>5. CASE Here.value \in DOMAIN BIOS.tables
  <2>1. PICK ps, tables, f : /\ ps = pParameterSpace + Table.ps /\ pParameterSpace' = ps
                             /\ f = [Running EXCEPT !.ip = @ + 2]
                             /\ tables = [stack EXCEPT ![Len(stack)] = f]
                             /\ Enter(Here.value, tables, ps)
    BY <1>5 DEF cmdCall_Table, Running
  <2>2. ps \in Int
    <3>1. WellFormedTable(Table)
      BY <1>1, AtFetch, NowReached
    <3> QED
      BY <2>1, <3>1 DEF TrackInv, AtomType, WellFormedTable
  <2>3. Running \in Frames /\ Running.ip + 2 \in Nat /\ Len(stack) \in Nat /\ Len(stack) >= 1 /\ stack \in Seq(Frames)
    BY <1>3, TopFrame DEF TrackInv, AtomType, StackType
  <2>4. f \in Frames /\ f.table = Running.table /\ f.base = Running.base
    BY <2>1, <2>3 DEF Frames
  <2>5. Len(stack) \in 1 .. Len(stack)
    BY <2>3
  <2>6. /\ tables \in Seq(Frames) /\ Len(tables) = Len(stack)
        /\ \A i \in 1 .. Len(stack) : tables[i] = IF i = Len(stack) THEN f ELSE stack[i]
    BY <2>1, <2>3, <2>4, <2>5, ExceptSeq
  <2>7. \A i \in 1 .. Len(stack) : tables[i].table = stack[i].table /\ tables[i].base = stack[i].base
    BY <2>4, <2>6 DEF Running
  <2>8. tables[1].base = 0
    <3>1. 1 \in 1 .. Len(stack)
      BY <2>3
    <3> QED
      BY <1>3, <2>7, <3>1 DEF ParametersKept
  <2>9. ps = tables[Len(tables)].base + BIOS.tables[tables[Len(tables)].table].ps
    BY <1>3, <2>1, <2>5, <2>6, <2>7 DEF ParametersKept, Running, Table
  <2>10. \A j \in 1 .. Len(tables) - 1 : tables[j + 1].base = tables[j].base + BIOS.tables[tables[j].table].ps
    <3> SUFFICES ASSUME NEW j \in 1 .. Len(stack) - 1
                 PROVE  tables[j + 1].base = tables[j].base + BIOS.tables[tables[j].table].ps
      BY <2>6
    <3>1. j \in 1 .. Len(stack) /\ j + 1 \in 1 .. Len(stack)
      BY <2>3
    <3>2. stack[j + 1].base = stack[j].base + BIOS.tables[stack[j].table].ps
      BY DEF ParametersKept
    <3>3. tables[j].table = stack[j].table /\ tables[j].base = stack[j].base
      BY <2>7, <3>1
    <3>4. tables[j + 1].base = stack[j + 1].base
      BY <2>7, <3>1
    <3> QED
      BY <3>2, <3>3, <3>4
  <2>11. tables # <<>>
    <3>1. Len(<<>>) = 0
      BY EmptySeq
    <3> QED
      BY <2>3, <2>6, <3>1
  <2> QED
    BY <1>2, <1>5, <2>1, <2>2, <2>6, <2>8, <2>9, <2>10, <2>11, ParametersEntered
<1> QED
  BY <1>4, <1>5

LEMMA ParametersReturn ==
  ASSUME TrackInv, TrackInv', ParametersKept, EndOfTable
  PROVE  ParametersKept'
<1>1. AtOp({"EOT"}) /\ UNCHANGED <<chosen, resume, cmd, temp, ioPointer, params, places, saves, execs>>
  BY DEF EndOfTable
<1>2. image' = image /\ BIOS' = BIOS
  BY <1>1 DEF chosen, BIOS
<1>3. phase # "idle" /\ stack # <<>> /\ phase = "fetch"
  BY <1>1, AtFetch, NowReached DEF TrackInv, AtomType, StackType, AtOp
<1>4. Len(stack) \in Nat /\ Len(stack) >= 1 /\ stack \in Seq(Frames)
  BY <1>3, TopFrame DEF TrackInv, AtomType, StackType
<1>5. stack[1].base = 0 /\ pParameterSpace = stack[Len(stack)].base
  BY <1>3 DEF ParametersKept, Running
<1>6. CASE Len(stack) = 1
  <2>1. stack' = <<>> /\ pParameterSpace' = pParameterSpace
    BY <1>6 DEF EndOfTable, ReturnWith
  <2>2. pParameterSpace' = 0
    BY <1>5, <1>6, <2>1
  <2>3. Len(stack') - 1 = -1
    BY <2>1, EmptySeq
  <2> QED
    BY <2>1, <2>2, <2>3 DEF ParametersKept
<1>7. CASE Len(stack) # 1
  <2> DEFINE n == Len(stack) - 1
  <2>1. /\ stack' = SubSeq(stack, 1, n) /\ phase' = "fetch"
        /\ pParameterSpace' = pParameterSpace - BIOS.tables[stack[n].table].ps
    BY <1>3, <1>7 DEF EndOfTable, ParametersBack
  <2>2. n \in 1 .. Len(stack) /\ n >= 1 /\ n \in Nat /\ n + 1 = Len(stack) /\ n \in 1 .. Len(stack) - 1
    <3>1. \A l \in Nat : l >= 1 /\ l # 1 =>
            l - 1 \in 1 .. l /\ l - 1 >= 1 /\ l - 1 \in Nat /\ l - 1 + 1 = l /\ l - 1 \in 1 .. l - 1
      OBVIOUS
    <3> QED
      BY <1>4, <1>7, <3>1
  <2> HIDE DEF n
  <2>3. Len(stack') = n /\ \A i \in 1 .. n : stack'[i] = stack[i]
    <3>1. \A i \in 1 .. n : i \in 1 .. Len(stack)
      BY <2>2
    <3>2. \A i \in 1 .. n : stack[i] \in Frames
      BY <1>4, <3>1
    <3>3. stack' = [i \in 1 .. n |-> stack[i]]
      <4>1. \A i \in 1 .. n : i + 1 - 1 = i
        OBVIOUS
      <4> QED
        BY <1>4, <2>1, <2>2, <4>1, SubSeqProperties
    <3> QED
      BY <2>2, <3>3
  <2>4. stack[n + 1].base = stack[n].base + BIOS.tables[stack[n].table].ps
    BY <2>2 DEF ParametersKept
  <2>5. stack[n].base \in Int /\ BIOS.tables[stack[n].table].ps \in Nat
    <3>1. stack[n] \in Frames
      BY <1>4, <2>2
    <3>2. stack[n].table \in DOMAIN BIOS.tables /\ stack[n].base \in Int
      BY <3>1 DEF Frames
    <3> QED
      BY <3>2, ImageIsWell DEF TrackInv, AtomType, WellFormedTable
  <2>6. pParameterSpace' = stack[n].base
    BY <1>5, <2>1, <2>2, <2>4, <2>5
  <2>7. Running' = stack[n] /\ stack'[1] = stack[1]
    <3>1. n \in 1 .. n /\ 1 \in 1 .. n
      BY <2>2
    <3> QED
      BY <2>3, <3>1 DEF Running
  <2>8. \A i \in 1 .. n - 1 : stack'[i + 1].base = stack'[i].base + BIOS.tables[stack'[i].table].ps
    <3> SUFFICES ASSUME NEW i \in 1 .. n - 1
                 PROVE  stack'[i + 1].base = stack'[i].base + BIOS.tables[stack'[i].table].ps
      OBVIOUS
    <3>1. i \in 1 .. n /\ i + 1 \in 1 .. n /\ i \in 1 .. Len(stack) - 1
      BY <2>2
    <3>2. stack[i + 1].base = stack[i].base + BIOS.tables[stack[i].table].ps
      BY <3>1 DEF ParametersKept
    <3>3. stack'[i + 1] = stack[i + 1] /\ stack'[i] = stack[i]
      BY <2>3, <3>1
    <3> QED
      BY <3>2, <3>3
  <2> QED
    BY <1>2, <1>5, <2>1, <2>3, <2>6, <2>7, <2>8 DEF ParametersKept
<1> QED
  BY <1>6, <1>7

LEMMA ParametersStep ==
  ASSUME TrackInv, TrackInv', ParametersKept, [InterpreterNext]_interpreterVars
  PROVE  ParametersKept'
<1>1. CASE Exec
  <2>1. PICK i \in DOMAIN BIOS.tables, none \in {<<>>}, ps \in {0} : Enter(i, none, ps) /\ pParameterSpace' = ps
    BY <1>1 DEF Exec
  <2>2. none \in Seq(Frames) /\ Len(none) = 0 /\ ps \in Int
    BY <2>1, EmptySeq
  <2>3. image' = image
    BY <1>1 DEF Exec, chosen
  <2>4. \A j \in 1 .. Len(none) - 1 : none[j + 1].base = none[j].base + BIOS.tables[none[j].table].ps
    BY <2>2
  <2> QED
    BY <2>1, <2>2, <2>3, <2>4, ParametersEntered
<1>2. CASE cmdCall_Table
  BY <1>2, ParametersCall
<1>3. CASE EndOfTable
  BY <1>3, ParametersReturn
<1>4. CASE Refuse
  <2>1. stack' = <<>> /\ result' # "SUCCESS"
    BY <1>4 DEF Refuse, ReturnWith
  <2>2. Len(stack') - 1 = -1
    BY <2>1, EmptySeq
  <2> QED
    BY <2>1, <2>2 DEF ParametersKept
<1>5. CASE UNCHANGED interpreterVars
  BY <1>5 DEF interpreterVars, chosen, outcome, ParametersKept, Running, BIOS
<1>6. CASE \/ cmdSet_ATI_Port \/ cmdSet_X_Port \/ cmdSet_Reg_Block \/ cmdSetDataBlock \/ Pass \/ ProcessJump
           \/ HeaderCommands \/ IndirectInputOutput \/ CardTurns
  BY <1>6, ParametersInTable
<1> QED
  BY <1>1, <1>2, <1>3, <1>4, <1>5, <1>6 DEF InterpreterNext, OneStepCommands

\* Every table finds the parameters that it was handed, and its caller finds its
\* own again when it ends.
THEOREM ParametersHold == InterpreterSpec => []ParametersKept
<1>1. InterpreterInit => ParametersKept
  <2> SUFFICES ASSUME InterpreterInit PROVE ParametersKept
    OBVIOUS
  <2>1. stack = <<>> /\ pParameterSpace = 0
    BY DEF InterpreterInit
  <2>2. Len(stack) - 1 = -1
    BY <2>1, EmptySeq
  <2> QED
    BY <2>1, <2>2 DEF ParametersKept
<1>2. TrackInv /\ TrackInv' /\ ParametersKept /\ [InterpreterNext]_interpreterVars => ParametersKept'
  BY ParametersStep
<1> QED
  BY <1>1, <1>2, AlwaysOnTrack, PTL DEF InterpreterSpec

-----------------------------------------------------------------------------
\* What ChangedAreSaved says of one register.
SavedAt(p) == IF p \in DOMAIN atomSaved THEN atomSaved[p] = before[p] ELSE places[p] = before[p]
Saving == {"REG", "PLL", "MC"}

LEMMA SavedWrite ==
  ASSUME ChangedAreSaved, recording' = recording, before' = before, NEW p, NEW w, CailWrite(p, w)
  PROVE  ChangedAreSaved'
<1>1. places' = [places EXCEPT ![p] = w] /\ atomSaveRegisters(p) /\ DOMAIN places' = DOMAIN places
  BY DEF CailWrite
<1> SUFFICES ASSUME recording, ~unrecorded', NEW q \in DOMAIN places, q[1] \in Saving, q \notin Volatile
             PROVE  SavedAt(q)'
  BY <1>1 DEF ChangedAreSaved, SavedAt, Saving
<1>2. ~unrecorded
  BY <1>1 DEF atomSaveRegisters, saves
<1>3. SavedAt(q)
  BY <1>2 DEF ChangedAreSaved, SavedAt, Saving
<1>4. q # p => places'[q] = places[q]
  BY <1>1
<1>5. CASE p \in DOMAIN atomSaved
  <2>1. atomSaved' = atomSaved
    BY <1>1, <1>5 DEF atomSaveRegisters, saves
  <2> QED
    BY <1>3, <1>4, <1>5, <2>1 DEF SavedAt
<1>6. CASE p \notin DOMAIN atomSaved
  <2>1. atomSaved' = [r \in DOMAIN atomSaved \union {p} |-> IF r = p THEN Held(places, p) ELSE atomSaved[r]]
    BY <1>1, <1>6 DEF atomSaveRegisters, saves
  <2>2. CASE q = p
    <3>1. q \in DOMAIN atomSaved' /\ atomSaved'[q] = Held(places, p)
      BY <2>1, <2>2
    <3>2. places[q] = before[q]
      BY <1>3, <1>6, <2>2 DEF SavedAt
    <3> QED
      BY <2>2, <3>1, <3>2 DEF SavedAt, Held
  <2>3. CASE q # p
    <3>1. q \in DOMAIN atomSaved' <=> q \in DOMAIN atomSaved
      BY <2>1, <2>3
    <3>2. q \in DOMAIN atomSaved => atomSaved'[q] = atomSaved[q]
      BY <2>1, <2>3
    <3> QED
      BY <1>3, <1>4, <2>3, <3>1, <3>2 DEF SavedAt
  <2> QED
    BY <2>2, <2>3
<1> QED
  BY <1>5, <1>6

\* A write to a place that saving is not about, or no write at all.
LEMMA SavedElsewhere ==
  ASSUME ChangedAreSaved, recording' = recording, before' = before, NEW p, p[1] \notin Saving \/ p \in Volatile,
         \/ places' = places
         \/ \E w : places' = [places EXCEPT ![p] = w],
         ~unrecorded' => ~unrecorded,
         \/ atomSaved' = atomSaved
         \/ \E w : atomSaved' = [r \in DOMAIN atomSaved \union {p} |-> IF r = p THEN w ELSE atomSaved[r]]
  PROVE  ChangedAreSaved'
<1>1. DOMAIN places' = DOMAIN places
  OBVIOUS
<1> SUFFICES ASSUME recording, ~unrecorded', NEW q \in DOMAIN places, q[1] \in Saving, q \notin Volatile
             PROVE  SavedAt(q)'
  BY <1>1 DEF ChangedAreSaved, SavedAt, Saving
<1>2. SavedAt(q)
  BY DEF ChangedAreSaved, SavedAt, Saving
<1>3. q # p
  OBVIOUS
<1>4. places'[q] = places[q]
  BY <1>3
<1>5. (q \in DOMAIN atomSaved' <=> q \in DOMAIN atomSaved) /\ (q \in DOMAIN atomSaved => atomSaved'[q] = atomSaved[q])
  BY <1>3
<1> QED
  BY <1>2, <1>4, <1>5 DEF SavedAt

LEMMA SavedStays ==
  ASSUME ChangedAreSaved, UNCHANGED <<recording, before, places, saves>>
  PROVE  ChangedAreSaved'
BY DEF ChangedAreSaved, saves

LEMMA SavedStep ==
  ASSUME TrackInv, ChangedAreSaved, [InterpreterNext]_interpreterVars
  PROVE  ChangedAreSaved'
<1>1. recording' = recording /\ before' = before
  <2>1. CASE OneStepCommands
    BY <2>1 DEF OneStepCommands, cmdSet_ATI_Port, cmdSet_X_Port, cmdSet_Reg_Block, cmdSetDataBlock, Pass, ProcessJump,
                cmdCall_Table, EndOfTable, Refuse, onlyTemp, chosen
  <2>2. CASE HeaderCommands
    BY <2>2 DEF HeaderCommands, ProcessCommandProperties, GetDestination, GetParametersDirect, GetSource, Execute,
                Evaluate, PutDataRegister, PutData, SwitchCase, SwitchEnd, chosen
  <2>3. CASE IndirectInputOutput \/ Exec \/ CardTurns \/ UNCHANGED interpreterVars
    BY <2>3 DEF IndirectInputOutput, Search, IndirectCommand, EndOfProgram, parserHeld, Exec, CardTurns,
                interpreterVars, chosen
  <2> QED
    BY <2>1, <2>2, <2>3 DEF InterpreterNext
<1>2. CASE PutDataRegister
  <2>1. CASE Indirect("REG")
    <3>1. UNCHANGED <<places, saves>>
      BY <1>2, <2>1 DEF PutDataRegister, Indirect
    <3> QED
      BY <1>1, <3>1, SavedStays
  <2>2. CASE temp.Port = "ATI" /\ temp.PortID = 0
    <3>1. PICK p, w : CailWrite(p, w)
      BY <1>2, <2>2 DEF PutDataRegister, Indirect
    <3> QED
      BY <1>1, <3>1, SavedWrite
  <2>3. CASE temp.Port = "PCI"
    <3>1. PICK p : p = <<"PCI", Cmd.at + temp.RegBlock>> /\ CailWritePCIConfigData(p)
      BY <1>2, <2>3 DEF PutDataRegister, Indirect
    <3>2. p[1] \notin Saving
      BY <3>1 DEF Saving
    <3>3. \/ places' = places
          \/ \E w : places' = [places EXCEPT ![p] = w]
      BY <3>1 DEF CailWritePCIConfigData
    <3>4. ~unrecorded' => ~unrecorded
      BY <3>1 DEF CailWritePCIConfigData, atomSaveRegisters, saves
    <3>5. \/ atomSaved' = atomSaved
          \/ \E w : atomSaved' = [r \in DOMAIN atomSaved \union {p} |-> IF r = p THEN w ELSE atomSaved[r]]
      BY <3>1 DEF CailWritePCIConfigData, atomSaveRegisters, saves
    <3> QED
      BY <1>1, <3>2, <3>3, <3>4, <3>5, SavedElsewhere
  <2>4. CASE temp.Port = "SYSIO"
    <3>1. UNCHANGED <<places, saves>>
      BY <1>2, <2>4 DEF PutDataRegister, Indirect
    <3> QED
      BY <1>1, <3>1, SavedStays
  <2>5. temp.Port \in {"ATI", "PCI", "SYSIO"}
    BY DEF TrackInv, AtomType, TempType
  <2> QED
    BY <2>1, <2>2, <2>3, <2>4, <2>5 DEF Indirect
<1>3. CASE PutData
  <2>1. CASE Cmd.dst \in {"PLL", "MC"}
    <3>1. PICK p, w : CailWrite(p, w)
      BY <1>3, <2>1 DEF PutData
    <3> QED
      BY <1>1, <3>1, SavedWrite
  <2>2. CASE Cmd.dst = "FB" /\ fbScratch
    <3>1. PICK p, w : p = FBWord(Cmd.at) /\ places' = [places EXCEPT ![p] = w] /\ UNCHANGED saves
      BY <1>3, <2>2 DEF PutData
    <3>2. p[1] \notin Saving
      BY <3>1 DEF FBWord, Saving
    <3> QED
      BY <1>1, <3>1, <3>2, SavedElsewhere DEF saves
  <2>3. CASE Cmd.dst \notin {"PLL", "MC"} /\ ~(Cmd.dst = "FB" /\ fbScratch)
    <3>1. UNCHANGED <<places, saves>>
      BY <1>3, <2>3 DEF PutData
    <3> QED
      BY <1>1, <3>1, SavedStays
  <2> QED
    BY <2>1, <2>2, <2>3
<1>4. CASE IndirectCommand
  <2>1. \/ CailWrite(<<"REG", Entry.reg>>, temp.IndirectData) \/ UNCHANGED <<places, saves>>
    BY <1>4 DEF IndirectCommand
  <2> QED
    BY <1>1, <2>1, SavedWrite, SavedStays
<1>5. CASE CardTurns
  <2>1. PICK p \in Volatile : places' = [places EXCEPT ![p] = Not(@)]
    BY <1>5 DEF CardTurns
  <2>2. UNCHANGED saves
    BY <1>5 DEF CardTurns
  <2> QED
    BY <1>1, <2>1, <2>2, SavedElsewhere DEF saves
<1>6. CASE OneStepCommands
  <2>1. UNCHANGED <<places, saves>>
    BY <1>6 DEF OneStepCommands, cmdSet_ATI_Port, cmdSet_X_Port, cmdSet_Reg_Block, cmdSetDataBlock, Pass, ProcessJump,
                cmdCall_Table, EndOfTable, Refuse, onlyTemp
  <2> QED
    BY <1>1, <2>1, SavedStays
<1>7. CASE \/ ProcessCommandProperties \/ GetDestination \/ GetParametersDirect \/ GetSource \/ Execute \/ Evaluate
           \/ SwitchCase \/ SwitchEnd
  <2>1. UNCHANGED <<places, saves>>
    BY <1>7 DEF ProcessCommandProperties, GetDestination, GetParametersDirect, GetSource, Execute, Evaluate, SwitchCase, SwitchEnd
  <2> QED
    BY <1>1, <2>1, SavedStays
<1>8. CASE Exec \/ Search \/ EndOfProgram \/ UNCHANGED interpreterVars
  <2>1. UNCHANGED <<places, saves>>
    BY <1>8 DEF Exec, Search, EndOfProgram, interpreterVars
  <2> QED
    BY <1>1, <2>1, SavedStays
<1> QED
  BY <1>2, <1>3, <1>4, <1>5, <1>6, <1>7, <1>8 DEF InterpreterNext, HeaderCommands, IndirectInputOutput

\* What a table changes can be put back from the save list.
THEOREM SavedHolds == InterpreterSpec => []ChangedAreSaved
<1>1. InterpreterInit => ChangedAreSaved
  BY DEF InterpreterInit, ChangedAreSaved
<1>2. TrackInv /\ ChangedAreSaved /\ [InterpreterNext]_interpreterVars => ChangedAreSaved'
  BY SavedStep
<1> QED
  BY <1>1, <1>2, AlwaysOnTrack, PTL DEF InterpreterSpec
-----------------------------------------------------------------------------
\* Bits of shifted words and of fields.
LEMMA MasksAreBits ==
  ASSUME NEW a
  PROVE  AlignmentMask(a) \subseteq Bits
<1>1. Width(a) \in {ByteBits, 2 * ByteBits, 4 * ByteBits}
  BY DEF Width
<1>2. \A n \in {ByteBits, 2 * ByteBits, 4 * ByteBits} : 0 .. n - 1 \subseteq 0 .. 4 * ByteBits - 1
  BY ByteAssumption
<1> QED
  BY <1>1, <1>2 DEF AlignmentMask, Bits

LEMMA CommonBits ==
  ASSUME NEW S, NEW a, NEW d, NEW b \in Bits
  PROVE  /\ b \in Field(a, d) <=> b - DestinationAlignmentShift(d) \in AlignmentMask(a)
         /\ b \in CommonSource(S, a, d) => b \in Field(a, d)
         /\ b \in Field(a, d) =>
              (b \in CommonSource(S, a, d) <=> b - DestinationAlignmentShift(d) + SourceAlignmentShift(a) \in S)
<1>1. PICK n, m : n = DestinationAlignmentShift(d) /\ m = SourceAlignmentShift(a)
  OBVIOUS
<1>2. b \in Field(a, d) <=> b - n \in AlignmentMask(a)
  BY <1>1 DEF Field, Shl
<1>3. b \in CommonSource(S, a, d) <=> b - n \in Bits /\ b - n + m \in S /\ b - n \in AlignmentMask(a)
  BY <1>1 DEF CommonSource, Shl, Shr
<1>4. b - n \in AlignmentMask(a) => b - n \in Bits
  BY MasksAreBits
<1> QED
  BY <1>1, <1>2, <1>3, <1>4

LEMMA MoveBit ==
  ASSUME NEW D, NEW S, NEW a, a # "Dword", NEW d, NEW b \in Bits
  PROVE  /\ b \notin Field(a, d) => (b \in ProcessMove(D, S, a, d) <=> b \in D)
         /\ b \in Field(a, d) =>
              (b \in ProcessMove(D, S, a, d) <=> b - DestinationAlignmentShift(d) + SourceAlignmentShift(a) \in S)
<1>1. b \in ProcessMove(D, S, a, d) <=> (b \in D /\ b \notin Field(a, d)) \/ b \in CommonSource(S, a, d)
  BY DEF ProcessMove
<1> QED
  BY <1>1, CommonBits

LEMMA AndBit ==
  ASSUME NEW D, NEW S, NEW a, NEW d, NEW b \in Bits
  PROVE  /\ b \notin Field(a, d) => (b \in ProcessAnd(D, S, a, d) <=> b \in D)
         /\ b \in Field(a, d) =>
              (b \in ProcessAnd(D, S, a, d) <=>
                b \in D /\ b - DestinationAlignmentShift(d) + SourceAlignmentShift(a) \in S)
<1>1. PICK n, m : n = DestinationAlignmentShift(d) /\ m = SourceAlignmentShift(a)
  OBVIOUS
<1>2. b \in ProcessAnd(D, S, a, d) <=> b \in D /\ ((b - n \in Bits /\ b - n + m \in S) \/ b \notin Field(a, d))
  BY <1>1 DEF ProcessAnd, Shl, Shr, Not
<1>3. b \in Field(a, d) => b - n \in Bits
  BY <1>1, CommonBits, MasksAreBits
<1> QED
  BY <1>1, <1>2, <1>3

LEMMA OrBit ==
  ASSUME NEW D, NEW S, NEW a, NEW d, NEW b \in Bits
  PROVE  /\ b \notin Field(a, d) => (b \in ProcessOr(D, S, a, d) <=> b \in D) /\ (b \in ProcessXor(D, S, a, d) <=> b \in D)
         /\ b \in Field(a, d) =>
              LET s == b - DestinationAlignmentShift(d) + SourceAlignmentShift(a) \in S IN
              (b \in ProcessOr(D, S, a, d) <=> b \in D \/ s) /\ (b \in ProcessXor(D, S, a, d) <=> ((b \in D) # s))
<1>1. b \in ProcessOr(D, S, a, d) <=> b \in D \/ b \in CommonSource(S, a, d)
  BY DEF ProcessOr
<1>2. b \in ProcessXor(D, S, a, d) <=> ~(b \in D <=> b \in CommonSource(S, a, d))
  BY DEF ProcessXor
<1> QED
  BY <1>1, <1>2, CommonBits

LEMMA MaskBit ==
  ASSUME NEW D, NEW M, NEW S, NEW a, NEW d, NEW b \in Bits
  PROVE  /\ b \notin Field(a, d) => (b \in ProcessMask(D, M, S, a, d) <=> b \in D)
         /\ b \in Field(a, d) =>
              (b \in ProcessMask(D, M, S, a, d) <=>
                (b \in D /\ b - DestinationAlignmentShift(d) \in M) \/ b - DestinationAlignmentShift(d) \in S)
<1>1. PICK n : n = DestinationAlignmentShift(d)
  OBVIOUS
<1>2. b \in ProcessMask(D, M, S, a, d) <=>
        (b \in D /\ (b - n \in M \/ b \notin Field(a, d))) \/ (b - n \in S /\ b - n \in AlignmentMask(a))
  BY <1>1 DEF ProcessMask, Shl, Not
<1>3. b \in Field(a, d) <=> b - n \in AlignmentMask(a)
  BY <1>1, CommonBits
<1> QED
  BY <1>1, <1>2, <1>3

\* What is moved as a whole takes the whole word.
LEMMA WholeWord ==
  ASSUME NEW b \in Bits
  PROVE  /\ b \in Field("Dword", 0)
         /\ b - DestinationAlignmentShift(0) + SourceAlignmentShift("Dword") = b
<1>1. b \in Int
  BY DEF Bits
<1>2. DestinationAlignmentShift(0) = 0 /\ SourceAlignmentShift("Dword") = 0 /\ Width("Dword") = 4 * ByteBits
  BY ByteAssumption DEF DestinationAlignmentShift, SourceAlignmentShift, Width
<1>3. b - 0 + 0 = b /\ b - 0 = b
  BY <1>1
<1>4. b \in AlignmentMask("Dword")
  BY <1>2 DEF AlignmentMask, Bits
<1> QED
  BY <1>2, <1>3, <1>4 DEF Field, Shl

LEMMA DwordSource ==
  ASSUME NEW c, c.op = "MOVE"
  PROVE  SourceAlignment(c) = "Dword" <=> c.align = "Dword"
<1>1. Immediate(c.align) = "Dword" <=> c.align = "Dword"
  BY DEF Immediate
<1> QED
  BY <1>1 DEF SourceAlignment

\* What a command leaves in temp.Dest, bit by bit, when its operands have been read.
LEMMA FieldResult ==
  ASSUME TempType, NEW c, c.op \in FieldOps, NEW w \in NewDest(c), NEW D,
         ~(c.op = "MOVE" /\ c.align = "Dword") => temp.Dest = D,
         c.op = "MASK" => temp.Mask = c.mask
  PROVE  /\ \A b \in Bits \ FieldOf(c) : b \in w <=> b \in D
         /\ c.op = "CLEAR" => w \intersect FieldOf(c) = {}
         /\ c.op \in Logic \union {"MASK"} => \A b \in Bits \intersect FieldOf(c) : b \in w <=> BitOf(c, D, temp.Source, b)
<1> DEFINE S == temp.Source  a == SourceAlignment(c)  x == temp.Dest
<1>1. S \in Word
  BY DEF TempType
<1>2. c.op \in {"MOVE", "AND", "OR", "XOR", "MASK", "CLEAR", "SHIFT"}
  BY DEF FieldOps, Logic
<1>3. NewDest(c) =
    CASE c.op = "MOVE" -> {ProcessMove(x, S, a, c.d)}
    [] c.op = "AND" -> {ProcessAnd(x, S, a, c.d)}
    [] c.op = "OR" -> {ProcessOr(x, S, a, c.d)}
    [] c.op = "XOR" -> {ProcessXor(x, S, a, c.d)}
    [] c.op = "MASK" -> {ProcessMask(x, temp.Mask, S, a, c.d)}
    [] c.op = "CLEAR" -> {ProcessClear(x, a)}
    [] c.op = "SHIFT" -> {ProcessShift(x, n, c.left, c.align) : n \in Counts(c.count)}
    [] c.op = "ADD" -> {ProcessADD(x, S, a, c.d)}
    [] c.op = "SUB" -> {ProcessSUB(x, S, a, c.d)}
    [] c.op = "SHL" -> {Shl(x, n) : n \in Counts(Number(CommonSource(S, a, c.d)))}
    [] c.op = "SHR" -> {Shr(x, n) : n \in Counts(Number(CommonSource(S, a, c.d)))}
  BY DEF NewDest
<1>4. c.op # "MOVE" \/ c.align # "Dword" => Bottom(c) = c.d
  BY DEF Bottom
<1>5. c.op \notin {"CLEAR", "SHIFT"} => FieldOf(c) = Field(a, Bottom(c))
  BY DEF FieldOf
<1> HIDE DEF S, a, x
<1>6. CASE c.op = "MOVE" /\ c.align = "Dword"
  <2>1. a = "Dword" /\ Bottom(c) = 0
    BY <1>6, DwordSource DEF Bottom, a
  <2>2. w = S
    BY <1>3, <1>6, <2>1 DEF ProcessMove
  <2>3. FieldOf(c) = Field("Dword", 0)
    BY <1>5, <1>6, <2>1
  <2>4. \A b \in Bits : b \in Field("Dword", 0) /\ b - DestinationAlignmentShift(0) + SourceAlignmentShift("Dword") = b
    BY WholeWord
  <2>5. \A b \in Bits : BitOf(c, D, S, b) <=> b \in S
    <3> SUFFICES ASSUME NEW b \in Bits PROVE BitOf(c, D, S, b) <=> b \in S
      OBVIOUS
    <3>1. BitOf(c, D, S, b) <=> b - DestinationAlignmentShift(0) + SourceAlignmentShift("Dword") \in S
      BY <1>6, <2>1 DEF BitOf, a
    <3> QED
      BY <2>4, <3>1
  <2> QED
    BY <1>6, <2>2, <2>3, <2>4, <2>5 DEF S
<1>7. CASE c.op = "MOVE" /\ c.align # "Dword"
  <2>1. a # "Dword" /\ Bottom(c) = c.d /\ x = D /\ FieldOf(c) = Field(a, c.d)
    BY <1>4, <1>5, <1>7, DwordSource DEF a, x
  <2>2. w = ProcessMove(D, S, a, c.d)
    BY <1>3, <1>7, <2>1
  <2>3. \A b : BitOf(c, D, S, b) <=> b - DestinationAlignmentShift(c.d) + SourceAlignmentShift(a) \in S
    BY <1>7, <2>1 DEF BitOf, a
  <2> QED
    BY <1>7, <2>1, <2>2, <2>3, MoveBit DEF S
<1>8. CASE c.op = "AND"
  <2>1. Bottom(c) = c.d /\ x = D /\ FieldOf(c) = Field(a, c.d)
    BY <1>4, <1>5, <1>8 DEF x
  <2>2. w = ProcessAnd(D, S, a, c.d)
    BY <1>3, <1>8, <2>1
  <2>3. \A b : BitOf(c, D, S, b) <=> b \in D /\ b - DestinationAlignmentShift(c.d) + SourceAlignmentShift(a) \in S
    BY <1>8, <2>1 DEF BitOf, a
  <2> QED
    BY <1>8, <2>1, <2>2, <2>3, AndBit DEF S
<1>9. CASE c.op = "OR"
  <2>1. Bottom(c) = c.d /\ x = D /\ FieldOf(c) = Field(a, c.d)
    BY <1>4, <1>5, <1>9 DEF x
  <2>2. w = ProcessOr(D, S, a, c.d)
    BY <1>3, <1>9, <2>1
  <2>3. \A b : BitOf(c, D, S, b) <=> b \in D \/ b - DestinationAlignmentShift(c.d) + SourceAlignmentShift(a) \in S
    BY <1>9, <2>1 DEF BitOf, a
  <2> QED
    BY <1>9, <2>1, <2>2, <2>3, OrBit DEF S
<1>10. CASE c.op = "XOR"
  <2>1. Bottom(c) = c.d /\ x = D /\ FieldOf(c) = Field(a, c.d)
    BY <1>4, <1>5, <1>10 DEF x
  <2>2. w = ProcessXor(D, S, a, c.d)
    BY <1>3, <1>10, <2>1
  <2>3. \A b : BitOf(c, D, S, b) <=> ((b \in D) # (b - DestinationAlignmentShift(c.d) + SourceAlignmentShift(a) \in S))
    BY <1>10, <2>1 DEF BitOf, a
  <2> QED
    BY <1>10, <2>1, <2>2, <2>3, OrBit DEF S
<1>11. CASE c.op = "MASK"
  <2>1. Bottom(c) = c.d /\ x = D /\ FieldOf(c) = Field(a, c.d)
    BY <1>4, <1>5, <1>11 DEF x
  <2>2. w = ProcessMask(D, c.mask, S, a, c.d)
    BY <1>3, <1>11, <2>1
  <2>3. \A b : BitOf(c, D, S, b) <=>
                 (b \in D /\ b - DestinationAlignmentShift(c.d) \in c.mask) \/ b - DestinationAlignmentShift(c.d) \in S
    BY <1>11, <2>1 DEF BitOf, a
  <2> QED
    BY <1>11, <2>1, <2>2, <2>3, MaskBit DEF S
<1>12. CASE c.op = "CLEAR"
  <2>1. x = D /\ a = c.align /\ FieldOf(c) = SourceField(c.align)
    BY <1>12 DEF x, a, SourceAlignment, FieldOf
  <2>2. w = ProcessClear(D, c.align)
    BY <1>3, <1>12, <2>1
  <2> QED
    BY <1>12, <2>1, <2>2 DEF ProcessClear, Logic
<1>13. CASE c.op = "SHIFT"
  <2>1. x = D /\ FieldOf(c) = SourceField(c.align)
    BY <1>13 DEF x, FieldOf
  <2>2. PICK n : w = ProcessShift(D, n, c.left, c.align)
    BY <1>3, <1>13, <2>1
  <2> QED
    BY <1>13, <2>1, <2>2 DEF ProcessShift, Logic
<1> QED
  BY <1>2, <1>6, <1>7, <1>8, <1>9, <1>10, <1>11, <1>12, <1>13
-----------------------------------------------------------------------------
\* What the parser has read of a command on a field of the parameter or work space:
\* nothing comes between the reading of an operand and its use.
IntoRight ==
  InIndirect => \/ temp.into = "Nothing" /\ resume = "fetch"
                \/ temp.into = "Dest" /\ Cmd.dst = "REG" /\ resume = AfterDest(Cmd.op)
                \/ temp.into = "Source" /\ Cmd.src = "REG" /\ resume \in {"switch", "execute"}
OnField == Cmd.op \in FieldOps /\ OfTable(Cmd.dst)
DestRead ==
  OnField /\ ~(Cmd.op = "MOVE" /\ Cmd.align = "Dword") /\ Eff \in {"immediate", "source", "execute"} =>
    temp.Dest = Memory(Cmd.dst, Cmd.at)
MaskRead == Cmd.op = "MASK" /\ Eff \in {"source", "execute"} => temp.Mask = Cmd.mask
SourceRead ==
  Cmd.op \in Logic \union {"MASK"} /\ (Cmd.src = "IMM" \/ OfTable(Cmd.src)) /\ Eff = "execute" =>
    temp.Source = SourceWord(Cmd)
FieldInv == IntoRight /\ DestRead /\ MaskRead /\ SourceRead /\ FieldsKept

\* Between commands there is nothing to keep.
LEMMA FieldsRest ==
  ASSUME phase \in {"fetch", "idle", "dead", "dest", "switch"}
  PROVE  FieldInv
<1>1. ~InIndirect /\ Eff = phase
  BY DEF InIndirect, Eff
<1> QED
  BY <1>1 DEF FieldInv, IntoRight, DestRead, MaskRead, SourceRead, FieldsKept

LEMMA FieldsRestThen ==
  ASSUME phase' \in {"fetch", "idle", "dead", "dest", "switch"}
  PROVE  FieldInv'
<1>1. ~InIndirect' /\ Eff' = phase'
  BY DEF InIndirect, Eff
<1> QED
  BY <1>1 DEF FieldInv, IntoRight, DestRead, MaskRead, SourceRead, FieldsKept

\* The steps within a command that write nothing.
SameCommand ==
  /\ image' = image /\ cmd' = cmd
  /\ Running'.table = Running.table /\ Running'.ws = Running.ws
  /\ params' = params /\ pParameterSpace' = pParameterSpace

LEMMA MemoryStays ==
  ASSUME SameCommand
  PROVE  Cmd' = Cmd /\ (\A k, i : Memory(k, i)' = Memory(k, i)) /\ OnField' = OnField
         /\ SourceWord(Cmd)' = SourceWord(Cmd)
<1>1. Cmd' = Cmd
  BY DEF SameCommand, Cmd, Table, BIOS
<1>2. \A k, i : Memory(k, i)' = Memory(k, i)
  BY DEF SameCommand, Memory
<1> QED
  BY <1>1, <1>2 DEF OnField, SourceWord

LEMMA SameAfter ==
  ASSUME TrackInv, phase # "idle", image' = image, cmd' = cmd, params' = params, pParameterSpace' = pParameterSpace,
         stack' = stack \/ \E n : Advance(n)
  PROVE  SameCommand
<1>1. /\ Len(stack) \in Nat /\ Len(stack) >= 1 /\ DOMAIN stack = 1 .. Len(stack) /\ Len(stack) \in DOMAIN stack
      /\ Running \in Frames /\ stack \in Seq(Frames)
  BY TopFrame DEF TrackInv, AtomType, StackType
<1>2. CASE stack' = stack
  BY <1>2 DEF SameCommand, Running
<1>3. ASSUME NEW n, Advance(n)
      PROVE  SameCommand
  <2> DEFINE f == [Running EXCEPT !.ip = @ + n]
  <2>1. f.table = Running.table /\ f.ws = Running.ws
    BY <1>1 DEF Frames
  <2>2. stack' = [stack EXCEPT ![Len(stack)] = f]
    BY <1>3 DEF Running, Advance
  <2> HIDE DEF f
  <2>4. Len(stack') = Len(stack)
    BY <1>3, FramesStay DEF SameFrames
  <2>5. Running' = f
    BY <1>1, <2>2, <2>4 DEF Running
  <2> QED
    BY <2>1, <2>5 DEF SameCommand
<1> QED
  BY <1>2, <1>3

LEMMA TableOperand ==
  ASSUME NEW kind, OfTable(kind), NEW i, NEW a
  PROVE  Operand(kind, i, a) = {Memory(kind, i)}
BY DEF OfTable, Operand, Memory

LEMMA IntoChanges ==
  ASSUME TempType, NEW f, NEW w
  PROVE  /\ f # "Dest" => Into(f, w).Dest = temp.Dest
         /\ f # "Source" => Into(f, w).Source = temp.Source
         /\ Into(f, w).Mask = temp.Mask
         /\ f = "Dest" => Into(f, w).Dest = w
         /\ f = "Source" => Into(f, w).Source = w
<1>1. [temp EXCEPT !.Dest = w].Dest = w /\ [temp EXCEPT !.Dest = w].Source = temp.Source /\ [temp EXCEPT !.Dest = w].Mask = temp.Mask
  BY DEF TempType
<1>2. [temp EXCEPT !.Source = w].Dest = temp.Dest /\ [temp EXCEPT !.Source = w].Source = w
      /\ [temp EXCEPT !.Source = w].Mask = temp.Mask
  BY DEF TempType
<1> QED
  BY <1>1, <1>2 DEF Into

LEMMA FieldsHeader ==
  ASSUME TrackInv, FieldInv, ProcessCommandProperties
  PROVE  FieldInv'
<1>1. /\ AtOp(WithHeader) /\ cmd' = Running.ip /\ Advance(2) /\ image' = image
      /\ phase' = IF Here.op \in {"SET_FB_BASE", "SWITCH"} THEN "source" ELSE "dest"
      /\ params' = params /\ pParameterSpace' = pParameterSpace
  BY DEF ProcessCommandProperties, chosen
<1>2. CASE Here.op \notin {"SET_FB_BASE", "SWITCH"}
  <2>1. phase' = "dest"
    BY <1>1, <1>2
  <2> QED
    BY <2>1, FieldsRestThen
<1>3. CASE Here.op \in {"SET_FB_BASE", "SWITCH"}
  <2>1. phase' = "source" /\ Eff' = "source" /\ ~InIndirect'
    BY <1>1, <1>3 DEF Eff, InIndirect
  <2>2. phase # "idle"
    BY <1>1, AtFetch, NowReached
  <2>3. Len(stack') = Len(stack) /\ \A i \in 1 .. Len(stack) : stack'[i].table = stack[i].table
    BY <1>1, <2>2, FramesStay DEF SameFrames
  <2>4. Running'.table = Running.table
    <3>1. Len(stack) \in 1 .. Len(stack)
      BY <2>2, TopFrame DEF TrackInv, AtomType
    <3> QED
      BY <2>3, <3>1 DEF Running
  <2>5. Cmd' = Here
    BY <1>1, <2>4 DEF Cmd, Here, Table, BIOS
  <2>6. Cmd'.op \notin FieldOps /\ Cmd'.op # "MASK"
    BY <1>3, <2>5 DEF FieldOps, Logic
  <2> QED
    BY <2>1, <2>6 DEF FieldInv, IntoRight, DestRead, MaskRead, SourceRead, FieldsKept, OnField
<1> QED
  BY <1>2, <1>3

LEMMA FieldsDestination ==
  ASSUME TrackInv, FieldInv, GetDestination
  PROVE  FieldInv'
<1> DEFINE next == AfterDest(Cmd.op)
<1>1. /\ phase = "dest" /\ Advance(OperandSize(Cmd.dst))
      /\ image' = image /\ cmd' = cmd /\ params' = params /\ pParameterSpace' = pParameterSpace
      /\ IF Cmd.op = "MOVE" /\ Cmd.align = "Dword"
         THEN phase' = next /\ UNCHANGED <<temp, resume>>
         ELSE Get(Cmd.dst, Cmd.at, "Dest", next)
  BY DEF GetDestination, AfterDest, SkipDestination, chosen
<1>2. SameCommand /\ TempType
  BY <1>1, SameAfter DEF TrackInv, AtomType
<1>3. Cmd' = Cmd /\ (\A k, i : Memory(k, i)' = Memory(k, i)) /\ OnField' = OnField
  BY <1>2, MemoryStays
<1>4. next \in {"immediate", "execute", "source"}
  BY DEF AfterDest
<1>5. (Cmd.op = "MASK" => next = "immediate") /\ (next = "execute" => Cmd.op = "CLEAR")
  BY DEF AfterDest
<1> HIDE DEF next
<1>6. Eff' = next => MaskRead' /\ SourceRead'
  BY <1>3, <1>5 DEF MaskRead, SourceRead, Logic
<1>7. CASE Cmd.op = "MOVE" /\ Cmd.align = "Dword"
  <2>1. phase' = next
    BY <1>1, <1>7
  <2>2. Eff' = next /\ ~InIndirect' /\ phase' # "put"
    BY <1>4, <2>1 DEF Eff, InIndirect
  <2> QED
    BY <1>3, <1>6, <1>7, <2>2 DEF FieldInv, IntoRight, DestRead, FieldsKept
<1>8. CASE ~(Cmd.op = "MOVE" /\ Cmd.align = "Dword") /\ Indirect(Cmd.dst)
  <2>1. temp'.into = "Dest" /\ phase' = "search" /\ resume' = next
    BY <1>1, <1>2, <1>8 DEF Get, TempType
  <2>2. Eff' = next /\ phase' # "put"
    BY <2>1 DEF Eff, InIndirect
  <2>3. Cmd.dst = "REG" /\ ~OnField
    BY <1>8 DEF Indirect, OnField, OfTable
  <2>4. IntoRight'
    BY <1>3, <2>1, <2>3 DEF IntoRight, next
  <2> QED
    BY <1>3, <1>6, <2>2, <2>3, <2>4 DEF FieldInv, DestRead, FieldsKept
<1>9. CASE ~(Cmd.op = "MOVE" /\ Cmd.align = "Dword") /\ ~Indirect(Cmd.dst)
  <2>1. PICK w \in Operand(Cmd.dst, Cmd.at, Cmd.align) : temp' = Into("Dest", w)
    BY <1>1, <1>9 DEF Get
  <2>2. phase' = next
    BY <1>1, <1>9 DEF Get
  <2>3. Eff' = next /\ ~InIndirect' /\ phase' # "put"
    BY <1>4, <2>2 DEF Eff, InIndirect
  <2>4. OnField => temp'.Dest = Memory(Cmd.dst, Cmd.at)
    BY <1>2, <2>1, TableOperand, IntoChanges DEF OnField
  <2>5. DestRead'
    BY <1>3, <2>4 DEF DestRead
  <2> QED
    BY <1>6, <2>3, <2>5 DEF FieldInv, IntoRight, FieldsKept
<1> QED
  BY <1>7, <1>8, <1>9

LEMMA FieldsImmediate ==
  ASSUME TrackInv, FieldInv, GetParametersDirect
  PROVE  FieldInv'
<1>1. /\ phase = "immediate" /\ temp' = [temp EXCEPT !.Mask = Cmd.mask] /\ phase' = "source"
      /\ Advance(DirectSize(Cmd.align))
      /\ image' = image /\ cmd' = cmd /\ params' = params /\ pParameterSpace' = pParameterSpace
  BY DEF GetParametersDirect, chosen
<1>2. SameCommand /\ TempType
  BY <1>1, SameAfter DEF TrackInv, AtomType
<1>3. Cmd' = Cmd /\ (\A k, i : Memory(k, i)' = Memory(k, i)) /\ OnField' = OnField
  BY <1>2, MemoryStays
<1>4. Eff = "immediate" /\ Eff' = "source" /\ ~InIndirect'
  BY <1>1 DEF Eff, InIndirect
<1>5. temp'.Mask = Cmd.mask /\ temp'.Dest = temp.Dest
  BY <1>1, <1>2 DEF TempType
<1>6. DestRead'
  BY <1>3, <1>4, <1>5 DEF FieldInv, DestRead
<1> QED
  BY <1>1, <1>3, <1>4, <1>5, <1>6 DEF FieldInv, IntoRight, MaskRead, SourceRead, FieldsKept

LEMMA FieldsSource ==
  ASSUME TrackInv, FieldInv, GetSource
  PROVE  FieldInv'
<1> DEFINE next == IF Cmd.op = "SWITCH" THEN "switch" ELSE "execute"
<1>1. /\ phase = "source"
      /\ image' = image /\ cmd' = cmd /\ params' = params /\ pParameterSpace' = pParameterSpace
  BY DEF GetSource, chosen
<1>2. \E n : Advance(n)
  <2>1. CASE Cmd.op = "SHIFT"
    BY <2>1 DEF GetSource
  <2>2. CASE Cmd.op # "SHIFT" /\ Cmd.src = "IMM"
    BY <2>2 DEF GetSource
  <2>3. CASE Cmd.op # "SHIFT" /\ Cmd.src # "IMM"
    BY <2>3 DEF GetSource
  <2> QED
    BY <2>1, <2>2, <2>3
<1>3. SameCommand /\ TempType
  BY <1>1, <1>2, SameAfter DEF TrackInv, AtomType
<1>4. Cmd' = Cmd /\ (\A k, i : Memory(k, i)' = Memory(k, i)) /\ OnField' = OnField /\ SourceWord(Cmd)' = SourceWord(Cmd)
  BY <1>3, MemoryStays
<1>5. Eff = "source"
  BY <1>1 DEF Eff, InIndirect
<1>6. next \in {"switch", "execute"}
  OBVIOUS
<1> HIDE DEF next
<1>7. ASSUME temp'.Dest = temp.Dest, temp'.Mask = temp.Mask, Eff' = next
      PROVE  DestRead' /\ MaskRead'
  <2>1. DestRead'
    BY <1>4, <1>5, <1>7 DEF FieldInv, DestRead
  <2>2. MaskRead'
    BY <1>4, <1>5, <1>7 DEF FieldInv, MaskRead
  <2> QED
    BY <2>1, <2>2
<1>8. phase' = next => Eff' = next /\ ~InIndirect' /\ phase' # "put"
  BY <1>6 DEF Eff, InIndirect
<1>9. CASE Cmd.op = "SHIFT"
  <2>1. phase' = next /\ temp' = temp
    BY <1>9 DEF GetSource, next
  <2>2. SourceRead'
    BY <1>4, <1>9 DEF SourceRead, Logic
  <2> QED
    BY <1>7, <1>8, <2>1, <2>2 DEF FieldInv, IntoRight, FieldsKept
<1>10. CASE Cmd.op # "SHIFT" /\ Cmd.src = "IMM"
  <2>1. phase' = next /\ temp' = [temp EXCEPT !.Source = Cmd.value]
    BY <1>10 DEF GetSource, next
  <2>2. temp'.Dest = temp.Dest /\ temp'.Mask = temp.Mask /\ temp'.Source = Cmd.value
    BY <1>3, <2>1 DEF TempType
  <2>3. SourceRead'
    BY <1>4, <1>10, <2>2 DEF SourceRead, SourceWord
  <2> QED
    BY <1>7, <1>8, <2>1, <2>2, <2>3 DEF FieldInv, IntoRight, FieldsKept
<1>11. CASE Cmd.op # "SHIFT" /\ Cmd.src # "IMM" /\ Indirect(Cmd.src)
  <2>1. Get(Cmd.src, Cmd.from, "Source", next)
    BY <1>11 DEF GetSource, next
  <2>2. phase' = "search" /\ resume' = next
        /\ temp' = [temp EXCEPT !.Index = Cmd.from + temp.RegBlock, !.IndirectData = WordOf(temp.PortID), !.into = "Source"]
    BY <1>11, <2>1 DEF Get
  <2>3. temp'.Dest = temp.Dest /\ temp'.Mask = temp.Mask /\ temp'.into = "Source"
    BY <1>3, <2>2 DEF TempType
  <2>4. Eff' = next /\ phase' # "put"
    BY <2>2 DEF Eff, InIndirect
  <2>5. Cmd.src = "REG"
    BY <1>11 DEF Indirect
  <2>6. SourceRead'
    BY <1>4, <2>5 DEF SourceRead, OfTable
  <2>7. IntoRight'
    BY <1>4, <1>6, <2>2, <2>3, <2>5 DEF IntoRight
  <2> QED
    BY <1>7, <2>3, <2>4, <2>6, <2>7 DEF FieldInv, FieldsKept
<1>12. CASE Cmd.op # "SHIFT" /\ Cmd.src # "IMM" /\ ~Indirect(Cmd.src)
  <2>1. Get(Cmd.src, Cmd.from, "Source", next)
    BY <1>12 DEF GetSource, next
  <2>2. PICK w \in Operand(Cmd.src, Cmd.from, Cmd.align) : temp' = Into("Source", w)
    BY <1>12, <2>1 DEF Get
  <2>3. phase' = next
    BY <1>12, <2>1 DEF Get
  <2>4. temp'.Dest = temp.Dest /\ temp'.Mask = temp.Mask /\ temp'.Source = w
    BY <1>3, <2>2, IntoChanges
  <2>5. OfTable(Cmd.src) => w = SourceWord(Cmd)
    BY <1>12, <2>2, TableOperand DEF SourceWord
  <2>6. SourceRead'
    BY <1>4, <1>12, <2>4, <2>5 DEF SourceRead
  <2> QED
    BY <1>7, <1>8, <2>3, <2>4, <2>6 DEF FieldInv, IntoRight, FieldsKept
<1> QED
  BY <1>9, <1>10, <1>11, <1>12

LEMMA FieldsExecute ==
  ASSUME TrackInv, FieldInv, Execute
  PROVE  FieldInv'
<1>1. /\ phase = "execute" /\ phase' = "put" /\ stack' = stack
      /\ image' = image /\ cmd' = cmd /\ params' = params /\ pParameterSpace' = pParameterSpace
  BY DEF Execute, chosen
<1>2. PICK w \in NewDest(Cmd) : temp' = [temp EXCEPT !.Dest = w]
  BY DEF Execute
<1>3. SameCommand /\ TempType
  BY <1>1, SameAfter DEF TrackInv, AtomType
<1>4. Cmd' = Cmd /\ (\A k, i : Memory(k, i)' = Memory(k, i)) /\ SourceWord(Cmd)' = SourceWord(Cmd)
  BY <1>3, MemoryStays
<1>5. Eff = "execute" /\ Eff' = "put" /\ ~InIndirect'
  BY <1>1 DEF Eff, InIndirect
<1>6. temp'.Dest = w
  BY <1>2, <1>3 DEF TempType
<1>7. FieldsKept'
  <2> SUFFICES ASSUME Cmd.op \in FieldOps, OfTable(Cmd.dst)
               PROVE  LET D == Memory(Cmd.dst, Cmd.at) IN
                      /\ \A b \in Bits \ FieldOf(Cmd) : b \in w <=> b \in D
                      /\ Cmd.op = "CLEAR" => w \intersect FieldOf(Cmd) = {}
                      /\ Cmd.op \in Logic \union {"MASK"} /\ (Cmd.src = "IMM" \/ OfTable(Cmd.src)) =>
                           \A b \in Bits \intersect FieldOf(Cmd) : b \in w <=> BitOf(Cmd, D, SourceWord(Cmd), b)
    BY <1>4, <1>6 DEF FieldsKept
  <2> DEFINE D == Memory(Cmd.dst, Cmd.at)
  <2>1. ~(Cmd.op = "MOVE" /\ Cmd.align = "Dword") => temp.Dest = D
    BY <1>5 DEF FieldInv, DestRead, OnField
  <2>2. Cmd.op = "MASK" => temp.Mask = Cmd.mask
    BY <1>5 DEF FieldInv, MaskRead
  <2>3. Cmd.op \in Logic \union {"MASK"} /\ (Cmd.src = "IMM" \/ OfTable(Cmd.src)) => temp.Source = SourceWord(Cmd)
    BY <1>5 DEF FieldInv, SourceRead
  <2> HIDE DEF D
  <2>4. /\ \A b \in Bits \ FieldOf(Cmd) : b \in w <=> b \in D
        /\ Cmd.op = "CLEAR" => w \intersect FieldOf(Cmd) = {}
        /\ Cmd.op \in Logic \union {"MASK"} =>
             \A b \in Bits \intersect FieldOf(Cmd) : b \in w <=> BitOf(Cmd, D, temp.Source, b)
    BY <1>3, <2>1, <2>2, FieldResult
  <2> QED
    BY <2>3, <2>4 DEF D
<1> QED
  BY <1>5, <1>7 DEF FieldInv, IntoRight, DestRead, MaskRead, SourceRead

LEMMA FieldsPutRegister ==
  ASSUME TrackInv, PutDataRegister
  PROVE  FieldInv'
<1>1. temp.Port \in {"ATI", "PCI", "SYSIO"} /\ TempType
  BY DEF TrackInv, AtomType, TempType
<1>2. CASE Indirect("REG")
  <2>1. /\ temp' = [temp EXCEPT !.Index = Cmd.at + temp.RegBlock, !.into = "Nothing",
                                !.IndirectData = WordOf(temp.PortID + INDIRECT_IO_WRITE)]
        /\ phase' = "search" /\ resume' = "fetch"
    BY <1>2 DEF PutDataRegister, Indirect
  <2>2. temp'.into = "Nothing"
    BY <1>1, <2>1 DEF TempType
  <2>3. Eff' = "fetch" /\ InIndirect'
    BY <2>1 DEF Eff, InIndirect
  <2> QED
    BY <2>1, <2>2, <2>3 DEF FieldInv, IntoRight, DestRead, MaskRead, SourceRead, FieldsKept
<1>3. CASE ~Indirect("REG")
  <2>1. phase' = "fetch"
    <3>1. CASE temp.Port = "ATI" /\ temp.PortID = 0
      BY <3>1 DEF PutDataRegister, Indirect
    <3>2. CASE temp.Port = "PCI"
      BY <3>2 DEF PutDataRegister, Indirect
    <3>3. CASE temp.Port = "SYSIO"
      BY <3>3 DEF PutDataRegister, Indirect
    <3> QED
      BY <1>1, <1>3, <3>1, <3>2, <3>3 DEF Indirect
  <2> QED
    BY <2>1, FieldsRestThen
<1> QED
  BY <1>2, <1>3

\* Indirect IO goes on, or ends with a word for the field that it was asked for.
LEMMA FieldsIndirectIO ==
  ASSUME TrackInv, FieldInv, InIndirect, UNCHANGED <<parserHeld, resume>>,
         \/ InIndirect' /\ \E w : temp' \in {temp, [temp EXCEPT !.IndirectData = w]}
         \/ phase' = resume /\ \E w : temp' = Into(temp.into, w)
  PROVE  FieldInv'
<1>1. /\ image' = image /\ cmd' = cmd /\ stack' = stack /\ params' = params /\ pParameterSpace' = pParameterSpace
      /\ resume' = resume
  BY DEF parserHeld, chosen
<1>2. phase # "idle" /\ Eff = resume /\ resume \in Resumes
  BY AtEntry
<1>3. SameCommand /\ TempType
  BY <1>1, <1>2, SameAfter DEF TrackInv, AtomType
<1>4. Cmd' = Cmd /\ (\A k, i : Memory(k, i)' = Memory(k, i)) /\ OnField' = OnField /\ SourceWord(Cmd)' = SourceWord(Cmd)
  BY <1>3, MemoryStays
<1>5. CASE InIndirect' /\ \E w : temp' \in {temp, [temp EXCEPT !.IndirectData = w]}
  <2>1. temp'.Dest = temp.Dest /\ temp'.Source = temp.Source /\ temp'.Mask = temp.Mask /\ temp'.into = temp.into
    BY <1>3, <1>5 DEF TempType
  <2>2. Eff' = Eff
    BY <1>1, <1>5 DEF Eff
  <2>3. phase' # "put"
    BY <1>5 DEF InIndirect
  <2>4. DestRead'
    BY <1>4, <2>1, <2>2 DEF FieldInv, DestRead
  <2>5. MaskRead' /\ SourceRead'
    BY <1>4, <2>1, <2>2 DEF FieldInv, MaskRead, SourceRead
  <2>6. IntoRight'
    BY <1>1, <1>4, <1>5, <2>1 DEF FieldInv, IntoRight
  <2> QED
    BY <2>3, <2>4, <2>5, <2>6 DEF FieldInv, FieldsKept
<1>6. CASE phase' = resume /\ \E w : temp' = Into(temp.into, w)
  <2>1. PICK w : temp' = Into(temp.into, w)
    BY <1>6
  <2>2. Eff' = Eff /\ ~InIndirect' /\ phase' # "put"
    BY <1>2, <1>6 DEF Eff, InIndirect, Resumes
  <2>3. /\ temp.into # "Dest" => temp'.Dest = temp.Dest
        /\ temp.into # "Source" => temp'.Source = temp.Source
        /\ temp'.Mask = temp.Mask
    BY <1>3, <2>1, IntoChanges
  <2>4. temp.into = "Dest" => ~OnField
    BY DEF FieldInv, IntoRight, OnField, OfTable
  <2>5. DestRead'
    BY <1>4, <2>2, <2>3, <2>4 DEF FieldInv, DestRead
  <2>6. MaskRead'
    BY <1>4, <2>2, <2>3 DEF FieldInv, MaskRead
  <2>7. temp.into = "Source" => ~(Cmd.src = "IMM" \/ OfTable(Cmd.src))
    BY DEF FieldInv, IntoRight, OfTable
  <2>8. SourceRead'
    BY <1>4, <2>2, <2>3, <2>7 DEF FieldInv, SourceRead
  <2> QED
    BY <2>2, <2>5, <2>6, <2>8 DEF FieldInv, IntoRight, FieldsKept
<1> QED
  BY <1>5, <1>6

LEMMA FieldsIO ==
  ASSUME TrackInv, FieldInv, IndirectInputOutput
  PROVE  FieldInv'
<1>1. InIndirect /\ UNCHANGED <<parserHeld, resume>>
  BY DEF IndirectInputOutput, Search, IndirectCommand, EndOfProgram, InIndirect, parserHeld
<1>2. CASE Search
  <2>1. CASE Entry.op = "NOP"
    BY <1>1, <1>2, <2>1, FieldsIndirectIO DEF Search
  <2>2. CASE Entry.op # "NOP" /\ Entry.op = "ID" /\ Entry.id = Number(temp.IndirectData)
    <3>1. phase' = "indirect" /\ temp' = temp
      BY <1>2, <2>2 DEF Search
    <3> QED
      BY <1>1, <3>1, FieldsIndirectIO DEF InIndirect
  <2>3. CASE Entry.op # "NOP" /\ ~(Entry.op = "ID" /\ Entry.id = Number(temp.IndirectData))
    <3>1. phase' = phase /\ temp' = temp
      BY <1>2, <2>3 DEF Search
    <3> QED
      BY <1>1, <3>1, FieldsIndirectIO DEF InIndirect
  <2> QED
    BY <2>1, <2>2, <2>3
<1>3. CASE IndirectCommand
  <2>1. phase' = phase /\ \E w : temp' = [temp EXCEPT !.IndirectData = w]
    BY <1>3 DEF IndirectCommand
  <2> QED
    BY <1>1, <2>1, FieldsIndirectIO DEF InIndirect
<1>4. CASE EndOfProgram
  BY <1>1, <1>4, FieldsIndirectIO DEF EndOfProgram
<1> QED
  BY <1>2, <1>3, <1>4 DEF IndirectInputOutput

LEMMA FieldsUndisturbed ==
  ASSUME FieldInv, UNCHANGED <<image, phase, resume, cmd, stack, temp, params, pParameterSpace>>
  PROVE  FieldInv'
<1>1. SameCommand
  BY DEF SameCommand, Running
<1>2. Cmd' = Cmd /\ (\A k, i : Memory(k, i)' = Memory(k, i)) /\ OnField' = OnField /\ SourceWord(Cmd)' = SourceWord(Cmd)
  BY <1>1, MemoryStays
<1>3. Eff' = Eff /\ InIndirect' = InIndirect
  BY DEF Eff, InIndirect
<1>4. IntoRight' /\ DestRead' /\ MaskRead' /\ SourceRead'
  BY <1>2, <1>3 DEF FieldInv, IntoRight, DestRead, MaskRead, SourceRead
<1>5. FieldsKept'
  BY <1>2 DEF FieldInv, FieldsKept
<1> QED
  BY <1>4, <1>5 DEF FieldInv

LEMMA FieldsStep ==
  ASSUME TrackInv, FieldInv, [InterpreterNext]_interpreterVars
  PROVE  FieldInv'
<1>1. CASE Exec \/ OneStepCommands \/ Evaluate \/ PutData \/ SwitchCase \/ SwitchEnd
  <2>1. phase' \in {"fetch", "idle", "dead", "dest", "switch"}
    BY <1>1 DEF Exec, Enter, ReturnWith, OneStepCommands, cmdSet_ATI_Port, cmdSet_X_Port, cmdSet_Reg_Block, cmdSetDataBlock,
                Pass, ProcessJump, cmdCall_Table, EndOfTable, Refuse, AtOp, onlyTemp, Evaluate, PutData, SwitchCase, SwitchEnd
  <2> QED
    BY <2>1, FieldsRestThen
<1>2. CASE ProcessCommandProperties \/ GetDestination \/ GetParametersDirect \/ GetSource \/ Execute \/ PutDataRegister
  BY <1>2, FieldsHeader, FieldsDestination, FieldsImmediate, FieldsSource, FieldsExecute, FieldsPutRegister
<1>3. CASE IndirectInputOutput
  BY <1>3, FieldsIO
<1>4. CASE CardTurns \/ UNCHANGED interpreterVars
  <2>1. UNCHANGED <<image, phase, resume, cmd, stack, temp, params, pParameterSpace>>
    BY <1>4 DEF CardTurns, interpreterVars, chosen
  <2> QED
    BY <2>1, FieldsUndisturbed
<1> QED
  BY <1>1, <1>2, <1>3, <1>4 DEF InterpreterNext, HeaderCommands

\* A command on a field changes that field and nothing else, whatever the width
\* of a byte, the alignments and the words are.
THEOREM FieldsHold == InterpreterSpec => []FieldsKept
<1>1. InterpreterInit => FieldInv
  <2>1. InterpreterInit => phase = "idle"
    BY DEF InterpreterInit
  <2> QED
    BY <2>1, FieldsRest
<1>2. TrackInv /\ FieldInv /\ [InterpreterNext]_interpreterVars => FieldInv'
  BY FieldsStep
<1>3. FieldInv => FieldsKept
  BY DEF FieldInv
<1> QED
  BY <1>1, <1>2, <1>3, AlwaysOnTrack, PTL DEF InterpreterSpec

-----------------------------------------------------------------------------
(* The DIG encoders. *)

MaybeCrtc == Crtcs \union {None}
CrtcMaps == [Outputs -> MaybeCrtc]
Digs == [on : BOOLEAN, source : MaybeCrtc \union {"console"}]
Paths == [swap : BOOLEAN, lit : SUBSET Outputs, known : SUBSET Outputs, dig : [Encoders -> Digs]]
RoundSteps == {"prepare", "crtc", "mode", "commit"}
RoundRecords == [at : {"idle", "layout", "fixup", "unused"} \union RoundSteps, todo : SUBSET card,
                 crtc : MaybeCrtc, later : SUBSET Crtcs, before : CrtcMaps]

EncoderTypes ==
  /\ card \in SUBSET Outputs /\ card # {} /\ randr \in BOOLEAN /\ asleep \in BOOLEAN
  /\ EncoderID \in [Outputs -> {0, 1, 2}] /\ DigEncoderOutput \in [Encoders -> Outputs \union {None}]
  /\ Active \in SUBSET card /\ Crtc \in CrtcMaps /\ path \in Paths /\ console \in Paths
  /\ screen \in {"none", "console", "driver", "dead"} /\ spoiled \in SUBSET card
  /\ crtcOf \in CrtcMaps /\ \A o \in Outputs : crtcOf[o] # None => o \in card
  /\ round \in RoundRecords

\* Outputs and encoders agree about who has whom; the LVTMA only ever has the
\* second, and an output that has one is known to the BIOS.
Agreed ==
  /\ \A e \in Encoders, o \in Outputs : EncoderID[o] = e <=> DigEncoderOutput[e] = o
  /\ EncoderID["LVTMA"] # 1
  /\ \A o \in Outputs : EncoderID[o] # 0 => o \in path.known

\* The console's links are in place, or saved.
SameLinks == path.swap = console.swap /\ \A o \in card : path.dig[digProbeEncoder(o, console)] = console.dig[digProbeEncoder(o, console)]
SavedLink(o) == LET e == digProbeEncoder(o, console) IN [encoder |-> e, dig |-> console.dig[e], swap |-> console.swap]
LinksKept ==
  /\ screen \in {"none", "console"} => SameLinks
  /\ screen = "driver" => \A o \in card : store[o] = SavedLink(o)
  /\ screen = "console" => round = Idle
  /\ screen = "none" => round.at \in {"idle", "layout"} /\ (Active = {} \/ ~randr)
  /\ round.at \notin {"idle", "layout"} => screen = "driver"
  /\ round.at = "idle" => round = Idle

\* An output that its CRTC's picture is sent to, and one that is switched on.
Linked(o) ==
  EncoderID[o] # 0 /\ path.dig[EncoderID[o]].source = Crtc[o] /\ digProbeEncoder(o, path) = EncoderID[o]
Powered(o) == o \in path.lit /\ path.dig[EncoderID[o]].on

StaticRight == ~randr =>
  /\ spoiled = {} /\ (\A o \in Active : EncoderID[o] # 0)
  /\ round.at \in {"idle", "layout", "mode", "unused"}
  /\ round.at = "layout" => screen = "none"
  /\ round.at = "mode" => round.todo = Active
  /\ round.at = "unused" => round.todo = card \ Active /\ \A o \in Active : Linked(o)
  /\ screen = "driver" /\ round = Idle => \A o \in Active : Linked(o) /\ (~asleep => Powered(o))

\* The outputs whose CRTC is yet to be set in this round.
Awaiting ==
  IF round.at \in {"fixup"} \union RoundSteps
  THEN {o \in card : crtcOf[o] = round.crtc \/ crtcOf[o] \in round.later} ELSE {}
Steady(o) == crtcOf[o] # None /\ o \notin Awaiting /\ o \notin spoiled

RoundRight ==
  /\ round.at = "fixup" =>
       /\ round.crtc \in Crtcs \ round.later /\ round.todo \subseteq OutputsOf(round.crtc)
       /\ \A o \in OutputsOf(round.crtc) \ round.todo : EncoderID[o] # 0
       /\ \A o \in card \ spoiled : round.before[o] # None /\ crtcOf[o] = Crtc[o] => round.before[o] = Crtc[o]
  /\ round.at \in RoundSteps =>
       /\ round.crtc \in Crtcs \ round.later /\ round.todo = OutputsOf(round.crtc)
       /\ \A o \in round.todo : EncoderID[o] # 0
  /\ round.at = "mode" => \A o \in round.todo : Crtc[o] = crtcOf[o]
  /\ round.at = "commit" => \A o \in round.todo : Linked(o) /\ Crtc[o] = crtcOf[o]
  /\ round.at = "unused" => round.todo = {o \in card : crtcOf[o] = None}

\* An active output is on a CRTC, or was before the round.
ActiveRight ==
  /\ round.at = "idle" => \A o \in Active : crtcOf[o] # None
  /\ round.at \in {"fixup"} \union RoundSteps =>
       /\ round.later # {} => round.before = crtcOf
       /\ \A o \in Outputs : round.before[o] # None => o \in card
       /\ \A o \in Active : round.before[o] # None \/ (round.at # "fixup" /\ round.later = {})

RandrRight == randr =>
  /\ ~asleep /\ round.at # "layout"
  /\ screen # "dead" => ActiveRight
  /\ screen = "driver" =>
       /\ RoundRight
       /\ \A o \in card : Steady(o) => Linked(o) /\ crtcOf[o] = Crtc[o] /\ (o \in Active => Powered(o))

EncoderInv == EncoderTypes /\ Agreed /\ LinksKept /\ StaticRight /\ RandrRight

-----------------------------------------------------------------------------
\* Power is switched for these outputs, and from h it became g.
Tended(os, h, g) ==
  /\ g \in Paths /\ g.swap = h.swap /\ h.known \subseteq g.known
  /\ \A e \in Encoders : g.dig[e].source = h.dig[e].source
  /\ \A q \in Outputs \ os : EncoderID[q] # 0 =>
       (q \in g.lit <=> q \in h.lit) /\ g.dig[EncoderID[q]].on = h.dig[EncoderID[q]].on

On(o, g) == o \in g.lit /\ g.dig[EncoderID[o]].on

LEMMA EncoderTended ==
  ASSUME EncoderTypes, Agreed, NEW o \in Outputs, NEW p, NEW h \in Paths
  PROVE  /\ Tended({o}, h, EncoderPower(o, p, h))
         /\ EncoderPower(o, p, h).lit = h.lit /\ EncoderPower(o, p, h).known = h.known
         /\ p = "ON" /\ EncoderID[o] # 0 => EncoderPower(o, p, h).dig[EncoderID[o]].on
<1>. DEFINE e == IF EncoderID[o] # 0 THEN EncoderID[o] ELSE Probed(o, h)
<1>1. e \in {0, 1, 2} /\ (e # 0 => DigEncoderOutput[e] \in {o, None})
  BY DEF EncoderTypes, Agreed, Probed, digProbeEncoder, Encoders, Outputs
<1>2. \A q \in Outputs \ {o} : EncoderID[q] # 0 => EncoderID[q] # e
  BY <1>1 DEF EncoderTypes, Agreed, Encoders, Outputs, None
<1>3. EncoderPower(o, p, h) = IF e = 0 THEN h ELSE [h EXCEPT !.dig[e].on = (p = "ON")]
  BY DEF EncoderPower
<1>4. CASE e = 0
  BY <1>3, <1>4 DEF Tended, EncoderTypes
<1>5. CASE e # 0
  <2>. DEFINE g == [h EXCEPT !.dig[e].on = (p = "ON")]
  <2>1. e \in Encoders /\ h.dig \in [Encoders -> Digs]
    BY <1>1, <1>5 DEF Encoders, Paths
  <2>2. h.dig[e] \in Digs
    BY <2>1
  <2>3. g = [h EXCEPT !.dig = [h.dig EXCEPT ![e] = [h.dig[e] EXCEPT !.on = (p = "ON")]]]
    OBVIOUS
  <2>4. [h.dig[e] EXCEPT !.on = (p = "ON")] \in Digs /\ [h.dig[e] EXCEPT !.on = (p = "ON")].source = h.dig[e].source
    BY <2>2 DEF Digs
  <2>5. g \in Paths /\ g.lit = h.lit /\ g.known = h.known /\ g.swap = h.swap
    BY <2>1, <2>3, <2>4 DEF Paths
  <2>6. \A f \in Encoders : g.dig[f].source = h.dig[f].source /\ (f # e => g.dig[f].on = h.dig[f].on)
    BY <2>1, <2>3, <2>4 DEF Paths
  <2>7. \A q \in Outputs : EncoderID[q] # 0 => EncoderID[q] \in Encoders
    BY DEF EncoderTypes, Encoders
  <2>8. p = "ON" => g.dig[e].on
    BY <2>1, <2>2 DEF Paths, Digs
  <2>. QED
    BY <1>2, <1>3, <1>5, <2>5, <2>6, <2>7, <2>8 DEF Tended
<1>. QED
  BY <1>4, <1>5

LEMMA TransmitterTended ==
  ASSUME EncoderTypes, NEW o \in Outputs, NEW p, NEW h \in Paths
  PROVE  /\ Tended({o}, h, TransmitterPower(o, p, h))
         /\ TransmitterPower(o, p, h).dig = h.dig
         /\ p = "ON" /\ o \in h.known => o \in TransmitterPower(o, p, h).lit
BY DEF Tended, TransmitterPower, Paths, Outputs

LEMMA PowerTended ==
  ASSUME EncoderTypes, Agreed, NEW o \in Outputs, NEW p, NEW h \in Paths
  PROVE  /\ Tended({o}, h, DigPower(o, p, h))
         /\ p = "ON" /\ EncoderID[o] # 0 /\ o \in h.known => On(o, DigPower(o, p, h))
<1>. DEFINE e == EncoderPower(o, p, h)
            t == TransmitterPower(o, p, h)
<1>1. CASE p = "ON"
  <2>1. Tended({o}, h, e) /\ e \in Paths /\ e.known = h.known /\ (EncoderID[o] # 0 => e.dig[EncoderID[o]].on)
    BY EncoderTended, <1>1 DEF Tended
  <2>2. Tended({o}, e, TransmitterPower(o, p, e)) /\ TransmitterPower(o, p, e).dig = e.dig
          /\ (o \in e.known => o \in TransmitterPower(o, p, e).lit)
    BY TransmitterTended, <2>1, <1>1
  <2>3. DigPower(o, p, h) = TransmitterPower(o, p, e)
    BY <1>1 DEF DigPower
  <2>. HIDE DEF e, t
  <2>. QED
    BY <2>1, <2>2, <2>3 DEF Tended, On
<1>2. CASE p # "ON"
  <2>1. Tended({o}, h, t) /\ t \in Paths
    BY TransmitterTended DEF Tended
  <2>2. Tended({o}, t, EncoderPower(o, p, t))
    BY EncoderTended, <2>1
  <2>3. DigPower(o, p, h) = EncoderPower(o, p, t)
    BY <1>2 DEF DigPower
  <2>. HIDE DEF e, t
  <2>. QED
    BY <1>2, <2>1, <2>2, <2>3 DEF Tended
<1>. QED
  BY <1>1, <1>2

LEMMA OneTended ==
  ASSUME EncoderTypes, Agreed, NEW os, NEW o \in Outputs, NEW p, NEW h \in Paths,
         NEW g, g = IF o \in os THEN DigPower(o, p, h) ELSE h
  PROVE  /\ Tended({o} \intersect os, h, g)
         /\ o \in os /\ p = "ON" /\ EncoderID[o] # 0 /\ o \in h.known => On(o, g)
<1>1. CASE o \in os
  <2>1. {o} \intersect os = {o} /\ g = DigPower(o, p, h)
    BY <1>1
  <2>. QED
    BY <2>1, PowerTended
<1>2. CASE o \notin os
  BY <1>2 DEF Tended
<1>. QED
  BY <1>1, <1>2

\* What RHDOutputsPower leaves alone, and what it does to the outputs it is for.
LEMMA OutputsTended ==
  ASSUME EncoderTypes, Agreed, NEW os, NEW p, NEW h \in Paths
  PROVE  /\ Tended(os, h, OutputsPower(os, p, h))
         /\ \A o \in os \intersect Outputs :
              p = "ON" /\ EncoderID[o] # 0 /\ o \in h.known => On(o, OutputsPower(os, p, h))
<1>. DEFINE a == IF "UNIPHYA" \in os THEN DigPower("UNIPHYA", p, h) ELSE h
            b == IF "UNIPHYB" \in os THEN DigPower("UNIPHYB", p, a) ELSE a
            c == IF "LVTMA" \in os THEN DigPower("LVTMA", p, b) ELSE b
<1>1. OutputsPower(os, p, h) = c
  BY DEF OutputsPower, ForEach
<1>2. "UNIPHYA" \in Outputs /\ "UNIPHYB" \in Outputs /\ "LVTMA" \in Outputs
  BY DEF Outputs
<1>3. /\ Tended({"UNIPHYA"} \intersect os, h, a) /\ a \in Paths
      /\ "UNIPHYA" \in os /\ p = "ON" /\ EncoderID["UNIPHYA"] # 0 /\ "UNIPHYA" \in h.known => On("UNIPHYA", a)
  BY OneTended, <1>2 DEF Tended
<1>4. /\ Tended({"UNIPHYB"} \intersect os, a, b) /\ b \in Paths
      /\ "UNIPHYB" \in os /\ p = "ON" /\ EncoderID["UNIPHYB"] # 0 /\ "UNIPHYB" \in a.known => On("UNIPHYB", b)
  BY OneTended, <1>2, <1>3 DEF Tended
<1>5. /\ Tended({"LVTMA"} \intersect os, b, c) /\ c \in Paths
      /\ "LVTMA" \in os /\ p = "ON" /\ EncoderID["LVTMA"] # 0 /\ "LVTMA" \in b.known => On("LVTMA", c)
  BY OneTended, <1>2, <1>4 DEF Tended
<1>6. SUFFICES /\ Tended(os, h, c)
               /\ \A o \in os \intersect Outputs : p = "ON" /\ EncoderID[o] # 0 /\ o \in h.known => On(o, c)
  BY <1>1
<1>. HIDE DEF a, b, c
<1>7. Tended(os, h, c)
  BY <1>3, <1>4, <1>5 DEF Tended
<1>8. ASSUME NEW o \in os \intersect Outputs, p = "ON", EncoderID[o] # 0, o \in h.known
      PROVE  On(o, c)
  <2>1. o \in {"UNIPHYA", "UNIPHYB", "LVTMA"}
    BY <1>8 DEF Outputs
  <2>2. CASE o = "UNIPHYA"
    BY <1>3, <1>4, <1>5, <1>8, <2>2 DEF Tended, On
  <2>3. CASE o = "UNIPHYB"
    BY <1>3, <1>4, <1>5, <1>8, <2>3 DEF Tended, On
  <2>4. CASE o = "LVTMA"
    BY <1>3, <1>4, <1>5, <1>8, <2>4 DEF Tended, On
  <2>. QED
    BY <2>1, <2>2, <2>3, <2>4
<1>. QED
  BY <1>7, <1>8

-----------------------------------------------------------------------------
\* The mode of these outputs was set, and from h it became g: each of them is
\* linked to its encoder, which takes the picture of its CRTC, and what others
\* are linked to stays linked.
Steered(os, h, g) ==
  /\ g \in Paths /\ g.lit = h.lit /\ g.known = h.known
  /\ \A e \in Encoders : g.dig[e].on = h.dig[e].on
  /\ \A o \in os \intersect Outputs :
       g.dig[EncoderID[o]].source = Crtc[o] /\ digProbeEncoder(o, g) = EncoderID[o]
  /\ \A q \in Outputs \ os : EncoderID[q] # 0 /\ digProbeEncoder(q, h) = EncoderID[q] =>
       digProbeEncoder(q, g) = EncoderID[q] /\ g.dig[EncoderID[q]].source = h.dig[EncoderID[q]].source

LEMMA ProbeValues ==
  ASSUME NEW h
  PROVE  /\ digProbeEncoder("LVTMA", h) = 2
         /\ digProbeEncoder("UNIPHYA", h) = IF h.swap THEN 2 ELSE 1
         /\ digProbeEncoder("UNIPHYB", h) = IF h.swap THEN 1 ELSE 2
BY DEF digProbeEncoder

LEMMA SetSteers ==
  ASSUME EncoderTypes, Agreed, NEW o \in Outputs, NEW h \in Paths, EncoderID[o] # 0
  PROVE  Steered({o}, h, EncoderSet(o, h))
<1>. DEFINE e == EncoderID[o]
            s == CASE o = "UNIPHYA" -> e = 2 [] o = "UNIPHYB" -> e = 1 [] o = "LVTMA" -> h.swap
            g == EncoderSet(o, h)
<1>1. e \in Encoders /\ h.dig \in [Encoders -> Digs] /\ h.dig[e] \in Digs
  BY DEF EncoderTypes, Encoders, Paths
<1>2. s \in BOOLEAN
  BY DEF Outputs, Paths
<1>3. Crtc[o] \in MaybeCrtc
  BY DEF EncoderTypes, CrtcMaps
<1>4. g = [h EXCEPT !.dig = [h.dig EXCEPT ![e] = [h.dig[e] EXCEPT !.source = Crtc[o]]], !.swap = s]
  BY DEF EncoderSet, Outputs
<1>5. /\ [h.dig[e] EXCEPT !.source = Crtc[o]] \in Digs
      /\ [h.dig[e] EXCEPT !.source = Crtc[o]].on = h.dig[e].on
      /\ [h.dig[e] EXCEPT !.source = Crtc[o]].source = Crtc[o]
  BY <1>1, <1>3 DEF Digs
<1>. HIDE DEF s
<1>6. /\ g \in Paths /\ g.lit = h.lit /\ g.known = h.known /\ g.swap = s
      /\ g.dig = [h.dig EXCEPT ![e] = [h.dig[e] EXCEPT !.source = Crtc[o]]]
  <2>. DEFINE d == [h.dig EXCEPT ![e] = [h.dig[e] EXCEPT !.source = Crtc[o]]]
  <2>1. d \in [Encoders -> Digs]
    BY <1>1, <1>5
  <2>2. g = [h EXCEPT !.dig = d, !.swap = s]
    BY <1>4
  <2>. HIDE DEF d, g
  <2>3. g \in Paths /\ g.lit = h.lit /\ g.known = h.known /\ g.swap = s /\ g.dig = d
    BY <1>2, <2>1, <2>2 DEF Paths
  <2>. QED
    BY <2>3 DEF d, g
<1>7. /\ \A f \in Encoders : g.dig[f].on = h.dig[f].on /\ (f # e => g.dig[f].source = h.dig[f].source)
      /\ g.dig[e].source = Crtc[o]
  BY <1>1, <1>5, <1>6
<1>. HIDE DEF g
<1>8. digProbeEncoder(o, g) = e
  BY <1>1, <1>6 DEF s, digProbeEncoder, Outputs, Encoders, Agreed
<1>9. ASSUME NEW q \in Outputs \ {o}, EncoderID[q] # 0, digProbeEncoder(q, h) = EncoderID[q]
      PROVE  digProbeEncoder(q, g) = EncoderID[q] /\ g.dig[EncoderID[q]].source = h.dig[EncoderID[q]].source
  <2>1. EncoderID[q] \in Encoders /\ EncoderID[q] # e
    BY <1>1, <1>9 DEF EncoderTypes, Agreed, Encoders
  <2>2. o # "LVTMA" => s = ((o = "UNIPHYA") = (e = 2))
    BY <1>1 DEF s, Outputs, Encoders
  <2>3. o = "LVTMA" => s = h.swap
    BY DEF s
  <2>4. digProbeEncoder(q, g) = EncoderID[q]
    <3>1. CASE q = "LVTMA" \/ o = "LVTMA"
      <4>1. CASE q = "LVTMA"
        BY <1>9, <4>1, ProbeValues
      <4>2. CASE o = "LVTMA"
        <5>1. g.swap = h.swap /\ q \in {"UNIPHYA", "UNIPHYB"}
          BY <1>6, <1>9, <2>3, <4>2 DEF Outputs
        <5>. HIDE DEF s
        <5>2. digProbeEncoder(q, g) = digProbeEncoder(q, h)
          BY <5>1, ProbeValues
        <5>. QED
          BY <1>9, <5>2
      <4>. QED
        BY <3>1, <4>1, <4>2
    <3>2. CASE q # "LVTMA" /\ o # "LVTMA"
      <4>1. (q = "UNIPHYA" /\ o = "UNIPHYB") \/ (q = "UNIPHYB" /\ o = "UNIPHYA")
        BY <1>9, <3>2 DEF Outputs
      <4>2. EncoderID[q] = 2 <=> e = 1
        BY <1>1, <2>1 DEF Encoders
      <4>3. s \in BOOLEAN /\ (s <=> (IF o = "UNIPHYA" THEN e = 2 ELSE e = 1))
        BY <1>1, <1>2, <2>2, <4>1 DEF Encoders
      <4>. HIDE DEF s, e
      <4>. QED
        BY <1>1, <1>6, <2>1, <4>1, <4>2, <4>3, ProbeValues DEF Encoders
    <3>. QED
      BY <3>1, <3>2
  <2>. QED
    BY <1>7, <2>1, <2>4
<1>. QED
  BY <1>6, <1>7, <1>8, <1>9 DEF Steered, g

LEMMA OneSteered ==
  ASSUME EncoderTypes, Agreed, NEW os, NEW o \in Outputs, NEW h \in Paths, o \in os => EncoderID[o] # 0,
         NEW g, g = IF o \in os THEN EncoderSet(o, h) ELSE h
  PROVE  Steered({o} \intersect os, h, g)
<1>1. CASE o \in os
  <2>1. {o} \intersect os = {o} /\ g = EncoderSet(o, h)
    BY <1>1
  <2>. QED
    BY <1>1, <2>1, SetSteers
<1>2. CASE o \notin os
  BY <1>2 DEF Steered
<1>. QED
  BY <1>1, <1>2

LEMMA OutputsSteered ==
  ASSUME EncoderTypes, Agreed, NEW os, NEW h \in Paths, \A o \in os \intersect Outputs : EncoderID[o] # 0
  PROVE  Steered(os, h, ForEach(EncoderSet, os, h))
<1>. DEFINE a == IF "UNIPHYA" \in os THEN EncoderSet("UNIPHYA", h) ELSE h
            b == IF "UNIPHYB" \in os THEN EncoderSet("UNIPHYB", a) ELSE a
            c == IF "LVTMA" \in os THEN EncoderSet("LVTMA", b) ELSE b
<1>1. ForEach(EncoderSet, os, h) = c
  BY DEF ForEach
<1>2. "UNIPHYA" \in Outputs /\ "UNIPHYB" \in Outputs /\ "LVTMA" \in Outputs
  BY DEF Outputs
<1>3. Steered({"UNIPHYA"} \intersect os, h, a) /\ a \in Paths
  <2>1. Steered({"UNIPHYA"} \intersect os, h, a)
    BY OneSteered, <1>2
  <2>. QED
    BY <2>1 DEF Steered
<1>4. Steered({"UNIPHYB"} \intersect os, a, b) /\ b \in Paths
  <2>. HIDE DEF a
  <2>1. Steered({"UNIPHYB"} \intersect os, a, b)
    BY OneSteered, <1>2, <1>3
  <2>. QED
    BY <2>1 DEF Steered
<1>5. Steered({"LVTMA"} \intersect os, b, c) /\ c \in Paths
  <2>. HIDE DEF a, b
  <2>1. Steered({"LVTMA"} \intersect os, b, c)
    BY OneSteered, <1>2, <1>4
  <2>. QED
    BY <2>1 DEF Steered
<1>6. SUFFICES Steered(os, h, c)
  BY <1>1
<1>. HIDE DEF a, b, c
<1>7. c \in Paths /\ c.lit = h.lit /\ c.known = h.known /\ \A e \in Encoders : c.dig[e].on = h.dig[e].on
  BY <1>3, <1>4, <1>5 DEF Steered
<1>8. ASSUME NEW o \in os \intersect Outputs
      PROVE  c.dig[EncoderID[o]].source = Crtc[o] /\ digProbeEncoder(o, c) = EncoderID[o]
  <2>1. EncoderID[o] # 0 /\ o \in {"UNIPHYA", "UNIPHYB", "LVTMA"}
    BY <1>8 DEF Outputs
  <2>2. CASE o = "UNIPHYA"
    BY <1>3, <1>4, <1>5, <1>8, <2>1, <2>2 DEF Steered
  <2>3. CASE o = "UNIPHYB"
    BY <1>4, <1>5, <1>8, <2>1, <2>3 DEF Steered
  <2>4. CASE o = "LVTMA"
    BY <1>5, <1>8, <2>4 DEF Steered
  <2>. QED
    BY <2>1, <2>2, <2>3, <2>4
<1>9. ASSUME NEW q \in Outputs \ os, EncoderID[q] # 0, digProbeEncoder(q, h) = EncoderID[q]
      PROVE  digProbeEncoder(q, c) = EncoderID[q] /\ c.dig[EncoderID[q]].source = h.dig[EncoderID[q]].source
  BY <1>3, <1>4, <1>5, <1>9 DEF Steered
<1>. QED
  BY <1>7, <1>8, <1>9 DEF Steered

-----------------------------------------------------------------------------
\* EncoderRestore of every output of the card: the console's links are back.
LEMMA RestoreOne ==
  ASSUME EncoderTypes, NEW o \in Outputs, NEW h \in Paths, store[o] = SavedLink(o)
  PROVE  LET g == EncoderRestore(o, h) IN
         /\ g \in Paths /\ g.lit = h.lit /\ g.known = h.known /\ g.swap = console.swap
         /\ g.dig[digProbeEncoder(o, console)] = console.dig[digProbeEncoder(o, console)]
         /\ \A e \in Encoders : h.dig[e] = console.dig[e] => g.dig[e] = console.dig[e]
<1>. DEFINE e == digProbeEncoder(o, console)
            g == EncoderRestore(o, h)
<1>1. e \in Encoders
  BY DEF digProbeEncoder, Encoders, Outputs
<1>2. h.dig \in [Encoders -> Digs] /\ console.dig[e] \in Digs /\ console.swap \in BOOLEAN
  BY <1>1 DEF EncoderTypes, Paths
<1>3. g = [h EXCEPT !.dig = [h.dig EXCEPT ![e] = console.dig[e]], !.swap = console.swap]
  BY DEF EncoderRestore, SavedLink
<1>. HIDE DEF e
<1>4. g \in Paths /\ g.lit = h.lit /\ g.known = h.known /\ g.swap = console.swap
        /\ g.dig = [h.dig EXCEPT ![e] = console.dig[e]]
  BY <1>1, <1>2, <1>3 DEF Paths
<1>5. g.dig[e] = console.dig[e] /\ \A f \in Encoders : h.dig[f] = console.dig[f] => g.dig[f] = console.dig[f]
  BY <1>1, <1>2, <1>4
<1>. QED
  BY <1>4, <1>5 DEF e

LEMMA RestoreAll ==
  ASSUME EncoderTypes, \A o \in card : store[o] = SavedLink(o)
  PROVE  LET g == ForEach(EncoderRestore, card, path) IN
         /\ g \in Paths /\ g.lit = path.lit /\ g.known = path.known /\ g.swap = console.swap
         /\ \A o \in card : g.dig[digProbeEncoder(o, console)] = console.dig[digProbeEncoder(o, console)]
<1>. DEFINE KeepsRest(h, g) == g.lit = h.lit /\ g.known = h.known /\ \A e \in Encoders : h.dig[e] = console.dig[e] => g.dig[e] = console.dig[e]
            Back(o, g) == g.dig[digProbeEncoder(o, console)] = console.dig[digProbeEncoder(o, console)]
            a == IF "UNIPHYA" \in card THEN EncoderRestore("UNIPHYA", path) ELSE path
            b == IF "UNIPHYB" \in card THEN EncoderRestore("UNIPHYB", a) ELSE a
            c == IF "LVTMA" \in card THEN EncoderRestore("LVTMA", b) ELSE b
<1>1. ForEach(EncoderRestore, card, path) = c
  BY DEF ForEach
<1>2. "UNIPHYA" \in Outputs /\ "UNIPHYB" \in Outputs /\ "LVTMA" \in Outputs /\ path \in Paths
        /\ \A o \in Outputs : digProbeEncoder(o, console) \in Encoders
  BY DEF Outputs, EncoderTypes, digProbeEncoder, Encoders
<1>3. a \in Paths /\ KeepsRest(path, a)
        /\ ("UNIPHYA" \in card => Back("UNIPHYA", a) /\ a.swap = console.swap)
  BY RestoreOne, <1>2
<1>4. b \in Paths /\ KeepsRest(a, b)
        /\ ("UNIPHYB" \in card => Back("UNIPHYB", b) /\ b.swap = console.swap) /\ ("UNIPHYB" \notin card => b = a)
  <2>. HIDE DEF a
  <2>. QED
    BY RestoreOne, <1>2, <1>3
<1>5. c \in Paths /\ KeepsRest(b, c)
        /\ ("LVTMA" \in card => Back("LVTMA", c) /\ c.swap = console.swap) /\ ("LVTMA" \notin card => c = b)
  <2>. HIDE DEF a, b
  <2>. QED
    BY RestoreOne, <1>2, <1>4
<1>6. card \subseteq {"UNIPHYA", "UNIPHYB", "LVTMA"} /\ card # {}
  BY DEF EncoderTypes, Outputs
<1>. HIDE DEF a, b, c
<1>7. c \in Paths /\ c.lit = path.lit /\ c.known = path.known /\ c.swap = console.swap
  BY <1>3, <1>4, <1>5, <1>6
<1>8. ASSUME NEW o \in card
      PROVE  Back(o, c)
  <2>1. CASE o = "UNIPHYA"
    BY <1>2, <1>3, <1>4, <1>5, <2>1
  <2>2. CASE o = "UNIPHYB"
    BY <1>2, <1>4, <1>5, <2>2
  <2>3. CASE o = "LVTMA"
    BY <1>5, <2>3
  <2>. QED
    BY <1>6, <2>1, <2>2, <2>3
<1>. QED
  BY <1>1, <1>7, <1>8

-----------------------------------------------------------------------------
LEMMA TendedStays ==
  ASSUME EncoderTypes, Agreed, NEW os, Tended(os, path, path'), EncoderID' = EncoderID
  PROVE  /\ path' \in Paths
         /\ \A o \in Outputs : EncoderID[o] # 0 => o \in path'.known
         /\ \A q \in Outputs : Linked(q) /\ Crtc'[q] = Crtc[q] => Linked(q)'
         /\ \A q \in Outputs \ os : EncoderID[q] # 0 /\ Powered(q) => Powered(q)'
<1>1. path' \in Paths /\ path'.swap = path.swap /\ path.known \subseteq path'.known
  BY DEF Tended
<1>2. \A o \in Outputs : EncoderID[o] # 0 => o \in path'.known
  BY <1>1 DEF Agreed
<1>3. ASSUME NEW q \in Outputs, Linked(q), Crtc'[q] = Crtc[q]
      PROVE  Linked(q)'
  <2>1. EncoderID[q] \in Encoders
    BY <1>3 DEF Linked, EncoderTypes, Encoders
  <2>2. digProbeEncoder(q, path') = digProbeEncoder(q, path)
    BY <1>1, ProbeValues DEF Outputs
  <2>. QED
    BY <1>3, <2>1, <2>2 DEF Linked, Tended
<1>4. ASSUME NEW q \in Outputs \ os, EncoderID[q] # 0, Powered(q)
      PROVE  Powered(q)'
  BY <1>4 DEF Powered, Tended
<1>. QED
  BY <1>1, <1>2, <1>3, <1>4

LEMMA SteeredStays ==
  ASSUME EncoderTypes, Agreed, NEW os, Steered(os, path, path'), EncoderID' = EncoderID, Crtc' = Crtc
  PROVE  /\ path' \in Paths
         /\ \A o \in Outputs : EncoderID[o] # 0 => o \in path'.known
         /\ \A q \in Outputs : EncoderID[q] # 0 /\ (q \in os \/ Linked(q)) => Linked(q)'
         /\ \A q \in Outputs : EncoderID[q] # 0 /\ Powered(q) => Powered(q)'
<1>1. path' \in Paths /\ path'.lit = path.lit /\ path'.known = path.known
  BY DEF Steered
<1>2. \A o \in Outputs : EncoderID[o] # 0 => o \in path'.known
  BY <1>1 DEF Agreed
<1>3. ASSUME NEW q \in Outputs, EncoderID[q] # 0, q \in os \/ Linked(q)
      PROVE  Linked(q)'
  <2>1. CASE q \in os
    BY <1>3, <2>1 DEF Linked, Steered
  <2>2. CASE q \notin os
    BY <1>3, <2>2 DEF Linked, Steered
  <2>. QED
    BY <2>1, <2>2
<1>4. ASSUME NEW q \in Outputs, EncoderID[q] # 0, Powered(q)
      PROVE  Powered(q)'
  <2>1. EncoderID[q] \in Encoders
    BY <1>4 DEF EncoderTypes, Encoders
  <2>. QED
    BY <1>1, <1>4, <2>1 DEF Powered, Steered
<1>. QED
  BY <1>1, <1>2, <1>3, <1>4

\* DigAllocFree gives an output the encoder that it has or one that nobody has.
LEMMA AllocatedRight ==
  ASSUME NEW ids \in [Outputs -> {0, 1, 2}], NEW owner \in [Encoders -> Outputs \union {None}],
         \A e \in Encoders, o \in Outputs : ids[o] = e <=> owner[e] = o, ids["LVTMA"] # 1,
         NEW o \in Outputs, ids[o] = EncoderID[o], Allocated(o, owner) # 0
  PROVE  LET a == Allocated(o, owner)
             given == [ids EXCEPT ![o] = a]
             taken == [owner EXCEPT ![a] = o]
         IN  /\ given \in [Outputs -> {0, 1, 2}] /\ taken \in [Encoders -> Outputs \union {None}]
             /\ \A e \in Encoders, p \in Outputs : given[p] = e <=> taken[e] = p
             /\ given["LVTMA"] # 1
<1>. DEFINE a == Allocated(o, owner)
<1>1. a \in Encoders /\ (ids[o] = a \/ (ids[o] = 0 /\ owner[a] = None)) /\ (o = "LVTMA" => a # 1)
  BY DEF Allocated, Encoders
<1>2. \A p \in Outputs : p # None
  BY DEF Outputs, None
<1>. HIDE DEF a
<1>3. [ids EXCEPT ![o] = a] \in [Outputs -> {0, 1, 2}] /\ [owner EXCEPT ![a] = o] \in [Encoders -> Outputs \union {None}]
  BY <1>1 DEF Encoders
<1>4. ASSUME NEW e \in Encoders, NEW p \in Outputs
      PROVE  [ids EXCEPT ![o] = a][p] = e <=> [owner EXCEPT ![a] = o][e] = p
  <2>1. [ids EXCEPT ![o] = a][p] = (IF p = o THEN a ELSE ids[p]) /\ [owner EXCEPT ![a] = o][e] = (IF e = a THEN o ELSE owner[e])
    BY <1>1
  <2>2. (ids[p] = e <=> owner[e] = p) /\ (ids[o] = e <=> owner[e] = o) /\ (ids[p] = a <=> owner[a] = p) /\ 0 \notin Encoders
    BY <1>1 DEF Encoders
  <2>. QED
    BY <1>1, <1>2, <2>1, <2>2
<1>5. [ids EXCEPT ![o] = a]["LVTMA"] # 1
  BY <1>1 DEF Outputs
<1>. QED
  BY <1>3, <1>4, <1>5 DEF a

LEMMA RoundsRight ==
  ASSUME EncoderTypes, NEW cs \in SUBSET Crtcs
  PROVE  /\ Rounds(cs) \in RoundRecords
         /\ cs = {} => Rounds(cs).at = "unused" /\ Rounds(cs).todo = {o \in card : crtcOf[o] = None}
         /\ cs # {} => /\ Rounds(cs).at = "fixup" /\ Rounds(cs).crtc \in Crtcs
                       /\ Rounds(cs).later = cs \ {Rounds(cs).crtc} /\ Rounds(cs).crtc \in cs
                       /\ Rounds(cs).todo = OutputsOf(Rounds(cs).crtc) /\ Rounds(cs).before = crtcOf
<1>1. CASE cs = {}
  BY <1>1 DEF Rounds, Idle, RoundRecords, RoundSteps, MaybeCrtc, CrtcMaps
<1>2. CASE cs # {}
  <2>. DEFINE c == IF "D1" \in cs THEN "D1" ELSE "D2"
  <2>1. c \in cs /\ c \in Crtcs
    BY <1>2 DEF Crtcs
  <2>2. OutputsOf(c) \in SUBSET card /\ crtcOf \in CrtcMaps /\ cs \ {c} \in SUBSET Crtcs
    BY DEF OutputsOf, EncoderTypes
  <2>3. Rounds(cs) = [at |-> "fixup", todo |-> OutputsOf(c), crtc |-> c, later |-> cs \ {c}, before |-> crtcOf]
    BY <1>2 DEF Rounds
  <2>. HIDE DEF c
  <2>. QED
    BY <1>2, <2>1, <2>2, <2>3 DEF RoundRecords, RoundSteps, MaybeCrtc
<1>. QED
  BY <1>1, <1>2

-----------------------------------------------------------------------------
LEMMA ConsolePathsTyped == ASSUME card \subseteq Outputs, NEW h \in ConsolePaths PROVE h \in Paths
<1>1. PICK g \in BOOLEAN \X SUBSET card :
        h = [swap |-> g[1], lit |-> g[2], known |-> {},
             dig |-> [e \in Encoders |->
               [on |-> \E o \in g[2] : digProbeEncoder(o, [swap |-> g[1]]) = e, source |-> "console"]]]
  BY DEF ConsolePaths
<1>. DEFINE Lit(e) == \E o \in g[2] : digProbeEncoder(o, [swap |-> g[1]]) = e
<1>2. \A e \in Encoders : Lit(e) \in BOOLEAN
  OBVIOUS
<1>3. h.dig = [e \in Encoders |-> [on |-> Lit(e), source |-> "console"]]
  BY <1>1
<1>. HIDE DEF Lit
<1>4. h.dig \in [Encoders -> Digs]
  BY <1>2, <1>3 DEF Digs
<1>5. h = [swap |-> g[1], lit |-> g[2], known |-> {}, dig |-> h.dig] /\ g[1] \in BOOLEAN /\ g[2] \in SUBSET card
  BY <1>1
<1>. QED
  BY <1>4, <1>5 DEF Paths

LEMMA EncoderInitRight == EncoderInit => EncoderInv
<1>. SUFFICES ASSUME EncoderInit PROVE EncoderInv
  OBVIOUS
<1>. USE DEF EncoderInit
<1>1. path \in Paths
  BY CardsAssumption, ConsolePathsTyped
<1>2. EncoderTypes
  BY <1>1, CardsAssumption DEF EncoderTypes, Idle, RoundRecords, MaybeCrtc, CrtcMaps, Crtcs, Encoders, Outputs, None
<1>3. Agreed
  BY DEF Agreed, Encoders, Outputs, None
<1>4. LinksKept
  BY DEF LinksKept, SameLinks, Idle
<1>5. StaticRight
  BY DEF StaticRight, Idle
<1>6. RandrRight
  BY DEF RandrRight, ActiveRight, Idle, RoundSteps
<1>. QED
  BY <1>2, <1>3, <1>4, <1>5, <1>6 DEF EncoderInv

LEMMA LayoutSelectKeeps == ASSUME EncoderInv, LayoutSelect PROVE EncoderInv'
<1>. USE DEF EncoderInv
<1>1. PICK connected \in SUBSET card : round' = [Idle EXCEPT !.at = "layout", !.todo = connected]
  BY DEF LayoutSelect
<1>2. ~randr /\ screen = "none"
      /\ UNCHANGED <<card, randr, EncoderID, DigEncoderOutput, Active, Crtc, asleep, path, screen, store, console, crtcOf, spoiled>>
  BY DEF LayoutSelect, driver
<1>3. EncoderTypes'
  BY <1>1, <1>2 DEF EncoderTypes, Idle, RoundRecords, MaybeCrtc, CrtcMaps
<1>4. Agreed'
  BY <1>2 DEF Agreed
<1>5. round'.at = "layout"
  BY <1>1 DEF Idle
<1>6. LinksKept'
  BY <1>2, <1>5 DEF LinksKept, SameLinks
<1>7. StaticRight'
  BY <1>2, <1>5 DEF StaticRight
<1>8. RandrRight'
  BY <1>2 DEF RandrRight
<1>. QED
  BY <1>3, <1>4, <1>6, <1>7, <1>8

LEMMA LayoutKeeps == ASSUME EncoderInv, NEW o \in Outputs, Layout(o) PROVE EncoderInv'
<1>. DEFINE e == Allocated(o, DigEncoderOutput)
<1>. USE DEF EncoderInv
<1>1. /\ round.at = "layout" /\ o \in round.todo
      /\ UNCHANGED <<card, randr, store, console, crtcOf, spoiled, asleep>>
      /\ round' = IF Done(o) = {} THEN Idle ELSE At("layout", Done(o))
      /\ screen' = IF Done(o) = {} THEN "console" ELSE screen
  BY DEF Layout, driver
<1>2. ~randr /\ screen = "none" /\ round \in RoundRecords
  BY <1>1 DEF RandrRight, StaticRight, EncoderTypes
<1>3. /\ e = 0 => UNCHANGED <<EncoderID, DigEncoderOutput, Active, Crtc, path>>
      /\ e # 0 => /\ EncoderID' = [EncoderID EXCEPT ![o] = e] /\ DigEncoderOutput' = [DigEncoderOutput EXCEPT ![e] = o]
                  /\ path' = [path EXCEPT !.known = @ \union {o}] /\ Active' = Active \union {o}
                  /\ Crtc' = [Crtc EXCEPT ![o] = IF Cardinality(Active) % 2 = 0 THEN "D1" ELSE "D2"]
  BY DEF Layout, driver
<1>4. /\ round' \in RoundRecords /\ (round' = Idle \/ round'.at = "layout") /\ (round' = Idle => screen' = "console")
      /\ (round'.at = "layout" => screen' = "none") /\ screen' \in {"none", "console"} /\ (round'.at = "idle" => round' = Idle)
  BY <1>1, <1>2 DEF Idle, At, Done, RoundRecords, MaybeCrtc, CrtcMaps
<1>5. /\ EncoderID' \in [Outputs -> {0, 1, 2}] /\ DigEncoderOutput' \in [Encoders -> Outputs \union {None}]
      /\ \A f \in Encoders, p \in Outputs : EncoderID'[p] = f <=> DigEncoderOutput'[f] = p
      /\ EncoderID'["LVTMA"] # 1
  <2>1. CASE e = 0
    BY <1>3, <2>1 DEF EncoderTypes, Agreed
  <2>2. CASE e # 0
    <3>1. EncoderID \in [Outputs -> {0, 1, 2}] /\ DigEncoderOutput \in [Encoders -> Outputs \union {None}]
          /\ EncoderID["LVTMA"] # 1 /\ \A f \in Encoders, p \in Outputs : EncoderID[p] = f <=> DigEncoderOutput[f] = p
      BY DEF EncoderTypes, Agreed
    <3>. DEFINE given == [EncoderID EXCEPT ![o] = e]
                taken == [DigEncoderOutput EXCEPT ![e] = o]
    <3>2. /\ given \in [Outputs -> {0, 1, 2}] /\ taken \in [Encoders -> Outputs \union {None}]
          /\ \A f \in Encoders, p \in Outputs : given[p] = f <=> taken[f] = p
          /\ given["LVTMA"] # 1
      BY <2>2, <3>1, AllocatedRight
    <3>. HIDE DEF e
    <3>. QED
      BY <3>2, <1>3, <2>2
  <2>. QED
    BY <2>1, <2>2
<1>6. /\ path' \in Paths /\ path'.swap = path.swap /\ path'.dig = path.dig /\ path.known \subseteq path'.known
      /\ (e # 0 => o \in path'.known)
  BY <1>3 DEF EncoderTypes, Paths
<1>7. Active' \in SUBSET card /\ Crtc' \in CrtcMaps /\ \A p \in Active' : EncoderID'[p] # 0
  <2>1. \A p \in Active : EncoderID[p] # 0
    BY <1>2 DEF StaticRight
  <2>2. o \in card /\ Active \in SUBSET card /\ Crtc \in CrtcMaps
    BY <1>1, <1>2 DEF EncoderTypes, RoundRecords
  <2>3. CASE e = 0
    BY <1>3, <2>1, <2>2, <2>3
  <2>4. CASE e # 0
    BY <1>3, <2>1, <2>2, <2>4 DEF EncoderTypes, CrtcMaps, MaybeCrtc, Crtcs
  <2>. QED
    BY <2>3, <2>4
<1>. HIDE DEF e
<1>8. EncoderTypes'
  <2>. QED
    BY <1>1, <1>4, <1>5, <1>6, <1>7 DEF EncoderTypes, RoundRecords
<1>9. Agreed'
  <2>1. \A p \in Outputs : EncoderID'[p] # 0 => p \in path'.known
    BY <1>3, <1>6 DEF EncoderTypes, Agreed
  <2>. QED
    BY <1>5, <2>1 DEF Agreed
<1>10. LinksKept'
  <2>1. SameLinks
    BY <1>2 DEF LinksKept
  <2>2. SameLinks'
    BY <1>1, <1>6, <2>1 DEF SameLinks
  <2>3. round'.at \in {"idle", "layout"}
    BY <1>4 DEF Idle
  <2>. QED
    BY <1>1, <1>2, <1>4, <2>2, <2>3 DEF LinksKept
<1>11. StaticRight'
  <2>1. round'.at \in {"idle", "layout"} /\ screen' # "driver"
    BY <1>4 DEF Idle
  <2>. QED
    BY <1>1, <1>2, <1>4, <1>7, <2>1 DEF StaticRight
<1>12. RandrRight'
  BY <1>1, <1>2 DEF RandrRight
<1>. QED
  BY <1>8, <1>9, <1>10, <1>11, <1>12

LEMMA InitialConfigurationKeeps == ASSUME EncoderInv, InitialConfiguration PROVE EncoderInv'
<1>. USE DEF EncoderInv
<1>1. /\ screen = "none" /\ randr /\ screen' = "console"
      /\ UNCHANGED <<card, randr, EncoderID, DigEncoderOutput, Active, Crtc, asleep, path, store, console, round, spoiled>>
      /\ crtcOf' \in CrtcMaps /\ \A o \in Outputs : crtcOf'[o] # None => o \in card
  BY DEF InitialConfiguration, driver, CrtcMaps, MaybeCrtc
<1>2. Active = {} /\ round.at = "idle" /\ round = Idle
  BY <1>1 DEF LinksKept, RandrRight
<1>3. EncoderTypes'
  BY <1>1 DEF EncoderTypes, RoundRecords
<1>4. Agreed'
  BY <1>1 DEF Agreed
<1>5. LinksKept'
  BY <1>1, <1>2 DEF LinksKept, SameLinks
<1>6. StaticRight'
  BY <1>1 DEF StaticRight
<1>7. RandrRight'
  BY <1>1, <1>2 DEF RandrRight, ActiveRight, RoundSteps
<1>. QED
  BY <1>3, <1>4, <1>5, <1>6, <1>7

\* What was saved when the screen was entered is what the console had.
LEMMA SavedRight ==
  ASSUME EncoderTypes, SameLinks, NEW o \in card
  PROVE  EncoderSave(o) = SavedLink(o)
<1>1. o \in Outputs /\ path.swap = console.swap
  BY DEF EncoderTypes, SameLinks
<1>2. digProbeEncoder(o, path) = digProbeEncoder(o, console)
  BY <1>1, ProbeValues DEF Outputs
<1>. QED
  BY <1>1, <1>2 DEF EncoderSave, SavedLink, SameLinks

\* A round of RandR begins, with these CRTCs still to be set: what is right
\* about rounds holds when every output is awaiting, steady or switched off.
LEMMA RoundsBegin ==
  ASSUME EncoderTypes, NEW cs \in SUBSET Crtcs, round' = Rounds(cs), crtcOf' = crtcOf, card' = card
  PROVE  /\ RoundRight'
         /\ (\A o \in Active' : cs # {} => crtcOf[o] # None) => ActiveRight'
         /\ Awaiting' = {o \in card : crtcOf[o] \in cs}
<1>1. CASE cs = {}
  <2>1. round'.at = "unused" /\ round'.todo = {o \in card : crtcOf[o] = None}
    BY <1>1, RoundsRight
  <2>2. RoundRight'
    BY <2>1 DEF RoundRight, RoundSteps
  <2>3. ActiveRight'
    BY <2>1 DEF ActiveRight, RoundSteps
  <2>4. Awaiting' = {}
    BY <2>1 DEF Awaiting, RoundSteps
  <2>. QED
    BY <1>1, <2>2, <2>3, <2>4
<1>2. CASE cs # {}
  <2>1. /\ round'.at = "fixup" /\ round'.crtc \in Crtcs /\ round'.later = cs \ {round'.crtc} /\ round'.crtc \in cs
        /\ round'.todo = OutputsOf(round'.crtc) /\ round'.before = crtcOf
    BY <1>2, RoundsRight
  <2>2. OutputsOf(round'.crtc) = OutputsOf(round.crtc)'
    BY DEF OutputsOf
  <2>3. RoundRight'
    BY <2>1, <2>2 DEF RoundRight, RoundSteps
  <2>4. ASSUME \A o \in Active' : cs # {} => crtcOf[o] # None
        PROVE  ActiveRight'
    BY <1>2, <2>1, <2>4 DEF ActiveRight, RoundSteps, EncoderTypes
  <2>5. Awaiting' = {o \in card : crtcOf[o] = round'.crtc \/ crtcOf[o] \in round'.later}
    BY <2>1 DEF Awaiting
  <2>6. Awaiting' = {o \in card : crtcOf[o] \in cs}
    BY <2>1, <2>5
  <2>. QED
    BY <2>3, <2>4, <2>6
<1>. QED
  BY <1>1, <1>2

LEMMA EnterVTKeeps == ASSUME EncoderInv, EnterVT PROVE EncoderInv'
<1>. USE DEF EncoderInv
<1>1. /\ screen = "console" /\ screen' = "driver"
      /\ UNCHANGED <<card, randr, EncoderID, DigEncoderOutput, Active, Crtc, asleep, console, crtcOf, spoiled>>
      /\ store' = [o \in Outputs |-> IF o \in card THEN EncoderSave(o) ELSE store[o]]
      /\ path' = IF randr THEN OutputsPower(Active, "RESET", path) ELSE path
      /\ round' = IF randr THEN Rounds(Used) ELSE StaticRound
  BY DEF EnterVT, driver
<1>2. round = Idle /\ SameLinks /\ path \in Paths /\ card \subseteq Outputs
  BY <1>1 DEF LinksKept, EncoderTypes
<1>3. \A o \in card : store'[o] = SavedLink(o)
  BY <1>1, <1>2, SavedRight
<1>4. Tended(Active, path, path')
  <2>1. CASE randr
    BY <1>1, <1>2, <2>1, OutputsTended
  <2>2. CASE ~randr
    BY <1>1, <1>2, <2>2 DEF Tended
  <2>. QED
    BY <2>1, <2>2
<1>5. path' \in Paths /\ \A o \in Outputs : EncoderID[o] # 0 => o \in path'.known
  BY <1>1, <1>4, TendedStays
<1>6. Used \in SUBSET Crtcs
  BY <1>2 DEF Used, EncoderTypes, CrtcMaps, MaybeCrtc
<1>7. StaticRound \in RoundRecords /\ StaticRound.at = "mode" /\ StaticRound.todo = Active
  BY DEF StaticRound, Idle, RoundRecords, RoundSteps, EncoderTypes, MaybeCrtc, CrtcMaps
<1>8. round' \in RoundRecords /\ round'.at \notin {"idle", "layout"}
  <2>1. CASE randr
    BY <1>1, <1>6, <2>1, RoundsRight
  <2>2. CASE ~randr
    BY <1>1, <1>7, <2>2
  <2>. QED
    BY <2>1, <2>2
<1>9. EncoderTypes'
  BY <1>1, <1>5, <1>8 DEF EncoderTypes, RoundRecords
<1>10. Agreed'
  BY <1>1, <1>5 DEF Agreed
<1>11. LinksKept'
  BY <1>1, <1>3, <1>8 DEF LinksKept, SavedLink
<1>12. StaticRight'
  <2>1. CASE ~randr
    <3>1. round'.at = "mode" /\ round'.todo = Active
      BY <1>1, <1>7, <2>1
    <3>. QED
      BY <1>1, <2>1, <3>1 DEF StaticRight, Idle
  <2>2. CASE randr
    BY <1>1, <2>2 DEF StaticRight
  <2>. QED
    BY <2>1, <2>2
<1>13. RandrRight'
  <2>1. CASE randr
    <3>1. round' = Rounds(Used) /\ crtcOf' = crtcOf /\ card' = card /\ Active' = Active
      BY <1>1, <2>1
    <3>2. \A o \in Active : crtcOf[o] # None
      BY <1>1, <1>2, <2>1 DEF RandrRight, ActiveRight, Idle
    <3>3. RoundRight' /\ ActiveRight' /\ Awaiting' = {o \in card : crtcOf[o] \in Used}
      BY <1>6, <3>1, <3>2, RoundsBegin
    <3>4. \A o \in card : crtcOf[o] # None => o \in Awaiting'
      BY <3>3 DEF Used
    <3>5. ~asleep'
      BY <1>1, <2>1 DEF RandrRight
    <3>. QED
      BY <1>1, <1>8, <3>3, <3>4, <3>5 DEF RandrRight, Steady
  <2>2. CASE ~randr
    BY <1>1, <2>2 DEF RandrRight
  <2>. QED
    BY <2>1, <2>2
<1>. QED
  BY <1>9, <1>10, <1>11, <1>12, <1>13

LEMMA LeaveVTKeeps == ASSUME EncoderInv, LeaveVT PROVE EncoderInv'
<1>. USE DEF EncoderInv
<1>1. /\ screen = "driver" /\ screen' = "console" /\ round = Idle
      /\ UNCHANGED <<card, randr, EncoderID, DigEncoderOutput, Active, Crtc, asleep, console, crtcOf, round, spoiled>>
      /\ path' = ForEach(EncoderRestore, card, path)
  BY DEF LeaveVT, driver
<1>2. \A o \in card : store[o] = SavedLink(o)
  BY <1>1 DEF LinksKept
<1>3. /\ path' \in Paths /\ path'.known = path.known /\ path'.swap = console.swap
      /\ \A o \in card : path'.dig[digProbeEncoder(o, console)] = console.dig[digProbeEncoder(o, console)]
  BY <1>1, <1>2, RestoreAll
<1>4. EncoderTypes'
  BY <1>1, <1>3 DEF EncoderTypes, RoundRecords
<1>5. Agreed'
  BY <1>1, <1>3 DEF Agreed
<1>6. LinksKept'
  BY <1>1, <1>3 DEF LinksKept, SameLinks, Idle
<1>7. StaticRight'
  <2>1. screen' # "driver" /\ round' = Idle /\ Idle.at = "idle"
    BY <1>1 DEF Idle
  <2>. QED
    BY <1>1, <2>1 DEF StaticRight
<1>8. RandrRight'
  <2>1. ActiveRight' <=> ActiveRight
    BY <1>1 DEF ActiveRight
  <2>. QED
    BY <1>1, <2>1 DEF RandrRight
<1>. QED
  BY <1>4, <1>5, <1>6, <1>7, <1>8

LEMMA ConsoleSetsKeeps == ASSUME EncoderInv, ConsoleSets PROVE EncoderInv'
<1>. USE DEF EncoderInv
<1>1. /\ screen = "console" /\ console' = path'
      /\ UNCHANGED <<card, randr, EncoderID, DigEncoderOutput, Active, Crtc, asleep, screen, store, crtcOf, round, spoiled>>
  BY DEF ConsoleSets, driver
<1>2. PICK h \in ConsolePaths : path' = [h EXCEPT !.known = path.known]
  BY DEF ConsoleSets
<1>3. path' \in Paths /\ path'.known = path.known
  <2>1. h \in Paths /\ path \in Paths
    BY ConsolePathsTyped DEF EncoderTypes
  <2>. QED
    BY <1>2, <2>1 DEF Paths
<1>4. EncoderTypes'
  BY <1>1, <1>3 DEF EncoderTypes, RoundRecords
<1>5. Agreed'
  BY <1>1, <1>3 DEF Agreed
<1>6. LinksKept'
  BY <1>1 DEF LinksKept, SameLinks
<1>7. StaticRight'
  <2>1. screen' # "driver" /\ round' = Idle /\ Idle.at = "idle"
    BY <1>1 DEF Idle, LinksKept
  <2>. QED
    BY <1>1, <2>1 DEF StaticRight
<1>8. RandrRight'
  <2>1. ActiveRight' <=> ActiveRight
    BY <1>1 DEF ActiveRight
  <2>. QED
    BY <1>1, <2>1 DEF RandrRight
<1>. QED
  BY <1>4, <1>5, <1>6, <1>7, <1>8

LEMMA SwitchModeKeeps == ASSUME EncoderInv, SwitchMode PROVE EncoderInv'
<1>. USE DEF EncoderInv
<1>1. /\ screen = "driver" /\ ~randr /\ round' = StaticRound /\ path' = OutputsPower(Active, "RESET", path)
      /\ UNCHANGED <<card, randr, EncoderID, DigEncoderOutput, Active, Crtc, asleep, screen, store, console, crtcOf, spoiled>>
  BY DEF SwitchMode, driver
<1>2. StaticRound \in RoundRecords /\ StaticRound.at = "mode" /\ StaticRound.todo = Active
  BY DEF StaticRound, Idle, RoundRecords, RoundSteps, EncoderTypes, MaybeCrtc, CrtcMaps
<1>3. Tended(Active, path, path')
  BY <1>1, OutputsTended DEF EncoderTypes
<1>4. path' \in Paths /\ \A o \in Outputs : EncoderID[o] # 0 => o \in path'.known
  BY <1>1, <1>3, TendedStays
<1>5. EncoderTypes'
  BY <1>1, <1>2, <1>4 DEF EncoderTypes, RoundRecords
<1>6. Agreed'
  BY <1>1, <1>4 DEF Agreed
<1>7. LinksKept'
  BY <1>1, <1>2 DEF LinksKept, SavedLink
<1>8. StaticRight'
  BY <1>1, <1>2 DEF StaticRight, Idle
<1>9. RandrRight'
  BY <1>1 DEF RandrRight
<1>. QED
  BY <1>5, <1>6, <1>7, <1>8, <1>9

LEMMA CrtcSetKeeps == ASSUME EncoderInv, NEW c \in Crtcs, NEW os \in SUBSET card, CrtcSet(c, os) PROVE EncoderInv'
<1>. USE DEF EncoderInv
<1>1. /\ screen = "driver" /\ round = Idle /\ randr
      /\ crtcOf' = [o \in Outputs |-> IF o \in os THEN c ELSE IF crtcOf[o] = c THEN None ELSE crtcOf[o]]
      /\ round' = IF os = {}
                  THEN [Idle EXCEPT !.at = "unused", !.todo = {o \in card : crtcOf'[o] = None}]
                  ELSE [at |-> "fixup", todo |-> os, crtc |-> c, later |-> {}, before |-> crtcOf]
      /\ UNCHANGED <<card, randr, EncoderID, DigEncoderOutput, Active, Crtc, asleep, path, screen, store, console, spoiled>>
  BY DEF CrtcSet, driver
<1>2. Idle.at = "idle"
  BY DEF Idle
<1>3. c # None /\ c \in MaybeCrtc /\ None \in MaybeCrtc /\ crtcOf \in CrtcMaps /\ card \in SUBSET Outputs
  BY DEF Crtcs, None, MaybeCrtc, EncoderTypes
<1>4. crtcOf' \in CrtcMaps /\ \A o \in Outputs : crtcOf'[o] # None => o \in card
  <2>1. \A o \in Outputs : crtcOf[o] \in MaybeCrtc /\ (crtcOf[o] # None => o \in card)
    BY DEF EncoderTypes, CrtcMaps
  <2>. QED
    BY <1>1, <1>3, <2>1 DEF CrtcMaps
<1>5. round' \in RoundRecords /\ round'.at \in {"unused", "fixup"}
  BY <1>1, <1>3 DEF RoundRecords, Idle, CrtcMaps, MaybeCrtc
<1>6. /\ os = {} => round'.at = "unused" /\ round'.todo = {o \in card : crtcOf'[o] = None}
      /\ os # {} => round'.at = "fixup" /\ round'.todo = os /\ round'.crtc = c /\ round'.later = {} /\ round'.before = crtcOf
  BY <1>1 DEF Idle
<1>7. EncoderTypes'
  BY <1>1, <1>4, <1>5 DEF EncoderTypes, RoundRecords
<1>8. Agreed'
  BY <1>1 DEF Agreed
<1>9. LinksKept'
  BY <1>1, <1>5 DEF LinksKept, SavedLink
<1>10. StaticRight'
  BY <1>1 DEF StaticRight
<1>11. \A o \in card : crtcOf[o] # None /\ o \notin spoiled =>
         Linked(o) /\ crtcOf[o] = Crtc[o] /\ (o \in Active => Powered(o))
  BY <1>1, <1>2 DEF RandrRight, Steady, Awaiting, RoundSteps
<1>12. RandrRight'
  <2>1. \A o \in card : crtcOf'[o] = (IF o \in os THEN c ELSE IF crtcOf[o] = c THEN None ELSE crtcOf[o])
    BY <1>1, <1>3
  <2>2. ~asleep' /\ randr' /\ round'.at # "layout" /\ screen' = "driver"
    BY <1>1, <1>5 DEF RandrRight
  <2>3. ActiveRight'
    <3>1. \A o \in Active : crtcOf[o] # None
      BY <1>1, <1>2 DEF RandrRight, ActiveRight
    <3>2. \A o \in Outputs : crtcOf[o] # None => o \in card
      BY DEF EncoderTypes
    <3>. QED
      BY <1>1, <1>5, <1>6, <3>1, <3>2 DEF ActiveRight, RoundSteps
  <2>4. RoundRight'
    <3>1. CASE os = {}
      BY <1>1, <1>6, <3>1 DEF RoundRight, RoundSteps
    <3>2. CASE os # {}
      <4>1. os \subseteq OutputsOf(c)'
        BY <1>1, <2>1 DEF OutputsOf
      <4>2. OutputsOf(c)' \subseteq os
        BY <1>1, <1>3, <2>1 DEF OutputsOf
      <4>3. \A o \in card \ spoiled : crtcOf[o] # None /\ crtcOf'[o] = Crtc[o] => crtcOf[o] = Crtc[o]
        BY <1>11
      <4>4. OutputsOf(round.crtc)' = OutputsOf(c)'
        BY <1>6, <3>2 DEF OutputsOf
      <4>. QED
        BY <1>1, <1>6, <3>2, <4>1, <4>2, <4>3, <4>4 DEF RoundRight, RoundSteps
    <3>. QED
      BY <3>1, <3>2
  <2>5. ASSUME NEW o \in card, Steady(o)'
        PROVE  crtcOf[o] # None /\ o \notin spoiled /\ crtcOf'[o] = crtcOf[o]
    <3>1. crtcOf'[o] # None /\ o \notin spoiled /\ o \notin Awaiting'
      BY <1>1, <2>5 DEF Steady
    <3>2. CASE os = {}
      BY <2>1, <3>1, <3>2
    <3>3. CASE os # {}
      <4>1. crtcOf'[o] # c
        BY <1>1, <1>6, <3>1, <3>3 DEF Awaiting
      <4>. QED
        BY <2>1, <3>1, <4>1
    <3>. QED
      BY <3>2, <3>3
  <2>6. ASSUME NEW o \in card, Steady(o)'
        PROVE  Linked(o)' /\ crtcOf'[o] = Crtc'[o] /\ (o \in Active' => Powered(o)')
    <3>1. Linked(o) /\ crtcOf[o] = Crtc[o] /\ (o \in Active => Powered(o)) /\ crtcOf'[o] = crtcOf[o]
      BY <1>11, <2>5, <2>6
    <3>. QED
      BY <1>1, <3>1 DEF Linked, Powered
  <2>. QED
    BY <1>1, <2>2, <2>3, <2>4, <2>6 DEF RandrRight
<1>. QED
  BY <1>7, <1>8, <1>9, <1>10, <1>12

LEMMA OutputPrepareKeeps == ASSUME EncoderInv, OutputPrepare PROVE EncoderInv'
<1>. USE DEF EncoderInv
<1>1. /\ round.at = "prepare" /\ path' = OutputsPower(round.todo, "RESET", path)
      /\ Crtc' = [o \in Outputs |-> IF o \in round.todo THEN None ELSE Crtc[o]]
      /\ round' = At("crtc", round.todo)
      /\ UNCHANGED <<card, randr, EncoderID, DigEncoderOutput, Active, asleep, screen, store, console, crtcOf, spoiled>>
  BY DEF OutputPrepare
<1>2. screen = "driver" /\ randr /\ round \in RoundRecords
  BY <1>1 DEF LinksKept, StaticRight, EncoderTypes
<1>3. /\ round' \in RoundRecords /\ round'.at = "crtc" /\ round'.todo = round.todo /\ round'.crtc = round.crtc
      /\ round'.later = round.later /\ round'.before = round.before
  BY <1>1, <1>2 DEF At, RoundRecords, RoundSteps
<1>4. Tended(round.todo, path, path')
  BY <1>1, OutputsTended DEF EncoderTypes
<1>5. Crtc' \in CrtcMaps
  BY <1>1 DEF EncoderTypes, CrtcMaps, MaybeCrtc
<1>6. EncoderTypes'
  BY <1>1, <1>3, <1>4, <1>5, TendedStays DEF EncoderTypes, RoundRecords
<1>7. Agreed'
  BY <1>1, <1>4, TendedStays DEF Agreed
<1>8. LinksKept'
  BY <1>1, <1>2, <1>3 DEF LinksKept, SavedLink
<1>9. StaticRight'
  BY <1>1, <1>2 DEF StaticRight
<1>10. RandrRight'
  <2>1. RoundRight /\ ActiveRight /\ screen # "dead" /\ ~asleep
    BY <1>2 DEF RandrRight
  <2>2. round.todo = OutputsOf(round.crtc) /\ OutputsOf(round'.crtc) = OutputsOf(round.crtc)'
    BY <1>1, <2>1 DEF RoundRight, RoundSteps, OutputsOf
  <2>3. RoundRight'
    <3>1. OutputsOf(round.crtc)' = OutputsOf(round.crtc)
      BY <1>1, <1>3 DEF OutputsOf
    <3>. QED
      BY <1>1, <1>3, <2>1, <3>1 DEF RoundRight, RoundSteps
  <2>4. ActiveRight'
    BY <1>1, <1>3, <2>1 DEF ActiveRight, RoundSteps
  <2>5. Awaiting' = Awaiting
    BY <1>1, <1>3 DEF Awaiting, RoundSteps
  <2>6. ASSUME NEW o \in card, Steady(o)'
        PROVE  Linked(o)' /\ crtcOf'[o] = Crtc'[o] /\ (o \in Active' => Powered(o)')
    <3>1. Steady(o)
      BY <1>1, <2>5, <2>6 DEF Steady
    <3>2. Linked(o) /\ crtcOf[o] = Crtc[o] /\ (o \in Active => Powered(o)) /\ o \in Outputs /\ EncoderID[o] # 0
      BY <1>2, <3>1 DEF RandrRight, EncoderTypes, Linked
    <3>3. o \notin round.todo
      BY <1>1, <2>2, <3>1 DEF Steady, Awaiting, RoundSteps, OutputsOf
    <3>4. Crtc'[o] = Crtc[o]
      BY <1>1, <3>2, <3>3
    <3>. QED
      BY <1>1, <1>4, <3>2, <3>3, <3>4, TendedStays
  <2>. QED
    BY <1>1, <1>3, <2>1, <2>3, <2>4, <2>6 DEF RandrRight
<1>. QED
  BY <1>6, <1>7, <1>8, <1>9, <1>10

LEMMA CrtcModeSetKeeps == ASSUME EncoderInv, CrtcModeSet PROVE EncoderInv'
<1>. USE DEF EncoderInv
<1>1. /\ round.at = "crtc"
      /\ Crtc' = [o \in Outputs |-> IF crtcOf[o] = round.crtc THEN round.crtc ELSE Crtc[o]]
      /\ round' = At("mode", round.todo)
      /\ UNCHANGED <<card, randr, EncoderID, DigEncoderOutput, Active, path, asleep, screen, store, console, crtcOf, spoiled>>
  BY DEF CrtcModeSet
<1>2. screen = "driver" /\ randr /\ round \in RoundRecords
  BY <1>1 DEF LinksKept, StaticRight, EncoderTypes
<1>3. /\ round' \in RoundRecords /\ round'.at = "mode" /\ round'.todo = round.todo /\ round'.crtc = round.crtc
      /\ round'.later = round.later /\ round'.before = round.before
  BY <1>1, <1>2 DEF At, RoundRecords, RoundSteps
<1>4. Crtc' \in CrtcMaps
  BY <1>1, <1>2 DEF EncoderTypes, CrtcMaps, RoundRecords
<1>5. EncoderTypes'
  BY <1>1, <1>3, <1>4 DEF EncoderTypes, RoundRecords
<1>6. Agreed'
  BY <1>1 DEF Agreed
<1>7. LinksKept'
  BY <1>1, <1>2, <1>3 DEF LinksKept, SavedLink
<1>8. StaticRight'
  BY <1>1, <1>2 DEF StaticRight
<1>9. RandrRight'
  <2>1. RoundRight /\ ActiveRight /\ screen # "dead" /\ ~asleep /\ card \subseteq Outputs
    BY <1>2 DEF RandrRight, EncoderTypes
  <2>2. round.todo = OutputsOf(round.crtc) /\ OutputsOf(round.crtc)' = OutputsOf(round.crtc)
    BY <1>1, <1>3, <2>1 DEF RoundRight, RoundSteps, OutputsOf
  <2>3. \A o \in card : o \in round.todo => Crtc'[o] = crtcOf[o]
    BY <1>1, <2>1, <2>2 DEF OutputsOf
  <2>4. RoundRight'
    BY <1>1, <1>3, <2>1, <2>2, <2>3 DEF RoundRight, RoundSteps, OutputsOf
  <2>5. ActiveRight'
    BY <1>1, <1>3, <2>1 DEF ActiveRight, RoundSteps
  <2>6. Awaiting' = Awaiting
    BY <1>1, <1>3 DEF Awaiting, RoundSteps
  <2>7. ASSUME NEW o \in card, Steady(o)'
        PROVE  Linked(o)' /\ crtcOf'[o] = Crtc'[o] /\ (o \in Active' => Powered(o)')
    <3>1. Steady(o)
      BY <1>1, <2>6, <2>7 DEF Steady
    <3>2. Linked(o) /\ crtcOf[o] = Crtc[o] /\ (o \in Active => Powered(o))
      BY <1>2, <3>1 DEF RandrRight
    <3>3. crtcOf[o] # round.crtc
      BY <1>1, <3>1 DEF Steady, Awaiting, RoundSteps
    <3>4. Crtc'[o] = Crtc[o]
      BY <1>1, <2>1, <3>3
    <3>. QED
      BY <1>1, <3>2, <3>4 DEF Linked, Powered
  <2>. QED
    BY <1>1, <1>3, <2>1, <2>4, <2>5, <2>7 DEF RandrRight
<1>. QED
  BY <1>5, <1>6, <1>7, <1>8, <1>9

LEMMA OutputModeKeeps == ASSUME EncoderInv, OutputMode PROVE EncoderInv'
<1>. USE DEF EncoderInv
<1>1. /\ round.at = "mode" /\ path' = ForEach(EncoderSet, round.todo, path)
      /\ round' = IF randr THEN At("commit", round.todo) ELSE At("unused", card \ Active)
      /\ UNCHANGED <<card, randr, EncoderID, DigEncoderOutput, Active, Crtc, asleep, screen, store, console, crtcOf, spoiled>>
  BY DEF OutputMode, driver
<1>2. screen = "driver" /\ round \in RoundRecords /\ card \subseteq Outputs /\ Active \subseteq card /\ path \in Paths
  BY <1>1 DEF LinksKept, EncoderTypes
<1>3. /\ round' \in RoundRecords /\ round'.at \in {"commit", "unused"}
      /\ randr => /\ round'.at = "commit" /\ round'.todo = round.todo /\ round'.crtc = round.crtc
                  /\ round'.later = round.later /\ round'.before = round.before
      /\ ~randr => round'.at = "unused" /\ round'.todo = card \ Active
  BY <1>1, <1>2 DEF At, RoundRecords, RoundSteps
<1>4. \A o \in round.todo : EncoderID[o] # 0
  BY <1>1, <1>2 DEF RandrRight, RoundRight, RoundSteps, StaticRight, EncoderTypes
<1>5. Steered(round.todo, path, path')
  BY <1>1, <1>2, <1>4, OutputsSteered
<1>6. /\ path' \in Paths
      /\ \A o \in Outputs : EncoderID[o] # 0 => o \in path'.known
      /\ \A q \in Outputs : EncoderID[q] # 0 /\ (q \in round.todo \/ Linked(q)) => Linked(q)'
      /\ \A q \in Outputs : EncoderID[q] # 0 /\ Powered(q) => Powered(q)'
  BY <1>1, <1>5, SteeredStays
<1>7. EncoderTypes'
  BY <1>1, <1>3, <1>6 DEF EncoderTypes, RoundRecords
<1>8. Agreed'
  BY <1>1, <1>6 DEF Agreed
<1>9. LinksKept'
  BY <1>1, <1>2, <1>3 DEF LinksKept, SavedLink
<1>10. StaticRight'
  <2>1. CASE ~randr
    <3>1. round.todo = Active /\ \A o \in Active : EncoderID[o] # 0
      BY <1>1, <2>1 DEF StaticRight
    <3>2. \A o \in Active : Linked(o)'
      BY <1>2, <1>6, <3>1
    <3>. QED
      BY <1>1, <1>2, <1>3, <2>1, <3>2 DEF StaticRight, Idle
  <2>2. CASE randr
    BY <1>1, <2>2 DEF StaticRight
  <2>. QED
    BY <2>1, <2>2
<1>11. RandrRight'
  <2>1. CASE randr
    <3>1. RoundRight /\ ActiveRight /\ screen # "dead" /\ ~asleep
      BY <1>2, <2>1 DEF RandrRight
    <3>2. OutputsOf(round'.crtc) = OutputsOf(round.crtc) /\ OutputsOf(round.crtc)' = OutputsOf(round.crtc)
      BY <1>1, <1>3, <2>1 DEF OutputsOf
    <3>3. \A o \in round.todo : Linked(o)' /\ Crtc'[o] = crtcOf'[o]
      <4>1. \A o \in round.todo : o \in Outputs
        BY <1>2 DEF RoundRecords
      <4>. QED
        BY <1>1, <1>4, <1>6, <3>1, <4>1 DEF RoundRight
    <3>4. RoundRight'
      BY <1>1, <1>3, <1>4, <2>1, <3>1, <3>2, <3>3 DEF RoundRight, RoundSteps
    <3>5. ActiveRight'
      BY <1>1, <1>3, <2>1, <3>1 DEF ActiveRight, RoundSteps
    <3>6. Awaiting' = Awaiting
      BY <1>1, <1>3, <2>1 DEF Awaiting, RoundSteps
    <3>7. ASSUME NEW o \in card, Steady(o)'
          PROVE  Linked(o)' /\ crtcOf'[o] = Crtc'[o] /\ (o \in Active' => Powered(o)')
      <4>1. Steady(o)
        BY <1>1, <3>6, <3>7 DEF Steady
      <4>2. Linked(o) /\ crtcOf[o] = Crtc[o] /\ (o \in Active => Powered(o)) /\ EncoderID[o] # 0 /\ o \in Outputs
        BY <1>2, <2>1, <4>1 DEF RandrRight, Linked
      <4>. QED
        BY <1>1, <1>6, <4>2
    <3>. QED
      BY <1>1, <1>3, <2>1, <3>1, <3>4, <3>5, <3>7 DEF RandrRight
  <2>2. CASE ~randr
    BY <1>1, <2>2 DEF RandrRight
  <2>. QED
    BY <2>1, <2>2
<1>. QED
  BY <1>7, <1>8, <1>9, <1>10, <1>11

LEMMA OutputCommitKeeps == ASSUME EncoderInv, OutputCommit PROVE EncoderInv'
<1>. USE DEF EncoderInv
<1>1. /\ round.at = "commit" /\ path' = OutputsPower(round.todo, "ON", path)
      /\ Active' = Active \union round.todo /\ round' = Rounds(round.later) /\ spoiled' = spoiled \ round.todo
      /\ UNCHANGED <<card, randr, EncoderID, DigEncoderOutput, Crtc, asleep, screen, store, console, crtcOf>>
  BY DEF OutputCommit
<1>2. screen = "driver" /\ randr /\ round \in RoundRecords /\ card \subseteq Outputs
  BY <1>1 DEF LinksKept, StaticRight, EncoderTypes
<1>3. round.todo \subseteq card /\ round.later \in SUBSET Crtcs
  BY <1>2 DEF RoundRecords
<1>4. RoundRight /\ ActiveRight /\ screen # "dead" /\ ~asleep
  BY <1>2 DEF RandrRight
<1>5. round.todo = OutputsOf(round.crtc) /\ (\A o \in round.todo : EncoderID[o] # 0 /\ Linked(o) /\ Crtc[o] = crtcOf[o])
        /\ round.crtc \in Crtcs
  BY <1>1, <1>4 DEF RoundRight, RoundSteps
<1>6. Tended(round.todo, path, path') /\ \A o \in round.todo : EncoderID[o] # 0 /\ o \in path.known => On(o, path')
  BY <1>1, <1>2, <1>3, OutputsTended DEF EncoderTypes
<1>7. round' \in RoundRecords /\ round'.at \in {"unused", "fixup"}
  BY <1>1, <1>3, RoundsRight
<1>8. EncoderTypes'
  BY <1>1, <1>3, <1>6, <1>7, TendedStays DEF EncoderTypes, RoundRecords
<1>9. Agreed'
  BY <1>1, <1>6, TendedStays DEF Agreed
<1>10. LinksKept'
  BY <1>1, <1>2, <1>7 DEF LinksKept, SavedLink
<1>11. StaticRight'
  BY <1>1, <1>2 DEF StaticRight
<1>12. RandrRight'
  <2>1. ASSUME NEW o \in Active', round.later # {}
        PROVE  crtcOf[o] # None
    <3>1. CASE o \in round.todo
      BY <1>5, <3>1 DEF OutputsOf, Crtcs, None
    <3>2. CASE o \in Active
      BY <1>1, <1>4, <2>1, <3>2 DEF ActiveRight, RoundSteps
    <3>. QED
      BY <1>1, <2>1, <3>1, <3>2
  <2>2. RoundRight' /\ ActiveRight' /\ Awaiting' = {o \in card : crtcOf[o] \in round.later}
    BY <1>1, <1>3, <2>1, RoundsBegin
  <2>3. ASSUME NEW o \in card, Steady(o)'
        PROVE  Linked(o)' /\ crtcOf'[o] = Crtc'[o] /\ (o \in Active' => Powered(o)')
    <3>1. crtcOf[o] # None /\ crtcOf[o] \notin round.later /\ o \notin spoiled \ round.todo /\ o \in Outputs
      BY <1>1, <1>2, <2>2, <2>3 DEF Steady
    <3>2. CASE o \in round.todo
      <4>1. On(o, path') /\ Linked(o) /\ Crtc[o] = crtcOf[o]
        BY <1>5, <1>6, <3>1, <3>2 DEF Agreed
      <4>2. Linked(o)'
        BY <1>1, <1>6, <3>1, <4>1, TendedStays
      <4>3. Powered(o)'
        BY <1>1, <4>1 DEF Powered, On
      <4>. QED
        BY <1>1, <4>1, <4>2, <4>3
    <3>3. CASE o \notin round.todo
      <4>1. Steady(o)
        BY <1>1, <1>5, <3>1, <3>3 DEF Steady, Awaiting, RoundSteps, OutputsOf
      <4>2. Linked(o) /\ crtcOf[o] = Crtc[o] /\ (o \in Active => Powered(o)) /\ EncoderID[o] # 0
        BY <1>2, <4>1 DEF RandrRight, Linked
      <4>3. Linked(o)' /\ (Powered(o) => Powered(o)')
        BY <1>1, <1>6, <3>1, <3>3, <4>2, TendedStays
      <4>. QED
        BY <1>1, <3>3, <4>2, <4>3
    <3>. QED
      BY <3>2, <3>3
  <2>. QED
    BY <1>1, <1>4, <1>7, <2>2, <2>3 DEF RandrRight
<1>. QED
  BY <1>8, <1>9, <1>10, <1>11, <1>12

LEMMA DisableUnusedKeeps == ASSUME EncoderInv, DisableUnused PROVE EncoderInv'
<1>. USE DEF EncoderInv
<1>. DEFINE off == OutputsPower(round.todo, "SHUTDOWN", path)
<1>1. /\ round.at = "unused" /\ path' = IF randr THEN off ELSE OutputsPower(Active, "ON", off)
      /\ Active' = IF randr THEN Active \ round.todo ELSE Active
      /\ asleep' = FALSE /\ spoiled' = spoiled \ round.todo /\ round' = Idle
      /\ UNCHANGED <<card, randr, EncoderID, DigEncoderOutput, Crtc, screen, store, console, crtcOf>>
  BY DEF DisableUnused
<1>2. screen = "driver" /\ round \in RoundRecords /\ card \subseteq Outputs /\ Active \subseteq card /\ path \in Paths
  BY <1>1 DEF LinksKept, EncoderTypes
<1>3. Idle \in RoundRecords /\ Idle.at = "idle"
  BY DEF Idle, RoundRecords, MaybeCrtc, CrtcMaps
<1>4. Tended(round.todo, path, off) /\ off \in Paths /\ path.known \subseteq off.known
  BY <1>2, OutputsTended DEF Tended
<1>. HIDE DEF off
<1>5. Tended(card, path, path')
  <2>1. CASE randr
    BY <1>1, <1>2, <1>4, <2>1 DEF Tended, RoundRecords
  <2>2. CASE ~randr
    <3>1. Tended(Active, off, OutputsPower(Active, "ON", off))
      BY <1>4, OutputsTended
    <3>. QED
      BY <1>1, <1>2, <1>4, <2>2, <3>1 DEF Tended, RoundRecords
  <2>. QED
    BY <2>1, <2>2
<1>6. path' \in Paths /\ (\A o \in Outputs : EncoderID[o] # 0 => o \in path'.known)
        /\ \A q \in Outputs : Linked(q) => Linked(q)'
  BY <1>1, <1>5, TendedStays DEF EncoderTypes
<1>7. EncoderTypes'
  BY <1>1, <1>2, <1>3, <1>6 DEF EncoderTypes, RoundRecords
<1>8. Agreed'
  BY <1>1, <1>6 DEF Agreed
<1>9. LinksKept'
  BY <1>1, <1>2, <1>3 DEF LinksKept, SavedLink
<1>10. StaticRight'
  <2>1. CASE ~randr
    <3>1. spoiled = {} /\ (\A o \in Active : EncoderID[o] # 0) /\ \A o \in Active : Linked(o)
      BY <1>1, <2>1 DEF StaticRight
    <3>2. \A o \in Active : o \in off.known
      BY <1>2, <1>4, <3>1 DEF Agreed
    <3>3. \A o \in Active : On(o, OutputsPower(Active, "ON", off))
      BY <1>2, <1>4, <3>1, <3>2, OutputsTended
    <3>4. \A o \in Active : Linked(o)' /\ Powered(o)'
      BY <1>1, <1>2, <1>6, <2>1, <3>1, <3>3 DEF Powered, On
    <3>. QED
      BY <1>1, <1>2, <1>3, <2>1, <3>1, <3>4 DEF StaticRight
  <2>2. CASE randr
    BY <1>1, <2>2 DEF StaticRight
  <2>. QED
    BY <2>1, <2>2
<1>11. RandrRight'
  <2>1. CASE randr
    <3>1. RoundRight /\ ActiveRight /\ ~asleep
      BY <1>2, <2>1 DEF RandrRight
    <3>2. round.todo = {o \in card : crtcOf[o] = None}
      BY <1>1, <3>1 DEF RoundRight
    <3>3. RoundRight'
      BY <1>1, <1>3 DEF RoundRight, RoundSteps
    <3>4. ActiveRight'
      BY <1>1, <1>2, <1>3, <2>1, <3>2 DEF ActiveRight, RoundSteps
    <3>5. ASSUME NEW o \in card, Steady(o)'
          PROVE  Linked(o)' /\ crtcOf'[o] = Crtc'[o] /\ (o \in Active' => Powered(o)')
      <4>1. crtcOf[o] # None /\ o \notin spoiled /\ o \notin round.todo /\ o \in Outputs
        BY <1>1, <1>2, <3>2, <3>5 DEF Steady
      <4>2. Steady(o)
        BY <1>1, <4>1 DEF Steady, Awaiting, RoundSteps
      <4>3. Linked(o) /\ crtcOf[o] = Crtc[o] /\ (o \in Active => Powered(o)) /\ EncoderID[o] # 0
        BY <1>2, <2>1, <4>2 DEF RandrRight, Linked
      <4>4. Powered(o) => Powered(o)'
        BY <1>1, <1>4, <2>1, <4>1, <4>3, TendedStays
      <4>. QED
        BY <1>1, <1>6, <2>1, <4>1, <4>3, <4>4
    <3>. QED
      BY <1>1, <1>3, <3>3, <3>4, <3>5 DEF RandrRight
  <2>2. CASE ~randr
    BY <1>1, <2>2 DEF RandrRight
  <2>. QED
    BY <2>1, <2>2
<1>. QED
  BY <1>7, <1>8, <1>9, <1>10, <1>11

LEMMA OutputDpmsKeeps ==
  ASSUME EncoderInv, NEW p \in {"ON", "RESET", "SHUTDOWN"}, OutputDpms(p) PROVE EncoderInv'
<1>. USE DEF EncoderInv
<1>. DEFINE os == {o \in card : crtcOf[o] # None}
<1>1. /\ screen = "driver" /\ round = Idle /\ randr /\ path' = OutputsPower(os, p, path)
      /\ Active' = IF p = "ON" THEN Active \union os ELSE Active \ os
      /\ screen' = IF p = "ON" /\ \E o \in os : Crtc[o] # crtcOf[o] THEN "dead" ELSE screen
      /\ UNCHANGED <<card, randr, EncoderID, DigEncoderOutput, Crtc, asleep, store, console, crtcOf, round, spoiled>>
  BY DEF OutputDpms
<1>2. card \subseteq Outputs /\ Active \subseteq card /\ path \in Paths /\ Idle.at = "idle"
  BY DEF EncoderTypes, Idle
<1>3. Tended(os, path, path') /\ \A o \in os : p = "ON" /\ EncoderID[o] # 0 /\ o \in path.known => On(o, path')
  BY <1>1, <1>2, OutputsTended
<1>4. path' \in Paths /\ (\A o \in Outputs : EncoderID[o] # 0 => o \in path'.known)
        /\ \A q \in Outputs : Linked(q) => Linked(q)'
  BY <1>1, <1>3, TendedStays DEF EncoderTypes
<1>5. EncoderTypes'
  BY <1>1, <1>4 DEF EncoderTypes, RoundRecords
<1>6. Agreed'
  BY <1>1, <1>4 DEF Agreed
<1>7. LinksKept'
  BY <1>1, <1>2 DEF LinksKept, SavedLink
<1>8. StaticRight'
  BY <1>1 DEF StaticRight
<1>9. RandrRight'
  <2>1. RoundRight /\ ActiveRight /\ ~asleep
    BY <1>1 DEF RandrRight
  <2>2. RoundRight'
    BY <1>1, <1>2 DEF RoundRight, RoundSteps
  <2>3. ActiveRight'
    BY <1>1, <1>2, <2>1 DEF ActiveRight, RoundSteps
  <2>4. ASSUME NEW o \in card, Steady(o)'
        PROVE  Linked(o)' /\ crtcOf'[o] = Crtc'[o] /\ (o \in Active' => Powered(o)')
    <3>1. o \in os /\ o \in Outputs /\ Steady(o)
      BY <1>1, <1>2, <2>4 DEF Steady, Awaiting, RoundSteps
    <3>2. Linked(o) /\ crtcOf[o] = Crtc[o] /\ EncoderID[o] # 0 /\ o \in path.known
      BY <1>1, <3>1 DEF RandrRight, Linked, Agreed
    <3>3. o \in Active' => On(o, path')
      BY <1>1, <1>3, <3>1, <3>2
    <3>. QED
      BY <1>1, <1>4, <3>1, <3>2, <3>3 DEF Powered, On
  <2>. QED
    BY <1>1, <1>2, <2>1, <2>2, <2>3, <2>4 DEF RandrRight
<1>. QED
  BY <1>5, <1>6, <1>7, <1>8, <1>9

LEMMA PowerManagementKeeps ==
  ASSUME EncoderInv, NEW on \in BOOLEAN, DisplayPowerManagementSet(on) PROVE EncoderInv'
<1>. USE DEF EncoderInv
<1>. DEFINE p == IF on THEN "ON" ELSE "RESET"
<1>1. /\ screen = "driver" /\ round = Idle /\ ~randr /\ path' = OutputsPower(Active, p, path) /\ asleep' = ~on
      /\ UNCHANGED <<card, randr, EncoderID, DigEncoderOutput, Active, Crtc, screen, store, console, crtcOf, round, spoiled>>
  BY DEF DisplayPowerManagementSet
<1>2. card \subseteq Outputs /\ Active \subseteq card /\ path \in Paths /\ Idle.at = "idle"
  BY DEF EncoderTypes, Idle
<1>3. Tended(Active, path, path') /\ \A o \in Active : p = "ON" /\ EncoderID[o] # 0 /\ o \in path.known => On(o, path')
  BY <1>1, <1>2, OutputsTended
<1>4. path' \in Paths /\ (\A o \in Outputs : EncoderID[o] # 0 => o \in path'.known)
        /\ \A q \in Outputs : Linked(q) => Linked(q)'
  BY <1>1, <1>3, TendedStays DEF EncoderTypes
<1>5. EncoderTypes'
  BY <1>1, <1>4 DEF EncoderTypes, RoundRecords
<1>6. Agreed'
  BY <1>1, <1>4 DEF Agreed
<1>7. LinksKept'
  BY <1>1, <1>2 DEF LinksKept, SavedLink
<1>8. StaticRight'
  <2>1. spoiled = {} /\ \A o \in Active : EncoderID[o] # 0 /\ Linked(o) /\ o \in path.known /\ o \in Outputs
    BY <1>1, <1>2 DEF StaticRight, Agreed
  <2>2. \A o \in Active : Linked(o)' /\ (~asleep' => Powered(o)')
    BY <1>1, <1>3, <1>4, <2>1 DEF Powered, On
  <2>. QED
    BY <1>1, <1>2, <2>1, <2>2 DEF StaticRight
<1>9. RandrRight'
  BY <1>1 DEF RandrRight
<1>. QED
  BY <1>5, <1>6, <1>7, <1>8, <1>9

LEMMA OutputModeFixupKeeps ==
  ASSUME EncoderInv, NEW o \in Outputs, NEW valid \in BOOLEAN, OutputModeFixup(o, valid) PROVE EncoderInv'
<1>. USE DEF EncoderInv
<1>. DEFINE free == [e \in Encoders |-> IF DigEncoderOutput[e] \in Freed THEN None ELSE DigEncoderOutput[e]]
            a == Allocated(o, free)
            freed == [p \in Outputs |-> IF p \in Freed THEN 0 ELSE EncoderID[p]]
<1>1. /\ round.at = "fixup" /\ o \in round.todo
      /\ EncoderID' = IF a = 0 THEN freed ELSE [freed EXCEPT ![o] = a]
      /\ DigEncoderOutput' = IF a = 0 THEN free ELSE [free EXCEPT ![a] = o]
      /\ path' = IF a = 0 THEN path ELSE [path EXCEPT !.known = @ \union {o}]
      /\ UNCHANGED <<card, randr, Active, Crtc, asleep, screen, store, console>>
  BY DEF OutputModeFixup
<1>2. \/ /\ a # 0 /\ UNCHANGED <<crtcOf, spoiled>>
         /\ round' = IF Done(o) = {} THEN At("prepare", OutputsOf(round.crtc)) ELSE At("fixup", Done(o))
      \/ /\ round' = Idle /\ crtcOf' = round.before
         /\ spoiled' = spoiled \union {p \in card : crtcOf'[p] # None /\ (EncoderID'[p] = 0 \/ ~Driven(p))}
  BY DEF OutputModeFixup
<1>3. screen = "driver" /\ randr /\ round \in RoundRecords /\ card \subseteq Outputs /\ path \in Paths
  BY <1>1 DEF LinksKept, StaticRight, EncoderTypes
<1>4. RoundRight /\ ActiveRight /\ ~asleep
  BY <1>3 DEF RandrRight
<1>5. round.crtc \in Crtcs \ round.later /\ o \in OutputsOf(round.crtc) /\ crtcOf[o] = round.crtc /\ crtcOf[o] # None
  <2>1. round.crtc \in Crtcs \ round.later /\ o \in OutputsOf(round.crtc)
    BY <1>1, <1>4 DEF RoundRight
  <2>. QED
    BY <2>1 DEF OutputsOf, Crtcs, None
<1>6. /\ freed \in [Outputs -> {0, 1, 2}] /\ free \in [Encoders -> Outputs \union {None}]
      /\ \A e \in Encoders, p \in Outputs : freed[p] = e <=> free[e] = p
      /\ freed["LVTMA"] # 1 /\ freed[o] = EncoderID[o] /\ (\A p \in Outputs : crtcOf[p] # None => freed[p] = EncoderID[p])
  <2>1. \A p \in Outputs : p # None
    BY DEF Outputs, None
  <2>2. 0 \notin Encoders /\ "LVTMA" \in Outputs
    BY DEF Encoders, Outputs
  <2>3. o \notin Freed /\ \A p \in Outputs : crtcOf[p] # None => p \notin Freed
    BY <1>5 DEF Freed
  <2>. QED
    BY <2>1, <2>2, <2>3 DEF EncoderTypes, Agreed
<1>7. a # 0 => /\ [freed EXCEPT ![o] = a] \in [Outputs -> {0, 1, 2}]
               /\ [free EXCEPT ![a] = o] \in [Encoders -> Outputs \union {None}]
               /\ \A e \in Encoders, p \in Outputs : [freed EXCEPT ![o] = a][p] = e <=> [free EXCEPT ![a] = o][e] = p
               /\ [freed EXCEPT ![o] = a]["LVTMA"] # 1
  <2>. HIDE DEF free, freed
  <2>. QED
    BY <1>6, AllocatedRight
<1>8. a # 0 /\ EncoderID[o] # 0 => a = EncoderID[o]
  BY DEF Allocated
<1>. HIDE DEF free, freed, a
<1>9. /\ EncoderID' \in [Outputs -> {0, 1, 2}] /\ DigEncoderOutput' \in [Encoders -> Outputs \union {None}]
      /\ \A e \in Encoders, p \in Outputs : EncoderID'[p] = e <=> DigEncoderOutput'[e] = p
      /\ EncoderID'["LVTMA"] # 1
  <2>1. CASE a = 0
    BY <1>1, <1>6, <2>1
  <2>2. CASE a # 0
    BY <1>1, <1>7, <2>2
  <2>. QED
    BY <2>1, <2>2
<1>10. \A p \in Outputs : crtcOf[p] # None /\ EncoderID[p] # 0 => EncoderID'[p] = EncoderID[p]
  <2>1. CASE a = 0
    BY <1>1, <1>6, <2>1
  <2>2. CASE a # 0
    BY <1>1, <1>6, <1>8, <2>2
  <2>. QED
    BY <2>1, <2>2
<1>11. a # 0 => EncoderID'[o] = a
  BY <1>1, <1>6
<1>12. /\ path' \in Paths /\ path'.swap = path.swap /\ path'.dig = path.dig /\ path'.lit = path.lit
       /\ path.known \subseteq path'.known /\ (a # 0 => o \in path'.known)
  BY <1>1, <1>3 DEF Paths
<1>13. \A p \in Outputs : EncoderID'[p] # 0 => EncoderID[p] # 0 \/ (p = o /\ a # 0)
  BY <1>1, <1>6 DEF freed
<1>14. ASSUME NEW q \in Outputs, crtcOf[q] # None, EncoderID[q] # 0
       PROVE  (Linked(q) => Linked(q)') /\ (Powered(q) => Powered(q)')
  <2>1. EncoderID'[q] = EncoderID[q]
    BY <1>10, <1>14
  <2>2. digProbeEncoder(q, path') = digProbeEncoder(q, path)
    BY <1>12, ProbeValues DEF Outputs
  <2>. QED
    BY <1>1, <1>12, <2>1, <2>2 DEF Linked, Powered
<1>15. Agreed'
  BY <1>9, <1>12, <1>13 DEF Agreed
<1>16. CASE a # 0 /\ UNCHANGED <<crtcOf, spoiled>>
            /\ round' = IF Done(o) = {} THEN At("prepare", OutputsOf(round.crtc)) ELSE At("fixup", Done(o))
  <2>1. OutputsOf(round.crtc) \in SUBSET card
    BY DEF OutputsOf
  <2>2. /\ round' \in RoundRecords /\ round'.crtc = round.crtc /\ round'.later = round.later /\ round'.before = round.before
        /\ (Done(o) = {} => round'.at = "prepare" /\ round'.todo = OutputsOf(round.crtc))
        /\ (Done(o) # {} => round'.at = "fixup" /\ round'.todo = round.todo \ {o})
    BY <1>3, <1>16, <2>1 DEF At, Done, RoundRecords, RoundSteps
  <2>3. EncoderTypes'
    BY <1>1, <1>9, <1>12, <1>16, <2>2 DEF EncoderTypes, RoundRecords
  <2>4. LinksKept'
    BY <1>1, <1>3, <2>2 DEF LinksKept, SavedLink
  <2>5. StaticRight'
    BY <1>1, <1>3 DEF StaticRight
  <2>6. OutputsOf(round.crtc)' = OutputsOf(round.crtc)
    BY <1>1, <1>16, <2>2 DEF OutputsOf
  <2>7. \A q \in OutputsOf(round.crtc) : q \notin round.todo \/ q = o => EncoderID'[q] # 0
    <3>1. ASSUME NEW q \in OutputsOf(round.crtc), q \notin round.todo
          PROVE  EncoderID'[q] # 0
      <4>1. EncoderID[q] # 0 /\ crtcOf[q] # None /\ q \in Outputs
        BY <1>1, <1>3, <1>4, <1>5, <3>1 DEF RoundRight, OutputsOf
      <4>. QED
        BY <1>10, <4>1
    <3>. QED
      BY <1>11, <1>16, <3>1
  <2>8. RoundRight'
    <3>1. CASE Done(o) = {}
      BY <1>5, <2>2, <2>6, <2>7, <3>1 DEF RoundRight, RoundSteps, Done
    <3>2. CASE Done(o) # {}
      <4>1. \A q \in card \ spoiled : round.before[q] # None /\ crtcOf[q] = Crtc[q] => round.before[q] = Crtc[q]
        BY <1>1, <1>4 DEF RoundRight
      <4>2. round.todo \subseteq OutputsOf(round.crtc)
        BY <1>1, <1>4 DEF RoundRight
      <4>. QED
        BY <1>1, <1>5, <1>16, <2>2, <2>6, <2>7, <3>2, <4>1, <4>2 DEF RoundRight, RoundSteps
    <3>. QED
      BY <3>1, <3>2
  <2>9. ActiveRight'
    BY <1>1, <1>4, <1>16, <2>2 DEF ActiveRight, RoundSteps
  <2>10. Awaiting' = Awaiting
    BY <1>1, <1>16, <2>2 DEF Awaiting, RoundSteps
  <2>11. ASSUME NEW q \in card, Steady(q)'
         PROVE  Linked(q)' /\ crtcOf'[q] = Crtc'[q] /\ (q \in Active' => Powered(q)')
    <3>1. Steady(q)
      BY <1>1, <1>16, <2>10, <2>11 DEF Steady
    <3>2. Linked(q) /\ crtcOf[q] = Crtc[q] /\ (q \in Active => Powered(q)) /\ EncoderID[q] # 0 /\ q \in Outputs
            /\ crtcOf[q] # None
      BY <1>3, <3>1 DEF RandrRight, Linked, Steady
    <3>. QED
      BY <1>1, <1>14, <1>16, <3>2
  <2>12. RandrRight'
    BY <1>1, <1>4, <2>2, <2>8, <2>9, <2>11 DEF RandrRight
  <2>. QED
    BY <1>15, <2>3, <2>4, <2>5, <2>12
<1>17. CASE round' = Idle /\ crtcOf' = round.before
            /\ spoiled' = spoiled \union {p \in card : crtcOf'[p] # None /\ (EncoderID'[p] = 0 \/ ~Driven(p))}
  <2>1. Idle \in RoundRecords /\ Idle.at = "idle"
    BY DEF Idle, RoundRecords, MaybeCrtc, CrtcMaps
  <2>2. crtcOf' \in CrtcMaps /\ (\A p \in Outputs : crtcOf'[p] # None => p \in card) /\ spoiled' \in SUBSET card
    BY <1>1, <1>3, <1>4, <1>17 DEF ActiveRight, RoundRecords, EncoderTypes
  <2>3. EncoderTypes'
    BY <1>1, <1>9, <1>12, <1>17, <2>1, <2>2 DEF EncoderTypes, RoundRecords
  <2>4. LinksKept'
    BY <1>1, <1>3, <1>17, <2>1 DEF LinksKept, SavedLink
  <2>5. StaticRight'
    BY <1>1, <1>3 DEF StaticRight
  <2>6. RoundRight'
    BY <1>17, <2>1 DEF RoundRight, RoundSteps
  <2>7. ActiveRight'
    BY <1>1, <1>4, <1>17, <2>1 DEF ActiveRight, RoundSteps
  <2>8. ASSUME NEW q \in card, Steady(q)'
        PROVE  Linked(q)' /\ crtcOf'[q] = Crtc'[q] /\ (q \in Active' => Powered(q)')
    <3>1. q \notin spoiled /\ round.before[q] # None /\ EncoderID'[q] # 0 /\ Driven(q) /\ q \in Outputs
      BY <1>1, <1>3, <1>17, <2>8 DEF Steady
    <3>2. Linked(q) /\ Powered(q) /\ crtcOf[q] = Crtc[q] /\ EncoderID[q] # 0
      BY <1>3, <3>1 DEF Driven, Linked, Powered
    <3>3. round.before[q] = Crtc[q]
      BY <1>1, <1>4, <3>1, <3>2 DEF RoundRight
    <3>. QED
      BY <1>1, <1>14, <1>17, <3>1, <3>2, <3>3
  <2>9. RandrRight'
    BY <1>1, <1>4, <1>17, <2>1, <2>6, <2>7, <2>8 DEF RandrRight
  <2>. QED
    BY <1>15, <2>3, <2>4, <2>5, <2>9
<1>. QED
  BY <1>2, <1>16, <1>17

-----------------------------------------------------------------------------
LEMMA EncoderNextKeeps == EncoderInv /\ [EncoderNext]_encoderVars => EncoderInv'
<1>. SUFFICES ASSUME EncoderInv, [EncoderNext]_encoderVars PROVE EncoderInv'
  OBVIOUS
<1>1. CASE LayoutSelect
  BY <1>1, LayoutSelectKeeps
<1>2. CASE \E o \in Outputs : Layout(o)
  BY <1>2, LayoutKeeps
<1>3. CASE InitialConfiguration
  BY <1>3, InitialConfigurationKeeps
<1>4. CASE EnterVT
  BY <1>4, EnterVTKeeps
<1>5. CASE LeaveVT
  BY <1>5, LeaveVTKeeps
<1>6. CASE ConsoleSets
  BY <1>6, ConsoleSetsKeeps
<1>7. CASE SwitchMode
  BY <1>7, SwitchModeKeeps
<1>8. CASE \E c \in Crtcs, os \in SUBSET card : CrtcSet(c, os)
  BY <1>8, CrtcSetKeeps
<1>9. CASE \E o \in Outputs, valid \in BOOLEAN : OutputModeFixup(o, valid)
  BY <1>9, OutputModeFixupKeeps
<1>10. CASE OutputPrepare
  BY <1>10, OutputPrepareKeeps
<1>11. CASE CrtcModeSet
  BY <1>11, CrtcModeSetKeeps
<1>12. CASE OutputMode
  BY <1>12, OutputModeKeeps
<1>13. CASE OutputCommit
  BY <1>13, OutputCommitKeeps
<1>14. CASE DisableUnused
  BY <1>14, DisableUnusedKeeps
<1>15. CASE \E p \in {"ON", "RESET", "SHUTDOWN"} : OutputDpms(p)
  BY <1>15, OutputDpmsKeeps
<1>16. CASE \E on \in BOOLEAN : DisplayPowerManagementSet(on)
  BY <1>16, PowerManagementKeeps
<1>17. CASE UNCHANGED encoderVars
  <2>1. UNCHANGED <<card, randr, EncoderID, DigEncoderOutput, Active, Crtc, path, asleep, screen,
                    store, console, crtcOf, round, calls, spoiled>>
    BY <1>17 DEF encoderVars
  <2>2. EncoderTypes'
    BY <2>1 DEF EncoderInv, EncoderTypes, RoundRecords
  <2>3. Agreed' /\ LinksKept'
    BY <2>1 DEF EncoderInv, Agreed, LinksKept, SameLinks, SavedLink
  <2>4. StaticRight'
    BY <2>1 DEF EncoderInv, StaticRight, Linked, Powered
  <2>5. RandrRight'
    <3>1. (RoundRight' <=> RoundRight) /\ (ActiveRight' <=> ActiveRight)
      BY <2>1 DEF RoundRight, ActiveRight, OutputsOf, Linked
    <3>2. \A o \in card : (Steady(o)' <=> Steady(o)) /\ (Linked(o)' <=> Linked(o)) /\ (Powered(o)' <=> Powered(o))
      BY <2>1 DEF Steady, Awaiting, Linked, Powered
    <3>. QED
      BY <2>1, <3>1, <3>2 DEF EncoderInv, RandrRight
  <2>. QED
    BY <2>2, <2>3, <2>4, <2>5 DEF EncoderInv
<1>. QED
  BY <1>1, <1>2, <1>3, <1>4, <1>5, <1>6, <1>7, <1>8, <1>9, <1>10, <1>11, <1>12, <1>13, <1>14, <1>15,
     <1>16, <1>17 DEF EncoderNext

\* The invariant holds of every card, with or without RandR, for any number of
\* calls from outside.
THEOREM EncodersHold == EncoderSpec => []EncoderInv
<1>1. EncoderInit => EncoderInv
  BY EncoderInitRight
<1>2. EncoderInv /\ [EncoderNext]_encoderVars => EncoderInv'
  BY EncoderNextKeeps
<1>. QED
  BY <1>1, <1>2, PTL DEF EncoderSpec

\* Whatever outputs the card has, whoever drives them and however many calls
\* there are: what is active is seen, but for what a refused mode spoiled, and
\* the outputs and the encoders agree about who has whom.
THEOREM OutputsSeen == EncoderSpec => []LitOutputsDriven
<1>1. EncoderInv => LitOutputsDriven
  <2>. SUFFICES ASSUME EncoderInv PROVE LitOutputsDriven
    OBVIOUS
  <2>. USE DEF EncoderInv
  <2>1. \A e \in Encoders, o \in Outputs : EncoderID[o] = e <=> DigEncoderOutput[e] = o
    BY DEF Agreed
  <2>2. ASSUME Settled, NEW o \in Active \ spoiled
        PROVE  Driven(o)
    <3>1. screen = "driver" /\ round = Idle /\ ~asleep /\ Idle.at = "idle" /\ o \in card
      BY <2>2 DEF Settled, Idle, EncoderTypes
    <3>2. CASE randr
      <4>1. Steady(o)
        BY <2>2, <3>1, <3>2 DEF RandrRight, ActiveRight, Steady, Awaiting, RoundSteps
      <4>. QED
        BY <2>2, <3>1, <3>2, <4>1 DEF RandrRight, Linked, Powered, Driven
    <3>3. CASE ~randr
      BY <2>2, <3>1, <3>3 DEF StaticRight, Linked, Powered, Driven
    <3>. QED
      BY <3>2, <3>3
  <2>. QED
    BY <2>1, <2>2 DEF LitOutputsDriven
<1>. QED
  BY <1>1, EncodersHold, PTL

\* The console finds the links and the encoders of the outputs as it left them.
THEOREM LinksBack == EncoderSpec => []ConsoleLinksBack
<1>1. EncoderInv => ConsoleLinksBack
  BY DEF EncoderInv, LinksKept, SameLinks, ConsoleLinksBack
<1>. QED
  BY <1>1, EncodersHold, PTL
=============================================================================
