----------------------- MODULE PowerManagement_proofs -----------------------
(***************************************************************************)
(* Software always hands the R5xx's I2C engine back; a read that succeeds   *)
(* returns what the monitor holds; and the engine clock stays in the range  *)
(* that is safe and comes back to the console: whatever the sizes of        *)
(* buffers and reads, the lines, the BIOS, the options and the clocks are.  *)
(***************************************************************************)
EXTENDS PowerManagement, SequenceTheorems, WellFoundedInduction, TLAPS

-----------------------------------------------------------------------------
\* A call is a record with the fields of NoCall.
IsCall(c) == c = [f \in DOMAIN NoCall |-> c[f]]

\* Nothing of the engine is claimed.
Rest == ~wants /\ owner # "software" /\ control = Untouched

\* EngineHandedBack is not inductive: what a chunk puts back is what it saved, so that must have been the
\* console's, and a later chunk starts from where the one before it left.  Other engines claim nothing.
Claims ==
  /\ IsCall(call)
  /\ gen # "r5xx" => Rest
  /\ call.pc \in {"none", "done", "begin"} => Rest
  /\ gen = "r5xx" /\ call.pc \notin {"none", "done", "begin"} => call.saved = Untouched
  /\ gen = "r5xx" /\ call.pc = "restore" => ~wants /\ owner # "software"

LEMMA ClaimsInit == Init => Claims
  BY DEF Init, I2CInit, Claims, IsCall, Rest, NoCall, Untouched

LEMMA TransferKeeps ==
  ASSUME NEW c, IsCall(c), NEW from, NEW size
  PROVE  IsCall(Transfer(c, from, size)) /\ Transfer(c, from, size).pc = "begin"
  BY DEF IsCall, Transfer, NoCall

LEMMA R5xxKeeps == Claims /\ R5xx => Claims'
  <1>. SUFFICES ASSUME Claims, R5xx PROVE Claims'
    OBVIOUS
  <1>. USE DEF Claims, IsCall, NoCall, Rest
  <1>1. CASE R5xxAsk
    BY <1>1 DEF R5xxAsk
  <1>2. CASE R5xxTake
    BY <1>2 DEF R5xxTake
  <1>3. CASE R5xxRefused
    BY <1>3 DEF R5xxRefused, Failed
  <1>4. CASE R5xxWrite
    BY <1>4 DEF R5xxWrite
  <1>5. CASE R5xxWrote
    BY <1>5 DEF R5xxWrote
  <1>6. CASE R5xxRead
    BY <1>6 DEF R5xxRead
  <1>7. CASE R5xxFails
    BY <1>7 DEF R5xxFails, Failed
  <1>8. CASE R5xxExit
    BY <1>8 DEF R5xxExit
  <1>9. CASE R5xxRestore
    BY <1>9 DEF R5xxRestore
  <1>. QED BY <1>1, <1>2, <1>3, <1>4, <1>5, <1>6, <1>7, <1>8, <1>9 DEF R5xx

LEMMA OthersKeep == Claims /\ (R6xx \/ RV620) => Claims'
  <1>. SUFFICES ASSUME Claims, R6xx \/ RV620 PROVE Claims'
    OBVIOUS
  <1>. USE DEF Claims, IsCall, NoCall, Rest
  <1>1. CASE R6xxGo
    BY <1>1 DEF R6xxGo
  <1>2. CASE R6xxEnd
    BY <1>2 DEF R6xxEnd, Failed
  <1>3. CASE RV620Setup
    BY <1>3 DEF RV620Setup
  <1>4. CASE RV620Write
    BY <1>4 DEF RV620Write
  <1>5. CASE RV620Wrote
    BY <1>5 DEF RV620Wrote
  <1>6. CASE RV620Read
    BY <1>6 DEF RV620Read
  <1>7. CASE RV620Fetch
    BY <1>7 DEF RV620Fetch
  <1>8. CASE RV620Fails
    BY <1>8 DEF RV620Fails, Failed
  <1>. QED BY <1>1, <1>2, <1>3, <1>4, <1>5, <1>6, <1>7, <1>8 DEF R6xx, RV620

LEMMA CardKeeps ==
  Claims /\ (Answer \/ NoAnswer \/ Grant \/ HardwareUses \/ HardwareDone \/ Unplug \/ Plug) => Claims'
  <1>. USE DEF Claims, IsCall, Rest
  <1>1. Claims /\ Answer => Claims'
    BY DEF Answer
  <1>2. Claims /\ NoAnswer => Claims'
    BY DEF NoAnswer
  <1>3. Claims /\ Grant => Claims'
    BY DEF Grant
  <1>4. Claims /\ (HardwareUses \/ HardwareDone) => Claims'
    BY DEF HardwareUses, HardwareDone
  <1>5. Claims /\ (Unplug \/ Plug) => Claims'
    BY DEF Unplug, Plug
  <1>. QED BY <1>1, <1>2, <1>3, <1>4, <1>5

LEMMA CallsKeep == Claims /\ (Call \/ Return) => Claims'
  <1>. SUFFICES ASSUME Claims, Call \/ Return PROVE Claims'
    OBVIOUS
  <1>1. CASE Call
    <2>1. IsCall(call') /\ call'.pc = "begin"
      <3>1. CASE call' = [Transfer(call, 0, 0) EXCEPT !.what = "probe"]
        BY <3>1, TransferKeeps DEF Claims, IsCall, NoCall
      <3>2. ASSUME NEW r \in Reads, call' = [Transfer(call, r[1], r[2]) EXCEPT !.what = "read"]
            PROVE  IsCall(call') /\ call'.pc = "begin"
        BY <3>2, TransferKeeps DEF Claims, IsCall, NoCall
      <3>. QED BY <1>1, <3>1, <3>2 DEF Call
    <2>. QED BY <1>1, <2>1 DEF Call, Claims, Rest
  <1>2. CASE Return
    <2>1. IsCall(call') /\ call'.pc \in {"begin", "none"}
      <3>1. CASE call' = NoCall
        BY <3>1 DEF IsCall, NoCall
      <3>2. CASE call' = [Transfer(call, 0, Len(Header)) EXCEPT !.what = "header"]
        BY <3>2, TransferKeeps DEF Claims, IsCall, NoCall
      <3>. QED BY <1>2, <3>1, <3>2 DEF Return
    <2>. QED BY <1>2, <2>1 DEF Return, Claims, Rest
  <1>. QED BY <1>1, <1>2

LEMMA ClaimsNext == Claims /\ [Next]_<<i2c, power>> => Claims'
  <1>. SUFFICES ASSUME Claims, [Next]_<<i2c, power>> PROVE Claims'
    OBVIOUS
  <1>1. CASE PreInit \/ PmInit \/ PmInitFails \/ EnterVT \/ LeaveVT \/ ConsoleSets
    <2>1. UNCHANGED <<gen, wants, owner, control, call>>
      BY <1>1 DEF PreInit, PmInit, PmInitFails, EnterVT, LeaveVT, ConsoleSets, i2c
    <2>. QED BY <2>1 DEF Claims, IsCall, Rest
  <1>2. CASE Probing
    BY <1>2, R5xxKeeps, OthersKeep, CardKeeps, CallsKeep DEF Probing, Transfers
  <1>3. CASE UNCHANGED <<i2c, power>>
    BY <1>3 DEF i2c, Claims, IsCall, Rest
  <1>. QED BY <1>1, <1>2, <1>3 DEF Next

\* Whenever no call is in progress, software has no claim on the engine of an R5xx and its registers are as
\* they were (rhd_i2c.c:552-563): for every size of the buffers and every machine.
THEOREM HandedBack == Spec => []EngineHandedBack
  <1>1. Claims => EngineHandedBack
    BY DEF Claims, EngineHandedBack, Rest
  <1>. QED BY <1>1, ClaimsInit, ClaimsNext, PTL DEF Spec
-----------------------------------------------------------------------------
(* Reads: what a device holds, how far a call is, and where its next byte comes from *)

IsDevice(d) == d = [kind |-> d.kind, next |-> d.next]
IsEngine(e) == e = [f \in DOMAIN Idle |-> e[f]]

Kinds == {"monitor", "echo"}
\* The n bytes that a device holds from address a on.
Held(k, a, n) == [i \in 1 .. n |-> Byte(k, a + i - 1)]
Blank(n) == [i \in 1 .. n |-> -1]

\* How many bytes the call has, and the address of the next one.
Had == call.size - call.left
At == (call.from + Had) % Bytes

\* What the engine is asked for at a time, and what precedes that in its buffer.
Asked == CASE gen = "r5xx"              -> ChunkSize
           [] gen \in {"rs690", "r6xx"} -> call.size
           [] gen = "rv620"             -> RV620Size
Lead == CASE gen = "r5xx"              -> 0
          [] gen \in {"rs690", "r6xx"} -> 3
          [] gen = "rv620"             -> IF call.got = <<>> THEN 1 ELSE 0

\* While an offset is written: afterwards the device has it.
Addressed ==
  /\ engine.state = "running" => engine.address = <<call.offset>> /\ engine.count = 0
  /\ engine.state = "done" => device.next = At

\* While bytes are read: the device has the offset, or is sent it with the command.
Fetching(k) ==
  /\ engine.state = "running" =>
       /\ engine.count = Asked /\ engine.lead = Lead
       /\ engine.address = <<At>> \/ (engine.address = <<>> /\ device.next = At)
  /\ engine.state = "done" =>
       engine.slots = Blank(Lead) \o Held(k, At, Asked) /\ device.next = (At + Asked) % Bytes

\* The engine of an R6xx is at rest between calls; what is asked for is what is left.
Counts ==
  /\ gen \in {"r5xx", "rs690", "r6xx", "rv620"}
  /\ IsCall(call) /\ IsDevice(device) /\ device.kind \in Kinds \union {"none"} /\ IsEngine(engine)
  /\ call.from \in 0 .. Bytes - 1 /\ call.size \in Nat /\ call.left \in 0 .. call.size
  /\ call.offset = IF gen = "r5xx" THEN At ELSE call.from
  /\ gen # "rv620" \/ call.pc = "begin" => ~call.overrun
  /\ gen # "r5xx" /\ call.pc \in {"begin", "write", "wrote"} => call.left = call.size
  /\ gen \in {"rs690", "r6xx"} /\ call.pc = "reading" => call.left = call.size
  /\ gen \in {"rs690", "r6xx"} /\ call.pc # "reading" => engine.state # "running"

\* A call that nothing has gone wrong with yet.
Good == call.pc # "none" /\ call.ok /\ ~call.overrun

\* ReadRight is not inductive: from the first byte on, what the call has, what the engine is doing and where
\* the device is must agree, with a device of one kind, which may go but is not replaced.
Reading(k) ==
  /\ device.kind \in {k, "none"}
  /\ call.got = Held(k, call.from, Had)
  /\ call.pc = "write" => engine.state # "running"
  /\ call.pc = "wrote" /\ call.size # 0 => Addressed
  /\ call.pc = "read" => engine.state # "running" /\ device.next = At
  /\ call.pc = "reading" /\ call.size # 0 => Fetching(k)
  /\ call.pc = "done" => call.left = 0

ReadsRight == Counts /\ (Good => \E k \in Kinds : Reading(k))

-----------------------------------------------------------------------------
(* Arithmetic and sequences *)

LEMMA Quotient ==
  ASSUME NEW a \in Nat
  PROVE  /\ a \div Bytes \in Int /\ a % Bytes \in 0 .. Bytes - 1
         /\ a = Bytes * (a \div Bytes) + (a % Bytes)
  BY I2CAssumption

LEMMA SmallMultiple ==
  ASSUME NEW q \in Int, -Bytes < Bytes * q, Bytes * q < Bytes
  PROVE  q = 0
  <1>. Bytes \in Nat \ {0}
    BY I2CAssumption
  <1>1. q >= 1 => Bytes * q >= Bytes
    OBVIOUS
  <1>2. q <= -1 => Bytes * q <= -Bytes
    OBVIOUS
  <1>. QED BY <1>1, <1>2

\* An offset that has wrapped leads to the same byte.
LEMMA Wraps ==
  ASSUME NEW a \in Nat, NEW b \in Nat
  PROVE  ((a % Bytes) + b) % Bytes = (a + b) % Bytes
  <1>. DEFINE r == a % Bytes
              q1 == a \div Bytes
              q2 == (a + b) \div Bytes
              q3 == (r + b) \div Bytes
              x == (a + b) % Bytes
              y == (r + b) % Bytes
  <1>1. a = Bytes * q1 + r /\ r \in 0 .. Bytes - 1 /\ q1 \in Int
    BY Quotient
  <1>2. a + b = Bytes * q2 + x /\ x \in 0 .. Bytes - 1 /\ q2 \in Int
    BY Quotient
  <1>3. r + b = Bytes * q3 + y /\ y \in 0 .. Bytes - 1 /\ q3 \in Int
    <2>1. r + b \in Nat
      BY <1>1, I2CAssumption
    <2>. QED BY <2>1, Quotient
  <1>4. Bytes \in Nat \ {0}
    BY I2CAssumption
  <1>. HIDE DEF r, q1, q2, q3, x, y
  <1>5. Bytes * (q1 + q3 - q2) = Bytes * q1 + Bytes * q3 - Bytes * q2
    BY <1>1, <1>2, <1>3, <1>4
  <1>6. Bytes * (q1 + q3 - q2) = x - y
    <2>. DEFINE A == Bytes * q1
                B == Bytes * q2
                C == Bytes * q3
    <2>1. A \in Int /\ B \in Int /\ C \in Int
      BY <1>1, <1>2, <1>3, <1>4
    <2>2. a = A + r /\ a + b = B + x /\ r + b = C + y
      BY <1>1, <1>2, <1>3
    <2>. HIDE DEF A, B, C
    <2>3. A + C - B = x - y
      BY <2>1, <2>2, <1>1, <1>2, <1>3, <1>4
    <2>. QED BY <2>3, <1>5 DEF A, B, C
  <1>7. -Bytes < x - y /\ x - y < Bytes
    BY <1>2, <1>3, <1>4
  <1>8. q1 + q3 - q2 = 0
    BY <1>1, <1>2, <1>3, <1>6, <1>7, SmallMultiple
  <1>9. x - y = 0
    BY <1>6, <1>8, <1>4
  <1>10. x = y
    BY <1>2, <1>3, <1>4, <1>9
  <1>. QED BY <1>10 DEF x, y, r

LEMMA WrapsSmall ==
  ASSUME NEW a \in 0 .. Bytes - 1
  PROVE  a % Bytes = a
  BY I2CAssumption

LEMMA HeldSeq ==
  ASSUME NEW k, NEW a \in Nat, NEW n \in Nat
  PROVE  /\ Held(k, a, n) \in Seq(Int) /\ Len(Held(k, a, n)) = n
         /\ \A i \in 1 .. n : Held(k, a, n)[i] = Byte(k, a + i - 1)
  <1>1. \A i \in 1 .. n : Byte(k, a + i - 1) \in Int
    BY I2CAssumption DEF Byte
  <1>. QED BY <1>1 DEF Held

\* The bytes of a read and those that the next chunk fetches are the bytes of a longer read.
LEMMA HeldMore ==
  ASSUME NEW k, NEW a \in Nat, NEW m \in Nat, NEW n \in Nat
  PROVE  Held(k, a, m) \o Held(k, (a + m) % Bytes, n) = Held(k, a, m + n)
  <1>. DEFINE b == (a + m) % Bytes
              s == Held(k, a, m)
              t == Held(k, b, n)
              u == Held(k, a, m + n)
  <1>1. b \in Nat
    BY Quotient, I2CAssumption
  <1>2. s \in Seq(Int) /\ Len(s) = m /\ \A i \in 1 .. m : s[i] = Byte(k, a + i - 1)
    BY HeldSeq
  <1>3. t \in Seq(Int) /\ Len(t) = n /\ \A i \in 1 .. n : t[i] = Byte(k, b + i - 1)
    BY HeldSeq, <1>1
  <1>4. u \in Seq(Int) /\ Len(u) = m + n /\ \A i \in 1 .. m + n : u[i] = Byte(k, a + i - 1)
    BY HeldSeq
  <1>5. \A i \in 1 .. n : Byte(k, b + i - 1) = Byte(k, a + (m + i) - 1)
    <2>. SUFFICES ASSUME NEW i \in 1 .. n
                  PROVE  (b + i - 1) % Bytes = (a + (m + i) - 1) % Bytes
      BY DEF Byte
    <2>1. i - 1 \in Nat /\ a + m \in Nat
      OBVIOUS
    <2>3. (((a + m) % Bytes) + (i - 1)) % Bytes = ((a + m) + (i - 1)) % Bytes
      BY <2>1, Wraps
    <2>2. b + (i - 1) = b + i - 1 /\ (a + m) + (i - 1) = a + (m + i) - 1
      BY <1>1
    <2>. QED BY <2>2, <2>3
  <1>. HIDE DEF b, s, t, u
  <1>6. /\ s \o t \in Seq(Int) /\ Len(s \o t) = m + n
        /\ \A i \in 1 .. m + n : (s \o t)[i] = IF i <= m THEN s[i] ELSE t[i - m]
    BY <1>2, <1>3, ConcatProperties
  <1>7. \A i \in 1 .. m + n : (s \o t)[i] = u[i]
    <2>. SUFFICES ASSUME NEW i \in 1 .. m + n PROVE (s \o t)[i] = u[i]
      OBVIOUS
    <2>1. i <= m => (s \o t)[i] = s[i] /\ i \in 1 .. m
      BY <1>6
    <2>2. ~(i <= m) => (s \o t)[i] = t[i - m] /\ i - m \in 1 .. n /\ m + (i - m) = i
      BY <1>6
    <2>3. ~(i <= m) => t[i - m] = Byte(k, a + i - 1)
      BY <2>2, <1>3, <1>5
    <2>. QED BY <2>1, <2>2, <2>3, <1>2, <1>4
  <1>8. s \o t = u
    BY <1>4, <1>6, <1>7, SeqEqual
  <1>. QED BY <1>8 DEF b, s, t, u

\* Where the driver looks for the bytes in the engine's buffer is where the engine puts them.
LEMMA Fetched ==
  ASSUME NEW k, NEW a \in Nat, NEW n \in Nat, NEW lead \in Nat,
         engine.slots = Blank(lead) \o Held(k, a, n)
  PROVE  From(lead, n) = Held(k, a, n)
  <1>. DEFINE s == Blank(lead)
              t == Held(k, a, n)
  <1>1. s \in Seq(Int) /\ Len(s) = lead
    BY DEF Blank
  <1>2. t \in Seq(Int) /\ Len(t) = n /\ \A i \in 1 .. n : t[i] = Byte(k, a + i - 1)
    BY HeldSeq
  <1>3. engine.slots = s \o t
    OBVIOUS
  <1>. HIDE DEF s, t
  <1>4. /\ s \o t \in Seq(Int) /\ Len(s \o t) = lead + n
        /\ \A i \in 1 .. lead + n : (s \o t)[i] = IF i <= lead THEN s[i] ELSE t[i - lead]
    BY <1>1, <1>2, ConcatProperties
  <1>5. \A i \in 1 .. n : lead + i \in 1 .. lead + n /\ ~(lead + i <= lead) /\ (lead + i) - lead = i
    OBVIOUS
  <1>6. \A i \in 1 .. n : lead + i \in DOMAIN engine.slots /\ engine.slots[lead + i] = t[i]
    BY <1>3, <1>4, <1>5
  <1>. QED BY <1>2, <1>6 DEF From, Held
-----------------------------------------------------------------------------
(* Each step of a transfer keeps ReadsRight *)

LEMMA Chunks ==
  ASSUME Counts
  PROVE  ChunkSize \in 0 .. call.left /\ RV620Size \in 0 .. call.left
  <1>1. \A x, y \in Nat : Min({x, y}) \in Nat /\ Min({x, y}) <= x
    <2>. SUFFICES ASSUME NEW x \in Nat, NEW y \in Nat PROVE Min({x, y}) \in Nat /\ Min({x, y}) <= x
      OBVIOUS
    <2>1. \E z \in {x, y} : \A w \in {x, y} : z <= w
      <3>1. CASE x <= y
        BY <3>1
      <3>2. CASE y <= x
        BY <3>2
      <3>. QED BY <3>1, <3>2
    <2>2. Min({x, y}) \in {x, y} /\ \A w \in {x, y} : Min({x, y}) <= w
      BY <2>1 DEF Min
    <2>. QED BY <2>2
  <1>. QED BY <1>1, I2CAssumption DEF Counts, ChunkSize, RV620Size

LEMMA Whereabouts ==
  ASSUME Counts
  PROVE  /\ Had \in Nat /\ At \in Nat /\ At % Bytes = At
         /\ gen = "r5xx" \/ call.left = call.size => call.offset = At
  <1>1. Had \in Nat /\ call.from \in Nat /\ call.from \in 0 .. Bytes - 1
    BY I2CAssumption DEF Counts, Had
  <1>2. At \in 0 .. Bytes - 1
    BY <1>1, Quotient DEF At
  <1>3. call.left = call.size => At = call.from
    <2>. SUFFICES ASSUME call.left = call.size PROVE At = call.from
      OBVIOUS
    <2>1. Had = 0
      BY DEF Counts, Had
    <2>. QED BY <1>1, <2>1, WrapsSmall DEF At
  <1>. QED BY <1>1, <1>2, <1>3, WrapsSmall, I2CAssumption DEF Counts

LEMMA CardCounts ==
  Counts /\ (Answer \/ NoAnswer \/ Grant \/ HardwareUses \/ HardwareDone \/ Unplug \/ Plug) => Counts'
  <1>. USE DEF Counts, IsCall, IsDevice, IsEngine, Idle, At, Had
  <1>1. Counts /\ Answer => Counts'
    <2>. SUFFICES ASSUME Counts, Answer PROVE Counts'
      OBVIOUS
    <2>1. /\ gen' = gen /\ call' = call /\ engine.state = "running"
          /\ \E a : device' = [device EXCEPT !.next = a]
          /\ \E b : engine' = [engine EXCEPT !.state = "done", !.slots = b]
      BY DEF Answer
    <2>. QED BY <2>1
  <1>2. Counts /\ NoAnswer => Counts'
    BY DEF NoAnswer
  <1>3. Counts /\ (Grant \/ HardwareUses \/ HardwareDone) => Counts'
    BY DEF Grant, HardwareUses, HardwareDone
  <1>4. Counts /\ (Unplug \/ Plug) => Counts'
    BY DEF Unplug, Plug, Kinds
  <1>. QED BY <1>1, <1>2, <1>3, <1>4

LEMMA AnswerReads ==
  ASSUME Counts, NEW k \in Kinds, Reading(k), call.pc # "none", Answer
  PROVE  Reading(k)'
  <1>. DEFINE start == IF engine.address = <<>> THEN device.next ELSE engine.address[1]
              new == (start + engine.count) % Bytes
              bytes == [i \in 1 .. engine.count |-> Byte(device.kind, start + i - 1)]
  <1>1. /\ engine.state = "running" /\ device.kind = k
        /\ device' = [device EXCEPT !.next = new]
        /\ engine' = [engine EXCEPT !.state = "done", !.slots = Blank(engine.lead) \o bytes]
        /\ gen' = gen /\ call' = call
    BY DEF Answer, Reading, Blank
  <1>. HIDE DEF new, bytes
  <1>2. /\ device'.kind = k /\ device'.next = new
        /\ engine'.state = "done" /\ engine'.slots = Blank(engine.lead) \o bytes
    BY <1>1 DEF Counts, IsDevice, IsEngine, Idle
  <1>3. At' = At /\ Had' = Had /\ Asked' = Asked /\ Lead' = Lead
    BY <1>1 DEF At, Had, Asked, Lead, ChunkSize, RV620Size
  <1>4. call.pc = "wrote" /\ call.size # 0 => Addressed'
    <2>. SUFFICES ASSUME call.pc = "wrote", call.size # 0 PROVE device'.next = At
      BY <1>2, <1>3 DEF Addressed
    <2>1. engine.address = <<call.offset>> /\ engine.count = 0
      BY <1>1 DEF Reading, Addressed
    <2>2. start = call.offset
      BY <2>1
    <2>3. call.offset = At
      BY Whereabouts DEF Counts
    <2>4. At \in Nat /\ At % Bytes = At
      BY Whereabouts
    <2>. HIDE DEF start
    <2>5. start + engine.count = At
      BY <2>1, <2>2, <2>3, <2>4
    <2>. QED BY <1>2, <2>4, <2>5 DEF new
  <1>5. call.pc = "reading" /\ call.size # 0 => Fetching(k)'
    <2>. SUFFICES ASSUME call.pc = "reading", call.size # 0
                  PROVE  engine'.slots = Blank(Lead) \o Held(k, At, Asked) /\ device'.next = (At + Asked) % Bytes
      BY <1>2, <1>3, <1>1 DEF Fetching, Blank, Held
    <2>1. engine.count = Asked /\ engine.lead = Lead
      BY <1>1 DEF Reading, Fetching
    <2>2. start = At
      <3>1. CASE engine.address = <<At>>
        <4>1. <<At>> # <<>> /\ <<At>>[1] = At
          OBVIOUS
        <4>. QED BY <3>1, <4>1
      <3>2. CASE engine.address = <<>> /\ device.next = At
        BY <3>2
      <3>. QED BY <3>1, <3>2, <1>1 DEF Reading, Fetching
    <2>. HIDE DEF start
    <2>3. bytes = Held(k, At, Asked)
      BY <1>1, <2>1, <2>2 DEF bytes, Held
    <2>4. new = (At + Asked) % Bytes
      BY <2>1, <2>2 DEF new
    <2>. QED BY <1>2, <2>1, <2>3, <2>4
  <1>. QED BY <1>1, <1>2, <1>3, <1>4, <1>5 DEF Reading, Held

LEMMA CardReads ==
  ASSUME Counts, NEW k \in Kinds, Reading(k), call.pc # "none",
         Answer \/ NoAnswer \/ Grant \/ HardwareUses \/ HardwareDone \/ Unplug \/ Plug
  PROVE  Reading(k)'
  <1>1. CASE Answer
    BY <1>1, AnswerReads
  <1>2. CASE NoAnswer
    <2>1. engine'.state = "error" /\ device' = device /\ call' = call /\ gen' = gen /\ At' = At /\ Had' = Had
      BY <1>2 DEF NoAnswer, Counts, IsEngine, Idle, At, Had
    <2>. QED BY <1>2, <2>1 DEF NoAnswer, Reading, Addressed, Fetching, Held
  <1>3. CASE Grant \/ HardwareUses \/ HardwareDone
    <2>1. UNCHANGED <<engine, device, call, gen>> /\ At' = At /\ Had' = Had /\ Asked' = Asked /\ Lead' = Lead
      BY <1>3 DEF Grant, HardwareUses, HardwareDone, At, Had, Asked, Lead, ChunkSize, RV620Size
    <2>. QED BY <2>1 DEF Reading, Addressed, Fetching, Held
  <1>4. CASE Unplug
    <2>1. UNCHANGED <<engine, call, gen>> /\ At' = At /\ Had' = Had /\ Asked' = Asked /\ Lead' = Lead
      BY <1>4 DEF Unplug, At, Had, Asked, Lead, ChunkSize, RV620Size
    <2>2. device'.kind = "none" /\ device'.next = device.next
      BY <1>4 DEF Unplug, Counts, IsDevice
    <2>. QED BY <2>1, <2>2 DEF Reading, Addressed, Fetching, Held
  <1>5. CASE Plug
    BY <1>5 DEF Plug
  <1>. QED BY <1>1, <1>2, <1>3, <1>4, <1>5
\* A step of the driver: what is left of a read is the same, and the shapes of call and engine.
LEMMA SameProgress ==
  ASSUME call'.from = call.from, call'.size = call.size, call'.left = call.left
  PROVE  Had' = Had /\ At' = At
  BY DEF Had, At

\* A command that is given to an engine at rest.
LEMMA Started ==
  ASSUME NEW address, NEW count, NEW lead, engine.state # "running", Go(address, count, lead)
  PROVE  /\ engine'.state = "running" /\ engine'.address = address /\ engine'.count = count
         /\ engine'.lead = lead
  BY DEF Go

LEMMA Shaped ==
  ASSUME Counts
  PROVE  /\ IsEngine(Idle) /\ Idle.state = "idle"
         /\ \A address, count, lead : Go(address, count, lead) => IsEngine(engine')
  BY DEF Counts, IsEngine, Idle, Go

\* The bytes that a chunk brings continue those that the call has.
LEMMA Brought ==
  ASSUME Counts, NEW k \in Kinds, Reading(k), NEW n \in 0 .. call.left, NEW lead \in Nat,
         engine.slots = Blank(lead) \o Held(k, At, n),
         call'.got = call.got \o From(lead, n),
         call'.from = call.from, call'.size = call.size, call'.left = call.left - n
  PROVE  call'.got = Held(k, call'.from, Had') /\ At' = (At + n) % Bytes
  <1>0. call.from \in Nat /\ call.size \in Nat /\ call.left \in Nat /\ Had \in Nat /\ At \in Nat
    BY Whereabouts DEF Counts
  <1>1. call.from + Had \in Nat /\ n \in Nat /\ Had' = Had + n
    BY <1>0 DEF Had
  <1>2. From(lead, n) = Held(k, At, n)
    BY <1>0, <1>1, Fetched
  <1>3. Held(k, call.from, Had) \o Held(k, (call.from + Had) % Bytes, n) = Held(k, call.from, Had + n)
    <2>1. call.from \in Nat /\ Had \in Nat
      BY <1>0
    <2>2. n \in Nat
      BY <1>1
    <2>. QED BY <2>1, <2>2, HeldMore
  <1>4. (((call.from + Had) % Bytes) + n) % Bytes = ((call.from + Had) + n) % Bytes
    BY <1>1, Wraps
  <1>5. (call.from + Had) + n = call.from + (Had + n)
    BY <1>0, <1>1
  <1>6. At' = (At + n) % Bytes
    BY <1>1, <1>4, <1>5 DEF At
  <1>. QED BY <1>1, <1>2, <1>3, <1>6 DEF Reading, At

LEMMA R5xxCounts == Counts /\ R5xx => Counts'
  <1>. SUFFICES ASSUME Counts, R5xx PROVE Counts'
    OBVIOUS
  <1>1. CASE R5xxRead
    <2>. DEFINE n == ChunkSize
    <2>1. n \in 0 .. call.left
      BY Chunks
    <2>2. /\ gen = "r5xx" /\ gen' = gen /\ device' = device /\ engine' = Idle
          /\ call' = [call EXCEPT !.pc = "exit", !.got = @ \o From(0, n), !.left = @ - n, !.offset = (@ + n) % Bytes]
      BY <1>1 DEF R5xxRead
    <2>. HIDE DEF n
    <2>3. /\ IsCall(call') /\ call'.from = call.from /\ call'.size = call.size /\ call'.left = call.left - n
          /\ call'.offset = (call.offset + n) % Bytes /\ call'.overrun = call.overrun
      BY <2>2 DEF Counts, IsCall, NoCall
    <2>4. call.offset = At /\ Had \in Nat /\ call.from \in Nat /\ Had' = Had + n
      BY <2>1, <2>2, <2>3, Whereabouts, I2CAssumption DEF Counts, Had
    <2>5. (((call.from + Had) % Bytes) + n) % Bytes = ((call.from + Had) + n) % Bytes
      <3>1. call.from + Had \in Nat /\ n \in Nat
        BY <2>1, <2>4
      <3>. QED BY <3>1, Wraps
    <2>6. (call.from + Had) + n = call.from + (Had + n)
      BY <2>1, <2>4
    <2>7. At' = (At + n) % Bytes
      BY <2>3, <2>4, <2>5, <2>6 DEF At
    <2>. QED BY <2>1, <2>2, <2>3, <2>4, <2>7, Shaped DEF Counts, IsDevice
  <1>2. CASE ~R5xxRead
    <2>1. /\ gen = "r5xx" /\ gen' = gen /\ device' = device
          /\ IsCall(call') /\ call'.from = call.from /\ call'.size = call.size /\ call'.left = call.left
          /\ call'.offset = call.offset /\ call'.overrun = call.overrun
      BY <1>2 DEF Counts, IsCall, NoCall, R5xx, R5xxAsk, R5xxTake, R5xxRefused, R5xxWrite, R5xxWrote,
                  R5xxFails, R5xxExit, R5xxRestore, Failed
    <2>2. IsEngine(engine')
      <3>1. engine' = engine \/ engine' = Idle \/ Go(<<call.offset>>, 0, 0) \/ Go(<<>>, ChunkSize, 0)
        BY <1>2 DEF R5xx, R5xxAsk, R5xxTake, R5xxRefused, R5xxWrite, R5xxWrote, R5xxFails, R5xxExit, R5xxRestore
      <3>2. CASE engine' = engine
        BY <3>2 DEF Counts, IsEngine
      <3>. QED BY <3>1, <3>2, Shaped
    <2>3. At' = At
      BY <2>1, SameProgress
    <2>. QED BY <2>1, <2>2, <2>3 DEF Counts, IsDevice
  <1>. QED BY <1>1, <1>2

LEMMA R5xxReads ==
  ASSUME Counts, NEW k \in Kinds, Reading(k), R5xx, call'.ok
  PROVE  Reading(k)'
  <1>0. gen = "r5xx" /\ gen' = gen /\ device' = device /\ Asked = ChunkSize /\ Lead = 0 /\ Lead' = 0
    BY DEF R5xx, R5xxAsk, R5xxTake, R5xxRefused, R5xxWrite, R5xxWrote, R5xxRead, R5xxFails, R5xxExit,
           R5xxRestore, Asked, Lead
  <1>1. CASE R5xxRead
    <2>1. /\ call.pc = "reading" /\ engine.state = "done" /\ call'.pc = "exit" /\ call'.left = call.left - ChunkSize
          /\ call'.got = call.got \o From(0, ChunkSize) /\ call'.from = call.from /\ call'.size = call.size
      BY <1>1 DEF R5xxRead, Counts, IsCall, NoCall
    <2>2. ChunkSize \in 0 .. call.left
      BY Chunks
    <2>3. CASE call.size # 0
      <3>1. engine.slots = Blank(0) \o Held(k, At, ChunkSize)
        BY <1>0, <2>1, <2>3 DEF Reading, Fetching
      <3>2. call'.got = Held(k, call'.from, Had')
        BY <2>1, <2>2, <3>1, Brought
      <3>. QED BY <1>0, <2>1, <3>2 DEF Reading
    <2>4. CASE call.size = 0
      <3>1. ChunkSize = 0
        BY <2>2, <2>4 DEF Counts
      <3>2. From(0, ChunkSize) = Held(k, At, 0)
        BY <3>1 DEF From, Held
      <3>3. Held(k, call.from, Had) \o Held(k, At, 0) = Held(k, call.from, Had + 0)
        <4>1. call.from \in Nat /\ Had \in Nat
          BY Whereabouts DEF Counts
        <4>2. Held(k, call.from, Had) \o Held(k, (call.from + Had) % Bytes, 0) = Held(k, call.from, Had + 0)
          BY <4>1, HeldMore
        <4>. QED BY <4>2 DEF At
      <3>4. Had' = Had + 0
        BY <2>1, <2>4, <3>1 DEF Had, Counts
      <3>. QED BY <1>0, <2>1, <3>1, <3>2, <3>3, <3>4 DEF Reading
    <2>. QED BY <2>3, <2>4
  <1>2. CASE ~R5xxRead
    <2>1. call'.from = call.from /\ call'.size = call.size /\ call'.left = call.left /\ call'.got = call.got
      BY <1>2 DEF Counts, IsCall, NoCall, R5xx, R5xxAsk, R5xxTake, R5xxRefused, R5xxWrite, R5xxWrote,
                  R5xxFails, R5xxExit, R5xxRestore, Failed
    <2>2. Had' = Had /\ At' = At /\ Asked' = Asked
      BY <1>0, <2>1, SameProgress DEF Asked, ChunkSize
    <2>3. CASE R5xxTake
      <3>1. engine'.state = "idle" /\ call'.pc = "write"
        BY <2>3 DEF R5xxTake, Idle, Counts, IsCall, NoCall
      <3>. QED BY <1>0, <2>1, <2>2, <3>1 DEF Reading
    <2>4. CASE R5xxWrite
      <3>1. engine.state # "running" /\ call.offset = At /\ call'.pc = "wrote" /\ call'.offset = call.offset
        BY <1>0, <2>4, Whereabouts DEF R5xxWrite, Reading, Counts, IsCall, NoCall
      <3>2. engine'.state = "running" /\ engine'.address = <<call.offset>> /\ engine'.count = 0
        BY <2>4, <3>1, Started DEF R5xxWrite
      <3>. QED BY <1>0, <2>1, <2>2, <3>1, <3>2 DEF Reading, Addressed
    <2>5. CASE R5xxWrote
      <3>1. CASE call.size = 0
        <4>1. call'.pc = "exit"
          BY <2>5, <3>1 DEF R5xxWrote, Counts, IsCall, NoCall
        <4>. QED BY <1>0, <2>1, <2>2, <4>1 DEF Reading
      <3>2. CASE call.size # 0
        <4>1. call.pc = "wrote" /\ engine.state = "done" /\ call'.pc = "reading" /\ Go(<<>>, ChunkSize, 0)
          BY <2>5, <3>2 DEF R5xxWrote, Counts, IsCall, NoCall
        <4>2. device.next = At
          BY <3>2, <4>1 DEF Reading, Addressed
        <4>3. engine'.state = "running" /\ engine'.address = <<>> /\ engine'.count = ChunkSize /\ engine'.lead = 0
          BY <4>1, Started
        <4>. QED BY <1>0, <2>1, <2>2, <4>1, <4>2, <4>3 DEF Reading, Fetching
      <3>. QED BY <3>1, <3>2
    <2>6. CASE R5xxRestore
      <3>1. call.ok = call'.ok /\ call'.pc = IF call.ok /\ call.left > 0 THEN "begin" ELSE "done"
        BY <2>6 DEF R5xxRestore, Counts, IsCall, NoCall
      <3>2. call'.pc = "done" => call.left = 0
        BY <3>1 DEF Counts
      <3>. QED BY <1>0, <2>1, <2>2, <3>1, <3>2 DEF Reading
    <2>7. CASE R5xxAsk \/ R5xxExit
      <3>1. call'.pc \in {"asked", "restore"}
        BY <2>7 DEF R5xxAsk, R5xxExit, Counts, IsCall, NoCall
      <3>. QED BY <1>0, <2>1, <2>2, <3>1 DEF Reading
    <2>8. CASE R5xxRefused \/ R5xxFails
      BY <2>8 DEF R5xxRefused, R5xxFails, Failed, Counts, IsCall, NoCall
    <2>. QED BY <1>2, <2>3, <2>4, <2>5, <2>6, <2>7, <2>8 DEF R5xx
  <1>. QED BY <1>1, <1>2
LEMMA R6xxKeep ==
  ASSUME Counts, R6xx
  PROVE  /\ Counts'
         /\ \A k \in Kinds : Reading(k) /\ call'.ok => Reading(k)'
  <1>1. CASE R6xxGo
    <2>1. /\ gen \in {"rs690", "r6xx"} /\ gen' = gen /\ device' = device /\ call.left = call.size
          /\ engine.state # "running"
          /\ IsCall(call') /\ call' = [call EXCEPT !.pc = "reading"]
      BY <1>1 DEF R6xxGo, Counts, IsCall, NoCall
    <2>2. /\ call'.pc = "reading" /\ call'.from = call.from /\ call'.size = call.size /\ call'.left = call.left
          /\ call'.got = call.got /\ call'.offset = call.offset /\ call'.overrun = call.overrun
      BY <2>1 DEF Counts, IsCall, NoCall
    <2>3. Had' = Had /\ At' = At /\ Asked' = call.size /\ Lead' = 3 /\ call.offset = At
      BY <2>1, <2>2, SameProgress, Whereabouts DEF Asked, Lead
    <2>4. IsEngine(engine')
      BY <1>1, Shaped DEF R6xxGo
    <2>5. Counts'
      BY <2>1, <2>2, <2>3, <2>4 DEF Counts, IsDevice
    <2>6. call.size # 0 => /\ engine'.state = "running" /\ engine'.address = <<call.offset>>
                           /\ engine'.count = call.size /\ engine'.lead = 3
      BY <1>1, <2>1, Started DEF R6xxGo
    <2>7. ASSUME NEW k \in Kinds, Reading(k) PROVE Reading(k)'
      BY <2>1, <2>2, <2>3, <2>6, <2>7 DEF Reading, Fetching
    <2>. QED BY <2>5, <2>7
  <1>2. CASE R6xxEnd
    <2>1. /\ gen \in {"rs690", "r6xx"} /\ gen' = gen /\ device' = device /\ call.pc = "reading"
          /\ call.left = call.size /\ engine' = Idle
      BY <1>2 DEF R6xxEnd, Counts
    <2>2. /\ IsCall(call') /\ call'.pc = "done" /\ call'.from = call.from /\ call'.size = call.size
          /\ call'.offset = call.offset /\ call'.overrun = call.overrun
          /\ IF engine.state = "done" THEN call'.left = 0 /\ call'.got = From(FirstRead, call.size)
             ELSE call'.left = call.left /\ ~call'.ok
      BY <1>2 DEF R6xxEnd, Failed, Counts, IsCall, NoCall
    <2>3. Counts'
      BY <2>1, <2>2, Shaped DEF Counts, IsDevice
    <2>4. ASSUME NEW k \in Kinds, Reading(k), call'.ok PROVE Reading(k)'
      <3>1. engine.state = "done" /\ call'.left = 0 /\ call'.got = From(3, call.size)
        BY <2>2, <2>4 DEF FirstRead
      <3>2. call.from \in Nat /\ call.size \in Nat /\ At = call.from
        BY <2>1, Whereabouts DEF Counts
      <3>3. From(3, call.size) = Held(k, call.from, call.size)
        <4>1. CASE call.size = 0
          BY <4>1 DEF From, Held
        <4>2. CASE call.size # 0
          <5>1. Lead = 3 /\ Asked = call.size
            BY <2>1 DEF Lead, Asked
          <5>2. engine.slots = Blank(3) \o Held(k, call.from, call.size)
            BY <2>1, <2>4, <3>1, <3>2, <4>2, <5>1 DEF Reading, Fetching
          <5>. QED BY <3>2, <5>2, Fetched
        <4>. QED BY <4>1, <4>2
      <3>4. Had' = call.size
        BY <2>2, <3>1, <3>2 DEF Had
      <3>. QED BY <2>1, <2>2, <2>4, <3>1, <3>3, <3>4 DEF Reading
    <2>. QED BY <2>3, <2>4
  <1>. QED BY <1>1, <1>2 DEF R6xx

\* The count that the RV620's engine is given covers the bytes that are wanted.
LEMMA RV620Asks ==
  ASSUME NEW address, NEW n \in Nat, NEW start \in BOOLEAN, RV620Go(address, n, start)
  PROVE  Go(address, n, IF start THEN 1 ELSE 0)
  <1>1. Counted(Count(n, start), start) = n
    BY DEF Counted, Count
  <1>. QED BY <1>1 DEF RV620Go

LEMMA RV620Counts == Counts /\ RV620 => Counts'
  <1>. SUFFICES ASSUME Counts, RV620 PROVE Counts'
    OBVIOUS
  <1>0. RV620Size \in 0 .. call.left
    BY Chunks
  <1>1. gen = "rv620" /\ gen' = gen /\ device' = device
    BY DEF RV620, RV620Setup, RV620Write, RV620Wrote, RV620Read, RV620Fetch, RV620Fails
  <1>2. CASE RV620Fetch
    <2>1. /\ IsCall(call') /\ call'.pc \in {"read", "done"} /\ call'.from = call.from /\ call'.size = call.size
          /\ call'.left = call.left - RV620Size /\ call'.offset = call.offset /\ engine' = Idle
      BY <1>2 DEF RV620Fetch, Counts, IsCall, NoCall
    <2>. QED BY <1>0, <1>1, <2>1, Shaped DEF Counts, IsDevice
  <1>3. CASE ~RV620Fetch
    <2>1. /\ IsCall(call') /\ call'.pc # "begin" /\ call'.from = call.from /\ call'.size = call.size
          /\ call'.left = call.left /\ call'.offset = call.offset
          /\ call'.pc \in {"write", "wrote"} => call.pc \in {"begin", "write"}
      BY <1>3 DEF RV620, RV620Setup, RV620Write, RV620Wrote, RV620Read, RV620Fails, Failed, Counts, IsCall, NoCall
    <2>2. IsEngine(engine')
      <3>1. engine' = engine \/ engine' = Idle \/ \E address, count, lead : Go(address, count, lead)
        BY <1>3 DEF RV620, RV620Setup, RV620Write, RV620Wrote, RV620Read, RV620Fails, RV620Go
      <3>2. CASE engine' = engine
        BY <3>2 DEF Counts, IsEngine
      <3>. QED BY <3>1, <3>2, Shaped
    <2>. QED BY <1>1, <2>1, <2>2 DEF Counts, IsDevice
  <1>. QED BY <1>2, <1>3

LEMMA RV620Reads ==
  ASSUME Counts, NEW k \in Kinds, Reading(k), RV620, call'.ok, ~call'.overrun
  PROVE  Reading(k)'
  <1>0. gen = "rv620" /\ gen' = gen /\ device' = device
    BY DEF RV620, RV620Setup, RV620Write, RV620Wrote, RV620Read, RV620Fetch, RV620Fails
  <1>1. RV620Size \in 0 .. call.left
    BY Chunks
  <1>2. CASE RV620Fetch
    <2>. DEFINE n == RV620Size
                lead == IF call.got = <<>> THEN 1 ELSE 0
    <2>1. /\ call.pc = "reading" /\ engine.state = "done" /\ engine' = Idle
          /\ call'.got = call.got \o From(lead, n) /\ call'.left = call.left - n
          /\ call'.pc = IF call.left - n > 0 THEN "read" ELSE "done"
          /\ call'.from = call.from /\ call'.size = call.size
      BY <1>2 DEF RV620Fetch, Counts, IsCall, NoCall
    <2>2. Lead = lead /\ Asked = n
      BY <1>0 DEF Lead, Asked
    <2>3. n \in 0 .. call.left /\ lead \in Nat
      BY <1>1
    <2>. HIDE DEF n, lead
    <2>4. /\ call'.got = Held(k, call'.from, Had')
          /\ call.size # 0 => At' = (At + n) % Bytes
      <3>1. CASE call.size # 0
        <4>1. engine.slots = Blank(lead) \o Held(k, At, n)
          BY <2>1, <2>2, <3>1 DEF Reading, Fetching
        <4>. QED BY <2>1, <2>3, <3>1, <4>1, Brought
      <3>2. CASE call.size = 0
        <4>1. n = 0 /\ Had' = 0 /\ Had = 0
          BY <2>1, <2>3, <3>2 DEF Counts, Had
        <4>2. call.got = <<>> /\ From(lead, n) = <<>> /\ Held(k, call.from, 0) = <<>>
          BY <4>1 DEF Reading, From, Held
        <4>. QED BY <2>1, <3>2, <4>1, <4>2
      <3>. QED BY <3>1, <3>2
    <2>5. call'.pc = "read" => device.next = At' /\ call.size # 0
      <3>. SUFFICES ASSUME call'.pc = "read" PROVE device.next = At' /\ call.size # 0
        OBVIOUS
      <3>1. call.size # 0
        BY <2>1, <2>3 DEF Counts
      <3>. QED BY <2>1, <2>2, <2>4, <3>1 DEF Reading, Fetching
    <2>6. call'.pc = "done" => call'.left = 0
      BY <2>1, <2>3 DEF Counts
    <2>7. engine'.state # "running"
      BY <2>1 DEF Idle
    <2>8. call'.pc \in {"read", "done"}
      BY <2>1
    <2>. QED BY <1>0, <2>4, <2>5, <2>6, <2>7, <2>8 DEF Reading
  <1>3. CASE ~RV620Fetch
    <2>1. call'.from = call.from /\ call'.size = call.size /\ call'.left = call.left /\ call'.got = call.got
      BY <1>3 DEF Counts, IsCall, NoCall, RV620, RV620Setup, RV620Write, RV620Wrote, RV620Read, RV620Fails, Failed
    <2>2. Had' = Had /\ At' = At /\ Asked' = Asked /\ Lead' = Lead /\ Asked = RV620Size /\ At % Bytes = At
      BY <1>0, <2>1, SameProgress, Whereabouts DEF Asked, Lead, RV620Size
    <2>3. CASE RV620Setup
      <3>1. call'.pc = "write" /\ (call'.overrun \/ engine' = Idle)
        BY <2>3 DEF RV620Setup, Counts, IsCall, NoCall
      <3>. QED BY <1>0, <2>1, <2>2, <3>1 DEF Reading, Idle
    <2>4. CASE RV620Write
      <3>1. engine.state # "running" /\ call.offset = At /\ call'.pc = "wrote" /\ call'.offset = call.offset
        BY <1>0, <2>4, Whereabouts DEF RV620Write, Reading, Counts, IsCall, NoCall
      <3>2. call.size # 0 => Go(<<call.offset>>, 0, 1)
        BY <2>4, RV620Asks DEF RV620Write
      <3>3. call.size # 0 => /\ engine'.state = "running" /\ engine'.address = <<call.offset>>
                             /\ engine'.count = 0
        BY <3>1, <3>2, Started
      <3>. QED BY <1>0, <2>1, <2>2, <3>1, <3>3 DEF Reading, Addressed
    <2>5. CASE RV620Wrote
      <3>1. /\ call.pc = "wrote" /\ engine.state = "done" /\ engine' = Idle
            /\ call'.pc = IF call.size = 0 THEN "done" ELSE "read"
        BY <2>5 DEF RV620Wrote, Counts, IsCall, NoCall
      <3>2. call.size # 0 => device.next = At
        BY <3>1 DEF Reading, Addressed
      <3>3. call.size = 0 => call.left = 0
        BY DEF Counts
      <3>. QED BY <1>0, <2>1, <2>2, <3>1, <3>2, <3>3 DEF Reading, Idle
    <2>6. CASE RV620Read
      <3>1. /\ call.pc = "read" /\ call'.pc = "reading" /\ RV620Go(<<>>, RV620Size, call.got = <<>>)
        BY <2>6 DEF RV620Read, Counts, IsCall, NoCall
      <3>2. engine.state # "running" /\ device.next = At
        BY <3>1 DEF Reading
      <3>3. Go(<<>>, RV620Size, Lead)
        <4>1. RV620Size \in Nat
          BY <1>1 DEF Counts
        <4>. QED BY <1>0, <3>1, <4>1, RV620Asks DEF Lead
      <3>4. /\ engine'.state = "running" /\ engine'.address = <<>> /\ engine'.count = RV620Size
            /\ engine'.lead = Lead
        BY <3>2, <3>3, Started
      <3>. QED BY <1>0, <2>1, <2>2, <3>1, <3>2, <3>4 DEF Reading, Fetching
    <2>7. CASE RV620Fails
      BY <2>7 DEF RV620Fails, Failed, Counts, IsCall, NoCall
    <2>. QED BY <1>3, <2>3, <2>4, <2>5, <2>6, <2>7 DEF RV620
  <1>. QED BY <1>2, <1>3

\* A call begins with nothing of the read done, on whatever is plugged in.
LEMMA Begun ==
  ASSUME Counts, call.pc \in {"none", "done"}, UNCHANGED <<gen, device, engine>>,
         NEW from \in 0 .. Bytes - 1, NEW size \in Nat, NEW what,
         call' = [Transfer(call, from, size) EXCEPT !.what = what]
  PROVE  ReadsRight'
  <1>1. /\ IsCall(call') /\ call'.pc = "begin" /\ call'.from = from /\ call'.offset = from /\ call'.size = size
        /\ call'.left = size /\ call'.got = <<>> /\ call'.ok /\ ~call'.overrun
    BY DEF Transfer, Counts, IsCall, NoCall
  <1>2. from \in Nat /\ Had' = 0 /\ At' = from
    <2>1. from \in Nat
      BY I2CAssumption
    <2>2. Had' = 0
      BY <1>1 DEF Had
    <2>3. from + 0 = from
      BY <2>1
    <2>. QED BY <1>1, <2>1, <2>2, <2>3, WrapsSmall DEF At
  <1>3. Counts'
    BY <1>1, <1>2 DEF Counts, IsDevice, IsEngine
  <1>4. ASSUME NEW k \in Kinds, device.kind \in {k, "none"} PROVE Reading(k)'
    <2>1. Held(k, from, 0) = <<>>
      BY DEF Held
    <2>. QED BY <1>1, <1>2, <1>4, <2>1 DEF Reading
  <1>5. \E k \in Kinds : device.kind \in {k, "none"}
    BY DEF Kinds, Counts
  <1>. QED BY <1>3, <1>4, <1>5 DEF ReadsRight
LEMMA CallReads == ReadsRight /\ (Call \/ Return) => ReadsRight'
  <1>. SUFFICES ASSUME ReadsRight, Call \/ Return PROVE ReadsRight'
    OBVIOUS
  <1>0. Counts /\ 0 \in 0 .. Bytes - 1
    BY I2CAssumption DEF ReadsRight
  <1>1. CASE Call
    <2>0. call.pc = "none" /\ UNCHANGED <<gen, device, engine>>
      BY <1>1 DEF Call
    <2>1. CASE call' = [Transfer(call, 0, 0) EXCEPT !.what = "probe"]
      BY <1>0, <2>0, <2>1, Begun
    <2>2. ASSUME NEW r \in Reads, call' = [Transfer(call, r[1], r[2]) EXCEPT !.what = "read"]
          PROVE  ReadsRight'
      <3>1. r[1] \in 0 .. Bytes - 1 /\ r[2] \in Nat
        BY I2CAssumption
      <3>. QED BY <1>0, <2>0, <2>2, <3>1, Begun
    <2>. QED BY <1>1, <2>1, <2>2 DEF Call
  <1>2. CASE Return
    <2>0. call.pc = "done" /\ UNCHANGED <<gen, device, engine>>
      BY <1>2 DEF Return
    <2>1. CASE call' = [Transfer(call, 0, Len(Header)) EXCEPT !.what = "header"]
      <3>1. Len(Header) \in Nat
        BY DEF Header
      <3>. QED BY <1>0, <2>0, <2>1, <3>1, Begun
    <2>2. CASE call' = NoCall
      <3>1. /\ IsCall(call') /\ call'.pc = "none" /\ call'.from = 0 /\ call'.size = 0 /\ call'.left = 0
            /\ call'.offset = 0 /\ ~call'.overrun
        BY <2>2 DEF NoCall, IsCall
      <3>2. At' = 0
        <4>1. Had' = 0 /\ 0 + 0 = 0
          BY <3>1 DEF Had
        <4>. QED BY <1>0, <3>1, <4>1, WrapsSmall DEF At
      <3>3. gen \in {"rs690", "r6xx"} => engine.state # "running"
        BY <1>0, <2>0 DEF Counts
      <3>4. Counts'
        BY <1>0, <2>0, <3>1, <3>2, <3>3 DEF Counts, IsDevice, IsEngine
      <3>. QED BY <3>1, <3>4 DEF ReadsRight, Good
    <2>. QED BY <1>2, <2>1, <2>2 DEF Return
  <1>. QED BY <1>1, <1>2

LEMMA ReadsInit == Init => ReadsRight
  <1>. SUFFICES ASSUME Init PROVE ReadsRight
    OBVIOUS
  <1>1. gen \in {"r5xx", "rs690", "r6xx", "rv620"} /\ call = NoCall /\ engine = Idle
        /\ device = [kind |-> "none", next |-> 0]
    BY MachinesAssumption DEF Init, I2CInit
  <1>2. /\ IsCall(call) /\ call.pc = "none" /\ call.from = 0 /\ call.size = 0 /\ call.left = 0
        /\ call.offset = 0 /\ ~call.overrun /\ IsEngine(engine) /\ engine.state = "idle"
        /\ IsDevice(device) /\ device.kind = "none"
    BY <1>1 DEF NoCall, IsCall, IsEngine, Idle, IsDevice
  <1>3. 0 \in 0 .. Bytes - 1
    BY I2CAssumption
  <1>4. At = 0
    <2>1. Had = 0 /\ 0 + 0 = 0
      BY <1>2 DEF Had
    <2>. QED BY <1>2, <1>3, <2>1, WrapsSmall DEF At
  <1>5. Counts
    BY <1>1, <1>2, <1>3, <1>4 DEF Counts
  <1>. QED BY <1>2, <1>5 DEF ReadsRight, Good

\* A step of the driver or the card within a call.
LEMMA TransferReads ==
  ASSUME ReadsRight, Counts', UNCHANGED gen, call'.ok /\ ~call'.overrun /\ call'.pc # "none" => Good,
         \A k \in Kinds : Reading(k) /\ Good /\ Good' => Reading(k)'
  PROVE  ReadsRight'
  BY DEF ReadsRight, Good

LEMMA ReadsNext == ReadsRight /\ [Next]_<<i2c, power>> => ReadsRight'
  <1>. SUFFICES ASSUME ReadsRight, [Next]_<<i2c, power>> PROVE ReadsRight'
    OBVIOUS
  <1>0. Counts
    BY DEF ReadsRight
  <1>1. CASE PreInit \/ PmInit \/ PmInitFails \/ EnterVT \/ LeaveVT \/ ConsoleSets \/ UNCHANGED <<i2c, power>>
    <2>1. UNCHANGED <<gen, device, engine, call>>
      BY <1>1 DEF PreInit, PmInit, PmInitFails, EnterVT, LeaveVT, ConsoleSets, i2c
    <2>2. Counts' /\ (Good' <=> Good) /\ \A k : Reading(k)' <=> Reading(k)
      BY <1>0, <2>1 DEF Counts, IsCall, IsDevice, IsEngine, Good, Reading, Addressed, Fetching, At, Had, Asked, Lead,
                        ChunkSize, RV620Size, Held
    <2>. QED BY <2>2 DEF ReadsRight
  <1>2. CASE Answer \/ NoAnswer \/ Grant \/ HardwareUses \/ HardwareDone \/ Unplug \/ Plug
    <2>1. UNCHANGED <<gen, call>>
      BY <1>2 DEF Answer, NoAnswer, Grant, HardwareUses, HardwareDone, Unplug, Plug
    <2>2. \A k \in Kinds : Reading(k) /\ Good => Reading(k)'
      BY <1>0, <1>2, CardReads DEF Good
    <2>. QED BY <1>0, <1>2, <2>1, <2>2, CardCounts, TransferReads DEF Good
  <1>3. CASE Call \/ Return
    BY <1>3, CallReads
  <1>4. CASE R5xx
    <2>1. /\ UNCHANGED gen /\ (call'.ok => call.ok) /\ call'.overrun = call.overrun /\ call.pc # "none"
      BY <1>0, <1>4 DEF R5xx, R5xxAsk, R5xxTake, R5xxRefused, R5xxWrite, R5xxWrote, R5xxRead, R5xxFails, R5xxExit,
           R5xxRestore, Failed, Counts, IsCall, NoCall
    <2>2. \A k \in Kinds : Reading(k) /\ Good /\ Good' => Reading(k)'
      BY <1>0, <1>4, R5xxReads DEF Good
    <2>. QED BY <1>0, <1>4, <2>1, <2>2, R5xxCounts, TransferReads DEF Good
  <1>5. CASE R6xx
    <2>1. /\ UNCHANGED gen /\ (call'.ok => call.ok) /\ call'.overrun = call.overrun /\ call.pc # "none"
      BY <1>0, <1>5 DEF R6xx, R6xxGo, R6xxEnd, Failed, Counts, IsCall, NoCall
    <2>2. \A k \in Kinds : Reading(k) /\ Good /\ Good' => Reading(k)'
      BY <1>0, <1>5, R6xxKeep DEF Good
    <2>. QED BY <1>0, <1>5, <2>1, <2>2, R6xxKeep, TransferReads DEF Good
  <1>6. CASE RV620
    <2>1. /\ UNCHANGED gen /\ (call'.ok => call.ok) /\ call.pc # "none"
          /\ call.pc = "begin" \/ call'.overrun = call.overrun
      BY <1>0, <1>6 DEF RV620, RV620Setup, RV620Write, RV620Wrote, RV620Read, RV620Fetch, RV620Fails, Failed,
           Counts, IsCall, NoCall
    <2>2. call.pc = "begin" => ~call.overrun
      BY <1>0 DEF Counts
    <2>3. \A k \in Kinds : Reading(k) /\ Good /\ Good' => Reading(k)'
      BY <1>0, <1>6, RV620Reads DEF Good
    <2>. QED BY <1>0, <1>6, <2>1, <2>2, <2>3, RV620Counts, TransferReads DEF Good
  <1>. QED BY <1>1, <1>2, <1>3, <1>4, <1>5, <1>6 DEF Next, Probing, Transfers

\* A read that succeeds returns what the monitor holds, in order and whole (rhd_i2c.c:569-614, 704-792, 882-969,
\* 1034-1132): for every size of the buffers, every read, and whatever was given up before it.
THEOREM ReadsHold == Spec => []ReadRight
  <1>1. ReadsRight => ReadRight
    <2>. SUFFICES ASSUME ReadsRight, call.pc = "done", call.ok, ~call.overrun
                  PROVE  \E k \in Kinds : call.got = Held(k, call.from, call.size)
      BY DEF ReadRight, Kinds, Held
    <2>1. PICK k \in Kinds : Reading(k)
      BY DEF ReadsRight, Good
    <2>2. Had = call.size
      BY <2>1 DEF Reading, ReadsRight, Counts, Had
    <2>. QED BY <2>1, <2>2 DEF Reading
  <1>. QED BY <1>1, ReadsInit, ReadsNext, PTL DEF Spec
-----------------------------------------------------------------------------
(* The engine clock: what the driver may set it to *)

Pms == [min : Settings, max : Settings, default : Settings, idle : Settings, stored : Settings, current : Settings]
Validated == {"min", "max", "default", "idle", "current"}
Clock == {"engine", "memory"}

LEMMA LimitedClock ==
  ASSUME NEW c \in Nat, NEW low \in Nat, NEW high \in Nat, NEW d \in Nat
  PROVE  LET v == Limited(c, low, high, d)
         IN  /\ v \in Nat /\ v <= CompareMax
             \* A maximum that makes sense, if there is one, and a default that does, if it is needed.
             /\ (high = 0 \/ high >= CompareMin) /\ (d = 0 \/ d >= CompareMin) => v = 0 \/ Sensible(v)
             /\ high = 0 /\ c <= CompareMax /\ low <= CompareMax => Sensible(v)
             /\ high = 0 /\ c <= CompareMax /\ low <= c /\ c >= CompareMin => v = c
             /\ high = 0 /\ low > CompareMax /\ (d = 0 \/ d > CompareMax) => v = 0
             \* Within a range that makes sense.
             /\ Sensible(high) => v \in CompareMin .. high
             /\ Sensible(high) /\ low <= high => v >= low
  BY PowerAssumption DEF Limited, Raised, Lowered, Sensible

LEMMA ValidateClockPm ==
  ASSUME NEW p \in Pms, NEW s \in Validated, NEW f \in Clock
  PROVE  LET Other(t, same) == IF t = s THEN same ELSE p[t][f]
             q == ValidateClock(p, s, f)
         IN  /\ q \in Pms
             /\ q[s][f] = Limited(IF p[s][f] = 0 THEN p.current[f] ELSE p[s][f],
                                  Other("min", 0), Other("max", 0), Other("default", CompareMax + 1))
             /\ \A g \in Clock \ {f} : q[s][g] = p[s][g]
             /\ \A t \in (Validated \union {"stored"}) \ {s} : q[t] = p[t]
  <1>. DEFINE Other(t, same) == IF t = s THEN same ELSE p[t][f]
              c == IF p[s][f] = 0 THEN p.current[f] ELSE p[s][f]
              v == Limited(c, Other("min", 0), Other("max", 0), Other("default", CompareMax + 1))
  <1>1. \A t \in Validated : p[t] \in Settings /\ p[t][f] \in Nat
    BY DEF Pms, Settings, Validated, Clock
  <1>2. c \in Nat /\ \A t \in Validated : \A same \in Nat : Other(t, same) \in Nat
    BY <1>1 DEF Validated
  <1>3. v \in Nat
    <2>1. 0 \in Nat /\ CompareMax + 1 \in Nat /\ "min" \in Validated /\ "max" \in Validated /\ "default" \in Validated
      BY PowerAssumption DEF Validated
    <2>2. Other("min", 0) \in Nat /\ Other("max", 0) \in Nat /\ Other("default", CompareMax + 1) \in Nat
      BY <1>2, <2>1
    <2>. HIDE DEF c, Other
    <2>. QED BY <1>2, <2>2, LimitedClock
  <1>4. ValidateClock(p, s, f) = [p EXCEPT ![s][f] = v]
    BY DEF ValidateClock, Put
  <1>. HIDE DEF v
  <1>5. /\ [p EXCEPT ![s][f] = v] \in Pms
        /\ [p EXCEPT ![s][f] = v][s][f] = v
        /\ \A g \in Clock \ {f} : [p EXCEPT ![s][f] = v][s][g] = p[s][g]
        /\ \A t \in (Validated \union {"stored"}) \ {s} : [p EXCEPT ![s][f] = v][t] = p[t]
    BY <1>3 DEF Pms, Settings, Validated, Clock
  <1>. QED BY <1>4, <1>5 DEF v
LEMMA ValidatePm ==
  ASSUME NEW p \in Pms, NEW s \in Validated
  PROVE  LET Other(t, same) == IF t = s THEN same ELSE p[t].engine
             q == Validate(p, s)
         IN  /\ q \in Pms
             /\ q[s].engine = Limited(IF p[s].engine = 0 THEN p.current.engine ELSE p[s].engine,
                                     Other("min", 0), Other("max", 0), Other("default", CompareMax + 1))
             /\ \A t \in (Validated \union {"stored"}) \ {s} : q[t] = p[t]
  <1>. DEFINE q == ValidateClock(p, s, "engine")
  <1>0. "engine" \in Clock /\ "memory" \in Clock \ {"engine"} /\ "engine" \in Clock \ {"memory"}
    BY DEF Clock
  <1>1. q \in Pms
    BY <1>0, ValidateClockPm
  <1>2. Validate(p, s) = ValidateClock(q, s, "memory")
    BY DEF Validate
  <1>3. /\ q[s].engine = LET Other(t, same) == IF t = s THEN same ELSE p[t].engine
                         IN  Limited(IF p[s].engine = 0 THEN p.current.engine ELSE p[s].engine,
                                     Other("min", 0), Other("max", 0), Other("default", CompareMax + 1))
        /\ \A t \in (Validated \union {"stored"}) \ {s} : q[t] = p[t]
    BY <1>0, ValidateClockPm
  <1>. HIDE DEF q
  <1>4. /\ ValidateClock(q, s, "memory") \in Pms
        /\ ValidateClock(q, s, "memory")[s].engine = q[s].engine
        /\ \A t \in (Validated \union {"stored"}) \ {s} : ValidateClock(q, s, "memory")[t] = q[t]
    BY <1>0, <1>1, ValidateClockPm
  <1>. QED BY <1>2, <1>3, <1>4

\* The range that the limits, the default and the current clock make.
Top(high, d, c) == Raised(Raised(high, d), c)
Filled(x, by) == IF x = 0 THEN by ELSE Lowered(x, by)
Bottom(low, d, c) == Filled(Filled(low, d), c)
OrCurrent(x, c) == IF x = 0 THEN c ELSE x
NewMax(low, high, d, c) == Limited(OrCurrent(Top(high, d, c), c), Bottom(low, d, c), 0, d)

LEMMA MaximumRight ==
  ASSUME NEW low \in Nat, NEW high \in Nat, NEW default \in Nat, NEW c \in Nat, NEW d \in Nat,
         c = 0 \/ Sensible(c), d = default \/ d = c
  PROVE  LET max == NewMax(low, high, d, c)
         IN  /\ max \in Nat /\ max <= CompareMax
             /\ Sensible(high) \/ Sensible(default) => max = 0 \/ Sensible(max)
             /\ Sensible(high) /\ Sensible(default) /\ (low <= CompareMax \/ d = default)
                  => Sensible(max) /\ d <= max /\ c <= max
  <1>. DEFINE t == Top(high, d, c)
              b == Bottom(low, d, c)
              x == OrCurrent(t, c)
              max == NewMax(low, high, d, c)
  <1>1. t \in Nat /\ high <= t /\ d <= t /\ c <= t /\ t \in {high, d, c}
    BY DEF Top, Raised
  <1>2. b \in Nat /\ b \in {low, d, c} /\ (d # 0 => b <= d) /\ (c # 0 => b <= c)
    BY DEF Bottom, Filled, Lowered
  <1>3. x \in Nat /\ (t # 0 => x = t) /\ (t = 0 => x = c)
    BY <1>1 DEF OrCurrent
  <1>4. max = Limited(x, b, 0, d)
    BY DEF NewMax
  <1>. HIDE DEF t, b, x, max
  <1>5. /\ max \in Nat /\ max <= CompareMax
        /\ d = 0 \/ d >= CompareMin => max = 0 \/ Sensible(max)
        /\ x <= CompareMax /\ b <= CompareMax => Sensible(max)
        /\ x <= CompareMax /\ b <= x /\ x >= CompareMin => max = x
    <2>1. x \in Nat /\ b \in Nat /\ 0 \in Nat
      BY <1>1, <1>2, <1>3
    <2>. DEFINE v == Limited(x, b, 0, d)
    <2>2. /\ v \in Nat /\ v <= CompareMax
          /\ (0 = 0 \/ 0 >= CompareMin) /\ (d = 0 \/ d >= CompareMin) => v = 0 \/ Sensible(v)
          /\ 0 = 0 /\ x <= CompareMax /\ b <= CompareMax => Sensible(v)
          /\ 0 = 0 /\ x <= CompareMax /\ b <= x /\ x >= CompareMin => v = x
          /\ 0 = 0 /\ b > CompareMax /\ (d = 0 \/ d > CompareMax) => v = 0
          /\ Sensible(0) => v \in CompareMin .. 0
          /\ Sensible(0) /\ b <= 0 => v >= b
      BY <2>1, LimitedClock
    <2>. HIDE DEF v
    <2>3. max = v
      BY <1>4 DEF v
    <2>. QED BY <2>2, <2>3
  <1>6. Sensible(high) \/ Sensible(default) => max = 0 \/ Sensible(max)
    <2>1. CASE d = 0 \/ d >= CompareMin
      BY <2>1, <1>5
    <2>2. CASE d # 0 /\ d < CompareMin
      <3>1. d = default /\ ~Sensible(default)
        BY <2>2, PowerAssumption DEF Sensible
      <3>2. b <= CompareMax
        BY <2>2, <1>2, PowerAssumption
      <3>3. Sensible(high) => x <= CompareMax
        BY <2>2, <1>1, <1>3, PowerAssumption DEF Sensible
      <3>. QED BY <3>1, <3>2, <3>3, <1>5
    <2>. QED BY <2>1, <2>2, PowerAssumption
  <1>7. Sensible(high) /\ Sensible(default) /\ (low <= CompareMax \/ d = default)
          => Sensible(max) /\ d <= max /\ c <= max
    <2>. SUFFICES ASSUME Sensible(high), Sensible(default), low <= CompareMax \/ d = default
                  PROVE  Sensible(max) /\ d <= max /\ c <= max
      OBVIOUS
    <2>1. x = t /\ Sensible(x)
      BY <1>1, <1>3, PowerAssumption DEF Sensible
    <2>2. CASE d # 0
      <3>1. max = x
        BY <2>1, <2>2, <1>1, <1>2, <1>5, PowerAssumption DEF Sensible
      <3>. QED BY <3>1, <2>1, <1>1
    <2>3. CASE d = 0
      <3>1. c = 0 /\ low <= CompareMax
        BY <2>3, PowerAssumption DEF Sensible
      <3>2. Sensible(max)
        BY <2>1, <2>3, <3>1, <1>2, <1>5, PowerAssumption DEF Sensible
      <3>. QED BY <2>3, <3>1, <3>2, <1>5
    <2>. QED BY <2>2, <2>3
  <1>. QED BY <1>5, <1>6, <1>7 DEF max

\* A finite set of clocks has a highest and a lowest.
LEMMA LeastOf ==
  ASSUME NEW T, T \subseteq Nat, T # {}
  PROVE  Min(T) \in T /\ \A y \in T : Min(T) <= y
  <1>1. PICK x \in T : \A y \in T : <<y, x>> \notin OpToRel(<, Nat)
    BY NatLessThanWellFounded, WFMin
  <1>2. \A y \in Nat : y < x => <<y, x>> \in OpToRel(<, Nat)
    BY DEF OpToRel
  <1>3. \A y \in T : x <= y
    <2>. SUFFICES ASSUME NEW y \in T PROVE ~(y < x)
      OBVIOUS
    <2>1. <<y, x>> \notin OpToRel(<, Nat) /\ y \in Nat
      BY <1>1
    <2>. QED BY <1>2, <2>1
  <1>. QED BY <1>3 DEF Min

LEMMA GreatestOf ==
  ASSUME NEW n \in Nat, NEW T, T \subseteq 0 .. n, T # {}
  PROVE  Max(T) \in T /\ \A y \in T : Max(T) >= y
  <1>. DEFINE U == {n - y : y \in T}
  <1>1. U \subseteq Nat /\ U # {}
    <2>1. \A y \in T : n - y \in Nat
      OBVIOUS
    <2>2. PICK y \in T : TRUE
      OBVIOUS
    <2>3. n - y \in U
      OBVIOUS
    <2>. QED BY <2>1, <2>3
  <1>2. PICK m \in U : \A u \in U : m <= u
    BY <1>1, LeastOf
  <1>3. PICK x \in T : m = n - x
    OBVIOUS
  <1>4. \A y \in T : x >= y
    <2>. SUFFICES ASSUME NEW y \in T PROVE x >= y
      OBVIOUS
    <2>1. n - x <= n - y
      BY <1>2, <1>3
    <2>. QED BY <2>1
  <1>. QED BY <1>4 DEF Max
LEMMA KnownPm ==
  ASSUME NEW p \in Pms, NEW S \in SUBSET Settings
  PROVE  LET q == Known(p, S)
         IN  /\ q \in Pms /\ \A t \in {"default", "idle", "stored", "current"} : q[t] = p[t]
             /\ p.max.engine <= q.max.engine /\ (q.max.engine = p.max.engine \/ Sensible(q.max.engine))
             /\ q.min.engine <= p.min.engine /\ (q.min.engine = p.min.engine \/ q.min.engine >= CompareMin)
  <1>. DEFINE Clocks(f) == {ClearClock(s[f]) : s \in S}
              q == Known(p, S)
  <1>1. \A f \in Clock : p.max[f] \in Nat /\ p.min[f] \in Nat
    BY DEF Pms, Settings, Clock
  <1>2. \A f \in Clock : \A x \in Clocks(f) : x \in Nat /\ (x = 0 \/ Sensible(x))
    BY PowerAssumption DEF ClearClock, Sensible, Settings, Clock
  <1>. HIDE DEF Clocks
  <1>3. ASSUME NEW f \in Clock
        PROVE  LET h == Highest(p.max[f], Clocks(f))
                   l == Lowest(p.min[f], Clocks(f))
               IN  /\ h \in Nat /\ p.max[f] <= h /\ (h = p.max[f] \/ Sensible(h))
                   /\ l \in Nat /\ l <= p.min[f] /\ (l = p.min[f] \/ l >= CompareMin)
    <2>. DEFINE T == {p.max[f]} \union Clocks(f)
                U == {p.min[f]} \union (Clocks(f) \ {0})
    <2>1. T \subseteq 0 .. (p.max[f] + CompareMax)
      BY <1>1, <1>2, PowerAssumption DEF Sensible
    <2>2. Max(T) \in T /\ \A y \in T : Max(T) >= y
      <3>1. p.max[f] + CompareMax \in Nat /\ T # {}
        BY <1>1, PowerAssumption
      <3>. HIDE DEF T
      <3>. QED BY <2>1, <3>1, GreatestOf
    <2>3. U \subseteq Nat /\ U # {}
      BY <1>1, <1>2
    <2>4. Min(U) \in U /\ \A y \in U : Min(U) <= y
      <3>. HIDE DEF U
      <3>. QED BY <2>3, LeastOf
    <2>. QED BY <1>1, <1>2, <2>2, <2>4, PowerAssumption DEF Highest, Lowest, Sensible
  <1>4. q = [p EXCEPT !.max = State(Highest(p.max.engine, Clocks("engine")), Highest(p.max.memory, Clocks("memory"))),
                      !.min = State(Lowest(p.min.engine, Clocks("engine")), Lowest(p.min.memory, Clocks("memory")))]
    BY DEF Known, Clocks, Pms, Settings
  <1>. DEFINE hi == State(Highest(p.max.engine, Clocks("engine")), Highest(p.max.memory, Clocks("memory")))
              lo == State(Lowest(p.min.engine, Clocks("engine")), Lowest(p.min.memory, Clocks("memory")))
  <1>5. /\ hi \in Settings /\ p.max.engine <= hi.engine /\ (hi.engine = p.max.engine \/ Sensible(hi.engine))
        /\ lo \in Settings /\ lo.engine <= p.min.engine /\ (lo.engine = p.min.engine \/ lo.engine >= CompareMin)
    BY <1>3 DEF State, Settings, Clock
  <1>6. q = [p EXCEPT !.max = hi, !.min = lo]
    BY <1>4
  <1>. HIDE DEF q, hi, lo
  <1>7. /\ q \in Pms /\ \A t \in {"default", "idle", "stored", "current"} : q[t] = p[t]
        /\ q.max = hi /\ q.min = lo
    BY <1>5, <1>6 DEF Pms
  <1>. QED BY <1>5, <1>7 DEF q

LEMMA FillPm ==
  ASSUME NEW p \in Pms, NEW s \in Settings
  PROVE  /\ FillMin(p, s) \in Pms /\ FillMin(p, s).min.engine = Filled(p.min.engine, s.engine)
         /\ \A t \in {"max", "default", "idle", "stored", "current"} : FillMin(p, s)[t] = p[t]
  <1>. DEFINE m == State(Filled(p.min.engine, s.engine), Filled(p.min.memory, s.memory))
  <1>1. m \in Settings /\ m.engine = Filled(p.min.engine, s.engine)
    BY DEF Pms, Settings, State, Filled, Lowered
  <1>2. FillMin(p, s) = [p EXCEPT !.min = m]
    BY DEF FillMin, Filled
  <1>. HIDE DEF m
  <1>. QED BY <1>1, <1>2 DEF Pms

\* The limits, the default and the current clock make a range and a default within it.
LEMMA RangeRight ==
  ASSUME NEW p \in Pms, NEW known \in Seq(Settings), known = card.bios.known,
         NEW default \in Nat, p.current.engine = 0 \/ Sensible(p.current.engine),
         p.default.engine = default \/ p.default.engine = p.current.engine
  PROVE  LET q == ValidateMinMax(p)
         IN  /\ q \in Pms /\ q.current = p.current /\ q.stored = p.stored
             /\ Sensible(p.max.engine) \/ Sensible(default) =>
                  /\ q.default.engine = 0 \/ Sensible(q.default.engine)
                  /\ q.max.engine = 0 \/ Sensible(q.max.engine)
             /\ Sensible(p.max.engine) /\ Sensible(default)
                /\ (p.min.engine <= CompareMax \/ p.default.engine = default) =>
                  /\ Sensible(q.max.engine) /\ q.min.engine >= CompareMin
                  /\ q.default.engine \in q.min.engine .. q.max.engine
  <1>. DEFINE low == p.min.engine
              high == p.max.engine
              d == p.default.engine
              c == p.current.engine
              raised == RaiseMax(RaiseMax(p, p.default), p.current)
              ranged == FillMin(FillMin(raised, p.default), p.current)
              w1 == Validate(ranged, "max")
              w2 == Validate(w1, "min")
              w3 == Validate(w2, "default")
              q == Known(w3, Range(known))
  <1>0. low \in Nat /\ high \in Nat /\ d \in Nat /\ c \in Nat
    BY DEF Pms, Settings
  <1>1. ValidateMinMax(p) = q
    BY DEF ValidateMinMax
  <1>2. /\ raised \in Pms /\ raised.max.engine = Top(high, d, c)
        /\ \A t \in {"min", "default", "idle", "stored", "current"} : raised[t] = p[t]
    BY DEF RaiseMax, Raised, State, Top, Pms, Settings
  <1>. HIDE DEF raised
  <1>3. /\ ranged \in Pms /\ ranged.min.engine = Bottom(low, d, c) /\ ranged.max.engine = Top(high, d, c)
        /\ \A t \in {"default", "idle", "stored", "current"} : ranged[t] = p[t]
    <2>. DEFINE half == FillMin(raised, p.default)
    <2>1. p.default \in Settings /\ p.current \in Settings
      BY DEF Pms
    <2>2. /\ half \in Pms /\ half.min.engine = Filled(low, d) /\ half.max.engine = Top(high, d, c)
          /\ \A t \in {"default", "idle", "stored", "current"} : half[t] = p[t]
      BY <1>2, <2>1, FillPm
    <2>. HIDE DEF half
    <2>3. /\ FillMin(half, p.current) \in Pms /\ FillMin(half, p.current).min.engine = Filled(half.min.engine, c)
          /\ \A t \in {"max", "default", "idle", "stored", "current"} : FillMin(half, p.current)[t] = half[t]
      BY <2>1, <2>2, FillPm
    <2>. QED BY <2>2, <2>3 DEF half, Bottom
  <1>. HIDE DEF ranged
  <1>4. /\ w1 \in Pms /\ w1.max.engine = NewMax(low, high, d, c)
        /\ \A t \in {"min", "default", "stored", "current"} : w1[t] = ranged[t]
    <2>1. "max" \in Validated
      BY DEF Validated
    <2>2. /\ w1 \in Pms
          /\ w1.max.engine = Limited(IF ranged.max.engine = 0 THEN ranged.current.engine ELSE ranged.max.engine,
                                     ranged.min.engine, 0, ranged.default.engine)
          /\ \A t \in (Validated \union {"stored"}) \ {"max"} : w1[t] = ranged[t]
      BY <1>3, <2>1, ValidatePm
    <2>. HIDE DEF w1
    <2>. QED BY <1>3, <2>2 DEF NewMax, OrCurrent, Validated
  <1>. HIDE DEF w1
  <1>5. /\ w2 \in Pms /\ w2.min.engine = Limited(OrCurrent(Bottom(low, d, c), c), 0, w1.max.engine, d)
        /\ \A t \in {"max", "default", "stored", "current"} : w2[t] = w1[t]
    <2>1. "min" \in Validated
      BY DEF Validated
    <2>2. /\ w2 \in Pms
          /\ w2.min.engine = Limited(IF w1.min.engine = 0 THEN w1.current.engine ELSE w1.min.engine,
                                     0, w1.max.engine, w1.default.engine)
          /\ \A t \in (Validated \union {"stored"}) \ {"min"} : w2[t] = w1[t]
      BY <1>4, <2>1, ValidatePm
    <2>. HIDE DEF w2
    <2>. QED BY <1>3, <1>4, <2>2 DEF OrCurrent, Validated
  <1>. HIDE DEF w2
  <1>6. /\ w3 \in Pms /\ w3.default.engine = Limited(OrCurrent(d, c), w2.min.engine, w1.max.engine, CompareMax + 1)
        /\ \A t \in {"max", "min", "stored", "current"} : w3[t] = w2[t]
    <2>1. "default" \in Validated
      BY DEF Validated
    <2>2. /\ w3 \in Pms
          /\ w3.default.engine = Limited(IF w2.default.engine = 0 THEN w2.current.engine ELSE w2.default.engine,
                                         w2.min.engine, w2.max.engine, CompareMax + 1)
          /\ \A t \in (Validated \union {"stored"}) \ {"default"} : w3[t] = w2[t]
      BY <1>5, <2>1, ValidatePm
    <2>. HIDE DEF w3
    <2>. QED BY <1>3, <1>4, <1>5, <2>2 DEF OrCurrent, Validated
  <1>. HIDE DEF w3
  <1>7. /\ q \in Pms /\ \A t \in {"default", "stored", "current"} : q[t] = w3[t]
        /\ w3.max.engine <= q.max.engine /\ (q.max.engine = w3.max.engine \/ Sensible(q.max.engine))
        /\ q.min.engine <= w3.min.engine /\ (q.min.engine = w3.min.engine \/ q.min.engine >= CompareMin)
    <2>1. Range(known) \in SUBSET Settings
      BY DEF Range
    <2>. QED BY <1>6, <2>1, KnownPm
  <1>. HIDE DEF q
  <1>8. PICK max \in Nat, min \in Nat, def \in Nat :
               max = w3.max.engine /\ min = w3.min.engine /\ def = w3.default.engine
    BY <1>6 DEF Pms, Settings
  <1>9. /\ max = NewMax(low, high, d, c)
        /\ min = Limited(OrCurrent(Bottom(low, d, c), c), 0, max, d)
        /\ def = Limited(OrCurrent(d, c), min, max, CompareMax + 1)
    BY <1>4, <1>5, <1>6, <1>8
  <1>10. q.max.engine \in Nat /\ q.min.engine \in Nat
    BY <1>7 DEF Pms, Settings
  <1>11. /\ max <= CompareMax
         /\ Sensible(high) \/ Sensible(default) => max = 0 \/ Sensible(max)
         /\ Sensible(high) /\ Sensible(default) /\ (low <= CompareMax \/ d = default) => Sensible(max)
    BY <1>0, <1>9, MaximumRight
  <1>12. Sensible(max) => min \in CompareMin .. max
    <2>1. OrCurrent(Bottom(low, d, c), c) \in Nat /\ 0 \in Nat
      BY <1>0 DEF OrCurrent, Bottom, Filled, Lowered
    <2>. QED BY <1>0, <1>9, <2>1, LimitedClock
  <1>13. /\ max = 0 \/ max >= CompareMin => def = 0 \/ Sensible(def)
         /\ Sensible(max) /\ min <= max => def \in min .. max
    <2>1. OrCurrent(d, c) \in Nat /\ CompareMax + 1 \in Nat /\ CompareMax + 1 >= CompareMin
      BY <1>0, PowerAssumption DEF OrCurrent
    <2>. QED BY <1>9, <2>1, LimitedClock
  <1>14. q.default.engine = def /\ q.current = p.current /\ q.stored = p.stored
    BY <1>3, <1>4, <1>5, <1>6, <1>7, <1>8
  <1>15. /\ max <= q.max.engine /\ (q.max.engine = max \/ Sensible(q.max.engine))
         /\ q.min.engine <= min /\ (q.min.engine = min \/ q.min.engine >= CompareMin)
    BY <1>7, <1>8
  <1>16. Sensible(high) \/ Sensible(default) =>
           /\ def = 0 \/ Sensible(def)
           /\ q.max.engine = 0 \/ Sensible(q.max.engine)
    BY <1>8, <1>10, <1>11, <1>13, <1>15, PowerAssumption DEF Sensible
  <1>17. Sensible(high) /\ Sensible(default) /\ (low <= CompareMax \/ d = default) =>
           /\ Sensible(q.max.engine) /\ q.min.engine >= CompareMin
           /\ def \in q.min.engine .. q.max.engine
    <2>. SUFFICES ASSUME Sensible(high), Sensible(default), low <= CompareMax \/ d = default
                  PROVE  /\ Sensible(q.max.engine) /\ q.min.engine >= CompareMin
                         /\ def \in q.min.engine .. q.max.engine
      OBVIOUS
    <2>1. Sensible(max)
      BY <1>11
    <2>2. min >= CompareMin /\ min <= max /\ def >= min /\ def <= max
      BY <1>12, <1>13, <2>1
    <2>3. Sensible(q.max.engine)
      BY <1>15, <2>1
    <2>4. q.min.engine >= CompareMin
      BY <1>10, <1>15, <2>2
    <2>5. q.min.engine <= def /\ def <= q.max.engine
      BY <1>10, <1>15, <2>2, PowerAssumption DEF Sensible
    <2>. QED BY <1>8, <1>10, <2>3, <2>4, <2>5
  <1>. QED BY <1>1, <1>7, <1>14, <1>16, <1>17

\* The state that is selected when the card is idle.
InRange(p) ==
  card.user.engine >= 0 =>
    LET b == card.bios
    IN  /\ Sensible(b.max.engine) \/ Sensible(b.default.engine) => p.idle.engine = 0 \/ Sensible(p.idle.engine)
        /\ Sensible(b.max.engine) /\ Sensible(b.default.engine)
           /\ (b.min.engine <= CompareMax \/ b.default.memory # 0) => p.idle.engine \in p.min.engine .. p.max.engine

LEMMA ClearedPm ==
  ASSUME NEW s \in Settings
  PROVE  /\ ClearSetting(s) \in Settings
         /\ ClearSetting(s).engine = 0 \/ Sensible(ClearSetting(s).engine)
         /\ Sensible(s.engine) => ClearSetting(s).engine = s.engine
  BY PowerAssumption DEF ClearSetting, ClearClock, State, Settings, Sensible

LEMMA NotNoPm == NoPm \notin Pms
  BY DEF NoPm, Pms

LEMMA SelectPm ==
  ASSUME NEW p \in Pms, card.user.engine \in Int
  PROVE  LET q == SelectSettings(p)
         IN  /\ q \in Pms /\ q.min = p.min /\ q.max = p.max
             /\ card.user.engine >= 0 =>
                  \/ q.idle.engine = p.default.engine
                  \/ \E x \in Nat : q.idle.engine = Limited(x, p.min.engine, p.max.engine, p.default.engine)
  <1>. DEFINE u == card.user.engine
              p1 == [p EXCEPT !.idle = p.default]
              e == IF u = 0 THEN p1.min.engine ELSE Unsigned(u)
              p2 == Put(Put(p1, "idle", "engine", e), "idle", "memory", p1.min.memory)
              forced == Validate(p2, "idle")
  <1>1. p1 \in Pms /\ p1.min = p.min /\ p1.max = p.max /\ p1.default = p.default /\ p1.idle = p.default
    BY DEF Pms
  <1>2. SelectSettings(p) = IF ~card.user.low THEN p1 ELSE IF u < 0 THEN Put(forced, "idle", "engine", -u) ELSE forced
    BY DEF SelectSettings
  <1>. HIDE DEF p1
  <1>3. e \in Nat /\ p1.min.memory \in Nat
    BY <1>1, PowerAssumption DEF Pms, Settings, Unsigned
  <1>. HIDE DEF e
  <1>4. p2 \in Pms /\ p2.min = p.min /\ p2.max = p.max /\ p2.default = p.default
    BY <1>1, <1>3 DEF Put, Pms, Settings
  <1>. HIDE DEF p2
  <1>. DEFINE x == IF p2.idle.engine = 0 THEN p2.current.engine ELSE p2.idle.engine
  <1>5. /\ forced \in Pms /\ forced.min = p.min /\ forced.max = p.max
        /\ forced.idle.engine = Limited(x, p.min.engine, p.max.engine, p.default.engine)
    <2>1. "idle" \in Validated
      BY DEF Validated
    <2>2. /\ forced \in Pms
          /\ forced.idle.engine = Limited(x, p2.min.engine, p2.max.engine, p2.default.engine)
          /\ \A t \in (Validated \union {"stored"}) \ {"idle"} : forced[t] = p2[t]
      BY <1>4, <2>1, ValidatePm
    <2>. HIDE DEF forced, x
    <2>. QED BY <1>4, <2>2 DEF Validated
  <1>6. x \in Nat
    BY <1>4 DEF Pms, Settings
  <1>. HIDE DEF forced, x
  <1>7. u < 0 => /\ Put(forced, "idle", "engine", -u) \in Pms
                 /\ Put(forced, "idle", "engine", -u).min = p.min /\ Put(forced, "idle", "engine", -u).max = p.max
    BY <1>5 DEF Put, Pms, Settings
  <1>. QED BY <1>1, <1>2, <1>5, <1>6, <1>7

\* Whatever the BIOS tells and the user asks for, the states are made so that the idle one is in range.
LEMMA PmInRange ==
  ASSUME card \in Machines, clock \in Nat
  PROVE  PmOf \in Pms /\ InRange(PmOf)
  <1>. DEFINE b == card.bios
              c == ClearSetting(RawState(b.default))
              p == [min |-> b.min, max |-> b.max, default |-> b.default, idle |-> b.default, stored |-> State(0, 0),
                    current |-> c]
              q == IF p.default.engine = 0 \/ p.default.memory = 0 THEN [p EXCEPT !.default = p.current] ELSE p
              m == ValidateMinMax(q)
              v == Validate(m, "current")
  <1>1. /\ b.min \in Settings /\ b.max \in Settings /\ b.default \in Settings /\ b.known \in Seq(Settings)
        /\ b.memory \in Nat /\ card.user.engine \in Int
    BY MachinesAssumption
  <1>2. PmOf = SelectSettings(v)
    BY DEF PmOf
  <1>3. c \in Settings /\ (c.engine = 0 \/ Sensible(c.engine))
    <2>1. RawState(b.default) \in Settings
      BY <1>1 DEF RawState, State, Settings
    <2>. QED BY <2>1, ClearedPm
  <1>. HIDE DEF c
  <1>4. /\ q \in Pms /\ q.min = b.min /\ q.max = b.max /\ q.current = c
        /\ q.default = b.default \/ q.default = c
        /\ b.default.engine # 0 /\ b.default.memory # 0 => q.default = b.default
    BY <1>1, <1>3 DEF Pms, State, Settings
  <1>. HIDE DEF q
  <1>5. /\ m \in Pms
        /\ Sensible(b.max.engine) \/ Sensible(b.default.engine) =>
             /\ m.default.engine = 0 \/ Sensible(m.default.engine)
             /\ m.max.engine = 0 \/ Sensible(m.max.engine)
        /\ Sensible(b.max.engine) /\ Sensible(b.default.engine)
           /\ (b.min.engine <= CompareMax \/ q.default.engine = b.default.engine) =>
             /\ Sensible(m.max.engine) /\ m.min.engine >= CompareMin
             /\ m.default.engine \in m.min.engine .. m.max.engine
    <2>1. PICK known \in Seq(Settings), default \in Nat : known = card.bios.known /\ default = b.default.engine
      BY <1>1 DEF Settings
    <2>2. q.current.engine = 0 \/ Sensible(q.current.engine)
      BY <1>3, <1>4
    <2>3. q.default.engine = default \/ q.default.engine = q.current.engine
      BY <1>4, <2>1
    <2>4. /\ m \in Pms /\ m.current = q.current /\ m.stored = q.stored
          /\ Sensible(q.max.engine) \/ Sensible(default) =>
               /\ m.default.engine = 0 \/ Sensible(m.default.engine)
               /\ m.max.engine = 0 \/ Sensible(m.max.engine)
          /\ Sensible(q.max.engine) /\ Sensible(default)
             /\ (q.min.engine <= CompareMax \/ q.default.engine = default) =>
               /\ Sensible(m.max.engine) /\ m.min.engine >= CompareMin
               /\ m.default.engine \in m.min.engine .. m.max.engine
      BY <1>4, <2>1, <2>2, <2>3, RangeRight
    <2>. HIDE DEF m, b
    <2>5. q.max = b.max /\ q.min = b.min
      BY <1>4
    <2>. QED BY <2>1, <2>4, <2>5
  <1>. HIDE DEF m
  <1>6. v \in Pms /\ v.min = m.min /\ v.max = m.max /\ v.default = m.default
    <2>1. "current" \in Validated
      BY DEF Validated
    <2>2. v \in Pms /\ \A t \in (Validated \union {"stored"}) \ {"current"} : v[t] = m[t]
      BY <1>5, <2>1, ValidatePm
    <2>. QED BY <2>2 DEF Validated
  <1>. HIDE DEF v
  <1>. DEFINE r == SelectSettings(v)
  <1>7. /\ r \in Pms /\ r.min = m.min /\ r.max = m.max
        /\ card.user.engine >= 0 =>
             \/ r.idle.engine = m.default.engine
             \/ \E x \in Nat : r.idle.engine = Limited(x, m.min.engine, m.max.engine, m.default.engine)
    BY <1>1, <1>6, SelectPm
  <1>. HIDE DEF r
  <1>8. PICK low \in Nat, high \in Nat, d \in Nat : low = m.min.engine /\ high = m.max.engine /\ d = m.default.engine
    BY <1>5 DEF Pms, Settings
  <1>9. ASSUME card.user.engine >= 0, Sensible(b.max.engine) \/ Sensible(b.default.engine)
        PROVE  r.idle.engine = 0 \/ Sensible(r.idle.engine)
    <2>1. (d = 0 \/ Sensible(d)) /\ (high = 0 \/ Sensible(high))
      BY <1>5, <1>8, <1>9
    <2>2. (high = 0 \/ high >= CompareMin) /\ (d = 0 \/ d >= CompareMin)
      BY <2>1, PowerAssumption DEF Sensible
    <2>3. \A x \in Nat : Limited(x, low, high, d) = 0 \/ Sensible(Limited(x, low, high, d))
      BY <2>2, LimitedClock
    <2>. QED BY <1>7, <1>8, <1>9, <2>1, <2>3
  <1>10. ASSUME card.user.engine >= 0, Sensible(b.max.engine), Sensible(b.default.engine),
                b.min.engine <= CompareMax \/ b.default.memory # 0
         PROVE  r.idle.engine \in r.min.engine .. r.max.engine
    <2>1. b.min.engine <= CompareMax \/ q.default.engine = b.default.engine
      BY <1>4, <1>10, PowerAssumption DEF Sensible
    <2>2. Sensible(high) /\ low >= CompareMin /\ d \in low .. high
      BY <1>5, <1>8, <1>10, <2>1
    <2>3. low <= high
      BY <2>2
    <2>4. \A x \in Nat : Limited(x, low, high, d) \in CompareMin .. high /\ Limited(x, low, high, d) >= low
      BY <2>2, <2>3, LimitedClock
    <2>5. \A x \in Nat : Limited(x, low, high, d) \in low .. high
      BY <2>4, PowerAssumption
    <2>. QED BY <1>7, <1>8, <1>10, <2>2, <2>5
  <1>. QED BY <1>2, <1>7, <1>9, <1>10 DEF InRange, r

-----------------------------------------------------------------------------
(* The engine clock: what it is set to, and back *)

\* A line comes after all those before it: the recalculation can stop at one of them.
LinesUp == \A l \in DOMAIN buses : l \in Nat /\ 1 .. l \subseteq DOMAIN buses

\* While the driver has the screen the console's clock is stored, and the card runs with that or with what the
\* driver has set.  ConsoleClockBack follows when the stored one is set again.
ClocksRight ==
  /\ card \in Machines /\ clock \in Nat /\ LinesUp
  /\ pm = NoPm \/ (pm \in Pms /\ InRange(pm))
  /\ screen \in {"none", "console"} /\ card.bios.reads /\ Sensible(console) /\ ~lost => clock = console
  /\ screen = "none" => pm = NoPm
  /\ screen \in {"none", "driver"} /\ pm = NoPm => clock = console
  /\ screen = "driver" /\ pm # NoPm =>
       /\ card.bios.reads => pm.stored = ClearSetting(State(console, card.bios.memory))
       /\ clock \in {console, pm.current.engine}
  /\ EngineDriven => \A l \in DOMAIN buses : Reached(l) =>
       buses[l] = card.bios.default.engine \/ (pm # NoPm /\ buses[l] = pm.current.engine)

LEMMA ClocksInit == Init => ClocksRight
  <1>. SUFFICES ASSUME Init PROVE ClocksRight
    OBVIOUS
  <1>1. card \in Machines /\ clock \in Nat /\ pm = NoPm /\ clock = console /\ screen = "none" /\ buses = <<>>
    BY MachinesAssumption DEF Init
  <1>. QED BY <1>1 DEF ClocksRight, LinesUp

\* Setting a clock: the buses that are recalculated can be reached again by the next recalculation, and no other.
LEMMA SetPm ==
  ASSUME ClocksRight, NEW p \in Pms, NEW s \in {"idle", "stored"}, NEW ok \in BOOLEAN, SetRawState(p, s, ok),
         pm # NoPm, p.current = pm.current, p.min = pm.min, p.max = pm.max, p.idle = pm.idle, UNCHANGED <<card, gen>>
  PROVE  /\ pm' \in Pms /\ pm' # NoPm /\ InRange(pm') /\ pm'.stored = p.stored
         /\ clock' \in Nat /\ clock' \in {clock, pm'.current.engine}
         /\ ok /\ p[s].engine # 0 => clock' = p[s].engine \/ (clock' = clock /\ p[s].engine = pm.current.engine)
         /\ LinesUp'
         /\ EngineDriven' => \A l \in DOMAIN buses' : Reached(l)' =>
               buses'[l] = card.bios.default.engine \/ buses'[l] = pm'.current.engine
  <1>. DEFINE c == p[s].engine
              q == [p EXCEPT !.current.engine = c]
  <1>1. c \in Nat
    BY DEF Pms, Settings
  <1>2. /\ q \in Pms /\ q.current.engine = c /\ q.min = p.min /\ q.max = p.max /\ q.idle = p.idle
        /\ q.stored = p.stored
    BY <1>1 DEF Pms, Settings
  <1>3. (p # NoPm /\ q # NoPm) /\ clock \in Nat /\ LinesUp
    BY <1>2, NotNoPm DEF ClocksRight
  <1>4. \/ pm' = q /\ clock' = c /\ buses' = IF EngineDriven THEN RecalcPrescale(q) ELSE buses
        \/ /\ pm' = p /\ clock' = clock /\ buses' = buses
           /\ ~(c # 0 /\ c # p.current.engine /\ ok)
    BY DEF SetRawState
  <1>5. pm.idle = p.idle /\ pm.min = p.min /\ pm.max = p.max /\ InRange(pm)
    BY DEF ClocksRight
  <1>6. pm'.idle = p.idle /\ pm'.min = p.min /\ pm'.max = p.max /\ pm' \in Pms /\ pm' # NoPm /\ pm'.stored = p.stored
    BY <1>2, <1>3, <1>4
  <1>7. InRange(pm')
    BY <1>5, <1>6 DEF InRange
  <1>8. LinesUp' /\ (EngineDriven' => \A l \in DOMAIN buses' : Reached(l)' =>
               buses'[l] = card.bios.default.engine \/ buses'[l] = pm'.current.engine)
    <2>1. CASE buses' = buses /\ pm' = p
      BY <1>3, <2>1 DEF LinesUp, Reached, ClocksRight, EngineDriven
    <2>2. CASE buses' = buses /\ ~EngineDriven
      BY <1>3, <2>2 DEF LinesUp, Reached, EngineDriven
    <2>3. CASE buses' = RecalcPrescale(q) /\ EngineDriven /\ pm' = q
      <3>1. PrescaleClock(q) = c
        BY <1>2, <1>3, <2>3 DEF PrescaleClock
      <3>2. buses' = [l \in DOMAIN buses |-> IF Reached(l) THEN c ELSE buses[l]]
        BY <2>3, <3>1 DEF RecalcPrescale
      <3>3. ASSUME NEW l \in DOMAIN buses', Reached(l)'
            PROVE  Reached(l)
        <4>. SUFFICES ASSUME NEW k \in 1 .. l, buses[k] = NoBus PROVE FALSE
          BY DEF Reached
        <4>1. k \in DOMAIN buses /\ ~Reached(k)
          <5>1. l \in DOMAIN buses /\ l \in Nat
            BY <1>3, <3>2 DEF LinesUp
          <5>. QED BY <1>3, <5>1 DEF LinesUp, Reached
        <4>2. buses'[k] = buses[k]
          BY <3>2, <4>1
        <4>. QED BY <3>3, <4>2 DEF Reached
      <3>4. LinesUp'
        BY <1>3, <3>2 DEF LinesUp
      <3>. QED BY <1>2, <2>3, <3>2, <3>3, <3>4
    <2>. QED BY <1>4, <2>1, <2>2, <2>3
  <1>. QED BY <1>1, <1>2, <1>3, <1>4, <1>6, <1>7, <1>8

LEMMA ClocksNext == ClocksRight /\ [Next]_<<i2c, power>> => ClocksRight'
  <1>. SUFFICES ASSUME ClocksRight, [Next]_<<i2c, power>> PROVE ClocksRight'
    OBVIOUS
  <1>0. /\ card \in Machines /\ clock \in Nat /\ LinesUp /\ (pm = NoPm \/ (pm \in Pms /\ InRange(pm)))
        /\ card.bios.memory \in Nat /\ card.bios.default \in Settings /\ card.lines \in Seq({"known", "odd", "unnamed"})
    BY MachinesAssumption DEF ClocksRight
  <1>1. CASE PreInit
    <2>1. /\ UNCHANGED <<gen, card, pm, clock, console, screen, lost>> /\ pm = NoPm
          /\ buses' = [l \in DOMAIN card.lines |-> IF HasBus(l) THEN PrescaleClock(pm) ELSE NoBus]
      BY <1>1 DEF PreInit, InitI2C, power, ClocksRight
    <2>2. DOMAIN buses' = 1 .. Len(card.lines) /\ Len(card.lines) \in Nat
      BY <1>0, <2>1
    <2>3. LinesUp'
      BY <2>2 DEF LinesUp
    <2>4. ASSUME EngineDriven', NEW l \in DOMAIN buses', Reached(l)'
          PROVE  buses'[l] = card'.bios.default.engine
      <3>1. buses'[l] # NoBus
        BY <2>2, <2>4 DEF Reached
      <3>2. EngineDriven
        BY <2>1, <2>4 DEF EngineDriven
      <3>. QED BY <2>1, <3>1, <3>2 DEF PrescaleClock
    <2>. QED BY <2>1, <2>3, <2>4 DEF ClocksRight, InRange
  <1>2. CASE PmInit
    <2>1. /\ UNCHANGED <<gen, buses, card, clock, console, lost>> /\ pm = NoPm /\ pm' = PmOf /\ screen' = "console"
          /\ screen = "none"
      BY <1>2 DEF PmInit, i2c, ClocksRight
    <2>2. PmOf \in Pms /\ InRange(PmOf)
      BY <1>0, PmInRange
    <2>3. pm' \in Pms /\ InRange(pm)'
      BY <2>1, <2>2 DEF InRange
    <2>. QED BY <1>0, <2>1, <2>3 DEF ClocksRight, LinesUp, Reached, EngineDriven, Sensible
  <1>3. CASE PmInitFails
    BY <1>3 DEF PmInitFails, i2c, ClocksRight, LinesUp, Reached, EngineDriven, InRange, Sensible
  <1>4. CASE EnterVT
    <2>1. /\ UNCHANGED <<gen, card>> /\ screen' = "driver" /\ console' = clock
      BY <1>4 DEF EnterVT
    <2>2. CASE pm = NoPm
      BY <1>0, <1>4, <2>2 DEF EnterVT, ClocksRight, LinesUp, Reached, EngineDriven
    <2>3. CASE pm # NoPm
      <3>. DEFINE s == ClearSetting(RawState(pm.default))
                  p == [pm EXCEPT !.stored = s]
      <3>1. PICK ok \in BOOLEAN : SetRawState(p, "idle", ok)
        BY <1>4, <2>3 DEF EnterVT
      <3>2. s \in Settings /\ (card.bios.reads => s = ClearSetting(State(clock, card.bios.memory)))
        <4>1. RawState(pm.default) \in Settings
          BY <1>0, <2>3 DEF RawState, State, Settings, Pms
        <4>. QED BY <4>1, ClearedPm DEF RawState
      <3>. HIDE DEF s
      <3>3. /\ p \in Pms /\ p.current = pm.current /\ p.min = pm.min /\ p.max = pm.max /\ p.idle = pm.idle
            /\ p.stored = s
        BY <1>0, <2>3, <3>2 DEF Pms
      <3>. HIDE DEF p
      <3>4. /\ pm' \in Pms /\ pm' # NoPm /\ InRange(pm') /\ pm'.stored = p.stored
            /\ clock' \in Nat /\ clock' \in {clock, pm'.current.engine}
            /\ LinesUp'
            /\ EngineDriven' => \A l \in DOMAIN buses' : Reached(l)' =>
                  buses'[l] = card.bios.default.engine \/ buses'[l] = pm'.current.engine
        BY <2>1, <2>3, <3>1, <3>3, SetPm
      <3>5. InRange(pm)'
        BY <2>1, <3>4 DEF InRange
      <3>6. card'.bios.reads => pm'.stored = ClearSetting(State(console', card'.bios.memory))
        BY <2>1, <3>2, <3>3, <3>4
      <3>. QED BY <1>0, <2>1, <3>4, <3>5, <3>6 DEF ClocksRight
    <2>. QED BY <2>2, <2>3
  <1>5. CASE LeaveVT
    <2>1. UNCHANGED <<gen, card, console>> /\ screen = "driver" /\ screen' = "console"
      BY <1>5 DEF LeaveVT
    <2>2. card.bios.reads /\ Sensible(console) /\ pm # NoPm =>
            /\ pm.stored.engine = console /\ console # 0 /\ pm.stored # State(0, 0)
            /\ clock \in {console, pm.current.engine}
      <3>. SUFFICES ASSUME card.bios.reads, Sensible(console), pm # NoPm
                    PROVE  /\ pm.stored.engine = console /\ console # 0 /\ pm.stored # State(0, 0)
                           /\ clock \in {console, pm.current.engine}
        OBVIOUS
      <3>1. pm.stored = ClearSetting(State(console, card.bios.memory)) /\ clock \in {console, pm.current.engine}
        BY <2>1 DEF ClocksRight
      <3>2. State(console, card.bios.memory) \in Settings /\ State(console, card.bios.memory).engine = console
            /\ console # 0
        BY <1>0, PowerAssumption DEF State, Settings, Sensible
      <3>3. pm.stored.engine = console
        BY <3>1, <3>2, ClearedPm
      <3>. QED BY <3>1, <3>2, <3>3 DEF State
    <2>3. CASE pm = NoPm \/ pm.stored = State(0, 0)
      <3>1. UNCHANGED <<pm, clock, buses, lost>>
        BY <1>5, <2>3 DEF LeaveVT
      <3>2. pm = NoPm => clock = console
        BY <2>1 DEF ClocksRight
      <3>3. InRange(pm)' <=> InRange(pm)
        BY <2>1, <3>1 DEF InRange
      <3>4. LinesUp' /\ (EngineDriven' <=> EngineDriven) /\ \A l : Reached(l)' <=> Reached(l)
        BY <1>0, <2>1, <3>1 DEF LinesUp, EngineDriven, Reached
      <3>. QED BY <1>0, <2>1, <2>2, <2>3, <3>1, <3>2, <3>3, <3>4 DEF ClocksRight
    <2>4. CASE pm # NoPm /\ pm.stored # State(0, 0)
      <3>1. PICK ok \in BOOLEAN : SetRawState(pm, "stored", ok) /\ lost' = ~ok
        BY <1>5, <2>4 DEF LeaveVT
      <3>2. /\ pm' \in Pms /\ pm' # NoPm /\ InRange(pm')
            /\ clock' \in Nat
            /\ ok /\ pm.stored.engine # 0 =>
                 clock' = pm.stored.engine \/ (clock' = clock /\ pm.stored.engine = pm.current.engine)
            /\ LinesUp'
            /\ EngineDriven' => \A l \in DOMAIN buses' : Reached(l)' =>
                  buses'[l] = card.bios.default.engine \/ buses'[l] = pm'.current.engine
        BY <1>0, <2>1, <2>4, <3>1, SetPm
      <3>3. card.bios.reads /\ Sensible(console) /\ ok => clock' = console
        BY <2>2, <2>4, <3>2
      <3>4. InRange(pm)'
        BY <2>1, <3>2 DEF InRange
      <3>5. card'.bios.reads /\ Sensible(console') /\ ~lost' => clock' = console'
        BY <2>1, <3>1, <3>3
      <3>. QED BY <1>0, <2>1, <3>2, <3>4, <3>5 DEF ClocksRight
    <2>. QED BY <2>3, <2>4
  <1>6. CASE ConsoleSets
    <2>1. UNCHANGED <<gen, buses, card, pm, screen>> /\ screen = "console" /\ clock' = console' /\ clock' \in Nat
      BY <1>6, MachinesAssumption DEF ConsoleSets, i2c
    <2>. QED BY <1>0, <2>1 DEF ClocksRight, LinesUp, Reached, EngineDriven, InRange
  <1>7. CASE Probing \/ UNCHANGED <<i2c, power>>
    <2>1. UNCHANGED <<gen, buses, card, pm, clock, console, screen, lost>>
      BY <1>7 DEF Probing, power, i2c, Transfers, Call, Return, R5xx, R6xx, RV620, R5xxAsk, R5xxTake, R5xxRefused,
         R5xxWrite, R5xxWrote, R5xxRead, R5xxFails, R5xxExit, R5xxRestore, R6xxGo, R6xxEnd, RV620Setup, RV620Write,
         RV620Wrote, RV620Read, RV620Fetch, RV620Fails, Answer, NoAnswer, Grant, HardwareUses, HardwareDone, Unplug, Plug
    <2>. QED BY <1>0, <2>1 DEF ClocksRight, LinesUp, Reached, EngineDriven, InRange, Sensible
  <1>. QED BY <1>1, <1>2, <1>3, <1>4, <1>5, <1>6, <1>7 DEF Next

\* Whatever the BIOS tells and the user asks for, the clock that is set is in range and the console's comes back,
\* through failures to set it, and the buses follow (rhd_pm.c:67-180, 193-264, 286-347, 454-511).
THEOREM ClocksHold == Spec => []ClocksKept
  <1>1. ClocksRight => ClocksKept
    BY DEF ClocksRight, ClocksKept, ClockInRange, InRange, ConsoleClockBack, BusesFollow
  <1>. QED BY <1>1, ClocksInit, ClocksNext, PTL DEF Spec
=============================================================================
