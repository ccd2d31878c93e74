----------------------------- MODULE I2CEngines -----------------------------
(***************************************************************************)
(* rhd_i2c.c: the transfers on the DDC lines.                              *)
(*                                                                         *)
(* Four generations of engines.  That of the R5xx is shared with the card, *)
(* which uses it for HDCP: software asks for it, polls fifty times, and     *)
(* hands it back.  It takes ChunkR5xx bytes at a time, so that a long read  *)
(* is many transfers, each with a new offset in one byte.  The RS690 and    *)
(* the R6xx do a whole transfer in one go.  The RV620 reads ChunkRV620      *)
(* bytes at a time without letting go of the bus.  All of them are polled,  *)
(* and given up on when the poll takes too long.                           *)
(*                                                                         *)
(* The card runs, and monitors come and go, between any two steps of the    *)
(* driver.  A byte that a monitor holds is called by its address.           *)
(***************************************************************************)
EXTENDS Integers, Sequences, FiniteSetsExt

CONSTANTS
  ChunkR5xx,     \* what the R5xx engine's buffer holds (15)
  ChunkRV620,    \* what the RV620 engine transfers at once (8, MAX)
  Bytes,         \* the number of values of a byte: offsets wrap there (256)
  Reads          \* the reads asked for: pairs of an offset and a length

ASSUME I2CAssumption == /\ ChunkR5xx \in Nat \ {0} /\ ChunkRV620 \in Nat \ {0}
                        /\ Bytes \in Nat \ {0} /\ Reads \subseteq (0 .. Bytes - 1) \X (Nat \ {0})

VARIABLES
  gen,       \* the engine: "r5xx", "rs690", "r6xx" or "rv620"
  buses,     \* rhdPtr->I2C: for each line, the engine clock its prescale was computed for, or NoBus
  device,    \* what is plugged in, and where its next read starts
  wants,     \* R5_DC_I2C_ARBITRATION: software asks for the engine
  owner,     \*   and who has it
  control,   \* R5_DC_I2C_CONTROL1 and 0x494: whose values they hold
  engine,    \* the command, how far it is, and the buffer it leaves
  call       \* the call of RHDI2CFunc that is being served

i2c == <<gen, buses, device, wants, owner, control, engine, call>>

NoBus == -1
Untouched == [CONTROL1 |-> "console", r494 |-> "console"]
Idle == [state |-> "idle", address |-> <<>>, count |-> 0, lead |-> 0, slots |-> <<>>]
NoCall == [pc |-> "none", what |-> "none", from |-> 0, size |-> 0, offset |-> 0, left |-> 0,
           got |-> <<>>, ok |-> FALSE, saved |-> Untouched, overrun |-> FALSE]

I2CInit == /\ device = [kind |-> "none", next |-> 0]
           /\ wants = FALSE /\ owner = "none"
           /\ control = Untouched
           /\ engine = Idle /\ call = NoCall

----------------------------------------------------------------------------
(* The card, the bus and the monitor *)

\* What a device answers: the "echo" of an empty HDMI riser acknowledges everything.
Byte(kind, a) == IF kind = "monitor" THEN a % Bytes ELSE Bytes

Header == <<0, 1>>      \* the two bytes an EDID starts with, 0x00 and 0xff in the code

\* The engine carries out its command, or runs into an error.
Answer ==
  /\ engine.state = "running" /\ device.kind # "none"
  /\ LET start == IF engine.address = <<>> THEN device.next ELSE engine.address[1]
     IN  /\ device' = [device EXCEPT !.next = (start + engine.count) % Bytes]
         /\ engine' = [engine EXCEPT !.state = "done",
                         !.slots = [i \in 1 .. engine.lead |-> -1]
                                   \o [i \in 1 .. engine.count |-> Byte(device.kind, start + i - 1)]]
  /\ UNCHANGED <<gen, buses, wants, owner, control, call>>

NoAnswer ==
  /\ engine.state = "running"
  /\ engine' = [engine EXCEPT !.state = "error"]
  /\ UNCHANGED <<gen, buses, device, wants, owner, control, call>>

\* The arbiter gives the engine to software, or the card takes it for HDCP and gives it back.
Grant == /\ owner = "none" /\ wants /\ owner' = "software"
         /\ UNCHANGED <<gen, buses, device, wants, control, engine, call>>
HardwareUses == /\ owner = "none" /\ gen = "r5xx" /\ owner' = "hardware"
                /\ UNCHANGED <<gen, buses, device, wants, control, engine, call>>
HardwareDone == /\ owner = "hardware" /\ owner' = "none"
                /\ UNCHANGED <<gen, buses, device, wants, control, engine, call>>

Unplug == /\ device.kind # "none" /\ device' = [device EXCEPT !.kind = "none"]
          /\ UNCHANGED <<gen, buses, wants, owner, control, engine, call>>
\* Nothing is plugged in during a call (a bound: a call takes milliseconds).
Plug == /\ device.kind = "none" /\ call.pc = "none"
        /\ \E k \in {"monitor", "echo"} : device' = [kind |-> k, next |-> 0]
        /\ UNCHANGED <<gen, buses, wants, owner, control, engine, call>>

----------------------------------------------------------------------------
(* Calls *)

\* xf86I2CWriteRead with an offset to write, if any, and size bytes to read.
Transfer(c, from, size) == [c EXCEPT !.pc = "begin", !.from = from, !.offset = from, !.size = size, !.left = size,
                                     !.got = <<>>, !.ok = TRUE, !.overrun = FALSE]

\* RHD_I2C_PROBE_ADDR and RHD_I2C_DDC on a line that has a bus.
Call == /\ call.pc = "none" /\ \E l \in DOMAIN buses : buses[l] # NoBus
        /\ \/ call' = [Transfer(call, 0, 0) EXCEPT !.what = "probe"]
           \/ \E r \in Reads : call' = [Transfer(call, r[1], r[2]) EXCEPT !.what = "read"]
        /\ UNCHANGED <<gen, buses, device, wants, owner, control, engine>>

\* A device that acknowledges its address is read from, as it may acknowledge every address.
Return == /\ call.pc = "done"
          /\ call' = IF call.what = "probe" /\ call.ok
                     THEN [Transfer(call, 0, Len(Header)) EXCEPT !.what = "header"] ELSE NoCall
          /\ UNCHANGED <<gen, buses, device, wants, owner, control, engine>>

\* The engine is told to go: what it sends first, how many bytes follow, and what precedes them in its buffer.
\* An engine that still runs an earlier command stays with that.
Go(address, count, lead) ==
  engine' = IF engine.state = "running" THEN engine
            ELSE [state |-> "running", address |-> address, count |-> count, lead |-> lead, slots |-> <<>>]
\* The bytes in the buffer from an index on, whatever is there.
From(index, n) == [i \in 1 .. n |-> IF index + i \in DOMAIN engine.slots THEN engine.slots[index + i] ELSE -1]
Failed(pc) == call' = [call EXCEPT !.pc = pc, !.ok = FALSE]

----------------------------------------------------------------------------
(* R5xx: rhd5xxWriteReadChunk once for each chunk of rhd5xxWriteRead *)

ChunkSize == Min({call.left, ChunkR5xx})

R5xxAsk ==
  /\ gen = "r5xx" /\ call.pc = "begin"
  /\ call' = [call EXCEPT !.pc = "asked", !.saved = control]
  /\ control' = [control EXCEPT !.r494 = "driver"]
  /\ wants' = TRUE
  /\ UNCHANGED <<gen, buses, device, owner, engine>>

R5xxTake ==
  /\ gen = "r5xx" /\ call.pc = "asked" /\ owner = "software"
  /\ control' = [control EXCEPT !.CONTROL1 = "driver"]
  /\ engine' = Idle
  /\ call' = [call EXCEPT !.pc = "write"]
  /\ UNCHANGED <<gen, buses, device, wants, owner>>

\* MUTANT of R5xxRefused: returns without going through the way out.
R5xxRefusedReturns ==
  /\ gen = "r5xx" /\ call.pc = "asked" /\ owner # "software"
  /\ Failed("done")
  /\ UNCHANGED <<gen, buses, device, wants, owner, control, engine>>

\* Fifty polls have not seen the engine granted.
R5xxRefused ==
  /\ gen = "r5xx" /\ call.pc = "asked" /\ owner # "software"
  /\ Failed("exit")
  /\ UNCHANGED <<gen, buses, device, wants, owner, control, engine>>

\* The offset is written; a probe has none and writes a dummy byte.
R5xxWrite ==
  /\ gen = "r5xx" /\ call.pc = "write"
  /\ Go(<<call.offset>>, 0, 0)
  /\ call' = [call EXCEPT !.pc = "wrote"]
  /\ UNCHANGED <<gen, buses, device, wants, owner, control>>

R5xxWrote ==
  /\ gen = "r5xx" /\ call.pc = "wrote" /\ engine.state = "done"
  /\ IF call.size = 0 THEN call' = [call EXCEPT !.pc = "exit"] /\ engine' = Idle
     ELSE call' = [call EXCEPT !.pc = "reading"] /\ Go(<<>>, ChunkSize, 0)
  /\ UNCHANGED <<gen, buses, device, wants, owner, control>>

R5xxRead ==
  /\ gen = "r5xx" /\ call.pc = "reading" /\ engine.state = "done"
  /\ call' = [call EXCEPT !.pc = "exit", !.got = @ \o From(0, ChunkSize),
                           !.left = @ - ChunkSize, !.offset = (@ + ChunkSize) % Bytes]
  /\ engine' = Idle
  /\ UNCHANGED <<gen, buses, device, wants, owner, control>>

\* rhd5xxI2CStatus: neither DONE after GO, nor, after all its loops, an end of GO: then it aborts.
R5xxFails ==
  /\ gen = "r5xx" /\ call.pc \in {"wrote", "reading"} /\ engine.state \in {"error", "running"}
  /\ engine' = Idle
  /\ Failed("exit")
  /\ UNCHANGED <<gen, buses, device, wants, owner, control>>

\* The way out of a chunk is the same whether it went well or not: the engine is handed back,
R5xxExit ==
  /\ gen = "r5xx" /\ call.pc = "exit"
  /\ engine' = Idle
  /\ wants' = FALSE
  /\ owner' = IF owner = "software" THEN "none" ELSE owner
  /\ call' = [call EXCEPT !.pc = "restore"]
  /\ UNCHANGED <<gen, buses, device, control>>

\* and then its registers.
R5xxRestore ==
  /\ gen = "r5xx" /\ call.pc = "restore"
  /\ control' = call.saved
  /\ call' = [call EXCEPT !.pc = IF call.ok /\ call.left > 0 THEN "begin" ELSE "done", !.saved = Untouched]
  /\ UNCHANGED <<gen, buses, device, wants, owner, engine>>

R5xx == \/ R5xxAsk \/ R5xxTake \/ R5xxRefused \/ R5xxWrite \/ R5xxWrote \/ R5xxRead
        \/ R5xxFails \/ R5xxExit \/ R5xxRestore

----------------------------------------------------------------------------
(* RS690 and R6xx: rhdRS69WriteRead and rhd6xxWriteRead differ in registers only *)

\* Where the code looks for what was read: behind the address, one byte and the address again.
FirstRead == 3

R6xxGo ==
  /\ gen \in {"rs690", "r6xx"} /\ call.pc = "begin"
  /\ IF call.size = 0 THEN Go(<<>>, 0, 1) ELSE Go(<<call.offset>>, call.size, 3)
  /\ call' = [call EXCEPT !.pc = "reading"]
  /\ UNCHANGED <<gen, buses, device, wants, owner, control>>

\* MUTANT of R6xxEnd: a transfer that was given up is left to itself.
R6xxEndUnreset ==
  /\ gen \in {"rs690", "r6xx"} /\ call.pc = "reading"
  /\ IF engine.state = "done"
     THEN call' = [call EXCEPT !.pc = "done", !.got = From(FirstRead, call.size), !.left = 0]
     ELSE Failed("done")
  /\ engine' = IF engine.state = "running" THEN engine ELSE Idle
  /\ UNCHANGED <<gen, buses, device, wants, owner, control>>

\* However the poll ends, the engine is reset.
R6xxEnd ==
  /\ gen \in {"rs690", "r6xx"} /\ call.pc = "reading"
  /\ IF engine.state = "done"
     THEN call' = [call EXCEPT !.pc = "done", !.got = From(FirstRead, call.size), !.left = 0]
     ELSE Failed("done")
  /\ engine' = Idle
  /\ UNCHANGED <<gen, buses, device, wants, owner, control>>

R6xx == R6xxGo \/ R6xxEnd

----------------------------------------------------------------------------
(* RV620: rhdRV620WriteRead with rhdRV620Transaction *)

\* The setup acknowledges a transfer that is over; one that still runs goes on.
RV620Setup ==
  /\ gen = "rv620" /\ call.pc = "begin"
  /\ engine' = IF engine.state = "running" THEN engine ELSE Idle
  /\ call' = [call EXCEPT !.pc = "write", !.overrun = engine.state = "running"]
  /\ UNCHANGED <<gen, buses, device, wants, owner, control>>

\* GENERIC_I2C_TRANSACTION's count is that of the bytes sent and read, the address included, less one.
Count(n, start) == IF start THEN n ELSE n - 1
Counted(count, start) == IF start THEN count ELSE count + 1

RV620Go(address, n, start) == Go(address, Counted(Count(n, start), start), IF start THEN 1 ELSE 0)

RV620Write ==
  /\ gen = "rv620" /\ call.pc = "write"
  /\ RV620Go(IF call.size = 0 THEN <<>> ELSE <<call.offset>>, 0, TRUE)
  /\ call' = [call EXCEPT !.pc = "wrote"]
  /\ UNCHANGED <<gen, buses, device, wants, owner, control>>

RV620Wrote ==
  /\ gen = "rv620" /\ call.pc = "wrote" /\ engine.state = "done"
  /\ engine' = Idle
  /\ call' = [call EXCEPT !.pc = IF call.size = 0 THEN "done" ELSE "read"]
  /\ UNCHANGED <<gen, buses, device, wants, owner, control>>

RV620Size == Min({call.left, ChunkRV620})
RV620Read ==
  /\ gen = "rv620" /\ call.pc = "read"
  /\ RV620Go(<<>>, RV620Size, call.got = <<>>)
  /\ call' = [call EXCEPT !.pc = "reading"]
  /\ UNCHANGED <<gen, buses, device, wants, owner, control>>

RV620Fetch ==
  /\ gen = "rv620" /\ call.pc = "reading" /\ engine.state = "done"
  /\ engine' = Idle
  /\ LET left == call.left - RV620Size
     IN  call' = [call EXCEPT !.got = @ \o From(IF call.got = <<>> THEN 1 ELSE 0, RV620Size),
                              !.left = left, !.pc = IF left > 0 THEN "read" ELSE "done"]
  /\ UNCHANGED <<gen, buses, device, wants, owner, control>>

\* A failure returns at once: an error is acknowledged, a command that was given up goes on.
RV620Fails ==
  /\ gen = "rv620" /\ call.pc \in {"wrote", "reading"} /\ engine.state \in {"error", "running"}
  /\ engine' = IF engine.state = "running" THEN engine ELSE Idle
  /\ Failed("done")
  /\ UNCHANGED <<gen, buses, device, wants, owner, control>>

RV620 == RV620Setup \/ RV620Write \/ RV620Wrote \/ RV620Read \/ RV620Fetch \/ RV620Fails

Transfers == \/ Answer \/ NoAnswer \/ Grant \/ HardwareUses \/ HardwareDone \/ Unplug \/ Plug
             \/ Call \/ Return \/ R5xx \/ R6xx \/ RV620
=============================================================================
