---------------------------- MODULE XaaScanlines ----------------------------
(***************************************************************************)
(* Lines of pixels that are sent to the 2D engine with the commands        *)
(* (r5xx_xaa.c, r5xx_exa.c).  With the CP they follow a HOSTDATA_BLT packet*)
(* in the command buffer: XAA is handed a window of that buffer, which is  *)
(* counted as written before XAA has filled it, and asks for the next one  *)
(* line by line.  EXA's upload copies all lines of a packet at once.       *)
(* Without the CP a line is written to HOST_DATA0..7, and ends in          *)
(* HOST_DATA7, or in HOST_DATA_LAST behind it if it is the last one.       *)
(*                                                                         *)
(* A word of a line is the number of that line; 0 is whatever the buffer   *)
(* held.  What RHDCSGrab and RHDCSFlush submit is executed as it stands.   *)
(***************************************************************************)
EXTENDS Integers, SequencesExt

CONSTANTS
  CsSize,   \* CS->Size
  Widths,   \* words of a line
  MaxLines  \* bound: lines of all rectangles

ASSUME LinesAssumption ==
  CsSize \in Nat /\ MaxLines \in Nat /\ \A w \in Widths : w \in 1 .. CsSize - 10

VARIABLES
  hook,      \* who draws: "CP", "MMIO" or "EXA", or "none" yet
  step,      \* of the rectangle: "fill", "subsequent", "packet" or "done"
  words,     \* scanline_words
  scanY,     \* scanline_y
  scanH,     \* scanline_h
  scanPass,     \* scanline_hpass
  window,    \* BufferHook[0], an index of the buffer
  line,      \* lines that were filled in
  asked,     \* the lines of the rectangles, in order
  csBuffer,  \* CS->Buffer, or XAA's scratch buffer where there is no CP
  csWptr,    \* CS->Wptr
  packets,   \* the lines of those not submitted: which of the rectangle, of how many words, and where they begin
  shown,     \* the lines the engine was given, in order
  open       \* does it expect HOST_DATA?

lineVars == <<hook, step, words, scanY, scanH, scanPass, window, line, asked,
              csBuffer, csWptr, packets, shown, open>>

LinesInit ==
  /\ hook = "none" /\ step = "done" /\ words = 0
  /\ scanY = 0 /\ scanH = 0 /\ scanPass = 0 /\ window = 0 /\ line = 0 /\ asked = << >>
  /\ csBuffer = [i \in 0 .. CsSize - 1 |-> 0] /\ csWptr = 0
  /\ packets = << >> /\ shown = << >> /\ open = FALSE

Line(y, w, number) == [y |-> y, data |-> [i \in 1 .. w |-> number]]
Fewer(a, b) == IF a < b THEN a ELSE b
FullPass(w) == (CsSize - 10) \div w
InWindow(i, at, w) == at <= i /\ i < at + w

\* The n lines of a packet, from line y on, and what the engine makes of such lines.
InPacket(at, y, n, w) == [k \in 1 .. n |-> [y |-> y + k - 1, w |-> w, at |-> at + (k - 1) * w]]
Fed(buffer, lines) ==
  [k \in DOMAIN lines |->
     [y |-> lines[k].y, data |-> [i \in 1 .. lines[k].w |-> buffer[lines[k].at + i - 1]]]]

Submitted == shown \o Fed(csBuffer, packets)

\* A rectangle of n lines of w words, which XAA will fill with the next lines.
Asked(w, n) == asked \o [k \in 1 .. n |-> Line(k - 1, w, Len(asked) + k)]
MayAsk(who, n) == step = "done" /\ hook \in {"none", who} /\ Len(asked) + n <= MaxLines

\* A HOSTDATA_BLT packet for n lines of w words from line y: the Grab, which
\* submits what is there if there is no room, and the header.  Where the
\* lines will begin:
Room(w, n) == csWptr + n * w + 10 <= CsSize
LinesAt(w, n) == (IF Room(w, n) THEN csWptr ELSE 0) + 10
Header(w, y, n) ==
  IF Room(w, n)
  THEN packets' = packets \o InPacket(LinesAt(w, n), y, n, w) /\ UNCHANGED shown
  ELSE packets' = InPacket(LinesAt(w, n), y, n, w) /\ shown' = Submitted

\* R5xxXAACPScanlinePacket, for n of h lines.
ScanlinePacket(w, y, h, n) ==
  /\ Header(w, y, n)
  /\ window' = LinesAt(w, n)
  /\ csWptr' = LinesAt(w, n) + n * w
  /\ scanY' = y + n /\ scanH' = h - n /\ scanPass' = n
  /\ step' = "fill"

\* R5xxXAASubsequentScanline...FillRectCP and ...ImageWriteRectCP.
FillRectCP(w, h) ==
  /\ MayAsk("CP", h)
  /\ hook' = "CP" /\ words' = w /\ asked' = Asked(w, h)
  /\ ScanlinePacket(w, 0, h, Fewer(h, FullPass(w)))
  /\ UNCHANGED <<line, csBuffer, open>>

\* The same without the CP: DST_HEIGHT_WIDTH starts the engine.
FillRectMMIO(w, h) ==
  /\ MayAsk("MMIO", h)
  /\ hook' = "MMIO" /\ words' = w /\ asked' = Asked(w, h)
  /\ scanH' = h /\ open' = TRUE /\ step' = "fill"
  /\ UNCHANGED <<scanY, scanPass, window, line, csBuffer, csWptr, packets, shown>>

\* XAA writes a line where BufferHook points.
XaaFills ==
  /\ step = "fill" /\ step' = "subsequent"
  /\ line' = line + 1
  /\ csBuffer' = [i \in DOMAIN csBuffer |-> IF InWindow(i, window, words) THEN line' ELSE csBuffer[i]]
  /\ UNCHANGED <<hook, words, scanY, scanH, scanPass, window, asked, csWptr, packets, shown, open>>

\* MUTANT of SubsequentScanlineCP: the window is not moved.
SubsequentInPlace ==
  /\ hook = "CP" /\ step = "subsequent"
  /\ IF scanPass > 1
     THEN /\ scanPass' = scanPass - 1 /\ step' = "fill"
          /\ UNCHANGED <<window, csWptr, scanY, scanH, packets, shown>>
     ELSE IF scanH > 0
          THEN ScanlinePacket(words, scanY, scanH, Fewer(scanH, FullPass(words)))
          ELSE scanPass' = 0 /\ step' = "done" /\ UNCHANGED <<window, csWptr, scanY, scanH, packets, shown>>
  /\ UNCHANGED <<hook, words, line, asked, csBuffer, open>>

\* R5xxXAASubsequentScanlineCP, after a line was filled: the window moves on,
\* or another packet follows.
SubsequentScanlineCP ==
  /\ hook = "CP" /\ step = "subsequent"
  /\ IF scanPass > 1
     THEN /\ scanPass' = scanPass - 1 /\ window' = window + words /\ step' = "fill"
          /\ UNCHANGED <<csWptr, scanY, scanH, packets, shown>>
     ELSE IF scanH > 0
          THEN ScanlinePacket(words, scanY, scanH, Fewer(scanH, FullPass(words)))
          ELSE scanPass' = 0 /\ step' = "done" /\ UNCHANGED <<window, csWptr, scanY, scanH, packets, shown>>
  /\ UNCHANGED <<hook, words, line, asked, csBuffer, open>>

\* HOST_DATA registers, 8 for HOST_DATA_LAST, that the words of a line are
\* written to: rounds of eight, and the rest such that it ends where it should.
HostRegisters(w, last) ==
  LET remainder == IF last THEN 9 ELSE 8
      rounds == IF w <= remainder THEN 0 ELSE (w - remainder + 7) \div 8
      end == IF last THEN 8 ELSE 7
  IN [i \in 1 .. w |-> IF i <= 8 * rounds THEN (i - 1) % 8 ELSE end - (w - i)]

\* R5xxXAASubsequentScanlineMMIO.  The engine takes no data behind the last.
\* It counts lines itself.  (When this is flushed is followed by MmioSubmission.)
SubsequentScanlineMMIO ==
  /\ hook = "MMIO" /\ step = "subsequent"
  /\ scanH' = scanH - 1
  /\ LET registers == HostRegisters(words, scanH' = 0)
         Taken(i) == /\ open /\ registers[i] \in 0 .. 8
                     /\ \A j \in 1 .. i - 1 : registers[j] # 8
     IN /\ shown' = Append(shown, [y |-> asked[Len(shown) + 1].y,
                                   data |-> [i \in 1 .. words |-> IF Taken(i) THEN csBuffer[window + i - 1] ELSE 0]])
        /\ open' = (open /\ 8 \notin Range(registers))
  /\ step' = IF scanH' > 0 THEN "fill" ELSE "done"
  /\ UNCHANGED <<hook, words, scanY, scanPass, window, line, asked, csBuffer, csWptr, packets>>

\* R5xxEXAUploadToScreenCP: scanPass is worked out once.
UploadToScreenCP(w, h) ==
  /\ MayAsk("EXA", h)
  /\ hook' = "EXA" /\ words' = w /\ asked' = Asked(w, h)
  /\ scanY' = 0 /\ scanH' = h /\ scanPass' = FullPass(w) /\ step' = "packet"
  /\ UNCHANGED <<window, line, csBuffer, csWptr, packets, shown, open>>

\* A round of its loop: the packet, its lines, and RHDCSFlush.
UploadPacket ==
  /\ step = "packet" /\ scanH > 0
  /\ scanPass' = Fewer(scanH, scanPass)
  /\ LET at == LinesAt(words, scanPass')
         chunk == scanPass' * words
         filled == [i \in DOMAIN csBuffer |->
                      IF InWindow(i, at, chunk) THEN line + 1 + (i - at) \div words ELSE csBuffer[i]]
     IN /\ csBuffer' = filled
        /\ shown' = Submitted \o Fed(filled, InPacket(at, scanY, scanPass', words))
        /\ csWptr' = at + chunk
  /\ packets' = << >>
  /\ line' = line + scanPass' /\ scanY' = scanY + scanPass' /\ scanH' = scanH - scanPass'
  /\ UNCHANGED <<hook, step, words, window, asked, open>>

UploadDone ==
  /\ step = "packet" /\ scanH = 0 /\ step' = "done"
  /\ UNCHANGED <<hook, words, scanY, scanH, scanPass, window, line, asked, csBuffer, csWptr, packets, shown, open>>

\* RHDCSFlush of the block handler, when nothing is being drawn.
FlushLines ==
  /\ step = "done" /\ packets # << >>
  /\ shown' = Submitted /\ packets' = << >>
  /\ UNCHANGED <<hook, step, words, scanY, scanH, scanPass, window, line, asked, csBuffer, csWptr, open>>

LinesNext ==
  \/ \E w \in Widths, h \in 1 .. MaxLines : FillRectCP(w, h) \/ FillRectMMIO(w, h) \/ UploadToScreenCP(w, h)
  \/ XaaFills \/ SubsequentScanlineCP \/ SubsequentScanlineMMIO \/ UploadPacket \/ UploadDone \/ FlushLines

LinesSpec == LinesInit /\ [][LinesNext]_lineVars

\* The engine is given each line of each rectangle once, in order, at its
\* place and with its own words, never with words that XAA has not filled in,
\* wherever in the buffer a window begins and however many packets it takes;
\* and it expects no more of them than it gets.
ScanlinesRight ==
  /\ IsPrefix(shown, asked)
  /\ step = "done" /\ packets = << >> => shown = asked /\ ~open
=============================================================================
