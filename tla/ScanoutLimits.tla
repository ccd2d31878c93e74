--------------------------- MODULE ScanoutLimits ----------------------------
(***************************************************************************)
(* What the memory, the CRTCs, the scaler, the outputs and a monitor allow  *)
(* of a mode (rhd_crtc.c, r5xx_accel.c, the ModeValid of the output drivers *)
(* and rhd_modes.c).                                                       *)
(*                                                                         *)
(* hw has what they look at: the bits per pixel, where the memory to scan   *)
(* out starts and how much there is, whether the chip is an R600 or up,     *)
(* whether there is 2D acceleration, and the scale type of the CRTCs.       *)
(***************************************************************************)
EXTENDS DisplayModes

BytesPerPixel(hw) == CASE hw.bpp = 8 -> 1 [] hw.bpp = 16 -> 2 [] hw.bpp = 32 -> 4

\* A line of the frame buffer takes a multiple of 256 bytes.
Pitch(width, hw) ==
  LET unit == 256 \div BytesPerPixel(hw) IN ((width + unit - 1) \div unit) * unit

\* DxFBValid
FBValid(width, height, hw) ==
  /\ hw.start % 4096 = 0
  /\ width \in 256..8192 /\ height \in 256..8192
  /\ Pitch(width, hw) < 16384
  /\ Pitch(width, hw) * BytesPerPixel(hw) * height <= hw.size

R5xx2DFBValid(height, pitch, hw) ==
  LET bytes == pitch * BytesPerPixel(hw) IN
  bytes % 64 = 0 /\ bytes < 16384 /\ height < 8192

\* What is asked of a virtual size: both CRTCs take it, and the 2D engine.
VirtualValid(width, height, hw) ==
  /\ FBValid(width, height, hw)
  /\ hw.accel /\ ~hw.r600 => R5xx2DFBValid(height, Pitch(width, hw), hw)
-----------------------------------------------------------------------------
\* DxModeValid: "need at least 2 lines of front porch for interlaced mode".
PorchedMode(m) ==
  IF "INTERLACE" \in m.flags /\ m.cv.start < m.cv.display + 2
  THEN [m EXCEPT !.cv.start = m.cv.display + 2] ELSE m

\* DxModeValid: what goes into the 13 bits of the registers, where a difference
\* below 0 is far too large.
FitsRegisters(m) ==
  \A c \in {m.ch, m.cv} :
    /\ c.total <= 8192
    /\ {c.total + c.blankStart - c.start, c.blankEnd - c.start, c.end - c.start} \subseteq 0..8191

\* rhdCalculateOverscan: the borders between the picture and the screen of the
\* mode that it is scaled to, and how it is really scaled.
CalculateOverscan(m, to, type) ==
  LET dh == to.ch.display - m.ch.display
      dv == to.cv.display - m.cv.display
      Borders(kind, l, r, t, b) == [type |-> kind, left |-> l, right |-> r, top |-> t, bottom |-> b]
      Halves(n) == <<n \div 2, n - n \div 2>>
      kind == IF dh < 0 \/ dv < 0 THEN "SCALE" ELSE IF dh = 0 /\ dv = 0 THEN "NONE" ELSE type
      h == Halves(Larger(dh, 0))
      v == Halves(Larger(dv, 0))
      p1 == m.cv.display * to.ch.display
      p2 == to.cv.display * m.ch.display
      side == Halves(to.ch.display - p2 \div m.cv.display)
      above == Halves(to.cv.display - p1 \div m.ch.display)
  IN  CASE type = "NONE"   -> Borders(kind, Larger(dh, 0), 0, Larger(dv, 0), 0)
        [] type = "CENTER" -> Borders(kind, h[1], h[2], v[1], v[2])
        [] type = "SCALE"  -> Borders(kind, 0, 0, 0, 0)
        [] type = "KEEP_ASPECT_RATIO" /\ p1 = p2 -> Borders("SCALE", 0, 0, 0, 0)
        [] type = "KEEP_ASPECT_RATIO" /\ p1 > p2 -> Borders(kind, side[1], side[2], 0, 0)
        [] type = "KEEP_ASPECT_RATIO" /\ p1 < p2 -> Borders(kind, 0, 0, above[1], above[2])

Unscaled(type) == [type |-> type, left |-> 0, right |-> 0, top |-> 0, bottom |-> 0]

\* DxScaleValid
ScaleValid(type, m, to) ==
  LET borders == IF to = NoMode THEN Unscaled(type) ELSE CalculateOverscan(m, to, type) IN
  /\ m.ch.display < 16384 /\ m.cv.display < 16384
  /\ \A side \in {"left", "right", "top", "bottom"} : borders[side] < 4096
  /\ type \in {"SCALE", "KEEP_ASPECT_RATIO"} => "INTERLACE" \notin m.flags

\* DxScaleSet: what the scaler does with the borders.
Scaler(type, m, to) ==
  LET borders == IF to = NoMode THEN Unscaled(type) ELSE CalculateOverscan(m, to, type) IN
  [borders |-> borders, viewport |-> <<m.ch.display, m.cv.display>>,
   enabled |-> borders.type \in {"SCALE", "KEEP_ASPECT_RATIO"},
   center |-> CASE borders.type = "NONE" -> 2 [] borders.type = "SCALE" -> 0 [] OTHER -> 1]
-----------------------------------------------------------------------------
(* The ModeValid of the outputs, by their driver. *)

DACModeValid(m) == m.clock \in 20000..400000

\* TMDSA and TMDSB
TMDSModeValid(m, connector) ==
  /\ m.clock >= 25000
  /\ connector = "DVI_SINGLE" => m.clock <= 165000
  /\ connector = "DVI" => m.clock <= 330000

LVDSModeValid(m) == "INTERLACE" \notin m.flags
DDIAModeValid(m, connector) == TMDSModeValid(m, connector) /\ "INTERLACE" \notin m.flags
AtomModeValid(m, connector) == TMDSModeValid(m, connector)

TransmitterModeValid(m, connector) == connector = "DVI_SINGLE" => m.synth <= 165000

\* EncoderModeValid takes every mode.
DigModeValid(m, connector) == TransmitterModeValid(m, connector)

OutputModeValid(driver, connector, m) ==
  CASE driver = "DAC"  -> DACModeValid(m)
    [] driver = "TMDS" -> TMDSModeValid(m, connector)
    [] driver = "LVDS" -> LVDSModeValid(m)
    [] driver = "DDIA" -> DDIAModeValid(m, connector)
    [] driver = "ATOM" -> AtomModeValid(m, connector)
    [] driver = "DIG"  -> DigModeValid(m, connector)
-----------------------------------------------------------------------------
(* A monitor: its modes and the native one of them, the ranges of its syncs in *)
(* the units of a mode, its bandwidth if it is known, and whether it takes     *)
(* reduced blanking and nothing but its own modes. *)

NoMonitor == [native |-> NoMode, modes |-> <<>>, hsync |-> {}, vrefresh |-> {}, bandwidth |-> 0,
              reduced |-> FALSE, fixed |-> FALSE, present |-> FALSE]
NewMonitor == [NoMonitor EXCEPT !.present = TRUE]

\* SYNC_TOLERANCE is one percent.
InRange(value, ranges) ==
  ranges # {} => \E r \in ranges : 99 * r[1] <= 100 * value /\ 100 * value <= 101 * r[2]

\* rhdMonitorFixedValid
FixedValid(monitor, m) ==
  \E i \in DOMAIN monitor.modes :
    LET fixed == monitor.modes[i]
        Same(t, c, ft) ==
          /\ t.display <= ft.display /\ t.start = ft.start /\ t.end = ft.end
          /\ c = [display |-> c.display, blankStart |-> ft.display, start |-> ft.start,
                  end |-> ft.end, blankEnd |-> ft.total, total |-> c.total]
          /\ c.display <= ft.display
    IN  /\ m.flags = fixed.flags /\ m.clock = fixed.clock /\ m.synth = fixed.clock
        /\ Same(m.h, m.ch, fixed.h) /\ Same(m.v, m.cv, fixed.v)

\* The blanking of CVT's reduced modes.
ReducedBlanking(c, cv) ==
  /\ c.total - c.display = 160 /\ c.end - c.display = 80 /\ c.end - c.start = 32
  /\ cv.start - cv.display = 3

\* rhdMonitorValid: the native mode may leave less time for the blanking.
EnoughBlanking(monitor, m) ==
  LET wide == (((m.ch.display * 5) \div 4) \div 8) * 8 > m.ch.total IN
  IF monitor.native # NoMode /\ SameMode(m, monitor.native)
  THEN IF monitor.reduced THEN m.ch.display * 101 <= m.ch.total * 100
       ELSE m.ch.display * 23 <= m.ch.total * 20
  ELSE wide => IF ReducedBlanking(m.ch, m.cv) THEN monitor.reduced
               ELSE m.ch.display * 11 <= m.ch.total * 10

MonitorValid(monitor, m) ==
  /\ InRange(m.hsync, monitor.hsync)
  /\ InRange(m.vrefresh, monitor.vrefresh)
  /\ monitor.bandwidth # 0 => 100 * m.synth <= 101 * monitor.bandwidth
  /\ EnoughBlanking(monitor, m)
  /\ monitor.fixed => FixedValid(monitor, m)
=============================================================================
