---------------------------- MODULE DisplayModes ----------------------------
(***************************************************************************)
(* Display modes as rhd_modes.c makes, completes, compares and sorts them.  *)
(*                                                                         *)
(* A mode has the timings that were asked for, h and v, and those that the  *)
(* CRTC gets, ch and cv (its Crtc... fields), whose values are 0 until they *)
(* are filled in.  Clocks are in kHz, hsync in Hz and vrefresh in 1/100 Hz, *)
(* where the code has floats; what it computes in floats is rounded down    *)
(* here.  HSkew and VScan are 0, and a mode is refused without the status   *)
(* that says why.  Lists are sequences: RHDModesAdd is \o, and              *)
(* rhdModesDestroy leaves a list that nothing is taken from any more.       *)
(***************************************************************************)
EXTENDS Integers, Sequences, SequencesExt

NoMode == [name |-> <<>>]
Unfilled == [display |-> 0, blankStart |-> 0, start |-> 0, end |-> 0, blankEnd |-> 0, total |-> 0]

Timing(t) == [display |-> t[1], start |-> t[2], end |-> t[3], total |-> t[4]]

\* A mode with nothing but its timings.
Modeline(name, class, clock, h, v, flags) ==
  [name |-> name, class |-> class, preferred |-> FALSE, clock |-> clock, synth |-> 0,
   h |-> Timing(h), v |-> Timing(v), ch |-> Unfilled, cv |-> Unfilled,
   flags |-> flags, hsync |-> 0, vrefresh |-> 0]

HSync(clock, htotal) == (clock * 1000) \div htotal

\* The fields per second: an interlaced frame has two.
VRefresh(clock, htotal, vtotal, flags) ==
  LET frames == (HSync(clock, htotal) * 100) \div vtotal IN
  IF "INTERLACE" \in flags THEN 2 * frames ELSE frames

\* rhdModesEqual
SameMode(m1, m2) ==
  /\ m1.clock = m2.clock /\ m1.flags = m2.flags
  /\ m1.h = m2.h /\ m1.v = m2.v
-----------------------------------------------------------------------------
(* RHDCVTMode, for the refresh v2 in half Hz; nobody asks for interlace.  The  *)
(* line takes num/den microseconds. *)

\* The width of the vertical sync says what shape the picture has.
CVTSync(w, h) ==
  CASE h % 3 = 0 /\ (h * 4) \div 3 = w    -> 4
    [] h % 9 = 0 /\ (h * 16) \div 9 = w   -> 5
    [] h % 10 = 0 /\ (h * 16) \div 10 = w -> 6
    [] h % 4 = 0 /\ (h * 5) \div 4 = w    -> 7
    [] h % 9 = 0 /\ (h * 15) \div 9 = w   -> 7
    [] OTHER -> 10

Larger(a, b) == IF a > b THEN a ELSE b

\* The mode of a line of these pixels, in steps of 250 kHz.
CVTMode(w, h, htiming, vtiming, blank, v2, den, flags) ==
  LET clock == 250 * ((htiming[4] * den) \div (500000 - (blank * v2) \div 4)) IN
  [Modeline(<<w, h>>, "NONE", clock, htiming, vtiming, flags) EXCEPT
     !.hsync = HSync(clock, htiming[4]), !.vrefresh = VRefresh(clock, htiming[4], vtiming[4], flags)]

CVTPlain(w, h, v2) ==
  LET num == 2000000 - 550 * v2
      den == v2 * (h + 3)
      sync == CVTSync(w, h)
      syncAndBackPorch == Larger(sync + 3, (550 * den) \div num + 1)
      duty == Larger(20000, 30000 - (300 * num) \div den)
      blank == 2 * (((w * duty) \div (100000 - duty)) \div 2)
      total == w + blank
      syncEnd == w + blank \div 2
  IN  CVTMode(w, h, <<w, syncEnd - (total * 8) \div 100 + 1, syncEnd, total>>,
              <<h, h + 3, h + 3 + sync, h + 3 + syncAndBackPorch>>, 550, v2, den, {"NHSYNC", "PVSYNC"})

CVTReduced(w, h, v2) ==
  LET num == 2000000 - 460 * v2
      den == v2 * h
      sync == CVTSync(w, h)
      lines == Larger(3 + sync + 6, (460 * den) \div num + 1)
  IN  CVTMode(w, h, <<w, w + 48, w + 80, w + 160>>, <<h, h + 3, h + 3 + sync, h + lines>>,
              460, v2, den, {"PHSYNC", "NVSYNC"})

\* The refresh is 60 Hz where none is asked for.
RHDCVTMode(w, h, v2, reduced) ==
  LET rate == IF v2 = 0 THEN 120 ELSE v2 IN
  IF reduced THEN CVTReduced(w, h, rate) ELSE CVTPlain(w, h, rate)
-----------------------------------------------------------------------------
(* The checks on the mode alone, and the values that follow from others. *)

\* rhdModeSanity
ModeSane(m) ==
  /\ m.clock > 0 /\ "DBLSCAN" \notin m.flags
  /\ \A t \in {m.h, m.v} :
       0 < t.display /\ t.display <= t.start /\ t.start < t.end /\ t.end < t.total

\* rhdModeFillOutCrtcValues fills in what is still 0.
FilledOut(m) ==
  LET Filled(c, t) ==
        [f \in DOMAIN c |-> IF c[f] # 0 THEN c[f]
                            ELSE CASE f = "blankStart" -> t.display
                                   [] f = "blankEnd"   -> t.total
                                   [] OTHER            -> t[f]]
      synth == IF m.synth # 0 THEN m.synth ELSE m.clock
      ch == Filled(m.ch, m.h)
      cv == Filled(m.cv, m.v)
  IN  [m EXCEPT !.synth = synth, !.ch = ch, !.cv = cv, !.hsync = HSync(synth, ch.total),
                !.vrefresh = VRefresh(synth, ch.total, cv.total, m.flags)]

\* rhdModeCrtcSanity
CrtcSane(m) ==
  /\ m.synth > 0
  /\ \A c \in {m.ch, m.cv} :
       /\ 0 < c.display /\ c.display <= c.blankStart /\ c.blankStart <= c.start
       /\ c.start < c.end /\ c.end < c.blankEnd /\ c.blankEnd <= c.total

\* RHDSanitizeModes, for one mode: it does not ask whether the Crtc... values
\* are filled in.
SanitizedMode(m) ==
  LET Total(t) == IF t.total <= t.end THEN t.end + 1 ELSE t.total
      Repaired(c, t) ==
        [c EXCEPT !.total = IF t.total <= t.end THEN t.end + 1 ELSE @,
                  !.blankEnd = IF @ <= c.end THEN c.end + 1 ELSE @]
      Rated(new) ==
        IF new = m THEN m
        ELSE [new EXCEPT !.hsync = HSync(m.clock, new.h.total),
                         !.vrefresh = VRefresh(m.clock, new.h.total, new.v.total, {})]
  IN  Rated([m EXCEPT !.h.total = Total(m.h), !.v.total = Total(m.v),
                      !.ch = Repaired(m.ch, m.h), !.cv = Repaired(m.cv, m.v)])
-----------------------------------------------------------------------------
(* Lists of modes *)

\* rhdModesGrabOnNameAll and rhdModesGrabOnTypeAll push what they take in front
\* of what they took before.
Grabbed(modes, Takes(_)) == Reverse(SelectSeq(modes, Takes))
Remaining(modes, Takes(_)) == LET Stays(m) == ~Takes(m) IN SelectSeq(modes, Stays)

Area(t1, t2) == t1.display * t2.display

\* rhdModesGrabBestRefresh
BestRefresh(modes) ==
  LET Better(m, best) ==
        \/ best.vrefresh < m.vrefresh
        \/ /\ best.vrefresh = m.vrefresh
           /\ \/ Area(best.h, best.v) < Area(m.h, m.v)
              \/ Area(best.h, best.v) = Area(m.h, m.v) /\ best.clock > m.clock
  IN  FoldLeft(LAMBDA best, m : IF Better(m, best) THEN m ELSE best, Head(modes), Tail(modes))

\* rhdModesGrabOnHighestType: what the user gave, else what monitors gave, else
\* whatever there is.
OfHighestType(modes) ==
  LET Of(class) == Grabbed(modes, LAMBDA m : m.class = class) IN
  IF Of("USERDEF") # <<>> THEN Of("USERDEF")
  ELSE IF Of("DRIVER") # <<>> THEN Of("DRIVER") ELSE modes

PreferredIfAny(modes) ==
  LET preferred == Grabbed(modes, LAMBDA m : m.preferred) IN
  IF preferred # <<>> THEN preferred ELSE modes

\* rhdModesSortOnSize inserts one mode after the other before the first that it
\* beats.
SortedOnSize(modes) ==
  LET Beats(m, t) ==
        \/ Area(t.ch, t.cv) < Area(m.ch, m.cv)
        \/ Area(t.ch, t.cv) = Area(m.ch, m.cv) /\ t.vrefresh < m.vrefresh
      Inserted(sorted, m) ==
        LET at == SelectInSeq(sorted, LAMBDA t : Beats(m, t)) IN
        IF at = 0 THEN Append(sorted, m) ELSE InsertAt(sorted, at, m)
  IN  FoldLeft(Inserted, <<>>, modes)

\* RHDSynthModes: what a panel can have scaled, at 60.5 Hz.  The third part of
\* the name, 0, stands for its "Scaled".
SynthSizes ==
  << <<320, 200>>, <<320, 240>>, <<640, 480>>, <<720, 480>>, <<854, 480>>, <<768, 576>>, <<800, 600>>,
     <<1024, 768>>, <<1152, 768>>, <<1280, 720>>, <<1280, 960>>, <<1280, 854>>, <<1280, 960>>,
     <<1280, 1024>>, <<1440, 960>>, <<1400, 1050>>, <<1680, 1050>>, <<1600, 1200>>, <<1920, 1080>>,
     <<1920, 1200>>, <<2048, 1536>>, <<2560, 1600>>, <<2560, 2048>> >>

SynthModes ==
  [i \in DOMAIN SynthSizes |->
     [FilledOut(RHDCVTMode(SynthSizes[i][1], SynthSizes[i][2], 121, TRUE)) EXCEPT
        !.name = SynthSizes[i] \o <<0>>, !.class = "BUILTIN"]]
=============================================================================
