------------------------------ MODULE Monitors ------------------------------
(***************************************************************************)
(* What the driver makes of the descriptions of a monitor: its EDID         *)
(* (rhd_edid.c), what AtomBIOS says of a panel and of television            *)
(* (rhd_atombios.c), and the configuration (rhd_monitor.c).                 *)
(*                                                                         *)
(* An EDID is what the server has parsed: the established timings by their  *)
(* bits, the standard timings, whether the first detailed timing is the     *)
(* preferred one, and the detailed sections.  Names and sizes in            *)
(* millimetres are left out.                                               *)
(***************************************************************************)
EXTENDS ScanoutLimits, FiniteSets, FiniteSetsExt

NoEDID == [sections |-> {}]

Established(w, h, clock, ht, vt, flags) ==
  Modeline(<<w, h>>, "DRIVER", clock, <<w>> \o ht, <<h>> \o vt, flags)

PP == {"PHSYNC", "PVSYNC"}
NN == {"NHSYNC", "NVSYNC"}
NP == {"NHSYNC", "PVSYNC"}

EDIDEstablishedModes ==
  << Established(800, 600, 40000, <<840, 968, 1056>>, <<601, 605, 628>>, PP),
     Established(800, 600, 36000, <<824, 896, 1024>>, <<601, 603, 625>>, PP),
     Established(640, 480, 31500, <<656, 720, 840>>, <<481, 484, 500>>, NN),
     Established(640, 480, 31500, <<664, 704, 832>>, <<489, 491, 520>>, NN),
     Established(640, 480, 30240, <<704, 768, 864>>, <<483, 486, 525>>, NN),
     Established(640, 480, 25200, <<656, 752, 800>>, <<490, 492, 525>>, NN),
     Established(720, 400, 35500, <<738, 846, 900>>, <<421, 423, 449>>, NN),
     Established(720, 400, 28320, <<738, 846, 900>>, <<412, 414, 449>>, NP),
     Established(1280, 1024, 135000, <<1296, 1440, 1688>>, <<1025, 1028, 1066>>, PP),
     Established(1024, 768, 78800, <<1040, 1136, 1312>>, <<769, 772, 800>>, PP),
     Established(1024, 768, 75000, <<1048, 1184, 1328>>, <<771, 777, 806>>, NN),
     Established(1024, 768, 65000, <<1048, 1184, 1344>>, <<771, 777, 806>>, NN),
     Established(1024, 768, 44900, <<1032, 1208, 1264>>, <<768, 776, 817>>, PP \union {"INTERLACE"}),
     Established(832, 624, 57284, <<864, 928, 1152>>, <<625, 628, 667>>, NN),
     Established(800, 600, 49500, <<816, 896, 1056>>, <<601, 604, 625>>, PP),
     Established(800, 600, 50000, <<856, 976, 1040>>, <<637, 643, 666>>, PP),
     Established(1152, 864, 108000, <<1216, 1344, 1600>>, <<865, 868, 900>>, PP) >>

\* EDIDModesFromEstablished, for the numbers of the bits that are set.
ModesFromEstablished(bits) ==
  LET order == SetToSortSeq(bits, <) IN [i \in DOMAIN order |-> EDIDEstablishedModes[order[i] + 1]]

\* EDIDModesFromStandardTiming
ModesFromStandard(timings) ==
  [i \in DOMAIN timings |->
     [RHDCVTMode(timings[i].w, timings[i].h, 2 * timings[i].refresh, FALSE) EXCEPT !.class = "DRIVER"]]

\* EDIDModeFromDetailedTiming: the modes it makes of the timing, none or one.
ModeFromDetailed(d) ==
  LET T(x) == <<x.active, x.active + x.offset, x.active + x.offset + x.width, x.active + x.blanking>>
      flags == {IF d.hpositive THEN "PHSYNC" ELSE "NHSYNC", IF d.vpositive THEN "PVSYNC" ELSE "NVSYNC"}
  IN  IF d.stereo \/ ~d.separate THEN <<>>
      ELSE <<Modeline(<<d.h.active, d.v.active>>, "DRIVER", d.clock, T(d.h), T(d.v),
                      IF d.interlaced THEN flags \union {"INTERLACE"} ELSE flags)>>

\* EDIDGuessRangesFromModes, the rates of the modes and the ranges that nobody
\* has given.
WithRates(m) ==
  [m EXCEPT !.hsync = IF @ = 0 THEN HSync(m.clock, m.h.total) ELSE @,
            !.vrefresh = IF @ = 0 THEN VRefresh(m.clock, m.h.total, m.v.total, m.flags) ELSE @]

GuessedRanges(monitor, modes) ==
  LET Rates(Of(_)) == {Of(modes[i]) : i \in DOMAIN modes}
      Spanned(rates) == {<<Min(rates), Max(rates)>>}
      h == Rates(LAMBDA m : m.hsync)
      v == Rates(LAMBDA m : m.vrefresh)
  IN  [monitor EXCEPT !.hsync = IF @ = {} THEN Spanned(h) ELSE @,
                      !.vrefresh = IF @ = {} THEN Spanned(v) ELSE @,
                      !.bandwidth = IF @ = 0 THEN Max(Rates(LAMBDA m : m.clock)) ELSE @]

\* EDIDReducedAllowed
AllowsReduced(modes) == \E i \in DOMAIN modes : ReducedBlanking(modes[i].h, modes[i].v)

\* A detailed timing that could be read becomes the native mode, if it is the
\* preferred one.
WithDetailed(got, modes) ==
  IF modes = <<>> THEN got
  ELSE LET Preferred(m) == [m EXCEPT !.preferred = got.preferred] IN
       [got EXCEPT !.modes = @ \o <<Preferred(modes[1])>>, !.preferred = FALSE,
                   !.monitor.native = IF got.preferred THEN Preferred(modes[1]) ELSE @]

\* The sections, one after the other.  got is the monitor, the modes so far, and
\* whether the next detailed timing is the preferred one.
Section(got, s) ==
  CASE s.is = "ranges" ->
         [got EXCEPT !.monitor.hsync = IF @ = {} THEN {s.hsync} ELSE @,
                     !.monitor.vrefresh = IF @ = {} THEN {s.vrefresh} ELSE @,
                     !.monitor.bandwidth = IF @ = 0 THEN s.maxClock ELSE @]
    [] s.is = "standard" -> [got EXCEPT !.modes = @ \o ModesFromStandard(s.timings)]
    [] s.is = "detailed" -> WithDetailed(got, ModeFromDetailed(s))

\* RHDMonitorEDIDSet
MonitorEDIDSet(monitor, edid) ==
  LET got == FoldLeft(Section,
                      [monitor |-> monitor, preferred |-> edid.preferred,
                       modes |-> ModesFromEstablished(edid.established) \o ModesFromStandard(edid.standard)],
                      edid.sections)
      WithModes(mon, modes) ==
        IF modes = <<>> THEN mon
        ELSE [GuessedRanges(mon, modes) EXCEPT !.native = IF @ = NoMode THEN NoMode ELSE WithRates(@),
                                               !.modes = modes, !.reduced = @ \/ AllowsReduced(modes)]
      Rated(g) == WithModes(g.monitor, [i \in DOMAIN g.modes |-> WithRates(g.modes[i])])
  IN  Rated(got)
-----------------------------------------------------------------------------
(* Panels and television *)

\* rhdAtomLvdsTimings
AtomLvdsTimings(dtd) ==
  LET Asked(t) == <<t.active, t.active + t.offset, t.active + t.offset + t.width,
                    t.active + 2 * t.border + t.blanking>>
      Crtc(t) == [display |-> t.active, blankStart |-> t.active + t.border, start |-> t.active + t.offset,
                  end |-> t.active + t.offset + t.width, blankEnd |-> t.active + t.border + t.blanking,
                  total |-> t.active + 2 * t.border + t.blanking]
      m == Modeline(<<dtd.h.active, dtd.v.active>>, "NONE", dtd.clock, Asked(dtd.h), Asked(dtd.v), {})
  IN  [WithRates(m) EXCEPT !.synth = dtd.clock, !.ch = Crtc(dtd.h), !.cv = Crtc(dtd.v)]

\* rhdAtomAnalogTVTimings, the interlaced flag of which does not count for the rate.
AtomTVTimings(name, t) ==
  LET Asked(x) == <<x.active, x.start, x.start + x.width, x.total>>
      Crtc(x) == [display |-> x.active, blankStart |-> x.active + x.after, start |-> x.start,
                  end |-> x.start + x.width, blankEnd |-> x.total - x.before, total |-> x.total]
      m == Modeline(<<name>>, "NONE", t.clock, Asked(t.h), Asked(t.v), t.flags)
  IN  [m EXCEPT !.synth = t.clock, !.ch = Crtc(t.h), !.cv = Crtc(t.v), !.hsync = HSync(t.clock, t.h.total),
                !.vrefresh = VRefresh(t.clock, t.h.total, t.v.total, {})]

\* rhdAtomAnalogTVInfoQuery, for ATOM_ANALOG_TV_MODE: bios.tv has the timings of
\* the two groups of standards, and those that the card supports.
TVMode(bios, standard) ==
  LET group == IF standard \in {"NTSC", "NTSCJ"} THEN "TV_NTSC" ELSE "TV_PAL/SECAM" IN
  IF standard \notin bios.tv.supported THEN NoMode ELSE AtomTVTimings(group, bios.tv.timings[group])

Exactly(monitor, m, bandwidth) ==
  [monitor EXCEPT !.native = m, !.modes = <<m>>, !.hsync = {<<m.hsync, m.hsync>>},
                  !.vrefresh = {<<m.vrefresh, m.vrefresh>>}, !.bandwidth = bandwidth]

\* rhdPanelEDIDModesFilter: the biggest mode, if there are several.
PanelEDIDModesFilter(monitor) ==
  LET Bigger(m, best) ==
        best.h.display <= m.h.display /\ best.v.display <= m.v.display
          /\ (best.h.display < m.h.display \/ best.v.display < m.v.display)
      biggest == FoldLeft(LAMBDA best, m : IF Bigger(m, best) THEN m ELSE best,
                          Head(monitor.modes), Tail(monitor.modes))
  IN  IF Len(monitor.modes) <= 1 THEN monitor
      ELSE Exactly(monitor, [biggest EXCEPT !.preferred = TRUE], biggest.clock)

\* RHDSanitizeModes, the native mode being one of those on the list.
Sanitized(monitor) ==
  [monitor EXCEPT !.modes = [i \in DOMAIN @ |-> SanitizedMode(@[i])],
                  !.native = IF @ = NoMode THEN NoMode ELSE SanitizedMode(@)]

\* rhdAtomLvdsDDC passes over the records that it knows, to an EDID.  Images of
\* the BIOS that end among the records are left out.
LvdsDDC(records) ==
  LET at == SelectInSeq(records, LAMBDA r : r.is \notin {"mode patch", "RTS", "cap", "resolution"}) IN
  IF at = 0 THEN NoEDID
  ELSE IF records[at].is = "fake EDID" THEN records[at].edid ELSE NoEDID

\* rhdAtomLvdsGetTimings, for the revision of the table, 0 where there is none.
PanelMode(bios) == IF bios.lvds = 0 THEN NoMode ELSE AtomLvdsTimings(bios.panel)
AtomPanelEDID(bios) == IF bios.lvds = 2 THEN LvdsDDC(bios.records) ELSE NoEDID

\* rhdMonitorPanel: the timings in the BIOS come before an EDID, and the panel's
\* own EDID before the one in the BIOS.
MonitorPanel(ddc, bios) ==
  LET Only(m) == Exactly(NewMonitor, m, m.synth)
      FromEDID(edid) ==
        IF edid = NoEDID THEN NoMonitor ELSE PanelEDIDModesFilter(Sanitized(MonitorEDIDSet(NewMonitor, edid)))
      From(m) ==
        IF m = NoMode THEN FromEDID(IF ddc # NoEDID THEN ddc ELSE AtomPanelEDID(bios))
        ELSE Only(SanitizedMode([m EXCEPT !.preferred = TRUE]))
      Fixed(monitor) == IF monitor.present THEN [monitor EXCEPT !.fixed = TRUE, !.reduced = TRUE] ELSE monitor
  IN  Fixed(From(PanelMode(bios)))

\* rhdMonitorTV: "The mode that goes in isn't what comes out."
MonitorTV(bios, standard) ==
  LET Only(m) == [Exactly(NewMonitor, m, m.synth) EXCEPT !.fixed = TRUE]
      From(m) == IF m = NoMode THEN NoMonitor ELSE Only([m EXCEPT !.preferred = TRUE, !.flags = @ \ {"INTERLACE"}])
  IN  From(TVMode(bios, standard))

\* RHDMonitorInit, for the type of the connector and what can be read from it.
MonitorInit(type, ddc, bios, standard) ==
  CASE type = "PANEL" -> MonitorPanel(ddc, bios)
    [] type = "TV"    -> MonitorTV(bios, standard)
    [] type \notin {"PANEL", "TV"} -> IF ddc = NoEDID THEN NoMonitor ELSE MonitorEDIDSet(NewMonitor, ddc)

\* RHDScalePolicy
ScalePolicy(monitor, type) == monitor.fixed /\ monitor.native # NoMode /\ type = "PANEL"
-----------------------------------------------------------------------------
(* The configured monitor.  force is the option ForceReduced, if it is set. *)

SVGARanges == {<<31500, 31500>>, <<35150, 35150>>, <<35500, 35500>>}
SVGARefresh == {<<5000, 6100>>}

Forced(monitor, force) == IF force = {} THEN monitor ELSE [monitor EXCEPT !.reduced = TRUE \in force]

\* rhdMonitorFromConfig
MonitorFromConfig(config, force) ==
  Forced([NewMonitor EXCEPT !.hsync = IF config.hsync # {} THEN config.hsync ELSE SVGARanges,
                            !.vrefresh = IF config.vrefresh # {} THEN config.vrefresh ELSE SVGARefresh,
                            !.reduced = config.reduced, !.bandwidth = config.maxClock,
                            !.modes = config.modes], force)

\* rhdMonitorFromDefault
MonitorFromDefault(config, force) ==
  Forced([NewMonitor EXCEPT !.hsync = SVGARanges, !.vrefresh = SVGARefresh, !.modes = config.modes], force)

\* RHDConfigMonitorSet: used when no monitor is known, or when that is asked for.
ConfigMonitorSet(config, force, use, monitors) ==
  IF ~use /\ \E mon \in monitors : mon.present THEN NoMonitor
  ELSE IF config.named THEN MonitorFromConfig(config, force) ELSE MonitorFromDefault(config, force)
=============================================================================
