----------------------------- MODULE ModeSetup ------------------------------
(***************************************************************************)
(* From connectors to modes: which outputs and monitors a card drives, and  *)
(* with what (rhd_connector.c, rhd_driver.c, rhd_modes.c, rhd_randr.c).     *)
(*                                                                         *)
(* Without RandR RHDPreInit settles everything once: rhdModeLayoutSelect    *)
(* deals the connected outputs to the CRTCs and reads the monitors, and one *)
(* list of modes is made for all of them together, with the virtual size.   *)
(* With RandR the server asks in its own time, for one output after the     *)
(* other, while monitors come and go.                                       *)
(*                                                                         *)
(* A CRTC that has a target, Crtc->ScaledToMode, shows every mode scaled to *)
(* the target's timings.  Who has which DIG encoder is left to DigEncoders: *)
(* here there are enough.                                                  *)
(***************************************************************************)
EXTENDS Monitors

CONSTANTS
  Setups,     \* the cards with their configuration and what is plugged in
  MaxPlugs    \* how often monitors are exchanged while RandR is in charge

CRTCs == {1, 2}

VARIABLES
  setup,      \* the one that is taken
  step,       \* what is done next
  probed,     \* the RandR output that is asked for its modes
  plugged,    \* what is plugged into each connector: whether the HPD line sees it,
              \* what the outputs sense, and its EDID
  plugs,      \* how often something else was plugged in
  attached,   \* Output->Connector by its number, 0 for none
  sensed,     \* Output->SensedType
  monitors,   \* Connector->Monitor
  live,       \* the CRTC of an output that is Active, or 0
  target,     \* Crtc->ScaledToMode
  config,     \* rhdPtr->ConfigMonitor
  virtual,    \* pScrn->virtualX and virtualY, and displayWidth
  pool,       \* the modes: those that validated, the pool, pScrn->modes
  scaledTo,   \* rout->ScaledToMode, by connector and output
  offered,    \* the modes that an output offers the server
  shown       \* what each CRTC shows: its timings, the clock that its PLL has been
              \* set to, the picture, and the scaler

layoutVars == <<attached, sensed, monitors, live, target>>
randrVars == <<plugs, probed, scaledTo, offered>>
setupVars == <<setup, step, plugged, layoutVars, config, virtual, pool, randrVars, shown>>

NotShown == [timings |-> NoMode, clock |-> 0, picture |-> NoMode, scaler |-> <<>>]
-----------------------------------------------------------------------------
(* RHDConnectorsInit *)

\* The HPD line that a connector is checked on, by the option for its use.
HPDLine(line) ==
  CASE setup.hpdUsage = "OFF" -> "none"
    [] setup.hpdUsage = "SWAP" /\ line = "HPD0" -> "HPD1"
    [] setup.hpdUsage = "SWAP" /\ line = "HPD1" -> "HPD0"
    [] OTHER -> line

\* The connectors of the BIOS in use, with the outputs that could be created.
Connectors == [c \in DOMAIN setup.connectors |-> [setup.connectors[c] EXCEPT !.hpd = HPDLine(@)]]

\* An output that two connectors share is created for the first.
OutputList ==
  FoldLeft(LAMBDA list, o : IF Contains(list, o) THEN list ELSE Append(list, o), <<>>,
           FlattenSeq([c \in DOMAIN setup.connectors |-> setup.connectors[c].outputs]))
FirstWith(o) == setup.connectors[Min({c \in DOMAIN setup.connectors : Contains(setup.connectors[c].outputs, o)})]

\* Who drives an output: the driver that knows it, or else AtomBIOS.
Driver(o) ==
  CASE setup.atomOutputs -> "ATOM"
    [] o \in {"DACA", "DACB"} -> "DAC"
    [] o = "TMDSA" -> "TMDS"
    [] o = "LVTMA" -> IF FirstWith(o).type = "PANEL" THEN "LVDS" ELSE "TMDS"
    [] o = "DVO" -> "DDIA"
    [] o \in {"UNIPHYA", "UNIPHYB", "KLDSKP_LVTMA"} -> "DIG"
    [] OTHER -> "ATOM"

\* RHDHPDCheck
HPDCheck(c) ==
  \E d \in DOMAIN Connectors : setup.wired[d] = Connectors[c].hpd /\ plugged[d].hpd

CanSense(o) == o \in {"DACA", "DACB"} \/ (o = "TMDSA" /\ ~setup.atomOutputs)

\* Output->Sense, which is external: what of the plug an output can see.
Sensed(o, c) ==
  IF o \in {"DACA", "DACB"} THEN IF plugged[c].sense \in {"VGA", "TV"} THEN plugged[c].sense ELSE "none"
  ELSE IF plugged[c].sense = "DVI" THEN "DVI" ELSE "none"

-----------------------------------------------------------------------------
(* The validation of a mode for a CRTC: rhdModeValidateCrtc *)

OutputsOn(c) == {o \in DOMAIN live : live[o] = c}
CrtcActive(c) == OutputsOn(c) # {}
MonitorAt(o) == IF attached[o] = 0 THEN NoMonitor ELSE monitors[attached[o]]

OutputTakes(o, m) ==
  /\ OutputModeValid(Driver(o), Connectors[attached[o]].type, m)
  /\ MonitorAt(o).present => MonitorValid(MonitorAt(o), m)

ScanoutTakes(m, kind, to) ==
  /\ FBValid(m.ch.display, m.cv.display, setup.hw)
  /\ IF kind = "NONE" THEN ScaleValid("NONE", m, NoMode) ELSE ScaleValid(setup.hw.scale, m, to)

\* MUTANT of ValidationRound: a mode that was adjusted is not looked at again.
ValidationRoundOnce(c, kind, to, got) ==
  LET m == got.mode
      porched == IF kind = "FROM" THEN m ELSE PorchedMode(m)
  IN  IF /\ CrtcSane(m)
         /\ kind # "TO" => ScanoutTakes(m, kind, to)
         /\ kind # "FROM" => FitsRegisters(porched) /\ \A o \in OutputsOn(c) : OutputTakes(o, porched)
      THEN [is |-> "valid", mode |-> porched] ELSE [is |-> "refused", mode |-> m]

\* One round.  DxModeValid alone adjusts modes, which starts the next round.
ValidationRound(c, kind, to, got) ==
  LET m == got.mode
      porched == IF kind = "FROM" THEN m ELSE PorchedMode(m)
  IN  IF ~(/\ CrtcSane(m)
           /\ kind # "TO" => ScanoutTakes(m, kind, to)
           /\ kind # "FROM" => FitsRegisters(porched))
      THEN [is |-> "refused", mode |-> m]
      ELSE IF porched # m THEN [is |-> "adjusted", mode |-> porched]
      ELSE IF kind # "FROM" /\ \E o \in OutputsOn(c) : ~OutputTakes(o, m)
      THEN [is |-> "refused", mode |-> m] ELSE [is |-> "valid", mode |-> m]

Loops == 10     \* RHD_MODE_VALIDATION_LOOPS

\* The mode as it comes out, NoMode when it is refused or "thrown around for too
\* long".
Validated(Round(_), m) ==
  LET rounds[n \in 0..Loops] ==
        IF n = 0 THEN [is |-> "adjusted", mode |-> FilledOut(m)]
        ELSE LET got == rounds[n - 1] IN IF got.is = "adjusted" THEN Round(got) ELSE got
      last == rounds[Loops]
  IN  IF ModeSane(m) /\ last.is = "valid" THEN last.mode ELSE NoMode

ValidateCrtc(c, m, kind, to) == Validated(LAMBDA got : ValidationRound(c, kind, to, got), m)

ConfigTakes(m) == config.present => MonitorValid(config, m)
VirtualTakes(m) ==
  virtual.x > 0 /\ virtual.y > 0 => m.ch.display <= virtual.x /\ m.cv.display <= virtual.y

\* RHDValidateScaledToMode
ValidateScaledTo(c, m) ==
  LET valid == ValidateCrtc(c, m, "TO", NoMode) IN
  IF valid # NoMode /\ ConfigTakes(valid) THEN valid ELSE NoMode

\* rhdModeValidate asks the CRTCs in turn.
ModeValidate(m) ==
  LET Asked(c, before) ==
        IF before = NoMode \/ ~CrtcActive(c) THEN before
        ELSE ValidateCrtc(c, before, IF target[c] = NoMode THEN "NONE" ELSE "FROM", target[c])
      valid == Asked(2, Asked(1, IF ModeSane(m) THEN FilledOut(m) ELSE NoMode))
  IN  IF valid # NoMode /\ ConfigTakes(valid) /\ VirtualTakes(valid) THEN valid ELSE NoMode
-----------------------------------------------------------------------------
(* rhdModeLayoutSelect *)

\* rhdOutputConnectorCheck: the first output that senses something, or the first
\* that cannot sense; got is what attached and sensed are so far.
ConnectorCheck(got, c) ==
  LET outputs == Connectors[c].outputs
      Found(o) == CanSense(o) /\ got.sensed[o] = "none" /\ Sensed(o, c) # "none"
      found == SelectInSeq(outputs, Found)
      blind == SelectInSeq(outputs, LAMBDA o : ~CanSense(o))
  IN  CASE found # 0 -> [attached |-> [got.attached EXCEPT ![outputs[found]] = c],
                         sensed |-> [got.sensed EXCEPT ![outputs[found]] = Sensed(outputs[found], c)]]
        [] found = 0 /\ blind # 0 -> [got EXCEPT !.attached[outputs[blind]] = c]
        [] found = 0 /\ blind = 0 -> got

\* The adapters of a DMS-59 do not raise HPD.
SenseConnectors ==
  LET Checked(c) == c \notin setup.ignored /\ (Connectors[c].hpd = "none" \/ HPDCheck(c) \/ setup.dms59)
      fresh == [attached |-> [o \in DOMAIN attached |-> 0], sensed |-> sensed]
      got == FoldLeft(LAMBDA g, c : IF Checked(c) THEN ConnectorCheck(g, c) ELSE g, fresh,
                      [c \in DOMAIN Connectors |-> c])
  IN  /\ step = "layout" /\ step' = "deal"
      /\ attached' = got.attached /\ sensed' = got.sensed
      /\ live' = [o \in DOMAIN live |-> 0]
      /\ UNCHANGED <<setup, plugged, monitors, target, config, virtual, pool, randrVars, shown>>

ReadMonitor(c) ==
  MonitorInit(Connectors[c].type, IF Connectors[c].ddc THEN plugged[c].edid ELSE NoEDID, setup.bios, setup.tv)

\* "If this is a DVI attached monitor, enable reduced blanking", and the option.
Digital == {"TMDSA", "LVTMA", "KLDSKP_LVTMA", "UNIPHYA", "UNIPHYB"}
WithReduced(monitor, o) ==
  IF ~monitor.present THEN monitor
  ELSE Forced([monitor EXCEPT !.reduced = @ \/ o \in Digital], setup.force)

\* The attached outputs are dealt to the two CRTCs in turn; a panel of which
\* nothing is known is not driven.
Dealt(got, o, monitor) ==
  LET c == attached[o]
      crtc == (got.n % 2) + 1
  IN  IF ~monitor.present /\ Connectors[c].type = "PANEL" THEN got
      ELSE [n |-> got.n + 1, live |-> [got.live EXCEPT ![o] = crtc],
            monitors |-> [got.monitors EXCEPT ![c] = WithReduced(monitor, o)],
            target |-> IF ScalePolicy(monitor, Connectors[c].type)
                       THEN [got.target EXCEPT ![crtc] = monitor.native] ELSE got.target]

DealOutputs ==
  LET Deal(got, o) == IF attached[o] = 0 THEN got ELSE Dealt(got, o, ReadMonitor(attached[o]))
      none == [n |-> 0, live |-> live, monitors |-> monitors, target |-> target]
  IN  /\ step = "deal"
      /\ \E got \in {FoldLeft(Deal, none, OutputList)} :
           /\ step' = IF got.n = 0 THEN "failed" ELSE "targets"
           /\ live' = got.live /\ monitors' = got.monitors /\ target' = got.target
      /\ UNCHANGED <<setup, plugged, attached, sensed, config, virtual, pool, randrVars, shown>>

\* "Now validate the scaled modes attached to crtcs"; after that RHDPreInit sets up
\* the configured monitor.
ValidateTargets ==
  /\ step = "targets" /\ step' = "virtual"
  /\ target' = [c \in CRTCs |-> IF target[c] = NoMode THEN NoMode ELSE ValidateScaledTo(c, target[c])]
  /\ config' = ConfigMonitorSet(setup.config, setup.force, setup.useConfig, {monitors[c] : c \in DOMAIN monitors})
  /\ UNCHANGED <<setup, plugged, attached, sensed, monitors, live, virtual, pool, randrVars, shown>>
-----------------------------------------------------------------------------
(* The virtual size and the pool *)

Virtual(x, y) == [x |-> x, y |-> y, pitch |-> Pitch(x, setup.hw)]

\* RHDRandrPreInit wants room for more, where the configuration has no size.
RandrVirtual ==
  LET Leaves(w, h) == 2 * w * h * BytesPerPixel(setup.hw) <= setup.hw.size \div 4 IN
  IF setup.virtual[1] # 0 /\ setup.virtual[2] # 0 THEN setup.virtual
  ELSE IF Leaves(1920, 1920) THEN <<2 * 1920, 1920>>
  ELSE IF Leaves(1680, 1280) THEN <<2 * 1680, 1280>> ELSE setup.virtual

\* RHDGetVirtualFromConfig shrinks the size until everybody takes it.
VirtualFromConfig ==
  LET X == (IF setup.randr THEN RandrVirtual ELSE setup.virtual)[1]
      Y == (IF setup.randr THEN RandrVirtual ELSE setup.virtual)[2]
      Height(x) == (Y * x) \div X
      valid == {x \in 1..X : VirtualValid(x, Height(x), setup.hw)}
      next == IF setup.randr THEN step ELSE "list"
  IN  /\ step = "virtual" \/ (step = "randr" /\ virtual.x = 0)
      /\ IF X = 0 \/ Y = 0 THEN step' = next /\ UNCHANGED virtual
         ELSE IF valid = {} THEN step' = "failed" /\ UNCHANGED virtual
         ELSE step' = next /\ virtual' = Virtual(Max(valid), Height(Max(valid)))
      /\ UNCHANGED <<setup, plugged, layoutVars, config, pool, randrVars, shown>>

\* rhdModesListValidateAndCopy
Keepers(modes) == SelectSeq([i \in DOMAIN modes |-> ModeValidate(modes[i])], LAMBDA m : m # NoMode)

ActiveOutputs ==
  LET Of(c) == SelectSeq(OutputList, LAMBDA o : live[o] = c) IN Of(1) \o Of(2)

\* rhdCreateModesListAndValidate: nothing but the modes of a monitor that has fixed
\* ones, unless others are scaled to them.
CreateModesList ==
  LET Fixed(o) == MonitorAt(o).present /\ MonitorAt(o).fixed /\ target[live[o]] = NoMode
      fixed == SelectInSeq(ActiveOutputs, Fixed)
      all == FlattenSeq([i \in DOMAIN ActiveOutputs |-> MonitorAt(ActiveOutputs[i]).modes])
      list == IF fixed # 0 THEN Keepers(MonitorAt(ActiveOutputs[fixed]).modes)
              ELSE Keepers(config.modes) \o Keepers(all)
  IN  /\ step = "list" /\ step' = IF list = <<>> THEN "failed" ELSE "pool"
      /\ pool' = list
      /\ UNCHANGED <<setup, plugged, layoutVars, config, virtual, randrVars, shown>>

\* rhdModeCreateFromName, for a name that can be parsed: the width, the height, and
\* where they are given the refresh and a part for the "r".
CreateFromName(name) ==
  ModeValidate([RHDCVTMode(name[1], name[2], IF Len(name) > 2 THEN 2 * name[3] ELSE 0, Len(name) > 3)
                  EXCEPT !.name = name, !.class = "USERDEF"])

\* The mode that a name in the configuration gets.
ByName(got, name) ==
  LET matched == Grabbed(got.list, LAMBDA m : m.name = name)
      mode == IF matched # <<>> THEN BestRefresh(PreferredIfAny(OfHighestType(matched))) ELSE CreateFromName(name)
  IN  [list |-> Remaining(got.list, LAMBDA m : m.name = name),
       pool |-> IF mode = NoMode THEN got.pool ELSE Append(got.pool, mode)]

\* The best mode of each name, the preferred ones first and the rest by size.
WithoutNames(modes) ==
  LET list == OfHighestType(modes)
      names == FoldLeft(LAMBDA ns, m : IF Contains(ns, m.name) THEN ns ELSE Append(ns, m.name), <<>>, list)
      Best(name) == BestRefresh(PreferredIfAny(Grabbed(list, LAMBDA m : m.name = name)))
      best == [i \in DOMAIN names |-> Best(names[i])]
  IN  SortedOnSize(Grabbed(best, LAMBDA m : m.preferred)) \o SortedOnSize(Remaining(best, LAMBDA m : m.preferred))

\* RHDModesPoolCreate
PoolCreate ==
  LET new == IF setup.names = <<>> THEN WithoutNames(pool)
             ELSE FoldLeft(ByName, [list |-> pool, pool |-> <<>>], setup.names).pool
  IN  /\ step = "pool" /\ step' = IF new = <<>> THEN "failed" ELSE "filter"
      /\ pool' = new
      /\ UNCHANGED <<setup, plugged, layoutVars, config, virtual, randrVars, shown>>

\* MUTANT of Widened: the virtual size is the last mode's that was too large.
WidenedToLast(got, m) ==
  LET x == IF m.ch.display > got.virtual.x THEN m.ch.display ELSE got.virtual.x
      y == IF m.cv.display > got.virtual.y THEN m.cv.display ELSE got.virtual.y
  IN  IF x = got.virtual.x /\ y = got.virtual.y THEN [got EXCEPT !.kept = Append(@, m)]
      ELSE IF ~VirtualValid(x, y, setup.hw) THEN got
      ELSE [virtual |-> Virtual(m.ch.display, m.cv.display), kept |-> Append(got.kept, m)]

\* A mode that does not fit makes the virtual size larger, or goes.
Widened(got, m) ==
  LET x == IF m.ch.display > got.virtual.x THEN m.ch.display ELSE got.virtual.x
      y == IF m.cv.display > got.virtual.y THEN m.cv.display ELSE got.virtual.y
  IN  IF x = got.virtual.x /\ y = got.virtual.y THEN [got EXCEPT !.kept = Append(@, m)]
      ELSE IF ~VirtualValid(x, y, setup.hw) THEN got
      ELSE [virtual |-> Virtual(x, y), kept |-> Append(got.kept, m)]

\* RHDGetVirtualFromModesAndFilter, when the configuration has no size.  It cannot
\* tell its caller that the first mode is gone, whose pointer then dangles.
VirtualFromModes ==
  LET got == FoldLeft(Widened, [virtual |-> virtual, kept |-> <<>>], pool) IN
  /\ step = "filter"
  /\ IF virtual.x # 0 /\ virtual.y # 0 THEN step' = "attach" /\ UNCHANGED <<virtual, pool>>
     ELSE /\ step' = IF got.kept = <<>> \/ Head(got.kept) # Head(pool) THEN "dangling" ELSE "attach"
          /\ virtual' = got.virtual /\ pool' = got.kept
  /\ UNCHANGED <<setup, plugged, layoutVars, config, randrVars, shown>>

\* rhdSetMode: the clock is the picture's mode's, the timings may be the target's.
ShownAs(c, m) ==
  IF target[c] # NoMode
  THEN [timings |-> target[c], clock |-> m.clock, picture |-> m, scaler |-> Scaler(setup.hw.scale, m, target[c])]
  ELSE [timings |-> m, clock |-> m.clock, picture |-> m, scaler |-> Scaler("NONE", m, NoMode)]

ShowOnAll(m) == shown' = [c \in CRTCs |-> IF CrtcActive(c) THEN ShownAs(c, m) ELSE shown[c]]

\* RHDModesAttach, and the first mode when the screen is initialised.
ModesAttach ==
  /\ step = "attach" /\ step' = "running"
  /\ pool' = [i \in DOMAIN pool |-> [pool[i] EXCEPT !.class = "USERDEF"]]
  /\ ShowOnAll(pool[1])
  /\ UNCHANGED <<setup, plugged, layoutVars, config, virtual, randrVars>>

\* The user goes through the modes.
NextMode ==
  /\ step = "running"
  /\ \E i \in DOMAIN pool : ShowOnAll(pool[i])
  /\ UNCHANGED <<setup, step, plugged, layoutVars, config, virtual, pool, randrVars>>
-----------------------------------------------------------------------------
(* RandR: a randr output is a connector with one of its outputs.  The server    *)
(* probes before the virtual size is known, and sets modes after. *)

Routs == UNION {{<<c, o>> : o \in Range(setup.connectors[c].outputs)} : c \in DOMAIN setup.connectors}

\* Another monitor, or none, on a connector.
ExchangeMonitor ==
  /\ step = "randr" /\ plugs < MaxPlugs /\ plugs' = plugs + 1
  /\ \E c \in DOMAIN plugged, d \in setup.devices :
       plugged[c] # d /\ Connectors[c].type # "PANEL" /\ plugged' = [plugged EXCEPT ![c] = d]
  /\ UNCHANGED <<setup, step, probed, layoutVars, config, virtual, pool, scaledTo, offered, shown>>

\* rhdRROtherOutputOnConnectorHelper
OtherSenses(r) == \E s \in Routs : s # r /\ s[1] = r[1] /\ CanSense(s[2]) /\ Sensed(s[2], s[1]) # "none"

\* rhdRROutputDetect: whether the server asks the output for its modes, which it does
\* too where the answer is XF86OutputStatusUnknown: no line, no bus, nothing sensed.
Connected(r) ==
  LET c == Connectors[r[1]]
      senses == CanSense(r[2]) /\ Sensed(r[2], r[1]) # "none"
  IN  CASE c.type = "PANEL" -> TRUE
        [] c.type = "TV" -> FALSE
        [] c.type \notin {"PANEL", "TV"} /\ c.hpd # "none" ->
             IF HPDCheck(r[1]) THEN IF CanSense(r[2]) THEN senses ELSE ~OtherSenses(r)
             ELSE setup.dms59 /\ senses
        [] c.type \notin {"PANEL", "TV"} /\ c.hpd = "none" ->
             IF CanSense(r[2]) THEN senses
             ELSE c.ddc => plugged[r[1]].edid # NoEDID /\ ~OtherSenses(r)

\* Whether it is sensed: not where that is known without.
SensedForRandR(r) ==
  /\ CanSense(r[2]) /\ Connectors[r[1]].type \notin {"PANEL", "TV"}
  /\ Connectors[r[1]].hpd = "none" \/ HPDCheck(r[1]) \/ setup.dms59

\* A connected output is attached, and asked for its modes next.
OutputDetect ==
  /\ step = "randr"
  /\ \E r \in Routs :
       /\ sensed' = IF SensedForRandR(r) THEN [sensed EXCEPT ![r[2]] = Sensed(r[2], r[1])] ELSE sensed
       /\ IF Connected(r)
          THEN /\ attached' = [attached EXCEPT ![r[2]] = r[1]]
               /\ step' = "modes" /\ probed' = r /\ UNCHANGED offered
          ELSE /\ offered' = [offered EXCEPT ![r] = <<>>]
               /\ UNCHANGED <<attached, step, probed>>
  /\ UNCHANGED <<setup, plugged, plugs, monitors, live, target, config, virtual, pool, scaledTo, shown>>

\* The rounds of RHDRRModeFixup for an output that is not scaled.  The CRTC is 0
\* when it is not known yet.
FixupRound(c, r, got) ==
  LET m == got.mode
      porched == IF c = 0 THEN m ELSE PorchedMode(m)
  IN  IF ~CrtcSane(m) \/ (c # 0 /\ ~(ScanoutTakes(m, "NONE", NoMode) /\ FitsRegisters(porched)))
      THEN [is |-> "refused", mode |-> m]
      ELSE IF porched # m THEN [is |-> "adjusted", mode |-> porched]
      ELSE IF /\ OutputModeValid(Driver(r[2]), Connectors[attached[r[2]]].type, m)
              /\ monitors[r[1]].present => MonitorValid(monitors[r[1]], m)
      THEN [is |-> "valid", mode |-> m] ELSE [is |-> "refused", mode |-> m]

\* RHDRRModeFixup, for a mode that is scaled to another or to NoMode.
RRModeFixup(c, r, m, to) ==
  LET valid == IF to = NoMode THEN Validated(LAMBDA got : FixupRound(c, r, got), m)
               ELSE IF c # 0 THEN ValidateCrtc(c, m, "FROM", to)
               ELSE IF ModeSane(m) THEN FilledOut(m) ELSE NoMode
  IN  IF valid # NoMode /\ VirtualTakes(valid) THEN valid ELSE NoMode

\* RHDRRValidateScaledToMode asks the output and its monitor, which is new.
RRValidateScaledTo(r, monitor, m) ==
  LET full == FilledOut(m) IN
  IF /\ ModeSane(m) /\ CrtcSane(full)
     /\ OutputModeValid(Driver(r[2]), Connectors[attached[r[2]]].type, full)
     /\ MonitorValid(monitor, full) /\ ConfigTakes(full)
  THEN full ELSE NoMode

\* RHDRRMonitorInit adds modes to scale from.
RRMonitorInit(c) ==
  LET WithSynth(m) == IF ScalePolicy(m, Connectors[c].type) THEN [m EXCEPT !.modes = @ \o SynthModes] ELSE m
  IN  WithSynth(ReadMonitor(c))

\* rhdRROutputGetModes: the monitor is read anew, and its native mode is validated
\* before reduced blanking is allowed.
OutputGetModes ==
  LET c == probed[1]
      To(monitor) == IF ScalePolicy(monitor, Connectors[c].type)
                     THEN RRValidateScaledTo(probed, monitor, monitor.native) ELSE NoMode
  IN  /\ step = "modes" /\ step' = "validate"
      /\ \E monitor \in {RRMonitorInit(c)} :
           /\ monitors' = [monitors EXCEPT ![c] = WithReduced(monitor, probed[2])]
           /\ offered' = [offered EXCEPT ![probed] = monitor.modes]
           /\ scaledTo' = [scaledTo EXCEPT ![probed] = IF monitor.present THEN To(monitor) ELSE @]
      /\ UNCHANGED <<setup, plugged, plugs, probed, attached, sensed, live, target, config, virtual, pool, shown>>

\* The server has every mode validated by rhdRROutputModeValid, without a CRTC, and
\* offers those that are.
OutputModesValid ==
  LET Valid(m) == attached[probed[2]] # 0 /\ RRModeFixup(0, probed, m, scaledTo[probed]) # NoMode IN
  /\ step = "validate" /\ step' = "randr" /\ probed' = <<>>
  /\ offered' = [offered EXCEPT ![probed] = SelectSeq(@, Valid)]
  /\ UNCHANGED <<setup, plugged, plugs, layoutVars, config, virtual, pool, scaledTo, shown>>

\* rhdRRModeCopy, for a mode that is not scaled: only a synthesized mode keeps the
\* timings that were filled in.
RRModeCopy(m) ==
  LET copied == [m EXCEPT !.synth = 0, !.hsync = 0, !.vrefresh = 0] IN
  IF m.class = "BUILTIN" THEN copied ELSE [copied EXCEPT !.ch = Unfilled, !.cv = Unfilled]

\* rhdRRSanitizeMode, for a mode that is.
RRSanitizeMode(m) == IF m.class = "BUILTIN" THEN m ELSE [m EXCEPT !.ch = Unfilled, !.cv = Unfilled, !.synth = 0]

\* rhdRRCrtcModeSet: a picture of another size is scaled.
RRCrtcModeSet(c, o, picture, timings) ==
  LET scaled == picture.h.display # timings.h.display \/ picture.v.display # timings.v.display IN
  /\ shown' = [shown EXCEPT ![c] =
       [timings |-> timings, clock |-> timings.clock, picture |-> picture,
        scaler |-> IF scaled THEN Scaler(setup.hw.scale, picture, timings) ELSE Scaler("NONE", timings, NoMode)]]
  /\ live' = [p \in DOMAIN live |-> IF p = o THEN c ELSE IF live[p] = c THEN 0 ELSE live[p]]

\* rhdRROutputModeFixup, and what follows when it succeeds.  The target stays when
\* the mode to scale is refused.
OutputModeSet ==
  /\ step = "randr" /\ virtual.x > 0
  /\ \E r \in Routs, c \in CRTCs : \E i \in DOMAIN offered[r] :
       LET to == IF scaledTo[r] = NoMode THEN NoMode ELSE ValidateScaledTo(c, scaledTo[r])
           Fresh(m) == IF to = NoMode THEN RRModeCopy(m) ELSE RRSanitizeMode(m)
           m == RRModeFixup(c, r, Fresh(offered[r][i]), to)
       IN  /\ scaledTo[r] # NoMode => to # NoMode
           /\ target' = IF to = NoMode THEN target ELSE [target EXCEPT ![c] = to]
           /\ IF m = NoMode THEN UNCHANGED <<live, shown>>
              ELSE RRCrtcModeSet(c, r[2], m, IF to = NoMode THEN m ELSE to)
  /\ UNCHANGED <<setup, step, plugged, randrVars, attached, sensed, monitors, config, virtual, pool>>
-----------------------------------------------------------------------------
ModeInit ==
  /\ setup \in Setups
  /\ step = IF setup.randr THEN "randr" ELSE "layout"
  /\ plugged = setup.plugged /\ plugs = 0 /\ probed = <<>>
  /\ LET outputs == Range(OutputList) IN
       /\ attached = [o \in outputs |-> 0]
       /\ sensed = [o \in outputs |-> "none"]
       /\ live = [o \in outputs |-> 0]
  /\ monitors = [c \in DOMAIN setup.connectors |-> NoMonitor]
  /\ target = [c \in CRTCs |-> NoMode]
  /\ config = NoMonitor /\ virtual = [x |-> 0, y |-> 0, pitch |-> 0] /\ pool = <<>>
  /\ scaledTo = [r \in Routs |-> NoMode] /\ offered = [r \in Routs |-> <<>>]
  /\ shown = [c \in CRTCs |-> NotShown]

ModeNext ==
  \/ SenseConnectors \/ DealOutputs \/ ValidateTargets \/ VirtualFromConfig
  \/ CreateModesList \/ PoolCreate \/ VirtualFromModes \/ ModesAttach \/ NextMode
  \/ ExchangeMonitor \/ OutputDetect \/ OutputGetModes \/ OutputModesValid \/ OutputModeSet
-----------------------------------------------------------------------------
InFinalForm(m) ==
  /\ \A t \in {m.ch, m.cv} :
       /\ 0 < t.display /\ t.display <= t.blankStart /\ t.blankStart <= t.start
       /\ t.start < t.end /\ t.end < t.blankEnd /\ t.blankEnd <= t.total /\ t.total <= 8192
  /\ "INTERLACE" \in m.flags => m.cv.start >= m.cv.display + 2

\* What is left of the screen for the picture, whose shape it keeps to a pixel.
Framed(s) ==
  LET b == s.scaler.borders
      w == s.timings.ch.display - b.left - b.right
      h == s.timings.cv.display - b.top - b.bottom
      p == s.picture.ch.display
      q == s.picture.cv.display
      skew == w * q - h * p
  IN  /\ w > 0 /\ h > 0
      /\ s.scaler.enabled \/ <<w, h>> = <<p, q>>
      /\ setup.hw.scale = "KEEP_ASPECT_RATIO" =>
           {skew, -skew} \subseteq -Larger(p, q)..Larger(p, q)

\* The timings suit what the output and the monitor can take.
Suits(m, o) ==
  LET monitor == MonitorAt(o)
      Near(rate, ranges) == ranges = {} \/ \E r \in ranges : 100 * rate >= 99 * r[1] /\ 100 * rate <= 101 * r[2]
  IN  /\ monitor.present =>
           /\ Near(HSync(m.synth, m.ch.total), monitor.hsync)
           /\ Near(VRefresh(m.synth, m.ch.total, m.cv.total, m.flags), monitor.vrefresh)
           /\ monitor.fixed => \E i \in DOMAIN monitor.modes : m.clock = monitor.modes[i].clock
      /\ Connectors[attached[o]].type = "DVI_SINGLE" /\ o \notin {"DACA", "DACB"} => m.clock <= 165000

RightlyShown(c) ==
  LET s == shown[c] IN
  /\ InFinalForm(s.timings) /\ Framed(s)
  /\ s.picture.ch.display <= virtual.x /\ s.picture.cv.display <= virtual.y
  /\ \A o \in OutputsOn(c) : Suits(s.timings, o)

\* The pool has one mode for each name that the best class of modes has, none of
\* which is beaten by another of its name, the preferred modes come first, and the
\* rest by size (RHDModesPoolCreate).
PoolRight ==
  LET Of(class) == {m \in Range(pool) : m.class = class}
      from == IF Of("USERDEF") # {} THEN Of("USERDEF") ELSE IF Of("DRIVER") # {} THEN Of("DRIVER") ELSE Range(pool)
      Before(m, n) == Area(m.ch, m.cv) >= Area(n.ch, n.cv)
  IN  /\ {m.name : m \in Range(pool')} = {m.name : m \in from}
      /\ \A i, j \in DOMAIN pool' : i < j =>
           /\ pool'[i].name # pool'[j].name
           /\ pool'[j].preferred => pool'[i].preferred
           /\ pool'[i].preferred = pool'[j].preferred => Before(pool'[i], pool'[j])
      /\ \A m \in Range(pool'), n \in from :
           m.name = n.name => /\ n.preferred => m.preferred
                              /\ m.preferred = n.preferred => m.vrefresh >= n.vrefresh

\* A CRTC is only ever set to timings in their final form, which its outputs and
\* their monitors as they are known then can take, and to a picture from the
\* frame buffer that fills the screen between the borders, out of a pool that has
\* the best mode of each name.  Modes are adjusted while they are validated, by
\* one after the other, whatever they come from (rhdModeValidateCrtc, RHDRRModeFixup).
ScreensGetTheirMode ==
  [][/\ step = "pool" /\ step' = "filter" /\ setup.names = <<>> => PoolRight
     /\ \A c \in CRTCs : shown'[c] # shown[c] => RightlyShown(c)']_setupVars

\* The virtual size holds every mode of the pool, and the memory, the CRTCs and the
\* 2D engine can take it with its pitch (RHDGetVirtualFromModesAndFilter).
VirtualRight ==
  step = "running" =>
    /\ VirtualValid(virtual.x, virtual.y, setup.hw)
    /\ virtual.pitch = Pitch(virtual.x, setup.hw)
    /\ \A i \in DOMAIN pool : pool[i].ch.display <= virtual.x /\ pool[i].cv.display <= virtual.y

\* rhd_monitor.c: a "panel should be driven at native resolution only", at the rate
\* that belongs to its timings.
PanelDrivenNatively ==
  \A c \in CRTCs : target[c] # NoMode /\ shown[c].timings # NoMode => shown[c].clock = shown[c].timings.clock
=============================================================================
