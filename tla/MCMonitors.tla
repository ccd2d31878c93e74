------------------------------ MODULE MCMonitors ------------------------------
(***************************************************************************)
(* Monitors for TLC: how they are read, and the modes they get.  Reading,   *)
(* with power management: cards of each generation with plausible clocks,   *)
(* whose lines are used, and R5xx cards with all sorts of BIOSes and        *)
(* options, but no lines.  Modes: some twenty cards with their monitors.    *)
(* They share no state, so each is explored by itself.                      *)
(***************************************************************************)
EXTENDS PowerManagement, ModeSetup

VARIABLE machine  \* which of them is explored

Usual == [min |-> State(2, 2), max |-> State(5, 5), default |-> State(4, 4), known |-> <<>>, memory |-> 4, reads |-> TRUE]
Lined(g, lines) == [gen |-> g, lines |-> lines, bios |-> Usual, user |-> [low |-> TRUE, engine |-> 0]]

Odd == {[gen |-> "r5xx", lines |-> <<"odd">>, user |-> u,
         bios |-> [min |-> State(n, m), max |-> State(x, m), default |-> State(d, m),
                   known |-> k, memory |-> m, reads |-> r]] :
         n \in {0, 1, 4, 6}, x \in {0, 1, 3, 6}, d \in {0, 1, 3, 6}, m \in {0, 4},
         k \in {<<>>, <<State(2, 0)>>, <<State(6, 4), State(5, 0)>>}, r \in BOOLEAN,
         u \in [low : BOOLEAN, engine : {0}] \cup [low : {TRUE}, engine : {5, -1}]}

TheMachines == {Lined("r5xx", <<"known", "odd", "unnamed">>), Lined("rs690", <<"odd", "known">>),
                Lined("rs690", <<"known", "unnamed">>), Lined("r6xx", <<"unnamed", "known">>),
                Lined("rv620", <<"known", "unnamed", "known", "unnamed">>)} \cup Odd

Clocks == {1, 3, 4, 6}
SomeReads == {<<0, 2>>, <<3, 7>>}
-----------------------------------------------------------------------------
T(size, blank, from, sync) == [active |-> size, blanking |-> blank, offset |-> from, width |-> sync]
Detailed(kHz, h, v, interlaced) ==
  [is |-> "detailed", stereo |-> FALSE, separate |-> TRUE, clock |-> kHz, h |-> h, v |-> v,
   hpositive |-> TRUE, vpositive |-> FALSE, interlaced |-> interlaced]
Ranges == [is |-> "ranges", hsync |-> <<24000, 80000>>, vrefresh |-> <<4800, 9000>>, maxClock |-> 170000]
EDID(established, standard, sections) ==
  [established |-> established, standard |-> standard, preferred |-> TRUE, sections |-> sections]

Size(w, h, r) == [w |-> w, h |-> h, refresh |-> r]
WideTiming == Detailed(74250, T(1280, 370, 110, 40), T(720, 30, 5, 5), FALSE)
\* Not a line between the picture and its sync, which is one line long.
TightTiming == Detailed(33000, T(1024, 320, 24, 136), T(600, 25, 1, 1), TRUE)

\* The monitor prefers 60 Hz where it could do 75.
CRT == EDID({4, 5, 8, 10, 11, 12}, <<Size(1280, 960, 75), Size(1600, 1200, 60)>>,
            <<Detailed(108000, T(1280, 408, 48, 112), T(1024, 42, 1, 3), FALSE), Ranges, TightTiming, [is |-> "standard", timings |-> <<Size(1152, 864, 75)>>]>>)
OldCRT == EDID({5, 11, 12}, <<>>, <<[TightTiming EXCEPT !.stereo = TRUE]>>)
Flat == EDID({5}, <<>>, <<Detailed(154000, T(1920, 160, 48, 32), T(1200, 35, 3, 6), FALSE), Ranges>>)
Small == EDID({5, 11}, <<>>, <<WideTiming>>)

Unplugged == [hpd |-> FALSE, sense |-> "none", edid |-> NoEDID]
Analog(edid) == [hpd |-> FALSE, sense |-> "VGA", edid |-> edid]
Digitally(edid) == [hpd |-> TRUE, sense |-> "DVI", edid |-> edid]

LcdTable(lvds) ==
  LET D(size, blank, from, sync) ==
        [active |-> size, border |-> 0, blanking |-> blank, offset |-> from, width |-> sync]
  IN  [lvds |-> lvds, panel |-> [clock |-> 71000, h |-> D(1280, 160, 48, 32), v |-> D(800, 23, 3, 6)],
       records |-> <<[is |-> "cap"], [is |-> "fake EDID", edid |-> Small]>>,
       tv |-> [supported |-> {"NTSC"}, timings |-> ("TV_NTSC" :>
         LET Tv(size, start, width, total) ==
               [active |-> size, start |-> start, width |-> width, total |-> total, after |-> 0, before |-> 0]
         IN  [clock |-> 27000, h |-> Tv(720, 744, 64, 858), v |-> Tv(480, 492, 6, 525), flags |-> {"INTERLACE"}])]]

VGA == [type |-> "VGA", ddc |-> TRUE, hpd |-> "none", outputs |-> <<"DACA">>]
DVI == [type |-> "DVI_SINGLE", ddc |-> TRUE, hpd |-> "HPD0", outputs |-> <<"TMDSA", "DACB">>]
Second == [type |-> "DVI", ddc |-> TRUE, hpd |-> "HPD1", outputs |-> <<"LVTMA">>]
Panel == [type |-> "PANEL", ddc |-> FALSE, hpd |-> "none", outputs |-> <<"LVTMA">>]
TV == [type |-> "TV", ddc |-> FALSE, hpd |-> "none", outputs |-> <<"DACB">>]

Before600(scale) == [bpp |-> 32, start |-> 0, size |-> 128 * 1048576, r600 |-> FALSE, accel |-> TRUE, scale |-> scale]
From600(scale) == [Before600(scale) EXCEPT !.r600 = TRUE]
Tiny == [Before600("NONE") EXCEPT !.bpp = 16, !.size = 3 * 1048576]

NoConfig == [named |-> FALSE, hsync |-> {}, vrefresh |-> {}, reduced |-> FALSE, maxClock |-> 0,
             modes |-> <<Modeline(<<800, 600>>, "NONE", 40000, <<800, 840, 968, 1056>>, <<600, 601, 605, 628>>, PP),
                         Modeline(<<800, 600>>, "NONE", 36000, <<800, 824, 896, 1024>>, <<600, 601, 603, 625>>, PP)>>]

Card(connectors, monitorsOn) ==
  [connectors |-> connectors, wired |-> [c \in DOMAIN connectors |-> connectors[c].hpd], plugged |-> monitorsOn,
   hpdUsage |-> "AUTO", atomOutputs |-> FALSE, ignored |-> {}, dms59 |-> FALSE, randr |-> FALSE,
   hw |-> Before600("CENTER"), bios |-> LcdTable(0), tv |-> "NTSC", force |-> {}, useConfig |-> FALSE,
   config |-> NoConfig, virtual |-> <<0, 0>>, names |-> <<>>, devices |-> {}]

\* A card without connectors, and with nothing else that is looked at.
Bare == [connectors |-> <<>>, plugged |-> <<>>, randr |-> FALSE]

Laptop == [Card(<<Panel, VGA>>, <<Unplugged, Analog(CRT)>>) EXCEPT !.bios = LcdTable(1)]
Named == [NoConfig EXCEPT !.named = TRUE, !.hsync = {<<30000, 70000>>}, !.reduced = TRUE, !.maxClock = 140000]

TheSetups ==
  { Bare, Card(<<VGA>>, <<Analog(CRT)>>),
    [Card(<<VGA>>, <<Analog(CRT)>>) EXCEPT !.hw = Tiny],
    [Card(<<VGA>>, <<Analog(CRT)>>) EXCEPT !.virtual = <<1600, 200>>],
    [Card(<<VGA, TV>>, <<Analog(OldCRT), [Unplugged EXCEPT !.sense = "TV"]>>) EXCEPT !.tv = "PAL"],
    Card(<<TV>>, <<[Unplugged EXCEPT !.sense = "TV"]>>),
    Laptop, [Laptop EXCEPT !.hw = From600("KEEP_ASPECT_RATIO")],
    [Laptop EXCEPT !.hw = From600("SCALE"), !.ignored = {2}, !.virtual = <<1600, 1200>>],
    Card(<<[Panel EXCEPT !.ddc = TRUE], VGA>>, <<[Unplugged EXCEPT !.edid = Flat], Unplugged>>),
    Card(<<DVI, Second, VGA>>, <<Digitally(Flat), Digitally(Small), Analog(CRT)>>),
    Card(<<[DVI EXCEPT !.outputs = <<"UNIPHYA", "DACB">>], [Second EXCEPT !.outputs = <<"DVO">>]>>,
         <<Digitally(Flat), Digitally(Small)>>),
    [Card(<<DVI, Second>>, <<Unplugged, Digitally(Small)>>) EXCEPT !.hpdUsage = "SWAP", !.atomOutputs = TRUE],
    [Card(<<DVI, Second>>, <<Analog(CRT), Unplugged>>) EXCEPT !.dms59 = TRUE, !.force = {TRUE}],
    [Card(<<VGA>>, <<Analog(NoEDID)>>) EXCEPT !.config = Named, !.virtual = <<1600, 1200>>,
       !.names = << <<1024, 768>>, <<1280, 800, 60, 0>>, <<800, 600>>, <<640, 480, 75>> >>],
    Card(<<[VGA EXCEPT !.ddc = FALSE]>>, <<Analog(CRT)>>),
    [Card(<<DVI, VGA>>, <<Digitally(Flat), Analog(OldCRT)>>) EXCEPT !.randr = TRUE, !.hpdUsage = "OFF",
       !.devices = {Unplugged, Analog(OldCRT)}],
    [Laptop EXCEPT !.hw = From600("KEEP_ASPECT_RATIO"), !.randr = TRUE, !.plugged = <<Unplugged, Analog(Small)>>,
       !.virtual = <<1280, 800>>, !.devices = {Unplugged}] }

OneMachine == CHOOSE m \in Machines : TRUE

MonitorsInit ==
  /\ machine \in {"reading", "modes"}
  /\ machine = "reading" => setup = Bare
  /\ machine = "modes" => card = OneMachine /\ clock = Min(ConsoleClocks)
  /\ Init /\ ModeInit

MonitorsNext ==
  \/ machine = "reading" /\ Next /\ UNCHANGED setupVars
  \/ machine = "modes" /\ ModeNext /\ UNCHANGED <<i2c, power>>

MonitorsSpec ==
  MonitorsInit /\ [][MonitorsNext /\ UNCHANGED machine]_<<machine, i2c, power, setupVars>>
=============================================================================
