# Verification of the radeonhd driver

TLA+ models of the X.org driver xf86-video-radeonhd (R5xx to R7xx Radeons), the
TLC configurations that check them and the TLAPS proofs about them. Paths are
relative to the repository's root; the driver is `src/src/`.

| Read this | for |
|---|---|
| 1 Inventory | the driver's parts, their state, what is hard about them |
| 2 Modules | which module models what, and how it corresponds to the code |
| 3 Runs | what each TLC run checks, its bounds, what it found |
| 4 Proofs | what holds for every value of the constants, and why |
| 5 Assumptions | what is external, and the fairness |
| 6 Not modelled | and why |
| 7 Plan | what comes next |

`PROJECT.json` has the same in machine readable form: `components`, `runs`,
`theorems`, the `map` from each definition to the lines it models, the `hazards`
of the code with the properties that would catch them, and for each property a
`mutant`: a plausible bug that makes the property fail (the definitions marked
MUTANT in the modules).

To check: `tlc -config X.cfg M` for each run of section 3, and
`tlapm M_proofs.tla` for the eight proof modules.


## 1 Inventory

The driver is a library in the X server's single thread. What runs concurrently
with it is the card (a FIFO of register writes, a command processor, two
engines, two scanout controllers, a panel sequencer, an I2C engine), the kernel's
DRM module, and direct rendering clients, which share the card under a lock.
Nothing is persistent, but the card's registers, its memory and the kernel's
state outlive a server generation and a VT switch.

### Command submission (`rhd_cs.c`, `rhd_cs.h`, part of `rhd_dri.c`)

State: a buffer with the pointers `Flushed` and `Wptr`, `Active`, `Clean`.
Operations: Grab (make room), Write, Advance, Flush, Idle, Start, Stop, Reset,
through one of two backends. The MMIO backend copies register writes into the
card's FIFO with bounded polling loops. The DRM backend fills buffers of the
kernel's pool, submits parts of them, swaps and discards them.
Hard: the card works while the server looks; every loop gives up some time; the
CP reads memory the server goes on using; padding inside a flush calls Grab,
which may flush. Correct means: the card executes what was written, once, in
order; nothing the CP will read is overwritten; no buffer is lost; an idle
that succeeded means that everything is executed.

### Sharing with direct rendering (`rhd_dri.c`, `r5xx_accel.c`, EXA, XAA, 3D)

State: `CS->Clean`, `engineMode`, `XHas3DEngineState`, `ctx_owner` in the SAREA,
EXA's sync marker. They predict the state of the engines from the sequence of
calls: nobody asks the card. Operations: the wakeup and block handlers
(`RHDEnterServer`, `RHDLeaveServer`), the acceleration hooks, the engine reset,
the VT switches. Correct means: who draws finds the engine idle if it has to be,
its own 3D state loaded, and its work submitted before anyone else's.

### Drawing with the 3D engine (`r600_exa.c`, `r6xx_accel.c`, `radeon_exa_render.c`, `radeon_3d.c`, Xv)

State: the registers of the 3D engine, `accel_state`, the indirect buffer of the
operation under way with its vertices, `XHas3DEngineState`, EXA's marker, the
scratch buffer with its two halves, a copy area. Operations: Prepare, the
rectangles, Done of each EXA operation and of a video frame; uploads, downloads.
Hard: each operation writes some registers and trusts the default state for the
others; a buffer may be replaced in the middle of an operation, discarded, or a
pixmap be evicted by EXA during a preparation; the card reads the half that the CPU
is about to fill. Correct means: a draw reads what its own operation or the
default state wrote; pixels arrive once and where they belong.

### The screen's life (`rhd_driver.c`, `rhd_mc.c`, `rhd_vga.c`, `rhd_dri.c`)

State: `vtSema`, what was saved of each unit (`Stored` flags and values), the
memory controller's location of the framebuffer, the VGA, `VGA_SETUP` and
`MC_SETUP`, the DRI's file descriptor, hardware lock, GART table and its
backup. Operations: PreInit, ScreenInit, CloseScreen, EnterVT, LeaveVT,
SwitchMode, and a dying server that leaves the VT by itself. Hard: each handler
is a long sequence of calls to other parts, each of which can fail; some
failures end the handler, some are ignored; the next handler, possibly in
another server generation, starts from what is left. Correct means: the console
comes back as it was, the memory controller never moves under somebody's reads,
locks and streams are balanced.

### The BIOS's tables (`rhd_atombios.c`, `AtomBios/`)

State: the chain of working tables, each with its pointer into its table, its work space and its
caller's parameter space; the operands and registers of the command under way
(`PARSER_TEMP_DATA`); the pointer into the table of indirect IO; the save list. Operations:
executing a table for the driver, and each of its commands: moves, arithmetic and
comparisons of fields of 32 bit words, jumps, switches, calls, indirect reads and
writes of registers. Hard: the tables are the board's, and each command advances by as
many bytes as it reads; a command is spread over functions that the parser calls through
tables; a called table works on the words behind its caller's parameters; the
card changes registers while a table polls them; every write, however indirect, must
pass the save list. Correct means: the parser never reads a command from the middle of another;
a field is written without its neighbours; each table finds its own parameters; what a
table changed can be put back.

### Modesetting

| Part | Files | State | Operations | What makes it correct |
|---|---|---|---|---|
| Mode layout | `rhd_driver.c`, `rhd_output.c`, `rhd_connector.c` | outputs, connectors, CRTCs and who is bound to whom | `rhdModeLayoutSelect`, `rhdOutputConnectorCheck`, hot plug and sensing | each active output drives one attached connector from one CRTC; a shared output is never driven for two connectors |
| RandR | `rhd_randr.c` | RandR's view of the same objects | Prepare, ModeSet, Commit, DPMS, Detect, properties | an output is off while its CRTC changes; the two views agree |
| CRTCs | `rhd_crtc.c`, `rhd_atomcrtc.c` | mode, scaler, FMT, power, stored registers | Valid, Set, Power, Save, Restore | read requests stop before the controller is reset; scaling stays within limits |
| PLLs | `rhd_pll.c`, `rhd_atompll.c` | dividers, power, CRTC multiplexer | divider search, Set, Power, `R500PLLCRTCGrab` | the best divider within limits; the multiplexer switches only between running clocks |
| LUTs, cursors | `rhd_lut.c`, `rhd_cursor.c` | palettes, images, position | load, show, hide, move, save, restore | both heads agree with the one X cursor |
| Modes, monitors | `rhd_modes.c`, `rhd_monitor.c`, `rhd_edid.c` | none, lists of modes | validation, EDID, CVT/GTF | a mode that passes fits every limit; the fix-up loop ends |
| DAC, TMDS, DDIA, LVTMA, DIG | `rhd_dac.c`, `rhd_tmds.c`, `rhd_ddia.c`, `rhd_lvtma.c`, `rhd_dig.c` | per output registers; the panel's power sequence; two encoders for up to four transmitters | Sense, Mode, Power, Save, Restore, Allocate | sequencing with time-outs; allocation and release match |
| Scratch registers | `rhd_biosscratch.c` | bits shared with the BIOS | attached, active, DPMS updates | the bits follow the outputs |

### The rest

I2C (`rhd_i2c.c`): transactions of four generations of engines, with arbitration
against the hardware and chunked transfers. Power management (`rhd_pm.c`):
clamping of clocks and voltages. Audio and HDMI (`rhd_audio.c`, `rhd_hdmi.c`): a
timer that updates registered HDMI interfaces. AtomBIOS (`rhd_atombios.c`, `rhd_atomout.c`,
`AtomBios/`): queries of the BIOS's data tables, and the calls of its command tables, packed and unpacked.
ShadowFB, ACPI backlight, the card table, options, register headers, the
`rhd_conntest` tool and the manual.

### How the parts interact

    X server --handlers--> rhd_driver --save/restore/idle--> MC, VGA, CRTCs, PLLs, outputs, ...
       |                       |--start/stop--> rhd_cs --ioctl--> kernel --> CP --> engines
       |--EXA/XAA hooks--> r5xx_exa/xaa --Grab/Write--> rhd_cs
       |--DRI callbacks--> rhd_dri --Clean, Claim--> rhd_cs, r5xx_accel
    clients --lock, SAREA ctx_owner--> rhd_dri        clients --ioctl--> kernel

Everything is a direct call except the last line (shared memory and a lock in
the kernel), the DRI callbacks and the audio timer (callbacks of the server's
main loop), and the card, which is only polled.


## 2 Modules

    CommandStream          what a backend promises            CommandStream_proofs
      ^ implemented by       ^ implemented by
    MmioSubmission         DrmSubmission                      MmioSubmission_proofs, DrmSubmission_proofs
    DriContext             X and its clients on one card      DriContext_proofs
                             above the command stream
    DrawState              what an operation draws with      Acceleration_proofs
      tables R600Drawing, R5xxDrawing
    Transfers              pixels between memories            Acceleration_proofs
    OverlapCopy, XaaScanlines
                           pixels within a pixmap, within the commands
    VideoFrames            Xv's frames, from the client to the textures
                                                             Acceleration_proofs
      ^ MCAcceleration (one after the other, with MmioSubmission)
    ScreenLifecycle        the handlers, above everything    Screen_proofs
    SavedRegisters         borrowing a part's registers      Screen_proofs
      EXTENDS RegisterTables
    AtomInterpreter        the BIOS's tables, command by command
      ^ MCInterpreter        images for it                   AtomBios_proofs
      ^ MCScreen (one after the other), with the tables
        OutputRegisters, CrtcRegisters, CardRegisters, AtomRegisters
    PixelClocks            the PLLs and who uses them
    DigEncoders            the two encoders and who uses them, through RandR's rounds
                                                             AtomBios_proofs
      ^ MCModesetting (one after the other)
    PowerManagement EXTENDS I2CEngines                       PowerManagement_proofs
    ModeSetup              from what is plugged in to what is shown
      EXTENDS Monitors       what is known of a monitor
        EXTENDS ScanoutLimits  what a part of the card, or a monitor, takes
          EXTENDS DisplayModes   timings, CVT, lists of modes
      ^ MCMonitors (the cards, with PowerManagement and ModeSetup one after the other)

**CommandStream** is the abstract specification: `queued` items are written,
`pending` are under way, the card has `executed` up to a number. `Queue`,
`Execute` and `Lose`; only the last loses anything, and says so in `lossy`.

**MmioSubmission** models `CSMMIO*` and the generic calls for R5xx without DRI.
A register write is two words of the buffer and is the model's unit. `RegWrite`
is `RHDCSRegWrite`; `GrabRoom`, `GrabRewind` and `GrabGiveUp` are the exits of
CSMMIOGrab's loop; `StuffRead` reads the free entries of the FIFO and
`StuffWrite` writes one register: the card's `CardExecute` comes between any two
of them. `MoreScanlines` is the XAA hook that flushes only every 32 lines. A
write beyond the buffer is undefined in C and ends in `pc = "undefined"`.

**DrmSubmission** models `DRMCP*`, the generic calls, and the buffer calls of
`rhd_dri.c`. `FlushSubmit` submits `Flushed .. Wptr` with padding and aligns the
pointers; `DiscardSubmit` submits the rest and gives the buffer back; the
`Get*`, `Stop*` and `Idle*` actions are the turns and the exits of the loops.
The CP (`CpExecute`, `CpRetire`) reads a word from memory when it gets to it,
not when it was submitted. What is pending, for CommandStream, are the places of memory
that the CP will still come to, in that order: `Rank` counts those before a place, and
`Pending` is the word at each rank. Counting needs no recursion, so that the mapping can be
proved about.

**DriContext** models who draws when. The properties are about `Order`, the
stream of operations as the engines get them: `stream` is submitted, `buffer` is
not. `Write` may submit a prefix at any point, as a full buffer does. `WakeUp` is
RHDEnterServer, `BlockHandler` is RHDLeaveServer, the EXA hooks are reduced to
what they ask of the engines, `ClientDraws` is a client that reloads its state
if it is not the context's owner.

**DrawState** models an operation from its preparation until it is done, by who wrote
each register (`regs`) and each field of accel_state (`fields`) last: the
operation itself, the default state, or somebody else. From R600 on it fills an
indirect buffer (`Rectangle`), which `Split` replaces, `Done` gives to the CP or
discards, `PrepareEvicting` interrupts by a download, and `Refuse` drops. `found` is
what the last draw met. What an operation writes and reads is a table:
**R600Drawing** has one definition per setter of r6xx_accel.c and composes the
operations of r600_exa.c from them, **R5xxDrawing** those of the R500 and of the
chips without vertex processing. Clients, resets, software drawing and VT switches come in
between.

**Transfers** models R600CopyToVRAM, R600DownloadFromScreen and the R5xx's download row by
row: the CPU works on one half of the scratch buffer while the card's `blits` of the other are
queued, and `WaitForHalf` is RHDCSIdle, which may give up. **OverlapCopy** models R600Copy:
`OverlapBlits` cuts a copy within a pixmap into blits whose sources and destinations must
not overlap, a pixel drawn while it is read being `Junk`. **XaaScanlines** models
lines that are sent behind a packet: the `window` of the command buffer that XAA fills
after it was counted as written, EXA's upload, and HOST_DATA without the CP.

**VideoFrames** models rhd_video.c with the texture setups of both engines: `QueryImageAttributes` is the size
and `Attributes` are the pitches that the client gets, `Allocate` the port's buffer by EXA or XAA, `Copied` the rectangles
that the frame is copied to, by which line of the client's image each of their lines is (`PackedPass` and `PlanarPass` are the passes
that the command buffer bounds), and `TexturesOf` what the 3D engine samples. A frame is put in
one step (`PutImage`), a port is stopped by `StopVideo`. Addresses are bytes. On R5xx the CP always gets
the image (without CP DMA there is no textured video, rhd_video.c:1011, rhd_cs.c:449); on R600 the engine
copies it, but with AGP the CPU does. What it does on a byte-swapping machine, what is clipped away, colour spaces and the shaders' constants are left out; a pixmap outside of
the frame buffer is refused without any change.

**ScreenLifecycle** models the handlers of `rhd_driver.c` as sequences of calls
(`Program`) and each call as an action, with the card free to run between them.
`units` says whose values each unit has, `saved` whose values were saved,
`reading` who sends reads to the memory controller. Every failure has its branch:
`Fatal` where the server dies (which leaves the VT by itself if `vtSema` is set),
`Proceed` where the code goes on, `Skip` where it leaves out calls. The 2D and 3D
setup in RHDEnterVT, the cursor, the palette and power management are part of
their neighbours.

**SavedRegisters** looks into the units of ScreenLifecycle. A part of the display
hardware is borrowed from the console: saved, written, restored. `EnterVT`, `LeaveVT`,
`Sense`, `Mode`, `Power` and `Touch` are the calls each part has; what they read and
write is a table, and the tables are the translation of the files:
**OutputRegisters** (DACs, TMDSA, DDIA, LVTMA, the DIG's transmitter and encoder,
HDMI), **CrtcRegisters** (CRTC, scaler, FMT, palette with its window, cursor,
audio), **CardRegisters** (the six memory controllers, VGA, BIOS scratch
registers) and **AtomRegisters** (CRTCs, outputs and PLLs that the BIOS drives).
A register's content is whose it is ("driver", "on", "off", or one of the
console's), for the values themselves are data. `Writes` of **RegisterTables** says
which registers a handler leaves switched on, off or set. A table also says what the
code does not put back (`lost`), each with a comment. Where the BIOS interpreter writes, `Recorded` puts the register's
value on the save list in use, if no list has it yet; `Restored` is the way back.

**AtomInterpreter** models ParseTable (Decoder.c), the commands (CD_Operations.c), the services
(hwserv_drv.c) and the callbacks that read and write registers (rhd_atombios.c). An image is a
record of command tables (a map from byte offsets to commands), the table of indirect IO, and data; `WellFormed`
says what the parser takes for granted of it: commands follow one another without gaps, jumps lead to commands, cases follow
their switch, each indirect program ends. A word is the set of its bits, of `4 * ByteBits`, so that masks
and shifts are sets and the arithmetic is modulo 2^32 for bytes of eight bits. `Exec` is rhdAtomExec. A command with operands
goes through the phases of the code: `ProcessCommandProperties` reads its header, `GetDestination`,
`GetParametersDirect` and `GetSource` its operands, `Execute` or `Evaluate` computes, `PutData` and `PutDataRegister` write. A register
behind an indirect port leaves these for `Search` and `IndirectCommand`, which go on, with `EndOfProgram`,
where `resume` says. `cmdCall_Table` and `EndOfTable` push and pop working tables, `Refuse` is each way
for a table to fail. `CardTurns` lets the card change a register at any moment. Uninitialised
words, a call without memory, and shifts by 32 and more may be each of what a build makes of them.

**PixelClocks** models rhd_pll.c write by write: a routine is a sequence of writes
(`todo`), a handler a sequence of routines (`pending`). The multiplexers follow their
register only while the PLL they use runs, which is why `DoGrab` starts a
stopped PLL for a moment.

**DigEncoders** models rhd_dig.c's allocation and links under RandR or the static
layout. The server's mode set is `round`: Fixup, Prepare, ModeSet, Mode, Commit,
in its order, with a refusal at each hook that can refuse. `ForEach`, the loop over
the list of outputs (RHDOutputsPower, ...Restore, ...Mode, rhd_output.c:64-154), takes an operator as argument and has no row in the `map`.

**I2CEngines** models the four engines of rhd_i2c.c step by step, with the card's
arbiter and its answers as actions of their own. **PowerManagement** composes them
with rhd_pm.c, since an R5xx derives the DDC clock from the engine clock.

**ModeSetup** is the way from what is plugged in to what is shown. Its actions are the stages of
rhd_driver.c's start, in order (`step`): `SenseConnectors` and `DealOutputs` are rhdModeLayoutSelect,
with hot plug lines, sensing, shared outputs and the two CRTCs; `ValidateTargets` looks at the panels' own
modes, which others will be scaled to; `VirtualFromConfig`, `CreateModesList`, `PoolCreate`,
`VirtualFromModes`, `ModesAttach` make the list of the server. `NextMode` is RHDSwitchMode. With RandR, `OutputDetect`,
`OutputGetModes`, `OutputModesValid` and `OutputModeSet` are its hooks, and `ExchangeMonitor` puts
another monitor on a connector at any time. `ValidationRound` is one turn of rhdModeValidateCrtc's loop; a
mode is a record of the timings and flags that some check looks at, and `shown` is what a CRTC was set to last.
**Monitors** makes modes and ranges of the sections of an EDID block, of the BIOS's panel and TV
tables and of the configuration, with the code's guesses where a monitor says nothing. **ScanoutLimits** has the
ModeValid functions of CRTCs and outputs, the memory the picture must fit in, overscan and scaler, and the monitor's
ranges. **DisplayModes** has CVT, the filling in and the sanity of a mode, and the operations on lists of modes.
Modes are computed as in the code, in integers, with the roundings of its floats.
Three helpers take an operator as argument and stand in no row of the `map`: `Grabbed` and `Remaining`
(rhdModesGrabOnNameAll and ...OnTypeAll, rhd_modes.c:1004-1064) and `Validated` (the loop around a round, 780-867).


## 3 Runs

| Run | Module, cfg | Expected | Shows |
|---|---|---|---|
| drm | DrmSubmission | pass | pool conserved, nothing overwritten, a buffer to be had, in order, sync means done |
| acceleration | MCAcceleration | pass | draws find their state, software waits for the card, pixels and lines arrive, video frames are whole and in their buffers; without DRI, register writes arrive in order, once, without a FIFO overrun, unless a loop gave up |
| dri_context | DriContext, MCDriContext | pass | engines idle unless a wait was spent, states loaded unless a reset or another VT's user destroyed a client's, nobody overtaken |
| dri_idle | DriContext, MCDriContextIdle | violation | finding 1 |
| dri_client | DriContext, MCDriContextClient | violation | finding 6 |
| screen | MCScreen | pass | the console comes back, the controller moves quietly, balance; for 26 parts: the console's registers come back, what is asked to be on is on; the BIOS's tables: the parser keeps its place, parameters, fields and saved registers are right |
| modesetting | MCModesetting | pass | the display clock never stops, each CRTC has its PLL, lit outputs have an encoder of their own, the console's clocks and links come back |
| monitors | MCMonitors | pass | the I2C engine is handed back, reads are right, clocks are kept; what is shown suits screen, card and panel, the pool and the virtual size are right |
| screen_vga | ScreenLifecycle, ...VGA | violation | finding 2 |
| screen_gart | ScreenLifecycle, ...Gart | violation | finding 3 |
| panel | MCMonitors, ...Panel | violation | finding 4 |
| video_small | MCAcceleration, ...Small | violation | finding 5 |

**Properties of acceleration, the register writes.** `FifoNeverOverrun`: the free entries are read once and may
only grow. `ImplementsStream`: the refinement. `Delivered`: what was queued arrives
without further drawing, unless a loop gave up. MCAcceleration explores MmioSubmission as the last of its machines,
since its state space is small; the fairness of `RegistersFairly` is MmioSubmission's, asked for only where that machine runs.
*Bounds*: a buffer of 3 writes, Grabs of up to 2, a FIFO of 2, loops of 2 turns, 5
writes. The buffer wraps, a Grab finds it too full with and without the FIFO
drained, a batch is shorter and longer than the FIFO, loops succeed in each turn
or not at all.

**Properties of drm.** `BuffersConserved`, `SubmittedUntouched`,
`GetCanSucceed` (a server that spins for a buffer has one to get, or a CP that
will return one), `ImplementsStream`, `SyncMeansDone`, `FlushedIsExecuted`.
*Bounds*: two buffers of 4 words with a padding of 2, the divisibility of the code's 16384
and 16; Grabs of up to 3, 4 words, one turn per loop, one buffer held by
the acceleration code. With two buffers one is in the ring while the other is
written, or none is left. R5xx only pads to an even word when it submits, which here is the
padding of 1: the theorems of section 4 hold for any.

**Properties of acceleration, the drawing.** `DrawsFindTheirState`,
`SoftwareAfterDrawing`, `TransfersRight`, `CopiesRight`, `ScanlinesRight`. `FramesComeWhole`: every line of a texture
that a frame is drawn from is the line of the client's image that belongs there, and no two copies
overlap. `FramesInTheirBuffers`: a frame is copied to the memory of its port, in whatever order ports
put, replace and stop images.
*Bounds*: the machines share no state and are explored one after the other.
Drawing: an R600, an R500 and an RS690 with all their operations, no
bound. Transfers: two rows per half and up to 7 rows, four
halves, so each half is used again. Copies: up to 4 x 4 pixels moved by up to 4 in
each direction: overlapping, touching, apart, in one and both directions, with more than two strips. Lines: a buffer of 30 words,
lines of 1, 8, 9 and 17 words, at most 4 lines: shorter than HOST_DATA's eight registers, just as long,
longer, and so long that one packet has a single line. Frames: an R600 with PCI Express and one with AGP, an R580 and an
RS690, the code's command buffer of 16384 words; two ports, and three places for a buffer, one of them hard to align; about CIF and QCIF in
each format, with odd widths and heights, and one size beyond an RS690's textures. Clients put images with the
attributes that they asked for: rhdQueryImageAttributes answers a query without pitches or offsets with 0 and leaves
the size alone (rhd_video.c:256), and no image of the model comes from such a query. A width of 65535 is left out: it is 0 in the server's 16 bits when it is made even.
`UsualSizesFit` has TLC check that these sizes meet the premises of section 4.

**Properties of dri_context.** `EnginesIdleUnlessSpent` and `EnginesExclusive` (a
wait lies between drawing that must not overlap), `NotOvertaken`,
`StatesLoadedUnlessUnclaimed`, `DrawingSubmitted`. The last but one has two halves. `ServerStateLoaded`: X's 3D drawing finds X's
setup, with no client's load or drawing, no other VT's user and no reset since. `ClientStateLoadedUnlessUnclaimed`: a client that draws
without loading its state loaded it before, and of what destroys it (`Overwrites`) only what leaves `ctx_owner` alone came since
(`Unclaimed`: resets, and the users of other VTs). Without this exception a client's half is
`ClientStateLoaded`, which is false (finding 6); so X and its clients are not alike here, X alone is told of every use.
*Bounds*: two clients, up to 13 operations in the order: each client and X draw
more than once with resets and VT switches between. Every prediction the code makes
has at most four values and depends on the last few operations.

**Properties of screen.** `ConsoleBack`: whenever the server rests away from the
screen every unit has the console's values again, except the memory controller
where RHDMCRestore refused. `MCMovedQuietly`: the controller moves only when
nobody can start to read, unless a handler went on after rhdAllIdle had failed.
`RestsInPlace`: whenever no handler runs, X has the controller where it draws, although
RHDEnterVT ignores the answer of RHDMCSetupFBLocation, and the hardware lock is held as often
as the next handler will give it back. `CommandsCanRun`: the CP has its GART table as long as there is
a copy to restore it from, and nobody waits for the engine through a stream that is stopped, but a dying
server. Of the single parts: `ConsoleRegistersBack` and `PowerAsAsked` (a part
asked to be on has all its switches on, one asked to be off has them off, whatever came
before and whatever sensing has switched). Of the interpreter: `ParserOnTrack` (it stands at a command, or as far into one as it has
read the operands, and so do the tables that wait; the same for indirect IO), `ParametersKept` (each table's parameters begin behind those of
the tables that wait for it, also after a failed call), `FieldsKept` (bit by bit, what a command writes to a field, and that it
keeps the rest), `ChangedAreSaved` (while registers are recorded, what differs from before is on the list with its first value).
*Bounds*: the handlers, the parts and the interpreter are explored one after the other. The handlers have none: their state space is finite, over any
number of generations, so that the run is exhaustive. One part at a time, since the parts' registers are disjoint, but for those
that BIOS tables share, which are one part; two modes of the console; any number of VT switches. TLC also evaluates
the two premises of the theorems about the tables (`TablesForgetNothing`, `TablesSwitch`).
The interpreter: bytes of one bit, so that a word has four and each alignment is a different field, none empty. Seven images have
all commands between them: nested calls, one of a table that is not there and one that fails; jumps, loops and switches on a
register that changes; indirect programs, one of them missing; every place an operand can be in; division, shifts beyond a word. Further images use
each operation on a field at each of eight alignments and four shifts, without a card, which they do not touch (`FieldsAlone`). Two
tables are executed per behaviour (`MaxExecs`): the second finds the registers and the save list the first left, and nothing else is left for
it; the registers start with anything in `Cards`; the theorems of section 4 hold for any number.
Deadlock is off: a server that has died stays dead.

**Properties of modesetting, the clocks.** `ClocksRun`: between no two writes does an RV620's display
clock come from a PLL that is stopped or not calibrated; each CRTC
uses the PLL its multiplexer names, and one whose mode was set has its own
PLL with its own dividers. `ConsoleClocksBack`: dividers, multiplexers, display clock and what
runs are the console's again, but for the spread spectrum that the code says it
does not restore.
*Bounds*: R500, M54 and RV620, two PLLs, each lock succeeds or not. Consoles have
spread spectrum on both PLLs or on none; a PLL is switched ON only after a mode was set.

**Properties of modesetting, the encoders.** `LitOutputsDriven`: an output that is lit has an encoder
of its own, linked to it and fed by its CRTC. `ConsoleLinksBack`: encoders and links are the console's again.
*Bounds*: cards with UNIPHYA and LVTMA, with both UNIPHYs, and with all three; on
the last, three calls from outside (mode sets, DPMS, VT switches). Three outputs are
the most that compete for two encoders; three calls reach a third output that
finds both encoders taken, and the cards with two outputs have no bound. The theorems of section 4 need none.

**Properties of monitors, reading them.** `EngineHandedBack`, `ReadRight`, and `ClocksKept`, which has
three parts: `ClockInRange` (of what the driver sets), `ConsoleClockBack`,
`BusesFollow`.
*Bounds*: chunks of 3 and 2 bytes (15 and 8), offsets modulo 8 (256), reads of 2 bytes at
0 and of 7 at 3, which take three chunks and wrap. Cards that have lines have usual
BIOS values; R5xx cards with any mixture of missing, low, high and sensible limits have a
single line without a bus, so that the engines do not multiply them. Clocks are small numbers around
the code's constants: below, on and above each of them, so that limits are too high as well as too low, with up to two known
configurations. Nothing is plugged in
during a call. Deadlock is off: an RS690 without a named line ends PreInit.

**Properties of monitors, their modes.** `ScreensGetTheirMode`: whatever a CRTC is set to is in its final
form, within what its outputs and monitors take, a fixed panel's own timings if it has any, and
shows a picture that fits the virtual screen and, where it has to, keeps its shape; and without names in
the configuration, the pool these come from has the best mode of each name of the best class, in order (`PoolRight`). `VirtualRight`: the virtual screen holds every
mode of the pool and the CRTCs can scan it out.
*Bounds*: some twenty cards: VGA, DVI, panels, TV; BIOS drivers and the code's own; before and from R600 on;
each way to scale; little memory; no monitor data, data from EDID with each kind of section, from the BIOS, from the
configuration, in conflict with each other; names that are met and names that need a CVT mode; static and RandR, and there one
monitor is exchanged. Each branch of the code that gives or refuses a mode is taken by one of them. A mode is set in any order.

### Findings

1. **A sync spends the wait of RHDEnterServer** (`dri_idle`). RHDEnterServer queues
   a cache flush and a full wait and sets `CS->Clean` to QUEUED so as not to queue
   it twice. R5xxEXASync (`r5xx_exa.c:127`) flushes the stream without a Grab: the
   wait is submitted but Clean stays QUEUED. If a client draws before X wakes up
   again, no wait is queued, and X's drawing follows the client's directly.
   `EnginesIdleUnlessSpent` shows that this is the only way.
2. **The VGA assertion fails without a VGA console** (`screen_vga`). RHDVGADisable
   sets `VGA_SETUP` always, RHDVGARestore unsets it only if the console was in VGA
   mode when the driver started. `DxModeRestore` asserts it is unset. In a build
   with assertions the server dies when it leaves the VT.
3. **No GART backup after the first generation** (`screen_gart`). RHDDRICloseScreen
   frees the copy, PreInit alone allocates it. From the second generation on, or
   after a failed DRI initialisation, a VT switch no longer restores the table.
   `CommandsCanRun` shows that it is restored while there is a copy.
4. **A scaled mode is shown at its own clock** (`panel`). rhdSetMode gives CRTC and outputs the panel's
   own timings (`ScaledToMode`), but the PLL the clock of the mode that is scaled (rhd_driver.c:2540), so
   that a panel, which "should be driven at native resolution only" (rhd_monitor.c:387),
   gets its timings at another rate. RandR's mode set (rhd_randr.c:456) takes both from one mode.
5. **A small frame is copied beyond its buffer** (`video_small`). `BufferOffset` has FbScanoutStart in it (rhd_video.c:90). On R600
   the copies add FbScanoutStart once more (rhd_video.c:754, 772, 794, 821), and so do the textures
   (r600_textured_videofuncs.c:256, 366). With a hardware cursor that is 32 kB: a frame of less than about
   64 kB ends behind its buffer, of which rhdPutImageTextured had said "Now, find out whether we have enough memory available"
   (rhd_video.c:724). Twice the frame's bytes are asked for, so that there is room for larger ones.
6. **A client is not told that its state is gone** (`dri_client`). "the client detects when it's context is not currently
   loaded and then load's it itself" (rhd_dri.c:378), by `ctx_owner`, which X writes in RHDDRIContextClaim and
   nowhere else. R5xxEngineReset (r5xx_accel.c:325) and RHDEnterVT (rhd_driver.c:1525) unset `XHas3DEngineState`, so that X loads its
   own state again, but do not claim the context. A client that owned it before a reset, or before another VT's user had the
   card, still owns it and draws with what these left. `ClientStateLoadedUnlessUnclaimed` shows that these two are the only ways.


## 4 Proofs

TLAPS proves these for every value of the constants that meets the assumptions
stated in the modules (sizes positive, Grabs not larger than the buffer, a
buffer size that is a multiple of the padding).

| Theorem | States |
|---|---|
| CommandStream_proofs!OrderKept, NothingMissing | the abstract stream is in order and complete unless lossy |
| MmioSubmission_proofs!TypeCorrect, FifoSafe, OverrunSafe | the card's FIFO is never overrun, and `OverrunOnlyAfterGiveUp`: no write past the buffer unless CSMMIOGrab gave up |
| MmioSubmission_proofs!Refinement | `Spec => ImplementsStream` |
| DrmSubmission_proofs!TypeCorrect, PaddingSafe, AlignedSafe, Conservation, NoOverwrite | the safety invariants of drm, with `PaddingFits` (the padding inside a flush never flushes) and `Aligned` (every submission begins on a padding unit) |
| DrmSubmission_proofs!SyncDone | a sync that succeeded means that everything is executed |
| DrmSubmission_proofs!Refinement | `Spec => ImplementsStream` |
| DrmSubmission_proofs!GetsABuffer | a server that asks for a buffer can get one, if the pool is larger than what is held |
| DriContext_proofs!TypeCorrect, Invariant, EnginesIdleHolds, EnginesExclusiveHolds, NotOvertakenHolds | the safety invariants of dri_context, for any clients and any length of the order |
| DriContext_proofs!ServerStateHolds, ClientStateHolds, StatesHold | X draws in 3D with its own state, whatever came between; a client with its own, unless a reset or another VT's user, who leave `ctx_owner`, came since it loaded it (finding 6) |
| Screen_proofs!LifecycleType, ConsoleComesBack | whoever leaves the screen, in whatever way, leaves it to the console |
| Screen_proofs!ScreenRestsInPlace, CommandsCanAlwaysRun, MovedQuietly | the memory controller is in place and was moved when nobody read, the lock is balanced, the CP has its table |
| Screen_proofs!TypeCorrect, ConsoleRegistersReturn | for every table and any consoles, the console's registers come back |
| Screen_proofs!PowerFollows | for every table, a part's switches are as it was asked |
| PowerManagement_proofs!HandedBack | software never keeps the R5xx engine |
| PowerManagement_proofs!ReadsHold | a monitor read returns what the monitor holds, or an error |
| PowerManagement_proofs!ClocksHold | the engine clock stays in range and comes back to the console, the buses follow |
| AtomBios_proofs!TypeCorrect, OnTrack | in every image of well formed tables the parser keeps its place |
| AtomBios_proofs!ParametersHold | every table finds its own parameters, after any calls |
| AtomBios_proofs!FieldsHold | for every width of bytes, commands write their field and nothing else |
| AtomBios_proofs!SavedHolds | what differs from before the first table is on the save list |
| AtomBios_proofs!OutputsSeen, LinksBack | on every card and after any number of calls, what is active is seen, and the console's links come back |
| Acceleration_proofs!StateFound | each operation of an R600, an R500 and an RS690 draws with the state it takes for set |
| Acceleration_proofs!SoftwareAlone | software draws when the engine has done what was submitted |
| Acceleration_proofs!TransfersHold | unless a wait was given up, each row of a transfer arrives, for any height and buffer |
| Acceleration_proofs!CopiesHold | for every rectangle and distance, a copy within a pixmap puts at the destination what the source held |
| Acceleration_proofs!LinesHold | for every size of the buffer, width and height, each line that is sent arrives once, in order and whole |
| Acceleration_proofs!PortsRight, FramesWhole, FramesInside | frames come whole and end in their buffers, for all sizes, cards and places |

*CommandStream.* The conjunction of type, `InOrder` and `NothingLost` is inductive:
losing a stretch of the pending items keeps what is left in order.

*MmioSubmission.* `FifoNeverOverrun` is not inductive: in the middle of a batch one must
know that the entries still to write fit in the FIFO. `IInv` adds `BatchOK`
(they do, and there is that much in the buffer), `PointersOK` (Flushed <= Wptr)
and `RoomOK` (after a Grab that did not give up there is room for `count`). For the refinement,
`UnderWay` joins FIFO and buffer, and four lemmas say what appending, moving,
taking and dropping do to it. Only a stop that gave up maps to `Lose`.

*DrmSubmission, safety.* `BuffersConserved` and `SubmittedUntouched` need to know when
the server has a buffer at all (`PhaseOK`: not between a discard and the next get),
that pointers are ordered and leave room (`PointersOK`, with `Aligned`), and
that a submission is not inverted (`RingOK`). `PaddingFits` follows from the
divisibility of the size by the padding. The proof goes one conjunct at a time
over all actions (`PhaseStep`, `PointersStep`, ..., `BuffersStep`).

*DrmSubmission, the stream.* `UnderWay(lo)` says where the words are: those younger than `lo` are each at one
place of the ring's submissions or of the unsubmitted rest, older ones before younger ones, and nothing else is. A
step has one of four `Outcome`s: nothing, one word more, one less, or the oldest are dropped. `SyncDone` follows,
since an empty ring and nothing unsubmitted leave no place for a word; it also needs that a sync
waits with everything flushed (`Waiting`). For the refinement, `Below` counts: as the words are consecutive
numbers, the rank of a word's place is the word less `lo`, so that `Pending` is `Run(lo, queued)`, and each
`Outcome` is a step of CommandStream or a stutter.

*DrmSubmission, buffers.* `GetsABuffer` assumes `PoolSuffices`: a finite pool of more buffers than the
acceleration code holds (`MaxHeld`). Then, with nothing free and nothing in the ring, the buffers would be those held and the
server's own, which has none when it asks (`HeldOK`, `Started`).

*DriContext.* The properties speak of pairs of operations of an order that only grows. Each is put as one of
`Separated` (between an A and a later B lies a W), `Backed` (each B has an A before it and no W between), for which it is
enough to know of the past whether something is `Standing`: an A came, and no W since. Three lemmas say
what one operation more does to each. The invariant says what the driver's predictions are worth:
`CleanRight` (what `Clean` says is in the buffer), `WaitRight` (while X draws nothing foreign is standing, unless a sync
spent the wait), `StateRight` (`XHas3DEngineState` and `ctx_owner` are right about the engine; `ctx_owner` only as to those who claim the context, `Claims`: by
a reset or another VT's user it does not change, which is why a client's theorem excepts them and X's does not), `AwayRight` (X keeps
the lock and an empty buffer while away). X's routines are put together from lemmas about their pieces, since a buffer that is
full submits at any point among them.

*ScreenLifecycle.* The state space is finite, so TLC's run is complete as well; the proof says why. `LifecycleInv` is what each part of
the screen comes to at each call of each handler (`Positions`): whose values the units have and what was saved (`ConsoleKept`, `RestoredSoFar`),
that nobody reads when the controller is about to move (`VGAQuiet`, `QuietRight`), where it is (`MCRight`), how often the lock
is held (`LockRight`), whether there is a stream (`StreamRight`) and a good copy of the GART table (`GartRight`), with `vtSema`
(`VtRight`) and who runs when (`HandlersRight`). `Programs` and the lemmas `At...` turn "the next call is X" into a handler and a place in it;
then one lemma per action shows each part. TLC has checked LifecycleInv as an invariant before. The lemmas share a `USE DEF` of the tuples
of UNCHANGED and of `Proceed`, `Skip`, `Call`.

*AtomInterpreter.* `TrackInv` is inductive: the types (`AtomType`), `Track` (the place in the running table and in those that wait, by
the phase, or during indirect IO by the phase to go on with) and `IOTrack` (the place in the indirect table). Its core are lemmas about the layout
of commands (`SizeOf`, `CommandReached`, `SourceReached`): the phases of a command read as many bytes as it has. `ParametersKept` is
inductive on top of it, since calls and returns move the parameter space by the same amount, and a failed call the stack is dropped with leaves the
property nothing to say but of success. For `FieldsKept`, `FieldInv` keeps what was read of a command until it is used: destination (`DestRead`), mask (`MaskRead`) and source (`SourceRead`)
are still what memory holds, and indirect IO puts its answer where it was asked for (`IntoRight`), so that polls in between do no harm; then
`FieldResult` computes the operations bit by bit, by lemmas about shifts and masks of any width (`CommonBits`, `MoveBit`, `AndBit`, `OrBit`, `MaskBit`).
`ChangedAreSaved` is inductive relative to the types. The assumptions are `WellFormed` and that words are words; TLC checks both of the images of the run.

*DigEncoders.* `EncoderInv` has five parts: types; `Agreed` (outputs and encoders agree, the LVTMA has the second encoder or none, whoever
has one is known to the BIOS); `LinksKept` (the console's links are in place or in the store); `StaticRight` and `RandrRight` for the two ways of setting modes. The
last is the core. At each hook of a round some outputs are `Awaiting` their CRTC; the `Steady` ones, which are on a CRTC and neither
awaiting nor spoiled, are linked, fed and, where they are active, powered, whatever is done to the others (`RoundRight`, `ActiveRight`).
So `Tended` and `Steered` say of switching power and of setting modes, for any outputs, what they do to these and leave alone of the others: that
EncoderSet may cross the one link both UNIPHYs share is harmless because they never have the same encoder, so that both want it
alike. A refused mode takes the server's crtcOf back, and `RoundRight` knows that it was where the CRTCs of steady outputs still are. The order of
the list of outputs is one of those a card may have; what is proved of single outputs (`PowerTended`, `SetSteers`, `RestoreOne`) holds in
any order. TLC has checked EncoderInv as an invariant on the cards of the run before.

*DrawState.* The tables are data of the code, not constants, so the first half of the proof is about them: `CardsRight` shows of each operation of
each of the three cards (`OperationRight`) that what it reads of others is left to the default state, that it writes none of what
others leave to it, and that the fields it uses it sets; `CardRight` adds what a download in the middle of a preparation leaves.
The second half is for any tables that are right. `DrawingInv`: `XHas3DEngineState` is right about the registers all operations leave to
the default state, unless a client has the context (`DefaultsThere`), what was prepared is in the registers or still in the operation's own
buffer (`PreparedRight`, `FieldsSet`), before R600 a wakeup waits (`StreamWaits`), and what is under way is marked or will be (`MarksKept`).

*SavedRegisters.* ConsoleRegistersReturn assumes `NothingForgotten` of the tables:
whatever any handler writes is restored by the driver, goes on a save list of the interpreter,
or is listed as lost. MCScreen states this as an ASSUME of the real tables, so
that TLC checks it, and the theorem applies to them with any number of modes of the
console. The invariant is `ConsoleRegistersBack` with `Kept`: while the driver has the screen,
the value of each register that Restore will write is in the store, and of each other
one (`Held`) every list that has it holds the console's value, and if none has it
the register still does. PowerFollows assumes `SwitchesFollow` as well, which MCScreen has TLC check likewise: a switch gets on in one of
three ways (each Power switches it on, a mode set does and nobody ever switches it off, or the first Power does and
PowerState keeps the others from it), and nobody but Power takes it back. `SwitchesKept` adds to the property what
must hold before the part is asked.

*PowerManagement.* `HandedBack` needs at each step of a chunk who has claimed the engine and
what is in CONTROL1 and 0x494 (`Claims`), through the arbiter's own steps. `ReadsHold` needs that the call,
the engine and the device agree all the way (`Reading`): what the call has are the device's first bytes, what the
engine was asked for continues them, and the device is where the next chunk begins, also where the offset wraps; and that during
a call the device is of one kind, which may go but is not replaced. `Counts` are the shapes and numbers that hold even when
something has gone wrong. `ClocksHold` rests on `PmInRange`: whatever limits, default, current clock and known
configurations the BIOS gives (`MachinesAssumption`: unsigned numbers, some of them known), rhdPmValidateMinMax makes a range of them and
the idle state is selected in it; `ClocksRight` adds that the console's clock is stored while the driver has the screen.

*Transfers.* `TransfersRight` speaks of the end only. On the way there `IInv` says for each of the three kinds where every
row is: the first rows have arrived (`Landed`), the queue holds the blits of the rows behind them in order (`Sent`), and
each half of the scratch buffer holds the rows it is next read for (`Holds`) or a queued blit is about to bring them
(`Coming`, and `ComingBoth` for two blits to the two halves), so that nothing else is written to that half. This is
what alternating the halves and waiting in between are for. A wait that was given up ends it: `IInv` says nothing then.

*OverlapCopy.* `CutUp` says what the blits of a copy must be: none writes what a later one or itself reads (`Spared`), all
but the last column stay inside the destination, and together they leave none of it out. That R600OverlapCopy cuts so, to the left and right, up and
down and with a first strip across for both, is arithmetic (`ColumnsFollow`, `RowsFollow`, `StretchFirst`, `OverlapCutUp`). That any such cutting makes
the copy is the invariant `CopyInv`: what the blits made so far cover holds what the source held, what those to come read is untouched (`Cutting`).

*XaaScanlines.* `LineInv`: what was submitted, then the lines of the packets, are the first of the lines asked for (`Queue`); those that
are filled in hold their own words, and no word of the buffer belongs to two of them. By the step of the rectangle (`InTurn`) it says which line XAA's
window is (`WindowAt`) and what is left of the rectangle (`Rest`). A Grab submits the packets only between two of them, when all their lines
are filled in (`HeaderIs`, `SubmittedIs`). `RegistersAre` is the arithmetic of the HOST_DATA rounds: a line ends in HOST_DATA_LAST
if and only if it is the last one. TLC has checked LineInv on small buffers before.

*VideoFrames.* A port's history leaves only that its image has a size some client asked for (`ImageOK`, `ImagesHeld`)
and that its frame begins at an aligned place in its buffer (`BuffersPlaced`). The rest is arithmetic for all sizes:
each line lies in one pass of the R5xx's copy (`InPasses`, and an even number of lines for the colours,
`InEvenPasses`); R600's planes have a `Layout`, which the textures must meet; the end of the last plane is compared with
the size of the buffer. Two premises name the sizes for which the code is right.
`SoftwareCopiesFit`: on an AGP R600 a planar image is at most 256 wide or has an even number of lines of
colours (section 6, *Video*). `BuffersLargeEnough`: on R600 the frame, less a line, is at least 64 kB (finding 5); with XAA it is at least
4095 bytes. TLC checks that the sizes of the run meet both (`UsualSizesFit`).

Only model-checked: liveness (`Delivered`, `FlushedIsExecuted`, `DrawingSubmitted`), which the prover does not do under
fairness; `ClocksRun` and `ConsoleClocksBack`: PixelClocks has no constants and finitely many states, and the run visits all of them, from
every chip and every console, so that nothing is left to be proved for other values; `ScreensGetTheirMode` and `VirtualRight`, whose lists of modes are
computed by recursion over data, which no installed prover can do. The type invariants of the modules with proofs are theorems; no run checks a type alone.


## 5 Assumptions

- **The kernel** accepts a well-formed submission and executes submissions in
  order; a reset or a stop of the CP drops what is in the ring. `rhd_cs.c` ignores
  the result of the submission, so nothing here holds without that. Results the
  code does look at may be failures.
- **The card** may be arbitrarily slow, or stop for ever, unless fairness says
  otherwise: it drains its FIFO, and a CP that is started works. Every loop
  may run out of turns.
- **Clients** draw under the lock and obey `ctx_owner`. In DrawState they leave all registers
  changed.
- **EXA, XAA and Xv** make the calls of their interfaces in order: Prepare, any number of rectangles,
  Done; a window is filled before the next line is asked for; lines are not wider than the buffer less a
  packet's header.
- **The X server** calls the handlers in the order of its DDX interface: EnterVT
  only after LeaveVT, CloseScreen once per generation. A handler that returns
  FALSE, or a failed assertion, is fatal, and a dying server calls LeaveVT of a screen with
  `vtSema`, but not twice.
- **The console** may overwrite the framebuffer's memory while the server is
  away, and a suspended machine loses it.
- **Monitors** answer with EDID blocks that have one of the sections rhd_edid.c knows in each place, and may be
  exchanged with RandR whenever it has been detected what was there.
- **The BIOS's tables** are well formed (`WellFormed`); the interpreter checks none of that. In the other modules they
  succeed when they are called, and do not write what the driver
  explicitly saves of the same part. The display PLL of a BIOS driven console is one
  that a device uses, according to the scratch registers: any other is switched off
  by the restore.
- **Property requests** of RandR arrive only while the driver has the screen. The code does not
  look at `vtSema` there (rhd_randr.c:1344).
- **Displays.** A DIG output that is lit has been allocated an encoder, as RandR's hooks
  see to. A PLL that is started may fail to calibrate, each time.
- **Fairness.** The server finishes the call it is in (`WF` of the driver's own
  steps: a single thread that does not block but in bounded loops), and an image
  XAA has begun is finished. The block handler runs again (the server's main loop
  calls it before each sleep). That X or a client draws, flushes or switches the VT
  again is never assumed.
- CHECK_DEADLOCK is off: exploration bounds end behaviours, and a server may have
  died (`segv`, `undefined`, `dead`, `aborted`).


## 6 Not modelled

Not yet, see the plan: RandR's properties and rotation, the arithmetic of PLLs, the panel's power sequencer
(its registers are, its real time is not), the audio timer's list. Never: the contents
of packets, shaders and textures, register values, wording of logs, the card
table, EDID and BIOS contents (data, on which no control depends beyond single
decisions), file I/O of the ACPI backlight, the conntest tool, build files.
Within ScreenLifecycle: allocation failures, PreInit's probing, SaveScreen,
AdjustFrame, and the R600's variants. A card whose framebuffer location is
already the one the driver wants has nothing to move and is left out.
Within PowerManagement: voltages, which the code validates and never sets. Within I2CEngines: an
RV620 transfer that finds the engine still running with an earlier one, which the code
gave up without a reset; its answer may be that of the earlier transfer (the
`overrun` of `ReadRight`).

### What the models leave open, seen while translating

These are no findings: they contradict no statement of the repository, or one that is no
more than a remark. The tables list them as `lost`, the guards leave them out, or the properties except them.

*Registers not put back.* The panel's BL_MOD_CNTL on an RV620 (rhd_dig.c:165). RHDVGADisable
changes MODE_CONTROL and HDP_CONTROL bits without a VGA mode too. EncoderSave adds the DIG's
offset to the two EXT_DIFF registers that have none (rhd_dig.c:1255). RHDLUTCopyForRR reads without
setting RW_INDEX. The backlight level is written off the lists and restored from
the driver's scratch value (rhd_atomout.c:291, 537). A console clock outside
100 MHz to 3 GHz is not set again. RHDAudioRestore stops the timer (rhd_audio.c:393).

*Power.* TMDSAPower trusts a PowerState that a VT switch made stale (rhd_tmds.c:382).
Properties' Commit calls Mode and Power(ON) even when the output is off (rhd_tmds.c:281).
A refused mode leaves outputs lit that have lost their encoder (rhd_randr.c:961), and DPMS On then
meets the assertion at 774: `LitOutputsDriven` excepts these outputs (`spoiled`) until they are set or switched off, and no property speaks of them. FreeOutputs frees an output that two connectors share when one
of them has no CRTC. An unused output whose probed encoder is taken is not shut down.
rhdAtomPLLPower returns at once for RESET and SHUTDOWN.

*I2C and clocks.* rhd5xxWriteReadChunk releases the engine before it restores CONTROL1 and 0x494, and
sets 0x494 before the engine is granted. rhdI2CRecalcPrescale and rhdTearDownI2C
stop at the first line without a bus. A first prescale is computed from the default
clock, and stays when IDLE equals Current. The R6xx reads always from index 3, which a
pure read does not fill. A maximum above COMPARE_MAX is replaced by a default that may be too low;
a nonsense maximum with a low known configuration ends below the default. A minimum above COMPARE_MAX, a default
without a memory clock and an implausible current clock make the maximum 0; `ClockInRange` then says nothing of an upper end.

*BIOS.* The PCI branch of atomSaveRegisters calls pci_device_cfg_write where it means to read
(rhd_atombios.c:5717). rhdAtomOutputSet returns for an unknown version with the register list still
set (rhd_atomout.c:327), so that later tables are recorded on that output's list. rhdAtomSetPixelClock
zeroes another version's field (2612). RHDEnterVT ignores RHDRandrModeInit's result (rhd_driver.c:1483).

*The interpreter.* Reads and writes of PCI configuration through a table do nothing: the size is handed over in
bytes and taken for bits (hwserv_drv.c, rhd_atombios.c), and on this path a table that reads gets what was in memory. A missing indirect program leaves
the indirect pointer at the table's end, and the next one is searched from there. MOVE of a whole word ignores the alignment of
its destination; ADD and SUB of a field carry into the next one, which is why `FieldsKept` speaks of the other operations only. A
table that fails leaves the caller's parameter space moved, and the work spaces of those that wait for it allocated. A division by zero ends the server
(`phase = "dead"`). Not modelled of it: delays, POST codes and debug output only pass; the layouts that other
builds select by #ifdef (EASF, UEFI).

*Drawing on R600.* Nobody claims the context (only R5xx3DSetup does, radeon_3d.c:217), so after any client
has drawn every wakeup makes X load its state again, and the remark at rhd_dri.c:374 does not hold. set_default_state sets
XHas3DEngineState while it writes (r6xx_accel.c:670): if that buffer is discarded, X believes
loaded what never reached the card, until the next wakeup (`lost`). Xv marks no sync, so
software drawing right after a frame does not wait for it. DisplayTexturedVideo's `default` leaves
its buffer behind, and its closing surface sync uses the size of an earlier operation. R600Composite
checks for room in the vertex buffer only with a mask (r600_exa.c:1617); VGT_MAX_VTX_INDX is 2048 while a
half holds 4095 vertices of a solid fill. R600TextureSetup checks `[1]` where it sets up `[unit]`
(1118). DoneCopy frees the copy area while its blits are queued. Nobody looks at the answer of RHDCSIdle.

*Video.* R600CopyPlanarSW leaves out a line of colours behind an odd number of them, whether or not the next plane is
aligned by that ("tex base need 256B alignment", rhd_video.c:628), while the texture setup aligns to 256 bytes
(r600_textured_videofuncs.c:330): on AGP, of a YV12 image of 720 x 306 the last plane is sampled two thirds of a line
early (the premise `SoftwareCopiesFit`). XAA's buffers are aligned twice (rhd_video.c:140, 154: RHD_FB_CHUNK rounds up what was
rounded up) and lose up to 8190 bytes. On AGP the CPU copies the next frame over a buffer that the engine may still
sample (602). A port without a buffer may be stopped, which hands NULL to exaOffscreenFree (171).

*Copies.* R600OverlapCopy's loops to the left and right do not clamp the last column (r600_exa.c:793-813), so pixels beside the
destination are overwritten (`Beside`). A copy through the copy area applies the raster operation twice.
XaaPrivate keeps `trans_color` for lines and patterns that have none.

*Modes.* `PLL->Valid` is always NULL, so the limits of the PLLs are asked for in no validation (rhd_pll.c:1296). A panel that
is only known by its EDID gets no mode: RHDSanitizeModes sets Crtc*BlankEnd to 1 of modes that are not
filled in yet (rhd_modes.c:1866). A TV timing with overscan is refused by rhdMonitorFixedValid, which wants
blanking to begin where the picture ends. RHDGetVirtualFromModesAndFilter leaves its caller a dangling pointer when it deletes
the head of the list (`step = "dangling"`; no card here gets there). A name that the configuration lists twice gets a CVT mode the second
time. rhdAtomLvdsDDC does not end on a truncated BIOS image. RandR's clones share one adjusted mode; a
CRTC's ScaledToMode stays set when its picture is refused, and is set anew before it is read. With little memory and RandR the
server chooses the virtual size.

*Hazards beyond the list of PROJECT.json.* Outputs shared by two connectors and dealt to two CRTCs
(rhd_driver.c:2148, 2246), a cursor image that must be loaded before its CRTC shows it
(rhd_cursor.c:315), the ignored result of the submission ioctl (rhd_cs.c:234), the
audio timer against a list of interfaces that mode sets change (rhd_audio.c:126).


## 7 Plan

What is left, in this order:

1. *Sequencers*: LVTMA's and DIG's power sequences with time-outs, the audio timer and the HDMI list.
2. *Algorithms*: PLL divider search, memory controller packing as functions,
   checked against their definitions over bounded inputs.
3. *RandR's properties and rotation.*

Worth proving next: ClocksRun (PixelClocks) by the place in each routine, as LifecycleInv does, not for other values but for
the reason.
Two hazards have no property: the panel's sequencer runs on its own while LVTMA waits for it in a bounded loop
(rhd_lvtma.c:438), whose outcome depends on real time; and a refused mode leaves outputs lit without an encoder of their own
(rhd_randr.c:961, section 6), for as long as nobody sets them again. A software copy with an odd number of lines of colours (AGP) has no run of
its own: `SoftwareCopiesFit` only leaves it out.
