------------------------- MODULE ScreenLifecycle -------------------------
(***************************************************************************)
(* The life of a screen: RHDScreenInit, RHDEnterVT, RHDLeaveVT,            *)
(* RHDSwitchMode and RHDCloseScreen of rhd_driver.c, over any number of    *)
(* server generations, with what they do to the memory controller, the     *)
(* VGA, the CRTCs, the rest of the display, the DRI and the command        *)
(* stream.  A handler is the sequence of the routines it calls; the card   *)
(* runs between them, so each routine is an action.                        *)
(*                                                                         *)
(* The X server, which calls the handlers (and RHDLeaveVT when it dies),   *)
(* the kernel and the card are external.  The chip is an R5xx, whose       *)
(* command stream falls back to MMIO without DRI; allocation failures are  *)
(* left out.  The memory location the driver wants is not the console's:   *)
(* where they are the same nothing moves.                                  *)
(***************************************************************************)
EXTENDS Integers, Sequences

Crtcs == {"CRTC1", "CRTC2"}

\* What rhdSave saves and rhdRestore restores: PLLs stands for all that comes
\* before the VGA (cursors, PLLs, audio, LUTs), Outputs for what comes last.
ScreenUnits == {"MC", "PLLs", "VGA", "CRTCs", "Outputs"}

VARIABLES
  hasVGA,     \* rhdPtr->VGA # NULL: was the console in VGA mode at PreInit?
  isPCIE,     \* rhdPtr->cardType = RHD_CARD_PCIE, or else RHD_CARD_AGP
  server,     \* what the server did last with the screen
  handler,    \* the handler that runs, and
  pc,         \* the routine it is in
  vtSema,     \* pScrn->vtSema
  vgaSetup,   \* rhdPtr->DebugFlags has VGA_SETUP
  units,      \* whose values each unit has, the console's or the driver's
  saved,      \* and whose values were saved
  reading,    \* who sends read requests to the memory controller
  engineBusy, \* does the engine still execute?
  csActive,   \* rhdPtr->CS->Active
  csType,     \* rhdPtr->CS->Type
  dri,        \* rhdDRI->drmFD # -1
  cp,         \* the command processor in the kernel
  lock,       \* how often the server holds the hardware lock
  gart,       \* the GART table in the framebuffer
  backup,     \* rhdDRI->pciGartBackup
  notIdle,    \* did rhdAllIdle fail when it was called last?
  refused     \* did RHDMCRestore refuse, since the controller was not idle?

card == <<hasVGA, isPCIE>>
control == <<server, handler, pc>>
display == <<vgaSetup, units, saved, reading>>
stream == <<csActive, csType>>
direct == <<dri, cp, lock, gart, backup>>
history == <<notIdle, refused>>
lifecycleVars == <<card, control, vtSema, display, engineBusy, stream, direct, history>>
-----------------------------------------------------------------------------
LeaveVTCalls ==
  <<"DRILeaveVT", "EngineIdle", "CSStop", "AllIdle", "MCRestore", "PLLsRestore", "VGARestore",
    "CrtcsRestore", "OutputsRestore", "Return">>

\* RHDCloseScreen with vtSema, and without.
CloseActiveCalls ==
  <<"EngineIdle", "CSStop", "AllIdle", "DRIClose", "MCRestore", "PLLsRestore", "VGARestore",
    "CrtcsRestore", "OutputsRestore", "Return">>
CloseAwayCalls == <<"CSStop", "DRIClose", "Return">>

\* MUTANT of EnterVTCalls: it saves after the modes are set.
EnterVTCallsSaveLate ==
  <<"VGADisable", "AllIdle", "MCSetup", "ModeInit", "Save", "DRIEnterVT", "CSStart", "Unlock", "Return">>

EnterVTCalls ==
  <<"Save", "VGADisable", "AllIdle", "MCSetup", "ModeInit", "DRIEnterVT", "CSStart", "Unlock", "Return">>

\* The calls of each handler.
\* AbortDDX is the server's, which calls RHDLeaveVT.
Program ==
  [ScreenInit  |-> <<"Save", "VGADisable", "AllIdle", "MCSetup", "DRIScreenInit", "DRIFinish",
                     "DRIKernelInit", "DRIBufInit", "CSInit", "ModeInit", "Colormap", "Return">>,
   EnterVT     |-> EnterVTCalls,
   LeaveVT     |-> LeaveVTCalls,
   AbortDDX    |-> LeaveVTCalls,
   SwitchMode  |-> <<"EngineIdle", "ModeInit", "Return">>,
   CloseActive |-> CloseActiveCalls,
   CloseAway   |-> CloseAwayCalls]

Outcome ==
  [ScreenInit |-> "open", EnterVT |-> "open", LeaveVT |-> "away", AbortDDX |-> "aborted",
   SwitchMode |-> "open", CloseActive |-> "closed", CloseAway |-> "closed"]

Resting == handler = "none"
At(call) == ~Resting /\ Program[handler][pc] = call
Skip(n) == pc' = pc + n /\ UNCHANGED <<server, handler>>
Proceed == Skip(1)

\* FatalError.  The server leaves the VT of a screen with vtSema, unless it is
\* in the middle of that.
Fatal ==
  IF vtSema /\ handler # "AbortDDX"
  THEN handler' = "AbortDDX" /\ pc' = 1 /\ UNCHANGED server
  ELSE handler' = "none" /\ pc' = 0 /\ server' = "dead"

Call(h) == handler' = h /\ pc' = 1 /\ UNCHANGED server
-----------------------------------------------------------------------------
ConsoleReads == IF hasVGA THEN {"VGA", "CRTC1"} ELSE {"CRTC1"}

\* RHDPreInit.  On PCIE cards it allocates the copy of the GART table.
LifecycleInit ==
  /\ hasVGA \in BOOLEAN /\ isPCIE \in BOOLEAN
  /\ server = "closed" /\ handler = "none" /\ pc = 0 /\ vtSema = FALSE
  /\ vgaSetup = FALSE
  /\ units = [u \in ScreenUnits |-> "console"] /\ saved = [u \in ScreenUnits |-> "nothing"]
  /\ reading = ConsoleReads
  /\ engineBusy = FALSE
  /\ csActive = FALSE /\ csType = "none"
  /\ dri = "closed" /\ cp = "none" /\ lock = 0 /\ gart = "none"
  /\ backup = IF isPCIE THEN "empty" ELSE "none"
  /\ notIdle = FALSE /\ refused = FALSE

\* The server calls a handler.  Whether it marks a screen before or after it
\* calls RHDEnterVT is its own business.
ScreenInit ==
  /\ Resting /\ server = "closed"
  /\ Call("ScreenInit")
  /\ UNCHANGED <<card, vtSema, display, engineBusy, stream, direct, history>>

EnterScreen ==
  /\ Resting /\ server = "away"
  /\ Call("EnterVT")
  /\ vtSema' \in BOOLEAN
  /\ UNCHANGED <<card, display, engineBusy, stream, direct, history>>

LeaveScreen ==
  /\ Resting /\ server = "open"
  /\ Call("LeaveVT")
  /\ UNCHANGED <<card, vtSema, display, engineBusy, stream, direct, history>>

SwitchMode ==
  /\ Resting /\ server = "open"
  /\ Call("SwitchMode")
  /\ UNCHANGED <<card, vtSema, display, engineBusy, stream, direct, history>>

CloseHandler == IF vtSema THEN "CloseActive" ELSE "CloseAway"

CloseScreen ==
  /\ Resting /\ server \in {"open", "away"}
  /\ Call(CloseHandler)
  /\ UNCHANGED <<card, vtSema, display, engineBusy, stream, direct, history>>

\* The end of a handler.  Nothing of the DRI's screen survives RHDCloseScreen
\* in the server, even if the driver did not close it.
Return ==
  /\ At("Return")
  /\ server' = Outcome[handler] /\ handler' = "none" /\ pc' = 0
  /\ vtSema' = (vtSema /\ Outcome[handler] \in {"open", "aborted"})
  /\ lock' = IF Outcome[handler] = "closed" THEN 0 ELSE lock
  /\ UNCHANGED <<card, display, engineBusy, stream, dri, cp, gart, backup, history>>
-----------------------------------------------------------------------------
\* rhdSave.
Save ==
  /\ At("Save") /\ Proceed
  /\ saved' = [u \in ScreenUnits |-> IF u = "VGA" /\ ~hasVGA THEN saved[u] ELSE units[u]]
  /\ UNCHANGED <<card, vtSema, vgaSetup, units, reading, engineBusy, stream, direct, history>>

\* MUTANT of Silenced: the VGA goes on reading.
SilencedNot == reading

Silenced == reading \ {"VGA"}

\* RHDVGADisable, which does not ask whether there is a VGA to restore.
VGADisable ==
  /\ At("VGADisable") /\ Proceed
  /\ reading' = Silenced
  /\ units' = [units EXCEPT !["VGA"] = IF hasVGA THEN "driver" ELSE @]
  /\ vgaSetup' = TRUE
  /\ UNCHANGED <<card, vtSema, saved, engineBusy, stream, direct, history>>

\* MUTANT of MCReadings: the controller passes for idle under the engine.
MCReadingsNoEngine == IF reading = {} THEN {TRUE} ELSE BOOLEAN

\* What MC->Idle may say.  Scanout reads in bursts.
MCReadings ==
  IF engineBusy THEN {FALSE} ELSE IF reading = {} THEN {TRUE} ELSE BOOLEAN

\* Crtc->Power(RHD_POWER_RESET) disables the read requests, then fails if a
\* running CRTC does not stop.
AllIdleFailsAt(r) ==
  \/ "CRTC1" \in reading /\ r = reading \ {"CRTC1"}
  \/ "CRTC2" \in reading /\ r = reading \ Crtcs
  \/ FALSE \in MCReadings /\ r = reading \ Crtcs

\* rhdAllIdle, when it returns TRUE and when it returns FALSE.
AllIdle ==
  /\ At("AllIdle") /\ Proceed
  /\ TRUE \in MCReadings
  /\ reading' = reading \ Crtcs
  /\ notIdle' = FALSE
  /\ UNCHANGED <<card, vtSema, vgaSetup, units, saved, engineBusy, stream, direct, refused>>

AllIdleFails ==
  /\ At("AllIdle")
  /\ \E r \in SUBSET reading : AllIdleFailsAt(r) /\ reading' = r
  /\ CASE handler \in {"ScreenInit", "EnterVT"}  -> Fatal
       [] handler \in {"LeaveVT", "AbortDDX"}    -> Proceed
       [] handler = "CloseActive"                -> Skip(2)
  /\ notIdle' = TRUE
  /\ UNCHANGED <<card, vtSema, vgaSetup, units, saved, engineBusy, stream, direct, refused>>

\* RHDMCSetupFBLocation.  RHDEnterVT does not look at what it returns.
MCSetup ==
  /\ At("MCSetup")
  /\ \/ /\ units["MC"] = "driver" \/ TRUE \in MCReadings
        /\ units' = [units EXCEPT !["MC"] = "driver"]
        /\ Proceed
     \/ /\ units["MC"] # "driver" /\ FALSE \in MCReadings
        /\ IF handler = "ScreenInit" THEN Fatal ELSE Proceed
        /\ UNCHANGED units
  /\ UNCHANGED <<card, vtSema, vgaSetup, saved, reading, engineBusy, stream, direct, history>>

\* rhdModeInit and rhdSetMode, or what RandR makes of them.
ModeInit ==
  /\ At("ModeInit") /\ Proceed
  /\ vtSema' = TRUE
  /\ units' = [u \in ScreenUnits |-> IF u \in {"PLLs", "CRTCs", "Outputs"} THEN "driver" ELSE units[u]]
  /\ \E active \in SUBSET Crtcs \ {{}} : reading' = (reading \ Crtcs) \union active
  /\ UNCHANGED <<card, vgaSetup, saved, engineBusy, stream, direct, history>>

\* What else RHDScreenInit does before and after the modes may fail, too.
InitFails ==
  /\ handler = "ScreenInit"
  /\ \E call \in {"Save", "VGADisable", "DRIFinish", "ModeInit", "Colormap"} : At(call)
  /\ Fatal
  /\ UNCHANGED <<card, vtSema, display, engineBusy, stream, direct, history>>

Colormap ==
  /\ At("Colormap") /\ Proceed
  /\ UNCHANGED <<card, vtSema, display, engineBusy, stream, direct, history>>
-----------------------------------------------------------------------------
\* RHDMCRestore.
MCRestore ==
  /\ At("MCRestore") /\ Proceed
  /\ \/ /\ TRUE \in MCReadings
        /\ units' = [units EXCEPT !["MC"] = saved["MC"]]
        /\ UNCHANGED refused
     \/ /\ FALSE \in MCReadings
        /\ refused' = TRUE
        /\ UNCHANGED units
  /\ UNCHANGED <<card, vtSema, vgaSetup, saved, reading, engineBusy, stream, direct, notIdle>>

\* rhdRestoreCursor, RHDPLLsRestore, RHDAudioRestore and RHDLUTsRestore before
\* the VGA, RHDPmRestore, RHDOutputsRestore and the BIOS scratch registers
\* after the CRTCs.
UnitRestore(call, u) ==
  /\ At(call) /\ Proceed
  /\ units' = [units EXCEPT ![u] = saved[u]]
  /\ UNCHANGED <<card, vtSema, vgaSetup, saved, reading, engineBusy, stream, direct, history>>

PLLsRestore == UnitRestore("PLLsRestore", "PLLs")
OutputsRestore == UnitRestore("OutputsRestore", "Outputs")

\* RHDVGARestore, which returns early if there is no VGA.
VGARestore ==
  /\ At("VGARestore") /\ Proceed
  /\ IF hasVGA
     THEN /\ units' = [units EXCEPT !["VGA"] = saved["VGA"]]
          /\ reading' = reading \union {"VGA"}
          /\ vgaSetup' = FALSE
     ELSE UNCHANGED <<units, reading, vgaSetup>>
  /\ UNCHANGED <<card, vtSema, saved, engineBusy, stream, direct, history>>

\* RHDCrtcRestore of both.  The ASSERT of DxModeRestore, after the registers of
\* the first, is fatal.
CrtcsRestore ==
  /\ At("CrtcsRestore")
  /\ IF vgaSetup
     THEN Fatal /\ reading' = reading \union {"CRTC1"} /\ UNCHANGED units
     ELSE /\ Proceed
          /\ units' = [units EXCEPT !["CRTCs"] = saved["CRTCs"]]
          /\ reading' = (reading \ Crtcs) \union {"CRTC1"}
  /\ UNCHANGED <<card, vtSema, vgaSetup, saved, engineBusy, stream, direct, history>>
-----------------------------------------------------------------------------
\* RHDDRICloseScreen.
Closed ==
  /\ dri' = "closed" /\ cp' = "none" /\ lock' = 0 /\ gart' = "none"
  /\ backup' = "none"

DRIClose ==
  /\ At("DRIClose") /\ Proceed
  /\ Closed
  /\ UNCHANGED <<card, vtSema, display, engineBusy, stream, history>>

\* RHDDRIScreenInit: after a failure RHDDRIFinishScreenInit is not called.
DRIScreenInit ==
  /\ At("DRIScreenInit")
  /\ \/ /\ dri' = "open" /\ Proceed
        /\ UNCHANGED <<cp, lock, gart, backup>>
     \/ Closed /\ Skip(4)
  /\ UNCHANGED <<card, vtSema, display, engineBusy, stream, history>>

\* RHDDRIFinishScreenInit: DRIFinishScreenInit takes the lock, RHDDRIKernelInit
\* sets up the CP and the GART table, RHDDRIBufInit the buffers.
DRIFinish ==
  /\ At("DRIFinish")
  /\ \/ /\ lock' = 1 /\ Proceed
        /\ UNCHANGED <<dri, cp, gart, backup>>
     \/ Closed /\ Skip(3)
  /\ UNCHANGED <<card, vtSema, display, engineBusy, stream, history>>

DRIKernelInit ==
  /\ At("DRIKernelInit")
  /\ \/ /\ cp' = "stopped" /\ gart' = "valid" /\ Proceed
        /\ UNCHANGED <<dri, lock, backup>>
     \/ Closed /\ Skip(2)
  /\ UNCHANGED <<card, vtSema, display, engineBusy, stream, history>>

DRIBufInit ==
  /\ At("DRIBufInit") /\ Proceed
  /\ UNCHANGED direct \/ Closed
  /\ UNCHANGED <<card, vtSema, display, engineBusy, stream, history>>

\* MUTANT of BackedUp: RHDDRILeaveVT does not copy the table.
BackedUpNot == backup

\* The memcpys of RHDDRILeaveVT and RHDDRIEnterVT.
BackedUp == IF backup = "none" THEN "none" ELSE gart
PutBack == IF backup = "none" THEN gart ELSE backup

DRILeaveVT ==
  /\ At("DRILeaveVT") /\ Proceed
  /\ IF dri = "open"
     THEN lock' = lock + 1 /\ backup' = BackedUp
     ELSE UNCHANGED <<lock, backup>>
  /\ UNCHANGED <<card, vtSema, display, engineBusy, stream, dri, cp, gart, history>>

\* RHDDRIEnterVT.  It gives up early if the AGP does not get its mode.
DRIEnterVT ==
  /\ At("DRIEnterVT") /\ Proceed
  /\ \/ dri = "open" /\ gart' = PutBack
     \/ (dri = "closed" \/ ~isPCIE) /\ UNCHANGED gart
  /\ UNCHANGED <<card, vtSema, display, engineBusy, stream, dri, cp, lock, backup, history>>

\* DRIUnlock does nothing on a screen without DRI.
Unlocked == IF dri = "open" THEN lock - 1 ELSE lock

Unlock ==
  /\ At("Unlock") /\ Proceed
  /\ lock' = Unlocked
  /\ UNCHANGED <<card, vtSema, display, engineBusy, stream, dri, cp, gart, backup, history>>
-----------------------------------------------------------------------------
CpStarted == IF csType = "DRM" THEN "running" ELSE cp

\* RHDCSStart.
CSStart ==
  /\ At("CSStart") /\ Proceed
  /\ csActive' = TRUE
  /\ cp' = IF csActive THEN cp ELSE CpStarted
  /\ UNCHANGED <<card, vtSema, display, engineBusy, csType, dri, lock, gart, backup, history>>

\* RHDCSInit, which makes a new stream, and RHDCSStart.
CSInit ==
  /\ At("CSInit") /\ Proceed
  /\ csType' = IF dri = "open" THEN "DRM" ELSE "MMIO"
  /\ csActive' = TRUE
  /\ cp' = IF dri = "open" THEN "running" ELSE cp
  /\ UNCHANGED <<card, vtSema, display, engineBusy, dri, lock, gart, backup, history>>

\* RHDCSStop.  The kernel may refuse to stop the CP.
CSStop ==
  /\ At("CSStop") /\ Proceed
  /\ csActive' = FALSE
  /\ cp' \in IF csActive /\ csType = "DRM" THEN {"stopped", cp} ELSE {cp}
  /\ UNCHANGED <<card, vtSema, display, engineBusy, csType, dri, lock, gart, backup, history>>

\* rhdEngineIdle gives up, sooner or later, on an engine that hangs.
EngineIdle ==
  /\ At("EngineIdle") /\ Proceed
  /\ engineBusy' \in {FALSE, engineBusy}
  /\ UNCHANGED <<card, vtSema, display, stream, direct, history>>

\* X or a client draws, and the engine gets done with it.
Draw ==
  /\ Resting /\ server = "open" /\ ~engineBusy
  /\ engineBusy' = TRUE
  /\ UNCHANGED <<card, control, vtSema, display, stream, direct, history>>

EngineFinishes ==
  /\ engineBusy
  /\ engineBusy' = FALSE
  /\ UNCHANGED <<card, control, vtSema, display, stream, direct, history>>

\* The console writes to its framebuffer, or the machine is suspended.
LoseMemory ==
  /\ Resting /\ server = "away"
  /\ gart = "valid" /\ isPCIE
  /\ gart' = "lost"
  /\ UNCHANGED <<card, control, vtSema, display, engineBusy, stream, dri, cp, lock, backup, history>>

LifecycleNext ==
  \/ ScreenInit \/ EnterScreen \/ LeaveScreen \/ SwitchMode \/ CloseScreen \/ Return
  \/ Save \/ VGADisable \/ AllIdle \/ AllIdleFails \/ MCSetup
  \/ ModeInit \/ InitFails \/ Colormap
  \/ MCRestore \/ PLLsRestore \/ VGARestore \/ CrtcsRestore \/ OutputsRestore
  \/ DRIScreenInit \/ DRIFinish \/ DRIKernelInit \/ DRIBufInit
  \/ DRILeaveVT \/ DRIEnterVT \/ Unlock \/ DRIClose
  \/ CSStart \/ CSInit \/ CSStop \/ EngineIdle
  \/ Draw \/ EngineFinishes \/ LoseMemory

LifecycleSpec == LifecycleInit /\ [][LifecycleNext]_lifecycleVars
-----------------------------------------------------------------------------
LifecycleTypeOK ==
  /\ {hasVGA, isPCIE, vtSema, vgaSetup, engineBusy, csActive, notIdle, refused} \subseteq BOOLEAN
  /\ server \in {"closed", "open", "away", "aborted", "dead"}
  /\ \/ handler = "none" /\ pc = 0
     \/ handler \in DOMAIN Program /\ pc \in 1 .. Len(Program[handler])
  /\ units \in [ScreenUnits -> {"console", "driver"}]
  /\ saved \in [ScreenUnits -> {"nothing", "console", "driver"}]
  /\ reading \subseteq Crtcs \union {"VGA"}
  /\ csType \in {"none", "MMIO", "DRM"}
  /\ dri \in {"closed", "open"} /\ cp \in {"none", "stopped", "running"}
  /\ lock \in 0 .. 3
  /\ gart \in {"none", "valid", "lost", "empty"}
  /\ backup \in {"none", "empty", "valid", "lost"}

\* "For SetupFBLocation and Restore, we require a fully idle MC as we might
\* lock up otherwise" (rhd_mc.c): MC->Idle is only a look at one moment, what
\* counts is that nobody can start to read.  The handlers see to that, unless
\* they go on after rhdAllIdle has failed.
MCMovedQuietly ==
  [][units'["MC"] # units["MC"] => (reading = {} /\ ~engineBusy) \/ notIdle]_lifecycleVars

\* Who leaves the driver's screen finds the console as it was, through any
\* sequence of switches and generations: nothing is saved when it has the
\* driver's values.  The memory controller alone may be left behind.
ConsoleBack ==
  (Resting /\ server \in {"away", "closed", "aborted"}) =>
    \A u \in ScreenUnits : units[u] = "console" \/ (u = "MC" /\ refused)

\* RHDEnterVT may ignore what RHDMCSetupFBLocation returns: after rhdAllIdle
\* it cannot fail, and X never draws with the controller at the console's place.
\* And it gives back what RHDLeaveVT took, whether DRI works or not: while the VT
\* is away the server holds the lock once more than its wakeup handler takes it.
RestsInPlace ==
  Resting /\ server \in {"open", "away"} =>
    /\ server = "open" => units["MC"] = "driver"
    /\ lock = IF dri = "closed" THEN 0 ELSE IF server = "away" THEN 2 ELSE 1

\* "Backup the PCIE GART TABLE from fb memory", "Restore the PCIE GART TABLE"
\* (rhd_dri.c): the CP never works with a table the VT switch has destroyed.
GartTableKept ==
  (Resting /\ server = "open" /\ cp = "running") => gart = "valid"

\* It does not, as long as there is a copy: RHDDRICloseScreen frees it, and
\* only RHDPreInit allocates one.  And rhdEngineIdle writes to the command stream,
\* whose buffer is gone once it is stopped: that happens to nobody but a server
\* that dies in RHDEnterVT.
CommandsCanRun ==
  /\ GartTableKept \/ backup = "none"
  /\ At("EngineIdle") => csActive \/ handler = "AbortDDX"

\* "Make sure VGA is restored already" (the ASSERT of DxModeRestore).
VGARestoredFirst == At("CrtcsRestore") => ~vgaSetup
=============================================================================
