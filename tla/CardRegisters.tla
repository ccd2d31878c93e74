---------------------------- MODULE CardRegisters ---------------------------
(***************************************************************************)
(* The tables of the parts of the card that all outputs share: the memory   *)
(* controller (rhd_mc.c), the VGA (rhd_vga.c) and the registers in which    *)
(* driver and BIOS tell each other what they do (rhd_biosscratch.c); see    *)
(* SavedRegisters.  When the card does not let itself be idled the memory   *)
(* controller is not restored; ScreenLifecycle is about that.               *)
(***************************************************************************)
EXTENDS RegisterTables

\* A part that nothing but its mode and a few calls write to.
Plain(registers, mode, touches) ==
  [fields |-> registers, switches |-> {}, saves |-> registers, restores |-> registers,
   sense |-> Nothing, mode |-> mode, saving |-> Nothing,
   power |-> ByPower(Nothing, Nothing, Nothing), touches |-> touches,
   idled |-> FALSE, latched |-> FALSE, lit |-> {}, dark |-> Dark({}, {}), lost |-> {}]
-----------------------------------------------------------------------------
(* Where the frame buffer is, for the controller and for the host's path to  *)
(* it, and how patient the controller is with the CRTCs. *)

FBLocation == {"MC_FB_LOCATION", "HDP_FB_LOCATION"}
LatencyTimer == {"MISC_LAT_TIMER"}

SetupFBLocation == Writes({}, {}, FBLocation)
TuneAccessForDisplay == Writes({}, {}, LatencyTimer)

RV515MC == Plain(FBLocation \union LatencyTimer, TuneAccessForDisplay, {SetupFBLocation})
R500MC == Plain(FBLocation, Nothing, {SetupFBLocation})
RS600MC == Plain(FBLocation, Nothing, {SetupFBLocation})
RS690MC == Plain(FBLocation \union LatencyTimer, TuneAccessForDisplay, {SetupFBLocation})
R600MC == Plain(FBLocation, Nothing, {SetupFBLocation})
R700MC == Plain(FBLocation, Nothing, {SetupFBLocation})
-----------------------------------------------------------------------------
(* A console in VGA mode.  (Without one there is no rhdPtr->VGA, nothing is   *)
(* saved, and what RHDVGADisable still changes then, two bits of             *)
(* VGA_MODE_CONTROL and one of VGA_HDP_CONTROL, stays so.)  VGA_FB is the     *)
(* quarter of a megabyte with its contents, which the driver draws over.     *)

VGARegisters == {"VGA_RENDER_CONTROL", "VGA_MODE_CONTROL", "VGA_HDP_CONTROL", "D1VGA_CONTROL", "D2VGA_CONTROL"}
RHDVGADisable == Writes({}, {}, VGARegisters)
rhdVGASaveFB == {"VGA_FB"}
RHDVGASave == VGARegisters \union rhdVGASaveFB
RHDVGARestore == VGARegisters \union rhdVGASaveFB
DrawnOver == Writes({}, {}, rhdVGASaveFB)

VGA == [Plain(RHDVGASave, DrawnOver, {RHDVGADisable}) EXCEPT !.restores = RHDVGARestore]
-----------------------------------------------------------------------------
(* The scratch registers of the BIOS.  0 says what is attached, 2 the DPMS   *)
(* state and the backlight, 3 what is on and by which CRTC, 6 what the       *)
(* driver has taken over. *)

UpdateAttachedState == {"BIOS_0"}
UpdateOnState == {"BIOS_3"}
SetCrtcState == {"BIOS_3"}
SetAcceleratorModeForDevice == {"BIOS_6"}
UpdateBIOSScratchForOutput ==
  Writes({}, {}, SetCrtcState \union UpdateOnState \union SetAcceleratorModeForDevice \union UpdateAttachedState)

SetAccelratorMode == Writes({}, {}, {"BIOS_6"})
ScratchPMState == Writes({}, {}, {"BIOS_2"})
ScratchBlLevel == Writes({}, {}, {"BIOS_2"})
\* The BIOS looks for the monitor and leaves its answer in the register.
RHDBIOSScratchDACSense == Writes({}, {}, {"BIOS_0"})
SaveBiosScratchRegisters == {"BIOS_0", "BIOS_2", "BIOS_3", "BIOS_6"}
RestoreBiosScratchRegisters == SaveBiosScratchRegisters

BIOSScratch ==
  [Plain(SaveBiosScratchRegisters, UpdateBIOSScratchForOutput,
         {SetAccelratorMode, ScratchPMState, ScratchBlLevel})
   EXCEPT !.sense = RHDBIOSScratchDACSense, !.restores = RestoreBiosScratchRegisters,
          !.power = ByPower(UpdateBIOSScratchForOutput, UpdateBIOSScratchForOutput, UpdateBIOSScratchForOutput)]
=============================================================================
