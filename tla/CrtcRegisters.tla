---------------------------- MODULE CrtcRegisters ---------------------------
(***************************************************************************)
(* The tables of a CRTC (rhd_crtc.c), of the colour tables (rhd_lut.c), of  *)
(* a cursor (rhd_cursor.c) and of the audio engine (rhd_audio.c); see       *)
(* SavedRegisters and OutputRegisters.  The two CRTCs have the same         *)
(* handlers, and registers that come in a row are one here.                 *)
(***************************************************************************)
EXTENDS RegisterTables

-----------------------------------------------------------------------------
(* ENABLE and READS are bits of CRTC_CONTROL: READS is on when the CRTC may   *)
(* ask for memory.  GRPH is D1GRPH_ENABLE. *)

FBRegisters ==
  {"GRPH_CONTROL", "GRPH_SWAP_CNTL", "GRPH_PRIMARY_SURFACE_ADDRESS", "GRPH_PITCH",
   "GRPH_SURFACE_OFFSET", "GRPH_START", "GRPH_END", "MODE_DESKTOP_HEIGHT"}
DxFBSet == Writes({"GRPH"}, {}, FBRegisters)
DxFBSave == {"GRPH"} \union FBRegisters
\* Reads are stopped meanwhile; DxModeRestore comes last and has the last word.
DxFBRestore == {"GRPH"} \union FBRegisters

TimingRegisters ==
  {"CRTC_H_TOTAL", "CRTC_H_BLANK_START_END", "CRTC_H_SYNC_A", "CRTC_V_TOTAL",
   "CRTC_V_BLANK_START_END", "CRTC_V_SYNC_A", "CRTC_INTERLACE_CONTROL", "MODE_DATA_FORMAT",
   "CRTC_COUNT_CONTROL"}
DxModeSet == Writes({"READS"}, {}, TimingRegisters)
DxBlank == Writes({}, {}, {"CRTC_BLACK_COLOR", "CRTC_BLANK_CONTROL"})
DxModeSave == {"ENABLE", "READS", "CRTC_SYNC_B"} \union TimingRegisters \union DxBlank.set
DxModeRestore == DxModeSave

ScaleRegisters ==
  {"MODE_VIEWPORT_SIZE", "MODE_VIEWPORT_START", "MODE_EXT_OVERSCAN", "SCL_ENABLE",
   "SCL_TAP_CONTROL", "MODE_CENTER", "SCL_HVSCALE", "SCL_FILTER", "SCL_DITHER"}
ScaleLost == {"SCL_UPDATE", "SCL_FLIP_CONTROL"}
DxScaleSet == Writes({}, {}, ScaleRegisters \union ScaleLost)
DxScaleSave == ScaleRegisters
DxScaleRestore == ScaleRegisters
DxViewPortStart == Writes({}, {}, {"MODE_VIEWPORT_START", "SCL_UPDATE"})

DxLUTSelect == Writes({}, {}, {"GRPH_LUT_SEL"})
DxLUTSave == {"GRPH_LUT_SEL"}
DxLUTRestore == {"GRPH_LUT_SEL"}

FMTRegisters == {"FMT_BIT_DEPTH_CONTROL", "FMT_CONTROL", "FMT_CLAMP_CNTL"}
DxFMTSet == Writes({}, {}, FMTRegisters)
DxFMTSave == FMTRegisters
DxFMTRestore == FMTRegisters

\* A CRTC that does not stop in time is off all the same as far as its
\* registers go.
DxDisable == Writes({}, {"ENABLE"}, {})
DxPower ==
  ByPower(Writes({"GRPH", "READS", "ENABLE"}, {}, {}),
          Writes({}, {"READS"} \union DxDisable.off, {}),
          Writes({}, {"READS", "GRPH"} \union DxDisable.off, {}))

\* FBSet, ModeSet, ScaleSet and LUTSelect, as rhdSetMode and rhdRRCrtcModeSet
\* call them.
CrtcSet ==
  Writes({"GRPH", "READS"}, {}, DxFBSet.set \union DxModeSet.set \union DxScaleSet.set \union DxLUTSelect.set)
CrtcSave == DxFMTSave \union DxFBSave \union DxLUTSave \union DxScaleSave \union DxModeSave
CrtcRestore == DxFMTRestore \union DxFBRestore \union DxLUTRestore \union DxScaleRestore \union DxModeRestore

CRTC ==
  [fields |-> CrtcSave \union ScaleLost, switches |-> {"GRPH", "READS", "ENABLE"},
   saves |-> CrtcSave, restores |-> CrtcRestore,
   sense |-> Nothing, mode |-> CrtcSet, saving |-> Nothing, power |-> DxPower,
   touches |-> {DxViewPortStart, DxBlank, DxFMTSet},
   idled |-> TRUE, latched |-> FALSE,
   lit |-> {"GRPH", "READS", "ENABLE"},
   dark |-> Dark({"READS", "ENABLE"}, {"GRPH", "READS", "ENABLE"}),
   lost |-> ScaleLost]
-----------------------------------------------------------------------------
(* The window through which both colour tables are reached, and one table.   *)
(* DC_LUT_30_COLOR is the entry that the window shows, not a register. *)

LUTWindow == {"LUT_RW_SELECT", "LUT_RW_MODE", "LUT_RW_INDEX", "LUT_READ_PIPE_SELECT", "LUT_WRITE_EN_MASK"}
LUTRegisters == {"LUT_CONTROL", "LUT_BLACK_OFFSET", "LUT_WHITE_OFFSET", "LUT_ENTRIES"}

\* The window is moved to read the entries.
LUTxSave == Writes({}, {}, {"LUT_RW_MODE", "LUT_READ_PIPE_SELECT", "LUT_RW_INDEX"})
LUTxRestore == LUTRegisters
rhdLUTSet ==
  Writes({}, {}, LUTRegisters \union {"LUT_RW_SELECT", "LUT_RW_MODE", "LUT_WRITE_EN_MASK", "LUT_RW_INDEX"})
rhdLUTSetRows ==
  Writes({}, {}, {"LUT_RW_SELECT", "LUT_RW_MODE", "LUT_WRITE_EN_MASK", "LUT_RW_INDEX", "LUT_ENTRIES"})
RHDLUTCopyForRR == Writes({}, {}, rhdLUTSet.set \union {"LUT_READ_PIPE_SELECT"})
\* The window first, then both tables.
RHDLUTsSave == LUTWindow \union LUTRegisters
RHDLUTsRestore == LUTxRestore \union LUTWindow

LUT ==
  [fields |-> LUTWindow \union LUTRegisters, switches |-> {},
   saves |-> RHDLUTsSave, restores |-> RHDLUTsRestore,
   sense |-> Nothing, mode |-> rhdLUTSet, saving |-> LUTxSave,
   power |-> ByPower(Nothing, Nothing, Nothing), touches |-> {rhdLUTSetRows, RHDLUTCopyForRR},
   idled |-> FALSE, latched |-> FALSE, lit |-> {}, dark |-> Dark({}, {}), lost |-> {}]
-----------------------------------------------------------------------------
(* The cursor of a CRTC that is active when the driver gives the screen back;*)
(* rhdRestoreCursor leaves the others as they are.  SHOW is the enable bit of*)
(* CUR_CONTROL. *)

rhdCrtcShowCursor == Writes({"SHOW"}, {}, {"CUR_CONTROL"})
rhdCrtcHideCursor == Writes({}, {"SHOW"}, {"CUR_CONTROL"})
rhdCrtcSetCursorPosition == Writes({}, {}, {"CUR_SIZE", "CUR_POSITION", "CUR_HOT_SPOT"})
rhdCrtcLoadCursorARGB == Writes({}, {}, {"CUR_SURFACE_ADDRESS", "CUR_SIZE"})
saveCursor == {"SHOW", "CUR_CONTROL", "CUR_SURFACE_ADDRESS", "CUR_SIZE", "CUR_POSITION", "CUR_HOT_SPOT"}
restoreCursor == saveCursor

Cursor ==
  [fields |-> saveCursor, switches |-> {"SHOW"},
   saves |-> saveCursor, restores |-> restoreCursor,
   sense |-> Nothing, mode |-> rhdCrtcLoadCursorARGB, saving |-> Nothing,
   power |-> ByPower(Nothing, Nothing, Nothing),
   touches |-> {rhdCrtcShowCursor, rhdCrtcHideCursor, rhdCrtcSetCursorPosition},
   idled |-> FALSE, latched |-> FALSE, lit |-> {}, dark |-> Dark({}, {}), lost |-> {}]
-----------------------------------------------------------------------------
(* The audio engine; its clock is set with the mode of an HDMI output. *)

RHDAudioSetSupported == {"AUDIO_SUPPORTED_SIZE_RATE", "AUDIO_SUPPORTED_CODEC"}
RHDAudioSetEnable(enable) ==
  IF enable THEN Writes({"AUDIO_ENABLE"}, {}, RHDAudioSetSupported \union {"R700_AUDIO_UNKNOWN"})
  ELSE Writes({}, {"AUDIO_ENABLE"}, {})
RHDAudioSetClock == Writes({}, {}, {"AUDIO_TIMING", "AUDIO_PLL1", "AUDIO_PLL2", "AUDIO_CLK_SRCSEL"})
RHDAudioSave ==
  {"AUDIO_ENABLE", "AUDIO_TIMING", "AUDIO_PLL1", "AUDIO_PLL2", "AUDIO_CLK_SRCSEL"} \union RHDAudioSetSupported
RHDAudioRestore == RHDAudioSave

Audio ==
  [fields |-> RHDAudioSave \union {"R700_AUDIO_UNKNOWN"}, switches |-> {"AUDIO_ENABLE"},
   saves |-> RHDAudioSave, restores |-> RHDAudioRestore,
   sense |-> Nothing, mode |-> RHDAudioSetClock, saving |-> Nothing,
   power |-> ByPower(Nothing, Nothing, Nothing), touches |-> {RHDAudioSetEnable(on) : on \in BOOLEAN},
   idled |-> FALSE, latched |-> FALSE, lit |-> {}, dark |-> Dark({}, {}),
   lost |-> {"R700_AUDIO_UNKNOWN"}]
=============================================================================
