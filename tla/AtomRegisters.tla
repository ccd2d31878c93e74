---------------------------- MODULE AtomRegisters ---------------------------
(***************************************************************************)
(* The tables of the parts that the driver leaves to the BIOS's command     *)
(* tables: a CRTC (rhd_atomcrtc.c), an output (rhd_atomout.c) and a PLL     *)
(* (rhd_atompll.c).  A command table is here a set of registers, named as   *)
(* the table is.  Which ones the BIOS of a card really writes is its own    *)
(* affair: PATH stands for what the tables of a CRTC and of its output      *)
(* share, and the rest for what each has to itself.  That a table does not  *)
(* write what the driver saves itself of that part is assumed.              *)
(***************************************************************************)
EXTENDS CrtcRegisters, OutputRegisters

-----------------------------------------------------------------------------
SetCRTCOverScan == {"OVERSCAN"}
EnableScaler == {"SCALER", "PATH"}
SetCRTCTimings == {"TIMING", "PATH"}
BlankCRTC == {"BLANK"}
EnableCRTC == {"ENABLE"}
EnableCRTCMemReq == {"READS"}

\* The driver sets the view port itself.
ViewPort == {"MODE_VIEWPORT_SIZE", "MODE_VIEWPORT_START"}
rhdAtomScaleSet == Listed(ScaleList, Writes({}, {}, ViewPort \union SetCRTCOverScan \union EnableScaler))
rhdAtomScaleSave == ViewPort
rhdAtomCrtcScaleRestore == ViewPort

rhdAtomModeSet == Listed(ModeList, Writes({}, {}, SetCRTCTimings \union {"MODE_DATA_FORMAT"}))
rhdAtomModeSave == {"MODE_DATA_FORMAT"}
rhdAtomModeRestore == {"MODE_DATA_FORMAT"}

rhdAtomCrtcBlank == Listed(ModeList, Writes({}, {}, BlankCRTC))
rhdAtomCrtcPower ==
  LET both == EnableCRTC \union EnableCRTCMemReq
      off == Listed(ModeList, Writes({}, both, {}))
  IN ByPower(Listed(ModeList, Writes(both, {}, {})), off, off)

\* The frame buffer, the colours and the FMT block are set as on any CRTC.
\* (DxFBRestore leaves READS off; it is on the list since rhdAllIdle, and the
\* list is restored later.)
AtomCRTC ==
  LET saves == rhdAtomScaleSave \union rhdAtomModeSave \union DxFBSave \union DxLUTSave \union DxFMTSave
      restores == rhdAtomCrtcScaleRestore \union rhdAtomModeRestore
                    \union DxFBRestore \union DxLUTRestore \union DxFMTRestore
  IN
  [fields |-> saves \union Touched(rhdAtomScaleSet) \union Touched(rhdAtomModeSet)
                \union BlankCRTC \union {"ENABLE", "READS", "SCL_UPDATE"},
   switches |-> {"GRPH", "ENABLE", "READS"},
   saves |-> saves, restores |-> restores,
   sense |-> Nothing, mode |-> rhdAtomModeSet, saving |-> Nothing, power |-> rhdAtomCrtcPower,
   touches |-> {DxFBSet, rhdAtomScaleSet, DxLUTSelect, DxViewPortStart, rhdAtomCrtcBlank, DxFMTSet},
   idled |-> TRUE, latched |-> FALSE,
   lit |-> {"ENABLE", "READS"}, dark |-> Dark({"ENABLE", "READS"}, {"ENABLE", "READS"}),
   lost |-> {"SCL_UPDATE"}]
-----------------------------------------------------------------------------
(* An output.  What the backlight's level sets is not on a list: neither when *)
(* it is changed, nor when the output is restored and takes the level that   *)
(* the scratch register of the BIOS still has from the driver.  The CRTC is   *)
(* among those who write: its tables share PATH with SelectCRTCSource.       *)

SelectCRTCSource == {"CRTC_SOURCE", "PATH"}
atomSetBacklight == Writes({}, {}, {"BL_LEVEL"})
CrtcTables ==
  {Listed(ScaleList, Writes({}, {}, EnableScaler \intersect SelectCRTCSource)),
   Listed(ModeList, Writes({}, {}, SetCRTCTimings \intersect SelectCRTCSource))}

\* DAC, TMDS, LVDS and DVO.  EncoderControl switches ENCODER, and when it turns
\* it on it sets up the format.
OutputControl == {"OUTPUT"}
EncoderControl == {"ENCODER_FORMAT"}
rhdAtomOutputSet == Listed(OutputList, Writes({}, {}, SelectCRTCSource))
rhdAtomOutputPower ==
  ByPower(Listed(OutputList, Writes(OutputControl \union {"ENCODER"}, {}, EncoderControl)),
          Listed(OutputList, Writes({}, OutputControl, {})),
          Listed(OutputList, Writes({}, OutputControl \union {"ENCODER"}, {})))

AtomOutput ==
  [fields |-> SelectCRTCSource \union EncoderControl \union {"ENCODER", "OUTPUT", "BL_LEVEL"},
   switches |-> {"ENCODER", "OUTPUT"}, saves |-> {}, restores |-> {},
   sense |-> Nothing, mode |-> rhdAtomOutputSet, saving |-> Nothing, power |-> rhdAtomOutputPower,
   touches |-> CrtcTables \union {atomSetBacklight},
   idled |-> FALSE, latched |-> FALSE,
   lit |-> {"ENCODER", "OUTPUT"}, dark |-> Dark({"OUTPUT"}, {"OUTPUT", "ENCODER"}),
   lost |-> {"BL_LEVEL"}]

\* UNIPHY and LVTMA, with the encoder that RHDAtomOutputAllocFree gave them, and
\* which comes with an HDMI block: that is saved when the encoder is taken and
\* restored when it is freed, too.
DigTransmitterControl == {"TRANSMITTER", "OUTPUT"}
DigTransmitterSetup == {"TRANSMITTER_CONTROL"}          \* when it is initialised and set up
rhdAtomDigOutputSet ==
  Listed(OutputList, Writes({}, {}, SelectCRTCSource \union DigTransmitterSetup \union HdmiSetMode))
rhdAtomDigOutputPower ==
  ByPower(Listed(OutputList, Writes(DigTransmitterControl \union {"ENCODER"}, {}, EncoderControl \union {"HDMI_ENABLE"})),
          Listed(OutputList, Writes({}, {"OUTPUT"}, {})),
          Listed(OutputList, Writes({}, DigTransmitterControl \union {"ENCODER"}, {"HDMI_ENABLE"})))

AtomDigOutput ==
  [fields |-> SelectCRTCSource \union DigTransmitterSetup \union EncoderControl \union HdmiSave
                \union {"ENCODER", "TRANSMITTER", "OUTPUT", "BL_LEVEL"},
   switches |-> {"ENCODER", "TRANSMITTER", "OUTPUT"}, saves |-> HdmiSave, restores |-> HdmiRestore,
   sense |-> Nothing, mode |-> rhdAtomDigOutputSet, saving |-> Nothing, power |-> rhdAtomDigOutputPower,
   touches |-> CrtcTables \union HdmiTouches \union {atomSetBacklight},
   idled |-> FALSE, latched |-> FALSE,
   lit |-> {"ENCODER", "TRANSMITTER", "OUTPUT"},
   dark |-> Dark({"OUTPUT"}, {"OUTPUT", "TRANSMITTER", "ENCODER"}),
   lost |-> {"BL_LEVEL"}]
-----------------------------------------------------------------------------
(* A PLL that the console runs for a device that the BIOS scratch registers  *)
(* name: SetPixelClock brings such a PLL back to its dividers.  (Any other is *)
(* switched off instead.)  There is no list.  The driver handles the spread   *)
(* spectrum itself. *)

SetPixelClock == {"DIVIDERS", "CRTC_CLOCK"}
rhdAtomPLLSet == Writes({"PLL"}, {}, SetPixelClock \union {"INT_SS_CNTL"})
\* To reset and to shut down are empty.
rhdAtomPLLPower == ByPower(Writes({"PLL"}, {}, SetPixelClock), Nothing, Nothing)
rhdAtomPLLSave == {"PLL", "INT_SS_CNTL"} \union SetPixelClock
rhdAtomPLLRestore == rhdAtomPLLSave

AtomPLL ==
  [fields |-> rhdAtomPLLSave, switches |-> {"PLL"},
   saves |-> rhdAtomPLLSave, restores |-> rhdAtomPLLRestore,
   sense |-> Nothing, mode |-> rhdAtomPLLSet, saving |-> Nothing, power |-> rhdAtomPLLPower, touches |-> {},
   idled |-> FALSE, latched |-> FALSE, lit |-> {"PLL"}, dark |-> Dark({}, {}), lost |-> {}]
=============================================================================
