--------------------------- MODULE OutputRegisters --------------------------
(***************************************************************************)
(* The tables of the outputs (SavedRegisters says what a table is): for    *)
(* each handler of an output the registers it leaves changed.  Registers    *)
(* are called as in rhd_regs.h without their prefix, and a register has one*)
(* name on all the chips that have it.  A pulse that is over when the      *)
(* handler returns is left out.  The two DACs have the same handlers, and  *)
(* so do the two TMDS outputs that own an HDMI block.                      *)
(***************************************************************************)
EXTENDS RegisterTables

-----------------------------------------------------------------------------
(* rhd_dac.c.  POWER is on when nothing in POWERDOWN is set. *)

\* What DACSense reads first it puts back, the rest it does not.
DACSense == Writes({"POWER"}, {}, {"FORCE_DATA", "CONTROL2"})
DACSet == Writes({}, {}, {"CONTROL1", "CONTROL2", "SOURCE_SELECT", "FORCE_OUTPUT_CNTL", "FORCE_DATA"})
DACPower ==
  ByPower(Writes({"ENABLE", "POWER"}, {}, {"FORCE_OUTPUT_CNTL", "SYNC_SELECT", "SYNC_TRISTATE"}),
          Nothing,
          Writes({}, {"ENABLE", "POWER"}, {"FORCE_DATA", "FORCE_OUTPUT_CNTL"}))
DACRestore ==
  {"POWER", "FORCE_OUTPUT_CNTL", "FORCE_DATA", "SOURCE_SELECT", "SYNC_SELECT", "ENABLE",
   "CONTROL1", "CONTROL2", "SYNC_TRISTATE"}
DACSave == {"POWER", "FORCE_OUTPUT_CNTL", "FORCE_DATA", "SOURCE_SELECT", "SYNC_SELECT", "ENABLE",
            "CONTROL1", "CONTROL2", "SYNC_TRISTATE"}

DAC ==
  [fields |-> DACSave, switches |-> {"ENABLE", "POWER"},
   saves |-> DACSave, restores |-> DACRestore,
   sense |-> DACSense, mode |-> DACSet, saving |-> Nothing, power |-> DACPower, touches |-> {},
   idled |-> FALSE, latched |-> FALSE,
   lit |-> {"ENABLE", "POWER"}, dark |-> Dark({}, {"ENABLE"}), lost |-> {}]

\* The first method leaves the comparators of the detection enabled.
DACSenseRV620MethA == Writes({}, {}, {"COMPARATOR_ENABLE"})
DACSenseRV620MethB == Writes({"POWER"}, {}, {"FORCE_DATA", "CONTROL2"})
\* The second method is tried when the first finds nothing.
DACSenseRV620 ==
  Writes(DACSenseRV620MethB.on, {}, DACSenseRV620MethA.set \union DACSenseRV620MethB.set)
DACSetRV620 ==
  Writes({}, {}, {"MACRO_CNTL", "SOURCE_SELECT", "CONTROL2", "AUTO_CALIB_CONTROL", "BGADJ_SRC"})
DACPowerRV620 ==
  ByPower(Writes({"ENABLE", "POWER"}, {}, {"FORCE_OUTPUT_CNTL", "FORCE_DATA", "SYNC_TRISTATE"}),
          Nothing,
          Writes({}, {"ENABLE", "POWER"}, {"FORCE_DATA", "FORCE_OUTPUT_CNTL"}))
DACSaveRV620 ==
  {"POWER", "FORCE_OUTPUT_CNTL", "FORCE_DATA", "SOURCE_SELECT", "ENABLE", "MACRO_CNTL",
   "CONTROL2", "SYNC_TRISTATE", "AUTO_CALIB_CONTROL", "BGADJ_SRC"}
DACRestoreRV620 == DACSaveRV620

DACRV620 ==
  [fields |-> DACSaveRV620 \union {"COMPARATOR_ENABLE"}, switches |-> {"ENABLE", "POWER"},
   saves |-> DACSaveRV620, restores |-> DACRestoreRV620,
   sense |-> DACSenseRV620, mode |-> DACSetRV620, saving |-> Nothing, power |-> DACPowerRV620,
   touches |-> {DACSenseRV620MethA},
   idled |-> FALSE, latched |-> FALSE,
   lit |-> {"ENABLE", "POWER"}, dark |-> Dark({}, {"ENABLE"}),
   lost |-> {"COMPARATOR_ENABLE"}]
-----------------------------------------------------------------------------
(* rhd_hdmi.c: the block of an output that can send audio. *)

HdmiSetMode == {"HDMI_CNTL", "HDMI_VERSION", "HDMI_VIDEOCNTL", "HDMI_VIDEOINFOFRAME",
                "HDMI_CTS", "HDMI_UNKNOWN", "HDMI_AUDIO_DEBUG"}
\* CNTL is the output's own; a DIG output has none.
HdmiEnable == {"HDMI_ENABLE", "CNTL"}
\* Called by the audio timer.
HdmiUpdateAudioSettings == {"HDMI_IEC60958", "HDMI_AUDIOCNTL", "HDMI_AUDIOINFOFRAME", "HDMI_CNTL"}
HdmiCommitAudioWorkaround == {"HDMI_CNTL"}
HdmiSave ==
  {"HDMI_ENABLE", "HDMI_CNTL", "HDMI_AUDIO_DEBUG", "HDMI_VERSION", "HDMI_VIDEOCNTL",
   "HDMI_VIDEOINFOFRAME", "HDMI_AUDIOCNTL", "HDMI_AUDIOINFOFRAME", "HDMI_CTS",
   "HDMI_IEC60958", "HDMI_UNKNOWN"}
HdmiRestore == HdmiSave

HdmiTouches == {Writes({}, {}, HdmiUpdateAudioSettings), Writes({}, {}, HdmiCommitAudioWorkaround)}
-----------------------------------------------------------------------------
(* rhd_tmds.c.  ENABLE and PLL are bits of TMDSA_CNTL and of the transmitter's *)
(* control, TX is the transmitter's enable register. *)

\* Puts back all it touches.
TMDSASense == Nothing
\* Before the RV610 a macro, from then on the PLL and the transmitter.
TMDSAVoltageControl == {"MACRO_CONTROL", "PLL_ADJUST", "TRANSMITTER_ADJUST"}
TMDSASet ==
  Writes({}, {"TX"}, {"CNTL", "BIT_DEPTH_CONTROL", "SOURCE_SELECT", "COLOR_FORMAT", "FORCE_OUTPUT_CNTL",
                      "DCBALANCER_CONTROL", "TRANSMITTER_CONTROL"}
                     \union TMDSAVoltageControl \union HdmiSetMode)

\* Off or unknown before, it is switched on from the start; otherwise only its
\* transmitter is.
TMDSAPowerOn(level) ==
  LET transmitter == Writes({"TX"}, {}, {"CNTL"} \union HdmiEnable) IN
  IF level \in {"SHUTDOWN", "UNKNOWN"}
  THEN Writes({"ENABLE", "PLL", "TX"}, {}, transmitter.set \union {"DATA_SYNCHRONIZATION"})
  ELSE transmitter

TMDSAPower ==
  [lp \in Levels \X Powers |->
     CASE lp[2] = "ON" -> TMDSAPowerOn(lp[1])
       [] lp[2] = "RESET" -> Writes({}, {"TX"}, {})
       [] lp[2] = "SHUTDOWN" -> Writes({}, {"ENABLE", "PLL", "TX"}, {"CNTL"} \union HdmiEnable)]

TMDSASave ==
  {"ENABLE", "CNTL", "SOURCE_SELECT", "COLOR_FORMAT", "FORCE_OUTPUT_CNTL", "BIT_DEPTH_CONTROL",
   "DCBALANCER_CONTROL", "DATA_SYNCHRONIZATION", "TX", "MACRO_CONTROL", "PLL",
   "TRANSMITTER_CONTROL", "TRANSMITTER_ADJUST"} \union HdmiSave
TMDSARestore == TMDSASave

TMDSA ==
  [fields |-> TMDSASave \union {"PLL_ADJUST"}, switches |-> {"ENABLE", "PLL", "TX"},
   saves |-> TMDSASave, restores |-> TMDSARestore,
   sense |-> TMDSASense, mode |-> TMDSASet, saving |-> Nothing, power |-> TMDSAPower, touches |-> HdmiTouches,
   idled |-> FALSE, latched |-> TRUE,
   lit |-> {"ENABLE", "PLL", "TX"}, dark |-> Dark({"TX"}, {"ENABLE", "PLL", "TX"}),
   lost |-> {"PLL_ADJUST"}]
-----------------------------------------------------------------------------
(* rhd_ddia.c *)

DDIAMode ==
  Writes({}, {}, {"PATH_CONTROL", "CNTL", "DCBALANCER_CONTROL", "PCIE_PHY_CONTROL1", "PCIE_PHY_CONTROL2",
                  "PCIE_LINK_CONTROL2", "PCIE_LINK_CONTROL3", "SOURCE_SELECT"})
DDIAPower ==
  ByPower(Writes({"ENABLE"}, {}, {"PATH_CONTROL", "BIT_DEPTH_CONTROL"}),
          Writes({}, {"ENABLE"}, {}),
          Writes({}, {"ENABLE"}, {"BIT_DEPTH_CONTROL"}))
DDIASave == {"PATH_CONTROL", "ENABLE", "CNTL", "DCBALANCER_CONTROL", "PCIE_LINK_CONTROL2", "BIT_DEPTH_CONTROL"}
DDIARestore == DDIASave
DDIALost == {"PCIE_PHY_CONTROL1", "PCIE_PHY_CONTROL2", "PCIE_LINK_CONTROL3", "SOURCE_SELECT"}

DDIA ==
  [fields |-> DDIASave \union DDIALost, switches |-> {"ENABLE"},
   saves |-> DDIASave, restores |-> DDIARestore,
   sense |-> Nothing, mode |-> DDIAMode, saving |-> Nothing, power |-> DDIAPower, touches |-> {},
   idled |-> FALSE, latched |-> FALSE,
   lit |-> {"ENABLE"}, dark |-> Dark({"ENABLE"}, {"ENABLE"}), lost |-> DDIALost]
-----------------------------------------------------------------------------
(* rhd_lvtma.c as a panel.  TARGET is the state that the power sequencer is  *)
(* to reach; what the sequencer does then is external. *)

LVDSSetBacklight == Writes({}, {}, {"BL_MOD_CNTL"})
LVDSPWRSEQInit == {"PWRSEQ_DELAY1", "PWRSEQ_DELAY2", "PWRSEQ_REF_DIV", "PWRSEQ_CNTL"}
LVDSSet ==
  Writes({"ENABLE", "PLL"}, {},
         {"CNTL", "MODE", "SOURCE_SELECT", "LVDS_DATA_CNTL", "BIT_DEPTH_CONTROL", "MACRO_CONTROL",
          "TRANSMITTER_CONTROL", "DATA_SYNCHRONIZATION"})
LVDSEnable == Writes({"TX", "TARGET"}, {}, LVDSPWRSEQInit \union LVDSSetBacklight.set)
\* Nothing to do for a panel that is off.
LVDSDisable == [Writes({}, {"TARGET", "TX"}, LVDSPWRSEQInit) EXCEPT !.unless = {"TARGET"}]
LVDSPower == ByPower(LVDSEnable, LVDSDisable, LVDSDisable)
LVDSSave ==
  {"ENABLE", "CNTL", "SOURCE_SELECT", "BIT_DEPTH_CONTROL", "DATA_SYNCHRONIZATION", "PWRSEQ_REF_DIV",
   "PWRSEQ_DELAY1", "PWRSEQ_DELAY2", "TARGET", "PWRSEQ_CNTL", "LVDS_DATA_CNTL", "MODE", "TX",
   "MACRO_CONTROL", "PLL", "TRANSMITTER_CONTROL", "BL_MOD_CNTL"}
LVDSRestore == LVDSSave

LVDS ==
  [fields |-> LVDSSave, switches |-> {"ENABLE", "PLL", "TX", "TARGET"},
   saves |-> LVDSSave, restores |-> LVDSRestore,
   sense |-> Nothing, mode |-> LVDSSet, saving |-> Nothing, power |-> LVDSPower, touches |-> {LVDSSetBacklight},
   idled |-> FALSE, latched |-> FALSE,
   lit |-> {"ENABLE", "PLL", "TX", "TARGET"}, dark |-> Dark({"TARGET"}, {"TARGET"}), lost |-> {}]
-----------------------------------------------------------------------------
(* rhd_lvtma.c as a second TMDS output *)

RS600VoltageControl == {"TEST_OUTPUT", "MACRO_CONTROL"}
RS690VoltageControl == {"TEST_OUTPUT", "MACRO_CONTROL", "TRANSMITTER_CONTROL"}
\* On the other chips TEST_OUTPUT, and from tables the macro and the levels.
TMDSBVoltageControl ==
  RS600VoltageControl \union RS690VoltageControl
    \union {"TEST_OUTPUT", "MACRO_CONTROL", "TRANSMITTER_ADJUST", "PREEMPHASIS_CONTROL"}
TMDSBSet ==
  Writes({}, {"TX"}, {"MODE", "TRANSMITTER_CONTROL", "CNTL", "BIT_DEPTH_CONTROL", "SOURCE_SELECT",
                      "COLOR_FORMAT", "FORCE_OUTPUT_CNTL", "DCBALANCER_CONTROL", "DATA_SYNCHRONIZATION"}
                     \union TMDSBVoltageControl \union HdmiSetMode)
TMDSBPower ==
  ByPower(Writes({"ENABLE", "TX", "PLL"}, {}, {"MODE", "CNTL"} \union HdmiEnable),
          Writes({}, {"TX"}, {"MODE"}),
          Writes({}, {"ENABLE", "TX", "PLL"}, {"MODE", "CNTL"} \union HdmiEnable))
TMDSBSave ==
  {"ENABLE", "CNTL", "SOURCE_SELECT", "COLOR_FORMAT", "FORCE_OUTPUT_CNTL", "BIT_DEPTH_CONTROL",
   "DCBALANCER_CONTROL", "DATA_SYNCHRONIZATION", "MODE", "TX", "MACRO_CONTROL", "PLL",
   "TRANSMITTER_CONTROL", "TEST_OUTPUT", "TRANSMITTER_ADJUST", "PREEMPHASIS_CONTROL"} \union HdmiSave
TMDSBRestore == TMDSBSave

TMDSB ==
  [fields |-> TMDSBSave, switches |-> {"ENABLE", "PLL", "TX"},
   saves |-> TMDSBSave, restores |-> TMDSBRestore,
   sense |-> Nothing, mode |-> TMDSBSet, saving |-> Nothing, power |-> TMDSBPower, touches |-> HdmiTouches,
   idled |-> FALSE, latched |-> FALSE,
   lit |-> {"ENABLE", "PLL", "TX"}, dark |-> Dark({"TX"}, {"ENABLE", "PLL", "TX"}), lost |-> {}]
-----------------------------------------------------------------------------
(* rhd_dig.c: the LVTMA of an RV620 and up, as a TMDS output and as a panel. *)

LVTMATransmitterSet ==
  {"TRANSMITTER_CONTROL", "TRANSMITTER_ADJUST", "PREEMPHASIS_CONTROL", "MACRO_CONTROL"}
LVTMATransmitterSave ==
  {"PLL", "TX", "TRANSMITTER_CONTROL", "TRANSMITTER_ADJUST", "PREEMPHASIS_CONTROL", "MACRO_CONTROL",
   "DATA_SYNCHRONIZATION"}
LVTMATransmitterRestore == LVTMATransmitterSave

LVTMA_TMDSTransmitterSet == Writes({}, {}, LVTMATransmitterSet)
LVTMA_TMDSTransmitterPower ==
  ByPower(Writes({"PLL", "TX"}, {}, {"DATA_SYNCHRONIZATION", "TRANSMITTER_CONTROL"}),
          Writes({}, {"TX"}, {}),
          Writes({}, {"TX"}, {"TRANSMITTER_CONTROL", "DATA_SYNCHRONIZATION", "TRANSMITTER_ADJUST"}))

LVTMA_TMDS ==
  [fields |-> LVTMATransmitterSave, switches |-> {"PLL", "TX"},
   saves |-> LVTMATransmitterSave, restores |-> LVTMATransmitterRestore,
   sense |-> Nothing, mode |-> LVTMA_TMDSTransmitterSet,
   saving |-> Nothing, power |-> LVTMA_TMDSTransmitterPower, touches |-> {},
   idled |-> FALSE, latched |-> FALSE,
   lit |-> {"PLL", "TX"}, dark |-> Dark({"TX"}, {"TX"}), lost |-> {}]

LVTMA_LVDSTransmitterSet == Writes({}, {}, LVTMATransmitterSet \union {"PWRSEQ_CNTL"})
LVTMA_LVDSTransmitterPower ==
  ByPower(Writes({"PLL", "TX", "TARGET"}, {},
                 {"DATA_SYNCHRONIZATION", "PWRSEQ_CNTL", "TRANSMITTER_CONTROL", "PWRSEQ_REF_DIV",
                  "PWRSEQ_DELAY1", "PWRSEQ_DELAY2"}),
          Writes({}, {"TARGET"}, {"PWRSEQ_CNTL"}),
          Writes({}, {"TARGET"}, {"PWRSEQ_CNTL", "TRANSMITTER_ADJUST", "MACRO_CONTROL"}))
LVTMA_LVDSTransmitterSave ==
  LVTMATransmitterSave \union {"TARGET", "PWRSEQ_CNTL", "PWRSEQ_REF_DIV", "PWRSEQ_DELAY1", "PWRSEQ_DELAY2"}
LVTMA_LVDSTransmitterRestore == LVTMA_LVDSTransmitterSave
\* LVDSSetBacklight of rhd_dig.c.
LVTMA_LVDSSetBacklight == Writes({}, {}, {"PWRSEQ_REF_DIV", "BL_MOD_CNTL"})

LVTMA_LVDS ==
  [fields |-> LVTMA_LVDSTransmitterSave \union {"BL_MOD_CNTL"}, switches |-> {"PLL", "TX", "TARGET"},
   saves |-> LVTMA_LVDSTransmitterSave, restores |-> LVTMA_LVDSTransmitterRestore,
   sense |-> Nothing, mode |-> LVTMA_LVDSTransmitterSet,
   saving |-> Nothing, power |-> LVTMA_LVDSTransmitterPower, touches |-> {LVTMA_LVDSSetBacklight},
   idled |-> FALSE, latched |-> FALSE,
   lit |-> {"PLL", "TX", "TARGET"}, dark |-> Dark({"TARGET"}, {"TARGET"}), lost |-> {"BL_MOD_CNTL"}]
-----------------------------------------------------------------------------
(* rhd_dig.c: a DIG encoder whose output is the one that the console has on  *)
(* it too (DigEncoders is about those where it is not). *)

DIGEncoderFormat == {"CLOCK_PATTERN", "LVDS_DATA_CNTL", "TMDS_CNTL"}   \* LVDSEncoder and TMDSEncoder
EncoderSet ==
  Writes({}, {}, {"DIG_CNTL", "LINK_STEER_CNTL", "DIFF_POST_DIV_CNTL"} \union DIGEncoderFormat)
EncoderPower ==
  LET off == Writes({}, {"ENABLE", "PCLK"}, {"SYMCLK_CNTL", "DIFF_POST_DIV_CNTL"}) IN
  ByPower(Writes({"ENABLE", "PCLK"}, {}, {"SYMCLK_CNTL"}), off, off)
\* The control of the differential clock is saved from, and restored to, its
\* address plus the offset of the encoder, which is another register for DIG2.
EncoderSave ==
  {"ENABLE", "PCLK", "DIG_CNTL", "CLOCK_PATTERN", "LVDS_DATA_CNTL", "TMDS_CNTL", "LINK_STEER_CNTL",
   "SYMCLK_CNTL"}
EncoderRestore == EncoderSave

DIGEncoder ==
  [fields |-> EncoderSave \union {"DIFF_POST_DIV_CNTL"}, switches |-> {"ENABLE", "PCLK"},
   saves |-> EncoderSave, restores |-> EncoderRestore,
   sense |-> Nothing, mode |-> EncoderSet, saving |-> Nothing, power |-> EncoderPower, touches |-> {},
   idled |-> FALSE, latched |-> FALSE,
   lit |-> {"ENABLE", "PCLK"}, dark |-> Dark({"ENABLE", "PCLK"}, {"ENABLE", "PCLK"}),
   lost |-> {"DIFF_POST_DIV_CNTL"}]

\* The HDMI block of a DIG output, as DigMode, DigPower, DigSave and DigRestore
\* use it.
DIGHdmi ==
  LET enable == Writes({}, {}, HdmiEnable \ {"CNTL"}) IN
  [fields |-> HdmiSave, switches |-> {},
   saves |-> HdmiSave, restores |-> HdmiRestore,
   sense |-> Nothing, mode |-> Writes({}, {}, HdmiSetMode), saving |-> Nothing,
   power |-> ByPower(enable, Nothing, enable), touches |-> HdmiTouches,
   idled |-> FALSE, latched |-> FALSE, lit |-> {}, dark |-> Dark({}, {}), lost |-> {}]
=============================================================================
