------------------------------- MODULE MCScreen -------------------------------
(***************************************************************************)
(* The screen and the console for TLC: the handlers, with the parts of the  *)
(* card as units, each part by itself, between consoles of two modes, and   *)
(* the interpreter of the BIOS's tables, which writes the registers of some *)
(* of them.  They share no state here, so each is explored by itself.      *)
(***************************************************************************)
EXTENDS ScreenLifecycle, SavedRegisters, OutputRegisters, CrtcRegisters, CardRegisters, AtomRegisters, MCInterpreter

VARIABLE machine  \* which of them is explored

AllUnits ==
  [DAC |-> DAC, DACRV620 |-> DACRV620, TMDSA |-> TMDSA, DDIA |-> DDIA, LVDS |-> LVDS, TMDSB |-> TMDSB,
   LVTMA_TMDS |-> LVTMA_TMDS, LVTMA_LVDS |-> LVTMA_LVDS, DIGEncoder |-> DIGEncoder, DIGHdmi |-> DIGHdmi,
   CRTC |-> CRTC, LUT |-> LUT, Cursor |-> Cursor, Audio |-> Audio,
   RV515MC |-> RV515MC, R500MC |-> R500MC, RS600MC |-> RS600MC, RS690MC |-> RS690MC,
   R600MC |-> R600MC, R700MC |-> R700MC, VGA |-> VGA, BIOSScratch |-> BIOSScratch,
   AtomCRTC |-> AtomCRTC, AtomOutput |-> AtomOutput, AtomDigOutput |-> AtomDigOutput, AtomPLL |-> AtomPLL]

TwoModes == {"text", "graphics"}

\* What the proof that the console gets its registers back asks of a table.
ASSUME TablesForgetNothing == NothingForgotten

\* What the proof about the switches asks of it.
ASSUME TablesSwitch == SwitchesFollow

\* What is not explored is in one state.
ConsoleInit ==
  /\ machine \in {"handlers", "parts", "interpreter"}
  /\ LifecycleInit
  /\ machine # "handlers" => hasVGA /\ isPCIE
  /\ Init
  /\ machine # "parts" => unit = "DAC" /\ regs = CHOOSE r \in ConsoleRegisters(DAC) : TRUE
  /\ InterpreterInit /\ FieldsAlone
  /\ machine # "interpreter" => image[1] = "Calls" /\ ~recording /\ ~fbScratch /\ params[1] = {}

ConsoleNext ==
  \/ machine = "handlers" /\ LifecycleNext /\ UNCHANGED <<vars, interpreterVars>>
  \/ machine = "parts" /\ Next /\ UNCHANGED <<lifecycleVars, interpreterVars>>
  \/ machine = "interpreter" /\ InterpreterNext /\ UNCHANGED <<vars, lifecycleVars>>

ConsoleSpec == ConsoleInit /\ [][ConsoleNext /\ UNCHANGED machine]_<<machine, vars, lifecycleVars, interpreterVars>>
===============================================================================
