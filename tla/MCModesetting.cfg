SPECIFICATION ModesettingSpec
CONSTANTS
  Cards = {{"UNIPHYA", "LVTMA"}, {"UNIPHYA", "UNIPHYB"}, {"UNIPHYA", "UNIPHYB", "LVTMA"}}
  MaxCalls = 3
INVARIANTS ClocksRun ConsoleClocksBack LitOutputsDriven ConsoleLinksBack
CHECK_DEADLOCK FALSE
