SPECIFICATION ShellSpec
CONSTANTS
  RegMod = 16
  Files <- MCFiles
  Inputs <- MCInputs
  Width = 12
  Cap = 1
  NumPrio = 8
  ByteMod = 256
  IdMod = 16
  NumBits = 2
  RuleLines <- MCRuleLines
  IoLines <- MCIoLines
  Garbage <- MCGarbage
  MaxAdds = 2
PROPERTY
  HelpLineStandsAlone
