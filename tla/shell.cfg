SPECIFICATION ShellSpec
CONSTANTS
  RegMod = 16
  Files <- MCFiles
  Inputs <- MCInputs
  Width = 12
  Cap = 2
  NumPrio = 8
  ByteMod = 256
  IdMod = 16
  NumBits = 2
  RuleLines <- MCRuleLines
  IoLines <- MCIoLines
  Garbage <- MCGarbage
  MaxAdds = 3
INVARIANTS
  SettingsAreTheirs
  CallsMeetTheirCoil
  RulesMakeSense
PROPERTIES
  LinesStandAlone
  DelAllEmpties
