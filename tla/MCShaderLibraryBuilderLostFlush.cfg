SPECIFICATION Spec
CONSTANTS
  None = None
  NameXSH <- MCNameXSH
  MalformedNames = {""}
  DottedNames = {}
  StartShaderRegister = 1000
  MaxSetBindings = 2
  MaxPipelineBindings = 2
  MaxStaticSamplers = 1
  MaxShaderSourceFiles = 3
  Documents <- MCDocuments
  SourceFiles = {"a", "b", "h"}
  Texts <- MCTexts
  MaxEvents = 2
INVARIANT TracksWholeLibrary
CHECK_DEADLOCK FALSE
