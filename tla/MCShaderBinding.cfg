CONSTANTS
  None = None
  NameXSH <- MCNameXSH
  MalformedNames = {}
  DottedNames = {}
  StartShaderRegister = 2
  MaxSetBindings = 3
  MaxPipelineBindings = 2
  MaxStaticSamplers = 1
  Libraries <- MCLibraries
  Played = {1}
  Views = {u}
  Buffers = {b}
  Allocators = {0}
  BindlessSize = 1
  ChunkSize = 4
  ResetCounterModulus = 2
  MaxSets = 2
  MaxArguments = 2
  MaxDraws = 1
  MaxResets = 2
  MaxPipelines = 1
SPECIFICATION Spec
INVARIANTS TypeOK RewritesToReference SetsDisjoint StaleSetsRefused ArgumentsReachShader
PROPERTY RewriteEnds
CHECK_DEADLOCK FALSE
