SPECIFICATION Spec
CONSTANTS
  BufferUses <- MCBufferUses
  TextureUses <- MCTextureUses
  ImportLayouts <- MCImportLayouts
  MaxResources = 2
  MaxTasks = 3
  MaxDependencies = 4
INVARIANTS TypeOK AccessesOrdered LayoutsAgree TransitionsSafe ImportsHandedBack UsedFramesEmit BarrierPoolSuffices
CHECK_DEADLOCK FALSE
