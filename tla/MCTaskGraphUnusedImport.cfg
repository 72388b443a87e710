SPECIFICATION Spec
CONSTANTS
  BufferUses <- MCBufferUses
  TextureUses <- MCTextureUses
  ImportLayouts <- MCImportLayouts
  MaxResources = 1
  MaxTasks = 1
  MaxDependencies = 2
INVARIANTS BarrierNamesAnAccess
CHECK_DEADLOCK FALSE
