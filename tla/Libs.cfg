SPECIFICATION Spec
CONSTANTS
  MemSize = 4
  Bytes = {0, 1, 2}
  Texts <- MCTexts
  TextLength = 4
  Bases = {0, 8, 10, 16, 36}
  IntBits = 4
  LongBits = 7
  NullPointer = NullPointer
  Unprintable = {"BEL"}
  Messages <- MCMessages
  Sizes = {0, 1, 5}
  PanicMessages <- MCPanicMessages
  KernelSymbols <- MCKernelSymbols
  BUFSIZE = 3
  Keys = {"a", "b", "BS", "LF", "ESC"}
  MaxTyped = 5
  Prompts <- MCPrompts
INVARIANTS
  MemoryAsDocumented
  ResultAsDocumented
  TextRendered
  BufferBounded
  LineAsEdited
  ScreenShowsLine
