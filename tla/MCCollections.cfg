CONSTANTS
  IntMax = 5
  ListLimit = 4
  ParseMax = 15
  UnsignedMax = 31
  MaxBytes = 3
  MaxOutput = 4
  Kinds = {"list", "dict", "buffer", "string", "decoder"}
  Values = {1, 258}
  Hash <- MCHash
  Bounds <- MCBounds
  Steps <- MCSteps
  InitialTexts <- MCInitialTexts
  ArgTexts <- MCArgTexts
  OutputBytes <- MCOutputBytes
SPECIFICATION Spec
INVARIANTS
  ContentExact
  DictExact
  DecoderExact
CHECK_DEADLOCK FALSE
