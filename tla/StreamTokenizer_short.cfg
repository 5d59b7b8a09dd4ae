SPECIFICATION Spec
CONSTANTS
  Letters = {1, 2}
  Token = 0
  MaxSizes = {0}
  MaxChunk = 3
  MaxFed = 4
INVARIANT Lossless
