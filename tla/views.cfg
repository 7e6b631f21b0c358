SPECIFICATION Spec
CONSTANTS
  ByteBits = 3
  WordBits = 15
  Widths = {2, 3}
  Shapes <- TestShapes
  Slices <- TestSlices
  Spare <- TestSpare
  MaxBits = 24
INVARIANT ViewTypeOK
INVARIANT ElementsInside
INVARIANT ElementsApart
INVARIANT ElementsShown
INVARIANT KernelInside
INVARIANT KernelReads
