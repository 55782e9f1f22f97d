\* A buffer on the stack of five characters, chains of three links.
CONSTANTS
  Width <- WidthOfTypes
  TypeFormat <- FormatOfTypes
  Formats <- FormatsUsed
  Mantissas <- MantissasUsed
  Exponents <- ExponentsUsed
  StackLength = 5
  Precision = 2
  MaxLinks = 3
SPECIFICATION Spec
INVARIANTS
  ReadsBack
  Aligned
CHECK_DEADLOCK FALSE
