\* Texts of up to three characters, arrays of up to six elements, the words at the
\* limits of the conversions.
CONSTANTS
  MAXSTR = 12
  StringSize = 20
  Uninitialised <- SomeStrings
  Letters = {1, 2}
  MaxText = 3
  Limits <- SomeLimits
  MaxArray = 6
  Keys = {1, 2, 3}
  Words <- SomeWords
  Widths <- SomeWidths
  MaxInput = 4
SPECIFICATION Spec
INVARIANTS StringsRight SortsRight PrintsRight ConversionsRight ReadsBack
PROPERTY SortReturns
