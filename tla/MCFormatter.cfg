CONSTANTS
  Alphabets <- SomeAlphabets
  Files <- SomeFiles
  Bases <- SomeBases
  Gaps <- SomeGaps
SPECIFICATION Spec
INVARIANTS LexemesStandAlone WritingKeepsTokens SecondPassSettles LinesAreIndented
CHECK_DEADLOCK FALSE
