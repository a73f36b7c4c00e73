SPECIFICATION FormatsSpec
CONSTANTS
  Base = 8
  Characters <- SomeCharacters
  Bodies <- SomeBodies
  RowIds <- SomeIds
  MaxOps = 2
  MaxCut <- SomeCut
  Caches <- SomeCaches
  MaxLength = 5
  Words <- SomeWords
  Letters <- SomeLetters
  Sources <- SomeSources
INVARIANTS
  RowsSurvive PointersExact SixbExact LexedExactly
  ParsesExactly NothingSkipped LoadsExactly HashesAgree
PROPERTIES
  ReadOrder CompilerEnds
