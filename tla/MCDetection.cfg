CONSTANTS
  w1 = w1
  w2 = w2
  ToneSets <- SomeToneSets
  Windows <- SomeWindows
  Full = 3
  WindowMS = 2
  MaxWindows = 6
  Parts = 60
  Words = {w1, w2}
  Keywords <- SomeKeywords
  MaxTokens = 6
  MaxEntries = 2
  Blank = Blank
SPECIFICATION DetectionSpec
INVARIANTS
  MatchIsReal
  CleanPatternsMatch
  ContextDecides
CHECK_DEADLOCK FALSE
