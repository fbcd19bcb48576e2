\* File statements, conditions and the verbs that move characters, each against
\* what COBOL makes of them.
CONSTANTS
  Records <- MCRecords
  Chars = {0, 1, 2}
  RecLen = 2
  KeyLen = 1
  MaxRrn = 1
  MaxLines = 3
  None = None
  Atoms <- MCConditions
  Alone <- MCAlone
  Envs <- MCEnvs
  MaxTokens = 7
  Layouts <- MCLayouts
  Texts <- MCTexts
  Input <- MCInput
  MaxTexts = 2
SPECIFICATION MCSpec
INVARIANTS
  IndexIsDurable
  RelativeImageIsStore
  ScansMissNothing
  ReadsBackWhatWasWritten
  DecidesAlike
  HoldsTheSameText
PROPERTIES
  KeyedFileSpec
CHECK_DEADLOCK FALSE
