CONSTANTS
  Texts = {"a", "b"}
  Forms = {"lf", "crlf"}
  Unreadable = {"b"}
  PlainFiles = {"report"}
  KeyedFiles = {"master"}
  ExitCodes = {1}
  Missing = Missing
  Empty <- MCEmpty
  Programs <- MCPrograms
  Contracts <- MCContracts
  SourceVanishes = TRUE
  Images = {"good", "other"}
  RepoDigests = {"good", "other"}
  Version <- MCVersion
  DeclaredVersion = "3.2"
  Pin = "none"
  BuildIdentity = "good"
  RuntimeDigest = "good"
  FirstTag = "good"
  NoImage = "none"
  ProgramExits = {0, 125}
  MaxRetags = 1
SPECIFICATION MCSpec
INVARIANTS VerifiedIsEquivalent EffectsAreNeverCertified FailedIsJustified ComparedIsWhole VerifiedImagesRan
PROPERTY OracleContainerEnds
CHECK_DEADLOCK FALSE
