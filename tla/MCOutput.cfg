CONSTANTS
  MAX_INDENT = 4
  Corpora <- MCCorpora
SPECIFICATION Spec
INVARIANTS WellFormed FootnotesLinked LettersWritten
PROPERTY LinesPrefixed
CHECK_DEADLOCK FALSE
