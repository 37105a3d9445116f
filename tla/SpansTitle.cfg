CONSTANTS
  MAX_LINK_LABEL_LENGTH = 3
  MaxParens = 2
  MaxPeriods = 1
  MAXBACKTICKS = 3
  Paragraphs <- Refs
SPECIFICATION Spec
INVARIANT TitleConsumed
