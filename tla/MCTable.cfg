SPECIFICATION Spec
CONSTANTS
    Lines <- MCLines
    MaxLines = 5
    MaxParagraph = 8
    Options <- MCOptions
    UINT16_MAX = 4
    MAX_AUTOCOMPLETED_CELLS = 1
INVARIANTS RowsFull AutocompletedExact SpanExact RoundTrip
CHECK_DEADLOCK FALSE
