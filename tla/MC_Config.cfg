CONSTANTS
    Lines <- MCLines
    MaxLines = 3
SPECIFICATION Spec
CHECK_DEADLOCK FALSE
INVARIANT TypeOK
INVARIANT ConfigWithinRanges
