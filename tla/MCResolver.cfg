SPECIFICATION Spec
CONSTANTS
    UDP_RX = 3
    MaxQuestions = 3
    MaxSends = 2
INVARIANT NoneIsTimeout
CHECK_DEADLOCK FALSE
