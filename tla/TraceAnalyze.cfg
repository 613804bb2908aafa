SPECIFICATION StatSpec
CONSTANTS
    Cnt = 4
    SignBit = 8
    MaxStamp = 4
    MaxInterval = 3
    MaxOver = 2
INVARIANTS AverageIsMeanDistance FiguresAgree ExtremesOfBuffer
\* One analysis per buffer, then the behaviour ends.
CHECK_DEADLOCK FALSE
