SPECIFICATION Spec
CONSTANTS
    InputBufferSize = 6
    Quantum = 2
    FFTSize <- MCFFTSize
    Signal <- MCSignal
    Source <- MCSource
    LinearToDecibels <- MCLinearToDecibels
    MinDecibels = 0
    DecibelRange = 9
    Unit = 4
    FudgeFactor = 99
    Width = 4
    MaxSize = 13
    MaxSamples = 10
INVARIANTS
    ReadsTheWindow
    OrderIsKept
    MaximumIsDeaf
    NeverZero
    PixelsInside
