SPECIFICATION EncoderSpec
CONSTANTS
    Qualities = {floor, ceiling}
    Addresses = {x, y}
    Modes = {small, large}
    None = None
    MaxModes = 3
INVARIANTS HandlesAreLive NothingOutlivesItsBase QualityAsAsked EncodesTheFramebuffer
