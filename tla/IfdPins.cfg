\* Two pins of one value.
SPECIFICATION Spec
CONSTANTS
    Ifds <- SmallIfds
    PinLists <- SmallPins
    Preambles <- SmallPreambles
    Sizes <- Widths
INVARIANTS PinsAreHonoured
CHECK_DEADLOCK FALSE
