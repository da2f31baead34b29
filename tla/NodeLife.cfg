\* A primed refresher, one that is not, and the reporter, from start to exit.
CONSTANTS
    Configured = {"topology", "jwks", "usage"}
    Capacity = 2  BatchMax = 2
    MaxEvents = 3  MaxOpen = 1
SPECIFICATION PromptSpec
INVARIANTS Accounted PrimedBeforeListening
PROPERTIES BatchLeaves ShutdownCompletes
