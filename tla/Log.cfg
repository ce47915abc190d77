SPECIFICATION LogSpec
CONSTANTS
    Loggers = {"a", "b"}
    Cap = 3
    MaxLog = 9
INVARIANTS Accounted TellsBeforeItSkips
PROPERTIES EverythingOut
