SPECIFICATION ConfigSpec
CONSTANTS
    ConfigKeys = {"a"}
    KeysIn <- SameKey
    MaxEdits = 2
INVARIANTS LaterLoadOverrides
CHECK_DEADLOCK FALSE
