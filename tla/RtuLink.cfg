\* messages may be cut after their first byte and in their body
CONSTANTS
    Cuts = {1, 9}
    MaxBeats = 2
    MaxCommands = 1
SPECIFICATION Spec
INVARIANTS
    TypeOK
    NothingLost
PROPERTIES
    WholeMessages
    
    AssertionsHold
    CommandAcknowledged
    SessionFollows
    DeviceFollows
\* in the end both sides may be gone
CHECK_DEADLOCK FALSE
