SPECIFICATION Spec
CONSTANTS
    Chats = {c1, c2}
    MaxOrphans = 2
    MaxMessages = 2
    HungChats = {}
SYMMETRY ChatSymmetry
INVARIANT OneOwnerPerSession
\* The relay exits, and the events are bounded.
CHECK_DEADLOCK FALSE
