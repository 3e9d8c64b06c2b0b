SPECIFICATION FairSpec
CONSTANTS
    Agents = {"chatbot", "rag"}
    First = "chatbot"
    None = None
    MaxKept = 1
    MaxMounts = 2
    MaxChanges = 2
    MaxFrames = 2
INVARIANTS
    ShownIsPicked
    OneReader
PROPERTIES
    StatusSettles
CHECK_DEADLOCK FALSE
