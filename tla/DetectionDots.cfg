\* A merged-mode reply that calls a full stop a person.
CONSTANTS
    Worlds <- MCDotWorlds
    Raws <- MCRaws
    Replies <- MCDotReplies
SPECIFICATION Spec
INVARIANTS NothingEmptyFound
CHECK_DEADLOCK FALSE
