\* Every deployment the documentation calls correct, two completions.
CONSTANTS
    Choice = {0, 1}
    Charset <- MCCharset
    Reply <- MCReply
    Deployments <- MCDeployments
SPECIFICATION Spec
INVARIANTS StreamedEqualsWhole NoSurrogateShown WarmedIsFinal
PROPERTIES CursorMonotonic
CHECK_DEADLOCK FALSE
