\* Local detectors, privacy filter spans, and the two services apart and merged.
CONSTANTS
    Worlds <- MCWorlds
    Raws <- MCRaws
    Replies <- MCReplies
SPECIFICATION Spec
INVARIANTS ClaimsSettled ParagraphsRespected ReportedIsFound OverridesHarmless KeysTellRequestsApart
CHECK_DEADLOCK FALSE
