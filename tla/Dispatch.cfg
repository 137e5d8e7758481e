\* Two requests, two texts, two permits and one: cancellation in every state.
CONSTANTS
    Request = {r1, r2}
    Text = {t1, t2}
    Blob = blob
    Detector = {"llm", "gliner"}
    Merged = {"gliner"}
    Gated = {"llm", "gliner"}
    FailClosed = {"llm"}
    Permits <- MCPermits
SYMMETRY MCSymmetry
SPECIFICATION Spec
INVARIANTS PermitsConserved InflightExact NoIdlePermit NothingSkipped BlockedForCause NoCallOutlivesRequest
