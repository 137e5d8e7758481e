\* Every call returns or raises: every request is answered, every waiter served.
CONSTANTS
    Request = {r1, r2}
    Text = {t1, t2}
    Blob = blob
    Detector = {"llm"}
    Merged = {"llm"}
    Gated = {"llm"}
    FailClosed = {"llm"}
    Permits <- MCPermits
SPECIFICATION FairSpec
PROPERTIES EveryRequestAnswered EveryWaiterServed
