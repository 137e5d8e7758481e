\* Sound deployments on both backends, detectors that fail open, a merged detector.
CONSTANTS
    Session = {s1, s2}
    t1 = t1
    t2 = t2
    both = both
    named = named
    coded = coded
    Text = {t1, t2}
    Entity = {both, named, coded}
    Detector = {"regex", "llm"}
    EType = {"EMAIL", "PERSON"}
    Absent = Absent
    None = None
    Corrupt = Corrupt
    Holds <- MCHolds
    Reports <- MCReports
    Cached = {"llm"}
    Worlds <- MCWorlds
SYMMETRY MCSymmetry
SPECIFICATION Spec
INVARIANTS PipelineSlotsTruthful DetectorSlotsTruthful NothingMissed SlotsNeverInvent FailOpenContained
