\* Two payloads, two revisions, two verdicts, one sweep.
SPECIFICATION AllSpec
CONSTANTS
    c1 = c1
    c2 = c2
    w1 = w1
    Contents = {c1, c2}
    None = None
    NoContent = NoContent
    Sweepers = {w1}
    MaxAttempts = 1
    JudgeInTime = TRUE
    MaxRev = 2
    MaxRows = 2
    MaxGen = 1
    MaxOpen = 1
SYMMETRY Symmetry
CHECK_DEADLOCK FALSE
INVARIANTS OnlyVettedIsPublic OneJudge DraftSurvives
PROPERTY VerdictIsFinal
