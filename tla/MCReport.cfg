SPECIFICATION Spec
CONSTANTS
    fine = fine
    broken = broken
    w1 = w1
    w2 = w2
    w3 = w3
    Texts = {fine, broken}
    Flawed = {broken}
    NoText = NoText
    Null = Null
    Durations = {1000, Null}
    SnrDbs = {2200, 400}
    WerNoise = {0}
    CorrectionCounts = {0, 3}
    FluencyScores = {9000, 4000}
    Workers = {w1, w2, w3}
    NoStage = NoStage
    MaxRetries = 1
    MaxGiveUps = 0
SYMMETRY Alike
CHECK_DEADLOCK FALSE
INVARIANTS
    ReportShowsTheSession
