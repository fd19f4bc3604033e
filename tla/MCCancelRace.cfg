CONSTANTS
    j1 = j1
    j2 = j2
    a = a
    b = b
    w1 = w1
    w2 = w2
    q = q
    s1 = s1
    s2 = s2
    Jobs = {j1}
    Stages = {a}
    STAGE_DAG <- MCDag
    MAX_RETRIES_BY_STAGE <- MCRetries
    Priority <- MCPriority
    Workers = {w1}
    NoWorker = NoWorker
    Streams = {q}
    STAGE_TO_STREAM <- MCStream
    Serves <- MCServes
    Schedulers = {s1}
    NoTask = NoTask
    ReadyLimit = 100
    MaxCancels = 1
    FaultKinds = {}
    MaxFaults = 0
SPECIFICATION Spec
PROPERTIES
    FinalJobIsFinal
