SPECIFICATION Spec
CONSTANTS
    y1 = y1
    y2 = y2
    s1 = s1
    s2 = s2
    e1 = e1
    e2 = e2
    c1 = c1
    f1 = f1
    f2 = f2
    f3 = f3
    Years = {y1, y2}
    Limit = 2
    MaxAttempts = 1
    ItemKeys <- MCKeys
    Outputs <- QuietOutputs
    Faults = {}
INVARIANT
    EveryAttemptIsRecorded
