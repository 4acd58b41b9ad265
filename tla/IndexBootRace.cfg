\* The scheduler ingests while the backend starts; nothing fails.
CONSTANTS
    python = python  remote = remote  senior = senior
    e1 = e1  e2 = e2  e3 = e3
    sched = sched
    Key <- MCKey
    Event <- MCEvent
    Keys <- MCKeys
    RegionKey <- MCRegionKey
    Skilled <- MCSkilled
    Writer = {sched}
    ApiWriter = {}
    Hosted = {}
    BatchSize = 2
    MaxFaults = 0
SPECIFICATION Spec
INVARIANT UpMeansIndexed
\* The instance rests when its three rows are used up.
CHECK_DEADLOCK FALSE
