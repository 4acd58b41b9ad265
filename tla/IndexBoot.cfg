\* No scheduler: the sessions live in the backend; two faults anywhere.
CONSTANTS
    python = python  remote = remote  senior = senior
    e1 = e1  e2 = e2  e3 = e3
    api = api  prime = prime
    Key <- MCKey
    Event <- MCEvent
    Keys <- MCKeys
    RegionKey <- MCRegionKey
    Skilled <- MCSkilled
    Writer = {api, prime}
    ApiWriter = {api}
    Hosted = {api, prime}
    BatchSize = 2
    MaxFaults = 2
SPECIFICATION FairSpec
INVARIANT UpMeansIndexed
PROPERTIES OwedIsPublished BackendComesUp
\* The instance rests when its three rows are used up.
CHECK_DEADLOCK FALSE
