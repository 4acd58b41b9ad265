\* One session in the backend, one fault.
CONSTANTS
    python = python  remote = remote  senior = senior
    e1 = e1  e2 = e2  e3 = e3
    api = api
    Key <- MCKey
    Event <- MCEvent
    Keys <- MCKeys
    RegionKey <- MCRegionKey
    Skilled <- MCSkilled
    Writer = {api}
    ApiWriter = {api}
    Hosted = {api}
    BatchSize = 2
    MaxFaults = 1
SPECIFICATION Spec
PROPERTY IngestionAtomic
\* The instance rests when its three rows are used up.
CHECK_DEADLOCK FALSE
