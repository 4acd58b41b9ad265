\* All three kinds of session, three faults anywhere.
CONSTANTS
    python = python  remote = remote  senior = senior
    e1 = e1  e2 = e2  e3 = e3
    api = api  prime = prime  sched = sched
    Key <- MCKey
    Event <- MCEvent
    Keys <- MCKeys
    RegionKey <- MCRegionKey
    Skilled <- MCSkilled
    Writer = {api, prime, sched}
    ApiWriter = {api}
    Hosted = {api, prime}
    BatchSize = 2
    MaxFaults = 3
SPECIFICATION Spec
INVARIANTS TypeOK IndexInv IndexedRowsCommitted FiltersExact RowsNumberedOnce
PROPERTIES EntriesStable IndexesPostings
\* The instance rests when its three rows are used up.
CHECK_DEADLOCK FALSE
