\* Five sources, two postings per commit, three faults anywhere.
CONSTANTS
    r1 = r1  r2 = r2  a1 = a1  h1 = h1  h2 = h2  h3 = h3  n1 = n1
    Posting = {r1, r2, a1, h1, h2, h3, n1}
    Bare = {h1}
    Offers <- MCOffers
    Configured = {"naukri"}
    PageSize = 2
    HackerLimit = 2
    CommitEvery = 2
    MaxFaults = 3
SPECIFICATION Spec
INVARIANTS TypeOK RecordsTruthful OnlyLastRecordsMissing ReturnedRunComplete
PROPERTIES OffersGetStored
