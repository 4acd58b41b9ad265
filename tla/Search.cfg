\* Two searches at a time, four requests, two postings, one fault.
CONSTANTS
    Python = Python  python = python  go = go  senior = senior  us = us
    remote = remote  unknown = unknown
    dev = dev  lead = lead
    one = one  two = two
    Event = {dev, lead}
    Value <- MCValue
    Lower <- MCLower
    Tags <- MCTags
    Unknown = unknown
    Region = {remote}
    Request <- MCRequest
    Searcher = {one, two}
    ByteBits = 3
    MaxFaults = 1
    MaxScan = 8
SPECIFICATION Spec
SYMMETRY Symmetric
INVARIANTS TypeOK UndisturbedAnswersMatch AnswerOfOneSearch UndisturbedSearchComplete  ScanMeetsLoop
