\* A request and two pipeline runs, three batches of two or three postings.
CONSTANTS
    acme = acme  Acme = Acme  rust = rust  wasm = wasm
    dev = dev  Dev = Dev  ops = ops  bad = bad
    api = api  prime = prime  run = run
    Session = {api, prime, run}
    ApiSession = {api}
    Posting <- MCPosting
    Fingerprint <- MCFingerprint
    Company <- MCCompany
    Tokens <- MCTokens
    Skilled <- MCSkilled
    Broken <- MCBroken
    CommitEvery = 2
    Feed <- MCFeed
    MaxBatches = 3
SPECIFICATION FairSpec
INVARIANTS TypeOK IngestInv DuplicatesNeedOverlap OneCopyPerSession EmployersConsistent CountsBacked
PROPERTY BatchesEnd
\* The instance rests when its batches are used up.
CHECK_DEADLOCK FALSE
