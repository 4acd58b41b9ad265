\* A request and a pipeline run, one batch each.
CONSTANTS
    acme = acme  Acme = Acme  rust = rust  wasm = wasm
    dev = dev  Dev = Dev  ops = ops  bad = bad
    api = api  run = run
    Session = {api, run}
    ApiSession = {api}
    Posting <- MCPosting
    Fingerprint <- MCFingerprint
    Company <- MCCompany
    Tokens <- MCTokens
    Skilled <- MCSkilled
    Broken <- MCBroken
    CommitEvery = 2
    Feed <- MCFeed
    MaxBatches = 2
SPECIFICATION Spec
INVARIANT NoDuplicateFingerprints
\* The instance rests when its batches are used up.
CHECK_DEADLOCK FALSE
