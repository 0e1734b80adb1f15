SPECIFICATION Spec
CONSTANTS
    Nil = Nil
    Alphabet <- MCAlphabet
    Limit <- MCLimit
    Spaced <- MCSpaced
    Digest <- MCDigest
    Inspections <- MCInspections
    Observations <- MCObservations
    Edits <- MCEdits
    Requested <- MCRequested
    Attempts <- MCAttempts
    Tampered <- MCTampered
    Locator = "/work/bundle.json"
    Runtime = "atr_1"
    MaxChanges = 1
    MaxAdopted = 1
INVARIANTS
    DraftsBuild
    StoredBundleIsCompiled
    PlansAreConsistent
    EffectiveOptions
    AdvertisedIsAdmitted
    DocumentsAreDescribed
CHECK_DEADLOCK FALSE
