# Verification project for atr (atsura)

`atr` compiles a user's tailoring of a command line tool into a digest-bound bundle, lets
the user adopt that bundle, runs the tool through it, and installs small executable shims
that do the same under the tool's own name. This directory holds TLA+ models of the parts
of the program whose order of steps, failures, interleavings and case distinctions decide
whether it is correct, the TLC runs that check them on small instances, and TLAPS proofs of
the most important results for every instance.

## The system

The pipeline is: inspect a source tool (and a processor) → write a specification → build a
bundle → adopt it (`bundle trust`) → preview it, run the tool through it (`bundle execute`),
or render or install a wrapper (`wrapper render`, `wrapper install`) that calls
`wrapper run`. Everything runs in short-lived processes of one user; what they share is
files. No daemon, no goroutine of the program's own outlives a call, so concurrency is
between processes and, inside a call, between a child program, its deadline and the
caller's cancellation.

| component | state it keeps | operations | what is hard | what makes it correct | modules |
|---|---|---|---|---|---|
| wrapper shim store (`infra/shimstore`) and commands (`app/wrappershimcmd`) | `bin/`, `records/`, `.staging/`, an advisory lock | Install, Status, Remove | several processes, a crash between any two system calls, I/O errors, user edits | links are owned by whole records, a definite failure changed nothing, nothing foreign is touched, answers are true | `ShimStore`, `ShimLifecycle`, `ShimRefinement`, `WrapperCommand` |
| process runners (`infra/sourceexec`, `infra/processorexec`) | one child process, an isolated root | Run, RunBound | exit, deadline, cancellation and full buffers racing; swapped executables; cleanup that fails | faults say whether the program started; a stopped program is no result | `ProcessRunner` |
| inspection (`app/sourceinspect`, `app/processorinspect`, three adapters) | none | Inspect | the executable changes between probes | evidence is of one image | `Inspection` |
| plan execution (`app/planapply`, both façades) | the bundle, the identities, two attempts | Apply | files replaced between checks, failures before and after a start | only what was adopted starts, a retry means nothing started, no unprocessed output in place of a failed one | `PlanApply`, `ApplyContract`, `ApplyRefinement` |
| processor admission (`infra/gotestjson`, `app/processorcompat`) | per-test states | Analyze; finite tuples | event orders | a summary stands for a passing run only | `TestEvents`, `Optimizer`, `SourceRuntime` |
| trust store, bundle authority, mutation boundary (`infra/trustfile`, `app/bundleauthority`, `app/execution`) | receipts, a lock file, temporary files | Add, Inspect, Trust, Status | lost updates, a lock that outlives its holder, rename and sync, power loss, prompts | no adoption is lost, adopted means stored, refusals changed nothing | `TrustStore` |
| catalog, specification, bundle and plan (`domain/sourcecatalog`, `tailoringbundle`, `tailoringplan`, `tailoring`) | none | Validate, Compile, Resolve, Build | two readings of one argument vector, many cases | a plan runs what the specification says | `SourceCatalog`, `OutputPlan`, `TailoringBundle`, `TailoringPlan` |
| binding and rendered wrapper (`domain/wrapperbinding`, `infra/posixwrapper`) | none | New, Render | a wrapper loaded in a shell outlives what it was made from | the help tells of what is admitted | `WrapperBinding` |
| runtime compatibility (`app/runtimecompat`, `infra/githubcli`, `infra/gocli`) | none | VerifySurface, VerifyRuntime | admission of a surface and of each plan, apart | what a surface passes, its plans pass | `SourceRuntime` |
| authoring workflow (`app/specinit`, `bundlebuild`, `planpreview`, `wrapperrender`, loaders) | the user's files | spec init, validate, build, preview, render | files edited and programs replaced between commands | commands that judge the same evidence agree | `Tailoring`, `TailoringDocuments`, `Documents` |
| command line (`cli`) | none | every command | 22 contracts, faults of every service, argument forwarding | published failures, schemas and usage are what happens | `CommandErrors`, `CommandContract`, `CommandCatalog`, `ServiceFaults`, `CommandLine`, `Documents` |
| authentication configuration (`infra/authconfigfile`, `app/authn`) | one settings file | Save, Load, Status | writers without a lock, three looks at one name | a load returns what stood there, losers learn it | `AuthConfig` |
| authentication gate (`app/authn/gate.go`), pagination (`app/pagination`) | none | Invoke, Drain | changing requirements, expiry, cursor loops, budgets | one authorized action; everything or nothing | `AuthGate`, `PageDrain` |

`PROJECT.json` names the files of every component, the lines each definition translates, and
every hazard at the line where it bites.

How they interact: `bundleauthority.Trust` and the shim commands call their stores inside
the mutation boundary; `planapply.Apply` asks the trust store, identifies the executables
and calls the source runner and, for optimizer bundles, the processor runner; an inspection
calls the same runner once per probe; the command line calls one service per invocation and
translates what it returns. Processes meet in the receipt file, the shim directories, the
user's catalogs, specifications and bundles, and the executables, all of which the user may
also change.

## Modules

The modules form five chains; within a chain each extends or instantiates the one before.

**Shim store.** `ShimStore`: each process has a program counter, and one action is one
mutating system call with the checks before it. `Advance` is the process's own step, `Fail`
a system call that returns an error, `Crash` forgets its local state and releases the flock,
`User` the edits of the user. `ShimLifecycle` is the promise: an artifact is absent,
inactive or active; `ShimRefinement` maps the directories to it. `WrapperCommand` is what
`wrapper install`, `status` and `remove` make of the store's answers, including the checks
of the returned records, which run after the mutation.

**Processes.** `ProcessRunner`: one attempt of either adapter (`Role`). The executable is an
image that the user may replace (`Replace`), and a fingerprint is the image seen; the order
of `Stopped`, `Changed` and `Ended` is the order of the checks in the code. `Inspection`
extends it with the three adapters: three or four unbound probes, or one of the official
artifact, and the comparison of the identities they report. `TestEvents` is the analyzer of
`go test -json` as a function over sequences of events; `Optimizer` puts it in front of the
processor runner. `PlanApply` instantiates the runner twice, as source and as processor,
under the gates of `planapply.Service.Apply`; `ApplyContract` is what its caller may rely
on, and `ApplyRefinement` maps the application to it.

**Trust.** `TrustStore`: `bundleauthority.Trust` and `Status` over `trustfile.Add` and
`Inspect`, one action per system call that other processes can observe. What a power loss
may leave (`disk`) lags behind what processes see until a sync.

**Tailoring.** `SourceCatalog`, `OutputPlan`, `TailoringBundle`, `TailoringPlan`,
`WrapperBinding` and `SourceRuntime` are the pure packages as operators, in the order the
packages import one another. An argument is a word, a long option with or without a value, a
short option or `--`; a digest is an injective constructor, and `NoDigest` what an invalid
document has instead. What a file can decode into is a set of records (`CommandType`,
`EntryType`, ...), in which a list that the code asks about may be `Nil`.
`Tailoring` is the state machine over them: the user's files, the programs and their
versions, the adopted digests, the loaded wrapper. Commands that write are actions; commands
that only read (`Previewed`, `Admitted`) are operators that the invariants apply in every
state. `Documents` gives the JSON shape of the Go types (from their tags) and the schemas the
command line publishes for them; `TailoringDocuments` holds one against the other for what
every command of the workflow writes. It stands apart because `Conforms` is recursive, and a
module that reaches a recursive operator cannot be proved about.

**Command line.** `CommandErrors` and `CommandCatalog` are the shipped declarations,
`CommandContract` is `Catalog.Validate`, `ServiceFaults` the failures of every service in
the order of its steps, each with a note whether the effect had begun (which the program
itself does not record). `CommandLine` is one invocation: validation, resolution, parsing,
dispatch, normalisation of the fault, one write, the exit status.

**Services.** `AuthConfig`, `AuthGate` and `PageDrain` are independent parts that no command
uses in this commit; `Services` runs them side by side, one per behaviour (`useCase`).

`NaturalSets` holds lemmas for proofs, and the `*Proofs` modules the theorems about the module
they extend (see Proofs). `MC*` modules give small instances; the `.cfg` files select values and properties.

## What the runs check

| run | instance | shows |
|---|---|---|
| `shim_crash` | 2 processes, 2 artifacts that compete for one command, room for 1, crashes anywhere, edited shims | nobody ever waits; tampering is reported only after an edit; results, listings and the answers of the commands are true when given |
| `shim_edits` | 1 process, the same artifacts, failures and crashes at every call, every kind of edit | links are owned, records whole, residues bounded; a definite failure changed nothing; nothing foreign or edited is touched; every step implements the lifecycle |
| `shim_collision_message` | 2 processes | a message says what is not so (Findings) |
| `inspection_source` | 2 images, 2 swaps, GitHub and Go probes and bound runs | retryable means unstarted, one swap is never trusted, published evidence is of one image, an inspection ends |
| `inspection_processor` | the isolated root, every document of at most 6 events of 2 tests | no silent residue, a stopped program is no outcome, a summary is the whole truth about the tests |
| `apply_facades` | 3 bundles, one per result mode, both façades | starts are authorized, retry means nothing started, the contract is implemented, every application returns |
| `apply_swaps` | an optimizer bundle, 2 swaps of either executable | what may be published, and what is owed |
| `trust_adopt` | 2 processes, 2 digests, room for 1, one crash, one power loss, one edit, failures | no adoption lost, reported means stored and durable, refusals changed nothing, leftovers have a cause |
| `trust_invalid_message` | 2 processes | a valid store is reported invalid (Findings) |
| `tailoring_workflow` | 2 GitHub CLI versions and 1 Go CLI, 2 processors, 15 specifications, 50 invocations, 1 edit or replacement | drafts build; a stored bundle that loads is what compiling its parts gives; no invocation meets an internal error, but for commands that the specification spells with a blank inside a segment; the source reads the defaults, the caller's options and the appended ones and nothing else; what a wrapper's help tells of is admitted; every document has its published shape |
| `cli` | the 22 shipped commands and 520 small catalogs, with suggested and mistaken invocations | published failures are declared; an effect that has begun is not offered for repetition; forwarded words arrive as written; a validated contract advertises nothing its parser refuses |
| `services` | 2 programs on the settings file and 1 user step; a gate and every session; 2 cursors, 2 pages of any size | a load reports what stood there; the loser of a race learns it; the action ran once and authorized; a list is whole or absent |

Every property of a passing run comes with a mutant of a mapped definition, a plausible bug
under which the same run finds it violated.

### Bounds and why they are enough

* Two processes and two artifacts, digests or programs: the stores exclude one another by a
  lock, and every race is between a holder and one other; in the settings file, which has no
  lock, the third party is the user (`MaxTroubles`).
* `MaxSwaps = 2`: two replacements are the smallest number that can fool fingerprints taken
  before and after a start (swap and swap back), so one is safe and two is where the promise
  ends. `OneSwapNeverTrusted`, `OneSwapNeverPublished` and `EvidenceIsOneImage` are that edge.
* One crash, power loss and edit in `trust_adopt`: a crash with the lock held stops all
  later Adds, so a second crash meets a store that refuses; the edit may be the removal of
  the stale lock, which opens the store again.
* `MaxArtifacts` (64 in the code), `MaxReceipts` (256), `MaxRecords`, `MaxPages` and
  `MaxItems` are 1 to 6, so that the limit is met and crossed. Two cursors after the empty one
  ask for a third page, which `MaxPages = 2` refuses.
* Three directory inodes: two published records and the stage or quarantine of a third.
* The specifications of `tailoring_workflow` hold every kind of entry (identity, transform,
  excluded), surface, default, projection and optimizer, two that spell a path as one segment
  (`pr list`), and invalid ones; invocations are
  all pairs of five arguments and single ones of eight. `Limit` scales the bounds of the code
  down so that lists of arguments can exceed them.
* The trial catalogs of `cli` are all requirement graphs over three flags with one conflict
  and one required flag: the shortest chains of `requires` that reach a conflict indirectly.

### Fairness and why the code justifies it

* Runner, inspection and application: weak fairness on their own steps, on the expiry of the
  deadline and on the kill that follows (`exec.CommandContext` with a `WaitDelay`). The
  program that was started is never assumed to exit or to close its output.
* Shim store, trust store, settings file: none. No operation waits for another one, so there
  is nothing to be fair about: the flock is taken without blocking, which `NobodyWaits` states
  as safety (a process inside an operation can always take a step of its own, whatever the
  others do), and the trust lock is a file
  whose existence is an error. `LeftoversAccounted` says that a lock nobody is inside with
  has a crash, a power loss or a failed removal behind it.

### What the user may do

The security documentation excludes a hostile process of the same user; ordinary edits are
in scope. The models let the user take a command name at any moment; edit records, replace
or delete links while no `atr` process holds the store's lock; replace executables and
bundles at any moment; write specifications; change what a stored bundle says, with or
without its digest; rewrite the receipt file, and remove its lock when no process is inside
`Add`. They do not let the user remove a lock in use: the file names no owner, and no
promise would be left.

## Proofs

All are `Spec => []P`, `Spec => [][A]_vars` or a refinement, and all hold for every value of
the constants under the stated assumptions. Each rests on an inductive invariant established
by three steps: it holds initially, every action keeps it, and it implies the property.
`PROJECT.json` lists the theorems with the property each of them states.

* `ShimStoreProofs`: `TypeInv` adds to the types which operation is at which program point.
  `StoreInv` adds that whoever is inside holds the lock, that a directory has one name, and
  what the holder knows about the staging area at each point (`Stages`). Without the last,
  "at most one residue" is not inductive: the step that stages a new record needs the sweep
  before it to have emptied the area. From it: `TypeSafe`, `LinksOwned`, `RecordsWhole`,
  `OneResidue`, and their conjunction `StoreIntact`.
  `WorkInv` is about what an operation says and changes: what it has seen of its artifact
  inside the lock and may still rely on, in spite of the users' edits (`Knowledge`); what it has
  changed so far, so that a failure before the first change is the only definite one
  (`Account`); that the record a residue came from left its place free (`Room`, without
  which a rollback could exceed the limit); and that nothing stands before the root does
  (`Roots`). From it: `RefusalsAreDefinite`, the action property `EditsSurvive`,
  `LifecycleImplemented` (every step is one of `ShimLifecycle` or a stutter) and
  `TamperingHasCause`. With what holds of a call that has not answered yet (`AskInv`), it
  gives `AnswersHold`: every answer of the store and of the commands is true when given.
* `ProcessRunnerProofs`: `RunnerInv` is typing, what each phase may hold (`Phased`), that the
  number of replacements bounds how the current image, the fingerprints and the program that
  ran may differ (`Watched`), when a root exists (`Rooted`), and that a conventional ending
  has no deadline, overflow or cancellation behind it (`Unstopped`; a cancellation seen when
  the process was reaped is still there when it is classified). `Watched` is the heart: with
  one replacement, equal fingerprints on both sides of the start leave no other image to run.
  From it: `RetrySafe`, `OneSwapSafe`, `ResidueSafe`, `StoppedSafe`. The assumption admits
  either role, so the theorems cover both adapters.
* `PlanApplyProofs`: both instances of `RunnerInv` and five facts about the application: what
  each stage has established (`Staged`), that what started was authorized (`Authorized`),
  what a runner was handed (`Handed`), what an answer rests on (`Answered`), and its typing
  (`Shaped`). The runner's lemmas are used through `INSTANCE`, so a step of a runner inside
  the application needs no second proof. From it: `ApplyTypeCorrect`, `AuthorizedSafe`,
  `ApplyRetrySafe`, `NoFallbackSafe`, `OwedSafe`, `ApplySwapSafe`, `CleanSafe`, and
  `ApplyImplementsContract`, the refinement of the caller-visible contract.
* `TrustStoreProofs`: `StoreInv` says what a process knows at each step of an adoption
  (`Own`), that whoever is past the lock is alone and the lock exists (`Exclusion`), what a
  power loss may leave (`Disks`), how many temporary files there are (`Residue`), and that
  a lock nobody is inside with has a mishap behind it (`LockExplained`). The core of `Own` is
  that the content in hand is that of the file plus one confirmed digest, from the read under
  the lock to the rename, unless the user has edited the file: `Exclusion` keeps it true
  through the steps of the others. From it: `TypeCorrect`, `AddExcludes`, `ReportsAreTrue`,
  `RefusalsAreClean`, `LeftoversHaveCause`, `AdoptionsSurvive`, and `NothingIsLost`, the
  action property that until the user edits the file no step but a power loss removes a receipt.
* `InspectionProofs`: an inspection is a chain of attempts of the runner, each forgotten when
  its answer is read, so `InspectionInv` joins `RunnerInv` with what the inspection keeps of
  those behind it (`Gathered`: the images that ran are the one it names, or two replacements
  have happened). From it: `EvidenceHasOneImage` and the runner's promises for every probe.
  `OptimizerInv` adds what the processor was handed and what was shown; `SummariesMeanPassed`
  also needs what the analyzer computes of a document of any length, which is proved by
  induction over its events: the state of every test is what the events read so far say.
* `ServicesProofs`: the gate, the settings file and the drain, each from an invariant of its
  own, carried over to `Services` by `ServicesCompose`. `ActionsAreAuthorized`: a session that
  reaches the action satisfied the requirement that was read with it and had not expired when
  it was got. `LoadsAreCurrent`:
  the file a load has opened holds what was read from it wherever it still stands, since a
  file has one name (`Inodes`) and a save replaces it by another; if it was damaged since, the
  load had been shown the rest (`Shown`). `WinnersKnow`: while nobody interferes, the file in
  force is of a call that has returned success or has not returned (`Settled`).
  `DrainsAreWhole`: what has been collected is the pages up to the cursor asked for last, by
  induction over the pages, with no cursor met twice.
* `TailoringProofs`: what holds of one bundle, one specification or one plan, for every
  catalog, edit and argument vector.
  `BundlesAreCompiled`: a bundle that loads has decoded, so it has the fields of a bundle and no
  other, and passed `ValidBundle`, which leaves none of them for `Compile` to fill otherwise.
  `PlansStayConsistent`: what the planner computes from a valid bundle passes every check of
  `ValidPlan` but one: where the specification spells a command with a blank inside a segment
  (`Joined` is the key by which the code compares paths), the plan names segments that are no
  stable names. Where the segments are a cataloged path, equal keys mean equal paths
  (`JoinedStable`, `CommandNamedByKey`). The two readings of the caller's arguments (`OptionErrors`, which has the catalog,
  and `ValueMissing`, which has only the defaults of the plan) are functions of each place
  and the next two, so they are compared by induction from the end of the list (`DownFrom`).
  `OptionsStayEffective`: how the source reads a concatenation (`ReadingShifts`,
  `ReadingAppends`): a part whose last option has its value takes no word from the next one.
  Defaults are such a part by construction and the caller's tail is one because the planner
  refused it otherwise, so the source reads the defaults that are due, the caller's options
  and the appended ones (`PlannedReading`).
  `DraftsStayBuildable`: the inductive invariant `DraftInv` says that the evidence on disk is
  of an inspection, and that right after `spec init` the specification on disk is the draft of
  that evidence. Without the second half nothing ties the file to the checks that `spec init`
  made. Then writing and reading the draft changes none of its meaning (`DraftIsWritten`), the
  entry it holds is valid for the catalog (`PassSurface`, `IdentityEntryType`), the binding
  made from the observation is admitted (`PassBinding`, `PassAdmitted`), and valid parts
  compile (`ValidPartsCompile`).
* `NaturalSets`: induction over the natural numbers as a statement about sets. The library's
  induction theorems take a predicate, which the provers cannot instantiate; a set of numbers
  that contains 0 and the successor of each of its members below `n` contains `0..n`, and
  this they can use. `RecursionUpTo` gives the function that records every value of a
  sequence of steps, which is what a fold or a recursive function comes to; `DownFrom` and
  `BackwardRecursion` do the same from the end of a list, two places at a time.

Assumptions are those named in the modules: the sentinels are different from the data they
stand beside (`EventsAssumption`, `ConfigAssumption`, the shim store's and the runner's),
bounds are natural numbers, the tables of bundles are functions into images, the official
artifact is an image (`OfficialAssumption`). Of tailoring: the bounds in `Limit` are positive
(`LimitAssumption`), `Nil` is no text, list or document (`NilAssumption`, `NilEntryAssumption`,
`DocumentAssumption`), the literals the operators name are strings and the stable names a
list of strings (`StringAssumption`, `AlphabetAssumption`), an attempt is a list of
arguments (`AttemptsAssumption`), a segment with a blank is no stable name
(`SpacedAssumption`), a requested command is a list of strings (`RequestedAssumption`), and the registry's own binding is within the bounds of a
binding (`RegistryAssumption`: its two arguments fit in the 16 the code allows). Nothing is
assumed of catalogs, observations or specifications but that they are what a file can decode
into. TLC evaluates each assumption on the instances of the runs.

Model-checked only:

* Liveness (`InspectionReturns`, `ApplyReturns`): the prover has no rule for fairness.
* `NobodyWaits`: it is about `ENABLED`.
* `AdvertisedIsAdmitted`: it is not true of every catalog. Which option selects structured output
  is what the catalog says; neither the surface nor the runtime admission of `githubcli` compares
  it, so a catalog edited to call another admitted option its selector leads to invocations that
  the help tells of and the planner refuses. It holds of the catalogs an inspection finds.
* `DocumentsAreDescribed`: `Conforms` recurses over documents and schemas.
* `CommandLine` (`PublishedIsDeclared`, `ReplayIsSafe`, `OwnWordsOnly`,
  `AdvertisedIsAccepted`): the options before a command are read by a recursive operator, and
  the first three hold of the shipped catalog with the failures of its services
  (`ServiceFaults`), not of every catalog that passes validation, so a proof would be
  one about data that TLC evaluates completely.

Reasoning about the models also corrected them. The proof of `PlansStayConsistent` could not be
closed because `ValidWrapper` had the condition on the kind of a transform in the wrong
disjunct, by which a wrapper of any kind passed; no bundle of the runs had such a kind. And a
plan for which the program has no request turned out to be possible, by a bundle edited by hand
whose processor names another environment: no check of the bundle compares it, and what
stops it is the registry, which admits one environment (`PlanTupleAdmitted`). So
`PlansAreConsistent` promises a processor request for every plan the registry admits, and
the run now contains such an edit. That the planner and `Plan.Validate` read a command path
in two ways was hidden as long as the models compared paths segment by segment; since they
compare the joined keys, as the code does, the property names the case in which the two differ.

## Findings

1. Lock contention in the shim store is reported as `wrapper_artifact_collision`, "already
   occupies the managed command path", when no command is occupied (`shim_collision_message`).
2. A reader that meets the rename of a concurrent adoption answers that the trust store "is
   invalid" although it was valid throughout (`trust_invalid_message`).

Both are about the words of an answer; the stores stay correct and the command may be
repeated. Observed on the way, and not stated as a property because no text promises otherwise
or the case is one of wording:

* A process that loses the race to create the shim directories answers that the store was not
  modified although it created part of it.
* A fault whose message quotes an argument of a kilobyte no longer passes its own validation
  and is published as `invalid_fault_contract` (`domain/fault/fault.go:85`);
  `PublishedIsDeclared` is therefore about ordinary arguments (`Fitting`).
* A cancellation between two probes of a source inspection is reported as an internal error;
  `Status` of the settings file reports a canceled `Load` as invalid data.
* `wrapper status` answers `wrapper_artifact_collision`, not `..._tampered`, for an edited artifact
  whose link is still in `bin`: an entry no intact artifact stands behind. The tampered answer
  is left for records without a link.
* A specification entry whose path is one segment with a blank (`["pr list"]`) passes for the
  command of two segments: the specification check, `spec init`, `deriveSurface` and `Resolve`
  compare `strings.Join(path, " ")` (`domain/tailoringbundle/model.go:281-283`, `308`, `328-331`, `740`;
  `app/specinit/service.go:141-151`), so it is built and adopted, and every
  invocation of it is then refused as an invalid plan, whose segments must be stable names
  (`domain/tailoringplan/plan.go:325-329`). The command line asks for an "exact verified
  source command path" (`cli/catalog.go:1478`). `PlansAreConsistent` states that this is the only
  invocation that ends so.
* The validation of renames refuses a chain (`a` to `b`, `b` to `c`) that publishing could do.
* An `Add` that finds its digest in a file renamed but not yet synced by another process
  reports success without a sync of its own, so `AdoptionSurvives` is stated for the process
  that wrote the receipt.

## Not modelled, and why

* The durability of the shim store after a power loss: its code documents crash safety of
  processes only, and a model would rest on promises of a file system the code does not name.
* Bytes: JSON, YAML and help-text parsing, shell quoting, canonical encodings and hashes. A
  probe prints the expected contract or not, a file decodes or not, a digest is injective.
  The projection of JSON records (`tailoring/json.go`) is among them.
* The wording of help, reports and results, and the sample and doctor data.
* Windows paths of the stores.
* Retry and rate policies of `domain/apicall`: nothing calls them in this commit.
* The repository's tools (release evidence, journeys, lint) and `main`: scripts around a
  checkout, not the program.

What the modules leave out of what they model: `PlanApply` takes the admission of a plan as
an arbitrary verdict, and `Tailoring` (`Admitted`) the processes as never failing; the two
meet at the same gates of `planapply`. `ServiceFaults` keeps the order of the steps and not
the state they depend on, which the other chains have.

## Plan

Built, in this order: shim store, runners and application, trust store, tailoring, command
line, inspection and optimizer, services. Proved: everything the runs of the shim store, the
runners, the application, the trust store, the inspection, the optimizer and the services
check as safety, but for `NobodyWaits`; of tailoring everything but `AdvertisedIsAdmitted` and
`DocumentsAreDescribed`. Left, in order of importance:

1. `AdvertisedIsAccepted` of `CommandLine`, the one property of the command line that holds for
   every catalog that passes validation: it needs `RootOptions` as a function instead of a
   recursive operator, and what `ParseInputs` makes of a list built input by input.
2. `HelpNeverRuns`, for every catalog that declares no help flag of its own.
