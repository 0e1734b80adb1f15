----------------------------- MODULE Tailoring -----------------------------
(***************************************************************************)
(* The authoring workflow around one tailored command: source evidence, a  *)
(* specification drafted from it, a bundle compiled from both, its         *)
(* adoption, previews, the rendered wrapper, and the invocations of that   *)
(* wrapper. The commands are separate processes that meet in files, which  *)
(* the user edits and in which evidence goes stale when the source tool or *)
(* the processor is replaced.                                              *)
(*                                                                         *)
(* internal/app/specinit, bundlebuild, planpreview, wrapperrender; the     *)
(* loaders catalogjson, specyaml, bundlejson and processorjson; and the    *)
(* checks internal/app/planapply makes before it starts the source.        *)
(***************************************************************************)
EXTENDS SourceRuntime
LOCAL INSTANCE SequencesExt

CONSTANTS
    Inspections,     \* what an inspection of each source image finds, in the order it finds it
    Observations,    \* the observations an inspection of each processor yields
    Edits,           \* the specification documents a user may write
    Requested,       \* the command paths given to spec init
    Attempts,        \* the argument vectors given to preview and to the wrapper
    Tampered(_),     \* the bundles a user may turn a stored one into
    Locator,         \* where the bundle file is
    Runtime,         \* the identity of the running atr
    MaxChanges,      \* how often the bundle is edited or a program replaced
    MaxAdopted       \* how many bundles the user adopts

ASSUME AttemptsAssumption == Attempts \subseteq Seq(ArgumentType)
ASSUME RequestedAssumption == Requested \subseteq Seq(STRING)
ASSUME DocumentAssumption ==
    /\ \A c \in Inspections :
          Nil \notin [schema : {5}, catalogDigest : {CatalogDigest(SortCatalog(c))}, default : SurfaceDefaults,
                    commands : Seq(EntryType)]
    /\ \A o \in Observations : Nil # <<CanonicalBinding(o)>>

VARIABLES
    source,          \* the image at the path of the source tool
    processor,       \* the image at the path of the processor
    catalogFile, observationFile, specificationFile, bundleFile,
    adopted,         \* the bundle digests the user has adopted
    script,          \* the wrapper function the user's shell has loaded
    last,            \* the command that has just succeeded, or none
    changes          \* edits and replacements so far

files == <<catalogFile, observationFile, specificationFile, bundleFile>>
vars == <<source, processor, files, adopted, script, last, changes>>

SourceImages == {c.source.image : c \in Inspections}
ProcessorImages == {o.image : o \in Observations}

\* The commands that only read are operators: Previewed and Admitted.
Answer(command, result) ==
    /\ last' = IF result.ok THEN command ELSE "none"
    /\ UNCHANGED changes

\* Somebody other than a command changes a file or a program.
Change ==
    /\ changes < MaxChanges
    /\ changes' = changes + 1
    /\ last' = "none"

TypeOK ==
    /\ source \in SourceImages
    /\ processor \in ProcessorImages
    /\ catalogFile = Nil \/ catalogFile.catalog \in {SortCatalog(c) : c \in Inspections}
    /\ observationFile = Nil \/ observationFile \in Observations
    /\ bundleFile = Nil \/ bundleFile.bundle.schema \in Nat
    /\ last \in {"none", "source_inspect", "processor_inspect", "spec_init", "bundle_build",
                 "bundle_trust", "wrapper_render"}
    /\ changes \in 0..MaxChanges

Init ==
    /\ source \in SourceImages
    /\ processor \in ProcessorImages
    /\ catalogFile = Nil /\ observationFile = Nil /\ specificationFile = Nil /\ bundleFile = Nil
    /\ adopted = {}
    /\ script = Nil
    /\ last = "none"
    /\ changes = 0

-----------------------------------------------------------------------------
(* Loaders. A file is absent, or decodes into what its writer put there.   *)

LoadCatalog ==
    LET digest == CatalogDigest(catalogFile.catalog)
    IN IF catalogFile = Nil THEN Failure("catalog_file_not_found")
       ELSE IF catalogFile.catalog.commands \notin SliceOf(CommandType) \/ digest = NoDigest THEN Failure("invalid_catalog_file")
       ELSE IF catalogFile.digest # digest THEN Failure("catalog_digest_mismatch")
       ELSE Success(catalogFile.catalog)

LoadObservation ==
    IF observationFile = Nil THEN Failure("processor_observation_file_not_found")
    ELSE IF observationFile.image = Nil \/ observationFile.attempts # 1
         THEN Failure("invalid_processor_observation_file")
    ELSE Success(observationFile)

\* convertCommand: a list that was left out is an empty list.
Explicit(list) == IF list = Nil THEN <<>> ELSE list

ConvertOutput(o) ==
    IF o = Nil \/ o.projection = Nil THEN o
    ELSE [o EXCEPT !.projection.select = Explicit(@), !.projection.rename = Explicit(@)]

ConvertOptions(o) ==
    IF o = Nil THEN Nil ELSE [o EXCEPT !.include = Explicit(@), !.exclude = Explicit(@)]

ConvertWrapper(w) ==
    IF w = Nil THEN Nil
    ELSE [w EXCEPT !.before = Explicit(@), !.append = Explicit(@), !.after = Explicit(@),
                   !.output = ConvertOutput(@)]

ConvertCommand(c) == [c EXCEPT !.options = ConvertOptions(@), !.wrapper = ConvertWrapper(@)]

\* The one list that must be written out, and its two strings, that may not be empty.
DefaultsWritten(c) ==
    c.wrapper = Nil \/ /\ c.wrapper.defaults # Nil
                       /\ \A d \in ToSet(c.wrapper.defaults) : d.option # EmptyText /\ d.value # EmptyText

LoadSpecification ==
    IF specificationFile = Nil THEN Failure("specification_file_not_found")
    ELSE IF specificationFile.schema \in 1..4 THEN Failure("legacy_tailoring_schema")
    ELSE IF \E c \in ToSet(specificationFile.commands) : ~DefaultsWritten(c)
         THEN Failure("invalid_specification_yaml")
    ELSE Success(SortSpecification(
            [specificationFile EXCEPT
                !.commands = [i \in DOMAIN @ |-> ConvertCommand(@[i])]]))

\* Encode writes what decode reads back: every list explicit.
Encoded(s) == [s EXCEPT !.commands = [i \in DOMAIN @ |-> ConvertCommand(@[i])]]

DecodedBundle(digest) ==
    IF ~BundleDecodes(bundleFile.bundle) \/ digest = NoDigest THEN Failure("invalid_bundle_file")
    ELSE IF bundleFile.digest # digest THEN Failure("bundle_digest_mismatch")
    ELSE Success(bundleFile.bundle)

LoadBundle ==
    IF bundleFile = Nil THEN Failure("bundle_file_not_found")
    ELSE IF bundleFile.bundle.schema \in 1..3 THEN Failure("legacy_tailoring_schema")
    ELSE DecodedBundle(BundleDigest(bundleFile.bundle))

-----------------------------------------------------------------------------
(* spec init *)

IdentityEntry(path) ==
    [command |-> path, presence |-> "include", reason |-> "included", options |-> InheritAll,
     wrapper |-> Identity]

\* requireVerifiedCommand
CommandError(catalog, path) ==
    IF CommandNamed(catalog, path) = Nil THEN "catalog_command_not_found"
    ELSE IF CommandNamed(catalog, path).provenance # "verified_builtin" THEN "unverified_catalog_command"
    ELSE NoError

ValidProcessorDefault(e, path) ==
    /\ e.command = path /\ e.presence = "include"
    /\ e.wrapper # Nil /\ e.wrapper.kind = "transform"
    /\ OptimizerOf(e) # {} /\ e.wrapper.output.projection = Nil

\* Init: identity, or the entry the registry admits for the observation.
DraftFrom(catalog, seen, path, observed) ==
    LET default == DefaultEntry(catalog.value, seen.value)
        entry == IF observed THEN default.value ELSE IdentityEntry(path)
        draft == [schema |-> 5, catalogDigest |-> catalogFile.digest, default |-> "exclude",
                  commands |-> <<entry>>]
    IN IF ~catalog.ok THEN catalog
       ELSE IF CommandError(catalog.value, path) # NoError THEN Failure(CommandError(catalog.value, path))
       ELSE IF observed /\ ~seen.ok THEN seen
       ELSE IF observed /\ ~default.ok THEN Failure("processor_default_not_admitted")
       ELSE IF observed /\ ~ValidProcessorDefault(entry, path) THEN Failure("invalid_processor_default")
       ELSE IF ~ValidSpecification(draft, catalog.value) THEN Failure("invalid_specification_draft")
       ELSE Success(draft)

WriteDraft(drafted) ==
    /\ Answer("spec_init", drafted)
    /\ specificationFile' = IF drafted.ok THEN Encoded(drafted.value) ELSE specificationFile
    /\ UNCHANGED <<source, processor, catalogFile, observationFile, bundleFile, adopted, script>>

SpecInit(path, observed) == WriteDraft(DraftFrom(LoadCatalog, LoadObservation, path, observed))

-----------------------------------------------------------------------------
(* spec validate and bundle build *)

Validated(catalog, s) ==
    IF ~catalog.ok THEN catalog
    ELSE IF ~s.ok THEN s
    ELSE IF ~ValidSpecification(s.value, catalog.value) THEN Failure("invalid_specification")
    ELSE s

Inputs == Validated(LoadCatalog, LoadSpecification)

\* compile: the processor registry has the last word on a bundle with an optimizer.
Assembled(bundle, optimizes) ==
    IF ~bundle.ok /\ optimizes /\ bundle.error # "invalid_specification"
    THEN Failure("processor_compatibility_not_admitted")
    ELSE IF ~bundle.ok THEN bundle
    ELSE IF optimizes /\ ~TupleAdmitted(bundle.value) THEN Failure("processor_compatibility_not_admitted")
    ELSE IF BundleDigest(bundle.value) = NoDigest THEN Failure("invalid_bundle")
    ELSE bundle

\* Build: the observation is used exactly when an optimizer asks for it.
BuiltFrom(inputs, seen, observed) ==
    LET s == inputs.value
        optimizes == Optimizers(s) # {}
        binding == BindingOf(seen.value)
    IN IF ~inputs.ok THEN inputs
       ELSE IF optimizes /\ ~observed THEN Failure("processor_observation_required")
       ELSE IF ~optimizes /\ observed THEN Failure("processor_observation_not_used")
       ELSE IF optimizes /\ ~seen.ok THEN seen
       ELSE IF optimizes /\ ~binding.ok THEN Failure("processor_compatibility_not_admitted")
       ELSE Assembled(Compile(LoadCatalog.value, s, IF optimizes THEN <<binding.value>> ELSE <<>>), optimizes)

WriteBundle(built) ==
    /\ Answer("bundle_build", built)
    /\ bundleFile' = IF built.ok THEN [digest |-> BundleDigest(built.value), bundle |-> built.value]
                     ELSE bundleFile
    /\ UNCHANGED <<source, processor, catalogFile, observationFile, specificationFile, adopted, script>>

BundleBuild(observed) == WriteBundle(BuiltFrom(Inputs, LoadObservation, observed))

-----------------------------------------------------------------------------
(* bundle preview *)

\* What every use of a bundle checks before it looks at the invocation.
Current(loaded) ==
    IF ~loaded.ok THEN loaded
    ELSE IF bundleFile.digest \notin adopted THEN Failure("bundle_not_adopted")
    ELSE IF source # IdentityOf(loaded.value.catalog) THEN Failure("bundle_source_drift")
    ELSE loaded

Usable == Current(LoadBundle)

PlanOver(bundle, executable, args) == Build(bundleFile.digest, bundle, source, executable, args)

\* classifyPlan
PlanFault(error) == IF error = "invalid_plan" THEN "invalid_wrapper_plan" ELSE error

Shown(plan) == IF plan.ok THEN plan ELSE Failure(PlanFault(plan.error))

PreviewOf(usable, executable, args) ==
    IF ~usable.ok THEN usable ELSE Shown(PlanOver(usable.value, executable, args))

Previewed(executable, args) == PreviewOf(Usable, executable, args)

-----------------------------------------------------------------------------
(* wrapper render *)

\* Each declared processor is still the observed one, and the tuple is admitted.
ProcessorsError(bundle) ==
    IF bundle.processors = <<>> THEN NoError
    ELSE IF \E b \in ToSet(bundle.processors) : b.observation.image # processor
    THEN "bundle_processor_drift"
    ELSE IF ~TupleAdmitted(bundle) THEN "wrapper_runtime_not_supported" ELSE NoError

\* Materialize
Materialized(usable) ==
    IF ~ValidLocator(Locator) THEN Failure("invalid_wrapper_binding")
    ELSE IF ~usable.ok THEN usable
    ELSE IF SurfaceError(usable.value) # NoError THEN Failure("wrapper_runtime_not_supported")
    ELSE IF ProcessorsError(usable.value) # NoError THEN Failure(ProcessorsError(usable.value))
    ELSE IF Runtime = Nil THEN Failure("wrapper_runtime_unavailable")
    ELSE NewBinding(Locator, bundleFile.digest, usable.value, Runtime)

Rendered(binding) == IF binding.ok THEN Render(binding.value) ELSE binding

PrintWrapper(rendered) ==
    /\ Answer("wrapper_render", rendered)
    /\ script' = IF rendered.ok THEN rendered.value ELSE script
    /\ UNCHANGED <<source, processor, files, adopted>>

WrapperRender == PrintWrapper(Rendered(Materialized(Usable)))

-----------------------------------------------------------------------------
(* The wrapper: help, or wrapper run with the checks of planapply. *)

\* wrapper run allows every mode; the runtime proof and, for an optimizer, the
\* tuple and the identity of the processor decide.
AdmissionError(p) ==
    IF RuntimeError(p) # NoError THEN "wrapper_runtime_not_supported"
    ELSE IF p.mode # "original_preserving_optimizer" THEN NoError
    ELSE IF ~PlanTupleAdmitted(p) THEN "wrapper_runtime_not_supported"
    ELSE IF processor # p.processor.observation.image THEN "processor_identity_changed" ELSE NoError

Executable(plan) ==
    IF ~plan.ok THEN plan
    ELSE IF AdmissionError(plan.value) # NoError THEN Failure(AdmissionError(plan.value))
    ELSE IF ~SourceRequest(plan.value).ok THEN Failure("invalid_source_process_request")
    ELSE plan

AdmittedOver(usable, s, args) ==
    IF s.otherwise.runtime # Runtime THEN Failure("wrapper_runtime_drift")
    ELSE IF ~LoadBundle.ok THEN LoadBundle
    ELSE IF bundleFile.digest # s.otherwise.digest THEN Failure("bundle_binding_mismatch")
    ELSE IF ~usable.ok THEN usable
    ELSE Executable(Shown(PlanOver(usable.value, usable.value.catalog.source.requested, args)))

Admitted(s, args) == AdmittedOver(Usable, s, args)

-----------------------------------------------------------------------------
(* What other commands, the user and the system do *)

SourceInspect(c) ==
    /\ c.source.image = source
    /\ catalogFile' = [digest |-> CatalogDigest(SortCatalog(c)), catalog |-> SortCatalog(c)]
    /\ Answer("source_inspect", Success(Nil))
    /\ UNCHANGED <<source, processor, observationFile, specificationFile, bundleFile, adopted, script>>

ProcessorInspect(o) ==
    /\ o.image = processor
    /\ observationFile' = o
    /\ Answer("processor_inspect", Success(Nil))
    /\ UNCHANGED <<source, processor, catalogFile, specificationFile, bundleFile, adopted, script>>

Adopt(loaded) ==
    /\ Answer("bundle_trust", loaded)
    /\ Cardinality(adopted) < MaxAdopted
    /\ adopted' = IF loaded.ok THEN adopted \cup {bundleFile.digest} ELSE adopted
    /\ UNCHANGED <<source, processor, files, script>>

BundleTrust == Adopt(LoadBundle)

\* The user writes a specification where there is none, for the last inspection.
EditSpecification(d) ==
    /\ catalogFile # Nil
    /\ specificationFile = Nil
    /\ specificationFile' = [d EXCEPT !.catalogDigest = catalogFile.digest]
    /\ last' = "none" /\ UNCHANGED changes
    /\ UNCHANGED <<source, processor, catalogFile, observationFile, bundleFile, adopted, script>>

\* With or without a digest that fits what the bundle now says.
EditBundle(b, digest) ==
    /\ bundleFile' = [digest |-> digest, bundle |-> b]
    /\ Change
    /\ UNCHANGED <<source, processor, catalogFile, observationFile, specificationFile, adopted, script>>

Replace ==
    /\ \/ source' \in SourceImages \ {source} /\ processor' = processor
       \/ processor' \in ProcessorImages \ {processor} /\ source' = source
    /\ Change
    /\ UNCHANGED <<files, adopted, script>>

Next ==
    \/ \E c \in Inspections : SourceInspect(c)
    \/ \E o \in Observations : ProcessorInspect(o)
    \/ \E path \in Requested, observed \in BOOLEAN : SpecInit(path, observed)
    \/ \E d \in Edits : EditSpecification(d)
    \/ \E observed \in BOOLEAN : BundleBuild(observed)
    \/ bundleFile # Nil /\ \E b \in Tampered(bundleFile.bundle) :
           \E digest \in {bundleFile.digest, BundleDigest(b)} : EditBundle(b, digest)
    \/ BundleTrust
    \/ WrapperRender
    \/ Replace

Spec == Init /\ [][Next]_vars

-----------------------------------------------------------------------------
(* Properties *)

\* A drafted specification builds, from the very evidence it was drafted with:
\* spec init and bundle build judge catalogs and observations alike.
DraftsBuild ==
    last = "spec_init" => BuiltFrom(Inputs, LoadObservation, Optimizers(Inputs.value) # {}).ok

IsCompiled(b) == Compile(b.catalog, b.specification, b.processors) = Success(b)

\* A stored bundle that loads, edited or not, is what compiling its own catalog,
\* specification and processors gives.
StoredBundleIsCompiled == last \in {"none", "bundle_build"} /\ LoadBundle.ok => IsCompiled(bundleFile.bundle)

PlanFor(args) == PlanOver(bundleFile.bundle, bundleFile.bundle.catalog.source.requested, args)

\* Plans are a function of the bundle: it is enough to look where one is adopted.
JustAdopted == last = "bundle_trust" /\ Usable.ok

PublishesEachField(output) ==
    output # Nil /\ output.projection # Nil => Distinct(FinalNames(output.projection))

\* What the surface names the command of an invocation: its path, or other
\* segments with the same key.
SurfacedAs(bundle, args) == Resolve(bundle, Matched(bundle.catalog, args).path).command

Consistent(plan, bundle, args) ==
    /\ plan.error = "invalid_plan" => CommandAt(bundle.catalog, SurfacedAs(bundle, args)) = Nil
    /\ plan.ok => /\ plan.value.command = Matched(bundle.catalog, args).path
                  /\ SourceRequest(plan.value).ok
                  /\ PlanTupleAdmitted(plan.value) => ProcessorRequest(plan.value).ok
                  /\ PublishesEachField(plan.value.output)

\* An invocation takes a usable bundle to a plan that its own checks refuse for
\* one reason only: the specification spells the command with a blank inside a
\* segment, which its validation, spec init and the resolution accept by the
\* key and the plan does not. Every other refusal names the invocation. A plan
\* that is built matches the cataloged path and has a request for the source
\* runner; one the registry admits has a request for the processor too: no
\* bundle check but the registry's knows its environment. And no chain of
\* renames makes a planned projection publish one field over another.
PlansAreConsistent ==
    JustAdopted => \A args \in Attempts : Consistent(PlanFor(args), bundleFile.bundle, args)

\* How the source itself reads options: one that takes a value and has none
\* inline takes the next argument, whatever it is; "--" ends them.
OptionsReadFrom(command, args) ==
    LET from[i \in 1..Len(args) + 2] ==
            IF i > Len(args) THEN <<>>
            ELSE IF args[i] = Terminator THEN <<>>
            ELSE IF args[i].kind # "long" THEN from[i + 1]
            ELSE IF args[i].value # Nil \/ ~TakesValue(command, args[i].name)
            THEN <<<<args[i].name, args[i].value>>>> \o from[i + 1]
            ELSE IF i = Len(args) THEN <<<<args[i].name, Nil>>>>
            ELSE <<<<args[i].name, args[i + 1].name>>>> \o from[i + 2]
    IN from
OptionsRead(command, args) == OptionsReadFrom(command, args)[1]

ReadAsPlanned(p, command, args) ==
    LET tail == CallerTail(p.command, args)
        read == OptionsRead(command, tail)
        given == {o[1] : o \in ToSet(read)}
        left == Filter(p.defaults, {d \in ToSet(p.defaults) : d.option \notin given})
        open == \A i \in DOMAIN tail : tail[i] # Terminator
    IN /\ given \subseteq Allowed(p.options, command)
       /\ OptionsRead(command, CallerTail(p.command, p.args)) =
             [i \in DOMAIN left |-> <<left[i].option, left[i].value>>] \o read
               \o (IF open THEN OptionsRead(command, p.append) ELSE <<>>)

ReadByTheSource(plan, args) ==
    plan.ok => ReadAsPlanned(plan.value, CommandAt(bundleFile.bundle.catalog, plan.value.command), args)

\* What the source reads of a planned invocation is the defaults whose option
\* the caller left out, then what the caller gave, all of it allowed, then
\* what the wrapper appends: no part takes a word from the next one.
EffectiveOptions == JustAdopted => \A args \in Attempts : ReadByTheSource(PlanFor(args), args)

OptionUses(o) ==
    IF o.takesValue THEN {<<Inline(o.name, "v")>>, <<Long(o.name), Word("v")>>} ELSE {<<Long(o.name)>>}

\* The invocations a page of the help tells of: up to two of its options.
Advertised(c) ==
    LET uses == {<<>>} \cup UNION {OptionUses(o) : o \in ToSet(c.options)}
    IN {Words(c.path) \o u \o v : u, v \in uses}

Agree(admitted, previewed) == admitted.ok /\ previewed = admitted

\* Until something is replaced or edited, a wrapper admits every invocation its
\* help tells of, runs the very plan that preview shows for it, and answers the
\* word for help, and nothing else, with the view of that command: no plan of a
\* verified surface is refused by the runtime, and help offers no option that
\* planning refuses.
AdvertisedIsAdmitted ==
    last = "wrapper_render" =>
        \A branch \in ToSet(script.branches) :
            /\ Meets(script, branch.when) = [kind |-> "help", view |-> branch.show]
            /\ \A c \in branch.show.exact : \A args \in Advertised(c) :
                   /\ Meets(script, args).kind = "runtime"
                   /\ Agree(Admitted(script, args), Previewed(script.name, args))
=============================================================================
