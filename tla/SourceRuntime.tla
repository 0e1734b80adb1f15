--------------------------- MODULE SourceRuntime ---------------------------
(***************************************************************************)
(* What a maintained source adapter and the processor registry admit: a    *)
(* whole surface before a wrapper is rendered, and every fresh plan before *)
(* a process starts. internal/infra/githubcli and gocli (runtime.go),      *)
(* internal/app/runtimecompat and internal/app/processorcompat.            *)
(*                                                                         *)
(* An admission is NoError or the category of the first refusal.           *)
(***************************************************************************)
EXTENDS WrapperBinding
LOCAL INSTANCE SequencesExt

-----------------------------------------------------------------------------
(* GitHub CLI *)

GitHub == [kind |-> "atsura.source.github_cli", version |-> 2]

\* runtimeArgContracts: the long options of each admitted command.
RuntimeCommands == {<<"issue", "list">>, <<"pr", "list">>}
ValueOptions(path) ==
    {"app", "assignee", "author", "label", "limit", "repo", "search", "state"}
    \cup IF path = <<"issue", "list">> THEN {"mention", "milestone"} ELSE {"base", "head"}
BooleanOptions(path) == IF path = <<"pr", "list">> THEN {"draft"} ELSE {}
SelectorOptions == {"json", "jq", "template", "web"}

\* verifySourceContract, with the versions the pattern accepts.
SourceContractError(adapter, version, admitted, versions) ==
    IF adapter # admitted THEN "adapter_contract"
    ELSE IF version \notin versions THEN "source_version" ELSE NoError

GitHubVersions == {"2.0.0", "2.70.0"}

AdmittedDefaults(path, defaults) ==
    \/ defaults = <<>>
    \/ path = <<"pr", "list">> /\ Len(defaults) = 1 /\ defaults[1].option = "limit"

AdmittedStream(w) ==
    /\ w.before = <<>> /\ w.after = <<>> /\ w.output = Nil
    /\ \/ w.kind = "identity" /\ w.defaults = <<>> /\ w.append = <<>>
       \/ w.kind = "transform" /\ (w.defaults # <<>> \/ w.append # <<>>)

\* "--json=" and the selected fields joined with commas.
SelectorArgument(select) ==
    Inline("json", FoldLeft(LAMBDA joined, f : IF joined = "" THEN f ELSE joined \o "," \o f, "", select))

\* verifyRuntimeArgs: the first refusal from argument i on and how many times
\* the wanted selector was met before it.
RuntimeArguments(path, args, wanted) ==
    LET Refused(category) == [error |-> category, matches |-> 0]
        from[i \in 1..Len(args) + 1] ==
            IF i > Len(args) THEN [error |-> NoError, matches |-> 0]
            ELSE LET a == args[i]
                     long == a.kind = "long"
                 IN IF a = Terminator
                    THEN IF i # Len(args) THEN Refused("argv_grammar") ELSE from[i + 1]
                    ELSE IF long /\ a.name = "json"
                    THEN IF a # wanted THEN Refused("selector_conflict")
                         ELSE [from[i + 1] EXCEPT !.matches = @ + 1]
                    ELSE IF long /\ a.name \in SelectorOptions THEN Refused("selector_conflict")
                    ELSE IF long /\ a.name \in BooleanOptions(path)
                    THEN IF a.value # Nil THEN Refused("argv_grammar") ELSE from[i + 1]
                    ELSE IF ~long \/ a.name \notin ValueOptions(path) THEN Refused("argv_grammar")
                    ELSE IF a.value # Nil
                    THEN IF a.value = EmptyText THEN Refused("argv_grammar") ELSE from[i + 1]
                    ELSE IF i = Len(args) \/ (i < Len(args) /\ (Dashed(args[i + 1]) \/ args[i + 1].name = EmptyText))
                    THEN Refused("argv_grammar")
                    ELSE from[i + 2]
    IN from[1]

ArgumentsError(path, args, output) ==
    LET wanted == IF output = Nil THEN Nil ELSE SelectorArgument(output.projection.select)
        met == RuntimeArguments(path, args, wanted)
    IN IF met.error # NoError THEN met.error
       ELSE IF met.matches # (IF output = Nil THEN 0 ELSE 1) THEN "selector_conflict" ELSE NoError

\* An option a caller may use must be one the runtime takes, with its arity.
SurfaceOptionError(path, option) ==
    IF option.name \in SelectorOptions THEN "selector_conflict"
    ELSE IF option.name \in ValueOptions(path)
    THEN IF option.takesValue THEN NoError ELSE "argv_grammar"
    ELSE IF option.name \in BooleanOptions(path) /\ ~option.takesValue THEN NoError ELSE "argv_grammar"

FirstError(errors) ==
    LET at == {i \in DOMAIN errors : errors[i] # NoError}
    IN IF at = {} THEN NoError ELSE errors[CHOOSE i \in at : \A j \in at : i <= j]

\* Mutant: the options a caller may use are not looked at.
GitHubEntryErrorOptionsUnread(catalog, e) ==
    LET w == e.wrapper
        path == Joined(e.command)
    IN IF path \notin RuntimeCommands THEN "command"
       ELSE IF ~AdmittedDefaults(path, w.defaults) THEN "argv_grammar"
       ELSE IF w.output = Nil /\ ~AdmittedStream(w) THEN "wrapper_output"
       ELSE ArgumentsError(path, w.append, w.output)

\* verifySurfaceEntry: the contract by the key of the path, the options by the path.
GitHubEntryError(catalog, e) ==
    LET w == e.wrapper
        path == Joined(e.command)
        command == CommandAt(catalog, e.command)
        options == IncludedOptions(e.options, command)
    IN IF path \notin RuntimeCommands THEN "command"
       ELSE IF ~AdmittedDefaults(path, w.defaults) THEN "argv_grammar"
       ELSE IF w.output # Nil
               /\ (w.kind # "transform" \/ w.output.kind # "projection" \/ w.output.projection.input # "json")
            THEN "wrapper_output"
       ELSE IF w.output = Nil /\ ~AdmittedStream(w) THEN "wrapper_output"
       ELSE IF ArgumentsError(path, w.append, w.output) # NoError
            THEN ArgumentsError(path, w.append, w.output)
       ELSE IF command = Nil THEN "command"
       ELSE FirstError([i \in DOMAIN options |-> SurfaceOptionError(path, options[i])])

GitHubSurfaceError(bundle) ==
    LET contract == SourceContractError(bundle.catalog.adapter, bundle.catalog.source.version,
                                        GitHub, GitHubVersions)
    IN IF ~ValidBundle(bundle) THEN "wrapper_output"
       ELSE IF contract # NoError THEN contract
       ELSE IF bundle.surface = <<>> THEN "wrapper_output"
       ELSE FirstError([i \in DOMAIN bundle.surface |-> GitHubEntryError(bundle.catalog, bundle.surface[i])])

\* VerifyRuntime
GitHubRuntimeError(p) ==
    LET contract == SourceContractError(p.adapter, p.source.version, GitHub, GitHubVersions)
        w == [kind |-> p.wrapperKind, before |-> p.before, defaults |-> p.defaults,
              append |-> p.append, after |-> p.after, output |-> p.output]
    IN IF ~ValidPlan(p) THEN "wrapper_output"
       ELSE IF contract # NoError THEN contract
       ELSE IF p.command \notin RuntimeCommands THEN "command"
       ELSE IF ~AdmittedDefaults(p.command, p.defaults) THEN "argv_grammar"
       ELSE IF ~ \/ /\ p.mode = "transformed_json"
                    /\ p.wrapperKind = "transform" /\ p.output.projection.input = "json"
                 \/ p.mode = "source_stream_passthrough" /\ AdmittedStream(w)
            THEN "wrapper_output"
       ELSE ArgumentsError(p.command, CallerTail(p.command, p.args), p.output)

-----------------------------------------------------------------------------
(* Go CLI *)

GoCli == [kind |-> "atsura.source.go_cli", version |-> 2]
GoVersions == {"go1.26.0"}
GoTest == <<"test">>
JsonFlag == Short("-json")
EventFields == <<"Action", "Elapsed", "FailedBuild", "Output", "Package", "Test", "Time">>
PassContract == "rtk_go_test_pass"

ExactTestOutput(outputs) ==
    /\ Len(outputs) = 1
    /\ outputs[1].format = "go_test_jsonl"
    /\ outputs[1].selector = JsonFlag.name
    /\ outputs[1].fields = EventFields

OptimizerWrapper(w) ==
    /\ w.kind = "transform"
    /\ w.before = <<>> /\ w.after = <<>> /\ w.defaults = <<>>
    /\ w.append = <<JsonFlag>>
    /\ w.output # Nil /\ w.output.kind = "optimizer"
    /\ w.output.projection = Nil /\ w.output.optimizer # Nil
    /\ w.output.optimizer.input = "go_test_jsonl"
    /\ w.output.optimizer.allowOriginal

GoSurfaceError(bundle) ==
    LET contract == SourceContractError(bundle.catalog.adapter, bundle.catalog.source.version,
                                        GoCli, GoVersions)
        e == bundle.surface[1]
        command == CommandAt(bundle.catalog, e.command)
    IN IF ~ValidBundle(bundle) THEN "wrapper_output"
       ELSE IF contract # NoError THEN contract
       ELSE IF Len(bundle.surface) # 1 THEN "wrapper_output"
       ELSE IF e.command # GoTest \/ command = Nil THEN "command"
       ELSE IF command.options # <<>> \/ e.options.include # <<>> \/ e.options.exclude # <<>>
            THEN "argv_grammar"
       ELSE IF ~ExactTestOutput(command.structured) THEN "wrapper_output"
       ELSE IF e.wrapper # Identity /\ ~OptimizerWrapper(e.wrapper) THEN "wrapper_output"
       ELSE NoError

GoRuntimeError(p) ==
    LET contract == SourceContractError(p.adapter, p.source.version, GoCli, GoVersions)
        w == [kind |-> p.wrapperKind, before |-> p.before, defaults |-> p.defaults,
              append |-> p.append, after |-> p.after, output |-> p.output]
    IN IF ~ValidPlan(p) THEN "wrapper_output"
       ELSE IF contract # NoError THEN contract
       ELSE IF p.command # GoTest THEN "command"
       ELSE IF p.original # Words(GoTest) THEN "argv_grammar"
       ELSE IF p.mode = "source_stream_passthrough"
            THEN IF w # Identity \/ p.args # Words(GoTest) THEN "wrapper_output" ELSE NoError
       ELSE IF p.mode # "original_preserving_optimizer" \/ ~OptimizerWrapper(w) THEN "wrapper_output"
       ELSE IF p.args # Words(GoTest) \o <<JsonFlag>> THEN "argv_grammar" ELSE NoError

-----------------------------------------------------------------------------
(* internal/app/runtimecompat: dispatch on the kind of the adapter. *)

SurfaceError(bundle) ==
    IF bundle.catalog.adapter.kind = GitHub.kind THEN GitHubSurfaceError(bundle)
    ELSE IF bundle.catalog.adapter.kind = GoCli.kind THEN GoSurfaceError(bundle)
    ELSE "adapter_contract"

RuntimeError(p) ==
    IF p.adapter.kind = GitHub.kind THEN GitHubRuntimeError(p)
    ELSE IF p.adapter.kind = GoCli.kind THEN GoRuntimeError(p)
    ELSE "adapter_contract"

-----------------------------------------------------------------------------
(* internal/app/processorcompat: the one admitted source and processor. *)

Rtk == [kind |-> "atsura.processor.rtk", version |-> 1]

\* The one binding of the registry is within the bounds of a binding.
ASSUME RegistryAssumption ==
    "go_test_pass_summary" \in StableNames /\ Limit.processorArguments >= 2

OfficialArtifacts == [platform \in {"linux_amd64", "darwin_arm64"} |-> "official_" \o platform]

\* VerifyObservation
ObservationAdmitted(o) ==
    /\ o.image # Nil /\ o.environment = "rtk_isolated" /\ o.attempts = 1
    /\ o.adapter = Rtk
    /\ o.version = "0.43.0"
    /\ o.argv = <<Long("version")>>
    /\ o.platform \in DOMAIN OfficialArtifacts
    /\ o.image.bytes = OfficialArtifacts[o.platform]

\* Binding: every fact but the observation is the registry's.
CanonicalBinding(o) ==
    [contract |-> PassContract, observation |-> o, input |-> "go_test_jsonl",
     output |-> "go_test_pass_summary", allowOriginal |-> TRUE,
     execution |-> [args |-> <<Word("pipe"), Inline("filter", "go-test")>>, stdin |-> "stage_input",
                    directory |-> "isolated", environment |-> "rtk_isolated", attempts |-> 1,
                    bounds |-> Limit.execution]]

BindingOf(o) ==
    IF ObservationAdmitted(o) /\ ValidBinding(CanonicalBinding(o))
    THEN Success(CanonicalBinding(o)) ELSE Failure("binding")

\* verifySourceCatalog
GoTestCataloged(catalog) ==
    /\ ValidCatalog(catalog)
    /\ catalog.adapter = GoCli /\ catalog.source.version \in GoVersions
    /\ CommandAt(catalog, GoTest) # Nil
    /\ LET c == CommandAt(catalog, GoTest)
       IN c.provenance = "verified_builtin" /\ c.options = <<>> /\ ExactTestOutput(c.structured)

PassOptimizer ==
    [kind |-> "optimizer", projection |-> Nil,
     optimizer |-> [input |-> "go_test_jsonl", contract |-> PassContract, allowOriginal |-> TRUE]]

\* Mutant: any observation will do.
DefaultEntryUnobserved(catalog, o) ==
    IF ~GoTestCataloged(catalog) THEN Failure("source_tuple")
    ELSE Success([command |-> GoTest, presence |-> "include", reason |-> "default", options |-> InheritAll,
                  wrapper |-> [kind |-> "transform", before |-> <<>>, defaults |-> <<>>,
                               append |-> <<JsonFlag>>, after |-> <<>>, output |-> PassOptimizer]])

\* DefaultEntry
DefaultEntry(catalog, o) ==
    IF ~GoTestCataloged(catalog) THEN Failure("source_tuple")
    ELSE IF ~ObservationAdmitted(o) THEN Failure("observation")
    ELSE Success([command |-> GoTest, presence |-> "include", reason |-> "default", options |-> InheritAll,
                  wrapper |-> [kind |-> "transform", before |-> <<>>, defaults |-> <<>>,
                               append |-> <<JsonFlag>>, after |-> <<>>, output |-> PassOptimizer]])

\* VerifySurface of the registry
TupleAdmitted(bundle) ==
    /\ ValidBundle(bundle)
    /\ GoTestCataloged(bundle.catalog)
    /\ Len(bundle.surface) = 1
    /\ bundle.surface[1].command = GoTest
    /\ bundle.surface[1].options = InheritAll
    /\ OptimizerWrapper(bundle.surface[1].wrapper)
    /\ bundle.surface[1].wrapper.output = PassOptimizer
    /\ Len(bundle.processors) = 1
    /\ BindingOf(bundle.processors[1].observation) = Success(bundle.processors[1])

\* VerifyPlan
PlanTupleAdmitted(p) ==
    /\ ValidPlan(p)
    /\ p.adapter = GoCli /\ p.source.version \in GoVersions
    /\ p.mode = "original_preserving_optimizer" /\ p.origin = "explicit"
    /\ p.command = GoTest /\ p.options = InheritAll /\ p.wrapperKind = "transform"
    /\ p.original = Words(GoTest)
    /\ p.args = Words(GoTest) \o <<JsonFlag>>
    /\ p.output = PassOptimizer
    /\ p.defaults = <<>> /\ p.applied = <<>> /\ p.append = <<JsonFlag>>
    /\ p.processor # Nil
    /\ BindingOf(p.processor.observation) = Success(p.processor)
=============================================================================
