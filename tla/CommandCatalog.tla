--------------------------- MODULE CommandCatalog ---------------------------
(***************************************************************************)
(* The commands of atr as DefaultCatalog declares them                     *)
(* (internal/cli/catalog.go): path, effect, role, inputs, published syntax,*)
(* output and declared failures of each.                                   *)
(***************************************************************************)
EXTENDS CommandContract
LOCAL INSTANCE SequencesExt

CONSTANT MaxExecutableSize   \* the largest executable a binding may name

RequiredFlag(name) == [Input(name, "flag") EXCEPT !.required = TRUE]
OptionalFlag(name) == Input(name, "flag")
FormatFlag(allowed, default) == [Input("--format", "flag") EXCEPT !.allowed = allowed, !.default = default]
Argument(name) == [Input(name, "argument") EXCEPT !.required = TRUE]
Arguments(name) == [Argument(name) EXCEPT !.repeatable = TRUE]

FlagSyntax(name)           == <<SyntaxFlag(name, FALSE), SyntaxValue(<<>>, FALSE)>>
OptionalSyntax(name, allowed) == <<SyntaxFlag(name, TRUE), SyntaxValue(allowed, TRUE)>>
ChoiceSyntax(name, allowed) == <<SyntaxFlag(name, FALSE), SyntaxValue(allowed, FALSE)>>
AfterMarker(names) == <<SyntaxMarker>> \o [k \in DOMAIN names |-> SyntaxArgument(names[k], FALSE)]

Command(words, effect, role, inputs, syntax, output, errors) ==
    [words |-> words, effect |-> effect, role |-> role, inputs |-> inputs, syntax |-> syntax,
     output |-> output, pagination |-> Nil, mutation |-> Nil, fixed |-> Nil, authenticated |-> FALSE,
     errors |-> errors, handled |-> TRUE]

Json(envelope) == Output({"json"}, "json", envelope, "not_applicable")
Schema(output, fields) == [output EXCEPT !.fields = fields]

\* A change of the tool's own store: the store is the target, nothing on the command line selects it.
OnStore(command, kind) ==
    [command EXCEPT !.fixed = kind,
                    !.mutation = [kind |-> kind, targets |-> <<>>, id |-> Nil, parent |-> Nil, impact |-> "one"]]

-----------------------------------------------------------------------------
Doctor ==
    Command(<<"doctor">>, "read", "utility",
        <<FormatFlag(<<"tsv", "json">>, "tsv")>>, OptionalSyntax("--format", <<"tsv", "json">>),
        Output({"tsv", "json"}, "tsv", "report", "exhaustive"),
        Final("invalid_input", "help doctor", {"invalid_arguments"})
        \cup Final("rejected", "doctor", {"diagnostic_failed"})
        \cup Final("contract", "doctor", {"output_contract_exceeded", "output_encoding_failed"})
        \cup Final("internal", "doctor", {"internal_error"})
        \cup Retryable("internal", "doctor", {"output_write_failed"})
        \cup Retryable("canceled", "doctor", {"operation_canceled"}))

HelpCommand ==
    Command(<<"help">>, "read", "utility",
        <<[Input("command", "argument") EXCEPT !.repeatable = TRUE], FormatFlag(<<"text", "agent">>, "text")>>,
        <<SyntaxArgument("command", TRUE)>> \o OptionalSyntax("--format", <<"text", "agent">>),
        Output({"text", "json"}, "text", "commands", "exhaustive"),
        Final("invalid_input", "help", {"invalid_arguments"})
        \cup Final("contract", "help", {"output_encoding_failed"})
        \cup Retryable("internal", "help", {"output_write_failed"})
        \cup Retryable("canceled", "help", {"operation_canceled"}))

\* A retired command answers its historical syntax with one diagnostic and starts nothing.
Legacy(words, recovery, inputs, syntax) ==
    LET path == Join(words)
    IN  Command(words, "read", "utility", inputs, syntax, NoOutput,
            Final("invalid_input", Help(path), {"invalid_arguments"})
            \cup Final("invalid_input", recovery, {"legacy_tailoring_schema"})
            \cup Retryable("canceled", path, {"operation_canceled"}))

PolicyInit ==
    Legacy(<<"policy", "init">>, "help spec init",
        <<RequiredFlag("--catalog"),
          [RequiredFlag("--effect") EXCEPT !.allowed = <<"read", "create", "write">>], Arguments("command")>>,
        FlagSyntax("--catalog") \o ChoiceSyntax("--effect", <<"read", "create", "write">>)
            \o AfterMarker(<<"command">>))

PolicyValidate ==
    Legacy(<<"policy", "validate">>, "help spec validate",
        <<RequiredFlag("--catalog"), RequiredFlag("--policy")>>, FlagSyntax("--catalog") \o FlagSyntax("--policy"))

PlanPreview ==
    Legacy(<<"plan", "preview">>, "help spec validate",
        <<RequiredFlag("--config"), Arguments("command")>>, FlagSyntax("--config") \o AfterMarker(<<"command">>))

Run ==
    Legacy(<<"run">>, "help spec validate",
        <<RequiredFlag("--config"), Arguments("command")>>, FlagSyntax("--config") \o AfterMarker(<<"command">>))

SpecInit ==
    Command(<<"spec", "init">>, "read", "utility",
        <<RequiredFlag("--catalog"), OptionalFlag("--processor"), Arguments("command")>>,
        FlagSyntax("--catalog") \o OptionalSyntax("--processor", <<>>) \o AfterMarker(<<"command">>),
        Schema(Output({"text"}, "text", Nil, "not_applicable"),
               {Field("specification", Nil, <<"tailoring-specification", 5>>)}),
        Final("invalid_input", "help spec init", {"invalid_arguments"})
        \cup Final("not_found", "help spec init", {"catalog_command_not_found"})
        \cup Final("rejected", "source inspect", {"unverified_catalog_command", "catalog_digest_mismatch"})
        \cup Final("contract", "source inspect", {"invalid_source_catalog"})
        \cup Final("contract", "help spec init", {"invalid_specification_draft", "invalid_processor_default",
               "output_contract_exceeded", "output_encoding_failed"})
        \cup Final("not_found", "source inspect", {"catalog_file_not_found"})
        \cup Final("permission", "source inspect", {"catalog_file_permission_denied"})
        \cup Final("invalid_input", "source inspect", {"unsafe_catalog_file", "catalog_file_too_large",
               "invalid_catalog_file"})
        \cup Retryable("unavailable", "source inspect", {"catalog_file_read_failed"})
        \cup Final("rejected", "processor inspect", {"processor_default_not_admitted"})
        \cup Final("internal", "help spec init", {"internal_error"})
        \cup Retryable("internal", "spec init", {"output_write_failed"})
        \cup Retryable("canceled", "spec init", {"operation_canceled"})
        \cup ProcessorObservationErrors("spec init"))

SpecValidate ==
    Command(<<"spec", "validate">>, "read", "utility",
        <<RequiredFlag("--catalog"), RequiredFlag("--spec")>>, FlagSyntax("--catalog") \o FlagSyntax("--spec"),
        Schema(Json("validation"), {Field("specification", Nil, <<"tailoring-specification", 5>>)}),
        ArtifactInputErrors("spec validate", FALSE))

BundleBuild ==
    Command(<<"bundle", "build">>, "read", "utility",
        <<RequiredFlag("--catalog"), RequiredFlag("--spec"), OptionalFlag("--processor")>>,
        FlagSyntax("--catalog") \o FlagSyntax("--spec") \o OptionalSyntax("--processor", <<>>),
        Json("build"),
        ArtifactInputErrors("bundle build", TRUE) \cup ProcessorObservationErrors("bundle build")
        \cup Final("invalid_input", "processor inspect", {"processor_observation_required"})
        \cup Final("invalid_input", "help bundle build", {"processor_observation_not_used"})
        \cup Final("rejected", "processor inspect", {"processor_compatibility_not_admitted"}))

BundleStatus ==
    Command(<<"bundle", "status">>, "read", "utility", <<RequiredFlag("--bundle")>>, FlagSyntax("--bundle"),
        Schema(Json("status"), {Field("processors", Nil, <<"bundle-processor-status", 1>>)}),
        BundleFileErrors("bundle status")
        \cup Final("contract", "help bundle status", {"output_contract_exceeded", "output_encoding_failed"})
        \cup Final("internal", "bundle status", {"internal_error"})
        \cup Retryable("internal", "bundle status", {"output_write_failed"})
        \cup Retryable("canceled", "bundle status", {"operation_canceled"}))

BundlePreview ==
    Command(<<"bundle", "preview">>, "read", "utility",
        <<RequiredFlag("--bundle"), Argument("source-executable"), Arguments("argv")>>,
        FlagSyntax("--bundle") \o AfterMarker(<<"source-executable", "argv">>),
        Schema(Json("preview"), {Field("plan", Nil, <<"wrapper-plan", 6>>)}), BundlePreviewErrors)

BundleExecute ==
    Command(<<"bundle", "execute">>, "execute", "utility",
        <<RequiredFlag("--bundle"), Argument("source-executable"), Arguments("argv")>>,
        FlagSyntax("--bundle") \o AfterMarker(<<"source-executable", "argv">>),
        Schema(Json("execution"), {Field("output", Nil, <<"tailored-json-result", 2>>),
                                   Field("source", Nil, <<"source-execution-result", 1>>)}), BundleExecuteErrors)

WrapperInstall ==
    OnStore(Command(<<"wrapper", "install">>, "create", "act",
                    <<RequiredFlag("--bundle")>>, FlagSyntax("--bundle"), Json("installation"),
                    WrapperInstallErrors),
            "wrapper-shim-store")

WrapperStatus ==
    Command(<<"wrapper", "status">>, "read", "discover", <<>>, <<>>,
        Schema(Output({"json"}, "json", "artifacts", "exhaustive"), {Field("reference", "wrapper-shim-artifact", Nil)}),
        WrapperStatusErrors)

WrapperRemove ==
    [Command(<<"wrapper", "remove">>, "write", "act",
             <<[RequiredFlag("--artifact") EXCEPT !.ref = "wrapper-shim-artifact"]>>, FlagSyntax("--artifact"),
             Json("removal"), WrapperRemoveErrors)
        EXCEPT !.mutation = [kind |-> "wrapper-shim-artifact", targets |-> <<"--artifact">>, id |-> "--artifact",
                             parent |-> Nil, impact |-> "one"]]

WrapperRender ==
    Command(<<"wrapper", "render">>, "read", "utility",
        <<RequiredFlag("--bundle"), FormatFlag(<<"text", "json">>, "text")>>,
        FlagSyntax("--bundle") \o OptionalSyntax("--format", <<"text", "json">>),
        Schema(Output({"text", "json"}, "text", "wrapper", "not_applicable"),
               {Field("contract", Nil, <<"wrapper-contract", 1>>), Field("bundle", Nil, <<"wrapper-bundle-binding", 1>>),
                Field("runtime", Nil, <<"wrapper-runtime-binding", 1>>)}),
        WrapperRenderErrors)

\* The result is described by the plan that bundle preview publishes, not by the catalog.
FreshWrapperPlanOutput ==
    [NoOutput EXCEPT !.authority = "fresh_wrapper_plan", !.formats = {"plan_result"}, !.default = "plan_result",
                     !.plan = [command |-> "bundle preview", field |-> "plan", schema |-> <<"wrapper-plan", 6>>],
                     !.modes = PlanResultModes]

BindingFlags ==
    <<"--contract-version", "--bundle", "--bundle-digest", "--runtime-path", "--runtime-sha256", "--runtime-size">>

WrapperRun ==
    LET contract == <<"3">>
        allowed(k) == IF BindingFlags[k] = "--contract-version" THEN contract ELSE <<>>
        binding(k) ==
            [RequiredFlag(BindingFlags[k]) EXCEPT
                !.kind = IF BindingFlags[k] \in {"--contract-version", "--runtime-size"} THEN "integer" ELSE "text",
                !.allowed = allowed(k),
                !.minimum = IF BindingFlags[k] = "--contract-version" THEN 3
                            ELSE IF BindingFlags[k] = "--runtime-size" THEN 1 ELSE Nil,
                !.maximum = IF BindingFlags[k] = "--contract-version" THEN 3
                            ELSE IF BindingFlags[k] = "--runtime-size" THEN MaxExecutableSize ELSE Nil]
    IN  Command(<<"wrapper", "run">>, "execute", "utility",
            [k \in DOMAIN BindingFlags |-> binding(k)]
                \o <<[Input("argv", "argument") EXCEPT !.repeatable = TRUE]>>,
            FlattenSeq([k \in DOMAIN BindingFlags |-> ChoiceSyntax(BindingFlags[k], allowed(k))])
                \o <<SyntaxMarker, SyntaxArgument("argv", TRUE)>>,
            FreshWrapperPlanOutput, WrapperRunErrors)

BundleTrust ==
    OnStore(Command(<<"bundle", "trust">>, "write", "act", <<RequiredFlag("--bundle")>>, FlagSyntax("--bundle"),
                    Schema(Json("trust"), {Field("processors", Nil, <<"bundle-processor-status", 1>>)}),
                    BundleFileErrors("bundle trust")
                    \cup Final("rejected", "bundle status", {"invalid_bundle_trust_store", "bundle_source_drift",
                           "bundle_processor_drift", "mutation_rejected"})
                    \cup Final("unavailable", "bundle status", {"bundle_trust_store_failed"})
                    \cup Final("contract", "help bundle trust", {"invalid_mutation_contract",
                           "missing_mutation_action", "output_contract_exceeded", "output_encoding_failed"})
                    \cup Final("rejected", "help bundle trust", {"missing_mutation_policy"})
                    \cup Final("contract", "bundle status", {"unclassified_mutation_outcome"})
                    \cup Final("internal", "bundle status", {"internal_error", "mutation_output_write_failed"})
                    \cup Retryable("canceled", "bundle trust", {"operation_canceled"})),
            "bundle-adoption-store")

SampleList ==
    Command(<<"sample", "list">>, "read", "discover",
        <<FormatFlag(<<"tsv", "json">>, "tsv")>>, OptionalSyntax("--format", <<"tsv", "json">>),
        Schema(Output({"tsv", "json"}, "tsv", "items", "exhaustive"), {Field("id", "sample", Nil)}),
        Final("invalid_input", "help sample list", {"invalid_arguments"})
        \cup Retryable("unavailable", "sample list", {"page_fetch_failed"})
        \cup Final("contract", "sample list", {"invalid_page_contract", "pagination_page_limit",
               "pagination_item_limit", "pagination_cursor_loop", "output_contract_exceeded",
               "output_encoding_failed"})
        \cup Final("internal", "sample list", {"internal_error"})
        \cup Retryable("internal", "sample list", {"output_write_failed"})
        \cup Retryable("canceled", "sample list", {"operation_canceled"}))

SampleRead ==
    Command(<<"sample", "read">>, "read", "act",
        <<[RequiredFlag("--id") EXCEPT !.ref = "sample"], FormatFlag(<<"tsv", "json">>, "tsv")>>,
        FlagSyntax("--id") \o OptionalSyntax("--format", <<"tsv", "json">>),
        Output({"tsv", "json"}, "tsv", "item", "not_applicable"),
        Final("invalid_input", "help sample read", {"invalid_arguments"})
        \cup Final("not_found", "sample list", {"sample_not_found"})
        \cup Final("contract", "sample read", {"output_contract_exceeded", "output_encoding_failed"})
        \cup Final("internal", "sample read", {"internal_error"})
        \cup Retryable("internal", "sample read", {"output_write_failed"})
        \cup Retryable("canceled", "sample read", {"operation_canceled"}))

ProcessorInspect ==
    Command(<<"processor", "inspect">>, "execute", "utility",
        <<[RequiredFlag("--adapter") EXCEPT !.allowed = <<"rtk">>], RequiredFlag("--executable")>>,
        ChoiceSyntax("--adapter", <<"rtk">>) \o FlagSyntax("--executable"),
        Schema(Json("inspection"), {Field("observation", Nil, <<"processor-observation", 1>>)}),
        Final("invalid_input", "help processor inspect", {"invalid_arguments",
               "unsupported_processor_adapter", "invalid_processor_executable", "unsupported_processor_version",
               "unsafe_processor_executable"})
        \cup Final("contract", "help processor inspect", {"processor_adapter_contract",
               "invalid_processor_observation", "invalid_processor_process_request", "invalid_processor_identity",
               "processor_stdout_too_large", "processor_stderr_too_large", "output_contract_exceeded",
               "output_encoding_failed"})
        \cup Final("unsupported", "help processor inspect", {"unsupported_processor_platform"})
        \cup Final("rejected", "help processor inspect", {"unsupported_processor_artifact",
               "processor_inspection_failed", "processor_identity_changed", "processor_command_failed"})
        \cup Retryable("unavailable", "processor inspect", {"processor_identity_unavailable",
               "processor_environment_setup_failed", "processor_process_start_failed"})
        \cup Final("canceled", "help processor inspect", {"processor_execution_canceled"})
        \cup Final("unavailable", "help processor inspect", {"processor_timeout", "processor_process_wait_failed",
               "processor_cleanup_failed"})
        \cup Final("internal", "help processor inspect", {"internal_error", "execute_output_write_failed"})
        \cup Retryable("canceled", "processor inspect", {"operation_canceled"}))

SourceInspect ==
    Command(<<"source", "inspect">>, "execute", "utility",
        <<[RequiredFlag("--adapter") EXCEPT !.allowed = <<"github-cli", "go-cli">>], RequiredFlag("--executable")>>,
        ChoiceSyntax("--adapter", <<"github-cli", "go-cli">>) \o FlagSyntax("--executable"),
        Schema(Output({"json"}, "json", "inspection", "exhaustive"), {Field("catalog", Nil, <<"source-command-catalog", 2>>)}),
        Final("invalid_input", "help source inspect", {"invalid_arguments", "unsupported_source_version",
               "unsafe_source_executable"})
        \cup Final("rejected", "help source inspect", {"source_inspection_failed", "source_identity_changed",
               "source_command_failed"})
        \cup Final("contract", "help source inspect", {"invalid_source_catalog", "invalid_source_process_request",
               "invalid_source_process_result", "invalid_source_identity", "source_stdout_too_large",
               "source_stderr_too_large", "output_contract_exceeded", "output_encoding_failed"})
        \cup Final("not_found", "help source inspect", {"source_executable_not_found"})
        \cup Retryable("unavailable", "help source inspect", {"source_identity_unavailable",
               "source_process_start_failed"})
        \cup Final("unavailable", "help source inspect", {"source_command_timeout", "source_process_wait_failed"})
        \cup Final("canceled", "help source inspect", {"source_execution_canceled"})
        \cup Final("internal", "help source inspect", {"internal_error", "execute_output_write_failed"})
        \cup Retryable("canceled", "source inspect", {"operation_canceled"}))

Version ==
    Command(<<"version">>, "read", "utility", <<>>, <<>>, Output({"text"}, "text", Nil, "not_applicable"),
        Final("invalid_input", "help version", {"invalid_arguments"})
        \cup Retryable("internal", "version", {"output_write_failed"})
        \cup Retryable("canceled", "version", {"operation_canceled"}))

DefaultCatalog ==
    <<Doctor, HelpCommand, PolicyInit, PolicyValidate, SpecInit, SpecValidate, BundleBuild, BundleStatus,
      BundlePreview, BundleExecute, WrapperInstall, WrapperStatus, WrapperRemove, WrapperRender, WrapperRun,
      BundleTrust, PlanPreview, Run, SampleList, SampleRead, ProcessorInspect, SourceInspect, Version>>
=============================================================================
