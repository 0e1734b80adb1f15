--------------------------- MODULE ServiceFaults ---------------------------
(***************************************************************************)
(* The failures the application services of internal/app can return for    *)
(* the commands of the default catalog, in the order their steps run.      *)
(*                                                                         *)
(* An outcome keeps what dispatch compares with the declaration (code, kind*)
(* and whether it may be repeated) and one fact dispatch never sees: began,*)
(* whether what the caller asked for (a started program, a changed store)  *)
(* may have happened by then.                                              *)
(***************************************************************************)
EXTENDS Sequences

Outcomes(kind, retryable, began, codes) ==
    {[code |-> c, kind |-> kind, retryable |-> retryable, began |-> began] : c \in codes}

Refused(kind, codes) == Outcomes(kind, FALSE, FALSE, codes)   \* nothing has begun and nothing helps
Passing(kind, codes) == Outcomes(kind, TRUE, FALSE, codes)    \* nothing has begun, the same call may succeed
Late(kind, codes)    == Outcomes(kind, FALSE, TRUE, codes)    \* the effect has begun

\* An error no port classified, and a context error handed back as it is.
Unclassified == Refused("internal", {"internal_error"})
Canceled     == Passing("canceled", {"operation_canceled"})

-----------------------------------------------------------------------------
(* Files (internal/infra).                                                 *)

\* A bounded local file. A canceled read is reported like any other failure to read (localfile.Read, fileFault).
FileFaults(document) ==
    Refused("not_found", {document \o "_file_not_found"})
    \cup Refused("permission", {document \o "_file_permission_denied"})
    \cup Refused("invalid_input", {"unsafe_" \o document \o "_file", document \o "_file_too_large"})
    \cup Passing("unavailable", {document \o "_file_read_failed"})

LoadCatalog ==
    FileFaults("catalog") \cup Refused("invalid_input", {"invalid_catalog_file"})
    \cup Refused("rejected", {"catalog_digest_mismatch"})

LoadSpecification ==
    FileFaults("specification")
    \cup Refused("invalid_input", {"legacy_tailoring_schema", "invalid_specification_yaml"})

LoadBundle ==
    FileFaults("bundle") \cup Refused("invalid_input", {"legacy_tailoring_schema", "invalid_bundle_file"})
    \cup Refused("rejected", {"bundle_digest_mismatch"})

LoadObservation ==
    FileFaults("processor_observation")
    \cup Refused("invalid_input", {"invalid_processor_observation_file"})

IdentifySource ==
    Refused("not_found", {"source_executable_not_found"})
    \cup Refused("invalid_input", {"unsafe_source_executable"})
    \cup Refused("rejected", {"source_identity_changed"})
    \cup Refused("contract", {"invalid_source_identity"})
    \cup Passing("unavailable", {"source_identity_unavailable"})
    \cup Canceled

IdentifyProcessor ==
    Refused("invalid_input", {"invalid_processor_executable", "unsafe_processor_executable"})
    \cup Refused("rejected", {"processor_identity_changed"})
    \cup Refused("contract", {"invalid_processor_identity"})
    \cup Passing("unavailable", {"processor_identity_unavailable"})
    \cup Canceled

-----------------------------------------------------------------------------
(* Specifications and bundles (bundlebuild, specinit, bundleauthority).    *)

ObservationPath == Refused("invalid_input", {"invalid_processor_observation_selection"})

LoadInputs == Canceled \cup LoadCatalog \cup LoadSpecification

ValidateSpecification == LoadInputs \cup Refused("invalid_input", {"invalid_specification"})

Build ==
    ObservationPath \cup ValidateSpecification
    \cup Refused("invalid_input", {"processor_observation_required", "processor_observation_not_used"})
    \cup LoadObservation
    \cup Refused("rejected", {"processor_compatibility_not_admitted"})
    \cup Refused("contract", {"invalid_bundle"})

InitSpecification ==
    Canceled \cup ObservationPath \cup LoadCatalog
    \cup Refused("rejected", {"unverified_catalog_command"})
    \cup Refused("not_found", {"catalog_command_not_found"})
    \cup Refused("contract", {"invalid_source_catalog"})
    \cup LoadObservation
    \cup Refused("rejected", {"processor_default_not_admitted"})
    \cup Refused("contract", {"invalid_processor_default", "invalid_specification_draft"})

\* Adoption, source and processor states are data of the report, not failures.
Status == Canceled \cup LoadBundle

\* What the mutation boundary answers before the action runs.
Boundary ==
    Refused("contract", {"invalid_mutation_contract", "missing_mutation_action"})
    \cup Canceled
    \cup Refused("rejected", {"missing_mutation_policy", "mutation_rejected"})

\* An action that returns no valid fault may have changed the store (sanitizeMutationOutcomeError).
UnknownOutcome == Late("contract", {"unclassified_mutation_outcome"})

Trust ==
    Canceled \cup LoadBundle
    \cup Refused("rejected", {"invalid_bundle_trust_store", "bundle_source_drift", "bundle_processor_drift"})
    \cup Boundary \cup Late("unavailable", {"bundle_trust_store_failed"}) \cup UnknownOutcome

-----------------------------------------------------------------------------
(* Plans (planpreview, planapply, wrapperrun).                             *)

Adoption == Refused("rejected", {"invalid_bundle_trust_store", "bundle_not_adopted"})

PlanFaults ==
    Refused("invalid_input", {"source_executable_mismatch", "invalid_invocation"})
    \cup Refused("not_found", {"command_not_in_surface", "option_not_in_surface"})
    \cup Refused("contract", {"invalid_wrapper_plan"})

Preview ==
    Canceled \cup LoadBundle \cup Adoption \cup IdentifySource
    \cup Refused("rejected", {"bundle_source_drift"}) \cup PlanFaults \cup Unclassified

\* Up to the start of the source. Only a failure to start it is offered for retry beside the identity reads.
BeforeSource ==
    Preview
    \cup Refused("unsupported", {"wrapper_runtime_not_supported"})
    \cup Refused("contract", {"invalid_source_process_request"})
    \cup Passing("unavailable", {"source_process_start_failed"})

\* The runner's answer decides what may have begun; a bare context error proves nothing (classifyProcess).
AfterSource ==
    Late("contract", {"source_stdout_too_large", "source_stderr_too_large", "source_stderr_not_supported",
                      "source_json_invalid", "output_transform_failed", "unclassified_source_execution_outcome"})
    \cup Refused("contract", {"unclassified_source_execution_outcome"})
    \cup Late("canceled", {"source_execution_canceled", "source_output_processing_canceled"})
    \cup Late("unavailable", {"source_command_timeout", "source_process_wait_failed"})
    \cup Late("rejected", {"source_identity_changed", "source_command_failed"})

\* Mutant: a processor that cannot be read is reported alike before and after the source ran.
AfterProcessorUnnoticed ==
    Outcomes("unavailable", TRUE, TRUE, {"processor_identity_unavailable"})
    \cup Late("rejected", {"processor_identity_changed", "processor_command_failed"})

AfterProcessor ==
    Late("rejected", {"processor_identity_changed", "processor_command_failed"})
    \cup Late("unavailable", {"processor_identity_unavailable_after_source",
                              "processor_environment_setup_failed_after_source",
                              "processor_process_start_failed_after_source", "processor_cleanup_failed",
                              "processor_timeout", "processor_process_wait_failed"})
    \cup Late("invalid_input", {"invalid_processor_executable", "unsafe_processor_executable"})
    \cup Late("contract", {"invalid_processor_identity", "invalid_processor_process_request",
                           "processor_stdout_too_large", "processor_stderr_too_large",
                           "processor_output_not_admitted", "unclassified_processor_execution_outcome"})
    \cup Late("canceled", {"processor_execution_canceled"})

\* bundle execute admits transforming plans only; a wrapper also optimizes, and names the bundle it was made for.
Apply == BeforeSource \cup AfterSource

ApplyBound ==
    Apply \cup Refused("rejected", {"bundle_binding_mismatch"}) \cup IdentifyProcessor \cup AfterProcessor

RunWrapper ==
    Canceled
    \cup Refused("invalid_input", {"invalid_wrapper_binding"})
    \cup Refused("unavailable", {"wrapper_runtime_unavailable"})
    \cup Refused("rejected", {"wrapper_runtime_drift"})
    \cup ApplyBound

-----------------------------------------------------------------------------
(* Wrappers (wrapperrender, wrappershimcmd).                               *)

\* On a platform already known to be POSIX.
Materialize ==
    Canceled
    \cup Refused("invalid_input", {"invalid_wrapper_binding"})
    \cup Refused("unsupported", {"wrapper_runtime_not_supported"})
    \cup LoadBundle \cup Adoption \cup IdentifySource
    \cup Refused("rejected", {"bundle_source_drift", "bundle_processor_drift"})
    \cup IdentifyProcessor
    \cup Refused("unavailable", {"wrapper_runtime_unavailable"})

Render ==
    Refused("unsupported", {"wrapper_platform_not_supported"})
    \cup Materialize \cup Refused("contract", {"wrapper_render_failed"})

ShimPlatform == Refused("unsupported", {"wrapper_artifact_platform_not_supported"})
ShimContract == Refused("contract", {"wrapper_artifact_store_contract"})

\* The store can refuse, or fail after it changed something (classifyMutationStoreError).
ShimMutation ==
    Refused("invalid_input", {"invalid_wrapper_artifact"}) \cup ShimPlatform
    \cup Refused("rejected", {"wrapper_artifact_store_unsafe", "wrapper_artifact_collision",
                              "wrapper_artifact_tampered", "wrapper_artifact_capacity_exceeded"})
    \cup Refused("not_found", {"wrapper_artifact_not_found"})
    \cup Late("unavailable", {"wrapper_artifact_mutation_uncertain"})
    \cup UnknownOutcome

InstallShim ==
    Canceled \cup ShimPlatform \cup ShimContract \cup Materialize
    \cup Refused("contract", {"wrapper_artifact_render_failed"})
    \cup Boundary \cup ShimMutation \cup Late("contract", {"wrapper_artifact_store_contract"})

ShimStatus ==
    Canceled \cup ShimPlatform \cup ShimContract
    \cup Refused("rejected", {"wrapper_artifact_store_unsafe", "wrapper_artifact_collision",
                              "wrapper_artifact_tampered", "wrapper_artifact_capacity_exceeded"})
    \cup Refused("not_found", {"wrapper_artifact_not_found"})
    \cup Passing("unavailable", {"wrapper_artifact_status_unavailable"})
    \cup Unclassified

RemoveShim ==
    Canceled \cup ShimPlatform \cup ShimContract
    \cup Refused("invalid_input", {"invalid_wrapper_artifact"})
    \cup Boundary \cup ShimMutation \cup Late("contract", {"wrapper_artifact_store_contract"})

-----------------------------------------------------------------------------
(* Inspections. Each probe only asks a program for its version or its help;*)
(* a later probe can fail to start after an earlier one ran.               *)

InspectSource ==
    Canceled \cup Unclassified
    \cup UNION {Outcomes(o.kind, o.retryable, began, {o.code}) :
                    o \in IdentifySource \ Canceled, began \in BOOLEAN}
    \cup UNION {Outcomes("unavailable", TRUE, began, {"source_process_start_failed"}) : began \in BOOLEAN}
    \cup Late("invalid_input", {"unsupported_source_version"})
    \cup Late("rejected", {"source_inspection_failed", "source_command_failed"})
    \cup Late("contract", {"invalid_source_catalog", "source_stdout_too_large", "source_stderr_too_large"})
    \cup Late("unavailable", {"source_command_timeout", "source_process_wait_failed"})
    \cup Late("canceled", {"source_execution_canceled"})

InspectProcessor ==
    Canceled \cup Unclassified
    \cup Refused("contract", {"processor_adapter_contract"})
    \cup Refused("invalid_input", {"unsupported_processor_adapter", "invalid_processor_executable"})
    \cup Refused("unsupported", {"unsupported_processor_platform"})
    \cup (IdentifyProcessor \ Canceled)
    \cup Refused("rejected", {"unsupported_processor_artifact"})
    \cup Passing("unavailable", {"processor_environment_setup_failed", "processor_process_start_failed"})
    \cup Late("invalid_input", {"unsupported_processor_version"})
    \cup Late("rejected", {"processor_inspection_failed", "processor_identity_changed", "processor_command_failed"})
    \cup Late("contract", {"invalid_processor_observation", "processor_stdout_too_large",
                           "processor_stderr_too_large"})
    \cup Late("unavailable", {"processor_timeout", "processor_process_wait_failed", "processor_cleanup_failed"})
    \cup Outcomes("canceled", FALSE, FALSE, {"processor_execution_canceled"})
    \cup Late("canceled", {"processor_execution_canceled"})

-----------------------------------------------------------------------------
(* Diagnostics and samples (doctorcmd, samplecmd, pagination).             *)

Diagnose == Canceled \cup Unclassified

ListSamples ==
    Canceled \cup Unclassified
    \cup Refused("contract", {"invalid_page_contract", "pagination_page_limit", "pagination_item_limit",
                              "pagination_cursor_loop"})
    \cup Passing("unavailable", {"page_fetch_failed"})

ReadSample == Canceled \cup Unclassified \cup Refused("not_found", {"sample_not_found"})

-----------------------------------------------------------------------------
\* A retired command answers before it looks at anything (legacyTailoringSchemaFault).
Retired == Refused("invalid_input", {"legacy_tailoring_schema"})

\* The service a handler calls, by command path.
ServiceFaults(path) ==
    CASE path = "doctor"            -> Diagnose
      [] path \in {"policy init", "policy validate", "plan preview", "run"} -> Retired
      [] path = "spec init"         -> InitSpecification
      [] path = "spec validate"     -> ValidateSpecification
      [] path = "bundle build"      -> Build
      [] path = "bundle status"     -> Status
      [] path = "bundle trust"      -> Trust
      [] path = "bundle preview"    -> Preview
      [] path = "bundle execute"    -> Apply
      [] path = "wrapper install"   -> InstallShim
      [] path = "wrapper status"    -> ShimStatus
      [] path = "wrapper remove"    -> RemoveShim
      [] path = "wrapper render"    -> Render
      [] path = "wrapper run"       -> RunWrapper
      [] path = "sample list"       -> ListSamples
      [] path = "sample read"       -> ReadSample
      [] path = "processor inspect" -> InspectProcessor
      [] path = "source inspect"    -> InspectSource
      [] OTHER                      -> {}

\* The failures only a canceled caller sees.
CanceledCodes == {"operation_canceled", "source_execution_canceled", "source_output_processing_canceled",
                  "processor_execution_canceled"}
=============================================================================
