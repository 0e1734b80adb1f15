---------------------------- MODULE CommandErrors ----------------------------
(***************************************************************************)
(* The failures the command catalog declares for the commands that share  *)
(* them (internal/cli/catalog.go).  A row keeps what dispatch compares and *)
(* what recovery follows: the code, its kind, whether the caller may repeat*)
(* the command, and the command that recovers.                             *)
(***************************************************************************)
EXTENDS Sequences

\* One declared failure (declaredCommandError), for a set of codes that differ in nothing else.
Final(kind, next, codes) == {[code |-> c, kind |-> kind, retryable |-> FALSE, next |-> next] : c \in codes}
Retryable(kind, next, codes) == {[code |-> c, kind |-> kind, retryable |-> TRUE, next |-> next] : c \in codes}

Help(command) == "help " \o command

\* The reading of a catalog and a specification and the validation of one against the other (artifactInputErrors).
ArtifactInputErrors(command, includeBundle) ==
    Final("invalid_input", Help(command), {"invalid_arguments"})
    \cup Final("not_found", "source inspect", {"catalog_file_not_found"})
    \cup Final("permission", "source inspect", {"catalog_file_permission_denied"})
    \cup Final("invalid_input", "source inspect", {"unsafe_catalog_file", "catalog_file_too_large",
           "invalid_catalog_file"})
    \cup Retryable("unavailable", "source inspect", {"catalog_file_read_failed"})
    \cup Final("rejected", "source inspect", {"catalog_digest_mismatch"})
    \cup Final("not_found", "help spec validate", {"specification_file_not_found"})
    \cup Final("permission", "help spec validate", {"specification_file_permission_denied"})
    \cup Final("invalid_input", "help spec validate", {"unsafe_specification_file", "specification_file_too_large",
           "invalid_specification_yaml", "invalid_specification"})
    \cup Retryable("unavailable", "help spec validate", {"specification_file_read_failed"})
    \cup Final("invalid_input", "help spec init", {"legacy_tailoring_schema"})
    \cup (IF includeBundle THEN Final("contract", "help bundle build", {"invalid_bundle"}) ELSE {})
    \cup Final("contract", Help(command), {"output_contract_exceeded", "output_encoding_failed"})
    \cup Final("internal", Help(command), {"internal_error"})
    \cup Retryable("internal", command, {"output_write_failed"})
    \cup Retryable("canceled", command, {"operation_canceled"})

\* The reading of a processor observation document (processorObservationErrors).
ProcessorObservationErrors(command) ==
    Final("invalid_input", Help(command), {"invalid_processor_observation_selection"})
    \cup Final("not_found", "processor inspect", {"processor_observation_file_not_found"})
    \cup Final("permission", "processor inspect", {"processor_observation_file_permission_denied"})
    \cup Final("invalid_input", "processor inspect", {"unsafe_processor_observation_file",
           "processor_observation_file_too_large", "invalid_processor_observation_file"})
    \cup Retryable("unavailable", "processor inspect", {"processor_observation_file_read_failed"})

\* The reading of a bundle document (bundleFileErrors).
BundleFileErrors(command) ==
    Final("invalid_input", Help(command), {"invalid_arguments"})
    \cup Final("not_found", "bundle build", {"bundle_file_not_found"})
    \cup Final("permission", "bundle status", {"bundle_file_permission_denied"})
    \cup Final("invalid_input", "bundle build", {"unsafe_bundle_file", "bundle_file_too_large",
           "invalid_bundle_file"})
    \cup Retryable("unavailable", "bundle status", {"bundle_file_read_failed"})
    \cup Final("invalid_input", "help bundle build", {"legacy_tailoring_schema"})
    \cup Final("rejected", "bundle build", {"bundle_digest_mismatch"})

\* errors[0] of the common group is restated for the command: same code and kind (bundlePreviewErrors).
BundlePreviewErrors ==
    BundleFileErrors("bundle preview")
    \cup Final("rejected", "bundle status", {"invalid_bundle_trust_store", "bundle_source_drift",
           "source_identity_changed"})
    \cup Final("rejected", "bundle trust", {"bundle_not_adopted"})
    \cup Final("not_found", "bundle status", {"source_executable_not_found"})
    \cup Retryable("unavailable", "bundle status", {"source_identity_unavailable"})
    \cup Final("invalid_input", "bundle status", {"unsafe_source_executable"})
    \cup Final("contract", "bundle status", {"invalid_source_identity"})
    \cup Final("invalid_input", "help bundle preview", {"source_executable_mismatch", "invalid_invocation"})
    \cup Final("not_found", "help bundle preview", {"command_not_in_surface", "option_not_in_surface"})
    \cup Final("contract", "help bundle preview", {"invalid_wrapper_plan", "output_contract_exceeded",
           "output_encoding_failed"})
    \cup Final("internal", "bundle status", {"internal_error"})
    \cup Retryable("internal", "bundle preview", {"output_write_failed"})
    \cup Retryable("canceled", "bundle preview", {"operation_canceled"})

\* (bundleExecuteErrors)
BundleExecuteErrors ==
    BundleFileErrors("bundle execute")
    \cup Final("rejected", "bundle status", {"invalid_bundle_trust_store", "bundle_source_drift",
           "source_identity_changed"})
    \cup Final("rejected", "bundle trust", {"bundle_not_adopted"})
    \cup Final("not_found", "bundle status", {"source_executable_not_found"})
    \cup Retryable("unavailable", "bundle status", {"source_identity_unavailable"})
    \cup Final("invalid_input", "bundle status", {"unsafe_source_executable"})
    \cup Final("contract", "bundle status", {"invalid_source_identity", "unclassified_source_execution_outcome"})
    \cup Final("invalid_input", "help bundle execute", {"source_executable_mismatch", "invalid_invocation"})
    \cup Final("not_found", "help bundle execute", {"command_not_in_surface", "option_not_in_surface"})
    \cup Final("contract", "bundle preview", {"invalid_wrapper_plan", "invalid_source_process_request",
           "source_json_invalid", "output_transform_failed", "output_contract_exceeded", "output_encoding_failed"})
    \cup Final("unsupported", "help bundle execute", {"wrapper_runtime_not_supported"})
    \cup Retryable("unavailable", "bundle execute", {"source_process_start_failed"})
    \cup Final("contract", "help bundle execute", {"source_stdout_too_large", "source_stderr_too_large",
           "source_stderr_not_supported"})
    \cup Final("canceled", "bundle status", {"source_execution_canceled", "source_output_processing_canceled"})
    \cup Final("unavailable", "bundle status", {"source_command_timeout", "source_process_wait_failed"})
    \cup Final("rejected", "help bundle execute", {"source_command_failed"})
    \cup Final("internal", "bundle status", {"internal_error", "execute_output_write_failed"})
    \cup Retryable("canceled", "bundle execute", {"operation_canceled"})

\* (wrapperRenderErrors)
WrapperRenderErrors ==
    BundleFileErrors("wrapper render")
    \cup Final("invalid_input", "help wrapper render", {"invalid_wrapper_binding"})
    \cup Final("unsupported", "help wrapper render", {"wrapper_platform_not_supported",
           "wrapper_runtime_not_supported"})
    \cup Final("rejected", "bundle status", {"invalid_bundle_trust_store", "bundle_source_drift",
           "source_identity_changed", "processor_identity_changed", "bundle_processor_drift"})
    \cup Final("rejected", "bundle trust", {"bundle_not_adopted"})
    \cup Final("not_found", "bundle status", {"source_executable_not_found"})
    \cup Retryable("unavailable", "bundle status", {"source_identity_unavailable",
           "processor_identity_unavailable"})
    \cup Final("invalid_input", "bundle status", {"unsafe_source_executable", "invalid_processor_executable",
           "unsafe_processor_executable"})
    \cup Final("contract", "bundle status", {"invalid_source_identity", "invalid_processor_identity"})
    \cup Final("unavailable", "help wrapper render", {"wrapper_runtime_unavailable"})
    \cup Final("contract", "help wrapper render", {"wrapper_render_failed", "output_contract_exceeded",
           "output_encoding_failed"})
    \cup Final("internal", "bundle status", {"internal_error"})
    \cup Retryable("internal", "wrapper render", {"output_write_failed"})
    \cup Retryable("canceled", "wrapper render", {"operation_canceled"})

\* The shim store (wrapperArtifactCommonErrors).
WrapperArtifactCommonErrors(helpCommand) ==
    Final("unsupported", helpCommand, {"wrapper_artifact_platform_not_supported"})
    \cup Final("invalid_input", helpCommand, {"invalid_wrapper_artifact"})
    \cup Final("contract", "wrapper status", {"wrapper_artifact_store_contract"})
    \cup Final("rejected", "wrapper status", {"wrapper_artifact_store_unsafe",
           "wrapper_artifact_capacity_exceeded", "wrapper_artifact_collision", "wrapper_artifact_tampered"})
    \cup Final("not_found", "wrapper status", {"wrapper_artifact_not_found"})

\* What the rendering of a wrapper can raise, with the recovery of an installation (wrapperMaterializationErrors).
WrapperMaterializationErrors ==
    LET excluded == {"invalid_arguments", "wrapper_platform_not_supported", "wrapper_render_failed",
                     "output_contract_exceeded", "output_encoding_failed", "output_write_failed",
                     "operation_canceled"}
        evidence == {"invalid_bundle_trust_store", "bundle_source_drift", "bundle_processor_drift",
                     "source_executable_not_found", "source_identity_unavailable", "unsafe_source_executable",
                     "source_identity_changed", "invalid_source_identity", "processor_identity_unavailable",
                     "processor_identity_changed", "invalid_processor_executable",
                     "unsafe_processor_executable", "invalid_processor_identity"}
        next(code) == IF code = "bundle_not_adopted" THEN "bundle trust"
                      ELSE IF code \in evidence THEN "bundle status"
                      ELSE IF code = "internal_error" THEN "wrapper status" ELSE "help wrapper install"
    IN {[e EXCEPT !.next = next(e.code)] : e \in {d \in WrapperRenderErrors : d.code \notin excluded}}

\* (wrapperInstallErrors)
WrapperInstallErrors ==
    WrapperMaterializationErrors \cup WrapperArtifactCommonErrors("help wrapper install")
    \cup Final("invalid_input", "help wrapper install", {"invalid_arguments"})
    \cup Final("contract", "help wrapper install", {"wrapper_artifact_render_failed", "invalid_mutation_contract",
           "missing_mutation_action"})
    \cup Final("unavailable", "wrapper status", {"wrapper_artifact_mutation_uncertain"})
    \cup Final("rejected", "help wrapper install", {"missing_mutation_policy"})
    \cup Final("rejected", "wrapper status", {"mutation_rejected"})
    \cup Final("contract", "wrapper status", {"unclassified_mutation_outcome", "output_contract_exceeded",
           "output_encoding_failed"})
    \cup Final("internal", "wrapper status", {"mutation_output_write_failed"})
    \cup Retryable("canceled", "wrapper install", {"operation_canceled"})

\* (wrapperStatusErrors)
WrapperStatusErrors ==
    WrapperArtifactCommonErrors("help wrapper status")
    \cup Final("invalid_input", "help wrapper status", {"invalid_arguments"})
    \cup Retryable("unavailable", "wrapper status", {"wrapper_artifact_status_unavailable"})
    \cup Final("contract", "help wrapper status", {"output_contract_exceeded", "output_encoding_failed"})
    \cup Final("internal", "wrapper status", {"internal_error"})
    \cup Retryable("internal", "wrapper status", {"output_write_failed"})
    \cup Retryable("canceled", "wrapper status", {"operation_canceled"})

\* (wrapperRemoveErrors)
WrapperRemoveErrors ==
    WrapperArtifactCommonErrors("help wrapper remove")
    \cup Final("invalid_input", "help wrapper remove", {"invalid_arguments"})
    \cup Final("unavailable", "wrapper status", {"wrapper_artifact_mutation_uncertain"})
    \cup Final("contract", "help wrapper remove", {"invalid_mutation_contract", "missing_mutation_action"})
    \cup Final("rejected", "help wrapper remove", {"missing_mutation_policy"})
    \cup Final("rejected", "wrapper status", {"mutation_rejected"})
    \cup Final("contract", "wrapper status", {"unclassified_mutation_outcome", "output_contract_exceeded",
           "output_encoding_failed"})
    \cup Final("internal", "wrapper status", {"internal_error", "mutation_output_write_failed"})
    \cup Retryable("canceled", "wrapper remove", {"operation_canceled"})

\* The commands a generated shim runs: every failure after the source started is final (wrapperRunErrors).
WrapperRunErrors ==
    BundleFileErrors("wrapper run")
    \cup Final("invalid_input", "wrapper render", {"invalid_wrapper_binding", "source_executable_mismatch"})
    \cup Final("unavailable", "wrapper render", {"wrapper_runtime_unavailable"})
    \cup Final("rejected", "wrapper render", {"wrapper_runtime_drift", "bundle_binding_mismatch"})
    \cup Final("rejected", "bundle status", {"invalid_bundle_trust_store", "bundle_source_drift",
           "source_identity_changed", "processor_identity_changed", "processor_command_failed"})
    \cup Final("rejected", "bundle trust", {"bundle_not_adopted"})
    \cup Final("not_found", "bundle status", {"source_executable_not_found"})
    \cup Retryable("unavailable", "bundle status", {"source_identity_unavailable"})
    \cup Final("invalid_input", "bundle status", {"unsafe_source_executable", "invalid_processor_executable",
           "unsafe_processor_executable"})
    \cup Final("contract", "bundle status", {"invalid_source_identity", "unclassified_source_execution_outcome",
           "invalid_processor_identity", "processor_stdout_too_large", "processor_stderr_too_large",
           "processor_output_not_admitted", "unclassified_processor_execution_outcome"})
    \cup Final("invalid_input", "help wrapper run", {"invalid_invocation"})
    \cup Final("not_found", "help wrapper run", {"command_not_in_surface", "option_not_in_surface"})
    \cup Final("contract", "bundle preview", {"invalid_wrapper_plan", "invalid_source_process_request",
           "source_json_invalid", "output_transform_failed", "invalid_processor_process_request",
           "output_contract_exceeded", "output_encoding_failed"})
    \cup Final("unsupported", "help wrapper run", {"wrapper_runtime_not_supported"})
    \cup Retryable("unavailable", "wrapper run", {"source_process_start_failed", "processor_identity_unavailable"})
    \cup Final("contract", "help wrapper run", {"source_stdout_too_large", "source_stderr_too_large",
           "source_stderr_not_supported"})
    \cup Final("canceled", "bundle status", {"source_execution_canceled", "source_output_processing_canceled"})
    \cup Final("unavailable", "bundle status", {"source_command_timeout", "source_process_wait_failed",
           "processor_identity_unavailable_after_source", "processor_environment_setup_failed_after_source",
           "processor_process_start_failed_after_source", "processor_timeout", "processor_process_wait_failed",
           "processor_cleanup_failed"})
    \cup Final("rejected", "help wrapper run", {"source_command_failed"})
    \cup Final("canceled", "help wrapper run", {"processor_execution_canceled"})
    \cup Final("internal", "bundle status", {"internal_error", "execute_output_write_failed"})
    \cup Retryable("canceled", "wrapper run", {"operation_canceled"})
==============================================================================
