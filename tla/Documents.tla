----------------------------- MODULE Documents -----------------------------
(***************************************************************************)
(* The JSON documents atr writes and the shapes its help publishes for     *)
(* them. A document is what encoding/json makes of a Go value: a nil       *)
(* pointer is null, or left out where the field says omitempty, and a nil  *)
(* slice is null too. A published schema is a list of paths in the code    *)
(* (cli/catalog.go) and the tree of those paths here.                      *)
(***************************************************************************)
EXTENDS SourceRuntime

-----------------------------------------------------------------------------
(* Documents, of which only the shape matters: a text is like another.     *)

Text   == [kind |-> "string"]
Number == [kind |-> "integer"]
Truth  == [kind |-> "boolean"]
Null   == [kind |-> "null"]
Node(fields) == [kind |-> "object", fields |-> fields]
List(slice, Of(_)) ==
    IF slice = Nil THEN Null
    ELSE [kind |-> "array", items |-> [i \in DOMAIN slice |-> Of(slice[i])]]
Texts(slice) == List(slice, LAMBDA item : Text)
Pointer(value, Of(_)) == IF value = Nil THEN Null ELSE Of(value)
OmitEmpty(name, value, Of(_)) == IF value = Nil THEN <<>> ELSE name :> Of(value)

AdapterNode == Node([kind |-> Text, contract_version |-> Number])

OptionNode(o) == Node([name |-> Text, takes_value |-> Truth])
StructuredNode(s) == Node([format |-> Text, selector_flag |-> Text, fields |-> Texts(s.fields)])
CatalogedNode(c) ==
    Node([path |-> Texts(c.path), summary |-> Text, provenance |-> Text,
          options |-> List(c.options, OptionNode),
          structured_output |-> List(c.structured, StructuredNode)])
CatalogNode(c) ==
    Node([schema_version |-> Number, adapter |-> AdapterNode,
          source |-> Node([requested_executable |-> Text, resolved_path |-> Text, sha256 |-> Text,
                           size |-> Number, version |-> Text]),
          probe |-> Node([ids |-> Texts(c.probe.ids), attempts |-> Number]),
          commands |-> List(c.commands, CatalogedNode)])

ObservationNode(o) ==
    Node([schema_version |-> Number, adapter |-> AdapterNode, platform |-> Node([os |-> Text, arch |-> Text]),
          identity |-> Node([resolved_path |-> Text, sha256 |-> Text, size |-> Number]),
          version |-> Text,
          probe |-> Node([argv |-> Texts(o.argv), environment_contract |-> Text, attempts |-> Number])])

SurfaceNode(o) == Node([default |-> Text, include |-> Texts(o.include), exclude |-> Texts(o.exclude)])
ActionNode(a) == Node([kind |-> Text])
DefaultNode(d) == Node([option |-> Text, value |-> Text])
RenameNode(r) == Node([from |-> Text, to |-> Text])
ProjectionNode(p) ==
    Node([input |-> Text, select |-> Texts(p.select), rename |-> List(p.rename, RenameNode), render |-> Text])
OptimizerNode(o) == Node([input |-> Text, contract |-> Text, allow_original_output |-> Truth])
OutputNode(o) ==
    Node([kind |-> Text] @@ OmitEmpty("projection", o.projection, ProjectionNode)
                         @@ OmitEmpty("optimizer", o.optimizer, OptimizerNode))
WrapperNode(w) ==
    Node([kind |-> Text, before |-> List(w.before, ActionNode), after |-> List(w.after, ActionNode),
          invoke |-> Node([option_defaults |-> List(w.defaults, DefaultNode), append_args |-> Texts(w.append)])]
         @@ OmitEmpty("output", w.output, OutputNode))
EntryNode(e) ==
    Node([command |-> Texts(e.command), presence |-> Text, reason |-> Text]
         @@ OmitEmpty("options", e.options, SurfaceNode) @@ OmitEmpty("wrapper", e.wrapper, WrapperNode))
SpecificationNode(s) ==
    Node([schema_version |-> Number, catalog_digest |-> Text, surface |-> Node([default |-> Text]),
          commands |-> List(s.commands, EntryNode)])

BindingNode(b) ==
    Node([contract |-> Text, observation |-> ObservationNode(b.observation), input_format |-> Text,
          output_format |-> Text, allow_original_output |-> Truth,
          execution |-> Node([args |-> Texts(b.execution.args), stdin_mode |-> Text,
                              working_directory_mode |-> Text, environment_contract |-> Text,
                              max_attempts |-> Number, timeout_millis |-> Number,
                              stdout_limit_bytes |-> Number, stderr_limit_bytes |-> Number])])

InvokeNode(p) ==
    Node([executable |-> Text, args |-> Texts(p.args), option_defaults |-> List(p.defaults, DefaultNode),
          applied_option_defaults |-> List(p.applied, DefaultNode), appended_args |-> Texts(p.append),
          stdin_mode |-> Text, working_directory_mode |-> Text, environment_mode |-> Text,
          max_attempts |-> Number, timeout_millis |-> Number, stdout_limit_bytes |-> Number,
          stderr_limit_bytes |-> Number])
PlanNode(p) ==
    Node([schema_version |-> Number, mode |-> Text, result_mode |-> Text, bundle_digest |-> Text,
          catalog_digest |-> Text, specification_digest |-> Text,
          source |-> Node([requested_executable |-> Text, resolved_path |-> Text, sha256 |-> Text,
                           size |-> Number, version |-> Text, adapter_kind |-> Text,
                           adapter_contract_version |-> Number]),
          matched_command |-> Texts(p.command), surface_origin |-> Text,
          specification_entry |-> Pointer(p.entry, EntryNode), reason |-> Text,
          options |-> SurfaceNode(p.options), wrapper_kind |-> Text,
          original_argv |-> Texts(<<p.executable>> \o p.original),
          transformed_argv |-> Texts(<<p.executable>> \o p.args),
          processor |-> Pointer(p.processor, BindingNode),
          stages |-> Node([order |-> Texts(<<"before", "invoke", "output", "after">>),
                           before |-> List(p.before, ActionNode), invoke |-> InvokeNode(p),
                           output |-> Pointer(p.output, OutputNode), after |-> List(p.after, ActionNode)])])

-----------------------------------------------------------------------------
(* Published schemas. A field is required and never null unless it says    *)
(* otherwise; a structure without fields describes nothing of its inside.  *)

Field(kind, element, fields) ==
    [kind |-> kind, element |-> element, fields |-> fields, optional |-> FALSE, nullable |-> FALSE]
AString == Field("string", Nil, <<>>)
AnInteger == Field("integer", Nil, <<>>)
ABoolean == Field("boolean", Nil, <<>>)
Structure(fields) == Field("object", Nil, fields)
ArrayOf(element) == Field("array", element, <<>>)
Strings == ArrayOf(AString)
NotRequired(field) == [field EXCEPT !.optional = TRUE]
Nullable(field) == [field EXCEPT !.nullable = TRUE]

AdapterSchema == Structure([contract_version |-> AnInteger, kind |-> AString])
CatalogSchema ==
    Structure([adapter |-> AdapterSchema,
        commands |-> ArrayOf(Structure([
            options |-> ArrayOf(Structure([name |-> AString, takes_value |-> ABoolean])),
            path |-> Strings, provenance |-> AString,
            structured_output |-> ArrayOf(Structure([fields |-> Strings, format |-> AString,
                                                     selector_flag |-> AString])),
            summary |-> AString])),
        probe |-> Structure([attempts |-> AnInteger, ids |-> Strings]),
        schema_version |-> AnInteger,
        source |-> Structure([requested_executable |-> AString, resolved_path |-> AString,
                              sha256 |-> AString, size |-> AnInteger, version |-> AString])])

ObservationSchema ==
    Structure([adapter |-> AdapterSchema,
        identity |-> Structure([resolved_path |-> AString, sha256 |-> AString, size |-> AnInteger]),
        platform |-> Structure([arch |-> AString, os |-> AString]),
        probe |-> Structure([argv |-> Strings, attempts |-> AnInteger, environment_contract |-> AString]),
        schema_version |-> AnInteger, version |-> AString])

DefaultsSchema == ArrayOf(Structure([option |-> AString, value |-> AString]))
OptionsSchema == Structure([default |-> AString, exclude |-> Strings, include |-> Strings])
OutputSchema ==
    Structure([kind |-> AString,
        optimizer |-> NotRequired(Structure([allow_original_output |-> ABoolean, contract |-> AString,
                                             input |-> AString])),
        projection |-> NotRequired(Structure([input |-> AString,
            rename |-> ArrayOf(Structure([from |-> AString, to |-> AString])),
            render |-> AString, select |-> Strings]))])
\* The specification says nothing of what an action holds, the plan that it has a kind.
WrapperSchema(action) ==
    Structure([after |-> ArrayOf(action), before |-> ArrayOf(action),
        invoke |-> Structure([append_args |-> Strings, option_defaults |-> DefaultsSchema]),
        kind |-> AString, output |-> NotRequired(OutputSchema)])
SpecificationSchema ==
    Structure([catalog_digest |-> AString,
        commands |-> ArrayOf(Structure([command |-> Strings, options |-> NotRequired(OptionsSchema),
                                        presence |-> AString, reason |-> AString,
                                        wrapper |-> NotRequired(WrapperSchema(Structure(<<>>)))])),
        schema_version |-> AnInteger, surface |-> Structure([default |-> AString])])

ProcessorSchema ==
    Structure([allow_original_output |-> ABoolean, contract |-> AString,
        execution |-> Structure([args |-> Strings, environment_contract |-> AString,
            max_attempts |-> AnInteger, stderr_limit_bytes |-> AnInteger, stdin_mode |-> AString,
            stdout_limit_bytes |-> AnInteger, timeout_millis |-> AnInteger,
            working_directory_mode |-> AString]),
        input_format |-> AString, observation |-> ObservationSchema, output_format |-> AString])
ActionSchema == Structure([kind |-> AString])
InvokeSchema ==
    Structure([appended_args |-> Strings, applied_option_defaults |-> DefaultsSchema, args |-> Strings,
        environment_mode |-> AString, executable |-> AString, max_attempts |-> AnInteger,
        option_defaults |-> DefaultsSchema, stderr_limit_bytes |-> AnInteger, stdin_mode |-> AString,
        stdout_limit_bytes |-> AnInteger, timeout_millis |-> AnInteger, working_directory_mode |-> AString])
\* Required wherever an entry is present: only included entries are planned.
PlanEntrySchema ==
    Structure([command |-> Strings, options |-> OptionsSchema, presence |-> AString, reason |-> AString,
               wrapper |-> WrapperSchema(ActionSchema)])
PlanSchemaWithoutNulls ==
    Structure([bundle_digest |-> AString, catalog_digest |-> AString, matched_command |-> Strings,
        mode |-> AString, options |-> OptionsSchema, original_argv |-> Strings,
        processor |-> ProcessorSchema, reason |-> AString, result_mode |-> AString,
        schema_version |-> AnInteger,
        source |-> Structure([adapter_contract_version |-> AnInteger, adapter_kind |-> AString,
            requested_executable |-> AString, resolved_path |-> AString, sha256 |-> AString,
            size |-> AnInteger, version |-> AString]),
        specification_digest |-> AString, specification_entry |-> PlanEntrySchema,
        stages |-> Structure([after |-> ArrayOf(ActionSchema), before |-> ArrayOf(ActionSchema),
            invoke |-> InvokeSchema, order |-> Strings, output |-> OutputSchema]),
        surface_origin |-> AString, transformed_argv |-> Strings, wrapper_kind |-> AString])
\* The three parts a plan may lack.
PlanSchema ==
    [PlanSchemaWithoutNulls EXCEPT !.fields.processor = Nullable(@),
                                   !.fields.specification_entry = Nullable(@),
                                   !.fields.stages.fields.output = Nullable(@)]

\* What a schema promises of a document: each value is of the type it says,
\* null only where it may be, with every field it requires and no other.
RECURSIVE Conforms(_, _)
Conforms(node, field) ==
    IF node.kind = "null" THEN field.nullable
    ELSE /\ node.kind = field.kind
         /\ node.kind = "array" => \A i \in DOMAIN node.items : Conforms(node.items[i], field.element)
         /\ node.kind = "object" /\ DOMAIN field.fields # {} =>
               /\ DOMAIN node.fields \subseteq DOMAIN field.fields
               /\ \A name \in DOMAIN field.fields :
                     IF name \in DOMAIN node.fields
                     THEN Conforms(node.fields[name], field.fields[name])
                     ELSE field.fields[name].optional
=============================================================================
