-------------------------- MODULE CommandContract --------------------------
(***************************************************************************)
(* What a catalog of commands must satisfy before one of them is run       *)
(* (Catalog.Validate of internal/cli/catalog.go), and the words its        *)
(* contracts are written in.                                               *)
(*                                                                         *)
(* A path is the sequence of its words.  Texts, descriptions and the       *)
(* spelling of names are left out: every check that is about more than one *)
(* declaration, or about what a caller or the dispatcher relies on, is     *)
(* kept.  A list whose order no check reads is a set.                      *)
(***************************************************************************)
EXTENDS Integers, Sequences, FiniteSets, TLC, CommandErrors
LOCAL INSTANCE SequencesExt

CONSTANTS
    Nil,          \* an absent pointer or an empty text
    UnsafeTexts,  \* texts with control or line-separating characters
    IntegerOf     \* the value of each text that is a base-10 integer

\* strings.Join(words, " ")
Join(words) ==
    LET text[k \in 0..Len(words)] ==
            IF k = 0 THEN "" ELSE IF k = 1 THEN words[1] ELSE text[k - 1] \o " " \o words[k]
    IN  text[Len(words)]

-----------------------------------------------------------------------------
(* Arguments of a command line, and the syntax a command publishes.        *)

Word(text)         == [kind |-> "word", name |-> text, value |-> Nil]
Flag(name)         == [kind |-> "flag", name |-> name, value |-> Nil]
FlagWith(name, v)  == [kind |-> "flag", name |-> name, value |-> v]
Short(name)        == [kind |-> "short", name |-> name, value |-> Nil]
Marker             == [kind |-> "marker", name |-> "--", value |-> Nil]

Dashed(argument) == argument.kind # "word"
Words(texts) == [i \in DOMAIN texts |-> Word(texts[i])]

\* A token of the published syntax: a flag, the value after it, a positional, or the marker.
SyntaxFlag(name, optional)       == [kind |-> "flag", name |-> name, allowed |-> <<>>, optional |-> optional]
SyntaxValue(allowed, optional)   == [kind |-> "value", name |-> Nil, allowed |-> allowed, optional |-> optional]
SyntaxArgument(name, optional)   == [kind |-> "argument", name |-> name, allowed |-> <<>>, optional |-> optional]
SyntaxMarker                     == [kind |-> "marker", name |-> Nil, allowed |-> <<>>, optional |-> FALSE]

-----------------------------------------------------------------------------
(* Inputs.                                                                 *)

Input(name, source) ==
    [name |-> name, source |-> source, required |-> FALSE, kind |-> "text", repeatable |-> FALSE,
     allowed |-> <<>>, default |-> Nil, minimum |-> Nil, maximum |-> Nil, ref |-> Nil,
     requires |-> {}, conflicts |-> {}]

Sources    == {"argument", "flag", "stdin", "environment", "configuration"}
ValueKinds == {"text", "integer", "boolean"}

OnCommandLine(input) == input.source \in {"argument", "flag"}

ValidScalar(input, text) ==
    /\ text \notin UnsafeTexts
    /\ input.kind = "integer" =>
          /\ text \in DOMAIN IntegerOf
          /\ input.minimum # Nil => IntegerOf[text] >= input.minimum
          /\ input.maximum # Nil => IntegerOf[text] <= input.maximum
    /\ input.kind = "boolean" => text \in {"true", "false"}

ValidValue(input, text) ==
    /\ input.allowed # <<>> => text \in ToSet(input.allowed)
    /\ ValidScalar(input, text)

ValidInput(input) ==
    /\ input.source \in Sources /\ input.kind \in ValueKinds
    /\ IsInjective(input.allowed)
    /\ input.required \/ input.repeatable => input.default = Nil
    /\ ~OnCommandLine(input) \/ input.kind = "boolean" => ~input.repeatable
    /\ input.kind # "integer" => input.minimum = Nil /\ input.maximum = Nil
    /\ input.minimum # Nil /\ input.maximum # Nil => input.minimum <= input.maximum
    /\ input.kind = "boolean" => input.allowed = <<>>
    /\ \A text \in ToSet(input.allowed) : ValidScalar(input, text)
    /\ input.default # Nil => ValidValue(input, input.default)
    /\ input.ref # Nil => input.allowed = <<>> /\ input.kind = "text"

InputNamed(inputs, name) == CHOOSE i \in ToSet(inputs) : i.name = name
NamesOf(inputs) == {i.name : i \in ToSet(inputs)}

ValidRelations(input, inputs) ==
    /\ \A name \in input.requires :
          /\ name # input.name /\ name \in NamesOf(inputs)
          /\ OnCommandLine(input) /\ OnCommandLine(InputNamed(inputs, name))
          /\ input.required => InputNamed(inputs, name).required
    /\ \A name \in input.conflicts :
          /\ name # input.name /\ name \in NamesOf(inputs)
          /\ OnCommandLine(input) /\ OnCommandLine(InputNamed(inputs, name))
          /\ name \notin input.requires
          /\ ~(input.required /\ InputNamed(inputs, name).required)

\* Everything that must be present with selected, the closure of requires (inputPresenceConflict).
Expanded(selected, inputs) ==
    LET after[n \in 0..Len(inputs)] ==
            IF n = 0 THEN selected
            ELSE LET present == after[n - 1]
                 IN  present \cup UNION {InputNamed(inputs, name).requires : name \in present}
    IN  after[Len(inputs)]

\* Mutant: only the inputs named in the selection are compared.
DirectConflict(selected, inputs) ==
    \E name \in selected : InputNamed(inputs, name).conflicts \cap selected # {}

PresenceConflict(selected, inputs) ==
    LET present == Expanded(selected, inputs)
    IN  \E name \in present : InputNamed(inputs, name).conflicts \cap present # {}

\* The required invocation, and each optional input with it, can be supplied.
Satisfiable(inputs) ==
    LET required == {i.name : i \in {j \in ToSet(inputs) : j.required}}
    IN  /\ ~PresenceConflict(required, inputs)
        /\ \A name \in NamesOf(inputs) \ required : ~PresenceConflict(required \cup {name}, inputs)

ValidInputs(inputs) ==
    /\ \A i \in ToSet(inputs) : ValidInput(i)
    /\ \A i, j \in DOMAIN inputs :
          /\ i # j => inputs[i].name # inputs[j].name
          /\ i < j => ~(inputs[i].source = "argument" /\ inputs[j].source = "argument" /\ inputs[i].repeatable)
    /\ \A i \in ToSet(inputs) : ValidRelations(i, inputs)
    /\ Satisfiable(inputs)

-----------------------------------------------------------------------------
(* The published syntax against the inputs (parseArgumentSyntaxInputs and  *)
(* the comparison in validateAgentContract).                               *)

\* A flag takes the value that follows it in the same group.
ValueAfter(syntax, i) ==
    /\ i < Len(syntax) /\ syntax[i].kind = "flag"
    /\ syntax[i + 1].kind \in {"value", "argument"} /\ syntax[i + 1].optional = syntax[i].optional

SyntaxInputs(syntax) ==
    LET read == {i \in DOMAIN syntax : syntax[i].kind # "marker" /\ ~(i > 1 /\ ValueAfter(syntax, i - 1))}
    IN  {[name       |-> syntax[i].name,
          source     |-> IF syntax[i].kind = "flag" THEN "flag" ELSE "argument",
          at         |-> i,
          required   |-> ~syntax[i].optional,
          takesValue |-> syntax[i].kind = "argument" \/ ValueAfter(syntax, i),
          allowed    |-> IF ValueAfter(syntax, i) THEN syntax[i + 1].allowed ELSE <<>>] : i \in read}

ValidSyntax(syntax) ==
    LET markers == {i \in DOMAIN syntax : syntax[i].kind = "marker"}
        read    == SyntaxInputs(syntax)
    IN  /\ Cardinality(markers) <= 1
        /\ \A m \in markers : m < Len(syntax) /\ \A s \in read : s.source = "flag" => s.at < m
        /\ \A s \in read : s.name # Nil                          \* a value that follows no flag
        /\ \A s, t \in read : s.name = t.name => s = t
        /\ \A s, t \in read :
              s.source = "argument" /\ t.source = "argument" /\ s.at < t.at => s.required \/ ~t.required

SyntaxMatches(command) ==
    LET read        == SyntaxInputs(command.syntax)
        typed       == {i \in ToSet(command.inputs) : OnCommandLine(i)}
        arguments   == SelectSeq(command.inputs, LAMBDA i : i.source = "argument")
        positionals == SelectSeq([k \in DOMAIN command.syntax |->
                                     [kind |-> command.syntax[k].kind, name |-> command.syntax[k].name, at |-> k]],
                                 LAMBDA t : \E s \in read : s.at = t.at /\ s.source = "argument")
    IN  /\ ValidSyntax(command.syntax)
        /\ [k \in DOMAIN arguments |-> arguments[k].name] = [k \in DOMAIN positionals |-> positionals[k].name]
        /\ {i.name : i \in typed} = {s.name : s \in read}
        /\ \A i \in typed : \E s \in read :
              /\ s.name = i.name /\ s.required = i.required /\ s.allowed = i.allowed
              /\ i.source = "flag" => s.takesValue = (i.kind # "boolean")

-----------------------------------------------------------------------------
(* Outputs.                                                                *)

Formats == {"none", "text", "tsv", "json", "plan_result"}
Output(formats, default, envelope, coverage) ==
    [authority |-> "catalog", formats |-> formats, default |-> default, described |-> TRUE, fields |-> {},
     delivery |-> "complete", coverage |-> coverage, envelope |-> envelope, plan |-> Nil, modes |-> <<>>]
Field(name, ref, schema) == [name |-> name, ref |-> ref, schema |-> schema]

\* Only the fields that carry a reference or a schema are listed; described says there is one of any sort.
NoOutput == [Output({"none"}, "none", Nil, "not_applicable") EXCEPT !.described = FALSE]

PlanResultModes == <<"transformed_json", "source_stream_passthrough", "original_preserving_optimizer">>

ValidAuthority(output) ==
    \/ /\ output.authority = "catalog"
       /\ output.plan = Nil /\ output.modes = <<>>
       /\ ("json" \in output.formats) <=> (output.envelope # Nil)
    \/ /\ output.authority = "fresh_wrapper_plan"
       /\ output.formats = {"plan_result"} /\ output.default = "plan_result"
       /\ ~output.described /\ output.fields = {}
       /\ output.delivery = "complete" /\ output.coverage = "not_applicable" /\ output.envelope = Nil
       /\ output.plan # Nil
       /\ output.plan.command = "bundle preview" /\ output.plan.field = "plan"
       /\ output.plan.schema[1] = "wrapper-plan" /\ output.plan.schema[2] > 0
       /\ output.modes = PlanResultModes

ValidPagination(command) ==
    LET output == command.output
        page   == command.pagination
    IN  \/ output.delivery = "complete" /\ page = Nil
        \/ /\ output.delivery = "paged" /\ page # Nil
           /\ output.coverage # "not_applicable"
           /\ output.formats = {"json"} /\ output.default = "json"
           /\ page.input \in NamesOf(command.inputs)
           /\ LET cursor == InputNamed(command.inputs, page.input)
              IN  /\ ~cursor.required /\ OnCommandLine(cursor)
                  /\ cursor.ref # Nil /\ cursor.ref = page.ref
                  /\ page.output \notin {"schema_version", output.envelope}
                  /\ \A i \in ToSet(command.inputs) : i.name # page.input => i.ref # cursor.ref
                  /\ \A f \in output.fields : f.ref # cursor.ref

ValidOutput(command) ==
    LET output == command.output
    IN  /\ output.formats # {} /\ output.formats \subseteq Formats
        /\ output.default \in output.formats
        /\ "none" \in output.formats =>
              output.formats = {"none"} /\ ~output.described /\ output.coverage = "not_applicable"
        /\ "none" \notin output.formats /\ output.authority = "catalog" => output.described
        /\ \A f, g \in output.fields : f.name = g.name => f = g
        /\ ValidAuthority(output)
        /\ ValidPagination(command)

-----------------------------------------------------------------------------
(* Errors.                                                                 *)

Kinds == {"invalid_input", "authentication", "permission", "not_found", "ambiguous", "rejected",
          "rate_limited", "unavailable", "canceled", "unsupported", "contract", "internal"}

Mutates(command) == command.effect \in {"create", "write"}
Codes(command) == {e.code : e \in command.errors}

Declares(command, code, kind, retryable) ==
    \E e \in command.errors : e.code = code /\ e.kind = kind /\ e.retryable = retryable

\* The failures the gate of an authenticated action raises.
AuthenticationErrors ==
    Final("contract", "help", {"missing_authentication_context", "missing_authenticated_action",
          "invalid_authentication_requirement", "missing_authentication_clock", "authentication_evaluation_failed"})
    \cup Final("authentication", "help", {"missing_authenticator", "invalid_authentication_session",
               "authentication_expired", "authentication_context_mismatch", "authentication_failed"})
    \cup Final("permission", "help", {"insufficient_authentication_capability"})
    \cup Final("canceled", "help", {"authentication_canceled"})
    \cup Final("internal", "help", {"unclassified_authenticated_action_error"})

\* The failures the gate of a mutation raises.
MutationErrors ==
    Final("contract", "help", {"invalid_mutation_contract", "missing_mutation_action",
                               "unclassified_mutation_outcome"})
    \cup Final("rejected", "help", {"missing_mutation_policy", "mutation_rejected"})

WriteFailures == {"output_write_failed", "execute_output_write_failed", "mutation_output_write_failed"}

ValidErrors(command) ==
    LET silent == "none" \in command.output.formats
    IN  /\ \A e \in command.errors : e.kind \in Kinds /\ e.next # Nil
        /\ \A e, f \in command.errors : e.code = f.code => e = f
        /\ Declares(command, "operation_canceled", "canceled", TRUE)
        /\ Declares(command, "invalid_arguments", "invalid_input", FALSE)
        /\ ~Mutates(command) => "mutation_output_write_failed" \notin Codes(command)
        /\ Mutates(command) => "output_write_failed" \notin Codes(command)
        /\ command.effect # "execute" => "execute_output_write_failed" \notin Codes(command)
        /\ silent => Codes(command) \cap WriteFailures = {}
        /\ ~silent /\ command.effect = "read" => Declares(command, "output_write_failed", "internal", TRUE)
        /\ ~silent /\ command.effect = "execute" =>
              Declares(command, "execute_output_write_failed", "internal", FALSE)
        /\ ~silent /\ Mutates(command) => Declares(command, "mutation_output_write_failed", "internal", FALSE)
        /\ command.authenticated =>
              \A e \in AuthenticationErrors : Declares(command, e.code, e.kind, e.retryable)
        /\ Mutates(command) => \A e \in MutationErrors : Declares(command, e.code, e.kind, e.retryable)

-----------------------------------------------------------------------------
(* Mutations, references and roles.                                        *)

\* A bound input is a required argument or flag among the targets (validateMutationBinding).
Bound(command, name) ==
    /\ name \in NamesOf(command.inputs) /\ name \in ToSet(command.mutation.targets)
    /\ OnCommandLine(InputNamed(command.inputs, name)) /\ InputNamed(command.inputs, name).required

RefOf(command, name) == InputNamed(command.inputs, name).ref

ValidTargets(command) ==
    LET m == command.mutation
    IN  /\ m.targets # <<>> /\ IsInjective(m.targets)
        /\ ToSet(m.targets) \subseteq NamesOf(command.inputs)
        /\ command.effect = "create" =>
              /\ m.parent # Nil /\ m.id = Nil
              /\ Bound(command, m.parent) /\ RefOf(command, m.parent) # Nil
              /\ Len(m.targets) = 1
        /\ command.effect = "write" =>
              /\ m.id # Nil /\ Bound(command, m.id) /\ RefOf(command, m.id) = m.kind
              /\ m.parent # Nil =>
                    m.parent # m.id /\ Bound(command, m.parent) /\ RefOf(command, m.parent) # Nil
              /\ Len(m.targets) = IF m.parent = Nil THEN 1 ELSE 2

ValidMutation(command) ==
    \/ ~Mutates(command) /\ command.mutation = Nil
    \/ /\ Mutates(command) /\ command.mutation # Nil
       /\ command.mutation.impact # Nil
       /\ \/ /\ command.fixed # Nil
             /\ command.mutation.kind = command.fixed
             /\ command.mutation.targets = <<>> /\ command.mutation.parent = Nil /\ command.mutation.id = Nil
          \/ command.fixed = Nil /\ ValidTargets(command)

Produced(command) ==
    ({f.ref : f \in command.output.fields} \ {Nil})
    \cup (IF command.pagination = Nil THEN {} ELSE {command.pagination.ref})
Consumed(command) == {i.ref : i \in ToSet(command.inputs)} \ {Nil}
Needed(command)   == {i.ref : i \in {j \in ToSet(command.inputs) : j.required}} \ {Nil}

ValidRole(command) ==
    /\ Mutates(command) => command.role = "act"
    /\ \/ /\ command.role = "utility" /\ command.fixed = Nil
          /\ Produced(command) = {} /\ Consumed(command) = {}
       \/ /\ command.role = "discover" /\ command.fixed = Nil
          /\ command.effect = "read" /\ Produced(command) # {}
       \/ /\ command.role = "act"
          /\ IF command.fixed # Nil THEN Produced(command) = {} /\ Consumed(command) = {}
             ELSE Needed(command) # {}

Effects == {"read", "execute", "create", "write"}

\* validateAgentContract, and what Validate asks of one command beside it.
ValidCommand(command) ==
    /\ command.words # <<>> /\ command.effect \in Effects
    /\ ValidInputs(command.inputs) /\ SyntaxMatches(command)
    /\ ValidOutput(command) /\ ValidErrors(command) /\ ValidMutation(command)
    /\ ValidRole(command)
    /\ command.handled

-----------------------------------------------------------------------------
(* The catalog.                                                            *)

GlobalErrors ==
    Final("invalid_input", "help", {"invalid_root_options", "missing_command", "unknown_command"})
    \cup Final("contract", "help", {"missing_context", "invalid_catalog"})
    \cup Retryable("canceled", "help", {"operation_canceled"})

Lookup(catalog, words) == {c \in ToSet(catalog) : c.words = words}

\* The exact command, or every command of a namespace (Select).
Select(catalog, words) ==
    IF Lookup(catalog, words) # {} THEN Lookup(catalog, words)
    ELSE {c \in ToSet(catalog) : words # <<>> /\ IsStrictPrefix(words, c.words)}

\* The longest path that prefixes the arguments (Match): a set of at most one command.
Match(catalog, arguments) ==
    LET fits == {c \in ToSet(catalog) : IsPrefix(Words(c.words), arguments)}
    IN  {c \in fits : \A d \in fits : Len(d.words) <= Len(c.words)}

\* What a recovery text can name, with its effect: a command, or the help on a path or a namespace.
Recoveries(catalog) ==
    LET selects(c) == \E i \in ToSet(c.inputs) : i.name = "command" /\ i.source = "argument" /\ ~i.required
        help   == {c \in Lookup(catalog, <<"help">>) : selects(c)}
        topics == UNION {{SubSeq(c.words, 1, k) : k \in DOMAIN c.words} : c \in ToSet(catalog)}
    IN  {[next |-> Join(c.words), effect |-> c.effect] : c \in ToSet(catalog)}
        \cup {[next |-> Help(Join(t)), effect |-> h.effect] : t \in topics, h \in help}

ReadOnlyRecovery(command, e) ==
    \/ e.code \in {"unclassified_mutation_outcome", "mutation_output_write_failed", "execute_output_write_failed"}
    \/ Mutates(command) /\ e.kind = "rate_limited" /\ ~e.retryable

ValidRecovery(catalog) ==
    LET known    == Recoveries(catalog)
        readOnly == {r.next : r \in {q \in known : q.effect = "read"}}
    IN  \A c \in ToSet(catalog) : \A e \in c.errors :
            /\ e.next \in {r.next : r \in known}
            /\ ReadOnlyRecovery(c, e) => e.next \in readOnly

\* One code means one thing, whichever command raises it.
ValidSignatures(catalog) ==
    LET declared   == GlobalErrors \cup UNION {c.errors : c \in ToSet(catalog)}
        signatures == {<<e.code, e.kind, e.retryable>> : e \in declared}
    IN  \A s, t \in signatures : s[1] = t[1] => s = t

\* validateOutputAuthorityReferences
ValidPlanReferences(catalog) ==
    \A c \in ToSet(catalog) : c.output.authority = "fresh_wrapper_plan" /\ c.output.plan # Nil =>
        \E d \in ToSet(catalog) : /\ Join(d.words) = c.output.plan.command
                                  /\ \E f \in d.output.fields : /\ f.name = c.output.plan.field
                                                                /\ f.schema = c.output.plan.schema

\* The kinds of reference some sequence of commands can obtain (validateReferenceReachability).
Reachable(catalog) ==
    LET after[n \in 0..Len(catalog)] ==
            IF n = 0 THEN {}
            ELSE LET known == after[n - 1]
                 IN  known \cup UNION {Produced(c) : c \in {d \in ToSet(catalog) : Needed(d) \subseteq known}}
    IN  after[Len(catalog)]

ValidReferences(catalog) ==
    LET produced == UNION {Produced(c) : c \in ToSet(catalog)}
        consumed == UNION {Consumed(c) : c \in ToSet(catalog)}
        paging   == {c \in ToSet(catalog) : c.pagination # Nil}
    IN  /\ produced = consumed
        /\ produced \subseteq Reachable(catalog)
        /\ \A c \in paging : \A d \in ToSet(catalog) \ {c} :
              c.pagination.ref \notin Produced(d) \cup Consumed(d)

ValidPaths(catalog) ==
    \A i, j \in DOMAIN catalog : i # j => ~IsPrefix(catalog[i].words, catalog[j].words)

ValidCatalog(catalog) ==
    /\ catalog # <<>>
    /\ \A c \in ToSet(catalog) : ValidCommand(c)
    /\ ValidPaths(catalog) /\ ValidSignatures(catalog)
    /\ ValidPlanReferences(catalog) /\ ValidReferences(catalog) /\ ValidRecovery(catalog)
=============================================================================
