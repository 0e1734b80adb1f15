---------------------------- MODULE CommandLine ----------------------------
(***************************************************************************)
(* One invocation of atr: RunContext of internal/cli, from the argument    *)
(* vector to the exit status.  The catalog is validated, one command is    *)
(* matched and its inputs parsed, its handler calls one service, and the   *)
(* result is written once, or a failure is published in its place.         *)
(*                                                                         *)
(* A catalog belongs to an edition of the program.  The caller may cancel  *)
(* at any moment; the service may return any of its failures, and any write*)
(* may fall short.                                                         *)
(***************************************************************************)
EXTENDS CommandCatalog, ServiceFaults
LOCAL INSTANCE SequencesExt

CONSTANTS
    Catalogs,     \* the catalog of each edition
    Invocations,  \* the argument vectors given to each edition
    LongTexts     \* arguments too long to fit in a failure message

VARIABLES
    edition,   \* the program that runs
    argv,      \* its arguments
    canceled,  \* the caller's context is done
    pc,        \* what RunContext does next
    command,   \* the path of the bound command, or Nil
    inputs,    \* its parsed inputs, or Nil
    service,   \* the command whose service was called, or Nil
    began,     \* what the caller asked for may have happened
    stdout,    \* "empty", "partial" or "complete"
    failure,   \* the published failure, or Nil
    status     \* the exit status, Nil while it runs

vars == <<edition, argv, canceled, pc, command, inputs, service, began, stdout, failure, status>>

Catalog == Catalogs[edition]
Usable  == [e \in DOMAIN Catalogs |-> ValidCatalog(Catalogs[e])]

-----------------------------------------------------------------------------
(* Arguments.                                                              *)

TextOf(argument) ==
    IF argument.value = Nil THEN argument.name ELSE argument.name \o "=" \o argument.value

RECURSIVE RootOptions(_, _)
\* Leading --error-format options: the rest of the arguments, and whether they are well formed.
RootOptions(arguments, seen) ==
    IF arguments = <<>> \/ Head(arguments).name # "--error-format" THEN [rest |-> arguments, ok |-> TRUE]
    ELSE LET inline == Head(arguments).value # Nil
             value  == IF inline THEN Head(arguments).value
                       ELSE IF Len(arguments) > 1 THEN TextOf(arguments[2]) ELSE Nil
         IN  IF value = Nil \/ seen \/ value \notin {"text", "json"}
             THEN [rest |-> <<>>, ok |-> FALSE]
             ELSE RootOptions(SubSeq(arguments, IF inline THEN 2 ELSE 3, Len(arguments)), TRUE)

HelpFlags == {Flag("--help"), Short("-h")}

RootAlias(arguments) ==
    IF arguments[1] \in HelpFlags THEN <<Word("help")>> \o Tail(arguments)
    ELSE IF arguments[1] \in {Flag("--version"), Short("-v")} THEN <<Word("version")>> \o Tail(arguments)
    ELSE arguments

\* A trailing help flag asks for help when everything before it selects something.
TrailingHelpAlias(catalog, arguments) ==
    LET before == Front(arguments)
        path   == [k \in DOMAIN before |-> TextOf(before[k])]
    IN  IF /\ Len(arguments) >= 2 /\ Last(arguments) \in HelpFlags
           /\ Select(catalog, path) # {}
        THEN <<Word("help")>> \o before ELSE arguments

-----------------------------------------------------------------------------
(* parseCommandInputs.                                                     *)

\* What parsing has read: the values, the next positional, whether the marker was seen, a flag that waits
\* for its value, and the argument a failure quotes.
Rejected(s, quoted) == [s EXCEPT !.failed = TRUE, !.quotes = quoted]

Add(s, input, text) ==
    IF \/ s.values[input.name] # <<>> /\ ~input.repeatable
       \/ ~ValidValue(input, text)
    THEN Rejected(s, Nil)
    ELSE [s EXCEPT !.values[input.name] = Append(@, text), !.waiting = Nil]

ReadFlag(s, flags, argument) ==
    LET named == {i \in flags : i.name = argument.name}
    IN  IF named = {} THEN Rejected(s, argument.name)
        ELSE LET input == CHOOSE i \in named : TRUE
             IN  IF argument.value # Nil THEN Add(s, input, argument.value)
                 ELSE IF input.kind = "boolean" THEN Add(s, input, "true")
                 ELSE [s EXCEPT !.waiting = input]

ReadPositional(s, positionals, argument) ==
    IF s.position > Len(positionals) THEN Rejected(s, TextOf(argument))
    ELSE LET input == positionals[s.position]
             added == Add(s, input, TextOf(argument))
         IN  IF ~s.marker /\ Dashed(argument) /\ input.kind # "integer" THEN Rejected(s, TextOf(argument))
             ELSE IF input.repeatable THEN added ELSE [added EXCEPT !.position = @ + 1]

\* Mutant: a flag after the marker is still read as a flag of the command.
ReadPastMarker(s, flags, positionals, argument) ==
    IF s.failed THEN s
    ELSE IF s.waiting # Nil THEN
        IF Dashed(argument) THEN Rejected(s, Nil) ELSE Add(s, s.waiting, TextOf(argument))
    ELSE IF ~s.marker /\ argument = Marker THEN [s EXCEPT !.marker = TRUE]
    ELSE IF argument.kind = "flag" /\ (\E i \in flags : i.name = argument.name) THEN ReadFlag(s, flags, argument)
    ELSE ReadPositional(s, positionals, argument)

ReadArgument(s, flags, positionals, argument) ==
    IF s.failed THEN s
    ELSE IF s.waiting # Nil THEN
        IF Dashed(argument) THEN Rejected(s, Nil) ELSE Add(s, s.waiting, TextOf(argument))
    ELSE IF ~s.marker /\ argument = Marker THEN [s EXCEPT !.marker = TRUE]
    ELSE IF ~s.marker /\ argument.kind = "flag" THEN ReadFlag(s, flags, argument)
    ELSE ReadPositional(s, positionals, argument)

\* The required inputs are there, and no relation between inputs is broken.
Complete(spec, provided) ==
    \A i \in ToSet(spec.inputs) : OnCommandLine(i) =>
        /\ i.required => i.name \in provided
        /\ i.name \in provided => i.requires \subseteq provided /\ i.conflicts \cap provided = {}

ParseInputs(spec, arguments) ==
    LET flags       == {i \in ToSet(spec.inputs) : i.source = "flag"}
        positionals == SelectSeq(spec.inputs, LAMBDA i : i.source = "argument")
        start       == [values |-> [n \in NamesOf(spec.inputs) |-> <<>>], position |-> 1, marker |-> FALSE,
                        waiting |-> Nil, failed |-> FALSE, quotes |-> Nil]
        read[k \in 0..Len(arguments)] ==
            IF k = 0 THEN start
            ELSE LET before == read[k - 1] IN ReadArgument(before, flags, positionals, arguments[k])
        all         == read[Len(arguments)]
        provided    == {n \in DOMAIN all.values : all.values[n] # <<>>}
        effective   == [n \in DOMAIN all.values |->
                            LET input == InputNamed(spec.inputs, n)
                            IN  IF n \in provided \/ input.default = Nil THEN all.values[n] ELSE <<input.default>>]
    IN  IF all.failed THEN all
        ELSE IF all.waiting # Nil \/ ~Complete(spec, provided) THEN Rejected(all, Nil)
        ELSE [all EXCEPT !.values = effective]

-----------------------------------------------------------------------------
(* Failures (errors.go, fault.go).                                         *)

Fault(code, kind, retryable, next, fits) ==
    [code |-> code, kind |-> kind, retryable |-> retryable, next |-> next, fits |-> fits]

\* A message that quotes an argument is limited like any other (Error.Validate).
Fits(quoted) == quoted \cap LongTexts = {}

Contract(code, next) == Fault(code, "contract", FALSE, next, TRUE)

\* normalizeUnboundFault: only a fault that satisfies its own contract is shown.
Presentable(fault) == IF fault.fits THEN fault ELSE Contract("invalid_fault_contract", "help")

Bind(path) == CHOOSE c \in ToSet(Catalog) : Join(c.words) = path

\* Mutant: a bound command publishes what its service says, whatever it declares.
Trusting(path, fault) == Presentable(fault)

\* normalizeFault: once a command is bound, only what it declares is shown, with the recovery it declares.
Normalize(path, fault) ==
    LET shown == Presentable(fault)
    IN  IF path = Nil THEN shown
        ELSE LET declared == {e \in Bind(path).errors : e.code = shown.code}
             IN  IF \E e \in declared : e.kind = shown.kind /\ e.retryable = shown.retryable
                 THEN [shown EXCEPT !.next = (CHOOSE e \in declared : TRUE).next]
                 ELSE Contract("undeclared_fault_contract", Help(path))

ExitCodes == [invalid_input |-> 2, internal |-> 3, authentication |-> 4, permission |-> 5, not_found |-> 6,
              ambiguous |-> 7, rate_limited |-> 8, unavailable |-> 9, rejected |-> 10, canceled |-> 11,
              unsupported |-> 12, contract |-> 13]

\* fail: publish the normalized failure and leave with the status of its kind.
Fail(path, fault) ==
    LET shown == Normalize(path, fault)
    IN  failure' = shown /\ status' = ExitCodes[shown.kind] /\ pc' = "done"

OperationCanceled(path) ==
    Fault("operation_canceled", "canceled", TRUE, IF path = Nil THEN "help" ELSE path, TRUE)
Usage(code, next, quoted) == Fault(code, "invalid_input", FALSE, next, Fits(quoted))

-----------------------------------------------------------------------------
(* RunContext.                                                             *)

\* The arguments a command is looked up in.
Resolved == TrailingHelpAlias(Catalog, RootAlias(RootOptions(argv, FALSE).rest))
OperandsOf(c) == SubSeq(Resolved, Len(c.words) + 1, Len(Resolved))

\* Before any command is bound.
Root ==
    /\ pc = "root"
    /\ LET options == RootOptions(argv, FALSE)
       IN  IF ~options.ok THEN Fail(Nil, Usage("invalid_root_options", "help", {})) /\ UNCHANGED command
           ELSE IF canceled THEN Fail(Nil, OperationCanceled(Nil)) /\ UNCHANGED command
           ELSE IF ~Usable[edition] THEN Fail(Nil, Contract("invalid_catalog", "help")) /\ UNCHANGED command
           ELSE IF options.rest = <<>> THEN Fail(Nil, Usage("missing_command", "help", {})) /\ UNCHANGED command
           ELSE LET found == Match(Catalog, Resolved)
                IN  IF found = {}
                    THEN /\ Fail(Nil, Usage("unknown_command", "help", {TextOf(a) : a \in ToSet(Resolved)}))
                         /\ UNCHANGED command
                    ELSE /\ command' = Join((CHOOSE c \in found : TRUE).words)
                         /\ pc' = "bound"
                         /\ UNCHANGED <<failure, status>>
    /\ UNCHANGED <<edition, argv, canceled, inputs, service, began, stdout>>

\* The inputs are parsed before the handler sees the command.
Parse ==
    /\ pc = "bound"
    /\ IF canceled THEN Fail(command, OperationCanceled(command)) /\ UNCHANGED inputs
       ELSE LET parsed == ParseInputs(Bind(command), OperandsOf(Bind(command)))
            IN  IF parsed.failed
                THEN Fail(command, Usage("invalid_arguments", Help(command), {parsed.quotes})) /\ UNCHANGED inputs
                ELSE inputs' = parsed /\ pc' = "handler" /\ UNCHANGED <<failure, status>>
    /\ UNCHANGED <<edition, argv, canceled, command, service, began, stdout>>

\* What a handler refuses by itself: a forwarded argument vector without the marker, help on nothing.
Refusal ==
    \/ command = "wrapper run" /\ ~inputs.marker /\ Fail(command, Usage("invalid_arguments", Help(command), {}))
    \/ /\ command = "help" /\ inputs.values["command"] # <<>>
       /\ Select(Catalog, inputs.values["command"]) = {}
       /\ Fail(command, Usage("invalid_arguments", "help", ToSet(inputs.values["command"])))
    \/ command = "sample read" /\ Fail(command, Usage("invalid_arguments", Help(command), {}))

HandlerRefuses ==
    /\ pc = "handler" /\ Refusal
    /\ UNCHANGED <<edition, argv, canceled, command, inputs, service, began, stdout>>

Admitted ==
    /\ pc = "handler"
    /\ command = "wrapper run" => inputs.marker
    /\ command = "help" /\ inputs.values["command"] # <<>> => Select(Catalog, inputs.values["command"]) # {}

\* The service returns one of its failures.
ServiceFails ==
    /\ Admitted
    /\ \E o \in ServiceFaults(command) :
          /\ o.code \in CanceledCodes => canceled
          /\ began' = o.began
          /\ Fail(command, Fault(o.code, o.kind, o.retryable, Nil, TRUE))
    /\ service' = command
    /\ UNCHANGED <<edition, argv, canceled, command, inputs, stdout>>

\* Or its result. A retired command has none.
ServiceReturns ==
    /\ Admitted
    /\ ServiceFaults(command) # Retired
    /\ service' = command
    /\ began' = (Bind(command).effect # "read")
    /\ pc' = "emit"
    /\ UNCHANGED <<edition, argv, canceled, command, inputs, stdout, failure, status>>

\* A result that breaks its own contract, is too large, or cannot be encoded is not written.
ResultRejected ==
    /\ pc = "emit" /\ command # "version"
    /\ \E code \in {"output_contract_exceeded", "output_encoding_failed"} :
          /\ command = "help" => code = "output_encoding_failed"
          /\ Fail(command, Contract(code, Nil))
    /\ UNCHANGED <<edition, argv, canceled, command, inputs, service, began, stdout>>

\* emitComplete, failExecuteOutputWrite and emitMutationResult.
WriteFailure(effect) ==
    IF effect = "read" THEN Fault("output_write_failed", "internal", TRUE, Nil, TRUE)
    ELSE IF effect = "execute" THEN Fault("execute_output_write_failed", "internal", FALSE, Nil, TRUE)
    ELSE Fault("mutation_output_write_failed", "internal", FALSE, Nil, TRUE)

Exit(code) == status' = code /\ pc' = "done" /\ UNCHANGED failure

\* One checked write. Only a read still honours a cancellation here; the status of a wrapped source is its own.
Emit ==
    /\ pc = "emit"
    /\ LET effect == Bind(command).effect
       IN  \/ effect = "read" /\ canceled /\ Fail(command, OperationCanceled(command)) /\ UNCHANGED stdout
           \/ /\ ~(effect = "read" /\ canceled)
              /\ \/ stdout' = "partial" /\ Fail(command, WriteFailure(effect))
                 \/ stdout' = "complete" /\ Exit(0)
                 \/ stdout' = "complete" /\ command = "wrapper run" /\ Exit(1)
                 \/ /\ stdout' = "complete" /\ command = "wrapper run"      \* stderr falls short
                    /\ Fail(command, WriteFailure(effect))
                 \/ /\ stdout' = "complete" /\ command = "doctor"           \* the report holds a failed check
                    /\ Fail(command, Fault("diagnostic_failed", "rejected", FALSE, Nil, TRUE))
    /\ UNCHANGED <<edition, argv, canceled, command, inputs, service, began>>

Cancel ==
    /\ ~canceled /\ pc # "done"
    /\ canceled' = TRUE
    /\ UNCHANGED <<edition, argv, pc, command, inputs, service, began, stdout, failure, status>>

Init ==
    /\ edition \in DOMAIN Catalogs
    /\ argv \in Invocations[edition]
    /\ canceled = FALSE /\ pc = "root"
    /\ command = Nil /\ inputs = Nil /\ service = Nil
    /\ began = FALSE /\ stdout = "empty" /\ failure = Nil /\ status = Nil

Proceed == Root \/ Parse \/ HandlerRefuses \/ ServiceFails \/ ServiceReturns \/ ResultRejected \/ Emit
Next == Proceed \/ Cancel

Spec == Init /\ [][Next]_vars
-----------------------------------------------------------------------------
(* Properties.                                                             *)

Fitting == \A k \in DOMAIN argv : argv[k].name \notin LongTexts /\ argv[k].value \notin LongTexts
Published(code, kind, retryable, next, errors) ==
    [code |-> code, kind |-> kind, retryable |-> retryable, next |-> next] \in errors

\* Whatever a service returns and whenever the caller cancels, the failure an invocation of ordinary
\* arguments ends with is one its help declares, with the recovery it declares (normalizeFault).
PublishedIsDeclared ==
    pc = "done" /\ failure # Nil /\ Fitting =>
        Published(failure.code, failure.kind, failure.retryable, failure.next,
                  IF command = Nil THEN GlobalErrors ELSE Bind(command).errors)

ReadOnly == [e \in DOMAIN Catalogs |-> {r.next : r \in {q \in Recoveries(Catalogs[e]) : q.effect = "read"}}]
Inspections == {"source inspect", "processor inspect"}

\* Once the source may have run or a store may have changed, no failure invites the caller to do it again:
\* it is not retryable and its recovery only reads. An inspection's probes may be repeated.
ReplayIsSafe ==
    pc = "done" /\ failure # Nil /\ began =>
        /\ failure.next \in ReadOnly[edition]
        /\ command \notin Inspections => ~failure.retryable

FirstMarker == CHOOSE k \in DOMAIN Resolved : Resolved[k] = Marker /\ \A j \in 1..(k - 1) : Resolved[j] # Marker
Forwarding == {"wrapper run", "bundle preview", "bundle execute"}

\* What follows the first -- reaches the source as it was written, and selects nothing of Atsura's own:
\* no bundle, no binding, no help (parseCommandInputs, normalizeTrailingHelpAlias).
ForwardedVerbatim ==
    service \in Forwarding /\ Marker \in ToSet(Resolved) =>
        LET before  == SubSeq(Resolved, 1, FirstMarker - 1)
            after   == SubSeq(Resolved, FirstMarker + 1, Len(Resolved))
            spec    == Bind(service)
            alone   == ParseInputs(spec, SubSeq(before, Len(spec.words) + 1, Len(before)) \o <<Marker>>
                                            \o Words(<<"executable", "operand">>))
            flags   == {i.name : i \in {j \in ToSet(spec.inputs) : j.source = "flag"}}
            operands == (IF "source-executable" \in DOMAIN inputs.values
                         THEN inputs.values["source-executable"] ELSE <<>>) \o inputs.values["argv"]
        IN  /\ IsSuffix([k \in DOMAIN after |-> TextOf(after[k])], operands)
            /\ \A n \in flags : inputs.values[n] = alone.values[n]

\* A trailing --help or -h that no marker protects asks for help or is refused: no command runs.
HelpNeverRuns ==
    argv # <<>> /\ Last(argv) \in HelpFlags /\ Marker \notin ToSet(argv) => service \in {Nil, "help"}

\* Atsura reads its own part of a command line and nothing else: what stands behind the marker is the
\* source's word for word, and a request for help before it runs no command.
OwnWordsOnly == ForwardedVerbatim /\ HelpNeverRuns

SomeValue(input) ==
    IF input.allowed # <<>> THEN input.allowed[1]
    ELSE IF input.kind = "integer" THEN CHOOSE t \in DOMAIN IntegerOf : ValidScalar(input, t)
    ELSE IF input.kind = "boolean" THEN "true" ELSE "value"

\* The invocation the published contract of a command suggests for one of its inputs: the required inputs,
\* and what each of them requires.
Advertised(spec, name) ==
    LET needed  == Expanded({i.name : i \in {j \in ToSet(spec.inputs) : j.required}} \cup {name}, spec.inputs)
        chosen(source) == SelectSeq(spec.inputs, LAMBDA i : i.source = source /\ i.name \in needed)
        flags   == chosen("flag")
        marker  == IF \E t \in ToSet(spec.syntax) : t.kind = "marker" THEN <<Marker>> ELSE <<>>
        operands == chosen("argument")
    IN  Words(spec.words) \o [k \in DOMAIN flags |-> FlagWith(flags[k].name, SomeValue(flags[k]))]
            \o marker \o [k \in DOMAIN operands |-> Word(SomeValue(operands[k]))]

\* A catalog that passes validation advertises nothing its parser refuses: each input of each command can
\* be given, together with what is required and what that requires in turn (validateInputRelationSatisfiability).
AdvertisedIsAccepted ==
    pc = "done" /\ command # Nil /\ inputs = Nil /\ failure.code = "invalid_arguments" =>
        \A name \in NamesOf(Bind(command).inputs) :
            OnCommandLine(InputNamed(Bind(command).inputs, name)) => argv # Advertised(Bind(command), name)
=============================================================================
