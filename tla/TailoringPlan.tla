--------------------------- MODULE TailoringPlan ---------------------------
(***************************************************************************)
(* The plan of one invocation, as internal/domain/tailoringplan builds it  *)
(* from a bundle and the arguments of a caller: which cataloged command is *)
(* meant, whether the surface admits its options, which defaults apply,    *)
(* and the checks a detached plan must pass on its own.                    *)
(***************************************************************************)
EXTENDS TailoringBundle
LOCAL INSTANCE SequencesExt

-----------------------------------------------------------------------------
(* Requests, as internal/domain/sourceprocess and processorprocess admit   *)
(* them. The timeout and byte limits are the constants of the code.        *)

ValidSourceRequest(args) ==
    Bounded(args, Limit.sourceArguments) /\ \A i \in DOMAIN args : ValidArgument(args[i])

ValidProcessorRequest(r) ==
    /\ r.executable = r.identity
    /\ r.identity # Nil
    /\ Bounded(r.args, Limit.processorArguments)
    /\ \A i \in DOMAIN r.args : ValidArgument(r.args[i])
    /\ r.environment = "rtk_isolated"

-----------------------------------------------------------------------------
(* Resolution of the command *)

Matches(catalog, args) ==
    {c \in ToSet(catalog.commands) : IsPrefix(Words(c.path), args)}

\* longestCommandPrefix
Matched(catalog, args) ==
    IF Matches(catalog, args) = {} THEN Nil
    ELSE CHOOSE c \in Matches(catalog, args) :
            \A d \in Matches(catalog, args) : Len(d.path) <= Len(c.path)

\* ambiguousDescendant: the next word may be a command the catalog lists deeper.
Ambiguous(catalog, path, args) ==
    /\ Len(args) > Len(path)
    /\ ~Dashed(args[Len(path) + 1])
    /\ \E c \in ToSet(catalog.commands) : IsStrictPrefix(path, c.path)

CallerTail(path, args) == SubSeq(args, Len(path) + 1, Len(args))

-----------------------------------------------------------------------------
(* Options of the caller *)

TakesValue(command, n) == \E o \in ToSet(command.options) : o.name = n /\ o.takesValue

\* Mutant: the value of an option may begin with a dash.
OptionErrorsDashValues(command, surface, args) ==
    LET from[i \in 1..Len(args) + 2] ==
            IF i > Len(args) THEN NoError
            ELSE LET a == args[i] IN
                 IF a = Terminator THEN NoError
                 ELSE IF ~Dashed(a) THEN from[i + 1]
                 ELSE IF a.kind = "short" \/ a.name \notin OptionNames(command)
                      THEN "invalid_invocation"
                 ELSE IF a.name \notin Allowed(surface, command) THEN "option_not_in_surface"
                 ELSE IF TakesValue(command, a.name) = (a.value # Nil) THEN from[i + 1]
                 ELSE IF a.value # Nil \/ i = Len(args) THEN "invalid_invocation"
                 ELSE from[i + 2]
    IN from

\* validateTailoredOptions: for each argument, the first error from there on, or none.
OptionErrors(command, surface, args) ==
    LET from[i \in 1..Len(args) + 2] ==
            IF i > Len(args) THEN NoError
            ELSE LET a == args[i] IN
                 IF a = Terminator THEN NoError
                 ELSE IF ~Dashed(a) THEN from[i + 1]
                 ELSE IF a.kind = "short" \/ a.name \notin OptionNames(command)
                      THEN "invalid_invocation"
                 ELSE IF a.name \notin Allowed(surface, command) THEN "option_not_in_surface"
                 ELSE IF TakesValue(command, a.name) = (a.value # Nil) THEN from[i + 1]
                 ELSE IF a.value # Nil \/ i = Len(args) \/ (i < Len(args) /\ Dashed(args[i + 1]))
                      THEN "invalid_invocation"
                 ELSE from[i + 2]
    IN from

OptionError(command, surface, args) == OptionErrors(command, surface, args)[1]

\* Mutant: what the caller gave is not looked at.
AppliedDefaultsAlways(defaults, tail) == defaults

\* appliedDefaults: those whose option the caller did not give before a "--".
AppliedDefaults(defaults, tail) ==
    Filter(defaults, {d \in ToSet(defaults) : d.option \notin ActiveNames(tail)})

DefaultArguments(defaults) ==
    [i \in DOMAIN defaults |-> Inline(defaults[i].option, defaults[i].value)]

Transformed(path, defaults, tail, append) ==
    Words(path) \o DefaultArguments(AppliedDefaults(defaults, tail)) \o tail \o append

\* For each argument, whether from there on a configured option lacks its value.
ValueMissing(configured, tail) ==
    LET from[i \in 1..Len(tail) + 2] ==
            IF i > Len(tail) THEN FALSE
            ELSE IF tail[i] = Terminator THEN FALSE
            ELSE IF tail[i].name \notin configured \/ tail[i].value # Nil \/ tail[i].kind = "word"
                 THEN from[i + 1]
            ELSE IF i = Len(tail) THEN TRUE
            ELSE IF Dashed(tail[i + 1]) THEN TRUE
            ELSE from[i + 2]
    IN from

\* validatePlanOptionDefaults: what a plan can show of its defaults without a
\* catalog, and that a caller who gives such an option gives it a value.
PlanDefaultsError(defaults, append, tail) ==
    \/ Len(defaults) + Len(append) > Limit.arguments
    \/ \E d \in ToSet(defaults) :
          \/ ~StableName(d.option) \/ d.option \in ActiveNames(append)
          \/ ~ValidText(d.value) \/ d.value = FullText
    \/ ~Distinct([i \in DOMAIN defaults |-> defaults[i].option])
    \/ ValueMissing({d.option : d \in ToSet(defaults)}, tail)[1]

-----------------------------------------------------------------------------
(* The selector of structured output *)

FormatsOf(command, selector) ==
    {s.format : s \in {t \in ToSet(command.structured) : t.selector = selector}}

\* validateOutputSelector: how many active selectors there are, and whether
\* each stands for the one format that is planned.
SelectorError(command, input, args) ==
    LET IsSelector(i) == Dashed(args[i]) /\ FormatsOf(command, args[i].name) # {}
        from[i \in 1..Len(args) + 2] ==
            IF i > Len(args) THEN [found |-> 0, conflict |-> FALSE]
            ELSE IF args[i] = Terminator THEN [found |-> 0, conflict |-> FALSE]
            ELSE LET skips == /\ args[i].kind # "word" /\ args[i].value = Nil
                              /\ args[i].kind = "long" /\ TakesValue(command, args[i].name)
                              /\ i < Len(args)
                     rest == from[IF skips THEN i + 2 ELSE i + 1]
                 IN IF ~IsSelector(i) THEN rest
                    ELSE [found |-> rest.found + 1,
                          conflict |-> rest.conflict \/ FormatsOf(command, args[i].name) # {input}]
    IN from[1].conflict \/ from[1].found # 1

-----------------------------------------------------------------------------
ResultMode(output) ==
    IF output = Nil THEN "source_stream_passthrough"
    ELSE IF output.kind = "projection" THEN "transformed_json"
    ELSE "original_preserving_optimizer"

OutputInput(output) ==
    IF output.kind = "projection" THEN output.projection.input ELSE output.optimizer.input

\* Plan.Validate, of what a detached plan holds.
ModeAgrees(p) ==
    \/ /\ p.mode = "transformed_json"
       /\ p.output # Nil /\ p.output.kind = "projection" /\ p.processor = Nil
    \/ /\ p.mode = "source_stream_passthrough"
       /\ p.output = Nil /\ p.processor = Nil
    \/ /\ p.mode = "original_preserving_optimizer"
       /\ p.output # Nil /\ p.output.kind = "optimizer" /\ p.output.optimizer # Nil
       /\ p.processor # Nil /\ ValidBinding(p.processor)
       /\ p.processor.contract = p.output.optimizer.contract
       /\ p.processor.input = p.output.optimizer.input
       /\ p.processor.allowOriginal = p.output.optimizer.allowOriginal

SelfContainedOutput(output) ==
    \/ output.kind = "projection" /\ output.optimizer = Nil /\ output.projection # Nil
       /\ ValidOutputPlan(output.projection)
    \/ output.kind = "optimizer" /\ output.projection = Nil /\ output.optimizer # Nil
       /\ StableName(output.optimizer.input) /\ output.optimizer.allowOriginal

WrapperAgrees(p) ==
    /\ p.before = <<>> /\ p.after = <<>>
    /\ \/ /\ p.wrapperKind = "identity"
          /\ p.defaults = <<>> /\ p.applied = <<>> /\ p.append = <<>> /\ p.output = Nil
       \/ /\ p.wrapperKind = "transform"
          /\ p.defaults # <<>> \/ p.append # <<>> \/ p.output # Nil
          /\ p.output # Nil => SelfContainedOutput(p.output)

EntryAgrees(p) ==
    IF p.origin = "inherited" THEN p.entry = Nil
    ELSE /\ p.entry # Nil
         /\ p.entry.presence = "include"
         /\ p.entry.command = p.command
         /\ p.entry.reason = p.reason
         /\ p.entry.options = p.options
         /\ p.entry.wrapper = [kind |-> p.wrapperKind, before |-> p.before, defaults |-> p.defaults,
                               append |-> p.append, after |-> p.after, output |-> p.output]

ValidPlanOptions(o) ==
    /\ o.default \in SurfaceDefaults
    /\ Bounded(o.include, Limit.options) /\ Bounded(o.exclude, Limit.options)
    /\ \A n \in ToSet(o.include) \cup ToSet(o.exclude) : StableName(n)
    /\ SortedUnique(o.include) /\ SortedUnique(o.exclude)
    /\ o.default = "inherit" => o.include = <<>>
    /\ o.default = "exclude" => o.exclude = <<>>

ValidPlan(p) ==
    /\ ModeAgrees(p)
    /\ p.bundleDigest # NoDigest /\ p.catalogDigest # NoDigest /\ p.specificationDigest # NoDigest
    /\ p.source.image # Nil /\ ValidText(p.source.requested) /\ ValidText(p.source.version)
    /\ Len(p.command) \in 1..Limit.segments
    /\ \A i \in DOMAIN p.command : StableName(p.command[i])
    /\ ValidText(p.reason)
    /\ ValidPlanOptions(p.options)
    /\ p.executable \in {p.source.requested, p.source.path}
    /\ Len(p.original) >= 1 /\ ValidSourceRequest(p.original)
    /\ IsPrefix(Words(p.command), p.original)
    /\ ~PlanDefaultsError(p.defaults, p.append, CallerTail(p.command, p.original))
    /\ p.applied = AppliedDefaults(p.defaults, CallerTail(p.command, p.original))
    /\ p.args = Transformed(p.command, p.defaults, CallerTail(p.command, p.original), p.append)
    /\ WrapperAgrees(p)
    /\ EntryAgrees(p)
    /\ ValidSourceRequest(p.args)

\* The entry of the specification that spells the command as the surface does.
ExplicitEntry(s, command) ==
    LET of == {i \in DOMAIN s.commands : s.commands[i].command = command}
    IN IF of = {} THEN Nil ELSE s.commands[CHOOSE i \in of : \A j \in of : i <= j]

\* The plan Build assembles: what runs is the cataloged command, and the command
\* it is said to match is the one the surface entry names.
PlanOf(bundle, command, entry, executable, args) ==
    LET w == entry.wrapper
        tail == CallerTail(command.path, args)
        explicit == ExplicitEntry(bundle.specification, entry.command)
    IN [mode |-> ResultMode(w.output),
        bundleDigest |-> BundleDigest(bundle), catalogDigest |-> bundle.catalogDigest,
        specificationDigest |-> bundle.specificationDigest,
        source |-> bundle.catalog.source, adapter |-> bundle.catalog.adapter,
        command |-> entry.command, reason |-> entry.reason, options |-> entry.options,
        origin |-> IF explicit = Nil THEN "inherited" ELSE "explicit",
        entry |-> explicit,
        wrapperKind |-> w.kind, before |-> w.before, after |-> w.after,
        defaults |-> w.defaults, applied |-> AppliedDefaults(w.defaults, tail), append |-> w.append,
        output |-> w.output,
        processor |-> IF w.output # Nil /\ w.output.kind = "optimizer"
                      THEN ProcessorFor(bundle, w.output.optimizer.contract) ELSE Nil,
        executable |-> executable, original |-> args,
        args |-> Transformed(command.path, w.defaults, tail, w.append)]

\* The part of Build that looks at what would run.
Checked(plan, command) ==
    IF plan.output # Nil
       /\ SelectorError(command, OutputInput(plan.output), CallerTail(command.path, plan.args))
    THEN Failure("invalid_invocation")
    ELSE IF ~ValidSourceRequest(plan.args) THEN Failure("invalid_invocation")
    ELSE IF plan.mode = "original_preserving_optimizer" /\ plan.processor = Nil THEN Failure("invalid_plan")
    ELSE IF ~ValidPlan(plan) THEN Failure("invalid_plan")
    ELSE Success(plan)

\* Build: the checks in the order of the code; the first that fails answers.
Build(bundleDigest, bundle, current, executable, args) ==
    LET command == Matched(bundle.catalog, args)
        entry == Resolve(bundle, command.path)
        optionError == OptionError(command, entry.options, CallerTail(command.path, args))
    IN IF bundleDigest = NoDigest \/ BundleDigest(bundle) # bundleDigest THEN Failure("invalid_plan")
       ELSE IF args = Nil \/ args = <<>> \/ ~ValidSourceRequest(args) THEN Failure("invalid_invocation")
       ELSE IF executable \notin {bundle.catalog.source.requested, bundle.catalog.source.path}
            THEN Failure("source_executable_mismatch")
       ELSE IF current # IdentityOf(bundle.catalog) THEN Failure("invalid_plan")
       ELSE IF command = Nil THEN Failure("invalid_invocation")
       ELSE IF Ambiguous(bundle.catalog, command.path, args) THEN Failure("invalid_invocation")
       ELSE IF entry = Nil THEN Failure("command_not_in_surface")
       ELSE IF optionError # NoError THEN Failure(optionError)
       ELSE Checked(PlanOf(bundle, command, entry, executable, args), command)

\* SourceRequest and ProcessorRequest: what a valid plan lets a runner start.
SourceRequest(p) ==
    IF ValidPlan(p) /\ p.source.path # Nil
    THEN Success([args |-> p.args, identity |-> p.source.image]) ELSE Failure("invalid_plan")

ProcessorRequest(p) ==
    LET request == [executable |-> p.processor.observation.image,
                    identity |-> p.processor.observation.image,
                    args |-> p.processor.execution.args,
                    environment |-> p.processor.execution.environment]
    IN IF ~ValidPlan(p) \/ p.mode # "original_preserving_optimizer" THEN Failure("invalid_plan")
       ELSE IF ~ValidProcessorRequest(request) THEN Failure("invalid_plan")
       ELSE Success(request)
=============================================================================
