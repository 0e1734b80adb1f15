-------------------------- MODULE TailoringBundle --------------------------
(***************************************************************************)
(* The tailoring specification and the bundle compiled from it, as         *)
(* internal/domain/tailoringbundle defines them: what a specification may  *)
(* say about a catalog, the surface derived from both, and the checks that *)
(* let a stored bundle be believed.                                        *)
(***************************************************************************)
EXTENDS OutputPlan
LOCAL INSTANCE SequencesExt
LOCAL INSTANCE Functions

OptionSurfaceType == [default : STRING, include : SliceOf(STRING), exclude : SliceOf(STRING)]
ActionType == [kind : STRING]
DefaultType == [option : STRING, value : STRING]
ProjectionType ==
    [input : STRING, select : Seq(STRING), rename : SliceOf([from : STRING, to : STRING]), render : STRING]
OptimizerType == [input : STRING, contract : STRING, allowOriginal : BOOLEAN]
OutputType ==
    [kind : STRING, projection : PointerTo(ProjectionType), optimizer : PointerTo(OptimizerType)]
WrapperType ==
    [kind : STRING, before : SliceOf(ActionType), defaults : SliceOf(DefaultType),
     append : SliceOf(ArgumentType), after : SliceOf(ActionType), output : PointerTo(OutputType)]
EntryType ==
    [command : Seq(STRING), presence : STRING, reason : STRING, options : PointerTo(OptionSurfaceType),
     wrapper : PointerTo(WrapperType)]
BundleFields == {"schema", "catalogDigest", "catalog", "specificationDigest", "specification",
                 "processors", "surface"}

\* True of every string, but not known to the provers of one.
ASSUME StringAssumption ==
    {"inherit", "identity", "transform", "include", "included", "default", "optimizer",
     "go_test_jsonl", "rtk_go_test_pass", "pipe", "filter", "go-test", "--", "control", "oversized",
     FullText} \subseteq STRING
ASSUME NilEntryAssumption ==
    Nil \notin OptionSurfaceType \cup WrapperType \cup OutputType \cup EntryType \cup Seq(DefaultType)

\* What a bundle file decodes into: identities, digests and evidence are opaque.
BundleDecodes(b) ==
    /\ b = [field \in BundleFields |-> b[field]]
    /\ b.catalog.commands \in SliceOf(CommandType)
    /\ b.specification.commands \in SliceOf(EntryType)
    /\ b.processors # Nil => \A p \in ToSet(b.processors) : p # Nil /\ p.allowOriginal \in BOOLEAN

SurfaceDefaults == {"inherit", "exclude"}
OptionNames(command) == {o.name : o \in ToSet(command.options)}

-----------------------------------------------------------------------------
(* Option surfaces *)

ValidOptionSurface(o, command) ==
    /\ o.default \in SurfaceDefaults
    /\ Bounded(o.include, Limit.options)
    /\ Bounded(o.exclude, Limit.options)
    /\ ToSet(o.include) \cup ToSet(o.exclude) \subseteq OptionNames(command)
    /\ SortedUnique(o.include)
    /\ SortedUnique(o.exclude)
    /\ o.default = "inherit" => o.include = <<>>
    /\ o.default = "exclude" => o.exclude = <<>>
    /\ ToSet(o.include) \cap ToSet(o.exclude) = {}

\* Later lists win: the default, then the inclusions, then the exclusions.
Allowed(o, command) ==
    ((IF o.default = "inherit" THEN OptionNames(command) ELSE {}) \cup ToSet(o.include))
        \ ToSet(o.exclude)

\* IncludedOptions: in catalog order.
IncludedOptions(o, command) ==
    Filter(command.options, {option \in ToSet(command.options) : option.name \in Allowed(o, command)})

-----------------------------------------------------------------------------
(* Wrappers *)

Selectors(command) == {s.selector : s \in ToSet(command.structured)}

ValidArgument(argument) == argument.value \notin {"control", "oversized", FullText}

\* Each default names an included option that takes a value and selects no
\* structured output, once, and not by what is appended as well.
ValidOptionDefaults(defaults, append, surface, command) ==
    /\ ValidOptions(command.options)
    /\ ValidOptionSurface(surface, command)
    /\ \A i \in DOMAIN defaults :
          LET d == defaults[i] IN
             /\ \E o \in ToSet(IncludedOptions(surface, command)) : o.name = d.option /\ o.takesValue
             /\ d.option \notin Selectors(command)
             /\ ValidText(d.value) /\ d.value # FullText
             /\ d.option \notin ActiveNames(append)
    /\ Distinct([i \in DOMAIN defaults |-> defaults[i].option])

\* The fields were observed together, under one selector of that format.
ValidProjection(p, command) ==
    /\ ValidOutputPlan(p)
    /\ \E s \in ToSet(command.structured) :
          s.format = p.input /\ ToSet(p.select) \subseteq ToSet(s.fields)

ValidOptimizer(o, command) ==
    /\ StableName(o.input)
    /\ o.contract \in StableNames
    /\ o.allowOriginal
    /\ \E s \in ToSet(command.structured) : s.format = o.input

\* A strict union: the payload of its kind and no other.
ValidOutput(output, command) ==
    \/ /\ output.kind = "projection"
       /\ output.projection # Nil
       /\ output.optimizer = Nil
       /\ ValidProjection(output.projection, command)
    \/ /\ output.kind = "optimizer"
       /\ output.projection = Nil
       /\ output.optimizer # Nil
       /\ ValidOptimizer(output.optimizer, command)

ChangesNothing(w) == w.defaults = <<>> /\ w.append = <<>> /\ w.output = Nil

ValidWrapper(w, surface, command) ==
    /\ w.before = <<>> /\ w.after = <<>>
    /\ w.defaults # Nil /\ w.append # Nil
    /\ Len(w.defaults) + Len(w.append) <= Limit.arguments
    /\ \A i \in DOMAIN w.append : ValidArgument(w.append[i])
    /\ ValidOptionDefaults(w.defaults, w.append, surface, command)
    /\ \/ w.kind = "identity" /\ ChangesNothing(w)
       \/ /\ w.kind = "transform" /\ ~ChangesNothing(w)
          /\ w.output # Nil => ValidOutput(w.output, command)

-----------------------------------------------------------------------------
(* Specifications *)

Verified(catalog, path) ==
    \E c \in ToSet(catalog.commands) :
        Joined(c.path) = Joined(path) /\ c.provenance = "verified_builtin"

ValidEntry(e, catalog) ==
    /\ Len(e.command) \in 1..Limit.segments
    /\ Verified(catalog, e.command)
    /\ ValidText(e.reason)
    /\ \/ e.presence = "exclude" /\ e.options = Nil /\ e.wrapper = Nil
       \/ /\ e.presence = "include"
          /\ e.options # Nil
          /\ e.wrapper # Nil
          /\ ValidOptionSurface(e.options, CommandNamed(catalog, e.command))
          /\ ValidWrapper(e.wrapper, e.options, CommandNamed(catalog, e.command))

\* Specification.Validate
ValidSpecification(s, catalog) ==
    /\ s.schema = 5
    /\ Bounded(s.commands, Limit.entries)
    /\ s.default \in SurfaceDefaults
    /\ s.catalogDigest # NoDigest
    /\ s.catalogDigest = CatalogDigest(catalog)
    /\ \A i \in DOMAIN s.commands : ValidEntry(s.commands[i], catalog)
    /\ \A i \in 1..Len(s.commands) - 1 :
          PathBefore(Joined(s.commands[i].command), Joined(s.commands[i + 1].command))

SpecificationDigest(s, catalog) ==
    IF ValidSpecification(s, catalog) THEN <<s>> ELSE NoDigest

\* SortSpecification: commands and option sets, never the ordered lists.
SortSpecification(s) ==
    LET Ordered(e) ==
            IF e.options = Nil THEN e
            ELSE [e EXCEPT !.options.include = SortNames(@), !.options.exclude = SortNames(@)]
    IN [s EXCEPT !.commands = SortedBy([i \in DOMAIN @ |-> Ordered(@[i])],
                                       LAMBDA a, b : PathBefore(Joined(a.command), Joined(b.command)))]

-----------------------------------------------------------------------------
(* Processor bindings *)

OptimizerOf(e) ==
    IF e.presence = "include" /\ e.wrapper # Nil /\ e.wrapper.output # Nil
       /\ e.wrapper.output.kind = "optimizer" /\ e.wrapper.output.optimizer # Nil
    THEN {e.wrapper.output.optimizer} ELSE {}

Optimizers(s) == UNION {OptimizerOf(e) : e \in ToSet(s.commands)}

\* ProcessorBinding.validate
ValidBinding(b) ==
    /\ StableName(b.contract) /\ StableName(b.input) /\ StableName(b.output)
    /\ b.allowOriginal
    /\ b.observation.image # Nil
    /\ Len(b.execution.args) \in 1..Limit.processorArguments
    /\ \A i \in DOMAIN b.execution.args : ValidArgument(b.execution.args[i])
    /\ b.execution.stdin = "stage_input"
    /\ b.execution.directory = "isolated"
    /\ b.execution.environment = b.observation.environment
    /\ b.execution.attempts = 1
    /\ b.execution.bounds \in 1..Limit.execution

\* Exactly one binding for every contract that is used, for its one input.
ValidBindings(s, bindings) ==
    /\ Bounded(bindings, Limit.bindings)
    /\ \A o, p \in Optimizers(s) : o.contract = p.contract => o.input = p.input
    /\ \A i \in DOMAIN bindings : ValidBinding(bindings[i])
    /\ SortedUnique([i \in DOMAIN bindings |-> bindings[i].contract])
    /\ {<<b.contract, b.input>> : b \in ToSet(bindings)} = {<<o.contract, o.input>> : o \in Optimizers(s)}

-----------------------------------------------------------------------------
(* Bundles *)

InheritAll == [default |-> "inherit", include |-> <<>>, exclude |-> <<>>]
Identity == [kind |-> "identity", before |-> <<>>, defaults |-> <<>>, append |-> <<>>,
             after |-> <<>>, output |-> Nil]

EntryOf(s, path) ==
    LET of == {i \in DOMAIN s.commands : Joined(s.commands[i].command) = Joined(path)}
    IN IF of = {} THEN Nil ELSE s.commands[CHOOSE i \in of : \A j \in of : j <= i]

\* deriveSurface: verified commands in catalog order, as the specification
\* includes and spells them or as its default inherits them.
DerivedSurface(catalog, s) ==
    LET Included(c) ==
            /\ c.provenance = "verified_builtin"
            /\ IF EntryOf(s, c.path) = Nil THEN s.default = "inherit"
               ELSE EntryOf(s, c.path).presence = "include"
        Entry(c) ==
            IF EntryOf(s, c.path) = Nil
            THEN [command |-> c.path, reason |-> "inherited", options |-> InheritAll, wrapper |-> Identity]
            ELSE [command |-> EntryOf(s, c.path).command, reason |-> EntryOf(s, c.path).reason,
                  options |-> EntryOf(s, c.path).options, wrapper |-> EntryOf(s, c.path).wrapper]
        included == Filter(catalog.commands, {c \in ToSet(catalog.commands) : Included(c)})
    IN [i \in DOMAIN included |-> Entry(included[i])]

NoError == "none"
Failure(error) == [ok |-> FALSE, error |-> error, value |-> Nil]
Success(value) == [ok |-> TRUE, error |-> NoError, value |-> value]

\* Compile: the checks in order, then a bundle that carries what it was made of.
Compile(catalog, s, bindings) ==
    IF CatalogDigest(catalog) = NoDigest THEN Failure("invalid_bundle")
    ELSE IF ~ValidSpecification(s, catalog) THEN Failure("invalid_specification")
    ELSE IF ~ValidBindings(s, bindings) THEN Failure("invalid_bundle")
    ELSE Success([schema |-> 4, catalogDigest |-> CatalogDigest(catalog), catalog |-> catalog,
                  specificationDigest |-> SpecificationDigest(s, catalog), specification |-> s,
                  processors |-> bindings, surface |-> DerivedSurface(catalog, s)])

\* Mutant: the surface is believed as it is stored.
ValidBundleSurfaceBelieved(b) ==
    /\ b.schema = 4
    /\ b.catalogDigest # NoDigest
    /\ b.catalogDigest = CatalogDigest(b.catalog)
    /\ b.specificationDigest # NoDigest
    /\ b.specificationDigest = SpecificationDigest(b.specification, b.catalog)
    /\ ValidBindings(b.specification, b.processors)

\* Bundle.Validate: nothing that is stored is believed before it is derived again.
ValidBundle(b) ==
    /\ b.schema = 4
    /\ b.catalogDigest # NoDigest
    /\ b.catalogDigest = CatalogDigest(b.catalog)
    /\ b.specificationDigest # NoDigest
    /\ b.specificationDigest = SpecificationDigest(b.specification, b.catalog)
    /\ ValidBindings(b.specification, b.processors)
    /\ b.surface = DerivedSurface(b.catalog, b.specification)

\* Digest: a valid bundle is determined by what it was compiled from.
BundleDigest(b) ==
    IF ValidBundle(b)
    THEN <<b.catalogDigest, b.specification, b.processors>> ELSE NoDigest

\* Bundle.Resolve and Bundle.Processor, of a valid bundle: the entry, or Nil.
Resolve(b, path) ==
    LET at == {i \in DOMAIN b.surface : Joined(b.surface[i].command) = Joined(path)}
    IN IF at = {} THEN Nil ELSE b.surface[CHOOSE i \in at : TRUE]

ProcessorFor(b, contract) ==
    LET for == {i \in DOMAIN b.processors : b.processors[i].contract = contract}
    IN IF for = {} THEN Nil ELSE b.processors[CHOOSE i \in for : TRUE]
=============================================================================
