--------------------------- MODULE SourceCatalog ---------------------------
(***************************************************************************)
(* The vendor-neutral catalog of one inspected source tool, as             *)
(* internal/domain/sourcecatalog defines it, and the argument vectors the  *)
(* other models read against it.                                           *)
(*                                                                         *)
(* Names are strings listed in byte order by Alphabet, texts are strings   *)
(* of which UnusableTexts are the ones validateText refuses, and Digest is *)
(* the SHA-256 of CanonicalJSON: distinct on distinct valid documents.     *)
(***************************************************************************)
EXTENDS Integers, Sequences, FiniteSets, TLC
LOCAL INSTANCE SequencesExt
LOCAL INSTANCE Functions

CONSTANTS
    Alphabet,   \* the stable names, in byte order
    Nil,        \* an absent pointer, list or document
    Limit,      \* the bounds of the documents, by what they bound
    Spaced,     \* the segments that hold a blank, and the words each is made of
    Digest(_)   \* the digest of a valid catalog

-----------------------------------------------------------------------------
(* Documents decode into Go types, or not at all (strictjson.Decode). A     *)
(* pointer, and a list of which the code asks whether it is written out,   *)
(* may be Nil; of any other list null is the empty one.                    *)

PointerTo(T) == T \cup {Nil}
SliceOf(T) == Seq(T) \cup {Nil}

OptionType == [name : STRING, takesValue : BOOLEAN]
StructuredType == [format : STRING, selector : STRING, fields : SliceOf(STRING)]
CommandType ==
    [path : Seq(STRING), summary : STRING, provenance : STRING, options : SliceOf(OptionType),
     structured : SliceOf(StructuredType)]

\* One argument of a command line: see Arguments below.
ArgumentType ==
    [kind : {"word", "short"}, name : STRING, value : {Nil}]
    \cup [kind : {"long"}, name : STRING, value : PointerTo(STRING)]
    \cup [kind : {"terminator"}, name : {"--"}, value : {Nil}]

ASSUME AlphabetAssumption == Alphabet \in Seq(STRING)
ASSUME LimitAssumption ==
    {Limit.segments, Limit.options, Limit.fields, Limit.arguments, Limit.sourceArguments,
     Limit.processorArguments, Limit.execution, Limit.bindings, Limit.entries} \subseteq Nat \ {0}
ASSUME NilAssumption ==
    /\ Nil \notin STRING \cup Seq(STRING)
    /\ Nil \notin CommandType \cup Seq(ArgumentType)

\* The elements of s that are in S, in order.
Filter(s, S) ==
    LET upTo[n \in 0..Len(s)] ==
            IF n = 0 THEN <<>>
            ELSE IF s[n] \in S THEN Append(upTo[n - 1], s[n]) ELSE upTo[n - 1]
    IN upTo[Len(s)]

\* slices.SortFunc, which leaves a list of one as it is.
SortedBy(s, Before(_, _)) == IF Len(s) < 2 THEN s ELSE SortSeq(s, Before)

-----------------------------------------------------------------------------
(* Texts and names *)

EmptyText == "empty"   \* the text without a byte
FullText == "full"     \* a valid one of maximal size: no argument holds more before it
UnusableTexts == {EmptyText, "control", "oversized"}
ValidText(t) == t \notin UnusableTexts

StableNames == ToSet(Alphabet)
Rank == [n \in StableNames |-> CHOOSE i \in DOMAIN Alphabet : Alphabet[i] = n]
StableName(n) == n \in StableNames

SortedUnique(names) ==
    \A i \in 1..Len(names) - 1 : Rank[names[i]] < Rank[names[i + 1]]

SortNames(names) == SortedBy(names, LAMBDA a, b : Rank[a] < Rank[b])

\* Only a document written by a user can hold a segment with a blank.
ASSUME SpacedAssumption ==
    \A segment \in DOMAIN Spaced : segment \notin StableNames /\ Spaced[segment] \in Seq(STRING)

SplitSegment(segment) == IF segment \in DOMAIN Spaced THEN Spaced[segment] ELSE <<segment>>

\* The key strings.Join(path, " "), as its words: paths that differ may share it.
Joined(path) == FlattenSeq([i \in DOMAIN path |-> SplitSegment(path[i])])

\* The order of keys: a blank sorts before every name.
PathBefore(p, q) ==
    \/ p # q /\ IsPrefix(p, q)
    \/ \E i \in DOMAIN p \cap DOMAIN q :
          /\ Rank[p[i]] < Rank[q[i]]
          /\ SubSeq(p, 1, i - 1) = SubSeq(q, 1, i - 1)

Bounded(list, bound) == list # Nil /\ Len(list) <= bound

-----------------------------------------------------------------------------
(* Arguments: a word, a long option with or without an inline value, a     *)
(* short option, or a "--". strings.HasPrefix(argument, "-") is Dashed and *)
(* strings.Cut(argument, "=") gives name and value. A long option is named *)
(* without its dashes and a short one, like "-json", with its dash.        *)

Word(w)    == [kind |-> "word", name |-> w, value |-> Nil]
Long(n)    == [kind |-> "long", name |-> n, value |-> Nil]
Inline(n, v) == [kind |-> "long", name |-> n, value |-> v]
Short(n)   == [kind |-> "short", name |-> n, value |-> Nil]
Terminator == [kind |-> "terminator", name |-> "--", value |-> Nil]

Dashed(argument) == argument.kind # "word"
Words(names) == [i \in DOMAIN names |-> Word(names[i])]

\* Every index before the first terminator: the region where options are active.
Active(args) == {i \in DOMAIN args : \A j \in 1..i : args[j] # Terminator}

\* activeLongOptionNames
ActiveNames(args) == {args[i].name : i \in {j \in Active(args) : args[j].kind = "long"}}

-----------------------------------------------------------------------------
Provenances == {"verified_builtin", "observed_extension", "unverified_dynamic"}

ValidOptions(options) ==
    /\ Bounded(options, Limit.options)
    /\ \A i \in DOMAIN options : StableName(options[i].name)
    /\ SortedUnique([i \in DOMAIN options |-> options[i].name])

\* One entry per format and selector, in order, each with sorted fields.
ValidStructured(outputs) ==
    /\ Bounded(outputs, Limit.outputs)
    /\ \A i \in DOMAIN outputs :
          /\ StableName(outputs[i].format)
          /\ StableName(outputs[i].selector)
          /\ Bounded(outputs[i].fields, Limit.fields)
          /\ SortedUnique(outputs[i].fields)
    /\ \A i \in 1..Len(outputs) - 1 :
          PathBefore(<<outputs[i].format, outputs[i].selector>>,
                     <<outputs[i + 1].format, outputs[i + 1].selector>>)

ValidCommand(c) ==
    /\ Len(c.path) \in 1..Limit.segments
    /\ \A i \in DOMAIN c.path : StableName(c.path[i])
    /\ ValidText(c.summary)
    /\ c.provenance \in Provenances
    /\ ValidOptions(c.options)
    /\ ValidStructured(c.structured)

\* Catalog.Validate: one attempt per probe, and commands in canonical order.
ValidCatalog(c) ==
    /\ c.schema = 2
    /\ c.adapter.version > 0
    /\ ValidText(c.source.requested)
    /\ c.source.image # Nil /\ c.source.path # Nil
    /\ ValidText(c.source.version)
    /\ Len(c.probe.ids) \in 1..Limit.probes
    /\ c.probe.attempts = Len(c.probe.ids)
    /\ SortedUnique(c.probe.ids)
    /\ c.commands # Nil /\ Len(c.commands) \in 1..Limit.commands
    /\ \A i \in DOMAIN c.commands : ValidCommand(c.commands[i])
    /\ \A i \in 1..Len(c.commands) - 1 : PathBefore(c.commands[i].path, c.commands[i + 1].path)

\* A digest holds what tells its document from others, and is empty when there is
\* none: an invalid document has no digest.
NoDigest == <<>>
CatalogDigest(c) == IF ValidCatalog(c) THEN <<Digest(c)>> ELSE NoDigest

\* Sort: the canonical order of what an adapter found, repairing nothing.
SortCatalog(c) ==
    LET Ordered(command) ==
            [command EXCEPT
                !.options = SortedBy(@, LAMBDA a, b : Rank[a.name] < Rank[b.name]),
                !.structured =
                    SortedBy([i \in DOMAIN @ |-> [@[i] EXCEPT !.fields = SortNames(@)]],
                             LAMBDA a, b : PathBefore(<<a.format, a.selector>>, <<b.format, b.selector>>))]
    IN [c EXCEPT
           !.probe.ids = SortNames(@),
           !.commands = SortedBy([i \in DOMAIN @ |-> Ordered(@[i])],
                                 LAMBDA a, b : PathBefore(a.path, b.path))]

\* The command of exactly this path, and the one whose path has the same key.
CommandAt(catalog, path) ==
    LET at == {i \in DOMAIN catalog.commands : catalog.commands[i].path = path}
    IN IF at = {} THEN Nil ELSE catalog.commands[CHOOSE i \in at : TRUE]

CommandNamed(catalog, path) ==
    LET at == {i \in DOMAIN catalog.commands : Joined(catalog.commands[i].path) = Joined(path)}
    IN IF at = {} THEN Nil ELSE catalog.commands[CHOOSE i \in at : TRUE]

IdentityOf(catalog) == catalog.source.image
=============================================================================
