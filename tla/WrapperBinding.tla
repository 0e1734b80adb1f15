--------------------------- MODULE WrapperBinding ---------------------------
(***************************************************************************)
(* The closure embedded in one generated wrapper (internal/domain/         *)
(* wrapperbinding) and the shell function internal/infra/posixwrapper      *)
(* renders from it: help that was compiled from the bundle, and a single   *)
(* command that hands every other invocation to the bound runtime.         *)
(***************************************************************************)
EXTENDS TailoringPlan
LOCAL INSTANCE SequencesExt
LOCAL INSTANCE FiniteSetsExt

\* ValidateCommandName: portable names, less the words a shell gives a meaning.
ReservedWords == {"case", "do", "done", "elif", "else", "esac", "fi", "for", "if", "in", "then",
                  "until", "while"}
SpecialBuiltins == {"break", "continue", "eval", "exec", "exit", "export", "readonly", "return",
                    "set", "shift", "times", "trap", "unset"}
ForbiddenFunctions == {"command", "coproc", "function", "local", "select", "time", "unalias"}
UnportableNames == {"", "./gh", "git-lfs", "oversized"}

ValidCommandName(name) ==
    name \notin UnportableNames \cup ReservedWords \cup SpecialBuiltins \cup ForbiddenFunctions

\* validateAbsolutePath
UncleanPaths == {"", "relative", "/a/../b", "control", "oversized"}
ValidLocator(path) == path \notin UncleanPaths

-----------------------------------------------------------------------------
(* Compiled help *)

DefaultOf(wrapper, name) ==
    LET of == {i \in DOMAIN wrapper.defaults : wrapper.defaults[i].option = name}
    IN IF of = {} THEN Nil ELSE wrapper.defaults[Max(of)].value

HelpCommandOf(catalog, entry) ==
    LET command == CommandAt(catalog, entry.command)
        included == IncludedOptions(entry.options, command)
    IN [path |-> entry.command, summary |-> command.summary, reason |-> entry.reason,
        options |-> [i \in DOMAIN included |->
                        [name |-> included[i].name, takesValue |-> included[i].takesValue,
                         default |-> DefaultOf(entry.wrapper, included[i].name)]]]

\* Selectors of the views: the root and every prefix of an included path.
HelpSelectors(help) ==
    {<<>>} \cup UNION {{SubSeq(c.path, 1, n) : n \in 1..Len(c.path)} : c \in ToSet(help)}

\* What one view shows: the command of that path, and those strictly below it.
ViewOf(help, selector) ==
    [selector |-> selector,
     exact |-> {c \in ToSet(help) : c.path = selector},
     descendants |-> {c.path : c \in {d \in ToSet(help) : IsStrictPrefix(selector, d.path)}}]

\* viewsUnchecked: root first, then the other selectors in path order.
Views(help) ==
    LET below == HelpSelectors(help) \ {<<>>}
        Place(s) == Cardinality({r \in below : PathBefore(r, s)}) + 1
    IN <<ViewOf(help, <<>>)>> \o
       [i \in 1..Cardinality(below) |-> ViewOf(help, CHOOSE s \in below : Place(s) = i)]

\* validateHelpBudget, in lines: the two of the head, the descendants under
\* their title, and the three of a command with its options under theirs.
HelpLines(view) ==
    LET optionLines(c) == IF c.options = <<>> THEN 0 ELSE 1 + Len(c.options)
    IN 2 + (IF view.descendants = {} THEN 0 ELSE 1 + Cardinality(view.descendants))
         + (IF view.exact = {} THEN 0 ELSE 3 + optionLines(CHOOSE c \in view.exact : TRUE))

ValidHelpOption(o) ==
    /\ StableName(o.name)
    /\ o.default # Nil => o.takesValue /\ ValidText(o.default)

ValidHelpCommand(c) ==
    /\ Len(c.path) \in 1..Limit.segments
    /\ \A i \in DOMAIN c.path : StableName(c.path[i])
    /\ ValidText(c.summary) /\ ValidText(c.reason)
    /\ Bounded(c.options, Limit.options)
    /\ \A i \in DOMAIN c.options : ValidHelpOption(c.options[i])
    /\ SortedUnique([i \in DOMAIN c.options |-> c.options[i].name])

\* CompiledHelp.Validate
ValidHelp(help) ==
    /\ Len(help) \in 1..Limit.commands
    /\ \A i \in DOMAIN help : ValidHelpCommand(help[i])
    /\ \A i \in 1..Len(help) - 1 : PathBefore(help[i].path, help[i + 1].path)
    /\ Cardinality(HelpSelectors(help)) <= Limit.views
    /\ LET views == Views(help)
       IN /\ \A i \in DOMAIN views : views[i].exact # {} \/ views[i].descendants # {}
          /\ FoldFunction(+, 0, [i \in DOMAIN views |-> HelpLines(views[i])]) <= Limit.helpLines

\* CompileHelp: nothing is disclosed of what the surface leaves out, and no
\* default is applied that is not disclosed.
CompileHelp(bundle) ==
    LET help == [i \in DOMAIN bundle.surface |-> HelpCommandOf(bundle.catalog, bundle.surface[i])]
        disclosed(i) == ToSet([k \in DOMAIN help[i].options |-> help[i].options[k].name])
    IN IF ~ValidBundle(bundle) THEN Nil
       ELSE IF \E e \in ToSet(bundle.surface) : CommandAt(bundle.catalog, e.command) = Nil THEN Nil
       ELSE IF \E i \in DOMAIN bundle.surface :
                   \E d \in ToSet(bundle.surface[i].wrapper.defaults) : d.option \notin disclosed(i)
            THEN Nil
       ELSE IF ~ValidHelp(help) THEN Nil
       ELSE help

-----------------------------------------------------------------------------
(* Bindings *)

ValidInvocation(b) ==
    /\ b.contract = 3
    /\ ValidLocator(b.locator)
    /\ b.digest # NoDigest
    /\ b.runtime # Nil

ValidWrapperBinding(b) ==
    /\ ValidInvocation(b)
    /\ ValidCommandName(b.name)
    /\ ValidHelp(b.help)

\* ValidateAgainstBundle
BindsBundle(b, bundle) ==
    /\ ValidWrapperBinding(b)
    /\ BundleDigest(bundle) # NoDigest
    /\ b.digest = BundleDigest(bundle)
    /\ b.name = bundle.catalog.source.requested
    /\ b.help = CompileHelp(bundle)

\* A binding is handed out only when it agrees with its bundle.
Bound(b, bundle) ==
    IF b.digest # BundleDigest(bundle) \/ b.help = Nil \/ ~BindsBundle(b, bundle)
    THEN Failure("invalid_wrapper_binding") ELSE Success(b)

\* New: every fact of the binding comes from the bundle or from the runtime.
NewBinding(locator, digest, bundle, runtime) ==
    Bound([contract |-> 3, locator |-> locator, digest |-> digest,
           name |-> bundle.catalog.source.requested, help |-> CompileHelp(bundle),
           runtime |-> runtime], bundle)

-----------------------------------------------------------------------------
(* The rendered function: a help branch per view, compared word by word    *)
(* with the whole argument list, and the runtime for everything else. The  *)
(* bound on the rendered bytes is one on its branches, Limit.material.     *)

HelpWord == Long("help")

Render(b) ==
    LET views == Views(b.help)
        script == [name |-> b.name,
                   branches |-> [i \in DOMAIN views |->
                                    [when |-> Words(views[i].selector) \o <<HelpWord>>, show |-> views[i]]],
                   otherwise |-> [bundle |-> b.locator, digest |-> b.digest, runtime |-> b.runtime]]
    IN IF ~ValidWrapperBinding(b) \/ Len(views) > Limit.material
       THEN Failure("wrapper_render_failed") ELSE Success(script)

\* What a user who runs the function with these arguments meets.
Meets(script, args) ==
    LET branch == {i \in DOMAIN script.branches : script.branches[i].when = args}
    IN IF branch = {} THEN [kind |-> "runtime", view |-> Nil]
       ELSE [kind |-> "help", view |-> script.branches[Min(branch)].show]
=============================================================================
