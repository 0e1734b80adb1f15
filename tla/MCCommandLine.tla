---------------------------- MODULE MCCommandLine ----------------------------
(* The released catalog and small trial catalogs of CommandLine for TLC. *)
EXTENDS CommandLine
LOCAL INSTANCE SequencesExt

shipped == [kind |-> "shipped"]

MCUnsafeTexts == {"control"}
MCIntegerOf == ("0" :> 0) @@ ("1" :> 1) @@ ("3" :> 3) @@ ("-3" :> -3)
MCLongTexts == {"long"}

\* A trial catalog: help, and one command that takes the given inputs.
Probe(declared, syntax) ==
    Command(<<"probe">>, "read", "utility", declared, syntax, Output({"text"}, "text", Nil, "not_applicable"),
            Final("invalid_input", "help probe", {"invalid_arguments"})
            \cup Final("contract", "help probe", {"output_contract_exceeded", "output_encoding_failed"})
            \cup Retryable("internal", "probe", {"output_write_failed"})
            \cup Retryable("canceled", "probe", {"operation_canceled"}))
Trial(declared, syntax) == <<HelpCommand, Probe(declared, syntax)>>

Names == <<"--a", "--b", "--c">>
Others(n) == {"--a", "--b", "--c"} \ {n}

\* Every choice of what three flags require, of one pair that conflicts, and of one that is required.
Requirements ==
    {r \in [{"--a", "--b", "--c"} -> SUBSET {"--a", "--b", "--c"}] : \A n \in DOMAIN r : r[n] \subseteq Others(n)}
Related == [kind : {"relations"}, requires : Requirements,
            conflict : {<<>>, <<"--a", "--b">>, <<"--b", "--c">>, <<"--c", "--a">>}, first : BOOLEAN]
RelatedInputs(t) ==
    [k \in 1..3 |->
        [OptionalFlag(Names[k]) EXCEPT
            !.required  = t.first /\ k = 1,
            !.requires  = t.requires[Names[k]],
            !.conflicts = IF t.conflict # <<>> /\ t.conflict[1] = Names[k] THEN {t.conflict[2]} ELSE {}]]
RelatedSyntax(t) ==
    (IF t.first THEN FlagSyntax("--a") ELSE OptionalSyntax("--a", <<>>))
        \o OptionalSyntax("--b", <<>>) \o OptionalSyntax("--c", <<>>)

\* Other shapes: integers, booleans, optional and repeated positionals, and contracts that contradict themselves.
Count == [Argument("count") EXCEPT !.kind = "integer", !.minimum = -3, !.maximum = 1]
Shapes ==
    <<Trial(<<Count, [OptionalFlag("--all") EXCEPT !.kind = "boolean"]>>,
            <<SyntaxFlag("--all", TRUE), SyntaxArgument("count", FALSE)>>),
      Trial(<<Argument("first"), [Argument("second") EXCEPT !.required = FALSE]>>,
            <<SyntaxArgument("first", FALSE), SyntaxArgument("second", TRUE)>>),
      Trial(<<Arguments("first"), Argument("second")>>,
            <<SyntaxArgument("first", FALSE), SyntaxArgument("second", FALSE)>>),
      Trial(<<RequiredFlag("--a")>>, OptionalSyntax("--a", <<>>)),
      Trial(<<[OptionalFlag("--a") EXCEPT !.default = "other", !.allowed = <<"one", "two">>]>>,
            OptionalSyntax("--a", <<"one", "two">>)),
      Trial(<<[OptionalFlag("--a") EXCEPT !.default = "two", !.allowed = <<"one", "two">>]>>,
            OptionalSyntax("--a", <<"one", "two">>))>>

Shaped == [kind : {"shapes"}, at : DOMAIN Shapes]

MCCatalogs ==
    [e \in {shipped} \cup Related \cup Shaped |->
        IF e = shipped THEN DefaultCatalog
        ELSE IF e.kind = "shapes" THEN Shapes[e.at] ELSE Trial(RelatedInputs(e), RelatedSyntax(e))]

Suggested(catalog) ==
    UNION {{Advertised(c, i.name) : i \in {j \in ToSet(c.inputs) : OnCommandLine(j)}} \cup {Words(c.words)} :
              c \in ToSet(catalog)}

Binding == [k \in DOMAIN BindingFlags |->
               FlagWith(BindingFlags[k], IF BindingFlags[k] = "--contract-version" THEN "3" ELSE "1")]
WrapperCall == Words(<<"wrapper", "run">>) \o Binding
PreviewCall == Words(<<"bundle", "preview">>) \o <<FlagWith("--bundle", "b")>>

\* Arguments a caller may write: global options, aliases, namespaces, forwarded flags, mistakes, a kilobyte of text.
Written ==
    {<<>>, <<Flag("--error-format")>>, <<Flag("--error-format"), Word("json"), Word("version")>>,
     <<FlagWith("--error-format", "xml")>>,
     <<FlagWith("--error-format", "json"), FlagWith("--error-format", "text"), Word("version")>>,
     <<Flag("--help")>>, <<Short("-h"), Word("wrapper")>>, <<Short("-v")>>, <<Flag("--version"), Word("more")>>,
     <<Word("unknown")>>, <<Word("wrapper"), Flag("--help")>>, <<Word("bundle"), Word("preview"), Short("-h")>>,
     <<Word("help"), Word("nothing")>>, <<Word("help"), Word("bundle"), Flag("--format"), Word("agent")>>,
     <<Word("long")>>, <<Word("help"), Word("long")>>, <<Word("doctor"), Word("long")>>,
     <<Word("wrapper")>>, <<Word("doctor"), Word("control")>>, <<Word("doctor"), Flag("--format"), Marker>>,
     WrapperCall, WrapperCall \o <<Marker>>, WrapperCall \o <<Flag("--help")>>,
     WrapperCall \o <<Word("early"), Marker, Word("issue")>>,
     WrapperCall \o <<Marker, Word("issue"), Flag("--help")>>,
     WrapperCall \o <<Marker, FlagWith("--bundle", "other"), Short("-h")>>,
     WrapperCall \o <<Marker, Marker, FlagWith("--runtime-path", "other")>>,
     WrapperCall \o <<FlagWith("--bundle", "again"), Marker>>,
     PreviewCall \o <<Word("gh"), Short("-h")>>, PreviewCall \o <<Word("gh"), Flag("--help")>>,
     PreviewCall \o <<Marker, Word("gh"), FlagWith("--bundle", "other"), Flag("--help")>>,
     Words(<<"bundle", "preview">>) \o <<Marker, Word("gh"), FlagWith("--bundle", "other"), Word("issue")>>,
     PreviewCall \o <<Word("gh"), Marker, Word("issue"), Marker>>,
     Words(<<"bundle", "execute">>) \o <<Flag("--bundle"), Word("b"), Marker, Word("gh"), Flag("--bundle")>>,
     Words(<<"spec", "init">>) \o <<FlagWith("--catalog", "c"), FlagWith("--processor", "control"), Marker, Word("issue")>>}

MCInvocations ==
    [e \in DOMAIN MCCatalogs |->
        IF e = shipped THEN Suggested(DefaultCatalog) \cup Written
        ELSE IF ValidCatalog(MCCatalogs[e]) THEN Suggested(MCCatalogs[e]) \cup {<<Word("probe"), Short("-3")>>}
        ELSE {<<Word("probe")>>}]
=============================================================================
