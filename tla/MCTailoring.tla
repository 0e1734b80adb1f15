---------------------------- MODULE MCTailoring ----------------------------
(***************************************************************************)
(* One GitHub CLI in two versions and one Go CLI, found in no particular    *)
(* order, an official processor and a patched one, and the specifications  *)
(* a user writes for them.                                                 *)
(***************************************************************************)
EXTENDS TailoringDocuments

MCAlphabet == <<"-json", "Action", "Elapsed", "FailedBuild", "Output", "Package", "Test", "Time",
                "draft", "ext", "go_test_jsonl", "go_test_pass_summary", "id", "issue", "json",
                "limit", "list", "name", "pr", "rtk_go_test_pass", "search", "state", "test", "title",
                "version", "web">>

MCLimit == [commands |-> 4, segments |-> 2, options |-> 5, outputs |-> 1, fields |-> 7, probes |-> 4,
            entries |-> 2, arguments |-> 3, bindings |-> 1, execution |-> 1, sourceArguments |-> 9,
            processorArguments |-> 2, views |-> 8, helpLines |-> 40, material |-> 8]

MCSpaced == "pr list" :> <<"pr", "list">>

Value(n) == [name |-> n, takesValue |-> TRUE]
Flag(n) == [name |-> n, takesValue |-> FALSE]
Json(fields) == <<[format |-> "json", selector |-> "json", fields |-> fields]>>
Cataloged(path, provenance, options, structured) ==
    [path |-> path, summary |-> "summary", provenance |-> provenance, options |-> options,
     structured |-> structured]

GitHubCatalog(image, version) ==
    [schema |-> 2, adapter |-> GitHub, probe |-> [ids |-> <<"issue", "version">>, attempts |-> 2],
     source |-> [requested |-> "gh", path |-> "/bin/gh", image |-> image, version |-> version],
     commands |-> <<Cataloged(<<"ext">>, "observed_extension", <<>>, <<>>),
                    Cataloged(<<"issue">>, "verified_builtin", <<>>, <<>>),
                    Cataloged(<<"issue", "list">>, "verified_builtin",
                              <<Value("limit"), Value("json")>>, Json(<<"title", "id">>)),
                    Cataloged(<<"pr", "list">>, "verified_builtin",
                              <<Flag("draft"), Value("json"), Value("limit"), Value("search"), Flag("web")>>,
                              Json(<<"id", "title">>))>>]

GoCatalog ==
    [schema |-> 2, adapter |-> GoCli, probe |-> [ids |-> <<"test", "version">>, attempts |-> 2],
     source |-> [requested |-> "go", path |-> "/bin/go", image |-> "go_1", version |-> "go1.26.0"],
     commands |-> <<Cataloged(<<"version">>, "verified_builtin", <<>>, <<>>),
                    Cataloged(GoTest, "verified_builtin", <<>>,
                              <<[format |-> "go_test_jsonl", selector |-> "-json", fields |-> EventFields]>>)>>]

MCDigest(c) == c.source.image
MCInspections == {GitHubCatalog("gh_1", "2.0.0"), GitHubCatalog("gh_2", "2.70.0"), GoCatalog}

Observed(bytes) ==
    [image |-> [bytes |-> bytes], environment |-> "rtk_isolated", attempts |-> 1, adapter |-> Rtk,
     version |-> "0.43.0", argv |-> <<Long("version")>>, platform |-> "linux_amd64"]
MCObservations == {Observed("official_linux_amd64"), Observed("patched")}

-----------------------------------------------------------------------------
(* Specifications, without the digest the user copies. *)

Written(default, commands) ==
    [schema |-> 5, catalogDigest |-> NoDigest, default |-> default, commands |-> commands]
Entry(path, options, wrapper) ==
    [command |-> path, presence |-> "include", reason |-> "reason", options |-> options, wrapper |-> wrapper]
Without(names) == [default |-> "inherit", include |-> Nil, exclude |-> names]
Only(names) == [default |-> "exclude", include |-> names, exclude |-> Nil]
Transform(defaults, append, output) ==
    [kind |-> "transform", before |-> Nil, defaults |-> defaults, append |-> append, after |-> Nil,
     output |-> output]
Default(n, v) == [option |-> n, value |-> v]
Rename(from, to) == [from |-> from, to |-> to]
Project(select, rename) ==
    [kind |-> "projection", optimizer |-> Nil,
     projection |-> [input |-> "json", select |-> select, rename |-> rename, render |-> "compact_json"]]
ListPR == <<"pr", "list">>
SpelledPR == <<"pr list">>   \* the words of ListPR in one segment
ListIssue == <<"issue", "list">>
Hidden == <<"json", "web">>

MCEdits == {
    Written("inherit", <<>>),
    Written("exclude", <<Entry(ListPR, Without(Hidden),
        Transform(<<Default("limit", "30")>>, <<SelectorArgument(<<"id", "title">>)>>,
                  Project(<<"id", "title">>, <<Rename("id", "name"), Rename("title", "id")>>)))>>),
    Written("exclude", <<Entry(ListPR, Only(<<"limit", "draft">>),
                               Transform(<<Default("limit", "30")>>, <<Long("draft"), Terminator>>, Nil)),
                         Entry(ListIssue, Only(<<"limit">>), Identity)>>),
    Written("exclude", <<Entry(ListPR, Without(<<"json">>), Transform(<<>>, <<Long("draft")>>, Nil))>>),
    Written("exclude", <<Entry(ListPR, Without(Hidden), Transform(<<>>, <<Long("limit")>>, Nil))>>),
    Written("exclude", <<Entry(ListPR, Without(<<"web">>),
        Transform(<<Default("search", "x")>>, <<SelectorArgument(<<"id">>)>>, Project(<<"id">>, <<>>)))>>),
    Written("exclude", <<Entry(ListPR, Without(Hidden),
        Transform(<<>>, <<SelectorArgument(<<"id", "title">>)>>,
                  Project(<<"id", "title">>, <<Rename("title", "id")>>)))>>),
    Written("exclude", <<Entry(ListPR, Only(<<"limit">>),
        Transform(<<Default("limit", "30")>>, <<Inline("limit", "5")>>, Nil))>>),
    Written("exclude", <<Entry(ListIssue, Only(<<"limit">>),
        Transform(<<Default("limit", "30")>>, <<>>, Nil))>>),
    Written("exclude", <<Entry(ListPR, Only(<<"limit">>), Transform(<<Default("limit", FullText)>>, <<>>, Nil))>>),
    Written("exclude", <<Entry(SpelledPR, Only(<<"limit">>), Transform(<<Default("limit", "30")>>, <<>>, Nil)),
                         Entry(ListIssue, Only(<<"limit">>), Identity)>>),
    Written("inherit", <<[command |-> SpelledPR, presence |-> "exclude", reason |-> "reason",
                          options |-> Nil, wrapper |-> Nil]>>),
    [Written("exclude", <<>>) EXCEPT !.schema = 4],
    Written("exclude", <<Entry(GoTest, InheritAll, Identity)>>),
    Written("exclude", <<Entry(GoTest, InheritAll, Transform(<<>>, <<JsonFlag>>, PassOptimizer))>>) }

MCRequested == {<<"ext">>, SpelledPR, GoTest}

Tokens == {Word("x"), Long("limit"), Inline("limit", "v"), Long("draft"), Long("web"), Short("-L"),
           Terminator, SelectorArgument(<<"id", "title">>)}
Pairs == {Word("x"), Long("limit"), Inline("limit", "v"), Long("draft"), Terminator}
Tails == {<<>>} \cup {<<a>> : a \in Tokens} \cup {<<a, b>> : a, b \in Pairs}
MCAttempts ==
    {Words(ListPR) \o t : t \in Tails}
    \cup {Words(p) \o t : p \in {ListIssue, GoTest, <<"issue">>},
                          t \in {<<>>, <<Word("x")>>, <<Inline("limit", "v")>>, <<Short("-v")>>}}
    \cup {<<>>, <<Long("help")>>, <<Word("pr"), HelpWord>>, Words(ListPR) \o <<HelpWord>>}

\* The user changes what a stored bundle does, and what it says it was made of.
MCTampered(b) ==
    {[b EXCEPT !.processors[i].observation.environment = "other",
               !.processors[i].execution.environment = "other"] : i \in DOMAIN b.processors}
    \cup
    IF b.surface = <<>> THEN {}
    ELSE { [b EXCEPT !.surface[1].wrapper = Transform(<<>>, <<Long("web")>>, Nil)],
           [b EXCEPT !.surface = SubSeq(@, 1, Len(@) - 1)],
           [b EXCEPT !.specification.default = "inherit"] }
=============================================================================
