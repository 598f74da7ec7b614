--------------------------- MODULE MCCommandLine ----------------------------
(* Command lines for CommandLine: every sequence of up to four items out   *)
(* of each family below.                                                   *)
EXTENDS CommandLine

Text(t) == [text |-> t, sign |-> "", num |-> None, unit |-> "", mode |-> None, utf8 |-> TRUE]
Number(t, s, n) == [Text(t) EXCEPT !.sign = s, !.num = n]
Size(t, s, n) == [Number(t, s, n) EXCEPT !.unit = "k"]

Plain(w) == [form |-> "word", names |-> <<>>, tails |-> <<>>, word |-> w]
Find(f)  == [form |-> "find", names |-> <<f>>, tails |-> <<None>>, word |-> Text("-" \o f)]
Long(n)  == [form |-> "long", names |-> <<n>>, tails |-> <<None>>, word |-> Text("--" \o n)]
LongIs(n, w) == [Long(n) EXCEPT !.tails = <<w>>]
Short(t, cs, ws) == [form |-> "short", names |-> cs, tails |-> ws, word |-> Text(t)]
DashDash == [form |-> "--", names |-> <<>>, tails |-> <<>>, word |-> Text("--")]

Dot == Plain(Text("."))
DirOfAll == [t \in {".", "./", "--empty"} |-> IF t = "--empty" THEN "odd" ELSE "top"]
Users  == [t \in {"root", "7"} |-> IF t = "root" THEN 0 ELSE 3]
Mtimes == [t \in {"old", "far"} |-> IF t = "old" THEN -5 ELSE 2 * IMax]

MCCpus == {1, 4, None}

UpTo(n, S) == UNION {[1 .. m -> S] : m \in 1 .. n}

\* clusters, attached values, values that look like options, "--"
Lexing == {Dot, Plain(Text("none")), DashDash, Find("name"), Find("empty"), Long("help"),
           Short("-if", <<"i", "f">>, <<Text("f"), None>>),
           Short("-0nz", <<"0", "n", "z">>, <<Text("nz"), Text("z"), None>>),
           LongIs("null", Text("x")), LongIs("paths", Text("."))}
\* settings of which the last counts
Limits == {Dot, Plain(Text("./")), Long("quit"), LongIs("max-results", Number("3", "", 3)),
           Short("-x", <<"x">>, <<None>>), Plain(Number("+2", "+", 2)), Plain(Number("1", "", 1)),
           Long("idle"), Long("cross-filesystem"), Find("mount")}
\* patterns, good and bad, and the flags that make them ignore case
Patterns == {Dot, LongIs("name", Text("a")), LongIs("iname", Text("[")),
             LongIs("regex", Text("[")), LongIs("ipath", Text("(")),
             LongIs("iregex", Text("(")), LongIs("lname", Text("a")),
             LongIs("exclude", Text("[")), Long("version")}
\* predicates with every kind of value
Mode(t, s, m) == [Text(t) EXCEPT !.sign = s, !.mode = m]
Preds == {Dot, LongIs("size", Size("+1k", "+", 1)), LongIs("size", Number("9", "", 9)),
          LongIs("uid", Number("-7", "-", 7)), LongIs("user", Number("7", "", 7)),
          LongIs("perm", Mode("/u+r", "/", {<<"u", "r">>})),
          LongIs("perm", Mode("+x", "+", {<<"u", "x">>, <<"g", "x">>, <<"o", "x">>})),
          LongIs("newer", [Text("far") EXCEPT !.utf8 = FALSE]),
          LongIs("cnewer", Text("old")), LongIs("mmin", Number("-+3", "-", 3)),
          LongIs("links", Number("2", "", 2)), Long("readable"),
          LongIs("file-type", Text("e"))}

MCArgvs == UpTo(4, Lexing) \cup UpTo(4, Limits) \cup UpTo(4, Patterns) \cup UpTo(3, Preds)

AndedArgvs == UpTo(3, {Dot, LongIs("size", Size("+1k", "+", 1)),
                       LongIs("size", Size("-9k", "-", 9)),
                       LongIs("mtime", Number("-2", "-", 2))})
TypedArgvs == UpTo(3, {Dot, Find("name"), Find("size"), Plain(Text("a"))})
=============================================================================
