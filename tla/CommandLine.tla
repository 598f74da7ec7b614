---------------------------- MODULE CommandLine -----------------------------
(***************************************************************************)
(* From the command line to the walk: parse_inner (src/args.rs) over the   *)
(* lexopt parser, main (src/main.rs), and the part of run (src/lib.rs)     *)
(* that registers the signal handlers and compiles the pattern sets before *)
(* the first thread starts.                                                *)
(*                                                                         *)
(* An item of the command line is a record: its form, the option names it  *)
(* spells (the letters of a short cluster), for each of them the text that *)
(* follows inside the item, and the item as a plain word. A word lists     *)
(* what the parsers see in a text: a sign or slash in front, a number, a   *)
(* unit letter behind, the mode parse_mode makes of what follows a slash   *)
(* or a minus, and whether it is UTF-8.                                    *)
(***************************************************************************)
EXTENDS Meta, FiniteSets

CONSTANTS
    Argvs,        \* the command lines to consider, without the program name
    Platforms,    \* of "linux", "unix", "other"
    Cpus,         \* what available_parallelism may answer, None for an error
    Uid, Gid,     \* what name lookups answer: name -> id; a failed one finds no name
    DirOf,        \* existing directories: spelling -> normalized path
    MtimeOf,      \* files that can be stat'd: name -> mtime in seconds
    BadGlobs, BadRegexes,   \* the texts that do not compile
    U32Max

Word == [text : STRING, sign : {"", "+", "-", "/"}, num : Int \cup {None},
         unit : STRING, mode : (SUBSET PermBit) \cup {None}, utf8 : BOOLEAN]
Item == [form : {"find", "long", "short", "--", "word"}, names : Seq(STRING),
         tails : Seq(Word \cup {None}), word : Word]

ASSUME CommandLineAssumption ==
    /\ Argvs \subseteq Seq(Item) /\ Platforms \subseteq {"linux", "unix", "other"}
    /\ Cpus \subseteq (1 .. 2 * IMax + 1) \cup {None}
    /\ U32Max \in 0 .. IMax /\ \A f \in DOMAIN MtimeOf : MtimeOf[f] \in Int
    /\ \A argv \in Argvs : \A j \in DOMAIN argv :
          /\ Len(argv[j].tails) = Len(argv[j].names)
          /\ argv[j].form = "short" => argv[j].names # <<>>
          /\ argv[j].form \in {"find", "long"} => Len(argv[j].names) = 1
    /\ \A d \in {Uid, Gid} : \A t \in DOMAIN d : d[t] \in 0 .. U32Max

VARIABLES
    argv, platform,   \* never change
    i, k,        \* lexopt: the item it reads, and how many of its letters it has read
    ended,       \* "--" has been read
    opts,        \* the locals of parse_inner, then the Args
    pc,          \* "parse", "register", "compile", "walk", "exit"
    handlers,    \* STOP_SIGNALS registered so far
    sets,        \* the compiled pattern sets
    roots,       \* unique_paths
    status       \* the process's exit status

vars == <<argv, platform, i, k, ended, opts, pc, handlers, sets, roots, status>>

-----------------------------------------------------------------------------
(* Options                                                                 *)

Times == {"mtime", "ctime", "atime", "mmin", "cmin", "amin"}
Newer == {"newer", "anewer", "cnewer"}
AccessFlag == {"readable", "writable", "executable"}
CaseFlag == {"case-insensitive", "iname", "iregex", "ipath", "ilname"}

Flag == {"follow-symlinks", "one-filesystem", "no-one-filesystem", "idle",
         "case-insensitive", "empty", "nouser", "nogroup", "quit", "print", "null"}
        \cup AccessFlag
Pattern == {"name", "iname", "regex", "iregex", "path", "ipath", "lname", "ilname", "exclude"}
Valued == {"threads", "max-depth", "min-depth", "max-scan-rate", "max-results", "file-type",
           "size", "perm", "uid", "gid", "user", "group", "links", "inum"}
          \cup Pattern \cup Times \cup Newer

\* mutant: -links and -inum lack their cfg(unix)
UnixOnlyShort == {"perm", "uid", "gid", "user", "group", "nouser", "nogroup"} \cup AccessFlag
UnixOnly == {"perm", "uid", "gid", "user", "group", "links", "inum", "nouser", "nogroup"}
            \cup AccessFlag

\* the arms that are compiled in; any other option is unexpected
Supported == {"help", "version"}
             \cup ((Flag \cup Valued)
                     \ ((IF platform = "other" THEN UnixOnly ELSE {})
                        \cup (IF platform = "linux" THEN {} ELSE {"idle"})))

ShortName(c) ==
    CASE c = "h" -> "help" [] c = "V" -> "version" [] c \in {"f", "L"} -> "follow-symlinks"
      [] c = "o" -> "one-filesystem" [] c = "x" -> "threads" [] c = "d" -> "max-depth"
      [] c = "s" -> "max-scan-rate" [] c = "n" -> "name" [] c = "r" -> "regex"
      [] c = "i" -> "case-insensitive" [] c = "t" -> "file-type" [] c = "E" -> "exclude"
      [] c = "0" -> "null" [] OTHER -> "unknown"

LongName(n) ==
    CASE n = "xdev" -> "one-filesystem" [] n = "cross-filesystem" -> "no-one-filesystem"
      [] n = "wholename" -> "path" [] n = "iwholename" -> "ipath" [] n = "print0" -> "null"
      [] n \in {"ignore-readdir-race", "noignore-readdir-race"} -> "print"
      [] OTHER -> n

\* find's one-dash spellings and the long options they are rewritten to
FindName(f) ==
    CASE f = "print0" -> "null" [] f = "mindepth" -> "min-depth" [] f = "type" -> "file-type"
      [] f = "maxdepth" -> "max-depth" [] f = "mount" -> "xdev"
      [] f = "follow" -> "follow-symlinks"
      [] f = "ignore_readdir_race" -> "ignore-readdir-race"
      [] f = "noignore_readdir_race" -> "noignore-readdir-race"
      [] OTHER -> f

\* The rewriting maps over every item of argv, whatever it will be read as.
Normalized(x) ==
    IF x.form = "find"
    THEN [x EXCEPT !.form = "long", !.names = <<FindName(x.names[1])>>,
                   !.word.text = "--" \o FindName(x.names[1])]
    ELSE x

\* the local an option writes; the Vecs and the access bits collect
Field(n) ==
    CASE n = "no-one-filesystem" -> "one-filesystem" [] n = "quit" -> "max-results"
      [] n = "iname" -> "name" [] n = "iregex" -> "regex" [] n = "ipath" -> "path"
      [] n = "ilname" -> "lname" [] n = "empty" -> "file-type"
      [] n = "user" -> "uid" [] n = "group" -> "gid"
      [] n \in Times -> "times" [] n \in Newer -> "newer"
      [] n \in AccessFlag -> "access" [] OTHER -> n
Collected == {"name", "regex", "path", "lname", "exclude", "file-type", "times", "newer",
              "access", "paths"}
Switch == {"follow-symlinks", "one-filesystem", "idle", "case-insensitive", "null",
           "nouser", "nogroup"}
Single == {"threads", "max-depth", "min-depth", "max-scan-rate", "max-results",
           "size", "perm", "uid", "gid", "links", "inum"}

Defaults == [f \in Collected \cup Switch \cup Single |->
                IF f \in Collected THEN <<>>
                ELSE IF f \in Switch THEN f = "one-filesystem" ELSE None]

-----------------------------------------------------------------------------
(* Values: what each option makes of a word, None where it is an error     *)

Valid(ok, v) == IF ok THEN v ELSE None

\* str::parse for an unsigned type: a plus sign is allowed
IsUnsigned(w, max) == w.num \in 0 .. max /\ w.sign \in {"", "+"} /\ w.unit = ""
UsizeMax == 2 * IMax + 1

\* Comparison::parse
CmpOf(w) ==
    Valid(w.num \in I64 /\ w.sign # "/",
          [op |-> IF w.sign = "+" THEN "Greater" ELSE IF w.sign = "-" THEN "Less" ELSE "Exact",
           n |-> w.num])
Exact(n) == [op |-> "Exact", n |-> n]

\* SizePred::parse
UnitOf(u) == CASE u = "c" -> 1 [] u = "k" -> 1024 [] u = "M" -> 1024 * 1024
               [] u = "G" -> 1024 * 1024 * 1024 [] u = "T" -> 1024 * 1024 * 1024 * 1024
               [] OTHER -> None
SizeOf(w) == Valid(UnitOf(w.unit) # None /\ CmpOf(w) # None,
                   [cmp |-> CmpOf(w), unit |-> UnitOf(w.unit)])

TimeFieldOf(n) == CASE n \in {"mtime", "mmin", "newer"} -> "mtime"
                    [] n \in {"ctime", "cmin", "cnewer"} -> "ctime"
                    [] OTHER -> "atime"
TimeOf(n, w) ==
    Valid(w.unit = "" /\ CmpOf(w) # None,
          [cmp |-> CmpOf(w), field |-> TimeFieldOf(n),
           unit |-> IF n \in {"mtime", "ctime", "atime"} THEN 24 * 60 * 60 ELSE 60])

\* PermPred::parse; a plus sign is part of a symbolic mode
PermOf(w) ==
    Valid(w.mode # None,
          [mode |-> w.mode,
           kind |-> IF w.sign = "/" THEN "AnyOf" ELSE IF w.sign = "-" THEN "AllOf" ELSE "Exact"])

\* resolve_user, resolve_group: a name first, a number if there is no such name
OwnerOf(names, w) ==
    IF w.text \in DOMAIN names THEN Exact(names[w.text])
    ELSE Valid(IsUnsigned(w, U32Max), Exact(w.num))

\* file_mtime of a file that can be stat'ed
NewerOf(n, w) ==
    Valid(w.text \in DOMAIN MtimeOf,
          [ref |-> FileMtime(MtimeOf[w.text]), field |-> TimeFieldOf(n)])

\* parse_file_type
TypeOf(t) ==
    CASE t \in {"empty", "e"} -> "Empty" [] t \in {"block-device", "b"} -> "BlockDevice"
      [] t \in {"char-device", "c"} -> "CharDevice" [] t \in {"directory", "d"} -> "Dir"
      [] t \in {"pipe", "p"} -> "Fifo" [] t \in {"file", "f"} -> "File"
      [] t \in {"symlink", "l"} -> "Symlink" [] t \in {"socket", "s"} -> "Socket"
      [] OTHER -> None

\* parse_threads
MaxThreads == 64 * 1024 - 1
ThreadsOf(w) == Valid(IsUnsigned(w, UsizeMax) /\ w.num \in 2 .. MaxThreads, w.num)

FlagValue(n) ==
    CASE n = "quit" -> 1 [] n = "empty" -> "Empty" [] n = "readable" -> "READ"
      [] n = "writable" -> "WRITE" [] n = "executable" -> "EXEC"
      [] OTHER -> n # "no-one-filesystem"

ValueOf(n, w) ==
    IF n \in Newer THEN NewerOf(n, w)
    ELSE IF ~w.utf8 THEN None
    ELSE CASE n \in Pattern -> w.text
           [] n = "threads" -> ThreadsOf(w)
           [] n \in {"max-depth", "min-depth", "max-results"} ->
                 Valid(IsUnsigned(w, UsizeMax), w.num)
           [] n = "max-scan-rate" -> Valid(IsUnsigned(w, U32Max), w.num)
           [] n = "file-type" -> TypeOf(w.text)
           [] n = "size" -> SizeOf(w) [] n = "perm" -> PermOf(w)
           [] n \in {"uid", "gid", "links", "inum"} -> Valid(w.unit = "", CmpOf(w))
           [] n = "user" -> OwnerOf(Uid, w) [] n = "group" -> OwnerOf(Gid, w)
           [] n \in Times -> TimeOf(n, w)

\* mutant: --quit does not override an earlier --max-results
StoreFirst(o, f, v) ==
    IF f \in Collected THEN [o EXCEPT ![f] = Append(@, v)]
    ELSE [o EXCEPT ![f] = IF @ = None \/ f \in Switch THEN v ELSE @]

Store(o, f, v) == [o EXCEPT ![f] = IF f \in Collected THEN Append(@, v) ELSE v]

\* the body of an option's arm
Apply(o, n, v) ==
    LET p == IF n \in CaseFlag THEN Store(o, "case-insensitive", TRUE) ELSE o
    IN IF n = "print" THEN o ELSE Store(p, Field(n), v)

-----------------------------------------------------------------------------
(* lexopt: the item under the cursor                                       *)

Here == Normalized(argv[i])
Reading == pc = "parse" /\ i <= Len(argv)
AtOption == Reading /\ ~ended /\ Here.form \in {"long", "short"}
Option == IF Here.form = "short" THEN ShortName(Here.names[k + 1]) ELSE LongName(Here.names[1])
Attached == Here.tails[k + 1]
LastLetter == k + 1 = Len(Here.names)

\* Parser::value: the rest of this item, else the next item whatever it looks like
HasValue == Attached # None \/ i < Len(argv)
Value == IF Attached # None THEN Attached ELSE Normalized(argv[i + 1]).word

MoveTo(item, letter) == i' = item /\ k' = letter

-----------------------------------------------------------------------------
Init ==
    /\ argv \in Argvs /\ platform \in Platforms
    /\ i = 1 /\ k = 0 /\ ended = FALSE /\ opts = Defaults
    /\ pc = "parse" /\ handlers = 0 /\ sets = <<>> /\ roots = <<>> /\ status = None

Exit(code) ==
    /\ pc' = "exit" /\ status' = code
    /\ UNCHANGED <<argv, platform, i, k, ended, opts, handlers, sets, roots>>

late == <<handlers, sets, roots, status>>

HelpOrVersion == AtOption /\ Option \in {"help", "version"} /\ Exit(0)

\* a flag in a cluster leaves its other letters to the next turn of the loop
ReadFlag ==
    /\ AtOption /\ Option \in Flag \cap Supported
    /\ ~LastLetter \/ Attached = None
    /\ opts' = Apply(opts, Option, FlagValue(Option))
    /\ IF LastLetter THEN MoveTo(i + 1, 0) ELSE MoveTo(i, k + 1)
    /\ UNCHANGED <<argv, platform, ended, pc, late>>

\* --null=x: next() reports the value nobody took
UnexpectedValue ==
    /\ AtOption /\ Option \in Flag \cap Supported
    /\ LastLetter /\ Attached # None
    /\ Exit(2)

ReadValued ==
    /\ AtOption /\ Option \in Valued \cap Supported
    /\ HasValue /\ ValueOf(Option, Value) # None
    /\ opts' = Apply(opts, Option, ValueOf(Option, Value))
    /\ MoveTo(IF Attached # None THEN i + 1 ELSE i + 2, 0)
    /\ UNCHANGED <<argv, platform, ended, pc, late>>

InvalidValue ==
    /\ AtOption /\ Option \in Valued \cap Supported
    /\ HasValue => ValueOf(Option, Value) = None
    /\ Exit(2)

UnexpectedOption == AtOption /\ Option \notin Supported /\ Exit(2)

EndOfOptions ==
    /\ Reading /\ ~ended /\ Here.form = "--"
    /\ ended' = TRUE /\ MoveTo(i + 1, 0)
    /\ UNCHANGED <<argv, platform, opts, pc, late>>

AtPath == Reading /\ (ended \/ Here.form = "word")
IsDirectory(w) == w.utf8 /\ w.text \in DOMAIN DirOf

\* parse_paths
ReadPath ==
    /\ AtPath /\ IsDirectory(Here.word)
    /\ opts' = Store(opts, "paths", DirOf[Here.word.text])
    /\ MoveTo(i + 1, 0)
    /\ UNCHANGED <<argv, platform, ended, pc, late>>

NoSuchDirectory == AtPath /\ ~IsDirectory(Here.word) /\ Exit(2)

-----------------------------------------------------------------------------
(* the end of parse_inner                                                  *)

AtEnd == pc = "parse" /\ i > Len(argv)
Conflict == opts["name"] # <<>> /\ opts["regex"] # <<>>

Incomplete == AtEnd /\ (Conflict \/ opts["paths"] = <<>>) /\ Exit(2)

DefaultThreads(cpus) == IF opts["idle"] THEN 2 ELSE IF cpus = None THEN 2 ELSE cpus

Finish ==
    /\ AtEnd /\ ~Conflict /\ opts["paths"] # <<>>
    /\ \E cpus \in Cpus :
          opts' = [opts EXCEPT
              !["file-type"] = IF @ = <<>> THEN <<"Dir", "File", "Symlink">> ELSE @,
              !["threads"] = IF @ = None THEN DefaultThreads(cpus) ELSE @]
    /\ pc' = "register"
    /\ UNCHANGED <<argv, platform, i, k, ended, late>>

-----------------------------------------------------------------------------
(* run, up to the walk                                                     *)

\* STOP_SIGNALS
StopSignals == IF platform = "other" THEN 2 ELSE 6

\* setup_interrupt_handler: the first failure ends the process, with the earlier
\* handlers in place
Register ==
    /\ pc = "register"
    /\ \E n \in 0 .. StopSignals :
          /\ handlers' = n
          /\ IF n = StopSignals THEN pc' = "compile" /\ UNCHANGED status
             ELSE pc' = "exit" /\ status' = 1
    /\ UNCHANGED <<argv, platform, i, k, ended, opts, sets, roots>>

\* the sets run builds, in order, the first that does not compile ending the run
SetOrder == <<"name", "regex", "path", "lname", "exclude">>

\* mutant: --path patterns go to the regex builder
CompilesPathAsRegex(s, patterns) ==
    Range(patterns) \cap (IF s \in {"regex", "path"} THEN BadRegexes ELSE BadGlobs) = {}

\* build_glob_set, build_regex_set
Compiles(s, patterns) ==
    Range(patterns) \cap (IF s = "regex" THEN BadRegexes ELSE BadGlobs) = {}

AllCompile == \A s \in Range(SetOrder) : Compiles(s, opts[s])

\* mutant: no deduplication
KeepDuplicates(s) == s

\* args.path.iter().unique()
Unique(s) == FoldLeft(LAMBDA acc, x : IF x \in Range(acc) THEN acc ELSE Append(acc, x), <<>>, s)

StartWalk ==
    /\ pc = "compile" /\ AllCompile
    /\ sets' = [m \in DOMAIN SetOrder |->
                   [of |-> SetOrder[m], patterns |-> opts[SetOrder[m]],
                    ignoreCase |-> opts["case-insensitive"]]]
    /\ pc' = "walk" /\ roots' = Unique(opts["paths"])
    /\ UNCHANGED <<argv, platform, i, k, ended, opts, handlers, status>>

BadPattern == pc = "compile" /\ ~AllCompile /\ Exit(1)

\* run returns Ok
WalkReturns == pc = "walk" /\ Exit(0)

Exited == pc = "exit" /\ UNCHANGED vars

Parse == \/ HelpOrVersion \/ ReadFlag \/ UnexpectedValue \/ ReadValued \/ InvalidValue
         \/ UnexpectedOption \/ EndOfOptions \/ ReadPath \/ NoSuchDirectory
         \/ Incomplete \/ Finish
Prepare == Register \/ StartWalk \/ BadPattern

Next == Parse \/ Prepare \/ WalkReturns \/ Exited
Spec == Init /\ [][Next]_vars

-----------------------------------------------------------------------------
(* Properties. They read the command line as a whole, from left to right,  *)
(* where the parser moves a cursor over it.                                *)

PredicatesOf(o) ==
    [size |-> o["size"], times |-> Range(o["times"]), perm |-> o["perm"],
     uid |-> o["uid"], gid |-> o["gid"], links |-> o["links"], inum |-> o["inum"],
     newer |-> Range(o["newer"]), nouser |-> o["nouser"], nogroup |-> o["nogroup"]]

TypeOK ==
    /\ platform \in Platforms
    /\ i \in 1 .. Len(argv) + 1 /\ k \in Nat /\ ended \in BOOLEAN
    /\ DOMAIN opts = DOMAIN Defaults /\ PredicatesOf(opts) \in Predicates
    /\ \A f \in Switch : opts[f] \in BOOLEAN
    /\ \A f \in {"threads", "max-depth", "min-depth", "max-scan-rate", "max-results"} :
          opts[f] \in Nat \cup {None}
    /\ Range(opts["file-type"]) \subseteq EntryType \cup {"Empty"}
    /\ pc \in {"parse", "register", "compile", "walk", "exit"}
    /\ handlers \in 0 .. StopSignals
    /\ status \in {None, 0, 1, 2}

\* the options an item spells, up to the first that takes the rest as its value
Spelled(x) == [m \in DOMAIN x.names |->
                  IF x.form = "short" THEN ShortName(x.names[m]) ELSE LongName(x.names[m])]
LastRead(x) == Min({m \in DOMAIN x.names : Spelled(x)[m] \in Valued} \cup {Len(x.names)})
WantsNext(x) == Spelled(x)[LastRead(x)] \in Valued /\ x.tails[LastRead(x)] = None

Line == [j \in DOMAIN argv |-> Normalized(argv[j])]

\* an item is an option, the value of the one before it, "--", or a path; all are
\* paths after "--"
Role[j \in DOMAIN argv] ==
    LET before == IF j > 1 THEN Role[j - 1] ELSE "word" IN
    CASE before \in {"--", "rest"} -> "rest"
      [] before = "option" /\ WantsNext(Line[j - 1]) -> "value"
      [] OTHER -> IF Line[j].form \in {"long", "short"} THEN "option" ELSE Line[j].form

\* one request per option or path, in order; its value is the word it comes with, if any
OptionGiven(n, v) == [option |-> TRUE, name |-> n, value |-> v]
PathGiven(w) == [option |-> FALSE, name |-> "paths", value |-> <<w>>]
Requests(j) ==
    LET x == Line[j]
        following == IF j < Len(Line) THEN <<Line[j + 1].word>> ELSE <<>>
        valueOf(m) == IF m # LastRead(x) THEN <<>>
                      ELSE IF x.tails[m] # None THEN <<x.tails[m]>>
                      ELSE IF WantsNext(x) THEN following ELSE <<>>
    IN CASE Role[j] \in {"word", "rest"} -> <<PathGiven(x.word)>>
         [] Role[j] = "option" ->
               [m \in 1 .. LastRead(x) |-> OptionGiven(Spelled(x)[m], valueOf(m))]
         [] OTHER -> <<>>
Given == FlattenSeq([j \in DOMAIN Line |-> Requests(j)])

WordOf(g) == g.value[1]
ValueGiven(g) == IF ~g.option THEN DirOf[WordOf(g).text]
                 ELSE IF g.name \in Flag THEN FlagValue(g.name) ELSE ValueOf(g.name, WordOf(g))
Acceptable(g) ==
    \/ g.name \in Flag \cap Supported /\ g.value = <<>>
    \/ g.name \in Valued \cap Supported /\ g.value # <<>> /\ ValueOf(g.name, WordOf(g)) # None
    \/ ~g.option /\ IsDirectory(WordOf(g))

AsksHelp(g) == g.name \in {"help", "version"}

\* where the requests that write field f are
Mine(f, given) == {m \in DOMAIN given : given[m].name # "print" /\ Field(given[m].name) = f}

\* the values of those requests, in their order
ListOf(list, f, given) ==
    LET mine == Mine(f, given) IN
    /\ Len(list) = Cardinality(mine)
    /\ \A m \in mine :
          list[Cardinality({l \in mine : l <= m})] = ValueGiven(given[m])

LastOf(f, given) == ValueGiven(given[Max(Mine(f, given))])
AnyCase(given) == \E g \in Range(given) : g.name \in CaseFlag

\* The parser's cursor reads what the user wrote: clusters, attached values and
\* values that look like options included, when the walk starts each setting is
\* the last one given for it, and each list holds all of them in order; an
\* explicit --threads beats --idle, whichever comes first.
Honoured ==
    LET given == Given IN
    pc = "walk" =>
        \A f \in DOMAIN opts :
            LET none == Mine(f, given) = {} IN
            IF f = "case-insensitive" THEN opts[f] = AnyCase(given)
            ELSE IF f \in Collected /\ ~(f = "file-type" /\ none) THEN ListOf(opts[f], f, given)
            ELSE IF f \notin Collected /\ ~none THEN opts[f] = LastOf(f, given)
            ELSE IF f = "threads" THEN opts["idle"] => opts[f] = 2
            ELSE f # "file-type" => opts[f] = Defaults[f]

\* The walk, the pipeline and the visitor get what they assume: a thread at least,
\* distinct roots, patterns that compile, a matcher of one kind only, some type
\* selected, and every stop signal caught before the first directory is read.
Runnable ==
    pc = "walk" =>
        /\ opts["threads"] \in 1 .. UsizeMax
        /\ roots # <<>> /\ IsInjective(roots) /\ Range(roots) \subseteq Range(DirOf)
        /\ opts["name"] = <<>> \/ opts["regex"] = <<>>
        /\ \A s \in Range(sets) :
              Range(s.patterns) \cap (IF s.of = "regex" THEN BadRegexes ELSE BadGlobs) = {}
        /\ Selected(Range(opts["file-type"])) # {}
        /\ handlers = StopSignals

\* The comment in the fallback leaf's meta_of: the zeros it puts for mode, owner,
\* link count and inode off Unix are never read, nor its access stubs called.
PlaceholdersUnread ==
    pc = "walk" /\ platform = "other" =>
        /\ Mask(PredicatesOf(opts)) \subseteq {"size"} \cup TimeField
        /\ opts["access"] = <<>>

\* help is asked for, and nothing before it is wrong
Helped(given) ==
    \E m \in DOMAIN given : /\ AsksHelp(given[m])
                            /\ \A l \in 1 .. m - 1 : Acceptable(given[l])
Misused(given) ==
    \/ \E m \in DOMAIN given : /\ ~Acceptable(given[m]) /\ ~AsksHelp(given[m])
                               /\ \A l \in 1 .. m - 1 : ~AsksHelp(given[l])
    \/ ~Helped(given) /\ Mine("paths", given) = {}
    \/ ~Helped(given) /\ Mine("name", given) # {} /\ Mine("regex", given) # {}
Broken(given) ==
    \E g \in Range(given) :
        \/ Field(g.name) = "regex" /\ WordOf(g).text \in BadRegexes
        \/ Field(g.name) \in {"name", "path", "lname", "exclude"} /\ WordOf(g).text \in BadGlobs

\* The manual's EXIT STATUS: 2 for a usage error anywhere before a --help, and only
\* for one; 0 for help before any error, or a run whose patterns all compile; 1 for
\* a pattern that does not compile or a handler that could not be installed.
ExitStatus ==
    LET given == Given IN
    pc = "exit" =>
        /\ status = 2 <=> Misused(given)
        /\ Helped(given) => status = 0
        /\ status = 0 => Helped(given) \/ ~Broken(given)
        /\ status = 1 => Broken(given) \/ handlers < StopSignals

\* The manual: "every predicate is ANDed together".
PredicatesAnded ==
    pc = "walk" =>
        \A g \in Range(Given) :
            Field(g.name) \in {"size", "perm", "uid", "gid", "links", "inum", "times", "newer"} =>
                \/ opts[Field(g.name)] = ValueGiven(g)
                \/ Field(g.name) \in Collected /\ ValueGiven(g) \in Range(opts[Field(g.name)])

\* The manual: --name GLOB keeps the entries whose name matches GLOB, the text the
\* user typed.
PatternsAsTyped ==
    pc = "walk" =>
        \A s \in Range(sets) : \A p \in Range(s.patterns) :
            \E j \in DOMAIN argv :
                \/ argv[j].word.text = p
                \/ \E m \in DOMAIN argv[j].tails : argv[j].tails[m] # None
                                                  /\ argv[j].tails[m].text = p
=============================================================================
