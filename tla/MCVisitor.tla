----------------------------- MODULE MCVisitor ------------------------------
(* Command lines and entries for Visitor: each kind of predicate on its    *)
(* own against every value of the field it reads, then combinations of     *)
(* filters with entries that share owners.                                 *)
EXTENDS Visitor

NoPreds == [size |-> None, times |-> {}, perm |-> None, uid |-> None, gid |-> None,
            links |-> None, inum |-> None, newer |-> {}, nouser |-> FALSE, nogroup |-> FALSE]
\* the defaults of parse_inner
Plain == [types |-> {"Dir", "File", "Symlink"}, minDepth |-> 0, text |-> {},
          access |-> {}, preds |-> NoPreds, clauses |-> <<>>, newerFiles |-> {}]
AnyFile == [id |-> 1, type |-> "File", depth |-> 1, empty |-> FALSE, hits |-> {},
            access |-> {"READ"}, flaky |-> {},
            meta |-> [size |-> 3, mtime |-> 1, ctime |-> 1, atime |-> 1, uid |-> 2, gid |-> 2,
                      mode |-> {<<"u", "r">>, <<"file", "type">>}, nlink |-> 1, ino |-> 5]]

Run(a, es) == [args |-> a, entries |-> es, passwd |-> {1}, groups |-> {1}]
WithPreds(p) == [Plain EXCEPT !.preds = p]
WithMeta(m) == [AnyFile EXCEPT !.meta = m]

Cmps(ns) == [op : {"Exact", "Greater", "Less"}, n : ns]

SizeRuns == {Run(WithPreds([NoPreds EXCEPT !.size = [cmp |-> c, unit |-> u]]),
                 {WithMeta([AnyFile.meta EXCEPT !.size = v])}) :
             c \in Cmps(0 .. IMax), u \in {1, 2, 4}, v \in U64}

\* files from the distant past, where the age wraps, to the future
TimeRuns == {Run(WithPreds([NoPreds EXCEPT !.times = {[cmp |-> c, unit |-> u, field |-> f]}]),
                 {WithMeta([AnyFile.meta EXCEPT ![f] = t])}) :
             c \in Cmps(0 .. 3), u \in {1, 3}, f \in TimeField, t \in I64}

NumberRuns == {Run(WithPreds([NoPreds EXCEPT !.inum = c]),
                   {WithMeta([AnyFile.meta EXCEPT !.ino = v])}) :
               c \in Cmps(0 .. IMax), v \in U64}

\* reference files from before the epoch to beyond the last second
NewerRuns == {Run([Plain EXCEPT !.newerFiles = {[mtime |-> r, field |-> f]},
                                !.preds = [NoPreds EXCEPT !.newer = {[ref |-> RefSeconds(r), field |-> f]}]],
                  {WithMeta([AnyFile.meta EXCEPT ![f] = t])}) :
              r \in -2 * Ticks - 1 .. (IMax + 2) * Ticks, f \in TimeField, t \in I64}

\* on a zero base the first clause can only add
ClausesOf(ops) == [who : SUBSET {"u", "o"}, op : ops,
                   perms : {{"r"}, {"s"}, {"t"}, {"r", "t"}, {}}]
PermRuns == {Run([Plain EXCEPT !.clauses = <<c, d>>,
                               !.preds.perm = [mode |-> SymbolicMode(<<c, d>>), kind |-> k]],
                 {WithMeta([AnyFile.meta EXCEPT !.mode = m \cup {<<"file", "type">>}])}) :
             c \in ClausesOf({"+"}), d \in ClausesOf({"+", "-", "="}),
             k \in {"Exact", "AllOf", "AnyOf"},
             m \in {{<<"u", "r">>, <<"o", "t">>}, {<<"u", "r">>}}}

\* two files of one unknown owner, one of a known owner, and a link
Owned(i, u, g) == [AnyFile EXCEPT !.id = i, !.meta.uid = u, !.meta.gid = g]
Crowd == {Owned(1, 2, 1), Owned(2, 2, 2),
          [Owned(3, 1, 2) EXCEPT !.empty = TRUE, !.flaky = {"empty", "access"}],
          [Owned(4, 2, 2) EXCEPT !.type = "Symlink", !.hits = {"name", "lname"},
                                 !.flaky = {"readlink", "stat", "access"}]}
MixedRuns == {Run([Plain EXCEPT !.preds = [NoPreds EXCEPT !.nouser = o, !.nogroup = g, !.uid = c],
                                !.text = x, !.access = a, !.types = ts, !.minDepth = d], Crowd) :
              o \in BOOLEAN, g \in BOOLEAN, c \in {None, [op |-> "Exact", n |-> 2]},
              x \in {{}, {"lname"}}, a \in {{}, {"READ"}},
              ts \in {Plain.types, {"Empty"}}, d \in {1, 2}}

MCScenario == SizeRuns \cup TimeRuns \cup NumberRuns \cup NewerRuns \cup PermRuns \cup MixedRuns
=============================================================================
