-------------------------------- MODULE Meta --------------------------------
(***************************************************************************)
(* The pure filters: the metadata predicates of src/meta.rs and the type   *)
(* selectors of src/filetype.rs. Integers keep their width: i64 is         *)
(* -IMax-1 .. IMax and u64 is 0 .. 2*IMax+1. A mode is the set of its      *)
(* bits, <<class, permission>>: setuid is <<"u", "s">>, setgid <<"g","s">>,*)
(* the sticky bit <<"o", "t">>, and <<"file", "type">> stands for S_IFMT.  *)
(***************************************************************************)
EXTENDS Integers, Sequences, SequencesExt

CONSTANTS IMax, None

ASSUME WidthAssumption == IMax \in Nat \ {0}

I64 == -IMax - 1 .. IMax
U64 == 0 .. 2 * IMax + 1
\* the release build wraps on overflow
Wrap(x) == ((x + IMax + 1) % (2 * IMax + 2)) - IMax - 1
\* i64::try_from(v).unwrap_or(i64::MAX)
Saturate(v) == IF v <= IMax THEN v ELSE IMax

-----------------------------------------------------------------------------
(* Numbers: N, +N, -N                                                      *)

Comparison == [op : {"Exact", "Greater", "Less"}, n : I64]

CmpMatches(c, v) ==
    \/ c.op = "Exact" /\ v = c.n
    \/ c.op = "Greater" /\ v > c.n
    \/ c.op = "Less" /\ v < c.n

\* mutant: `v as i64`
CmpMatchesCast(c, v) == CmpMatches(c, Wrap(v))
CmpMatchesU64(c, v) == CmpMatches(c, Saturate(v))

DivCeil(a, b) == a \div b + (IF a % b = 0 THEN 0 ELSE 1)
\* Rust's / truncates towards zero
Quotient(a, b) == IF a >= 0 THEN a \div b ELSE -((-a) \div b)

SizePred == [cmp : Comparison, unit : Nat \ {0}]
SizeMatches(p, size) == CmpMatchesU64(p.cmp, DivCeil(size, p.unit))

\* -uid, -gid, -links, -inum
IdMatches(c, v) == CmpMatchesU64(c, v)

TimeField == {"mtime", "ctime", "atime"}
TimePred == [cmp : Comparison, unit : Nat \ {0}, field : TimeField]
TimeMatches(p, m, now) ==
    CmpMatches(p.cmp, Quotient(Wrap(now - m[p.field]), p.unit))

\* mutant: >= for >
NewerMatchesOrEqual(p, m) == m[p.field] >= p.ref

NewerPred == [ref : I64, field : TimeField]
NewerMatches(p, m) == m[p.field] > p.ref

\* mutants: the seconds are not clamped; `as i64`
FileMtimeRaw(seconds) == seconds
FileMtimeCast(seconds) == IF seconds < 0 THEN 0 ELSE Wrap(seconds)

\* the reference time of -newer: before the epoch is 0
FileMtime(seconds) == IF seconds < 0 THEN 0 ELSE Saturate(seconds)

-----------------------------------------------------------------------------
(* -perm                                                                   *)

UserClass == {"u", "g", "o"}
PermBit == (UserClass \X {"r", "w", "x"}) \cup {<<"u", "s">>, <<"g", "s">>, <<"o", "t">>}
ModeBit == PermBit \cup {<<"file", "type">>}

Clause == [who : SUBSET UserClass, op : {"+", "-", "="},
           perms : SUBSET {"r", "w", "x", "s", "t"}]

\* no who given means all, like chmod
Who(c) == IF c.who = {} THEN UserClass ELSE c.who

\* s counts for u and g only; t sets the sticky bit whoever is named
ClauseBits(c) ==
    (Who(c) \X (c.perms \cap {"r", "w", "x"}))
    \cup ((Who(c) \cap {"u", "g"}) \X (c.perms \cap {"s"}))
    \cup ({"o"} \X (c.perms \cap {"t"}))

\* "=" first clears every bit of the classes named
ApplyClause(mode, c) ==
    IF c.op = "+" THEN mode \cup ClauseBits(c)
    ELSE IF c.op = "-" THEN mode \ ClauseBits(c)
    ELSE {b \in mode : b[1] \notin Who(c)} \cup ClauseBits(c)

\* a symbolic mode applies its clauses, left to right, to a zero base
SymbolicMode(clauses) == FoldLeft(ApplyClause, {}, clauses)

PermPred == [mode : SUBSET PermBit, kind : {"Exact", "AllOf", "AnyOf"}]

PermMatches(p, stMode) ==
    LET m == stMode \cap PermBit IN
    \/ p.kind = "Exact" /\ m = p.mode
    \/ p.kind = "AllOf" /\ p.mode \subseteq m
    \/ p.kind = "AnyOf" /\ (p.mode = {} \/ p.mode \cap m # {})

-----------------------------------------------------------------------------
(* struct Predicates. Vec<TimePred> and Vec<NewerPred> are only ever tested *)
(* element by element, so sets stand for them.                              *)

Metadata == [size : U64, mtime : I64, ctime : I64, atime : I64,
             mode : SUBSET ModeBit, uid : Nat, gid : Nat, nlink : U64, ino : U64]

Predicates == [size : SizePred \cup {None}, times : SUBSET TimePred,
               perm : PermPred \cup {None},
               uid : Comparison \cup {None}, gid : Comparison \cup {None},
               links : Comparison \cup {None}, inum : Comparison \cup {None},
               newer : SUBSET NewerPred, nouser : BOOLEAN, nogroup : BOOLEAN]

IsActive(p) ==
    \/ \E f \in {p.size, p.perm, p.uid, p.gid, p.links, p.inum} : f # None
    \/ p.times # {} \/ p.newer # {} \/ p.nouser \/ p.nogroup

\* mutant: -nouser forgets to ask for the uid
MaskForgetsOwner(p) ==
    {f \in {"size"} : p.size # None} \cup {t.field : t \in p.times \cup p.newer}
    \cup {f \in {"mode"} : p.perm # None} \cup {f \in {"uid"} : p.uid # None}
    \cup {f \in {"gid"} : p.gid # None} \cup {f \in {"nlink"} : p.links # None}
    \cup {f \in {"ino"} : p.inum # None}

\* the statx fields the active predicates read
Mask(p) ==
    {f \in {"size"} : p.size # None}
    \cup {t.field : t \in p.times} \cup {t.field : t \in p.newer}
    \cup {f \in {"mode"} : p.perm # None}
    \cup {f \in {"uid"} : p.uid # None \/ p.nouser}
    \cup {f \in {"gid"} : p.gid # None \/ p.nogroup}
    \cup {f \in {"nlink"} : p.links # None}
    \cup {f \in {"ino"} : p.inum # None}

Matches(p, m, now) ==
    /\ p.size # None => SizeMatches(p.size, m.size)
    /\ \A t \in p.times : TimeMatches(t, m, now)
    /\ p.perm # None => PermMatches(p.perm, m.mode)
    /\ p.uid # None => IdMatches(p.uid, m.uid)
    /\ p.gid # None => IdMatches(p.gid, m.gid)
    /\ p.links # None => IdMatches(p.links, m.nlink)
    /\ p.inum # None => IdMatches(p.inum, m.ino)
    /\ \A t \in p.newer : NewerMatches(t, m)

-----------------------------------------------------------------------------
(* --file-type                                                             *)

EntryType == {"File", "Dir", "Symlink", "BlockDevice", "CharDevice", "Fifo", "Socket"}

\* empty without file or directory implies both
Selected(selectors) ==
    LET s == selectors \ {"Empty"} IN
    IF "Empty" \in selectors /\ s \cap {"File", "Dir"} = {}
    THEN s \cup {"File", "Dir"} ELSE s

\* `empty` is what is_empty finds: a failing stat or read_dir answers no
IgnoreFiletype(selectors, type, empty) ==
    type \notin Selected(selectors) \/ ("Empty" \in selectors /\ ~empty)
=============================================================================
