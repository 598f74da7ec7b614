-------------------------- MODULE CommandLineProofs --------------------------
(***************************************************************************)
(* Proofs about the command line, for every argv, platform and width: what *)
(* the parser stores has the type its reader expects, a walk that starts   *)
(* has what it assumes, the locals are what the command line read as a     *)
(* whole asks for, and the exit status is the manual's.                    *)
(***************************************************************************)
EXTENDS CommandLine, Recursion, FiniteSetTheorems

-----------------------------------------------------------------------------
(* The invariant                                                           *)

NumberField == {"max-depth", "min-depth", "max-scan-rate", "max-results"}
OwnerField == {"uid", "gid", "links", "inum"}

\* what an option may put into a field; nothing is asked of a pattern's text
Fits(f, v) ==
    /\ f \in Switch => v \in BOOLEAN
    /\ f = "file-type" => v \in EntryType \cup {"Empty"}
    /\ f = "times" => v \in TimePred
    /\ f = "newer" => v \in NewerPred
    /\ f = "paths" => v \in Range(DirOf)
    /\ f = "threads" => v \in 1 .. UsizeMax
    /\ f \in NumberField => v \in Nat
    /\ f = "size" => v \in SizePred
    /\ f = "perm" => v \in PermPred
    /\ f \in OwnerField => v \in Comparison

Fields == Collected \cup Switch \cup Single

OptsTyped(o) ==
    /\ DOMAIN o = Fields
    /\ \A f \in Switch : o[f] \in BOOLEAN
    /\ o["file-type"] \in Seq(EntryType \cup {"Empty"})
    /\ o["times"] \in Seq(TimePred)
    /\ o["newer"] \in Seq(NewerPred)
    /\ o["paths"] \in Seq(Range(DirOf))
    /\ o["threads"] \in (1 .. UsizeMax) \cup {None}
    /\ \A f \in NumberField : o[f] \in Nat \cup {None}
    /\ o["size"] \in SizePred \cup {None}
    /\ o["perm"] \in PermPred \cup {None}
    /\ \A f \in OwnerField : o[f] \in Comparison \cup {None}

\* the fields that only a Unix option writes
UnixField == {"perm", "uid", "gid", "links", "inum", "nouser", "nogroup", "access"}

Cursor ==
    /\ i \in 1 .. Len(argv) + 1 /\ k \in Nat
    /\ k = 0 \/ (i <= Len(argv) /\ k < Len(Here.names))

Prepared ==
    /\ pc \in {"register", "compile", "walk"} =>
          /\ ~Conflict /\ opts["paths"] # <<>>
          /\ opts["file-type"] # <<>> /\ opts["threads"] \in 1 .. UsizeMax
    /\ pc \in {"compile", "walk"} => handlers = StopSignals
    /\ pc = "walk" =>
          /\ AllCompile /\ roots = Unique(opts["paths"])
          /\ \A s \in Range(sets) : s.of \in Range(SetOrder) /\ s.patterns = opts[s.of]

CommandInv ==
    /\ argv \in Argvs /\ platform \in Platforms /\ ended \in BOOLEAN
    /\ pc \in {"parse", "register", "compile", "walk", "exit"}
    /\ handlers \in 0 .. StopSignals /\ status \in {None, 0, 1, 2}
    /\ Cursor /\ OptsTyped(opts) /\ Prepared
    /\ platform = "other" => \A f \in UnixField : opts[f] = Defaults[f]

-----------------------------------------------------------------------------
(* The option table                                                        *)

\* The kinds of locals do not overlap.
LEMMA FieldsApart ==
    /\ Collected \cap Switch = {} /\ Collected \cap Single = {} /\ Switch \cap Single = {}
    /\ UnixField \subseteq Fields
  BY DEF Collected, Switch, Single, UnixField, Fields

\* Every option writes a field, and only a Unix option writes a Unix field.
LEMMA FieldOf ==
    ASSUME NEW n \in (Flag \cup Valued) \ {"print"}
    PROVE  /\ Field(n) \in Fields
           /\ n \notin UnixOnly => Field(n) \notin UnixField
<1>1. CASE n \in Flag \ {"print"}
  BY <1>1 DEF Flag, AccessFlag, Field, Fields, Collected, Switch, Single, UnixOnly, UnixField,
     Times, Newer
<1>2. CASE n \in Times \cup Newer
  BY <1>2 DEF AccessFlag, Field, Fields, Collected, Switch, Single, UnixOnly, UnixField,
     Times, Newer
<1>3. CASE n \in Pattern
  BY <1>3 DEF Pattern, AccessFlag, Field, Fields, Collected, Switch, Single, UnixOnly, UnixField,
     Times, Newer
<1>4. CASE n \in Valued \ (Times \cup Newer \cup Pattern)
  BY <1>4 DEF Valued, AccessFlag, Field, Fields, Collected, Switch, Single, UnixOnly, UnixField,
     Times, Newer
<1> QED
  BY <1>1, <1>2, <1>3, <1>4

\* A flag's value fits the local it sets.
LEMMA FlagTyped ==
    ASSUME NEW n \in Flag \ {"print"}
    PROVE  Fits(Field(n), FlagValue(n))
<1>1. CASE n \in AccessFlag
  BY <1>1 DEF AccessFlag, Times, Newer, Field, Fits, Switch, NumberField, OwnerField
<1>2. CASE n = "empty"
  BY <1>2 DEF AccessFlag, Times, Newer, Field, Fits, Switch, NumberField, OwnerField, FlagValue
<1>3. CASE n = "quit"
  BY <1>3 DEF AccessFlag, Times, Newer, Field, Fits, Switch, NumberField, OwnerField, FlagValue
<1>4. CASE n \in Flag \ (AccessFlag \cup {"empty", "quit", "print"})
  <2>1. FlagValue(n) = (n # "no-one-filesystem")
    BY <1>4 DEF FlagValue, AccessFlag
  <2>2. Field(n) \in Switch
    BY <1>4 DEF Flag, AccessFlag, Times, Newer, Field, Switch
  <2> QED
    BY <2>1, <2>2 DEF Fits, Switch, NumberField, OwnerField
<1> QED
  BY <1>1, <1>2, <1>3, <1>4

\* parse_cmp yields a comparison with an i64.
LEMMA CmpTyped ==
    ASSUME NEW w, CmpOf(w) # None
    PROVE  CmpOf(w) \in Comparison /\ w.num \in I64
  BY DEF CmpOf, Valid, Comparison

\* A size that parses is a size predicate.
LEMMA SizeTyped ==
    ASSUME NEW w, SizeOf(w) # None
    PROVE  SizeOf(w) \in SizePred
<1>1. /\ UnitOf(w.unit) # None /\ CmpOf(w) # None
      /\ SizeOf(w) = [cmp |-> CmpOf(w), unit |-> UnitOf(w.unit)]
  BY DEF SizeOf, Valid
<1>2. UnitOf(w.unit) \in Nat \ {0}
  BY <1>1 DEF UnitOf
<1> QED
  BY <1>1, <1>2, CmpTyped DEF SizePred

\* A time that parses is a time predicate.
LEMMA TimeTyped ==
    ASSUME NEW n, NEW w, TimeOf(n, w) # None
    PROVE  TimeOf(n, w) \in TimePred
<1>1. \E u \in {60, 24 * 60 * 60} :
          TimeOf(n, w) = Valid(w.unit = "" /\ CmpOf(w) # None,
                               [cmp |-> CmpOf(w), field |-> TimeFieldOf(n), unit |-> u])
  <2>1. CASE n \in {"mtime", "ctime", "atime"}
    BY <2>1 DEF TimeOf
  <2>2. CASE n \notin {"mtime", "ctime", "atime"}
    BY <2>2 DEF TimeOf
  <2> QED
    BY <2>1, <2>2
<1>2. PICK u \in {60, 24 * 60 * 60} :
          TimeOf(n, w) = Valid(w.unit = "" /\ CmpOf(w) # None,
                               [cmp |-> CmpOf(w), field |-> TimeFieldOf(n), unit |-> u])
  BY <1>1
<1>3. CmpOf(w) # None /\ TimeOf(n, w) = [cmp |-> CmpOf(w), field |-> TimeFieldOf(n), unit |-> u]
  BY <1>2 DEF Valid
<1>4. TimeFieldOf(n) \in TimeField
  BY DEF TimeFieldOf, TimeField
<1> QED
  BY <1>3, <1>4, CmpTyped DEF TimePred

\* A reference file that exists gives a -newer predicate.
LEMMA NewerTyped ==
    ASSUME NEW n, NEW w, NewerOf(n, w) # None
    PROVE  NewerOf(n, w) \in NewerPred
<1> DEFINE t == MtimeOf[w.text]
<1>1. /\ w.text \in DOMAIN MtimeOf
      /\ NewerOf(n, w) = [ref |-> FileMtime(t), field |-> TimeFieldOf(n)]
  BY DEF NewerOf, Valid
<1>2. TimeFieldOf(n) \in TimeField
  BY DEF TimeFieldOf, TimeField
<1>3. t \in Int
  BY <1>1, CommandLineAssumption
<1> HIDE DEF t
<1>4. FileMtime(t) \in I64
  BY <1>3, WidthAssumption DEF FileMtime, Saturate, I64
<1> QED
  BY <1>1, <1>2, <1>4 DEF NewerPred

\* An unsigned number is not negative.
LEMMA UnsignedTyped ==
    ASSUME NEW w, NEW max \in Nat, Valid(IsUnsigned(w, max), w.num) # None
    PROVE  Valid(IsUnsigned(w, max), w.num) \in Nat
<1>1. w.num \in 0 .. max /\ Valid(IsUnsigned(w, max), w.num) = w.num
  BY DEF Valid, IsUnsigned
<1> QED
  BY <1>1

\* parse_threads yields a positive number that fits a usize.
LEMMA ThreadsTyped ==
    ASSUME NEW w, ThreadsOf(w) # None
    PROVE  ThreadsOf(w) \in 1 .. UsizeMax
<1>1. w.num \in 0 .. UsizeMax /\ w.num \in 2 .. MaxThreads /\ ThreadsOf(w) = w.num
  BY DEF ThreadsOf, Valid, IsUnsigned
<1>2. UsizeMax \in Nat /\ MaxThreads \in Nat
  BY WidthAssumption DEF UsizeMax, MaxThreads
<1> QED
  BY <1>1, <1>2

\* An owner, by name or by number, is a comparison of ids.
LEMMA OwnerTyped ==
    ASSUME NEW names, NEW w, OwnerOf(names, w) # None,
           \A t \in DOMAIN names : names[t] \in 0 .. U32Max
    PROVE  OwnerOf(names, w) \in Comparison
<1>1. \E n \in 0 .. U32Max : OwnerOf(names, w) = Exact(n)
  BY DEF OwnerOf, Valid, IsUnsigned
<1>2. \A n \in 0 .. U32Max : n \in I64
  BY CommandLineAssumption, WidthAssumption DEF I64
<1> QED
  BY <1>1, <1>2 DEF Exact, Comparison

\* A mode that parses is a permission predicate.
LEMMA PermTyped ==
    ASSUME NEW w, PermOf(w) # None, w.mode \in (SUBSET PermBit) \cup {None}
    PROVE  PermOf(w) \in PermPred
  BY DEF PermOf, Valid, PermPred

\* What an option's arm accepts has the type of the field it writes.
LEMMA ValueTyped ==
    ASSUME NEW n \in Valued, NEW w, w.mode \in (SUBSET PermBit) \cup {None}, ValueOf(n, w) # None
    PROVE  Fits(Field(n), ValueOf(n, w))
<1> USE DEF Newer, Times, AccessFlag, Pattern
<1> DEFINE v == ValueOf(n, w)
           f == Field(n)
<1>0. n \notin Newer => w.utf8
  BY DEF ValueOf
<1>1. f \notin Switch /\ f # "paths"
  BY DEF Field, Valued, Switch
<1>2. f = "newer" => v \in NewerPred
  <2>1. f = "newer" => v = NewerOf(n, w)
    BY DEF Field, Valued, ValueOf
  <2> QED
    BY <2>1, NewerTyped
<1>3. f = "file-type" => v \in EntryType \cup {"Empty"}
  <2>1. f = "file-type" => v = TypeOf(w.text)
    BY <1>0 DEF Field, Valued, ValueOf
  <2>2. TypeOf(w.text) # None => TypeOf(w.text) \in EntryType \cup {"Empty"}
    BY DEF TypeOf, EntryType
  <2> QED
    BY <2>1, <2>2
<1>4. f = "times" => v \in TimePred
  <2>1. f = "times" => v = TimeOf(n, w)
    BY <1>0 DEF Field, Valued, ValueOf
  <2> QED
    BY <2>1, TimeTyped
<1>5. f = "threads" => v \in 1 .. UsizeMax
  <2>1. f = "threads" => v = ThreadsOf(w)
    BY <1>0 DEF Field, Valued, ValueOf
  <2> QED
    BY <2>1, ThreadsTyped
<1>6. f \in NumberField => v \in Nat
  <2>1. f \in NumberField => /\ n \in NumberField
                             /\ \/ v = Valid(IsUnsigned(w, UsizeMax), w.num)
                                \/ v = Valid(IsUnsigned(w, U32Max), w.num)
    BY <1>0 DEF Field, Valued, ValueOf, NumberField
  <2>2. UsizeMax \in Nat /\ U32Max \in Nat
    BY WidthAssumption, CommandLineAssumption DEF UsizeMax
  <2> QED
    BY <2>1, <2>2, UnsignedTyped
<1>7. f = "size" => v \in SizePred
  <2>1. f = "size" => v = SizeOf(w)
    BY <1>0 DEF Field, Valued, ValueOf
  <2> QED
    BY <2>1, SizeTyped
<1>8. f = "perm" => v \in PermPred
  <2>1. f = "perm" => v = PermOf(w)
    BY <1>0 DEF Field, Valued, ValueOf
  <2> QED
    BY <2>1, PermTyped
<1>9. f \in OwnerField => v \in Comparison
  <2>1. f \in OwnerField => \/ v = Valid(w.unit = "", CmpOf(w))
                            \/ v = OwnerOf(Uid, w) \/ v = OwnerOf(Gid, w)
    BY <1>0 DEF Field, Valued, ValueOf, OwnerField
  <2>2. Valid(w.unit = "", CmpOf(w)) # None => Valid(w.unit = "", CmpOf(w)) \in Comparison
    BY CmpTyped DEF Valid
  <2>3. \A d \in {Uid, Gid} : OwnerOf(d, w) # None => OwnerOf(d, w) \in Comparison
    BY OwnerTyped, CommandLineAssumption
  <2> QED
    BY <2>1, <2>2, <2>3
<1> HIDE DEF v, f
<1>10. Fits(f, v)
  BY <1>1, <1>2, <1>3, <1>4, <1>5, <1>6, <1>7, <1>8, <1>9 DEF Fits
<1> QED
  BY <1>10 DEF v, f

-----------------------------------------------------------------------------
(* The items of a command line                                             *)

TypedMode(w) == w.mode \in (SUBSET PermBit) \cup {None}

\* What the rewriting keeps: every spelled option has its place for a value, and a
\* word is still a word.
LEMMA ItemTyped ==
    ASSUME NEW a \in Argvs, NEW j \in 1 .. Len(a)
    PROVE  LET x == Normalized(a[j]) IN
           /\ Len(x.names) \in Nat /\ Len(x.tails) \in Nat
           /\ x.form \in {"long", "short"} => Len(x.names) > 0 /\ Len(x.names) <= Len(x.tails)
           /\ \A m \in 1 .. Len(x.tails) : x.tails[m] # None => TypedMode(x.tails[m])
           /\ TypedMode(x.word)
<1> DEFINE y == a[j]
<1>1. y \in Item /\ Len(y.tails) = Len(y.names)
      /\ (y.form = "short" => y.names # <<>>)
      /\ (y.form \in {"find", "long"} => Len(y.names) = 1)
  <2>1. a \in Seq(Item) /\ DOMAIN a = 1 .. Len(a)
    BY CommandLineAssumption
  <2> QED
    BY <2>1, CommandLineAssumption
<1>2. /\ y.names \in Seq(STRING) /\ y.tails \in Seq(Word \cup {None}) /\ y.word \in Word
      /\ Len(y.names) \in Nat /\ Len(y.tails) \in Nat
      /\ \A m \in 1 .. Len(y.tails) : y.tails[m] \in Word \cup {None}
  BY <1>1 DEF Item
<1>3. \A w \in Word : TypedMode(w)
  BY DEF Word, TypedMode
<1> HIDE DEF y
<1>0. y.form \in {"find", "long", "short"} => Len(y.names) > 0
  <2>1. y.names # <<>> => Len(y.names) > 0
    BY <1>2
  <2>2. y.form = "short" => Len(y.names) > 0
    BY <1>1, <2>1, Zenon
  <2>3. ASSUME y.form \in {"find", "long"} PROVE Len(y.names) > 0
    <3>1. Len(y.names) = 1
      BY <1>1, <2>3, Zenon
    <3> QED
      BY <3>1
  <2> QED
    BY <2>2, <2>3
<1>4. CASE y.form = "find"
  <2> DEFINE x == Normalized(y)
  <2>1. x.tails = y.tails /\ Len(x.names) = 1 /\ x.word.mode = y.word.mode
    BY <1>1, <1>4 DEF Normalized, Item, Word
  <2> HIDE DEF x
  <2>2. /\ Len(x.names) \in Nat /\ Len(x.tails) \in Nat
        /\ Len(x.names) > 0 /\ Len(x.names) <= Len(x.tails)
    BY <1>0, <1>1, <1>2, <1>4, <2>1
  <2>3. \A m \in 1 .. Len(x.tails) : x.tails[m] # None => TypedMode(x.tails[m])
    BY <1>2, <1>3, <2>1
  <2>4. TypedMode(x.word)
    BY <1>2, <1>3, <2>1 DEF TypedMode
  <2> QED
    BY <2>2, <2>3, <2>4 DEF x, y
<1>5. CASE y.form # "find"
  <2>1. Normalized(y) = y
    BY <1>5 DEF Normalized
  <2>2. /\ (y.form \in {"long", "short"} => Len(y.names) > 0 /\ Len(y.names) <= Len(y.tails))
        /\ \A m \in 1 .. Len(y.tails) : y.tails[m] # None => TypedMode(y.tails[m])
        /\ TypedMode(y.word)
    BY <1>0, <1>1, <1>2, <1>3
  <2> QED
    BY <1>2, <2>1, <2>2 DEF y
<1> QED
  BY <1>4, <1>5

-----------------------------------------------------------------------------
(* Writing an option                                                       *)

\* A list of values keeps its type when one is added.
LEMMA AppendTyped ==
    ASSUME NEW S, NEW s \in Seq(S), NEW e \in S
    PROVE  Append(s, e) \in Seq(S)
  OBVIOUS

\* Writing a value that fits keeps the locals typed.
LEMMA StoreTyped ==
    ASSUME NEW o, OptsTyped(o), NEW f \in Fields, NEW v, Fits(f, v)
    PROVE  /\ OptsTyped(Store(o, f, v))
           /\ f \notin UnixField => \A g \in UnixField : Store(o, f, v)[g] = o[g]
<1> DEFINE p == Store(o, f, v)
<1>1. DOMAIN p = Fields
  BY DEF Store, OptsTyped
<1>2. \A g \in Fields : g # f => p[g] = o[g]
  BY DEF Store, OptsTyped
<1>3. p[f] = IF f \in Collected THEN Append(o[f], v) ELSE v
  BY DEF Store, OptsTyped
<1> HIDE DEF p
<1>4. \A g \in Switch : p[g] \in BOOLEAN
  BY <1>2, <1>3, FieldsApart DEF OptsTyped, Fits, Fields
<1>5. p["file-type"] \in Seq(EntryType \cup {"Empty"})
  <2>1. CASE f = "file-type"
    <3>1. p[f] = Append(o["file-type"], v)
      BY <1>3, <2>1 DEF Collected
    <3>2. o["file-type"] \in Seq(EntryType \cup {"Empty"}) /\ v \in EntryType \cup {"Empty"}
      BY <2>1 DEF OptsTyped, Fits
    <3> QED
      BY <2>1, <3>1, <3>2, AppendTyped
  <2> QED
    BY <1>2, <2>1 DEF OptsTyped, Fields, Collected
<1>6. p["times"] \in Seq(TimePred)
  <2>1. CASE f = "times"
    <3>1. p[f] = Append(o["times"], v)
      BY <1>3, <2>1 DEF Collected
    <3>2. o["times"] \in Seq(TimePred) /\ v \in TimePred
      BY <2>1 DEF OptsTyped, Fits
    <3> QED
      BY <2>1, <3>1, <3>2, AppendTyped
  <2> QED
    BY <1>2, <2>1 DEF OptsTyped, Fields, Collected
<1>7. p["newer"] \in Seq(NewerPred)
  <2>1. CASE f = "newer"
    <3>1. p[f] = Append(o["newer"], v)
      BY <1>3, <2>1 DEF Collected
    <3>2. o["newer"] \in Seq(NewerPred) /\ v \in NewerPred
      BY <2>1 DEF OptsTyped, Fits
    <3> QED
      BY <2>1, <3>1, <3>2, AppendTyped
  <2> QED
    BY <1>2, <2>1 DEF OptsTyped, Fields, Collected
<1>8. p["paths"] \in Seq(Range(DirOf))
  <2>1. CASE f = "paths"
    <3>1. p[f] = Append(o["paths"], v)
      BY <1>3, <2>1 DEF Collected
    <3>2. o["paths"] \in Seq(Range(DirOf)) /\ v \in Range(DirOf)
      BY <2>1 DEF OptsTyped, Fits
    <3> QED
      BY <2>1, <3>1, <3>2, AppendTyped
  <2> QED
    BY <1>2, <2>1 DEF OptsTyped, Fields, Collected
<1>9. f \in Single => p[f] = v
  BY <1>3, FieldsApart
<1>10. {"threads", "size", "perm"} \cup NumberField \cup OwnerField \subseteq Single
  BY DEF NumberField, OwnerField, Single
<1>11. p["threads"] \in (1 .. UsizeMax) \cup {None}
  BY <1>2, <1>9, <1>10 DEF OptsTyped, Fields, Fits
<1>12. \A g \in NumberField : p[g] \in Nat \cup {None}
  BY <1>2, <1>9, <1>10 DEF OptsTyped, Fields, Fits
<1>13. p["size"] \in SizePred \cup {None} /\ p["perm"] \in PermPred \cup {None}
  BY <1>2, <1>9, <1>10 DEF OptsTyped, Fields, Fits
<1>14. \A g \in OwnerField : p[g] \in Comparison \cup {None}
  BY <1>2, <1>9, <1>10 DEF OptsTyped, Fields, Fits
<1>15. OptsTyped(p)
  BY <1>1, <1>4, <1>5, <1>6, <1>7, <1>8, <1>11, <1>12, <1>13, <1>14 DEF OptsTyped
<1>16. f \notin UnixField => \A g \in UnixField : p[g] = o[g]
  BY <1>2, FieldsApart
<1> QED
  BY <1>15, <1>16 DEF p

\* An arm leaves the options typed, and those of a platform without them alone.
LEMMA ApplyTyped ==
    ASSUME NEW o, OptsTyped(o), NEW n \in Flag \cup Valued, NEW v,
           n # "print" => Fits(Field(n), v)
    PROVE  /\ OptsTyped(Apply(o, n, v))
           /\ n \notin UnixOnly => \A g \in UnixField : Apply(o, n, v)[g] = o[g]
<1> DEFINE p == IF n \in CaseFlag THEN Store(o, "case-insensitive", TRUE) ELSE o
<1>1. OptsTyped(p) /\ \A g \in UnixField : p[g] = o[g]
  <2>1. /\ "case-insensitive" \in Fields /\ "case-insensitive" \notin UnixField
        /\ Fits("case-insensitive", TRUE)
    BY DEF Fields, Switch, UnixField, Fits, NumberField, OwnerField
  <2> QED
    BY <2>1, StoreTyped
<1> HIDE DEF p
<1>2. CASE n = "print"
  BY <1>2 DEF Apply
<1>3. CASE n # "print"
  <2>1. Apply(o, n, v) = Store(p, Field(n), v)
    BY <1>3 DEF Apply, p
  <2>2. Field(n) \in Fields /\ (n \notin UnixOnly => Field(n) \notin UnixField)
    BY <1>3, FieldOf
  <2> QED
    BY <1>1, <1>3, <2>1, <2>2, StoreTyped
<1> QED
  BY <1>2, <1>3

-----------------------------------------------------------------------------
(* The steps                                                               *)

\* The parser starts with the defaults.
LEMMA InitTyped == Init => CommandInv
<1> SUFFICES ASSUME Init PROVE CommandInv
  OBVIOUS
<1>1. OptsTyped(opts)
  <2>1. DOMAIN Defaults = Fields
    BY DEF Defaults, Fields
  <2>2. \A f \in Switch : Defaults[f] \in BOOLEAN
    BY FieldsApart DEF Defaults
  <2>3. \A f \in Collected : Defaults[f] = <<>>
    BY DEF Defaults
  <2>4. \A f \in Single : Defaults[f] = None
    BY FieldsApart DEF Defaults
  <2>5. {"threads", "size", "perm"} \cup NumberField \cup OwnerField \subseteq Single
    BY DEF NumberField, OwnerField, Single
  <2>6. {"file-type", "times", "newer", "paths"} \subseteq Collected
    BY DEF Collected
  <2>7. \A S : <<>> \in Seq(S)
    OBVIOUS
  <2>8. /\ Defaults["file-type"] \in Seq(EntryType \cup {"Empty"})
        /\ Defaults["times"] \in Seq(TimePred) /\ Defaults["newer"] \in Seq(NewerPred)
        /\ Defaults["paths"] \in Seq(Range(DirOf))
    BY <2>3, <2>6, <2>7
  <2>9. OptsTyped(Defaults)
    BY <2>1, <2>2, <2>4, <2>5, <2>8 DEF OptsTyped
  <2> QED
    BY <2>9 DEF Init
<1>2. Cursor
  <2>1. Len(argv) \in Nat
    BY CommandLineAssumption DEF Init
  <2> QED
    BY <2>1 DEF Init, Cursor
<1>3. handlers \in 0 .. StopSignals
  BY DEF Init, StopSignals
<1> QED
  BY <1>1, <1>2, <1>3 DEF Init, CommandInv, Prepared

\* The parts of the invariant that a parser step keeps by not touching them.
LEMMA ParserStep ==
    ASSUME CommandInv, pc = "parse", OptsTyped(opts)', Cursor',
           platform = "other" => \A f \in UnixField : opts'[f] = opts[f],
           ended' \in BOOLEAN, UNCHANGED <<argv, platform, pc, late>>
    PROVE  CommandInv'
<1>1. StopSignals' = StopSignals
  BY DEF StopSignals
<1>2. Prepared'
  BY DEF Prepared
<1>3. platform' = "other" => \A f \in UnixField : opts'[f] = Defaults[f]
  BY DEF CommandInv
<1> QED
  BY <1>1, <1>2, <1>3 DEF CommandInv, late

\* Leaving with a status keeps the invariant.
LEMMA ExitStep ==
    ASSUME CommandInv, NEW c \in {0, 1, 2}, Exit(c)
    PROVE  CommandInv'
<1>1. StopSignals' = StopSignals
  BY DEF StopSignals, Exit
<1>2. Prepared'
  BY DEF Prepared, Exit
<1>3. Cursor' /\ OptsTyped(opts)'
  BY DEF CommandInv, Cursor, Here, Exit
<1> QED
  BY <1>1, <1>2, <1>3 DEF CommandInv, Exit

\* Off Unix no Unix option is recognised.
LEMMA SupportedHere ==
    ASSUME platform = "other", NEW n \in Supported
    PROVE  n \notin UnixOnly
<1>1. "help" \notin UnixOnly /\ "version" \notin UnixOnly
  BY DEF UnixOnly, AccessFlag
<1> QED
  BY <1>1 DEF Supported

\* At an option there is a letter under the cursor, with its place for a value.
LEMMA AtOptionHere ==
    ASSUME CommandInv, AtOption
    PROVE  /\ i \in 1 .. Len(argv) /\ Len(argv) \in Nat /\ k \in Nat
           /\ Len(Here.names) \in Nat /\ k < Len(Here.names)
           /\ k + 1 \in 1 .. Len(Here.tails)
           /\ Attached # None => TypedMode(Attached)
<1>1. i \in 1 .. Len(argv) /\ Len(argv) \in Nat /\ k \in Nat
  <2>1. Len(argv) \in Nat
    BY CommandLineAssumption DEF CommandInv
  <2> QED
    BY <2>1 DEF CommandInv, Cursor, AtOption, Reading
<1>2. /\ Len(Here.names) \in Nat /\ Len(Here.tails) \in Nat
      /\ Len(Here.names) > 0 /\ Len(Here.names) <= Len(Here.tails)
      /\ \A m \in 1 .. Len(Here.tails) : Here.tails[m] # None => TypedMode(Here.tails[m])
  BY <1>1, ItemTyped DEF CommandInv, AtOption, Here
<1>3. k < Len(Here.names)
  BY <1>2 DEF CommandInv, Cursor
<1> QED
  BY <1>1, <1>2, <1>3 DEF Attached

\* Reading a flag keeps the invariant.
LEMMA FlagStep ==
    ASSUME CommandInv, ReadFlag
    PROVE  CommandInv'
<1>1. AtOption /\ Option \in Flag \cap Supported /\ opts' = Apply(opts, Option, FlagValue(Option))
      /\ UNCHANGED <<argv, platform, ended, pc, late>>
  BY DEF ReadFlag
<1>2. OptsTyped(opts') /\ (platform = "other" => \A f \in UnixField : opts'[f] = opts[f])
  <2> DEFINE n == Option
  <2>1. n \in Flag /\ (platform = "other" => n \notin UnixOnly)
    BY <1>1, SupportedHere
  <2>2. n # "print" => Fits(Field(n), FlagValue(n))
    BY <2>1, FlagTyped
  <2> HIDE DEF n
  <2>3. opts' = Apply(opts, n, FlagValue(n)) /\ OptsTyped(opts)
    BY <1>1 DEF CommandInv, n
  <2> QED
    BY <2>1, <2>2, <2>3, ApplyTyped
<1>3. Cursor'
  <2>1. CASE LastLetter
    BY <1>1, <2>1, AtOptionHere DEF ReadFlag, MoveTo, Cursor
  <2>2. CASE ~LastLetter
    <3>1. i' = i /\ k' = k + 1 /\ argv' = argv
      BY <2>2 DEF ReadFlag, MoveTo
    <3>2. Here' = Here
      BY <3>1 DEF Here
    <3>3. k + 1 < Len(Here.names)
      BY <1>1, <2>2, AtOptionHere DEF LastLetter
    <3> QED
      BY <1>1, <3>1, <3>2, <3>3, AtOptionHere DEF Cursor
  <2> QED
    BY <2>1, <2>2
<1>4. pc = "parse" /\ ended' \in BOOLEAN
  BY <1>1 DEF AtOption, Reading, CommandInv
<1> QED
  BY <1>1, <1>2, <1>3, <1>4, ParserStep

\* So does reading an option with its value.
LEMMA ValuedStep ==
    ASSUME CommandInv, ReadValued
    PROVE  CommandInv'
<1>1. AtOption /\ Option \in Valued \cap Supported /\ HasValue /\ ValueOf(Option, Value) # None
      /\ opts' = Apply(opts, Option, ValueOf(Option, Value))
      /\ UNCHANGED <<argv, platform, ended, pc, late>>
  BY DEF ReadValued
<1>2. TypedMode(Value)
  <2>1. CASE Attached # None
    BY <1>1, <2>1, AtOptionHere DEF Value
  <2>2. CASE Attached = None
    <3>1. i + 1 \in 1 .. Len(argv) /\ argv \in Argvs /\ Value = Normalized(argv[i + 1]).word
      BY <1>1, <2>2, AtOptionHere DEF HasValue, Value, CommandInv
    <3> QED
      BY <3>1, ItemTyped
  <2> QED
    BY <2>1, <2>2
<1>3. OptsTyped(opts') /\ (platform = "other" => \A f \in UnixField : opts'[f] = opts[f])
  <2> DEFINE n == Option
             w == Value
  <2>1. n \in Valued /\ (platform = "other" => n \notin UnixOnly)
    BY <1>1, SupportedHere
  <2>2. TypedMode(w) /\ ValueOf(n, w) # None
    BY <1>1, <1>2
  <2>3. opts' = Apply(opts, n, ValueOf(n, w)) /\ OptsTyped(opts)
    BY <1>1 DEF CommandInv
  <2> HIDE DEF n, w
  <2>4. Fits(Field(n), ValueOf(n, w))
    BY <2>1, <2>2, ValueTyped DEF TypedMode
  <2> QED
    BY <2>1, <2>3, <2>4, ApplyTyped
<1>4. Cursor'
  <2>1. /\ argv' = argv /\ k' = 0 /\ i' = IF Attached # None THEN i + 1 ELSE i + 2
        /\ (Attached = None => i < Len(argv))
    BY <1>1 DEF ReadValued, MoveTo, HasValue
  <2> QED
    BY <1>1, <2>1, AtOptionHere DEF Cursor
<1>5. pc = "parse" /\ ended' \in BOOLEAN
  BY <1>1 DEF AtOption, Reading, CommandInv
<1> QED
  BY <1>1, <1>3, <1>4, <1>5, ParserStep

\* So does the -- that ends the options.
LEMMA EndStep ==
    ASSUME CommandInv, EndOfOptions
    PROVE  CommandInv'
<1>1. /\ pc = "parse" /\ i <= Len(argv) /\ ended' = TRUE /\ i' = i + 1 /\ k' = 0
      /\ UNCHANGED <<argv, platform, opts, pc, late>>
  BY DEF EndOfOptions, Reading, MoveTo
<1>2. Cursor'
  BY <1>1, CommandLineAssumption DEF CommandInv, Cursor
<1>3. OptsTyped(opts)'
  BY <1>1 DEF CommandInv
<1> QED
  BY <1>1, <1>2, <1>3, ParserStep

\* So does reading a path.
LEMMA PathStep ==
    ASSUME CommandInv, ReadPath
    PROVE  CommandInv'
<1> DEFINE d == DirOf[Here.word.text]
<1>1. /\ pc = "parse" /\ i <= Len(argv) /\ i' = i + 1 /\ k' = 0
      /\ Here.word.text \in DOMAIN DirOf /\ opts' = Store(opts, "paths", d)
      /\ UNCHANGED <<argv, platform, ended, pc, late>>
  BY DEF ReadPath, AtPath, Reading, MoveTo, IsDirectory
<1>2. Cursor'
  BY <1>1, CommandLineAssumption DEF CommandInv, Cursor
<1>3. d \in Range(DirOf)
  BY <1>1 DEF Range
<1> HIDE DEF d
<1>4. "paths" \in Fields /\ "paths" \notin UnixField /\ Fits("paths", d)
  BY <1>3 DEF Fields, Collected, UnixField, Fits, Switch, NumberField, OwnerField
<1>5. OptsTyped(opts') /\ \A f \in UnixField : opts'[f] = opts[f]
  BY <1>1, <1>4, StoreTyped DEF CommandInv
<1>6. ended' \in BOOLEAN
  BY <1>1 DEF CommandInv
<1> QED
  BY <1>1, <1>2, <1>5, <1>6, ParserStep

\* So does filling in the defaults.
LEMMA FinishStep ==
    ASSUME CommandInv, Finish
    PROVE  CommandInv'
<1>1. PICK cpus \in Cpus :
          opts' = [opts EXCEPT
              !["file-type"] = IF @ = <<>> THEN <<"Dir", "File", "Symlink">> ELSE @,
              !["threads"] = IF @ = None THEN DefaultThreads(cpus) ELSE @]
  BY DEF Finish
<1>2. /\ ~Conflict /\ opts["paths"] # <<>> /\ pc' = "register"
      /\ UNCHANGED <<argv, platform, i, k, ended, late>>
  BY DEF Finish
<1>3. OptsTyped(opts) /\ DOMAIN opts = Fields
  BY DEF CommandInv, OptsTyped
<1>4. /\ DOMAIN opts' = Fields
      /\ \A f \in Fields \ {"file-type", "threads"} : opts'[f] = opts[f]
  BY <1>1, <1>3
<1>5. /\ opts'["file-type"] # <<>>
      /\ opts'["file-type"] \in Seq(EntryType \cup {"Empty"})
  <2>1. opts'["file-type"] = IF opts["file-type"] = <<>> THEN <<"Dir", "File", "Symlink">>
                             ELSE opts["file-type"]
    BY <1>1, <1>3 DEF Fields, Collected
  <2>2. <<"Dir", "File", "Symlink">> \in Seq(EntryType \cup {"Empty"})
    BY DEF EntryType
  <2>3. opts["file-type"] \in Seq(EntryType \cup {"Empty"})
    BY <1>3 DEF OptsTyped
  <2>4. CASE opts["file-type"] = <<>>
    <3>1. opts'["file-type"] = <<"Dir", "File", "Symlink">>
      BY <2>1, <2>4
    <3>2. <<"Dir", "File", "Symlink">> # <<>>
      OBVIOUS
    <3> QED
      BY <2>2, <3>1, <3>2, Zenon
  <2>5. CASE opts["file-type"] # <<>>
    BY <2>1, <2>3, <2>5, Zenon
  <2> QED
    BY <2>4, <2>5
<1>6. opts'["threads"] \in 1 .. UsizeMax
  <2>1. opts'["threads"] = IF opts["threads"] = None THEN DefaultThreads(cpus)
                           ELSE opts["threads"]
    BY <1>1, <1>3 DEF Fields, Single
  <2>2. DefaultThreads(cpus) \in 1 .. UsizeMax
    <3>1. 2 \in 1 .. UsizeMax
      BY WidthAssumption DEF UsizeMax
    <3>2. cpus # None => cpus \in 1 .. UsizeMax
      BY CommandLineAssumption DEF UsizeMax
    <3> QED
      BY <3>1, <3>2 DEF DefaultThreads
  <2> QED
    BY <1>3, <2>1, <2>2 DEF OptsTyped
<1>7. OptsTyped(opts')
  <2>1. Switch \cup NumberField \cup OwnerField \cup {"times", "newer", "paths", "size", "perm"}
          \subseteq Fields \ {"file-type", "threads"}
    BY DEF Switch, NumberField, OwnerField, Fields, Collected, Single
  <2> QED
    BY <1>3, <1>4, <1>5, <1>6, <2>1 DEF OptsTyped
<1>8. {"name", "regex", "paths"} \cup UnixField \subseteq Fields \ {"file-type", "threads"}
  BY DEF UnixField, Fields, Collected, Switch, Single
<1>9. Prepared'
  BY <1>2, <1>4, <1>5, <1>6, <1>8 DEF Prepared, Conflict
<1>10. Cursor' /\ StopSignals' = StopSignals
  BY <1>2 DEF CommandInv, Cursor, Here, StopSignals
<1>11. platform' = "other" => \A f \in UnixField : opts'[f] = Defaults[f]
  BY <1>2, <1>4, <1>8 DEF CommandInv
<1> QED
  BY <1>2, <1>7, <1>9, <1>10, <1>11 DEF CommandInv, late

\* So does registering the handlers.
LEMMA RegisterStep ==
    ASSUME CommandInv, Register
    PROVE  CommandInv'
<1>1. /\ pc = "register" /\ handlers' \in 0 .. StopSignals
      /\ (pc' = "compile" /\ handlers' = StopSignals /\ status' = status)
         \/ (pc' = "exit" /\ status' = 1)
      /\ UNCHANGED <<argv, platform, i, k, ended, opts, sets, roots>>
  BY DEF Register
<1>2. Cursor' /\ StopSignals' = StopSignals /\ OptsTyped(opts')
  BY <1>1 DEF CommandInv, Cursor, Here, StopSignals
<1>3. Prepared'
  BY <1>1, <1>2 DEF CommandInv, Prepared, Conflict
<1> QED
  BY <1>1, <1>2, <1>3 DEF CommandInv

\* So does starting the walk.
LEMMA StartStep ==
    ASSUME CommandInv, StartWalk
    PROVE  CommandInv'
<1>1. /\ pc = "compile" /\ AllCompile /\ pc' = "walk" /\ roots' = Unique(opts["paths"])
      /\ UNCHANGED <<argv, platform, i, k, ended, opts, handlers, status>>
  BY DEF StartWalk
<1>2. Cursor' /\ StopSignals' = StopSignals /\ OptsTyped(opts')
  BY <1>1 DEF CommandInv, Cursor, Here, StopSignals
<1>3. AllCompile'
  BY <1>1 DEF AllCompile
<1>4. \A s \in Range(sets') : s.of \in Range(SetOrder) /\ s.patterns = opts'[s.of]
  <2>1. sets' = [m \in DOMAIN SetOrder |->
                   [of |-> SetOrder[m], patterns |-> opts[SetOrder[m]],
                    ignoreCase |-> opts["case-insensitive"]]]
    BY DEF StartWalk
  <2> QED
    BY <1>1, <2>1 DEF Range
<1>5. Prepared'
  BY <1>1, <1>2, <1>3, <1>4 DEF CommandInv, Prepared, Conflict
<1> QED
  BY <1>1, <1>2, <1>5 DEF CommandInv

\* So does a step that changes nothing.
LEMMA StutterStep ==
    ASSUME CommandInv, UNCHANGED vars
    PROVE  CommandInv'
<1>1. UNCHANGED <<argv, platform, i, k, ended, opts, pc, handlers, sets, roots, status>>
  BY DEF vars
<1>2. Cursor' /\ StopSignals' = StopSignals /\ OptsTyped(opts')
  BY <1>1 DEF CommandInv, Cursor, Here, StopSignals
<1>3. Prepared'
  BY <1>1, <1>2 DEF CommandInv, Prepared, Conflict, AllCompile
<1> QED
  BY <1>1, <1>2, <1>3 DEF CommandInv

\* The invariant holds for every command line, platform and width: the cursor stays
\* on an item and a letter of it, every local of parse_inner holds what its readers
\* expect, and each phase of run finds what the one before it prepared.
THEOREM CommandInvariant == Spec => []CommandInv
<1>1. Init => CommandInv
  BY InitTyped
<1>2. CommandInv /\ [Next]_vars => CommandInv'
  <2> SUFFICES ASSUME CommandInv, [Next]_vars PROVE CommandInv'
    OBVIOUS
  <2>1. CASE HelpOrVersion
    BY <2>1, ExitStep DEF HelpOrVersion
  <2>2. CASE ReadFlag
    BY <2>2, FlagStep
  <2>3. CASE UnexpectedValue
    BY <2>3, ExitStep DEF UnexpectedValue
  <2>4. CASE ReadValued
    BY <2>4, ValuedStep
  <2>5. CASE InvalidValue
    BY <2>5, ExitStep DEF InvalidValue
  <2>6. CASE UnexpectedOption
    BY <2>6, ExitStep DEF UnexpectedOption
  <2>7. CASE EndOfOptions
    BY <2>7, EndStep
  <2>8. CASE ReadPath
    BY <2>8, PathStep
  <2>9. CASE NoSuchDirectory
    BY <2>9, ExitStep DEF NoSuchDirectory
  <2>10. CASE Incomplete
    BY <2>10, ExitStep DEF Incomplete
  <2>11. CASE Finish
    BY <2>11, FinishStep
  <2>12. CASE Register
    BY <2>12, RegisterStep
  <2>13. CASE StartWalk
    BY <2>13, StartStep
  <2>14. CASE BadPattern
    BY <2>14, ExitStep DEF BadPattern
  <2>15. CASE WalkReturns
    BY <2>15, ExitStep DEF WalkReturns
  <2>16. CASE Exited \/ UNCHANGED vars
    BY <2>16, StutterStep DEF Exited
  <2> QED
    BY <2>1, <2>2, <2>3, <2>4, <2>5, <2>6, <2>7, <2>8, <2>9, <2>10, <2>11, <2>12, <2>13,
       <2>14, <2>15, <2>16 DEF Next, Parse, Prepare
<1> QED
  BY <1>1, <1>2, PTL DEF Spec

-----------------------------------------------------------------------------
(* The properties                                                          *)

\* The elements of a typed sequence.
LEMMA RangeTyped ==
    ASSUME NEW S, NEW s \in Seq(S)
    PROVE  Range(s) \subseteq S /\ (s # <<>> => Range(s) # {})
<1>1. DOMAIN s = 1 .. Len(s) /\ Len(s) \in Nat /\ \A m \in 1 .. Len(s) : s[m] \in S
  OBVIOUS
<1>2. s # <<>> => 1 \in 1 .. Len(s)
  BY <1>1
<1> QED
  BY <1>1, <1>2 DEF Range

\* The predicates collected from the locals are of the type Meta expects.
LEMMA PredicatesTyped == CommandInv => PredicatesOf(opts) \in Predicates
<1> SUFFICES ASSUME CommandInv PROVE PredicatesOf(opts) \in Predicates
  OBVIOUS
<1>1. OptsTyped(opts)
  BY DEF CommandInv
<1>2. Range(opts["times"]) \subseteq TimePred /\ Range(opts["newer"]) \subseteq NewerPred
  BY <1>1, RangeTyped DEF OptsTyped
<1>3. /\ opts["size"] \in SizePred \cup {None} /\ opts["perm"] \in PermPred \cup {None}
      /\ opts["nouser"] \in BOOLEAN /\ opts["nogroup"] \in BOOLEAN
      /\ \A f \in {"uid", "gid", "links", "inum"} : opts[f] \in Comparison \cup {None}
  BY <1>1 DEF OptsTyped, OwnerField, Switch
<1> QED
  BY <1>2, <1>3 DEF PredicatesOf, Predicates

\* The types of the parser's locals: what parse_inner hands to the visitor are
\* predicates whose thresholds fit an i64 and whose units are positive, whatever the
\* user typed, and the counts are numbers.
THEOREM TypeCorrect == Spec => []TypeOK
<1>1. CommandInv => TypeOK
  <2> SUFFICES ASSUME CommandInv PROVE TypeOK
    OBVIOUS
  <2>1. OptsTyped(opts) /\ DOMAIN opts = DOMAIN Defaults
    BY DEF CommandInv, OptsTyped, Defaults, Fields
  <2>2. Range(opts["file-type"]) \subseteq EntryType \cup {"Empty"}
    BY <2>1, RangeTyped DEF OptsTyped
  <2>3. \A f \in {"threads", "max-depth", "min-depth", "max-scan-rate", "max-results"} :
           opts[f] \in Nat \cup {None}
    <3>1. UsizeMax \in Nat
      BY WidthAssumption DEF UsizeMax
    <3> QED
      BY <2>1, <3>1 DEF OptsTyped, NumberField
  <2>4. \A f \in Switch : opts[f] \in BOOLEAN
    BY <2>1 DEF OptsTyped
  <2> QED
    BY <2>1, <2>2, <2>3, <2>4, PredicatesTyped DEF CommandInv, Cursor, TypeOK
<1> QED
  BY <1>1, CommandInvariant, PTL

\* Off Unix no predicate of a walk reads the zeros that the fallback's meta_of puts
\* for mode, owner, link count and inode, and none calls its access stubs.
THEOREM PlaceholdersCorrect == Spec => []PlaceholdersUnread
<1>1. CommandInv => PlaceholdersUnread
  <2> SUFFICES ASSUME CommandInv, platform = "other" PROVE
        /\ Mask(PredicatesOf(opts)) \subseteq {"size"} \cup TimeField
        /\ opts["access"] = <<>>
    BY DEF PlaceholdersUnread
  <2>1. /\ \A f \in {"perm", "uid", "gid", "links", "inum"} : opts[f] = None
        /\ opts["nouser"] = FALSE /\ opts["nogroup"] = FALSE /\ opts["access"] = <<>>
    <3>1. \A f \in UnixField : opts[f] = Defaults[f]
      BY DEF CommandInv
    <3>2. /\ \A f \in {"perm", "uid", "gid", "links", "inum"} : Defaults[f] = None
          /\ Defaults["nouser"] = FALSE /\ Defaults["nogroup"] = FALSE
          /\ Defaults["access"] = <<>>
      BY DEF Defaults, Collected, Switch, Single
    <3> QED
      BY <3>1, <3>2 DEF UnixField
  <2>2. /\ \A t \in PredicatesOf(opts).times : t.field \in TimeField
        /\ \A t \in PredicatesOf(opts).newer : t.field \in TimeField
    <3>1. PredicatesOf(opts).times \subseteq TimePred /\ PredicatesOf(opts).newer \subseteq NewerPred
      BY PredicatesTyped DEF Predicates
    <3> QED
      BY <3>1 DEF TimePred, NewerPred
  <2>3. /\ PredicatesOf(opts).perm = None /\ PredicatesOf(opts).uid = None
        /\ PredicatesOf(opts).gid = None /\ PredicatesOf(opts).links = None
        /\ PredicatesOf(opts).inum = None
        /\ PredicatesOf(opts).nouser = FALSE /\ PredicatesOf(opts).nogroup = FALSE
    BY <2>1 DEF PredicatesOf
  <2> QED
    BY <2>1, <2>2, <2>3 DEF Mask
<1> QED
  BY <1>1, CommandInvariant, PTL

\* One step of unique().
UniqueStep(acc, x) == IF x \in Range(acc) THEN acc ELSE Append(acc, x)

\* unique() goes through the roots from left to right.
LEMMA UniqueRuns ==
    ASSUME NEW S, NEW s \in Seq(S)
    PROVE  \E u \in [0 .. Len(s) -> Seq(S)] :
               /\ u[0] = <<>> /\ Unique(s) = u[Len(s)]
               /\ \A n \in 1 .. Len(s) : u[n] = UniqueStep(u[n - 1], s[n])
<1> DEFINE N == Len(s)
           V == Seq(S)
           P(g) == g = [t \in SUBSET (1 .. N) |->
                          IF t = {} THEN <<>> ELSE UniqueStep(g[t \ {Max(t)}], s[Max(t)])]
           it == CHOOSE g : P(g)
           D == [n \in Nat |-> [v \in V |-> IF n \in 1 .. N THEN UniqueStep(v, s[n]) ELSE v]]
<1>0. N \in Nat /\ DOMAIN s = 1 .. N /\ \A n \in 1 .. N : s[n] \in S
  OBVIOUS
<1>1. \A v \in V : \A x \in S : UniqueStep(v, x) \in V
  BY DEF UniqueStep
<1>2. StepOn(D, V)
  <2> HIDE DEF V
  <2> QED
    BY <1>0, <1>1 DEF StepOn
<1>3. PICK h \in [SUBSET (1 .. N) -> V] : Folds(h, D, <<>>, N)
  <2>1. <<>> \in V
    OBVIOUS
  <2> HIDE DEF D, V, N
  <2> QED
    BY <1>0, <1>2, <2>1, Folding
<1>4. P(h)
  <2>1. ASSUME NEW t \in SUBSET (1 .. N), t # {}
        PROVE  h[t] = UniqueStep(h[t \ {Max(t)}], s[Max(t)])
    <3>1. Max(t) \in 1 .. N
      <4> HIDE DEF N
      <4> QED
        BY <1>0, <2>1, MaxIn
    <3> DEFINE m == Max(t)
               v == h[t \ {m}]
    <3>2. v \in V
      BY <1>3, <2>1
    <3>3. D[m] = [w \in V |-> IF m \in 1 .. N THEN UniqueStep(w, s[m]) ELSE w]
      BY <1>0, <3>1
    <3>4. h[t] = D[m][v]
      <4> HIDE DEF D, V, N
      <4> QED
        BY <1>3, <2>1 DEF Folds
    <3> HIDE DEF v, m, D, V
    <3>5. h[t] = UniqueStep(v, s[m])
      BY <3>1, <3>2, <3>3, <3>4 DEF m
    <3> QED
      BY <3>5 DEF v, m
  <2>2. h[{}] = <<>>
    BY <1>3 DEF Folds
  <2> HIDE DEF V, N, D
  <2> QED
    BY <1>3, <2>1, <2>2
<1>5. P(it)
  <2> HIDE DEF P
  <2> QED
    BY <1>4, Zenon
<1>6. Unique(s) = it[1 .. N]
  BY <1>0 DEF Unique, FoldLeft, MapThenFoldSet, UniqueStep
<1> DEFINE u == [n \in 0 .. N |-> it[1 .. n]]
<1> HIDE DEF it
<1>7. \A n \in 1 .. N : u[n] = UniqueStep(u[n - 1], s[n])
  <2> TAKE n \in 1 .. N
  <2>1. /\ 1 .. n \in SUBSET (1 .. N) /\ 1 .. n # {}
        /\ Max(1 .. n) = n /\ (1 .. n) \ {n} = 1 .. n - 1
    <3> HIDE DEF N
    <3> QED
      BY <1>0, PrefixPlaces
  <2>2. n \in 0 .. N /\ n - 1 \in 0 .. N
    BY <1>0
  <2>3. it[1 .. n] = UniqueStep(it[1 .. n - 1], s[n])
    BY <1>5, <2>1
  <2> QED
    BY <2>2, <2>3
<1>8. u[0] = <<>>
  <2>1. 1 .. 0 = {} /\ it[{}] = <<>>
    BY <1>5
  <2> QED
    BY <1>0, <2>1
<1>9. \A n \in 0 .. N : u[n] \in V
  <2> DEFINE G == {n \in 0 .. N : u[n] \in V}
  <2>1. 0 \in G
    <3>1. 0 \in 0 .. N /\ <<>> \in V
      BY <1>0
    <3> HIDE DEF u, V
    <3> QED
      BY <1>8, <3>1
  <2>2. \A n \in 0 .. N - 1 : n \in G => n + 1 \in G
    <3> SUFFICES ASSUME NEW n \in 0 .. N - 1, u[n] \in V PROVE n + 1 \in G
      OBVIOUS
    <3>1. n + 1 \in 1 .. N /\ (n + 1) - 1 = n
      BY <1>0
    <3> HIDE DEF u, V
    <3>2. u[n + 1] \in V
      BY <1>0, <1>1, <1>7, <3>1
    <3> QED
      BY <3>1, <3>2
  <2> HIDE DEF G, N
  <2>3. 0 .. N \subseteq G
    BY <1>0, <2>1, <2>2, BoundedInduction
  <2> QED
    BY <2>3 DEF G
<1>10. u \in [0 .. N -> V] /\ u[N] = it[1 .. N]
  BY <1>0, <1>9
<1> QED
  BY <1>6, <1>7, <1>8, <1>10

\* What unique() leaves: the same roots, each once.
THEOREM Deduplicates ==
    ASSUME NEW S, NEW s \in Seq(S)
    PROVE  IsInjective(Unique(s)) /\ Range(Unique(s)) = Range(s)
<1> DEFINE N == Len(s)
<1>0. N \in Nat /\ DOMAIN s = 1 .. N
  OBVIOUS
<1>1. PICK u \in [0 .. N -> Seq(S)] :
          /\ u[0] = <<>> /\ Unique(s) = u[N]
          /\ \A n \in 1 .. N : u[n] = UniqueStep(u[n - 1], s[n])
  BY UniqueRuns
<1> DEFINE G == {n \in 0 .. N : IsInjective(u[n]) /\ Range(u[n]) = {s[m] : m \in 1 .. n}}
<1>2. 0 \in G
  <2>1. IsInjective(<<>>) /\ Range(<<>>) = {}
    BY DEF IsInjective, Range
  <2>2. {s[m] : m \in 1 .. 0} = {}
    OBVIOUS
  <2> QED
    BY <1>0, <1>1, <2>1, <2>2
<1>3. ASSUME NEW n \in 0 .. N - 1, n \in G PROVE n + 1 \in G
  <2> DEFINE x == s[n + 1]
             q == u[n]
  <2>1. n + 1 \in 1 .. N /\ n \in 0 .. N /\ (n + 1) - 1 = n
    BY <1>0
  <2>2. u[n + 1] = UniqueStep(q, x) /\ q \in Seq(S)
    BY <1>1, <2>1
  <2>3. {s[m] : m \in 1 .. n + 1} = {s[m] : m \in 1 .. n} \cup {x}
    <3>1. 1 .. n + 1 = (1 .. n) \cup {n + 1}
      BY <2>1
    <3> QED
      BY <3>1
  <2>4. IsInjective(q) /\ Range(q) = {s[m] : m \in 1 .. n}
    BY <1>3
  <2>5. x \in S
    BY <1>0, <2>1
  <2> HIDE DEF x, q
  <2>6. IsInjective(UniqueStep(q, x)) /\ Range(UniqueStep(q, x)) = Range(q) \cup {x}
    <3>1. CASE x \in Range(q)
      BY <2>4, <3>1 DEF UniqueStep
    <3>2. CASE x \notin Range(q)
      <4>1. UniqueStep(q, x) = Append(q, x)
        BY <3>2 DEF UniqueStep
      <4>2. /\ DOMAIN q = 1 .. Len(q) /\ Len(q) \in Nat
            /\ DOMAIN Append(q, x) = 1 .. Len(q) + 1
            /\ Append(q, x)[Len(q) + 1] = x
            /\ \A m \in 1 .. Len(q) : Append(q, x)[m] = q[m]
        BY <2>2, <2>5
      <4>3. 1 .. Len(q) + 1 = (1 .. Len(q)) \cup {Len(q) + 1}
        BY <4>2
      <4>4. \A m \in 1 .. Len(q) : q[m] # x
        BY <3>2, <4>2 DEF Range
      <4>5. IsInjective(Append(q, x))
        BY <2>4, <4>2, <4>3, <4>4 DEF IsInjective
      <4>6. Range(Append(q, x)) = Range(q) \cup {x}
        BY <4>2, <4>3 DEF Range
      <4> QED
        BY <4>1, <4>5, <4>6
    <3> QED
      BY <3>1, <3>2
  <2>7. IsInjective(u[n + 1]) /\ Range(u[n + 1]) = {s[m] : m \in 1 .. n + 1}
    BY <2>2, <2>3, <2>4, <2>6
  <2>8. n + 1 \in 0 .. N
    BY <2>1
  <2> HIDE DEF N
  <2> QED
    BY <2>7, <2>8
<1>4. N \in G
  <2> HIDE DEF G, N
  <2>1. 0 .. N \subseteq G
    BY <1>0, <1>2, <1>3, BoundedInduction
  <2> QED
    BY <1>0, <2>1
<1>5. Range(s) = {s[m] : m \in 1 .. N}
  BY <1>0 DEF Range
<1> QED
  BY <1>1, <1>4, <1>5

\* A walk that starts has what it assumes: threads, distinct existing roots, one kind
\* of matcher, patterns that compile, some type selected, and all handlers installed.
THEOREM RunnableCorrect == Spec => []Runnable
<1>1. CommandInv => Runnable
  <2> SUFFICES ASSUME CommandInv, pc = "walk" PROVE Runnable
    BY DEF Runnable
  <2>1. /\ opts["threads"] \in 1 .. UsizeMax /\ handlers = StopSignals
        /\ opts["paths"] # <<>> /\ opts["file-type"] # <<>>
        /\ (opts["name"] = <<>> \/ opts["regex"] = <<>>)
        /\ AllCompile /\ roots = Unique(opts["paths"])
        /\ \A s \in Range(sets) : s.of \in Range(SetOrder) /\ s.patterns = opts[s.of]
    BY DEF CommandInv, Prepared, Conflict
  <2>2. OptsTyped(opts)
    BY DEF CommandInv
  <2>3. roots # <<>> /\ IsInjective(roots) /\ Range(roots) \subseteq Range(DirOf)
    <3>1. opts["paths"] \in Seq(Range(DirOf))
      BY <2>2 DEF OptsTyped
    <3>2. IsInjective(roots) /\ Range(roots) = Range(opts["paths"])
      BY <2>1, <3>1, Deduplicates
    <3>3. Range(roots) # {} /\ Range(roots) \subseteq Range(DirOf)
      BY <2>1, <3>1, <3>2, RangeTyped
    <3>4. Range(<<>>) = {}
      BY DEF Range
    <3> QED
      BY <3>2, <3>3, <3>4
  <2>4. \A s \in Range(sets) :
            Range(s.patterns) \cap (IF s.of = "regex" THEN BadRegexes ELSE BadGlobs) = {}
    BY <2>1 DEF AllCompile, Compiles
  <2>5. Selected(Range(opts["file-type"])) # {}
    <3>1. /\ Range(opts["file-type"]) # {}
          /\ Range(opts["file-type"]) \subseteq EntryType \cup {"Empty"}
      BY <2>1, <2>2, RangeTyped DEF OptsTyped
    <3> QED
      BY <3>1 DEF Selected
  <2> QED
    BY <2>1, <2>3, <2>4, <2>5 DEF Runnable
<1> QED
  BY <1>1, CommandInvariant, PTL

-----------------------------------------------------------------------------
(* The command line read from left to right                                *)

\* The shape of an item after the rewriting.
LEMMA ItemShape ==
    ASSUME NEW a \in Argvs, NEW j \in 1 .. Len(a)
    PROVE  LET x == Normalized(a[j]) IN
           /\ x.form \in {"long", "short", "--", "word"}
           /\ Len(x.names) \in Nat /\ DOMAIN x.names = 1 .. Len(x.names)
           /\ x.form \in {"long", "short"} => Len(x.names) > 0
           /\ x.form = "long" => Len(x.names) = 1
<1> DEFINE y == a[j]
           x == Normalized(y)
<1>1. /\ y \in Item
      /\ (y.form \in {"find", "long"} => Len(y.names) = 1)
  <2>1. a \in Seq(Item) /\ DOMAIN a = 1 .. Len(a)
    BY CommandLineAssumption
  <2> QED
    BY <2>1, CommandLineAssumption
<1>2. x.form \in {"long", "short"} => Len(x.names) > 0
  BY ItemTyped
<1> HIDE DEF y
<1>3. y.names \in Seq(STRING) /\ y.form \in {"find", "long", "short", "--", "word"}
  BY <1>1 DEF Item
<1>4. Len(y.names) \in Nat /\ DOMAIN y.names = 1 .. Len(y.names)
  BY <1>3
<1>5. CASE y.form = "find"
  <2>1. x.form = "long" /\ x.names = <<FindName(y.names[1])>>
    BY <1>1, <1>5 DEF Normalized, Item
  <2> HIDE DEF x
  <2>2. Len(x.names) = 1 /\ DOMAIN x.names = 1 .. 1
    BY <2>1
  <2> QED
    BY <1>2, <2>1, <2>2 DEF x, y
<1>6. CASE y.form # "find"
  <2>1. x = y
    BY <1>6 DEF Normalized
  <2>2. y.form = "long" => Len(y.names) = 1
    BY <1>1, Zenon
  <2>3. y.form \in {"long", "short", "--", "word"}
    BY <1>3, <1>6
  <2>4. y.form \in {"long", "short"} => Len(y.names) > 0
    BY <1>2, <2>1
  <2> HIDE DEF x
  <2> QED
    BY <1>4, <2>1, <2>2, <2>3, <2>4 DEF x, y
<1> QED
  BY <1>5, <1>6

\* The line has the items of argv.
LEMMA LineIs ==
    ASSUME argv \in Argvs
    PROVE  /\ Len(argv) \in Nat /\ DOMAIN argv = 1 .. Len(argv)
           /\ DOMAIN Line = 1 .. Len(argv) /\ Len(Line) = Len(argv)
           /\ \A j \in 1 .. Len(argv) : Line[j] = Normalized(argv[j])
<1>1. argv \in Seq(Item)
  BY CommandLineAssumption
<1>2. Len(argv) \in Nat /\ DOMAIN argv = 1 .. Len(argv)
  BY <1>1
<1>3. Line = [j \in 1 .. Len(argv) |-> Normalized(argv[j])]
  BY <1>2 DEF Line
<1>4. Len(Line) = Len(argv)
  BY <1>2, <1>3
<1> QED
  BY <1>2, <1>3, <1>4

\* What item j is, after one that is `before`.
RoleAfter(before, j) ==
    CASE before \in {"--", "rest"} -> "rest"
      [] before = "option" /\ WantsNext(Line[j - 1]) -> "value"
      [] OTHER -> IF Line[j].form \in {"long", "short"} THEN "option" ELSE Line[j].form

\* Role computes along the line.
LEMMA RoleIs ==
    ASSUME argv \in Argvs, NEW j \in 1 .. Len(argv)
    PROVE  Role[j] = RoleAfter(IF j > 1 THEN Role[j - 1] ELSE "word", j)
<1> DEFINE N == Len(argv)
           V == {"option", "value", "rest", "--", "word", "long", "short"}
           P(r) == r = [n \in 1 .. N |-> RoleAfter(IF n > 1 THEN r[n - 1] ELSE "word", n)]
           R == CHOOSE r : P(r)
           D == [n \in Nat |-> [v \in V |-> IF n \in 1 .. N THEN RoleAfter(v, n) ELSE v]]
<1>0. N \in Nat /\ DOMAIN argv = 1 .. N
  BY LineIs
<1>1. \A v \in V : \A n \in 1 .. N : RoleAfter(v, n) \in V
  <2> TAKE v \in V
  <2> TAKE n \in 1 .. N
  <2>1. Line[n].form \in {"long", "short", "--", "word"}
    BY LineIs, ItemShape
  <2> QED
    BY <2>1 DEF RoleAfter
<1>2. StepOn(D, V)
  <2> HIDE DEF V
  <2> QED
    BY <1>0, <1>1 DEF StepOn
<1>3. CASE N = 0
  BY <1>0, <1>3
<1>4. CASE N # 0
  <2> DEFINE b == RoleAfter("word", 1)
  <2>1. b \in V
    <3>1. 1 \in 1 .. N /\ "word" \in V
      BY <1>0, <1>4
    <3> HIDE DEF V, N
    <3> QED
      BY <1>1, <3>1
  <2>2. PICK h \in [1 .. N -> V] : Runs(h, D, b, N)
    <3> HIDE DEF D, V, N, b
    <3> QED
      BY <1>0, <1>2, <2>1, Recursive
  <2>3. P(h)
    <3>1. ASSUME NEW n \in 1 .. N
          PROVE  h[n] = RoleAfter(IF n > 1 THEN h[n - 1] ELSE "word", n)
      <4>1. CASE n = 1
        <5>1. h[1] = b
          <6> HIDE DEF D, V, b
          <6> QED
            BY <2>2, <4>1 DEF Runs
        <5> HIDE DEF D, V
        <5> QED
          BY <4>1, <5>1
      <4>2. CASE n # 1
        <5>1. n - 1 \in 1 .. N /\ n > 1 /\ n \in Nat
          BY <1>0, <4>2
        <5>2. h[n - 1] \in V /\ h[n] = D[n][h[n - 1]]
          <6> HIDE DEF D, V, b
          <6> QED
            BY <2>2, <4>2, <5>1 DEF Runs
        <5>3. D[n] = [v \in V |-> IF n \in 1 .. N THEN RoleAfter(v, n) ELSE v]
          BY <5>1
        <5> HIDE DEF D, V
        <5> QED
          BY <5>1, <5>2, <5>3
      <4> QED
        BY <4>1, <4>2
    <3> HIDE DEF D, V, b
    <3> QED
      BY <2>2, <3>1
  <2>4. P(R)
    <3> HIDE DEF P
    <3> QED
      BY <2>3, Zenon
  <2>5. Role = R
    BY <1>0 DEF Role, RoleAfter
  <2> HIDE DEF R
  <2> QED
    BY <2>4, <2>5
<1> QED
  BY <1>3, <1>4

-----------------------------------------------------------------------------
(* The requests of an item                                                 *)

IsOption(x) == x.form \in {"long", "short"}

\* The last letter that is read is the first that takes a value, or the very last.
LEMMA LastReadIs ==
    ASSUME argv \in Argvs, NEW j \in 1 .. Len(argv), IsOption(Line[j])
    PROVE  LET x == Line[j]
               last == LastRead(x)
           IN  /\ last \in 1 .. Len(x.names) /\ Len(x.names) \in Nat
               /\ \A m \in 1 .. Len(x.names) : Spelled(x)[m] \in Valued => last <= m
               /\ Spelled(x)[last] \notin Valued => last = Len(x.names)
<1> DEFINE x == Line[j]
           S == {m \in DOMAIN x.names : Spelled(x)[m] \in Valued} \cup {Len(x.names)}
<1>1. Len(x.names) \in Nat /\ DOMAIN x.names = 1 .. Len(x.names) /\ Len(x.names) > 0
  BY LineIs, ItemShape DEF IsOption
<1> HIDE DEF x
<1>2. S \subseteq 1 .. Len(x.names) /\ S # {} /\ S \in SUBSET Nat
  BY <1>1
<1>3. LastRead(x) = Min(S)
  BY DEF LastRead
<1>4. Min(S) \in S /\ \A y \in S : Min(S) <= y
  <2> HIDE DEF S
  <2> QED
    BY <1>2, MinIn
<1>5. \A m \in 1 .. Len(x.names) : Spelled(x)[m] \in Valued => m \in S
  BY <1>1
<1>6. Spelled(x)[Min(S)] \notin Valued => Min(S) = Len(x.names)
  BY <1>4
<1> HIDE DEF S
<1> QED
  BY <1>1, <1>2, <1>3, <1>4, <1>5, <1>6 DEF x

\* The value that comes with letter m of item j.
ValueAt(j, m) ==
    LET x == Line[j] IN
    IF m # LastRead(x) THEN <<>>
    ELSE IF x.tails[m] # None THEN <<x.tails[m]>>
    ELSE IF WantsNext(x) THEN (IF j < Len(argv) THEN <<Line[j + 1].word>> ELSE <<>>) ELSE <<>>

\* The requests of an item, by its role.
LEMMA RequestsIs ==
    ASSUME argv \in Argvs, NEW j \in 1 .. Len(argv)
    PROVE  /\ Role[j] \in {"word", "rest"} => Requests(j) = <<PathGiven(Line[j].word)>>
           /\ Role[j] = "option" =>
                 Requests(j) = [m \in 1 .. LastRead(Line[j]) |->
                                  OptionGiven(Spelled(Line[j])[m], ValueAt(j, m))]
           /\ Role[j] \notin {"word", "rest", "option"} => Requests(j) = <<>>
<1>1. Len(Line) = Len(argv)
  BY LineIs
<1>2. CASE Role[j] \in {"word", "rest"}
  BY <1>2 DEF Requests
<1>3. CASE Role[j] = "option"
  BY <1>1, <1>3 DEF Requests, ValueAt
<1>4. CASE Role[j] \notin {"word", "rest", "option"}
  BY <1>4 DEF Requests
<1> QED
  BY <1>2, <1>3, <1>4

\* An item that is read as an option is one.
LEMMA OptionRole ==
    ASSUME argv \in Argvs, NEW j \in 1 .. Len(argv), Role[j] = "option"
    PROVE  IsOption(Line[j])
<1>1. Role[j] = RoleAfter(IF j > 1 THEN Role[j - 1] ELSE "word", j)
  BY RoleIs
<1>2. Line[j].form \in {"long", "short", "--", "word"}
  BY LineIs, ItemShape
<1> DEFINE before == IF j > 1 THEN Role[j - 1] ELSE "word"
<1> HIDE DEF before
<1>3. RoleAfter(before, j) = "option" => IsOption(Line[j])
  BY <1>2 DEF RoleAfter, IsOption
<1> QED
  BY <1>1, <1>3 DEF before

\* All that is asked for.
Asked == UNION {Range(Requests(j)) : j \in 1 .. Len(argv)}

\* The requests of an item are a sequence.
LEMMA RequestsTyped ==
    ASSUME argv \in Argvs, NEW j \in 1 .. Len(argv)
    PROVE  Requests(j) \in Seq(Asked)
<1>0. Range(Requests(j)) \subseteq Asked
  BY DEF Asked
<1>1. CASE Role[j] = "option"
  <2> DEFINE n == LastRead(Line[j])
             e(m) == OptionGiven(Spelled(Line[j])[m], ValueAt(j, m))
  <2>1. n \in Nat
    BY <1>1, OptionRole, LastReadIs
  <2>2. Requests(j) = [m \in 1 .. n |-> e(m)]
    BY <1>1, RequestsIs
  <2> HIDE DEF n, e
  <2>3. \A m \in 1 .. n : e(m) \in Asked
    BY <1>0, <2>2 DEF Range
  <2> QED
    BY <2>1, <2>2, <2>3
<1>2. CASE Role[j] \in {"word", "rest"}
  <2>1. Requests(j) = <<PathGiven(Line[j].word)>>
    BY <1>2, RequestsIs
  <2>2. PathGiven(Line[j].word) \in Range(Requests(j))
    BY <2>1 DEF Range
  <2> QED
    BY <1>0, <2>1, <2>2
<1>3. CASE Role[j] \notin {"word", "rest", "option"}
  <2>1. Requests(j) = <<>>
    BY <1>3, RequestsIs, Zenon
  <2> QED
    BY <2>1
<1> QED
  BY <1>1, <1>2, <1>3

Pieces == [j \in 1 .. Len(argv) |-> Requests(j)]

UptoOf(ss, S) == CHOOSE F : Collects(F, ss, S)

\* what the first j items ask for
Upto == UptoOf(Pieces, Asked)

\* Given is what all items ask for.
LEMMA UptoIs ==
    ASSUME argv \in Argvs
    PROVE  /\ Len(argv) \in Nat /\ Upto \in [0 .. Len(argv) -> Seq(Asked)]
           /\ Upto[0] = <<>> /\ Given = Upto[Len(argv)]
           /\ \A n \in 1 .. Len(argv) : /\ Requests(n) \in Seq(Asked)
                                        /\ Upto[n] = Upto[n - 1] \o Requests(n)
           /\ Pieces \in Seq(Seq(Asked)) /\ Len(Pieces) = Len(argv)
           /\ Collects(Upto, Pieces, Asked) /\ Given = FlattenSeq(Pieces)
<1>1. /\ Pieces \in Seq(Seq(Asked)) /\ Len(Pieces) = Len(argv) /\ Len(argv) \in Nat
      /\ \A n \in 1 .. Len(argv) : Pieces[n] = Requests(n) /\ Requests(n) \in Seq(Asked)
  <2>1. Len(argv) \in Nat /\ \A n \in 1 .. Len(argv) : Requests(n) \in Seq(Asked)
    BY LineIs, RequestsTyped
  <2> QED
    BY <2>1 DEF Pieces
<1>2. Given = FlattenSeq(Pieces)
  BY LineIs DEF Given, Pieces
<1>3. \E F : Collects(F, Pieces, Asked)
  BY <1>1, Flattening
<1>4. Collects(Upto, Pieces, Asked)
  BY <1>3, Zenon DEF Upto, UptoOf
<1> QED
  BY <1>1, <1>2, <1>4 DEF Collects

-----------------------------------------------------------------------------
(* What has been read                                                      *)

\* p and the first l elements of q
Onto(p, q, l) == [m \in 1 .. Len(p) + l |-> IF m <= Len(p) THEN p[m] ELSE q[m - Len(p)]]

\* Nothing of q yet.
LEMMA OntoNone ==
    ASSUME NEW S, NEW p \in Seq(S), NEW q
    PROVE  Onto(p, q, 0) = p
<1>1. Len(p) \in Nat /\ p = [m \in 1 .. Len(p) |-> p[m]]
  OBVIOUS
<1>2. Onto(p, q, 0) = [m \in 1 .. Len(p) |-> p[m]]
  BY <1>1 DEF Onto
<1> QED
  BY <1>1, <1>2

\* One more element of q, up to all of it.
LEMMA OntoMore ==
    ASSUME NEW S, NEW p \in Seq(S), NEW q \in Seq(S), NEW l \in 0 .. Len(q) - 1
    PROVE  /\ Onto(p, q, l) \in Seq(S) /\ Len(Onto(p, q, l)) = Len(p) + l
           /\ Onto(p, q, l + 1) = Append(Onto(p, q, l), q[l + 1])
           /\ l + 1 = Len(q) => p \o q = Append(Onto(p, q, l), q[l + 1])
<1>1. Len(p) \in Nat /\ Len(q) \in Nat /\ Len(p) + l \in Nat
  OBVIOUS
<1>2. \A m \in 1 .. Len(p) + l : (IF m <= Len(p) THEN p[m] ELSE q[m - Len(p)]) \in S
  BY <1>1
<1>3. Onto(p, q, l) \in Seq(S) /\ Len(Onto(p, q, l)) = Len(p) + l
  BY <1>1, <1>2 DEF Onto
<1> DEFINE r == Append(Onto(p, q, l), q[l + 1])
<1>4. /\ r \in Seq(S) /\ Len(r) = (Len(p) + l) + 1
      /\ \A m \in 1 .. Len(p) + l : r[m] = Onto(p, q, l)[m]
      /\ r[(Len(p) + l) + 1] = q[l + 1]
  BY <1>1, <1>3
<1>5. \A m \in 1 .. Len(p) + l : Onto(p, q, l)[m] = IF m <= Len(p) THEN p[m] ELSE q[m - Len(p)]
  BY <1>1 DEF Onto
<1> HIDE DEF r
<1>6. /\ r = [m \in 1 .. (Len(p) + l) + 1 |-> r[m]]
      /\ \A m \in 1 .. (Len(p) + l) + 1 : r[m] = IF m <= Len(p) THEN p[m] ELSE q[m - Len(p)]
  <2>1. DOMAIN r = 1 .. (Len(p) + l) + 1 /\ r = [m \in DOMAIN r |-> r[m]]
    BY <1>4
  <2>2. ASSUME NEW m \in 1 .. (Len(p) + l) + 1
        PROVE  r[m] = IF m <= Len(p) THEN p[m] ELSE q[m - Len(p)]
    <3>1. CASE m \in 1 .. Len(p) + l
      BY <1>4, <1>5, <3>1
    <3>2. CASE m = (Len(p) + l) + 1
      <4>1. m - Len(p) = l + 1 /\ ~(m <= Len(p))
        BY <1>1, <3>2
      <4> QED
        BY <1>4, <3>2, <4>1
    <3> QED
      BY <1>1, <3>1, <3>2
  <2> QED
    BY <2>1, <2>2
<1>7. Onto(p, q, l + 1) = r
  <2>1. Len(p) + (l + 1) = (Len(p) + l) + 1
    BY <1>1
  <2> QED
    BY <1>6, <2>1 DEF Onto
<1>8. ASSUME l + 1 = Len(q) PROVE p \o q = r
  <2>1. /\ p \o q \in Seq(S) /\ Len(p \o q) = Len(p) + Len(q)
        /\ \A m \in 1 .. Len(p) + Len(q) :
              (p \o q)[m] = IF m <= Len(p) THEN p[m] ELSE q[m - Len(p)]
    OBVIOUS
  <2>2. Len(p) + Len(q) = (Len(p) + l) + 1
    BY <1>1, <1>8
  <2>3. Len(r) = Len(p \o q) /\ \A m \in 1 .. Len(r) : r[m] = (p \o q)[m]
    BY <1>4, <1>6, <2>1, <2>2
  <2> DEFINE t == p \o q
  <2>4. t \in Seq(S) /\ Len(r) = Len(t) /\ \A m \in 1 .. Len(r) : r[m] = t[m]
    BY <2>1, <2>3
  <2> HIDE DEF t
  <2>5. t = r
    BY <1>4, <2>4
  <2> QED
    BY <2>5 DEF t
<1> QED
  BY <1>3, <1>7, <1>8 DEF r

\* what the cursor at letter l of item j has gone past
ReadUpTo(j, l) == Onto(Upto[j - 1], Requests(j), l)

\* Between items the cursor has read what the items before it ask for.
LEMMA ReadWhole ==
    ASSUME argv \in Argvs, NEW j \in 1 .. Len(argv) + 1
    PROVE  ReadUpTo(j, 0) = Upto[j - 1] /\ Upto[j - 1] \in Seq(Asked)
<1>1. j - 1 \in 0 .. Len(argv) /\ Upto \in [0 .. Len(argv) -> Seq(Asked)]
  BY UptoIs
<1>2. Upto[j - 1] \in Seq(Asked)
  BY <1>1
<1> QED
  BY <1>2, OntoNone DEF ReadUpTo

\* Reading one request more.
LEMMA ReadOne ==
    ASSUME argv \in Argvs, NEW j \in 1 .. Len(argv), NEW l \in 0 .. Len(Requests(j)) - 1
    PROVE  LET p == ReadUpTo(j, l)
               g == Requests(j)[l + 1]
           IN  /\ p \in Seq(Asked) /\ g \in Asked
               /\ ReadUpTo(j, l + 1) = Append(p, g)
               /\ l + 1 = Len(Requests(j)) => ReadUpTo(j + 1, 0) = Append(p, g)
               /\ Begins(p, Given) /\ Given \in Seq(Asked)
               /\ Len(p) + 1 \in DOMAIN Given /\ Given[Len(p) + 1] = g
<1> DEFINE u == Upto[j - 1]
           q == Requests(j)
           p == ReadUpTo(j, l)
           g == q[l + 1]
<1>1. /\ u \in Seq(Asked) /\ q \in Seq(Asked) /\ Upto[j] = u \o q /\ Len(argv) \in Nat
      /\ Upto[j] \in Seq(Asked) /\ Given = Upto[Len(argv)] /\ Given \in Seq(Asked)
  <2>1. j - 1 \in 0 .. Len(argv) /\ j \in 0 .. Len(argv) /\ Len(argv) \in 0 .. Len(argv)
    BY UptoIs
  <2> QED
    BY <2>1, UptoIs
<1>2. ReadUpTo(j + 1, 0) = Upto[j]
  <2>1. j + 1 \in 1 .. Len(argv) + 1 /\ (j + 1) - 1 = j
    BY <1>1
  <2> QED
    BY <2>1, ReadWhole
<1>3. p = Onto(u, q, l) /\ ReadUpTo(j, l + 1) = Onto(u, q, l + 1)
  BY DEF ReadUpTo
<1> HIDE DEF u, q, p
<1>4. l \in 0 .. Len(q) - 1
  BY DEF q
<1>5. /\ p \in Seq(Asked) /\ Len(p) = Len(u) + l
      /\ ReadUpTo(j, l + 1) = Append(p, g)
      /\ l + 1 = Len(q) => u \o q = Append(p, g)
  BY <1>1, <1>3, <1>4, OntoMore
<1>6. g \in Asked /\ Len(q) \in Nat /\ Len(u) \in Nat
  BY <1>1, <1>4
<1>7. Begins(Upto[j], Given)
  <2>1. j \in 0 .. Len(argv)
    BY <1>1
  <2> QED
    BY <2>1, UptoIs, FlatPrefix
<1>8. /\ Len(u \o q) = Len(u) + Len(q)
      /\ \A m \in 1 .. Len(u) + l : (u \o q)[m] = p[m]
      /\ (u \o q)[(Len(u) + l) + 1] = g
  <2>1. \A m \in 1 .. Len(u) + Len(q) : (u \o q)[m] = IF m <= Len(u) THEN u[m] ELSE q[m - Len(u)]
    BY <1>1
  <2>2. \A m \in 1 .. Len(u) + l : p[m] = IF m <= Len(u) THEN u[m] ELSE q[m - Len(u)]
    BY <1>3, <1>6 DEF Onto
  <2>3. Len(u \o q) = Len(u) + Len(q)
    BY <1>1
  <2>4. \A m \in 1 .. Len(u) + l : m \in 1 .. Len(u) + Len(q)
    BY <1>4, <1>6
  <2>5. (Len(u) + l) + 1 \in 1 .. Len(u) + Len(q) /\ ~((Len(u) + l) + 1 <= Len(u))
        /\ ((Len(u) + l) + 1) - Len(u) = l + 1
    BY <1>4, <1>6
  <2>6. (u \o q)[(Len(u) + l) + 1] = q[l + 1]
    BY <2>1, <2>5
  <2> QED
    BY <2>1, <2>2, <2>3, <2>4, <2>6
<1> DEFINE t == u \o q
<1> HIDE DEF t, g
<1>9. /\ Len(t) = Len(u) + Len(q) /\ Begins(t, Given)
      /\ \A m \in 1 .. Len(u) + l : t[m] = p[m]
      /\ t[(Len(u) + l) + 1] = g
  BY <1>1, <1>7, <1>8 DEF t
<1>10. Len(Given) \in Nat /\ DOMAIN Given = 1 .. Len(Given)
  BY <1>1
<1>11. Begins(p, Given) /\ Len(p) + 1 \in DOMAIN Given /\ Given[Len(p) + 1] = g
  BY <1>4, <1>5, <1>6, <1>9, <1>10 DEF Begins
<1>12. l + 1 = Len(q) => ReadUpTo(j + 1, 0) = Append(p, g)
  BY <1>1, <1>2, <1>5
<1> QED
  BY <1>1, <1>5, <1>6, <1>11, <1>12 DEF p, q, g

\* An item that asks for nothing changes nothing.
LEMMA ReadNone ==
    ASSUME argv \in Argvs, NEW j \in 1 .. Len(argv), Requests(j) = <<>>
    PROVE  ReadUpTo(j + 1, 0) = ReadUpTo(j, 0)
<1>1. /\ j \in 1 .. Len(argv) + 1 /\ j + 1 \in 1 .. Len(argv) + 1 /\ (j + 1) - 1 = j
  BY UptoIs
<1>2. ReadUpTo(j + 1, 0) = Upto[j] /\ ReadUpTo(j, 0) = Upto[j - 1] /\ Upto[j - 1] \in Seq(Asked)
  BY <1>1, ReadWhole
<1>3. Upto[j] = Upto[j - 1] \o <<>>
  BY UptoIs
<1> DEFINE p == Upto[j - 1]
<1> HIDE DEF p
<1>4. p \in Seq(Asked) => p \o <<>> = p
  OBVIOUS
<1> QED
  BY <1>2, <1>3, <1>4 DEF p

\* The first and the last position.
LEMMA ReadEnds ==
    ASSUME argv \in Argvs
    PROVE  ReadUpTo(1, 0) = <<>> /\ ReadUpTo(Len(argv) + 1, 0) = Given /\ Given \in Seq(Asked)
<1>1. /\ 1 \in 1 .. Len(argv) + 1 /\ Len(argv) + 1 \in 1 .. Len(argv) + 1 /\ 1 - 1 = 0
      /\ (Len(argv) + 1) - 1 = Len(argv)
  BY UptoIs
<1> QED
  BY <1>1, ReadWhole, UptoIs

-----------------------------------------------------------------------------
(* What the locals hold                                                    *)

\* Field f of o is what the requests gs leave in it.
Kept(o, f, gs) ==
    IF f = "case-insensitive" THEN o[f] = AnyCase(gs)
    ELSE IF f \in Collected
    THEN o[f] \in Seq({ValueGiven(gs[m]) : m \in Mine(f, gs)}) /\ ListOf(o[f], f, gs)
    ELSE o[f] = IF Mine(f, gs) = {} THEN Defaults[f] ELSE LastOf(f, gs)

Writes(g, f) == g.name # "print" /\ Field(g.name) = f

\* The places of the requests for a field, with one request more.
LEMMA MineMore ==
    ASSUME NEW S, NEW gs \in Seq(S), NEW g \in S, NEW f
    PROVE  LET n == Len(gs) IN
           /\ n \in Nat /\ Mine(f, gs) \subseteq 1 .. n /\ IsFiniteSet(Mine(f, gs))
           /\ Mine(f, Append(gs, g)) = Mine(f, gs) \cup (IF Writes(g, f) THEN {n + 1} ELSE {})
           /\ \A m \in Mine(f, gs) : Append(gs, g)[m] = gs[m]
           /\ Append(gs, g)[n + 1] = g
<1> DEFINE n == Len(gs)
           hs == Append(gs, g)
<1>1. /\ n \in Nat /\ DOMAIN gs = 1 .. n /\ DOMAIN hs = 1 .. n + 1
      /\ \A m \in 1 .. n : hs[m] = gs[m]
      /\ hs[n + 1] = g
  OBVIOUS
<1> HIDE DEF n, hs
<1>2. 1 .. n + 1 = (1 .. n) \cup {n + 1}
  BY <1>1
<1>3. Mine(f, gs) \subseteq 1 .. n
  BY <1>1 DEF Mine
<1>4. Mine(f, hs) = Mine(f, gs) \cup (IF Writes(g, f) THEN {n + 1} ELSE {})
  BY <1>1, <1>2 DEF Mine, Writes
<1>5. IsFiniteSet(Mine(f, gs))
  <2>1. IsFiniteSet(1 .. n)
    BY <1>1, FS_Interval
  <2> QED
    BY <1>3, <2>1, FS_Subset
<1>6. \A m \in Mine(f, gs) : hs[m] = gs[m]
  BY <1>1, <1>3
<1> QED
  BY <1>1, <1>3, <1>4, <1>5, <1>6 DEF n, hs

\* A list that holds what was asked for does so after the next request.
LEMMA ListMore ==
    ASSUME NEW S, NEW gs \in Seq(S), NEW g \in S, NEW f, Writes(g, f), NEW list,
           list \in Seq({ValueGiven(gs[m]) : m \in Mine(f, gs)}), ListOf(list, f, gs)
    PROVE  LET hs == Append(gs, g)
               more == Append(list, ValueGiven(g))
           IN  more \in Seq({ValueGiven(hs[m]) : m \in Mine(f, hs)}) /\ ListOf(more, f, hs)
<1> DEFINE hs == Append(gs, g)
           n == Len(gs)
           A == Mine(f, gs)
           B == Mine(f, hs)
           v == ValueGiven(g)
           T == {ValueGiven(gs[m]) : m \in A}
           U == {ValueGiven(hs[m]) : m \in B}
           more == Append(list, v)
<1>1. /\ n \in Nat /\ A \subseteq 1 .. n /\ IsFiniteSet(A)
      /\ B = A \cup {n + 1} /\ hs[n + 1] = g /\ \A m \in A : hs[m] = gs[m]
  BY MineMore
<1>2. list \in Seq(T) /\ Len(list) = Cardinality(A)
      /\ \A m \in A : list[Cardinality({l \in A : l <= m})] = ValueGiven(gs[m])
  BY DEF ListOf
<1> HIDE DEF hs, n, A, B
<1>3. T \subseteq U /\ v \in U
  BY <1>1
<1>4. n + 1 \notin A /\ Cardinality(B) = Cardinality(A) + 1
  <2>1. n + 1 \notin A
    BY <1>1
  <2> QED
    BY <1>1, <2>1, FS_AddElement
<1> HIDE DEF T, U, v
<1>5. list \in Seq(U)
  BY <1>2, <1>3
<1>6. /\ more \in Seq(U) /\ Len(more) = Len(list) + 1 /\ Len(list) \in Nat
      /\ more[Len(list) + 1] = v
      /\ \A m \in 1 .. Len(list) : more[m] = list[m]
  BY <1>3, <1>5
<1>7. \A m \in B : more[Cardinality({l \in B : l <= m})] = ValueGiven(hs[m])
  <2> SUFFICES ASSUME NEW m \in B
               PROVE  more[Cardinality({l \in B : l <= m})] = ValueGiven(hs[m])
    OBVIOUS
  <2>1. CASE m = n + 1
    <3>1. {l \in B : l <= m} = B
      <4>1. \A l \in B : l <= m
        BY <1>1, <2>1
      <4> QED
        BY <4>1
    <3>2. Cardinality(B) = Len(list) + 1
      BY <1>2, <1>4
    <3> QED
      BY <1>1, <1>6, <2>1, <3>1, <3>2 DEF v
  <2>2. CASE m \in A
    <3> DEFINE C == {l \in A : l <= m}
    <3>1. {l \in B : l <= m} = C
      BY <1>1, <2>2
    <3>2. IsFiniteSet(C) /\ Cardinality(C) \in Nat /\ Cardinality(C) <= Cardinality(A)
      <4>1. C \subseteq A
        OBVIOUS
      <4> HIDE DEF C
      <4> QED
        BY <1>1, <4>1, FS_Subset, FS_CardinalityType
    <3>3. Cardinality(C) # 0
      <4>1. m \in C
        BY <1>1, <2>2
      <4> HIDE DEF C
      <4> QED
        BY <3>2, <4>1, FS_EmptySet
    <3>4. list[Cardinality(C)] = ValueGiven(gs[m])
      BY <1>2, <2>2
    <3> HIDE DEF C
    <3>5. Cardinality(C) \in 1 .. Len(list)
      BY <1>2, <1>6, <3>2, <3>3
    <3> QED
      BY <1>1, <1>6, <2>2, <3>1, <3>4, <3>5
  <2> QED
    BY <1>1, <2>1, <2>2
<1>8. Len(more) = Cardinality(B)
  BY <1>2, <1>4, <1>6
<1>9. ListOf(more, f, hs)
  BY <1>7, <1>8 DEF ListOf, B
<1> QED
  BY <1>6, <1>9 DEF U, B, hs, v

\* The last of the places for a field, after one more.
LEMMA LastMore ==
    ASSUME NEW S, NEW gs \in Seq(S), NEW g \in S, NEW f, Writes(g, f)
    PROVE  Mine(f, Append(gs, g)) # {} /\ LastOf(f, Append(gs, g)) = ValueGiven(g)
<1> DEFINE n == Len(gs)
           B == Mine(f, Append(gs, g))
<1>1. n \in Nat /\ B = Mine(f, gs) \cup {n + 1} /\ Mine(f, gs) \subseteq 1 .. n
      /\ Append(gs, g)[n + 1] = g
  BY MineMore
<1> HIDE DEF n, B
<1>2. n + 1 \in Nat /\ B \in SUBSET (1 .. n + 1) /\ n + 1 \in B
  BY <1>1
<1>3. Max(B) = n + 1
  BY <1>2, MaxIs
<1> QED
  BY <1>1, <1>2, <1>3 DEF LastOf, B

\* Requests for other fields do not matter.
LEMMA OtherField ==
    ASSUME NEW S, NEW gs \in Seq(S), NEW g \in S, NEW f, ~Writes(g, f), f # "case-insensitive",
           NEW o, NEW p, p[f] = o[f], Kept(o, f, gs)
    PROVE  Kept(p, f, Append(gs, g))
<1> DEFINE hs == Append(gs, g)
           A == Mine(f, gs)
<1>1. Mine(f, hs) = A /\ (\A m \in A : hs[m] = gs[m]) /\ A \subseteq 1 .. Len(gs) /\ Len(gs) \in Nat
  <2>1. /\ Len(gs) \in Nat /\ A \subseteq 1 .. Len(gs) /\ \A m \in A : hs[m] = gs[m]
        /\ Mine(f, hs) = A \cup (IF Writes(g, f) THEN {Len(gs) + 1} ELSE {})
    BY MineMore
  <2> HIDE DEF A, hs
  <2> QED
    BY <2>1
<1> HIDE DEF hs, A
<1>2. \A m \in A : ValueGiven(hs[m]) = ValueGiven(gs[m])
  BY <1>1
<1>3. {ValueGiven(hs[m]) : m \in A} = {ValueGiven(gs[m]) : m \in A}
  BY <1>2
<1>4. ListOf(o[f], f, gs) => ListOf(o[f], f, hs)
  BY <1>1, <1>2 DEF ListOf, A
<1>5. A # {} => LastOf(f, hs) = LastOf(f, gs)
  <2> SUFFICES ASSUME A # {} PROVE LastOf(f, hs) = LastOf(f, gs)
    OBVIOUS
  <2>1. Max(A) \in A
    BY <1>1, MaxIn
  <2> QED
    BY <1>1, <2>1 DEF LastOf, A
<1>6. CASE f \in Collected
  <2>1. o[f] \in Seq({ValueGiven(gs[m]) : m \in A}) /\ ListOf(o[f], f, gs)
    BY <1>6 DEF Kept, A
  <2>2. p[f] \in Seq({ValueGiven(hs[m]) : m \in Mine(f, hs)}) /\ ListOf(p[f], f, hs)
    BY <1>1, <1>3, <1>4, <2>1
  <2> QED
    BY <1>6, <2>2 DEF Kept, hs
<1>7. CASE f \notin Collected
  <2>1. o[f] = IF A = {} THEN Defaults[f] ELSE LastOf(f, gs)
    BY <1>7 DEF Kept, A
  <2>2. p[f] = IF Mine(f, hs) = {} THEN Defaults[f] ELSE LastOf(f, hs)
    BY <1>1, <1>5, <2>1
  <2> QED
    BY <1>7, <2>2 DEF Kept, hs
<1> QED
  BY <1>6, <1>7

Writer == Flag \cup Valued \cup {"paths"}

\* Every option but --print writes a field, only -i writes the flag by name.
LEMMA WriterField ==
    ASSUME NEW n \in Writer \ {"print"}
    PROVE  Field(n) \in Fields /\ (Field(n) = "case-insensitive" <=> n = "case-insensitive")
<1>1. CASE n = "paths"
  BY <1>1 DEF Field, Fields, Collected, Times, Newer, AccessFlag
<1>2. CASE n \in Flag \cup Valued
  <2>1. Field(n) \in Fields
    BY <1>2, FieldOf
  <2>2. Field(n) = "case-insensitive" <=> n = "case-insensitive"
    BY <1>2 DEF Field, Flag, Valued, Pattern, Times, Newer, AccessFlag
  <2> QED
    BY <2>1, <2>2
<1> QED
  BY <1>1, <1>2 DEF Writer

\* What an option's arm leaves in the locals.
Applied(p, o, n, v) ==
    LET c == "case-insensitive" IN
    /\ DOMAIN p = Fields
    /\ \A f \in Fields \ {Field(n), c} : p[f] = o[f]
    /\ Field(n) # c =>
          p[Field(n)] = IF Field(n) \in Collected THEN Append(o[Field(n)], v) ELSE v
    /\ p[c] = IF n = c THEN v ELSE IF n \in CaseFlag THEN TRUE ELSE o[c]

\* Apply writes the option's field and the case flag, nothing else.
LEMMA ApplyAt ==
    ASSUME NEW o, DOMAIN o = Fields, NEW n \in Writer \ {"print"}, NEW v
    PROVE  Applied(Apply(o, n, v), o, n, v)
<1> DEFINE c == "case-insensitive"
           F == Field(n)
           q == IF n \in CaseFlag THEN Store(o, c, TRUE) ELSE o
           p == Store(q, F, v)
<1>1. F \in Fields /\ (F = c <=> n = c) /\ c \in Fields /\ c \notin Collected
  BY WriterField DEF Fields, Switch, Collected
<1>2. Apply(o, n, v) = p
  BY DEF Apply
<1> HIDE DEF F, c
<1>3. /\ DOMAIN q = Fields /\ \A f \in Fields \ {c} : q[f] = o[f]
      /\ q[c] = IF n \in CaseFlag THEN TRUE ELSE o[c]
  BY <1>1 DEF Store
<1> HIDE DEF q
<1>4. /\ DOMAIN p = Fields /\ \A f \in Fields \ {F} : p[f] = q[f]
      /\ p[F] = IF F \in Collected THEN Append(q[F], v) ELSE v
  BY <1>1, <1>3 DEF Store
<1> HIDE DEF p
<1>5. \A f \in Fields \ {F, c} : p[f] = o[f]
  BY <1>3, <1>4
<1>6. F # c => p[F] = IF F \in Collected THEN Append(o[F], v) ELSE v
  BY <1>1, <1>3, <1>4
<1>7. p[c] = IF n = c THEN v ELSE IF n \in CaseFlag THEN TRUE ELSE o[c]
  BY <1>1, <1>3, <1>4
<1>8. DOMAIN p = Fields
  BY <1>4
<1> QED
  BY <1>2, <1>5, <1>6, <1>7, <1>8 DEF Applied, p, F, c

\* The elements of a sequence with one more.
LEMMA RangeMore ==
    ASSUME NEW S, NEW gs \in Seq(S), NEW g \in S
    PROVE  Range(Append(gs, g)) = Range(gs) \cup {g}
<1> DEFINE n == Len(gs)
           hs == Append(gs, g)
<1>1. /\ n \in Nat /\ DOMAIN gs = 1 .. n /\ DOMAIN hs = 1 .. n + 1
      /\ \A m \in 1 .. n : hs[m] = gs[m]
      /\ hs[n + 1] = g
  OBVIOUS
<1> HIDE DEF n, hs
<1>2. 1 .. n + 1 = (1 .. n) \cup {n + 1}
  BY <1>1
<1>3. Range(hs) = Range(gs) \cup {g}
  BY <1>1, <1>2 DEF Range
<1> QED
  BY <1>3 DEF hs

\* One case flag is enough.
LEMMA CaseMore ==
    ASSUME NEW S, NEW gs \in Seq(S), NEW g \in S
    PROVE  AnyCase(Append(gs, g)) = (AnyCase(gs) \/ g.name \in CaseFlag)
<1>1. Range(Append(gs, g)) = Range(gs) \cup {g}
  BY RangeMore
<1> QED
  BY <1>1 DEF AnyCase

\* The locals keep what was asked for when the next request is read.
LEMMA KeptMore ==
    ASSUME NEW S, NEW gs \in Seq(S), NEW g \in S, NEW o, DOMAIN o = Fields, g.name \in Writer,
           g.name = "case-insensitive" => ValueGiven(g) = TRUE,
           \A f \in Fields : Kept(o, f, gs)
    PROVE  \A f \in Fields : Kept(Apply(o, g.name, ValueGiven(g)), f, Append(gs, g))
<1> SUFFICES ASSUME NEW f \in Fields
             PROVE  Kept(Apply(o, g.name, ValueGiven(g)), f, Append(gs, g))
  OBVIOUS
<1> DEFINE n == g.name
           v == ValueGiven(g)
           p == Apply(o, n, v)
           c == "case-insensitive"
           hs == Append(gs, g)
<1>1. Kept(o, f, gs) /\ Kept(o, c, gs)
  BY DEF Fields, Switch
<1>2. CASE n = "print"
  <2>1. p = o
    BY <1>2 DEF Apply
  <2>2. ~Writes(g, f)
    BY <1>2 DEF Writes
  <2>3. CASE f = c
    <3>1. AnyCase(hs) = AnyCase(gs)
      <4>1. n \notin CaseFlag
        BY <1>2 DEF CaseFlag
      <4>2. AnyCase(hs) = (AnyCase(gs) \/ n \in CaseFlag)
        BY CaseMore, Zenon
      <4> HIDE DEF hs, n
      <4> QED
        BY <4>1, <4>2, Zenon DEF AnyCase
    <3>2. o[c] = AnyCase(gs)
      BY <1>1 DEF Kept
    <3> HIDE DEF hs, p
    <3>3. p[c] = AnyCase(hs)
      BY <2>1, <3>1, <3>2, Zenon
    <3> QED
      BY <2>3, <3>3, Zenon DEF Kept, p, hs
  <2>4. CASE f # c
    <3>1. p[f] = o[f]
      BY <2>1
    <3> HIDE DEF p
    <3> QED
      BY <1>1, <2>2, <2>4, <3>1, OtherField DEF p
  <2> QED
    BY <2>3, <2>4
<1>3. CASE n # "print"
  <2>0. Applied(p, o, n, v)
    <3>1. n \in Writer \ {"print"}
      BY <1>3
    <3> HIDE DEF n, v
    <3> QED
      BY <3>1, ApplyAt
  <2> HIDE DEF p, v
  <2>1. /\ \A h \in Fields \ {Field(n), c} : p[h] = o[h]
        /\ Field(n) # c => p[Field(n)] = IF Field(n) \in Collected THEN Append(o[Field(n)], v) ELSE v
        /\ p[c] = IF n = c THEN v ELSE IF n \in CaseFlag THEN TRUE ELSE o[c]
    BY <2>0 DEF Applied
  <2>2. CASE f = c
    <3>1. AnyCase(hs) = (AnyCase(gs) \/ n \in CaseFlag)
      BY CaseMore, Zenon
    <3>2. o[c] = AnyCase(gs)
      BY <1>1 DEF Kept
    <3> HIDE DEF hs
    <3>3. p[c] = AnyCase(hs)
      <4>1. CASE n \in CaseFlag
        <5>1. p[c] = TRUE
          BY <2>1, <4>1 DEF v
        <5>2. AnyCase(hs) = TRUE
          BY <3>1, <4>1, Zenon
        <5> QED
          BY <5>1, <5>2
      <4>2. CASE n \notin CaseFlag
        <5>1. p[c] = o[c]
          BY <2>1, <4>2 DEF CaseFlag
        <5>2. AnyCase(hs) = AnyCase(gs)
          BY <3>1, <4>2, Zenon DEF AnyCase
        <5> QED
          BY <3>2, <5>1, <5>2, Zenon
      <4> QED
        BY <4>1, <4>2
    <3> QED
      BY <2>2, <3>3, Zenon DEF Kept, p, hs, v
  <2>3. CASE f # c /\ f # Field(n)
    <3>1. p[f] = o[f] /\ ~Writes(g, f)
      BY <2>1, <2>3 DEF Writes
    <3>2. Kept(p, f, hs)
      BY <1>1, <2>3, <3>1, OtherField
    <3> QED
      BY <3>2 DEF p, v, hs
  <2>4. CASE f # c /\ f = Field(n)
    <3>1. Writes(g, f)
      BY <1>3, <2>4 DEF Writes
    <3>2. CASE f \in Collected
      <4>1. o[f] \in Seq({ValueGiven(gs[m]) : m \in Mine(f, gs)}) /\ ListOf(o[f], f, gs)
        BY <1>1, <2>4, <3>2 DEF Kept
      <4> DEFINE list == o[f]
                 more == Append(list, v)
      <4>2. more \in Seq({ValueGiven(hs[m]) : m \in Mine(f, hs)}) /\ ListOf(more, f, hs)
        <5> HIDE DEF list
        <5>1. list \in Seq({ValueGiven(gs[m]) : m \in Mine(f, gs)}) /\ ListOf(list, f, gs)
          BY <4>1 DEF list
        <5> QED
          BY <3>1, <5>1, ListMore DEF v
      <4>3. p[f] = more
        BY <2>1, <2>4, <3>2
      <4> HIDE DEF more, hs
      <4>4. p[f] \in Seq({ValueGiven(hs[m]) : m \in Mine(f, hs)}) /\ ListOf(p[f], f, hs)
        BY <4>2, <4>3
      <4> QED
        BY <2>4, <3>2, <4>4 DEF Kept, p, v, hs
    <3>3. CASE f \notin Collected
      <4>1. p[f] = v
        BY <2>1, <2>4, <3>3
      <4>2. Mine(f, hs) # {} /\ LastOf(f, hs) = v
        BY <3>1, LastMore DEF v
      <4> HIDE DEF hs
      <4> QED
        BY <2>4, <3>3, <4>1, <4>2 DEF Kept, p, v, hs
    <3> QED
      BY <3>2, <3>3
  <2> QED
    BY <2>2, <2>3, <2>4
<1> QED
  BY <1>2, <1>3

\* The defaults are what nothing asks for.
LEMMA KeptNone == \A f \in Fields : Kept(Defaults, f, <<>>)
<1> TAKE f \in Fields
<1>1. Mine(f, <<>>) = {} /\ ~AnyCase(<<>>)
  BY DEF Mine, AnyCase, Range
<1>2. Defaults[f] = IF f \in Collected THEN <<>>
                    ELSE IF f \in Switch THEN f = "one-filesystem" ELSE None
  BY DEF Defaults, Fields
<1>3. CASE f = "case-insensitive"
  <2>1. Defaults[f] = FALSE
    BY <1>2, <1>3 DEF Collected, Switch
  <2>2. AnyCase(<<>>) = FALSE
    BY <1>1, Zenon DEF AnyCase
  <2>3. Defaults[f] = AnyCase(<<>>)
    BY <2>1, <2>2, Zenon
  <2> QED
    BY <1>3, <2>3, Zenon DEF Kept
<1>4. CASE f # "case-insensitive" /\ f \in Collected
  <2>1. ListOf(<<>>, f, <<>>)
    BY <1>1, FS_EmptySet DEF ListOf
  <2> QED
    BY <1>2, <1>4, <2>1 DEF Kept
<1>5. CASE f # "case-insensitive" /\ f \notin Collected
  BY <1>1, <1>5 DEF Kept
<1> QED
  BY <1>3, <1>4, <1>5

\* how an item is read, after "--" or before
RoleFor(e, x) == IF e THEN "rest" ELSE IF IsOption(x) THEN "option" ELSE x.form

\* The requests gs were accepted, and the locals o hold what they ask for.
Taken(gs, o) ==
    /\ \A g \in Range(gs) : Acceptable(g)
    /\ \A f \in Fields : Kept(o, f, gs)

\* The cursor is at letter l of item j.
ParseAt(j, l, e, o) ==
    /\ j <= Len(argv) => Role[j] = RoleFor(e, Line[j])
    /\ l > 0 => j <= Len(argv) /\ ~e /\ IsOption(Line[j]) /\ l < LastRead(Line[j])
    /\ Taken(ReadUpTo(j, l), o)

\* parse_inner is through: the defaults of two fields are filled in.
Settled(o) ==
    /\ \A g \in Range(Given) : Acceptable(g)
    /\ \A f \in Fields \ {"file-type", "threads"} : Kept(o, f, Given)
    /\ Mine("file-type", Given) # {} => Kept(o, "file-type", Given)
    /\ IF Mine("threads", Given) # {} THEN o["threads"] = LastOf("threads", Given)
       ELSE o["idle"] => o["threads"] = 2

\* ExitStatus of exit code c with h handlers installed.
ExitsWith(c, h) ==
    /\ c = 2 <=> Misused(Given)
    /\ Helped(Given) => c = 0
    /\ c = 0 => Helped(Given) \/ ~Broken(Given)
    /\ c = 1 => Broken(Given) \/ h < StopSignals

ReadInv ==
    /\ pc = "parse" => ParseAt(i, k, ended, opts)
    /\ pc \in {"register", "compile", "walk"} => Settled(opts)
    /\ pc = "exit" => ExitsWith(status, handlers)

\* The command line and its reading do not change.
LEMMA SameLine ==
    ASSUME argv' = argv
    PROVE  Line' = Line /\ Role' = Role
<1>1. Line' = Line
  BY DEF Line, Normalized, FindName
<1>2. Role' = Role
  BY DEF Role, Line, Normalized, FindName
<1> QED
  BY <1>1, <1>2

\* Nor do the requests.
LEMMA SameRequests ==
    ASSUME argv' = argv
    PROVE  Pieces' = Pieces /\ Asked' = Asked /\ Upto' = Upto /\ Given' = Given
<1>1. Line' = Line /\ Role' = Role
  BY SameLine
<1>2. Pieces' = Pieces
  BY <1>1 DEF Pieces, Requests
<1>3. Asked' = Asked
  BY <1>1 DEF Asked, Requests
<1>4. Upto' = Upto
  BY <1>2, <1>3 DEF Upto
<1>5. Given' = Given
  BY <1>1 DEF Given, Requests
<1> QED
  BY <1>2, <1>3, <1>4, <1>5

\* The facts of ReadInv depend on nothing else.
LEMMA SameReading ==
    ASSUME argv' = argv, platform' = platform
    PROVE  /\ ParseAt(i', k', ended', opts') => ParseAt(i, k, ended, opts)'
           /\ Settled(opts') => Settled(opts)'
           /\ ExitsWith(status', handlers') => ExitsWith(status, handlers)'
<1>1. Line' = Line /\ Role' = Role /\ Upto' = Upto /\ Given' = Given
  BY SameLine, SameRequests
<1>2. ParseAt(i', k', ended', opts') => ParseAt(i, k, ended, opts)'
  BY <1>1 DEF ParseAt, Taken, ReadUpTo, Requests, Acceptable, Supported
<1>3. Settled(opts') => Settled(opts)'
  BY <1>1 DEF Settled, Acceptable, Supported
<1>4. ExitsWith(status', handlers') => ExitsWith(status, handlers)'
  BY <1>1 DEF ExitsWith, Misused, Helped, Acceptable, Supported, StopSignals
<1> QED
  BY <1>2, <1>3, <1>4

-----------------------------------------------------------------------------
(* The cursor                                                              *)

\* After an option that takes the next item, that item is its value; after "--" all
\* items are paths; after anything else an item is what it looks like.
LEMMA NextRole ==
    ASSUME argv \in Argvs, NEW j \in 1 .. Len(argv) - 1
    PROVE  /\ Role[j] \in {"--", "rest"} => Role[j + 1] = RoleFor(TRUE, Line[j + 1])
           /\ Role[j] \in {"word", "value"} => Role[j + 1] = RoleFor(FALSE, Line[j + 1])
           /\ Role[j] = "option" =>
                 Role[j + 1] = IF WantsNext(Line[j]) THEN "value" ELSE RoleFor(FALSE, Line[j + 1])
<1>1. j + 1 \in 1 .. Len(argv) /\ j + 1 > 1 /\ (j + 1) - 1 = j
  BY LineIs
<1>2. Role[j + 1] = RoleAfter(Role[j], j + 1)
  BY <1>1, RoleIs
<1> QED
  BY <1>1, <1>2 DEF RoleAfter, RoleFor, IsOption

\* Flags take no value.
LEMMA FlagsApart ==
    /\ Flag \cap Valued = {} /\ "paths" \notin Flag \cup Valued
    /\ {"help", "version"} \cap (Flag \cup Valued) = {}
    /\ "threads" \notin Flag /\ "case-insensitive" \in Flag
  BY DEF Flag, Valued, Pattern, Times, Newer, AccessFlag

\* The item under the cursor.
LEMMA AtItem ==
    ASSUME argv \in Argvs, Cursor, Reading
    PROVE  i \in 1 .. Len(argv) /\ Here = Line[i] /\ Len(argv) \in Nat /\ k \in Nat
<1>1. i \in 1 .. Len(argv)
  BY LineIs DEF Cursor, Reading
<1> QED
  BY <1>1, LineIs DEF Here, Cursor

\* The option under the cursor is the next request, with the value that comes with it.
LEMMA NextOption ==
    ASSUME argv \in Argvs, Cursor, AtOption, ParseAt(i, k, ended, opts)
    PROVE  LET g == Requests(i)[k + 1]
               n == Len(Requests(i))
           IN  /\ Role[i] = "option" /\ n \in Nat /\ k \in 0 .. n - 1
               /\ g = OptionGiven(Option, g.value)
               /\ Option \in Valued =>
                     /\ k + 1 = n /\ WantsNext(Line[i]) = (Attached = None)
                     /\ g.value = IF HasValue THEN <<Value>> ELSE <<>>
               /\ Option \notin Valued =>
                     /\ LastLetter <=> k + 1 = n
                     /\ LastLetter => ~WantsNext(Line[i])
                     /\ ~LastLetter => k + 1 < LastRead(Line[i])
                     /\ g.value = IF LastLetter /\ Attached # None THEN <<Attached>> ELSE <<>>
<1> DEFINE x == Line[i]
           L == LastRead(x)
           N == Len(x.names)
<1>1. i \in 1 .. Len(argv) /\ Here = x /\ Len(argv) \in Nat /\ k \in Nat
  BY AtItem DEF AtOption
<1>2. ~ended /\ IsOption(x) /\ Reading
  BY <1>1 DEF AtOption, IsOption
<1>3. Role[i] = "option"
  BY <1>1, <1>2 DEF ParseAt, RoleFor
<1>4. /\ L \in 1 .. N /\ N \in Nat
      /\ \A m \in 1 .. N : Spelled(x)[m] \in Valued => L <= m
      /\ Spelled(x)[L] \notin Valued => L = N
  BY <1>1, <1>2, LastReadIs
<1>5. k < L
  <2>1. k > 0 => k < L
    BY DEF ParseAt
  <2> HIDE DEF L, N
  <2> QED
    BY <1>1, <1>4, <2>1
<1>6. k + 1 \in 1 .. N /\ k \in 0 .. L - 1 /\ k + 1 \in 1 .. L
  <2> HIDE DEF L, N
  <2> QED
    BY <1>1, <1>4, <1>5
<1>7. Spelled(x)[k + 1] = Option
  <2>1. DOMAIN x.names = 1 .. N /\ (x.form = "long" => N = 1)
    BY <1>1, ItemShape, LineIs
  <2>2. Spelled(x)[k + 1] = IF x.form = "short" THEN ShortName(x.names[k + 1])
                            ELSE LongName(x.names[k + 1])
    BY <1>6, <2>1 DEF Spelled
  <2>3. x.form # "short" => k + 1 = 1
    <3> HIDE DEF N
    <3> QED
      BY <1>2, <1>6, <2>1 DEF IsOption
  <2> HIDE DEF x, N
  <2> QED
    BY <1>1, <2>2, <2>3 DEF Option
<1>8. /\ Requests(i) = [m \in 1 .. L |-> OptionGiven(Spelled(x)[m], ValueAt(i, m))]
      /\ Len(Requests(i)) = L
  <2>1. Requests(i) = [m \in 1 .. L |-> OptionGiven(Spelled(x)[m], ValueAt(i, m))]
    BY <1>1, <1>3, RequestsIs
  <2> HIDE DEF x, L
  <2> QED
    BY <1>4, <2>1
<1>9. Requests(i)[k + 1] = OptionGiven(Option, ValueAt(i, k + 1))
  <2> HIDE DEF x, L
  <2> QED
    BY <1>6, <1>7, <1>8
<1>10. ValueAt(i, k + 1) = IF k + 1 # L THEN <<>>
                           ELSE IF Attached # None THEN <<Attached>>
                           ELSE IF WantsNext(x)
                           THEN (IF i < Len(argv) THEN <<Line[i + 1].word>> ELSE <<>>) ELSE <<>>
  BY <1>1 DEF ValueAt, Attached
<1>11. k + 1 = L => WantsNext(x) = (Option \in Valued /\ Attached = None)
  BY <1>1, <1>7 DEF WantsNext, Attached
<1>12. LastLetter <=> k + 1 = N
  BY <1>1 DEF LastLetter
<1>13. i < Len(argv) => Value = IF Attached # None THEN Attached ELSE Line[i + 1].word
  BY <1>1, LineIs DEF Value
<1> HIDE DEF x, L, N
<1>14. ASSUME Option \in Valued
       PROVE  /\ k + 1 = L /\ WantsNext(x) = (Attached = None)
              /\ ValueAt(i, k + 1) = IF HasValue THEN <<Value>> ELSE <<>>
  <2>1. k + 1 = L
    BY <1>4, <1>6, <1>7, <1>14
  <2>2. Attached # None => Value = Attached
    BY DEF Value
  <2> QED
    BY <1>10, <1>11, <1>13, <1>14, <2>1, <2>2 DEF HasValue
<1>15. ASSUME Option \notin Valued
       PROVE  /\ LastLetter <=> k + 1 = L
              /\ LastLetter => ~WantsNext(x)
              /\ ~LastLetter => k + 1 < L
              /\ ValueAt(i, k + 1) = IF LastLetter /\ Attached # None THEN <<Attached>> ELSE <<>>
  <2>1. LastLetter <=> k + 1 = L
    BY <1>4, <1>6, <1>7, <1>12, <1>15
  <2>2. ~LastLetter => k + 1 < L
    BY <1>4, <1>6, <2>1
  <2>3. LastLetter => ~WantsNext(x)
    BY <1>11, <1>15, <2>1
  <2> QED
    BY <1>10, <2>1, <2>2, <2>3
<1>16. LET g == Requests(i)[k + 1] IN
       g = OptionGiven(Option, g.value) /\ g.value = ValueAt(i, k + 1)
  BY <1>9 DEF OptionGiven
<1> DEFINE g == Requests(i)[k + 1]
<1> HIDE DEF g
<1>17. g = OptionGiven(Option, g.value) /\ g.value = ValueAt(i, k + 1)
  BY <1>16 DEF g
<1> QED
  BY <1>3, <1>4, <1>6, <1>8, <1>14, <1>15, <1>17 DEF g, x, L

-----------------------------------------------------------------------------
(* The steps of the parser                                                 *)

\* A request is for an option or for a path.
LEMMA AskedShape ==
    ASSUME argv \in Argvs, NEW g \in Asked
    PROVE  g.option \/ g.name = "paths"
<1>1. PICK j \in 1 .. Len(argv) : g \in Range(Requests(j))
  BY DEF Asked
<1>2. PICK m \in DOMAIN Requests(j) : g = Requests(j)[m]
  BY <1>1 DEF Range
<1>3. CASE Role[j] = "option"
  <2>1. Requests(j) = [l \in 1 .. LastRead(Line[j]) |->
                          OptionGiven(Spelled(Line[j])[l], ValueAt(j, l))]
    BY <1>3, RequestsIs
  <2>2. g = OptionGiven(Spelled(Line[j])[m], ValueAt(j, m))
    BY <1>2, <2>1
  <2> QED
    BY <2>2 DEF OptionGiven
<1>4. CASE Role[j] \in {"word", "rest"}
  <2>1. Requests(j) = <<PathGiven(Line[j].word)>>
    BY <1>4, RequestsIs
  <2>2. g = PathGiven(Line[j].word)
    BY <1>2, <2>1
  <2> QED
    BY <2>2 DEF PathGiven
<1>5. CASE Role[j] \notin {"option", "word", "rest"}
  <2>1. Requests(j) = <<>>
    BY <1>5, RequestsIs, Zenon
  <2> QED
    BY <1>2, <2>1
<1> QED
  BY <1>3, <1>4, <1>5

\* An acceptable request writes a field.
LEMMA AcceptableWrites ==
    ASSUME argv \in Argvs, NEW g \in Asked, Acceptable(g)
    PROVE  /\ g.name \in Writer /\ ~AsksHelp(g)
           /\ g.name = "case-insensitive" => ValueGiven(g) = TRUE
<1>1. g.option \/ g.name = "paths"
  BY AskedShape
<1>2. g.name \in Flag \cup Valued \/ ~g.option
  BY DEF Acceptable
<1>3. g.name \in Writer
  BY <1>1, <1>2 DEF Writer
<1>4. ~AsksHelp(g)
  BY <1>3, FlagsApart DEF AsksHelp, Writer
<1>5. ASSUME g.name = "case-insensitive" PROVE ValueGiven(g) = TRUE
  <2>1. g.option /\ g.name \in Flag
    BY <1>1, <1>5, FlagsApart
  <2>2. FlagValue(g.name) = TRUE
    BY <1>5 DEF FlagValue
  <2> QED
    BY <2>1, <2>2 DEF ValueGiven
<1> QED
  BY <1>3, <1>4, <1>5

\* What is read and accepted is in the locals, one request more.
LEMMA TakenMore ==
    ASSUME argv \in Argvs, NEW gs \in Seq(Asked), NEW g \in Asked, NEW o, DOMAIN o = Fields,
           Taken(gs, o), Acceptable(g)
    PROVE  Taken(Append(gs, g), Apply(o, g.name, ValueGiven(g)))
<1>1. /\ g.name \in Writer
      /\ g.name = "case-insensitive" => ValueGiven(g) = TRUE
  BY AcceptableWrites
<1>2. \A f \in Fields : Kept(Apply(o, g.name, ValueGiven(g)), f, Append(gs, g))
  <2>1. \A f \in Fields : Kept(o, f, gs)
    BY DEF Taken
  <2> QED
    BY <1>1, <2>1, KeptMore
<1>3. Range(Append(gs, g)) = Range(gs) \cup {g}
  BY RangeMore
<1> QED
  BY <1>2, <1>3 DEF Taken

\* The same at the cursor.
LEMMA TakeNext ==
    ASSUME argv \in Argvs, NEW j \in 1 .. Len(argv), NEW l \in 0 .. Len(Requests(j)) - 1,
           NEW o, DOMAIN o = Fields, Taken(ReadUpTo(j, l), o), Acceptable(Requests(j)[l + 1])
    PROVE  LET g == Requests(j)[l + 1]
               p == Apply(o, g.name, ValueGiven(g))
           IN  /\ Taken(ReadUpTo(j, l + 1), p)
               /\ l + 1 = Len(Requests(j)) => Taken(ReadUpTo(j + 1, 0), p)
<1> DEFINE g == Requests(j)[l + 1]
           r == ReadUpTo(j, l)
           p == Apply(o, g.name, ValueGiven(g))
<1>1. /\ r \in Seq(Asked) /\ g \in Asked
      /\ ReadUpTo(j, l + 1) = Append(r, g)
      /\ l + 1 = Len(Requests(j)) => ReadUpTo(j + 1, 0) = Append(r, g)
  BY ReadOne
<1>2. Taken(r, o) /\ Acceptable(g)
  OBVIOUS
<1> HIDE DEF g, r
<1>3. Taken(Append(r, g), p)
  BY <1>1, <1>2, TakenMore
<1> HIDE DEF p
<1> QED
  BY <1>1, <1>3 DEF g, p

\* Arriving at an item.
LEMMA Arrive ==
    ASSUME argv \in Argvs, NEW j \in 1 .. Len(argv), NEW e, NEW o, Taken(ReadUpTo(j + 1, 0), o),
           e => Role[j] \in {"--", "rest"},
           ~e => (Role[j] \in {"word", "value"} \/ (Role[j] = "option" /\ ~WantsNext(Line[j])))
    PROVE  ParseAt(j + 1, 0, e, o)
<1>1. ASSUME j + 1 <= Len(argv) PROVE Role[j + 1] = RoleFor(e, Line[j + 1])
  <2>1. j \in 1 .. Len(argv) - 1
    BY <1>1, LineIs
  <2>2. CASE e
    <3>1. Role[j + 1] = RoleFor(TRUE, Line[j + 1])
      BY <2>1, <2>2, NextRole
    <3> QED
      BY <2>2, <3>1 DEF RoleFor
  <2>3. CASE ~e
    <3>1. Role[j + 1] = RoleFor(FALSE, Line[j + 1])
      BY <2>1, <2>3, NextRole
    <3> QED
      BY <2>3, <3>1 DEF RoleFor
  <2> QED
    BY <2>2, <2>3
<1> QED
  BY <1>1 DEF ParseAt

\* A flag is applied, and the cursor moves on in the cluster or to the next item.
LEMMA FlagRead ==
    ASSUME CommandInv, ReadInv, ReadFlag
    PROVE  ParseAt(i', k', ended', opts')
<1> DEFINE g == Requests(i)[k + 1]
           n == Len(Requests(i))
<1>0. /\ argv \in Argvs /\ Cursor /\ DOMAIN opts = Fields /\ ParseAt(i, k, ended, opts)
      /\ AtOption /\ Option \in Flag \cap Supported /\ (~LastLetter \/ Attached = None)
      /\ opts' = Apply(opts, Option, FlagValue(Option)) /\ ended' = ended /\ ~ended
  BY DEF CommandInv, ReadInv, ReadFlag, AtOption, Reading, OptsTyped
<1>1. Option \notin Valued
  BY <1>0, FlagsApart
<1>2. /\ Role[i] = "option" /\ n \in Nat /\ k \in 0 .. n - 1
      /\ g = OptionGiven(Option, g.value) /\ g.value = <<>>
      /\ LastLetter <=> k + 1 = n
      /\ LastLetter => ~WantsNext(Line[i])
      /\ ~LastLetter => k + 1 < LastRead(Line[i])
  BY <1>0, <1>1, NextOption
<1>3. i \in 1 .. Len(argv) /\ Here = Line[i] /\ Len(argv) \in Nat /\ k \in Nat
  BY <1>0, AtItem DEF AtOption
<1>4. Taken(ReadUpTo(i, k), opts)
  BY <1>0 DEF ParseAt
<1>5. g.name = Option /\ g.option /\ g.value = <<>>
  <2> HIDE DEF g
  <2> QED
    BY <1>2 DEF OptionGiven
<1>6. Acceptable(g) /\ ValueGiven(g) = FlagValue(Option)
  <2> HIDE DEF g
  <2> QED
    BY <1>0, <1>5 DEF Acceptable, ValueGiven
<1>7. /\ Taken(ReadUpTo(i, k + 1), opts')
      /\ k + 1 = n => Taken(ReadUpTo(i + 1, 0), opts')
  BY <1>0, <1>2, <1>3, <1>4, <1>5, <1>6, TakeNext
<1>8. CASE LastLetter
  <2>1. i' = i + 1 /\ k' = 0
    BY <1>8 DEF ReadFlag, MoveTo
  <2>2. Taken(ReadUpTo(i + 1, 0), opts')
    BY <1>2, <1>7, <1>8
  <2>3. ParseAt(i + 1, 0, ended, opts')
    BY <1>0, <1>2, <1>3, <1>8, <2>2, Arrive
  <2> QED
    BY <1>0, <2>1, <2>3, Zenon
<1>9. CASE ~LastLetter
  <2>1. i' = i /\ k' = k + 1
    BY <1>9 DEF ReadFlag, MoveTo
  <2>2. IsOption(Line[i]) /\ Role[i] = RoleFor(ended, Line[i])
    BY <1>0, <1>3 DEF AtOption, IsOption, ParseAt
  <2> HIDE DEF n
  <2> QED
    BY <1>0, <1>2, <1>3, <1>7, <1>9, <2>1, <2>2 DEF ParseAt
<1> QED
  BY <1>8, <1>9

\* An option with its value: the cursor moves past both.
LEMMA ValuedRead ==
    ASSUME CommandInv, ReadInv, ReadValued
    PROVE  ParseAt(i', k', ended', opts')
<1> DEFINE g == Requests(i)[k + 1]
           n == Len(Requests(i))
<1>0. /\ argv \in Argvs /\ Cursor /\ DOMAIN opts = Fields /\ ParseAt(i, k, ended, opts)
      /\ AtOption /\ Option \in Valued \cap Supported
      /\ HasValue /\ ValueOf(Option, Value) # None
      /\ opts' = Apply(opts, Option, ValueOf(Option, Value)) /\ ended' = ended /\ ~ended
  BY DEF CommandInv, ReadInv, ReadValued, AtOption, Reading, OptsTyped
<1>1. Option \in Valued
  BY <1>0
<1>2. /\ Role[i] = "option" /\ n \in Nat /\ k \in 0 .. n - 1 /\ k + 1 = n
      /\ g = OptionGiven(Option, g.value) /\ g.value = <<Value>>
      /\ WantsNext(Line[i]) = (Attached = None)
  BY <1>0, <1>1, NextOption
<1>3. i \in 1 .. Len(argv) /\ Here = Line[i] /\ Len(argv) \in Nat /\ k \in Nat
  BY <1>0, AtItem DEF AtOption
<1>4. Taken(ReadUpTo(i, k), opts)
  BY <1>0 DEF ParseAt
<1>5. g.name = Option /\ g.option /\ g.value = <<Value>> /\ WordOf(g) = Value
  <2> HIDE DEF g
  <2> QED
    BY <1>2 DEF OptionGiven, WordOf
<1>6. Acceptable(g) /\ ValueGiven(g) = ValueOf(Option, Value)
  <2>1. g.value # <<>>
    BY <1>5
  <2> HIDE DEF g
  <2> QED
    BY <1>0, <1>5, <2>1, FlagsApart DEF Acceptable, ValueGiven
<1>7. Taken(ReadUpTo(i + 1, 0), opts')
  BY <1>0, <1>2, <1>3, <1>4, <1>5, <1>6, TakeNext
<1>8. CASE Attached # None
  <2>1. i' = i + 1 /\ k' = 0
    BY <1>8 DEF ReadValued, MoveTo
  <2>2. ~WantsNext(Line[i])
    BY <1>2, <1>8
  <2>3. ParseAt(i + 1, 0, ended, opts')
    BY <1>0, <1>2, <1>3, <1>7, <2>2, Arrive
  <2> QED
    BY <1>0, <2>1, <2>3, Zenon
<1>9. CASE Attached = None
  <2>1. i' = i + 2 /\ k' = 0
    BY <1>9 DEF ReadValued, MoveTo
  <2>2. /\ i + 1 \in 1 .. Len(argv) /\ (i + 1) + 1 = i + 2 /\ i \in 1 .. Len(argv) - 1
        /\ WantsNext(Line[i])
    <3>1. i < Len(argv)
      BY <1>0, <1>9 DEF HasValue
    <3>2. WantsNext(Line[i])
      BY <1>2, <1>9, Zenon
    <3> QED
      BY <1>3, <3>1, <3>2
  <2>3. Role[i + 1] = "value"
    BY <1>0, <1>2, <2>2, NextRole
  <2>4. Requests(i + 1) = <<>>
    BY <1>0, <2>2, <2>3, RequestsIs
  <2>5. ReadUpTo((i + 1) + 1, 0) = ReadUpTo(i + 1, 0)
    BY <1>0, <2>2, <2>4, ReadNone
  <2>6. ParseAt((i + 1) + 1, 0, ended, opts')
    <3>1. Taken(ReadUpTo((i + 1) + 1, 0), opts')
      BY <1>7, <2>5
    <3> QED
      BY <1>0, <2>2, <2>3, <3>1, Arrive
  <2> QED
    BY <1>0, <2>1, <2>2, <2>6, Zenon
<1> QED
  BY <1>8, <1>9

\* "--" asks for nothing and makes the rest paths.
LEMMA EndRead ==
    ASSUME CommandInv, ReadInv, EndOfOptions
    PROVE  ParseAt(i', k', ended', opts')
<1>0. /\ argv \in Argvs /\ Cursor /\ ParseAt(i, k, ended, opts)
      /\ Reading /\ ~ended /\ Here.form = "--" /\ opts' = opts
      /\ ended' = TRUE /\ i' = i + 1 /\ k' = 0
  BY DEF CommandInv, ReadInv, EndOfOptions, MoveTo, Reading
<1>1. i \in 1 .. Len(argv) /\ Here = Line[i] /\ Len(argv) \in Nat /\ k \in Nat
  BY <1>0, AtItem
<1>2. Role[i] = "--" /\ ~IsOption(Line[i])
  BY <1>0, <1>1 DEF ParseAt, RoleFor, IsOption
<1>3. k = 0
  BY <1>0, <1>1, <1>2 DEF ParseAt
<1>4. Requests(i) = <<>>
  BY <1>0, <1>1, <1>2, RequestsIs
<1>5. Taken(ReadUpTo(i + 1, 0), opts)
  <2>1. ReadUpTo(i + 1, 0) = ReadUpTo(i, 0)
    BY <1>0, <1>1, <1>4, ReadNone
  <2> QED
    BY <1>0, <1>3, <2>1 DEF ParseAt
<1>6. ParseAt(i + 1, 0, TRUE, opts)
  <2>1. Role[i] \in {"--", "rest"} /\ i \in 1 .. Len(argv)
    BY <1>1, <1>2
  <2> QED
    BY <1>0, <1>5, <2>1, Arrive, Zenon
<1> QED
  BY <1>0, <1>6, Zenon

\* The request of a path.
LEMMA AtPathRequest ==
    ASSUME argv \in Argvs, Cursor, ParseAt(i, k, ended, opts), AtPath, ended \in BOOLEAN
    PROVE  /\ i \in 1 .. Len(argv) /\ Len(argv) \in Nat /\ k = 0
           /\ Role[i] = IF ended THEN "rest" ELSE "word"
           /\ Requests(i) = <<PathGiven(Here.word)>>
<1>1. i \in 1 .. Len(argv) /\ Here = Line[i] /\ Len(argv) \in Nat /\ k \in Nat
  BY AtItem DEF AtPath
<1>2. ended \/ Line[i].form = "word"
  BY <1>1 DEF AtPath
<1>3. Role[i] = RoleFor(ended, Line[i])
  BY <1>1 DEF ParseAt
<1>4. Role[i] = IF ended THEN "rest" ELSE "word"
  BY <1>2, <1>3 DEF RoleFor, IsOption
<1>5. k = 0
  BY <1>1, <1>2 DEF ParseAt, IsOption
<1>6. Requests(i) = <<PathGiven(Line[i].word)>>
  BY <1>1, <1>4, RequestsIs
<1> QED
  BY <1>1, <1>4, <1>5, <1>6

\* A path is stored, in its place.
LEMMA PathRead ==
    ASSUME CommandInv, ReadInv, ReadPath
    PROVE  ParseAt(i', k', ended', opts')
<1> DEFINE w == Here.word
           g == PathGiven(w)
<1>0. /\ argv \in Argvs /\ Cursor /\ DOMAIN opts = Fields /\ ParseAt(i, k, ended, opts)
      /\ AtPath /\ IsDirectory(w) /\ opts' = Store(opts, "paths", DirOf[w.text])
      /\ ended' = ended /\ ended \in BOOLEAN /\ i' = i + 1 /\ k' = 0
  BY DEF CommandInv, ReadInv, ReadPath, AtPath, Reading, OptsTyped, MoveTo
<1>1. /\ i \in 1 .. Len(argv) /\ Len(argv) \in Nat /\ k = 0
      /\ Role[i] = IF ended THEN "rest" ELSE "word"
      /\ Requests(i) = <<g>>
  BY <1>0, AtPathRequest
<1>2. /\ g.name = "paths" /\ g.option = FALSE /\ WordOf(g) = w
  BY DEF PathGiven, WordOf
<1> HIDE DEF g, w
<1>3. Acceptable(g) /\ ValueGiven(g) = DirOf[w.text]
  BY <1>0, <1>2 DEF Acceptable, ValueGiven
<1>4. opts' = Apply(opts, g.name, ValueGiven(g))
  <2>1. "paths" \notin CaseFlag /\ Field("paths") = "paths"
    BY DEF CaseFlag, Field, Times, Newer, AccessFlag
  <2> QED
    BY <1>0, <1>2, <1>3, <2>1 DEF Apply
<1>5. Len(Requests(i)) = 1 /\ Requests(i)[0 + 1] = g /\ 0 \in 0 .. Len(Requests(i)) - 1
  BY <1>1
<1>6. Taken(ReadUpTo(i, 0), opts)
  BY <1>0, <1>1 DEF ParseAt
<1>7. Taken(ReadUpTo(i + 1, 0), opts')
  BY <1>0, <1>1, <1>3, <1>4, <1>5, <1>6, TakeNext
<1>8. ParseAt(i + 1, 0, ended, opts')
  <2>1. /\ ended => Role[i] \in {"--", "rest"}
        /\ ~ended => Role[i] \in {"word", "value"}
    BY <1>1
  <2> QED
    BY <1>0, <1>1, <1>7, <2>1, Arrive, Zenon
<1> QED
  BY <1>0, <1>8, Zenon

-----------------------------------------------------------------------------
(* Exits                                                                   *)

\* The next request, after those that were accepted.
LEMMA NextGiven ==
    ASSUME argv \in Argvs, NEW j \in 1 .. Len(argv), NEW l \in 0 .. Len(Requests(j)) - 1,
           NEW o, Taken(ReadUpTo(j, l), o)
    PROVE  \E m \in DOMAIN Given : /\ Given[m] = Requests(j)[l + 1] /\ DOMAIN Given \subseteq Nat
                                   /\ m \in Nat
                                   /\ \A n \in 1 .. m - 1 : n \in DOMAIN Given
                                                            /\ Acceptable(Given[n])
                                                            /\ ~AsksHelp(Given[n])
<1> DEFINE p == ReadUpTo(j, l)
           g == Requests(j)[l + 1]
<1>1. /\ p \in Seq(Asked) /\ Begins(p, Given) /\ Given \in Seq(Asked)
      /\ Len(p) + 1 \in DOMAIN Given /\ Given[Len(p) + 1] = g
  BY ReadOne
<1>2. \A h \in Range(p) : Acceptable(h)
  BY DEF Taken
<1> HIDE DEF p, g
<1>3. Len(p) \in Nat /\ DOMAIN p = 1 .. Len(p) /\ DOMAIN Given = 1 .. Len(Given)
      /\ Len(Given) \in Nat
  BY <1>1
<1>4. \A n \in 1 .. Len(p) : n \in DOMAIN Given /\ Given[n] = p[n] /\ p[n] \in Asked
  BY <1>1, <1>3 DEF Begins
<1>5. \A n \in 1 .. Len(p) : Acceptable(Given[n]) /\ ~AsksHelp(Given[n])
  <2> TAKE n \in 1 .. Len(p)
  <2>1. Given[n] \in Asked /\ Acceptable(Given[n])
    BY <1>2, <1>3, <1>4 DEF Range
  <2> QED
    BY <2>1, AcceptableWrites
<1>6. (Len(p) + 1) - 1 = Len(p) /\ Len(p) + 1 \in Nat
  BY <1>3
<1> QED
  BY <1>1, <1>3, <1>4, <1>5, <1>6 DEF g

\* Help, if nothing before it is wrong.
LEMMA HelpExit ==
    ASSUME argv \in Argvs, NEW j \in 1 .. Len(argv), NEW l \in 0 .. Len(Requests(j)) - 1,
           NEW o, Taken(ReadUpTo(j, l), o), AsksHelp(Requests(j)[l + 1]), NEW h
    PROVE  ExitsWith(0, h)
<1>1. PICK m \in DOMAIN Given :
         /\ Given[m] = Requests(j)[l + 1] /\ DOMAIN Given \subseteq Nat /\ m \in Nat
         /\ \A n \in 1 .. m - 1 : n \in DOMAIN Given /\ Acceptable(Given[n]) /\ ~AsksHelp(Given[n])
  BY NextGiven
<1>2. AsksHelp(Given[m])
  BY <1>1
<1>3. Helped(Given)
  BY <1>1, <1>2 DEF Helped
<1>4. ~Misused(Given)
  <2> SUFFICES ASSUME NEW n \in DOMAIN Given, ~Acceptable(Given[n]), ~AsksHelp(Given[n]),
                      \A r \in 1 .. n - 1 : ~AsksHelp(Given[r])
               PROVE  FALSE
    BY <1>3 DEF Misused
  <2>1. DOMAIN Given = 1 .. Len(Given)
    BY ReadEnds
  <2>2. m \notin 1 .. n - 1 /\ n # m /\ n \notin 1 .. m - 1
    BY <1>1, <1>2
  <2> QED
    BY <1>1, <2>1, <2>2
<1> QED
  BY <1>3, <1>4 DEF ExitsWith

\* A usage error, if no help was asked for before it.
LEMMA ErrorExit ==
    ASSUME argv \in Argvs, NEW j \in 1 .. Len(argv), NEW l \in 0 .. Len(Requests(j)) - 1,
           NEW o, Taken(ReadUpTo(j, l), o), NEW h,
           ~Acceptable(Requests(j)[l + 1]), ~AsksHelp(Requests(j)[l + 1])
    PROVE  ExitsWith(2, h)
<1>1. PICK m \in DOMAIN Given :
         /\ Given[m] = Requests(j)[l + 1] /\ DOMAIN Given \subseteq Nat /\ m \in Nat
         /\ \A n \in 1 .. m - 1 : n \in DOMAIN Given /\ Acceptable(Given[n]) /\ ~AsksHelp(Given[n])
  BY NextGiven
<1>2. ~Acceptable(Given[m]) /\ ~AsksHelp(Given[m])
  BY <1>1
<1>3. Misused(Given)
  BY <1>1, <1>2 DEF Misused
<1>4. ~Helped(Given)
  <2> SUFFICES ASSUME NEW n \in DOMAIN Given, AsksHelp(Given[n]),
                      \A r \in 1 .. n - 1 : Acceptable(Given[r])
               PROVE  FALSE
    BY DEF Helped
  <2>1. DOMAIN Given = 1 .. Len(Given)
    BY ReadEnds
  <2>2. m \notin 1 .. n - 1 /\ n # m /\ n \notin 1 .. m - 1
    BY <1>1, <1>2
  <2> QED
    BY <1>1, <2>1, <2>2
<1> QED
  BY <1>3, <1>4 DEF ExitsWith

\* Nothing wrong and no help: nobody asked for help.
LEMMA AllAccepted ==
    ASSUME argv \in Argvs, \A g \in Range(Given) : Acceptable(g)
    PROVE  /\ ~Helped(Given)
           /\ Misused(Given) <=> \/ Mine("paths", Given) = {}
                                 \/ Mine("name", Given) # {} /\ Mine("regex", Given) # {}
<1>1. \A m \in DOMAIN Given : Acceptable(Given[m]) /\ ~AsksHelp(Given[m])
  <2> TAKE m \in DOMAIN Given
  <2>1. Given[m] \in Asked
    BY ReadEnds
  <2>2. Acceptable(Given[m])
    BY DEF Range
  <2> QED
    BY <2>1, <2>2, AcceptableWrites
<1>2. ~Helped(Given)
  BY <1>1 DEF Helped
<1> QED
  BY <1>1, <1>2 DEF Misused

\* A list holds exactly the values asked for.
LEMMA ListHolds ==
    ASSUME argv \in Argvs, NEW o, NEW f \in Collected, Kept(o, f, Given)
    PROVE  /\ Range(o[f]) = {ValueGiven(Given[m]) : m \in Mine(f, Given)}
           /\ o[f] = <<>> <=> Mine(f, Given) = {}
<1> DEFINE A == Mine(f, Given)
           T == {ValueGiven(Given[m]) : m \in A}
           list == o[f]
<1>1. f # "case-insensitive"
  BY DEF Collected
<1>2. list \in Seq(T) /\ Len(list) = Cardinality(A)
      /\ \A m \in A : list[Cardinality({l \in A : l <= m})] = ValueGiven(Given[m])
  BY <1>1 DEF Kept, ListOf
<1>3. A \subseteq 1 .. Len(Given) /\ Len(Given) \in Nat
  BY ReadEnds DEF Mine
<1>4. IsFiniteSet(A)
  <2>1. IsFiniteSet(1 .. Len(Given))
    BY <1>3, FS_Interval
  <2> HIDE DEF A
  <2> QED
    BY <1>3, <2>1, FS_Subset
<1> HIDE DEF A, T, list
<1>5. Range(list) \subseteq T
  BY <1>2 DEF Range
<1>6. ASSUME NEW m \in A PROVE ValueGiven(Given[m]) \in Range(list)
  <2> DEFINE C == {l \in A : l <= m}
  <2>1. C \subseteq A /\ m \in C
    BY <1>3
  <2>2. list[Cardinality(C)] = ValueGiven(Given[m])
    BY <1>2
  <2> HIDE DEF C
  <2>3. IsFiniteSet(C) /\ Cardinality(C) \in Nat /\ Cardinality(C) <= Cardinality(A)
    BY <1>4, <2>1, FS_Subset, FS_CardinalityType
  <2>4. Cardinality(C) # 0
    BY <2>1, <2>3, FS_EmptySet
  <2>5. Cardinality(C) \in DOMAIN list
    BY <1>2, <2>3, <2>4
  <2> QED
    BY <2>2, <2>5 DEF Range
<1>7. T \subseteq Range(list)
  BY <1>6 DEF T
<1>8. list = <<>> <=> A = {}
  <2>1. list = <<>> <=> Len(list) = 0
    BY <1>2
  <2>2. Cardinality(A) = 0 <=> A = {}
    BY <1>4, FS_EmptySet
  <2> QED
    BY <1>2, <2>1, <2>2
<1> QED
  BY <1>5, <1>7, <1>8 DEF A, T, list

PatternField == {"name", "regex", "path", "lname", "exclude"}
BadFor(s) == IF s = "regex" THEN BadRegexes ELSE BadGlobs

\* A pattern's value is its text.
LEMMA PatternText ==
    ASSUME argv \in Argvs, NEW g \in Asked, Acceptable(g), Field(g.name) \in PatternField
    PROVE  ValueGiven(g) = WordOf(g).text /\ g.name # "print"
<1>1. g.name \in Writer /\ (g.option \/ g.name = "paths")
  BY AcceptableWrites, AskedShape
<1>2. g.name \in Pattern /\ g.name \notin Flag /\ g.name # "print"
  BY <1>1 DEF Writer, Flag, Valued, Pattern, Field, PatternField, Times, Newer, AccessFlag
<1>3. g.option /\ ValueGiven(g) = ValueOf(g.name, WordOf(g))
  BY <1>1, <1>2 DEF ValueGiven, Pattern
<1>4. g.name \notin Newer /\ ValueOf(g.name, WordOf(g)) # None
  BY <1>2, <1>3 DEF Acceptable, Newer, Pattern
<1>5. ValueOf(g.name, WordOf(g)) = WordOf(g).text
  <2>1. WordOf(g).utf8
    BY <1>4 DEF ValueOf
  <2> QED
    BY <1>2, <1>4, <2>1 DEF ValueOf, Pattern, Times
<1> QED
  BY <1>2, <1>3, <1>5

\* A pattern set fails to compile exactly when a pattern the user gave does.
LEMMA BrokenIs ==
    ASSUME argv \in Argvs, Settled(opts)
    PROVE  Broken(Given) <=> ~AllCompile
<1>1. Given \in Seq(Asked) /\ DOMAIN Given = 1 .. Len(Given)
  BY ReadEnds
<1>2. Broken(Given) <=> \E m \in DOMAIN Given : /\ Field(Given[m].name) \in PatternField
                                                /\ WordOf(Given[m]).text \in BadFor(Field(Given[m].name))
  BY DEF Broken, PatternField, BadFor, Range
<1>3. \A m \in DOMAIN Given : Field(Given[m].name) \in PatternField =>
         ValueGiven(Given[m]) = WordOf(Given[m]).text /\ Given[m].name # "print"
  <2> SUFFICES ASSUME NEW m \in DOMAIN Given, Field(Given[m].name) \in PatternField
               PROVE  ValueGiven(Given[m]) = WordOf(Given[m]).text /\ Given[m].name # "print"
    OBVIOUS
  <2> DEFINE g == Given[m]
  <2>1. g \in Asked /\ Acceptable(g)
    BY <1>1 DEF Settled, Range
  <2> HIDE DEF g
  <2>2. Field(g.name) \in PatternField
    BY DEF g
  <2>3. ValueGiven(g) = WordOf(g).text /\ g.name # "print"
    BY <2>1, <2>2, PatternText
  <2> QED
    BY <2>3 DEF g
<1>4. Broken(Given) <=> \E s \in PatternField : \E m \in Mine(s, Given) : ValueGiven(Given[m]) \in BadFor(s)
  BY <1>2, <1>3 DEF Mine
<1>5. \A s \in PatternField : Range(opts[s]) = {ValueGiven(Given[m]) : m \in Mine(s, Given)}
  <2> TAKE s \in PatternField
  <2>1. s \in Collected /\ Kept(opts, s, Given)
    BY DEF Settled, PatternField, Collected, Fields
  <2> QED
    BY <2>1, ListHolds
<1>6. Broken(Given) <=> \E s \in PatternField : Range(opts[s]) \cap BadFor(s) # {}
  BY <1>4, <1>5
<1>7. Range(SetOrder) = PatternField
  BY DEF SetOrder, PatternField, Range
<1>8. AllCompile <=> \A s \in PatternField : Range(opts[s]) \cap BadFor(s) = {}
  BY <1>7 DEF AllCompile, Compiles, BadFor
<1> QED
  BY <1>6, <1>8

\* The parser stops at an option: help, or one that cannot be read.
LEMMA OptionExit ==
    ASSUME CommandInv, ReadInv, NEW h
    PROVE  /\ HelpOrVersion => ExitsWith(0, h)
           /\ UnexpectedValue \/ InvalidValue \/ UnexpectedOption => ExitsWith(2, h)
<1> DEFINE g == Requests(i)[k + 1]
           bad == UnexpectedValue \/ InvalidValue \/ UnexpectedOption
<1> SUFFICES ASSUME AtOption
             PROVE  /\ HelpOrVersion => ExitsWith(0, h)
                    /\ bad => ExitsWith(2, h)
  BY DEF HelpOrVersion, UnexpectedValue, InvalidValue, UnexpectedOption
<1>0. argv \in Argvs /\ Cursor /\ ParseAt(i, k, ended, opts)
  BY DEF CommandInv, ReadInv, AtOption, Reading
<1>1. /\ k \in 0 .. Len(Requests(i)) - 1 /\ g = OptionGiven(Option, g.value)
      /\ Option \in Valued => g.value = IF HasValue THEN <<Value>> ELSE <<>>
      /\ Option \notin Valued =>
            g.value = IF LastLetter /\ Attached # None THEN <<Attached>> ELSE <<>>
  BY <1>0, NextOption
<1>2. i \in 1 .. Len(argv) /\ Taken(ReadUpTo(i, k), opts)
  BY <1>0, AtItem DEF AtOption, ParseAt
<1> HIDE DEF g
<1>3. g.name = Option /\ g.option
  BY <1>1 DEF OptionGiven
<1>4. ASSUME HelpOrVersion PROVE ExitsWith(0, h)
  <2>1. AsksHelp(g)
    BY <1>3, <1>4 DEF HelpOrVersion, AsksHelp
  <2> QED
    BY <1>0, <1>1, <1>2, <2>1, HelpExit DEF g
<1>5. ASSUME bad PROVE ExitsWith(2, h)
  <2>1. ~AsksHelp(g)
    <3>1. Option \in (Flag \cup Valued) \cup ({Option} \ Supported)
      BY <1>5 DEF UnexpectedValue, InvalidValue, UnexpectedOption
    <3> QED
      BY <1>3, <3>1, FlagsApart DEF AsksHelp, Supported
  <2>2. ~Acceptable(g)
    <3>1. CASE UnexpectedValue
      <4>1. Option \in Flag /\ Option \notin Valued /\ LastLetter /\ Attached # None
        BY <3>1, FlagsApart DEF UnexpectedValue
      <4>2. g.value = <<Attached>>
        BY <1>1, <4>1
      <4>3. g.value # <<>>
        BY <4>2
      <4> QED
        BY <1>3, <4>1, <4>3 DEF Acceptable
    <3>2. CASE InvalidValue
      <4>1. Option \in Valued /\ Option \notin Flag
            /\ (HasValue => ValueOf(Option, Value) = None)
        BY <3>2, FlagsApart DEF InvalidValue
      <4>2. g.value # <<>> => HasValue /\ g.value = <<Value>>
        BY <1>1, <4>1
      <4>3. g.value = <<Value>> => WordOf(g) = Value
        BY DEF WordOf
      <4> QED
        BY <1>3, <4>1, <4>2, <4>3 DEF Acceptable
    <3>3. CASE UnexpectedOption
      BY <1>3, <3>3 DEF UnexpectedOption, Acceptable
    <3> QED
      BY <1>5, <3>1, <3>2, <3>3
  <2> QED
    BY <1>0, <1>1, <1>2, <2>1, <2>2, ErrorExit DEF g
<1> QED
  BY <1>4, <1>5

\* The parser stops at a path that is no directory.
LEMMA PathExit ==
    ASSUME CommandInv, ReadInv, NoSuchDirectory, NEW h
    PROVE  ExitsWith(2, h)
<1> DEFINE w == Here.word
           g == PathGiven(w)
<1>0. /\ argv \in Argvs /\ Cursor /\ ParseAt(i, k, ended, opts) /\ ended \in BOOLEAN
      /\ AtPath /\ ~IsDirectory(w)
  BY DEF CommandInv, ReadInv, NoSuchDirectory, AtPath, Reading
<1>1. i \in 1 .. Len(argv) /\ k = 0 /\ Requests(i) = <<g>>
  BY <1>0, AtPathRequest
<1>2. g.name = "paths" /\ g.option = FALSE /\ WordOf(g) = w
  BY DEF PathGiven, WordOf
<1> HIDE DEF g, w
<1>3. ~Acceptable(g) /\ ~AsksHelp(g)
  BY <1>0, <1>2, FlagsApart DEF Acceptable, AsksHelp
<1>4. Requests(i)[0 + 1] = g /\ 0 \in 0 .. Len(Requests(i)) - 1
  BY <1>1
<1>5. Taken(ReadUpTo(i, 0), opts)
  BY <1>0, <1>1 DEF ParseAt
<1> QED
  BY <1>0, <1>1, <1>3, <1>4, <1>5, ErrorExit

\* At the end of the line everything has been read.
LEMMA AtEndRead ==
    ASSUME CommandInv, ReadInv, AtEnd
    PROVE  argv \in Argvs /\ Taken(Given, opts)
<1>0. argv \in Argvs /\ Cursor /\ ParseAt(i, k, ended, opts)
  BY DEF CommandInv, ReadInv, AtEnd
<1>1. i = Len(argv) + 1 /\ k = 0 /\ Len(argv) \in Nat
  <2>1. Len(argv) \in Nat /\ i \in 1 .. Len(argv) + 1 /\ i > Len(argv)
    BY <1>0, LineIs DEF Cursor, AtEnd
  <2> QED
    BY <1>0, <2>1 DEF Cursor
<1>2. ReadUpTo(i, k) = Given
  BY <1>0, <1>1, ReadEnds
<1> QED
  BY <1>0, <1>2 DEF ParseAt

\* No root, or both kinds of matcher: a usage error.
LEMMA IncompleteExit ==
    ASSUME CommandInv, ReadInv, Incomplete, NEW h
    PROVE  ExitsWith(2, h)
<1>1. argv \in Argvs /\ Taken(Given, opts) /\ (Conflict \/ opts["paths"] = <<>>)
  BY AtEndRead DEF Incomplete
<1>2. \A f \in {"paths", "name", "regex"} : opts[f] = <<>> <=> Mine(f, Given) = {}
  <2> TAKE f \in {"paths", "name", "regex"}
  <2>1. f \in Collected /\ Kept(opts, f, Given)
    BY <1>1 DEF Taken, Collected, Fields
  <2> QED
    BY <1>1, <2>1, ListHolds
<1>3. ~Helped(Given) /\ Misused(Given)
  BY <1>1, <1>2, AllAccepted DEF Taken, Conflict
<1> QED
  BY <1>3 DEF ExitsWith

\* After parse_inner nothing is wrong with the usage.
LEMMA SettledWell ==
    ASSUME CommandInv, ReadInv, pc \in {"register", "compile", "walk"}
    PROVE  argv \in Argvs /\ Settled(opts) /\ ~Helped(Given) /\ ~Misused(Given)
<1>1. argv \in Argvs /\ Settled(opts) /\ ~Conflict /\ opts["paths"] # <<>>
  BY DEF CommandInv, ReadInv, Prepared
<1>2. \A f \in {"paths", "name", "regex"} : opts[f] = <<>> <=> Mine(f, Given) = {}
  <2> TAKE f \in {"paths", "name", "regex"}
  <2>1. f \in Collected /\ Kept(opts, f, Given)
    BY <1>1 DEF Settled, Collected, Fields
  <2> QED
    BY <1>1, <2>1, ListHolds
<1>3. ~Helped(Given) /\ ~Misused(Given)
  BY <1>1, <1>2, AllAccepted DEF Settled, Conflict
<1> QED
  BY <1>1, <1>3

\* The exits of run.
LEMMA RunExit ==
    ASSUME CommandInv, ReadInv
    PROVE  /\ pc = "register" => \A h \in 0 .. StopSignals - 1 : ExitsWith(1, h)
           /\ BadPattern => \A h : ExitsWith(1, h)
           /\ WalkReturns => \A h : ExitsWith(0, h)
<1>1. ASSUME pc = "register", NEW h \in 0 .. StopSignals - 1 PROVE ExitsWith(1, h)
  <2>1. h < StopSignals
    BY DEF StopSignals
  <2> QED
    BY <1>1, <2>1, SettledWell DEF ExitsWith
<1>2. ASSUME BadPattern, NEW h PROVE ExitsWith(1, h)
  <2>1. pc = "compile" /\ ~AllCompile
    BY <1>2 DEF BadPattern
  <2>2. Broken(Given) /\ ~Helped(Given) /\ ~Misused(Given)
    BY <2>1, SettledWell, BrokenIs
  <2> QED
    BY <2>2 DEF ExitsWith
<1>3. ASSUME WalkReturns, NEW h PROVE ExitsWith(0, h)
  <2>1. pc = "walk" /\ AllCompile
    BY <1>3 DEF WalkReturns, CommandInv, Prepared
  <2>2. ~Broken(Given) /\ ~Helped(Given) /\ ~Misused(Given)
    BY <2>1, SettledWell, BrokenIs
  <2> QED
    BY <2>2 DEF ExitsWith
<1> QED
  BY <1>1, <1>2, <1>3

\* The last --threads is a number.
LEMMA ThreadsGiven ==
    ASSUME argv \in Argvs, \A g \in Range(Given) : Acceptable(g), Mine("threads", Given) # {}
    PROVE  LastOf("threads", Given) # None
<1> DEFINE A == Mine("threads", Given)
           g == Given[Max(A)]
<1>1. A \subseteq 1 .. Len(Given) /\ Len(Given) \in Nat
  BY ReadEnds DEF Mine
<1>2. Max(A) \in A
  <2> HIDE DEF A
  <2> QED
    BY <1>1, MaxIn DEF A
<1>3. g \in Range(Given) /\ Field(g.name) = "threads" /\ g \in Asked
  <2>1. \A m \in A : /\ m \in DOMAIN Given /\ Field(Given[m].name) = "threads"
                    /\ Given[m] \in Asked
    BY ReadEnds DEF Mine
  <2> HIDE DEF A
  <2> QED
    BY <1>2, <2>1 DEF Range
<1> HIDE DEF g
<1>4. Acceptable(g) /\ (g.option \/ g.name = "paths") /\ g.name \in Writer
  BY <1>3, AskedShape, AcceptableWrites
<1>5. g.name = "threads"
  BY <1>3 DEF Field
<1>6. ValueGiven(g) = ValueOf(g.name, WordOf(g)) /\ ValueOf(g.name, WordOf(g)) # None
  BY <1>4, <1>5, FlagsApart DEF Acceptable, ValueGiven
<1> QED
  BY <1>6 DEF LastOf, g

\* The end of parse_inner fills in the types and the threads that nobody asked for.
LEMMA FinishRead ==
    ASSUME CommandInv, ReadInv, Finish
    PROVE  Settled(opts')
<1>1. PICK cpus \in Cpus :
          opts' = [opts EXCEPT
              !["file-type"] = IF @ = <<>> THEN <<"Dir", "File", "Symlink">> ELSE @,
              !["threads"] = IF @ = None THEN DefaultThreads(cpus) ELSE @]
  BY DEF Finish
<1>2. argv \in Argvs /\ Taken(Given, opts)
  BY AtEndRead DEF Finish
<1>3. DOMAIN opts = Fields
  BY DEF CommandInv, OptsTyped
<1>4. /\ \A f \in Fields \ {"file-type", "threads"} : opts'[f] = opts[f]
      /\ opts'["file-type"] = IF opts["file-type"] = <<>> THEN <<"Dir", "File", "Symlink">>
                              ELSE opts["file-type"]
      /\ opts'["threads"] = IF opts["threads"] = None THEN DefaultThreads(cpus)
                            ELSE opts["threads"]
  BY <1>1, <1>3 DEF Fields, Collected, Single
<1> DEFINE p == opts'
<1> HIDE DEF p
<1>5. \A f \in Fields \ {"file-type", "threads"} : Kept(p, f, Given)
  <2> TAKE f \in Fields \ {"file-type", "threads"}
  <2>1. Kept(opts, f, Given) /\ p[f] = opts[f]
    BY <1>2, <1>4 DEF Taken, p
  <2> QED
    BY <2>1, Zenon DEF Kept
<1>6. ASSUME Mine("file-type", Given) # {} PROVE Kept(p, "file-type", Given)
  <2>1. Kept(opts, "file-type", Given) /\ "file-type" \in Collected
    BY <1>2 DEF Taken, Fields, Collected
  <2>2. opts["file-type"] # <<>>
    BY <1>2, <1>6, <2>1, ListHolds
  <2>3. p["file-type"] = opts["file-type"]
    BY <1>4, <2>2 DEF p
  <2> QED
    BY <2>1, <2>3, Zenon DEF Kept
<1>7. opts["threads"] = IF Mine("threads", Given) = {} THEN None ELSE LastOf("threads", Given)
  <2>1. Kept(opts, "threads", Given)
    BY <1>2 DEF Taken, Fields, Single
  <2>2. "threads" \notin Collected /\ Defaults["threads"] = None
    BY DEF Collected, Defaults, Switch, Single
  <2> QED
    BY <2>1, <2>2 DEF Kept
<1>8. CASE Mine("threads", Given) # {}
  <2>1. LastOf("threads", Given) # None
    BY <1>2, <1>8, ThreadsGiven DEF Taken
  <2>2. p["threads"] = LastOf("threads", Given)
    BY <1>4, <1>7, <1>8, <2>1 DEF p
  <2>3. Settled(p)
    BY <1>2, <1>5, <1>6, <1>8, <2>2 DEF Settled, Taken
  <2> QED
    BY <2>3 DEF p
<1>9. CASE Mine("threads", Given) = {}
  <2>1. p["threads"] = DefaultThreads(cpus) /\ p["idle"] = opts["idle"]
    BY <1>4, <1>7, <1>9 DEF p, Fields, Switch
  <2>2. p["idle"] => p["threads"] = 2
    BY <2>1 DEF DefaultThreads
  <2>3. Settled(p)
    BY <1>2, <1>5, <1>6, <1>9, <2>2 DEF Settled, Taken
  <2> QED
    BY <2>3 DEF p
<1> QED
  BY <1>8, <1>9

-----------------------------------------------------------------------------
(* The invariant of the reading                                            *)

\* A step of the parser that reads.
LEMMA KeepsReading ==
    ASSUME pc = "parse", pc' = "parse", argv' = argv, platform' = platform,
           ParseAt(i', k', ended', opts')
    PROVE  ReadInv'
<1>1. ParseAt(i, k, ended, opts)'
  BY SameReading
<1> QED
  BY <1>1 DEF ReadInv

\* A step that ends the process.
LEMMA KeepsExit ==
    ASSUME NEW c, Exit(c), ExitsWith(c, handlers)
    PROVE  ReadInv'
<1>1. pc' = "exit" /\ status' = c /\ handlers' = handlers /\ argv' = argv /\ platform' = platform
  BY DEF Exit
<1>2. ExitsWith(status', handlers')
  BY <1>1
<1>3. ExitsWith(status, handlers)'
  BY <1>1, <1>2, SameReading
<1> QED
  BY <1>1, <1>3 DEF ReadInv

\* A step of run that goes on.
LEMMA KeepsSettled ==
    ASSUME pc' \in {"register", "compile", "walk"}, argv' = argv, platform' = platform,
           Settled(opts')
    PROVE  ReadInv'
<1>1. Settled(opts)'
  BY SameReading
<1> QED
  BY <1>1 DEF ReadInv

\* Wherever the process is, it has read what the command line says: the parser's
\* cursor has gone past exactly the requests that a left-to-right reading makes of
\* the items before it, each of them was in order, and the locals are what those
\* requests ask for; the exit status is the one they deserve.
THEOREM ReadInvariant == Spec => []ReadInv
<1>1. Init => ReadInv
  <2> SUFFICES ASSUME Init PROVE ReadInv
    OBVIOUS
  <2>1. /\ argv \in Argvs /\ i = 1 /\ k = 0 /\ ended = FALSE /\ opts = Defaults /\ pc = "parse"
    BY DEF Init
  <2>2. Taken(ReadUpTo(1, 0), Defaults)
    <3>1. ReadUpTo(1, 0) = <<>>
      BY <2>1, ReadEnds
    <3>2. Range(<<>>) = {}
      BY DEF Range
    <3> QED
      BY <3>1, <3>2, KeptNone DEF Taken
  <2>3. 1 <= Len(argv) => Role[1] = RoleFor(FALSE, Line[1])
    <3> SUFFICES ASSUME 1 <= Len(argv) PROVE Role[1] = RoleFor(FALSE, Line[1])
      OBVIOUS
    <3>1. 1 \in 1 .. Len(argv)
      BY <2>1, LineIs
    <3>2. Role[1] = RoleAfter("word", 1)
      BY <2>1, <3>1, RoleIs
    <3> QED
      BY <3>2 DEF RoleAfter, RoleFor, IsOption
  <2>4. ParseAt(1, 0, FALSE, Defaults)
    <3>1. ~(0 > 0)
      OBVIOUS
    <3> QED
      BY <2>2, <2>3, <3>1, Zenon DEF ParseAt
  <2>5. ParseAt(i, k, ended, opts)
    BY <2>1, <2>4, Zenon
  <2> QED
    BY <2>1, <2>5 DEF ReadInv
<1>2. CommandInv /\ ReadInv /\ [Next]_vars => ReadInv'
  <2> SUFFICES ASSUME CommandInv, ReadInv, [Next]_vars PROVE ReadInv'
    OBVIOUS
  <2>1. CASE HelpOrVersion
    BY <2>1, OptionExit, KeepsExit DEF HelpOrVersion
  <2>2. CASE ReadFlag
    <3>1. pc = "parse" /\ pc' = pc /\ argv' = argv /\ platform' = platform
      BY <2>2 DEF ReadFlag, AtOption, Reading
    <3> QED
      BY <2>2, <3>1, FlagRead, KeepsReading
  <2>3. CASE UnexpectedValue
    BY <2>3, OptionExit, KeepsExit DEF UnexpectedValue
  <2>4. CASE ReadValued
    <3>1. pc = "parse" /\ pc' = pc /\ argv' = argv /\ platform' = platform
      BY <2>4 DEF ReadValued, AtOption, Reading
    <3> QED
      BY <2>4, <3>1, ValuedRead, KeepsReading
  <2>5. CASE InvalidValue
    BY <2>5, OptionExit, KeepsExit DEF InvalidValue
  <2>6. CASE UnexpectedOption
    BY <2>6, OptionExit, KeepsExit DEF UnexpectedOption
  <2>7. CASE EndOfOptions
    <3>1. pc = "parse" /\ pc' = pc /\ argv' = argv /\ platform' = platform
      BY <2>7 DEF EndOfOptions, Reading
    <3> QED
      BY <2>7, <3>1, EndRead, KeepsReading
  <2>8. CASE ReadPath
    <3>1. pc = "parse" /\ pc' = pc /\ argv' = argv /\ platform' = platform
      BY <2>8 DEF ReadPath, AtPath, Reading
    <3> QED
      BY <2>8, <3>1, PathRead, KeepsReading
  <2>9. CASE NoSuchDirectory
    BY <2>9, PathExit, KeepsExit DEF NoSuchDirectory
  <2>10. CASE Incomplete
    BY <2>10, IncompleteExit, KeepsExit DEF Incomplete
  <2>11. CASE Finish
    <3>1. pc' = "register" /\ argv' = argv /\ platform' = platform
      BY <2>11 DEF Finish
    <3> QED
      BY <2>11, <3>1, FinishRead, KeepsSettled
  <2>12. CASE Register
    <3>1. /\ pc = "register" /\ handlers' \in 0 .. StopSignals
          /\ argv' = argv /\ platform' = platform /\ opts' = opts
          /\ IF handlers' = StopSignals THEN pc' = "compile" ELSE pc' = "exit" /\ status' = 1
      BY <2>12 DEF Register
    <3>2. CASE handlers' = StopSignals
      <4>1. Settled(opts')
        BY <3>1, SettledWell
      <4> QED
        BY <3>1, <3>2, <4>1, KeepsSettled
    <3>3. CASE handlers' # StopSignals
      <4>1. handlers' \in 0 .. StopSignals - 1
        BY <3>1, <3>3 DEF StopSignals
      <4>2. ExitsWith(status', handlers')
        BY <3>1, <3>3, <4>1, RunExit
      <4>3. ExitsWith(status, handlers)'
        BY <3>1, <4>2, SameReading
      <4> QED
        BY <3>1, <3>3, <4>3 DEF ReadInv
    <3> QED
      BY <3>2, <3>3
  <2>13. CASE StartWalk
    <3>1. /\ pc = "compile" /\ pc' = "walk" /\ argv' = argv /\ platform' = platform
          /\ opts' = opts
      BY <2>13 DEF StartWalk
    <3>2. Settled(opts')
      BY <3>1, SettledWell
    <3> QED
      BY <3>1, <3>2, KeepsSettled
  <2>14. CASE BadPattern
    BY <2>14, RunExit, KeepsExit DEF BadPattern
  <2>15. CASE WalkReturns
    BY <2>15, RunExit, KeepsExit DEF WalkReturns
  <2>16. CASE Exited \/ UNCHANGED vars
    <3>1. UNCHANGED <<argv, platform, i, k, ended, opts, pc, handlers, status>>
      BY <2>16 DEF Exited, vars
    <3>2. CASE pc = "parse"
      <4>1. ParseAt(i', k', ended', opts')
        BY <3>1, <3>2 DEF ReadInv
      <4> QED
        BY <3>1, <3>2, <4>1, KeepsReading
    <3>3. CASE pc \in {"register", "compile", "walk"}
      <4>1. Settled(opts')
        BY <3>1, <3>3 DEF ReadInv
      <4> QED
        BY <3>1, <3>3, <4>1, KeepsSettled
    <3>4. CASE pc = "exit"
      <4>1. ExitsWith(status', handlers')
        BY <3>1, <3>4 DEF ReadInv
      <4>2. ExitsWith(status, handlers)'
        BY <3>1, <4>1, SameReading
      <4> QED
        BY <3>1, <3>4, <4>2 DEF ReadInv
    <3> QED
      BY <3>2, <3>3, <3>4 DEF CommandInv
  <2> QED
    BY <2>1, <2>2, <2>3, <2>4, <2>5, <2>6, <2>7, <2>8, <2>9, <2>10, <2>11, <2>12, <2>13,
       <2>14, <2>15, <2>16 DEF Next, Parse, Prepare
<1> QED
  BY <1>1, <1>2, CommandInvariant, PTL DEF Spec

\* The locals a walk starts with are what the command line, read as a whole from left
\* to right, asks for: the last value of each setting, all values of each list in
\* order, whatever mix of clusters, attached values, option look-alikes and "--".
THEOREM HonouredCorrect == Spec => []Honoured
<1>1. CommandInv /\ ReadInv => Honoured
  <2> SUFFICES ASSUME CommandInv, ReadInv, pc = "walk", NEW f \in DOMAIN opts
               PROVE  LET none == Mine(f, Given) = {} IN
                      IF f = "case-insensitive" THEN opts[f] = AnyCase(Given)
                      ELSE IF f \in Collected /\ ~(f = "file-type" /\ none)
                      THEN ListOf(opts[f], f, Given)
                      ELSE IF f \notin Collected /\ ~none THEN opts[f] = LastOf(f, Given)
                      ELSE IF f = "threads" THEN opts["idle"] => opts[f] = 2
                      ELSE f # "file-type" => opts[f] = Defaults[f]
    BY DEF Honoured
  <2>1. Settled(opts) /\ f \in Fields
    BY DEF CommandInv, ReadInv, OptsTyped
  <2>2. CASE f = "case-insensitive"
    BY <2>1, <2>2 DEF Settled, Kept
  <2>3. CASE f = "threads"
    BY <2>1, <2>3 DEF Settled, Collected
  <2>4. CASE f = "file-type"
    BY <2>1, <2>4 DEF Settled, Kept, Collected
  <2>5. CASE f \notin {"case-insensitive", "threads", "file-type"}
    <3>1. Kept(opts, f, Given)
      BY <2>1, <2>5 DEF Settled
    <3> QED
      BY <2>5, <3>1 DEF Kept
  <2> QED
    BY <2>2, <2>3, <2>4, <2>5
<1> QED
  BY <1>1, CommandInvariant, ReadInvariant, PTL

\* The exit status is the manual's: 2 exactly for a usage error before any --help, 0
\* for help or a run whose patterns compile, 1 for a pattern that does not compile or
\* a handler that cannot be installed.
THEOREM ExitCorrect == Spec => []ExitStatus
<1>1. ReadInv => ExitStatus
  BY DEF ReadInv, ExitStatus, ExitsWith
<1> QED
  BY <1>1, ReadInvariant, PTL

=============================================================================
