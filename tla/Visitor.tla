------------------------------ MODULE Visitor -------------------------------
(***************************************************************************)
(* The filter cascade one walker thread runs on each entry (the visitor    *)
(* closure of run in src/lib.rs), with its lazy stat (StatAt in            *)
(* src/walk.rs, do_stat in src/walk/unix.rs) and its NssCache              *)
(* (src/meta.rs). Meanwhile accounts may come and go in the user database. *)
(* Shutdown, batching and the channel are in module Output.                *)
(***************************************************************************)
EXTENDS Meta, FiniteSets

CONSTANTS
    Scenario,      \* what may be run: [args, entries, passwd, groups]
    Now,           \* now_secs() when run started
    Ticks,         \* how fine file times are: ticks of a second
    OwnerId,       \* the uids and gids that may be created or deleted
    MaxChanges,    \* how often that happens during the walk
    NssMayFail     \* whether a lookup may end in an error

\* -name, -regex, -path and -lname: an entry lists those whose pattern it hits
TextFilter == {"name", "regex", "path", "lname"}
Access == {"READ", "WRITE", "EXEC"}
Syscall == {"empty", "readlink", "stat", "access"}

Arguments == [types : SUBSET (EntryType \cup {"Empty"}), minDepth : Nat,
              text : SUBSET TextFilter, access : SUBSET Access,
              preds : Predicates, clauses : Seq(Clause),
              newerFiles : SUBSET [mtime : Int, field : TimeField]]

\* file_mtime of a reference file modified at this tick
RefSeconds(mtime) == FileMtime(mtime \div Ticks)

\* an entry as the walker hands it over, with what its system calls would say
\* and which of them may fail
EntryRecord == [id : Nat, type : EntryType, depth : Nat, empty : BOOLEAN,
                hits : SUBSET TextFilter, meta : Metadata,
                access : SUBSET Access, flaky : SUBSET Syscall]

ASSUME ScenarioAssumption ==
    /\ Now \in I64 /\ Ticks \in Nat \ {0} /\ OwnerId \subseteq Nat /\ MaxChanges \in Nat
    /\ NssMayFail \in BOOLEAN
    /\ \A s \in Scenario : /\ s.args \in Arguments
                           \* --perm: preds.perm was parsed from the clauses
                           /\ s.args.preds.perm # None =>
                                 s.args.preds.perm.mode = SymbolicMode(s.args.clauses)
                           \* --newer: preds.newer holds their times
                           /\ s.args.preds.newer =
                                 {[ref |-> RefSeconds(f.mtime), field |-> f.field] : f \in s.args.newerFiles}
                           /\ s.entries \subseteq EntryRecord
                           /\ s.passwd \subseteq Nat /\ s.groups \subseteq Nat

VARIABLES
    args,      \* the parsed command line; never changes
    rest,      \* entries still to come
    entry,     \* the entry being judged, or None
    pc,        \* the filter it has reached
    meta,      \* the Meta its stat returned
    users,     \* NssCache.users: a function from the uids looked up
    groups,    \* NssCache.groups
    passwd,    \* the uids that have a passwd entry now
    group,     \* the gids that have a group entry now
    changes,
    kept, skipped,   \* the verdicts given
    uidAlways, gidAlways,   \* history: ids with an entry all along
    uidEver, gidEver,       \* history: ids with an entry at some time
    failed,                 \* history: <<entry, system call>> that failed
    uidFailed, gidFailed    \* history: ids whose lookup ended in an error

userHistory == <<uidAlways, uidEver>>
groupHistory == <<gidAlways, gidEver>>
db == <<passwd, group, changes, userHistory, groupHistory>>
lookups == <<users, groups, uidFailed, gidFailed>>
vars == <<args, rest, entry, pc, meta, users, groups, passwd, group, changes,
          kept, skipped, uidAlways, gidAlways, uidEver, gidEver,
          failed, uidFailed, gidFailed>>

Init ==
    /\ \E s \in Scenario :
          /\ args = s.args /\ rest = s.entries
          /\ passwd = s.passwd /\ group = s.groups
    /\ entry = None /\ pc = "idle" /\ meta = None
    /\ users = <<>> /\ groups = <<>> /\ changes = 0
    /\ kept = {} /\ skipped = {}
    /\ uidAlways = passwd /\ uidEver = passwd
    /\ gidAlways = group /\ gidEver = group
    /\ failed = {} /\ uidFailed = {} /\ gidFailed = {}

\* an account is created or deleted while the walk runs
ChangeUser ==
    /\ changes < MaxChanges /\ changes' = changes + 1
    /\ \E i \in OwnerId : passwd' = (passwd \cup {i}) \ (passwd \cap {i})
    /\ uidAlways' = uidAlways \cap passwd' /\ uidEver' = uidEver \cup passwd'
    /\ UNCHANGED <<args, rest, entry, pc, meta, group, kept, skipped, failed, lookups, groupHistory>>

ChangeGroup ==
    /\ changes < MaxChanges /\ changes' = changes + 1
    /\ \E i \in OwnerId : group' = (group \cup {i}) \ (group \cap {i})
    /\ gidAlways' = gidAlways \cap group' /\ gidEver' = gidEver \cup group'
    /\ UNCHANGED <<args, rest, entry, pc, meta, passwd, kept, skipped, failed, lookups, userHistory>>

-----------------------------------------------------------------------------
Skip ==
    /\ skipped' = skipped \cup {entry} /\ entry' = None /\ pc' = "idle"
    /\ meta' = None /\ UNCHANGED kept

Goto(l) == pc' = l /\ UNCHANGED <<entry, kept, skipped>>

\* a system call on the entry fails, which every filter takes for a no
Fails(call) ==
    /\ call \in entry.flaky /\ failed' = failed \cup {<<entry, call>>}
    /\ Skip /\ UNCHANGED <<args, rest, lookups, db>>

Visit ==
    /\ pc = "idle"
    /\ \E e \in rest : entry' = e /\ rest' = rest \ {e}
    /\ pc' = "cheap"
    /\ UNCHANGED <<args, meta, kept, skipped, failed, lookups, db>>

\* mutant: <= for <
RejectsAtMinDepth(e, empty, target) ==
    \/ e.depth <= args.minDepth
    \/ IgnoreFiletype(args.types, e.type, empty)
    \/ (args.text \ {"lname"}) \ e.hits # {}
    \/ "lname" \in args.text /\ (e.type # "Symlink" \/ ~target)

\* the filters that need no metadata, cheapest first
Rejects(e, empty, target) ==
    \/ e.depth < args.minDepth
    \/ IgnoreFiletype(args.types, e.type, empty)
    \/ (args.text \ {"lname"}) \ e.hits # {}
    \/ "lname" \in args.text /\ (e.type # "Symlink" \/ ~target)

CheapFilters ==
    /\ pc = "cheap"
    /\ IF Rejects(entry, entry.empty, "lname" \in entry.hits)
       THEN Skip
       ELSE Goto(IF IsActive(args.preds) THEN "stat" ELSE "access") /\ UNCHANGED meta
    /\ UNCHANGED <<args, rest, failed, lookups, db>>

\* is_empty: called for --empty on an entry of a type and depth wanted
EmptyFails ==
    /\ pc = "cheap" /\ "Empty" \in args.types
    /\ entry.depth >= args.minDepth /\ entry.type \in Selected(args.types)
    /\ Fails("empty")

\* readlink: called for --lname on a link that passed the filters before
ReadlinkFails ==
    /\ pc = "cheap" /\ "lname" \in args.text /\ ~Rejects(entry, entry.empty, TRUE)
    /\ Fails("readlink")

Zero == [size |-> 0, mtime |-> 0, ctime |-> 0, atime |-> 0, mode |-> {},
         uid |-> 0, gid |-> 0, nlink |-> 0, ino |-> 0]

\* statx answers the fields asked for and may leave the others blank
Fetched(e, filled) ==
    [f \in DOMAIN Zero |->
        IF filled \/ f \in Mask(args.preds) THEN e.meta[f] ELSE Zero[f]]

Fetch ==
    /\ pc = "stat"
    /\ \E filled \in BOOLEAN :
          LET m == Fetched(entry, filled) IN
          IF Matches(args.preds, m, Now)
          THEN Goto("user") /\ meta' = m
          ELSE Skip
    /\ UNCHANGED <<args, rest, failed, lookups, db>>

\* mutant: an entry that cannot be stat'ed goes on to the next filter
FetchFailsGoesOn ==
    /\ pc = "stat" /\ "stat" \in entry.flaky
    /\ Goto("user") /\ UNCHANGED meta
    /\ UNCHANGED <<args, rest, failed, lookups, db>>

\* unstattable: skipped
FetchFails == pc = "stat" /\ Fails("stat")

\* mutant: a lookup that found nothing returns 0 as well
NssExistsByStatus(known, i) == TRUE

\* getpwuid_r or getgrgid_r without an error
NssExists(known, i) == i \in known

\* mutant: every entry asks the database again
ResolveUncached(cache, known, i) == NssExists(known, i)

\* user_exists, group_exists: HashMap::entry(id).or_insert_with(lookup)
Resolve(cache, known, i) == IF i \in DOMAIN cache THEN cache[i] ELSE NssExists(known, i)

Memo(cache, i, answer) ==
    [j \in DOMAIN cache \cup {i} |-> IF j = i THEN answer ELSE cache[j]]

CheckUser ==
    /\ pc = "user"
    /\ IF args.preds.nouser
       THEN LET answer == Resolve(users, passwd, meta.uid) IN
            /\ users' = Memo(users, meta.uid, answer)
            /\ IF answer THEN Skip ELSE Goto("group") /\ UNCHANGED meta
       ELSE Goto("group") /\ UNCHANGED <<users, meta>>
    /\ UNCHANGED <<args, rest, groups, failed, uidFailed, gidFailed, db>>

\* the lookup ends in an error: the owner is assumed to have an entry
UserLookupFails ==
    /\ pc = "user" /\ args.preds.nouser /\ meta.uid \notin DOMAIN users /\ NssMayFail
    /\ users' = Memo(users, meta.uid, TRUE) /\ uidFailed' = uidFailed \cup {meta.uid}
    /\ Skip /\ UNCHANGED <<args, rest, groups, failed, gidFailed, db>>

CheckGroup ==
    /\ pc = "group"
    /\ IF args.preds.nogroup
       THEN LET answer == Resolve(groups, group, meta.gid) IN
            /\ groups' = Memo(groups, meta.gid, answer)
            /\ IF answer THEN Skip ELSE Goto("access") /\ UNCHANGED meta
       ELSE Goto("access") /\ UNCHANGED <<groups, meta>>
    /\ UNCHANGED <<args, rest, users, failed, uidFailed, gidFailed, db>>

GroupLookupFails ==
    /\ pc = "group" /\ args.preds.nogroup /\ meta.gid \notin DOMAIN groups /\ NssMayFail
    /\ groups' = Memo(groups, meta.gid, TRUE) /\ gidFailed' = gidFailed \cup {meta.gid}
    /\ Skip /\ UNCHANGED <<args, rest, users, failed, uidFailed, db>>

\* faccessat with every bit asked for at once; no bit asked for, no call
CheckAccess ==
    /\ pc = "access"
    /\ IF args.access \subseteq entry.access
       THEN /\ kept' = kept \cup {entry} /\ entry' = None /\ pc' = "idle"
            /\ meta' = None /\ UNCHANGED skipped
       ELSE Skip
    /\ UNCHANGED <<args, rest, failed, lookups, db>>

AccessFails == pc = "access" /\ args.access # {} /\ Fails("access")

Finished == pc = "idle" /\ rest = {} /\ UNCHANGED vars

Judge == \/ Visit \/ CheapFilters \/ EmptyFails \/ ReadlinkFails
         \/ Fetch \/ FetchFails \/ CheckUser \/ UserLookupFails
         \/ CheckGroup \/ GroupLookupFails \/ CheckAccess \/ AccessFails

Next == Judge \/ ChangeUser \/ ChangeGroup \/ Finished

Spec == Init /\ [][Next]_vars

-----------------------------------------------------------------------------
(* Properties                                                              *)

TypeOK ==
    /\ args \in Arguments
    /\ rest \subseteq EntryRecord /\ kept \subseteq EntryRecord /\ skipped \subseteq EntryRecord
    /\ pc \in {"idle", "cheap", "stat", "user", "group", "access"}
    /\ entry \in EntryRecord \cup {None} /\ (pc # "idle" => entry \in EntryRecord)
    /\ pc \in {"user", "group"} => meta \in Metadata
    /\ DOMAIN users \subseteq Nat /\ DOMAIN groups \subseteq Nat
    /\ passwd \subseteq Nat /\ group \subseteq Nat /\ changes \in 0 .. MaxChanges

\* What the filters that need no stat mean, said of the entry.
CheapHolds(e) ==
    /\ ~(e.depth < args.minDepth)
    /\ e.type \in Selected(args.types) /\ ("Empty" \in args.types => e.empty)
    /\ args.text \subseteq e.hits /\ ("lname" \in args.text => e.type = "Symlink")

\* An entry is reported only when its complete metadata satisfies every filter,
\* though the stat left fields blank, and -nouser or -nogroup reports no owner
\* that had an account all along, though lookups fail and answers are cached.
KeptSound ==
    \A e \in kept :
        /\ CheapHolds(e) /\ args.access \subseteq e.access
        /\ Matches(args.preds, e.meta, Now)
        /\ args.preds.nouser => e.meta.uid \notin uidAlways
        /\ args.preds.nogroup => e.meta.gid \notin gidAlways

Erred(e) == \E call \in Syscall : <<e, call>> \in failed

\* Nothing is left out without a reason: a filter it fails, a system call that did
\* fail on it, an owner that had an account at some time, or one whose lookup did
\* end in an error. A call or a lookup that merely may fail is no reason.
SkippedJustified ==
    \A e \in skipped :
        \/ ~CheapHolds(e) \/ ~(args.access \subseteq e.access)
        \/ ~Matches(args.preds, e.meta, Now)
        \/ Erred(e)
        \/ args.preds.nouser /\ e.meta.uid \in uidEver \cup uidFailed
        \/ args.preds.nogroup /\ e.meta.gid \in gidEver \cup gidFailed

\* One thread gives all files of an owner the same answer, even when the account
\* is created or deleted between two of them or a lookup fails once.
OwnersAgree ==
    \A d \in kept, e \in skipped :
        /\ args.preds.nouser \/ args.preds.nogroup
        /\ d.meta.uid = e.meta.uid /\ d.meta.gid = e.meta.gid
        /\ CheapHolds(e) /\ args.access \subseteq e.access /\ ~Erred(e)
        => ~Matches(args.preds, e.meta, Now)

-----------------------------------------------------------------------------
(* What the manual and the comments of meta.rs say the predicates mean,     *)
(* without division, clamping or folds                                     *)

\* The size rounded up to units: N of them cover what is above (N-1)*unit, up to
\* N*unit.
SizeMeans(p, size) ==
    LET n == p.cmp.n IN
    /\ p.cmp.op = "Exact" => (n - 1) * p.unit < size /\ size <= n * p.unit
    /\ p.cmp.op = "Greater" => size > n * p.unit
    /\ p.cmp.op = "Less" => size <= (n - 1) * p.unit

\* The age in whole units, the rest discarded: the N-th period back starts N units
\* ago, and +N is a full period further.
TimeMeans(p, age) ==
    LET n == p.cmp.n IN
    /\ p.cmp.op = "Exact" => n * p.unit <= age /\ age < (n + 1) * p.unit
    /\ p.cmp.op = "Greater" => age >= (n + 1) * p.unit
    /\ p.cmp.op = "Less" => age < n * p.unit

NumberMeans(c, v) ==
    /\ c.op = "Exact" => v = c.n
    /\ c.op = "Greater" => v > c.n
    /\ c.op = "Less" => v < c.n

\* A bit is in a symbolic mode iff the last clause that decides it sets it.
Sets(c, b) == c.op # "-" /\ b \in ClauseBits(c)
Decides(c, b) == b \in ClauseBits(c) \/ (c.op = "=" /\ b[1] \in Who(c))
LastWord(cs) ==
    {b \in PermBit : \E i \in DOMAIN cs :
        Sets(cs[i], b) /\ \A j \in i + 1 .. Len(cs) : Decides(cs[j], b) => Sets(cs[j], b)}

\* Exactly these bits, all of these bits, any of these bits (/000 is any file).
PermMeans(kind, mode, m) ==
    \A b \in PermBit :
        /\ kind = "Exact" => (b \in m <=> b \in mode)
        /\ kind = "AllOf" => (b \in mode => b \in m)
        /\ kind = "AnyOf" /\ mode # {} => \E c \in mode : c \in m

Means(p, m) ==
    /\ p.size # None => SizeMeans(p.size, m.size)
    /\ \A t \in p.times : TimeMeans(t, Now - m[t.field])
    /\ p.uid # None => NumberMeans(p.uid, m.uid)
    /\ p.gid # None => NumberMeans(p.gid, m.gid)
    /\ p.links # None => NumberMeans(p.links, m.nlink)
    /\ p.inum # None => NumberMeans(p.inum, m.ino)
    \* the file's second began after the reference was modified
    /\ \A f \in args.newerFiles : m[f.field] * Ticks > f.mtime
    /\ p.perm # None => PermMeans(p.perm.kind, LastWord(args.clauses), m.mode)

\* the comparisons of unsigned fields: <<threshold, value>>
U64Tests(p, m) ==
    {t \in {<<p.uid, m.uid>>, <<p.gid, m.gid>>, <<p.links, m.nlink>>, <<p.inum, m.ino>>} :
        t[1] # None}
    \cup (IF p.size = None THEN {} ELSE {<<p.size.cmp, DivCeil(m.size, p.size.unit)>>})

\* Where that meaning is not what the code computes: a number clamped onto the
\* threshold, a negative threshold, an age that wraps, a file less than a unit in
\* the future (its age is truncated to 0), a reference file older than the epoch.
Regular(p, m) ==
    /\ \A t \in U64Tests(p, m) : t[1].n = IMax => t[2] <= IMax
    /\ \A t \in p.times :
          LET age == Now - m[t.field] IN
          age \in I64 /\ t.cmp.n >= 0 /\ (t.cmp.n = 0 => age >= 0 \/ age <= -t.unit)
    /\ \A f \in args.newerFiles : f.mtime >= 0 \/ m[f.field] > 0

\* The 64-bit arithmetic of meta.rs (rounding, truncating, clamping, reference times
\* cut to seconds) decides as the documents say, but for the cases Regular excludes.
MatchesAsDocumented ==
    \A e \in kept \cup skipped :
        Regular(args.preds, e.meta) =>
            (Matches(args.preds, e.meta, Now) <=> Means(args.preds, e.meta))

\* -newer reports no file that is not newer than the reference, wherever the two
\* times are cut or clamped.
NewerSound ==
    \A e \in kept : \A f \in args.newerFiles : e.meta[f.field] * Ticks > f.mtime

\* The comment on Comparison::matches_u64: "clamping preserves every verdict".
ClampingPreservesVerdicts ==
    \A e \in kept \cup skipped : \A t \in U64Tests(args.preds, e.meta) :
        CmpMatchesU64(t[1], t[2]) <=> CmpMatches(t[1], t[2])
=============================================================================
