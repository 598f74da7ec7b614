---------------------------- MODULE VisitorProofs ----------------------------
(***************************************************************************)
(* What holds of the filters for every width, command line and entry: the  *)
(* statx mask covers what the predicates read, their 64-bit arithmetic     *)
(* decides as documented, and a visitor with blank fields, failing calls   *)
(* and a cache reports what satisfies every filter and drops nothing       *)
(* without a reason.                                                       *)
(***************************************************************************)
EXTENDS Visitor, Recursion

\* Mask asks for every field that Matches reads (Predicates::mask against
\* Predicates::matches), so the verdict does not depend on any other.
THEOREM MaskSufficient ==
    ASSUME NEW p, NEW m, NEW n, NEW now,
           \A f \in Mask(p) : m[f] = n[f]
    PROVE  Matches(p, m, now) <=> Matches(p, n, now)
<1>1. p.size # None => m.size = n.size
  BY DEF Mask
<1>2. p.perm # None => m.mode = n.mode
  BY DEF Mask
<1>3. p.uid # None => m.uid = n.uid
  BY DEF Mask
<1>4. p.gid # None => m.gid = n.gid
  BY DEF Mask
<1>5. p.links # None => m.nlink = n.nlink
  BY DEF Mask
<1>6. p.inum # None => m.ino = n.ino
  BY DEF Mask
<1>7. \A t \in p.times : m[t.field] = n[t.field]
  BY DEF Mask
<1>8. \A t \in p.newer : m[t.field] = n[t.field]
  BY DEF Mask
<1>9. \A t \in p.times : TimeMatches(t, m, now) <=> TimeMatches(t, n, now)
  BY <1>7 DEF TimeMatches
<1>10. \A t \in p.newer : NewerMatches(t, m) <=> NewerMatches(t, n)
  BY <1>8 DEF NewerMatches
<1> QED
  BY <1>1, <1>2, <1>3, <1>4, <1>5, <1>6, <1>9, <1>10 DEF Matches

\* The stat is skipped (is_active is false) exactly when no field would be asked
\* for, and then every entry passes the predicates.
THEOREM ActiveIffMasked ==
    ASSUME NEW p \in Predicates
    PROVE  /\ IsActive(p) <=> Mask(p) # {}
           /\ ~IsActive(p) => \A m, now : Matches(p, m, now)
<1>1. ASSUME IsActive(p) PROVE Mask(p) # {}
  BY <1>1 DEF IsActive, Mask
<1>2. ASSUME ~IsActive(p) PROVE Mask(p) = {}
  BY <1>2 DEF IsActive, Mask
<1>3. ASSUME ~IsActive(p) PROVE \A m, now : Matches(p, m, now)
  BY <1>3 DEF IsActive, Matches
<1> QED
  BY <1>1, <1>2, <1>3

\* Comparison::matches_u64: clamping to i64::MAX changes a verdict exactly when the
\* threshold is i64::MAX itself, the number is above it, and "equal" or "greater" is
\* asked for.
THEOREM SaturationExact ==
    ASSUME NEW c \in Comparison, NEW v \in Nat
    PROVE  (CmpMatchesU64(c, v) <=> CmpMatches(c, v)) <=> ~(c.n = IMax /\ v > IMax /\ c.op # "Less")
<1>1. c.n \in Int /\ c.op \in {"Exact", "Greater", "Less"} /\ IMax \in Nat /\ c.n <= IMax
  BY WidthAssumption DEF Comparison, I64
<1>2. CmpMatchesU64(c, v) <=> IF v <= IMax THEN CmpMatches(c, v) ELSE CmpMatches(c, IMax)
  BY DEF CmpMatchesU64, Saturate
<1>3. CASE c.op = "Exact"
  BY <1>1, <1>2, <1>3 DEF CmpMatches
<1>4. CASE c.op = "Greater"
  BY <1>1, <1>2, <1>4 DEF CmpMatches
<1>5. CASE c.op = "Less"
  BY <1>1, <1>2, <1>5 DEF CmpMatches
<1> QED
  BY <1>1, <1>3, <1>4, <1>5

-----------------------------------------------------------------------------
\* What the visitor knows at each filter about the entry it is judging, and what
\* its cache is worth: an id it remembers as missing was missing at some time.
Judging ==
    /\ pc \in {"stat", "user", "group", "access"} => CheapHolds(entry)
    /\ pc \in {"user", "group"} =>
          \A f \in Mask(args.preds) : meta[f] = entry.meta[f]
    /\ pc \in {"user", "group", "access"} => Matches(args.preds, entry.meta, Now)
    /\ pc \in {"group", "access"} /\ args.preds.nouser => entry.meta.uid \notin uidAlways
    /\ pc = "access" /\ args.preds.nogroup => entry.meta.gid \notin gidAlways

Remembers(cache, always) ==
    \A i \in DOMAIN cache : cache[i] \in BOOLEAN /\ (~cache[i] => i \notin always)

CacheSound ==
    /\ uidAlways \subseteq passwd /\ gidAlways \subseteq group
    /\ Remembers(users, uidAlways) /\ Remembers(groups, gidAlways)

VisitorInv == args.preds \in Predicates /\ Judging /\ CacheSound /\ KeptSound

\* Init establishes the invariant: nothing is judged or cached yet.
LEMMA InitVisitor == Init => VisitorInv
<1> SUFFICES ASSUME Init PROVE VisitorInv
  OBVIOUS
<1>1. PICK s \in Scenario : args = s.args /\ passwd = s.passwd /\ group = s.groups
  BY DEF Init
<1>2. args.preds \in Predicates
  BY <1>1, ScenarioAssumption DEF Arguments
<1>4. Judging /\ KeptSound
  BY DEF Init, Judging, KeptSound
<1>5. CacheSound
  BY DEF Init, CacheSound, Remembers
<1> QED
  BY <1>2, <1>4, <1>5 DEF VisitorInv

\* do_stat fills a field for every bit of the mask.
LEMMA MaskFilled ==
    ASSUME args.preds \in Predicates, NEW e, NEW filled \in BOOLEAN
    PROVE  \A f \in Mask(args.preds) : Fetched(e, filled)[f] = e.meta[f]
<1>1. Mask(args.preds) \subseteq {"size", "mtime", "ctime", "atime", "mode", "uid", "gid", "nlink", "ino"}
  BY DEF Mask, Predicates, TimePred, NewerPred, TimeField
<1>2. Mask(args.preds) \subseteq DOMAIN Zero
  BY <1>1 DEF Zero
<1> QED
  BY <1>2 DEF Fetched

\* An entry that is skipped, or merely looked at, changes nothing reported.
LEMMA SkipStep ==
    ASSUME VisitorInv, Skip, UNCHANGED args, UNCHANGED db, CacheSound'
    PROVE  VisitorInv'
<1>1. Judging'
  BY DEF Skip, Judging
<1>2. KeptSound'
  BY DEF Skip, KeptSound, VisitorInv, CheapHolds, db, userHistory, groupHistory
<1> QED
  BY <1>1, <1>2 DEF VisitorInv

\* A lookup's "no such id", remembered or fresh, means that the id was missing at
\* some time; the answer a lookup error gives is never "no such id".
LEMMA ResolveSound ==
    ASSUME NEW cache, NEW known, NEW always, NEW i, NEW answer,
           always \subseteq known, Remembers(cache, always),
           answer = TRUE \/ answer = Resolve(cache, known, i)
    PROVE  /\ answer \in BOOLEAN
           /\ ~answer => i \notin always
           /\ Remembers(Memo(cache, i, answer), always)
<1>0. answer \in BOOLEAN
  <2>1. CASE i \in DOMAIN cache /\ answer = cache[i]
    BY <2>1, Zenon DEF Remembers
  <2>2. CASE answer = (i \in known)
    BY <2>2
  <2> QED
    BY <2>1, <2>2, Zenon DEF Resolve, NssExists
<1>1. ~answer => i \notin always
  BY Zenon DEF Resolve, NssExists, Remembers
<1>2. DOMAIN Memo(cache, i, answer) = DOMAIN cache \cup {i}
  BY DEF Memo
<1>3. \A j \in DOMAIN cache \cup {i} :
         Memo(cache, i, answer)[j] = IF j = i THEN answer ELSE cache[j]
  BY DEF Memo
<1> QED
  BY <1>0, <1>1, <1>2, <1>3 DEF Remembers

\* What -nouser does with its answer: from the cache, the database or an error.
UserAnswer(answer) ==
    /\ \/ answer = Resolve(users, passwd, meta.uid) /\ uidFailed' = uidFailed
       \/ /\ answer = TRUE /\ meta.uid \notin DOMAIN users
          /\ uidFailed' = uidFailed \cup {meta.uid}
    /\ users' = Memo(users, meta.uid, answer)
    /\ answer => Skip
    /\ ~answer => Goto("group") /\ UNCHANGED meta

LEMMA UserAnswered ==
    ASSUME args.preds.nouser, CheckUser \/ UserLookupFails
    PROVE  \E answer : UserAnswer(answer)
<1>1. CASE CheckUser
  <2> DEFINE a == Resolve(users, passwd, meta.uid)
  <2>1. /\ uidFailed' = uidFailed /\ users' = Memo(users, meta.uid, a)
        /\ IF a THEN Skip ELSE Goto("group") /\ UNCHANGED meta
    BY <1>1 DEF CheckUser
  <2>2. UserAnswer(a)
    BY <2>1 DEF UserAnswer
  <2> QED
    BY <2>2
<1>2. CASE UserLookupFails
  <2>1. UserAnswer(TRUE)
    BY <1>2 DEF UserLookupFails, UserAnswer
  <2> QED
    BY <2>1
<1> QED
  BY <1>1, <1>2

\* What -nogroup does with its answer: from the cache, the database or an error.
GroupAnswer(answer) ==
    /\ \/ answer = Resolve(groups, group, meta.gid) /\ gidFailed' = gidFailed
       \/ /\ answer = TRUE /\ meta.gid \notin DOMAIN groups
          /\ gidFailed' = gidFailed \cup {meta.gid}
    /\ groups' = Memo(groups, meta.gid, answer)
    /\ answer => Skip
    /\ ~answer => Goto("access") /\ UNCHANGED meta

LEMMA GroupAnswered ==
    ASSUME args.preds.nogroup, CheckGroup \/ GroupLookupFails
    PROVE  \E answer : GroupAnswer(answer)
<1>1. CASE CheckGroup
  <2> DEFINE a == Resolve(groups, group, meta.gid)
  <2>1. /\ gidFailed' = gidFailed /\ groups' = Memo(groups, meta.gid, a)
        /\ IF a THEN Skip ELSE Goto("access") /\ UNCHANGED meta
    BY <1>1 DEF CheckGroup
  <2>2. GroupAnswer(a)
    BY <2>1 DEF GroupAnswer
  <2> QED
    BY <2>2
<1>2. CASE GroupLookupFails
  <2>1. GroupAnswer(TRUE)
    BY <1>2 DEF GroupLookupFails, GroupAnswer
  <2> QED
    BY <2>1
<1> QED
  BY <1>1, <1>2

\* Every step of the visitor and of the user database keeps the invariant.
LEMMA VisitorStep == VisitorInv /\ [Next]_vars => VisitorInv'
<1> SUFFICES ASSUME VisitorInv, [Next]_vars PROVE VisitorInv'
  OBVIOUS
<1>a. /\ args.preds \in Predicates /\ Judging /\ CacheSound /\ KeptSound
  BY DEF VisitorInv
<1>1. CASE Visit
  <2>1. Judging'
    BY <1>1 DEF Visit, Judging
  <2>2. CacheSound' /\ KeptSound' /\ args' = args
    BY <1>1, <1>a DEF Visit, lookups, CacheSound, KeptSound, CheapHolds, db, userHistory, groupHistory
  <2> QED
    BY <2>1, <2>2, <1>a DEF VisitorInv
<1>2. CASE CheapFilters
  <2>0. UNCHANGED <<args, users, groups, db>>
    BY <1>2 DEF CheapFilters, lookups
  <2>1. CacheSound'
    BY <2>0, <1>a DEF CacheSound, db, userHistory, groupHistory
  <2>2. CASE Skip
    BY <2>0, <2>1, <2>2, SkipStep
  <2>3. CASE ~Skip
    <3>1. /\ ~Rejects(entry, entry.empty, "lname" \in entry.hits)
          /\ Goto(IF IsActive(args.preds) THEN "stat" ELSE "access")
          /\ UNCHANGED meta
      BY <1>2, <2>3 DEF CheapFilters
    <3>2. CheapHolds(entry)
      BY <3>1 DEF Rejects, CheapHolds, IgnoreFiletype
    <3>3. CheapHolds(entry)'
      BY <3>1, <3>2, <2>0 DEF CheapHolds, Goto
    <3>4. ~IsActive(args.preds) => /\ Matches(args.preds, entry.meta, Now)
                                   /\ ~args.preds.nouser /\ ~args.preds.nogroup
      BY <1>a, ActiveIffMasked DEF IsActive
    <3>5. Judging'
      BY <3>1, <3>3, <3>4, <2>0 DEF Judging, Goto
    <3>6. KeptSound'
      BY <3>1, <2>0, <1>a DEF KeptSound, CheapHolds, Goto, db, userHistory, groupHistory
    <3> QED
      BY <3>5, <3>6, <2>0, <2>1, <1>a DEF VisitorInv
  <2> QED
    BY <2>2, <2>3
<1>3. CASE Fetch
  <2>0. UNCHANGED <<args, users, groups, db>>
    BY <1>3 DEF Fetch, lookups
  <2>1. CacheSound'
    BY <2>0, <1>a DEF CacheSound, db, userHistory, groupHistory
  <2>2. CASE Skip
    BY <2>0, <2>1, <2>2, SkipStep
  <2>3. CASE ~Skip
    <3>1. PICK filled \in BOOLEAN : /\ Matches(args.preds, Fetched(entry, filled), Now)
                                    /\ Goto("user") /\ meta' = Fetched(entry, filled)
      BY <1>3, <2>3 DEF Fetch
    <3>2. \A f \in Mask(args.preds) : Fetched(entry, filled)[f] = entry.meta[f]
      BY <1>a, MaskFilled
    <3>3. Matches(args.preds, entry.meta, Now)
      BY <3>1, <3>2, MaskSufficient
    <3>4. CheapHolds(entry)'
      BY <1>3, <1>a, <3>1, <2>0 DEF Fetch, Judging, CheapHolds, Goto
    <3>5. Judging'
      BY <3>1, <3>2, <3>3, <3>4, <2>0 DEF Judging, Goto
    <3>6. KeptSound'
      BY <3>1, <2>0, <1>a DEF KeptSound, CheapHolds, Goto, db, userHistory, groupHistory
    <3> QED
      BY <3>5, <3>6, <2>0, <2>1, <1>a DEF VisitorInv
  <2> QED
    BY <2>2, <2>3
<1>4. CASE EmptyFails \/ ReadlinkFails \/ FetchFails \/ AccessFails
  <2>1. Skip /\ UNCHANGED <<args, users, groups, db>>
    BY <1>4 DEF EmptyFails, ReadlinkFails, FetchFails, AccessFails, Fails, lookups
  <2>2. CacheSound'
    BY <2>1, <1>a DEF CacheSound, db, userHistory, groupHistory
  <2> QED
    BY <2>1, <2>2, SkipStep
<1>5. CASE CheckUser \/ UserLookupFails
  <2>0. pc = "user" /\ UNCHANGED <<args, groups, db>>
    BY <1>5 DEF CheckUser, UserLookupFails
  <2>1. args.preds.nouser => meta.uid = entry.meta.uid
    BY <2>0, <1>a DEF Judging, Mask
  <2>2. CASE args.preds.nouser
    <3>0. PICK answer : UserAnswer(answer)
      BY <1>5, <2>2, UserAnswered
    <3>1. /\ answer = TRUE \/ answer = Resolve(users, passwd, meta.uid)
          /\ users' = Memo(users, meta.uid, answer)
          /\ answer => Skip
          /\ ~answer => Goto("group") /\ UNCHANGED meta
      BY <3>0 DEF UserAnswer
    <3>2. /\ answer \in BOOLEAN
          /\ ~answer => meta.uid \notin uidAlways
          /\ Remembers(Memo(users, meta.uid, answer), uidAlways)
      BY <3>1, <1>a, ResolveSound DEF CacheSound
    <3>3. CacheSound'
      BY <3>1, <3>2, <2>0, <1>a DEF CacheSound, db, userHistory, groupHistory
    <3>4. CASE answer
      BY <3>1, <3>3, <3>4, <2>0, SkipStep
    <3>5. CASE ~answer
      <4>1. CheapHolds(entry)'
        BY <1>a, <3>1, <3>5, <2>0 DEF Judging, CheapHolds, Goto
      <4>2. Judging'
        BY <4>1, <3>1, <3>2, <3>5, <2>0, <2>1, <2>2, <1>a
           DEF Judging, Goto, db, userHistory, groupHistory
      <4>3. KeptSound'
        BY <3>1, <3>5, <2>0, <1>a DEF KeptSound, CheapHolds, Goto, db, userHistory, groupHistory
      <4> QED
        BY <4>2, <4>3, <3>3, <2>0, <1>a DEF VisitorInv
    <3> QED
      BY <3>4, <3>5
  <2>3. CASE ~args.preds.nouser
    <3>1. Goto("group") /\ UNCHANGED <<users, meta>>
      BY <1>5, <2>3 DEF CheckUser, UserLookupFails
    <3>2. CheapHolds(entry)'
      BY <1>a, <3>1, <2>0 DEF Judging, CheapHolds, Goto
    <3>3. Judging'
      BY <3>2, <3>1, <2>0, <2>3, <1>a DEF Judging, Goto, db, userHistory, groupHistory
    <3>4. CacheSound' /\ KeptSound'
      BY <3>1, <2>0, <1>a DEF CacheSound, KeptSound, CheapHolds, Goto, db, userHistory, groupHistory
    <3> QED
      BY <3>3, <3>4, <2>0, <1>a DEF VisitorInv
  <2> QED
    BY <2>2, <2>3
<1>6. CASE CheckGroup \/ GroupLookupFails
  <2>0. pc = "group" /\ UNCHANGED <<args, users, db>>
    BY <1>6 DEF CheckGroup, GroupLookupFails
  <2>1. args.preds.nogroup => meta.gid = entry.meta.gid
    BY <2>0, <1>a DEF Judging, Mask
  <2>2. CASE args.preds.nogroup
    <3>0. PICK answer : GroupAnswer(answer)
      BY <1>6, <2>2, GroupAnswered
    <3>1. /\ answer = TRUE \/ answer = Resolve(groups, group, meta.gid)
          /\ groups' = Memo(groups, meta.gid, answer)
          /\ answer => Skip
          /\ ~answer => Goto("access") /\ UNCHANGED meta
      BY <3>0 DEF GroupAnswer
    <3>2. /\ answer \in BOOLEAN
          /\ ~answer => meta.gid \notin gidAlways
          /\ Remembers(Memo(groups, meta.gid, answer), gidAlways)
      BY <3>1, <1>a, ResolveSound DEF CacheSound
    <3>3. CacheSound'
      BY <3>1, <3>2, <2>0, <1>a DEF CacheSound, db, userHistory, groupHistory
    <3>4. CASE answer
      BY <3>1, <3>3, <3>4, <2>0, SkipStep
    <3>5. CASE ~answer
      <4>1. CheapHolds(entry)'
        BY <1>a, <3>1, <3>5, <2>0 DEF Judging, CheapHolds, Goto
      <4>2. Judging'
        BY <4>1, <3>1, <3>2, <3>5, <2>0, <2>1, <2>2, <1>a
           DEF Judging, Goto, db, userHistory, groupHistory
      <4>3. KeptSound'
        BY <3>1, <3>5, <2>0, <1>a DEF KeptSound, CheapHolds, Goto, db, userHistory, groupHistory
      <4> QED
        BY <4>2, <4>3, <3>3, <2>0, <1>a DEF VisitorInv
    <3> QED
      BY <3>4, <3>5
  <2>3. CASE ~args.preds.nogroup
    <3>1. Goto("access") /\ UNCHANGED <<groups, meta>>
      BY <1>6, <2>3 DEF CheckGroup, GroupLookupFails
    <3>2. CheapHolds(entry)'
      BY <1>a, <3>1, <2>0 DEF Judging, CheapHolds, Goto
    <3>3. Judging'
      BY <3>2, <3>1, <2>0, <2>3, <1>a DEF Judging, Goto, db, userHistory, groupHistory
    <3>4. CacheSound' /\ KeptSound'
      BY <3>1, <2>0, <1>a DEF CacheSound, KeptSound, CheapHolds, Goto, db, userHistory, groupHistory
    <3> QED
      BY <3>3, <3>4, <2>0, <1>a DEF VisitorInv
  <2> QED
    BY <2>2, <2>3
<1>7. CASE CheckAccess
  <2>0. pc = "access" /\ UNCHANGED <<args, users, groups, db>>
    BY <1>7 DEF CheckAccess, lookups
  <2>1. CacheSound'
    BY <2>0, <1>a DEF CacheSound, db, userHistory, groupHistory
  <2>2. CASE Skip
    BY <2>0, <2>1, <2>2, SkipStep
  <2>3. CASE ~Skip
    <3>1. /\ args.access \subseteq entry.access
          /\ kept' = kept \cup {entry} /\ pc' = "idle"
      BY <1>7, <2>3 DEF CheckAccess
    <3>2. Judging'
      BY <3>1 DEF Judging
    <3>3. KeptSound'
      BY <3>1, <2>0, <1>a DEF KeptSound, Judging, CheapHolds, db, userHistory, groupHistory
    <3> QED
      BY <3>2, <3>3, <2>0, <2>1, <1>a DEF VisitorInv
  <2> QED
    BY <2>2, <2>3
<1>8. CASE ChangeUser
  <2>1. /\ uidAlways' = uidAlways \cap passwd'
        /\ UNCHANGED <<args, entry, pc, meta, users, groups, group, kept, groupHistory>>
    BY <1>8 DEF ChangeUser, lookups
  <2>2. Judging'
    BY <2>1, <1>a DEF Judging, CheapHolds, groupHistory
  <2>3. CacheSound'
    BY <2>1, <1>a DEF CacheSound, Remembers, groupHistory
  <2>4. KeptSound'
    BY <2>1, <1>a DEF KeptSound, CheapHolds, groupHistory
  <2> QED
    BY <2>1, <2>2, <2>3, <2>4, <1>a DEF VisitorInv
<1>9. CASE ChangeGroup
  <2>1. /\ gidAlways' = gidAlways \cap group'
        /\ UNCHANGED <<args, entry, pc, meta, users, groups, passwd, kept, userHistory>>
    BY <1>9 DEF ChangeGroup, lookups
  <2>2. Judging'
    BY <2>1, <1>a DEF Judging, CheapHolds, userHistory
  <2>3. CacheSound'
    BY <2>1, <1>a DEF CacheSound, Remembers, userHistory
  <2>4. KeptSound'
    BY <2>1, <1>a DEF KeptSound, CheapHolds, userHistory
  <2> QED
    BY <2>1, <2>2, <2>3, <2>4, <1>a DEF VisitorInv
<1>10. CASE UNCHANGED vars
  <2>1. Judging' /\ CacheSound' /\ KeptSound' /\ args' = args
    BY <1>10, <1>a DEF vars, Judging, CacheSound, KeptSound, CheapHolds
  <2> QED
    BY <2>1, <1>a DEF VisitorInv
<1> QED
  BY <1>1, <1>2, <1>3, <1>4, <1>5, <1>6, <1>7, <1>8, <1>9, <1>10 DEF Next, Judge, Finished

\* The visitor never reports an entry that fails a filter: not because a stat
\* left a field blank, nor because of a stale or failed owner lookup.
THEOREM KeptCorrect == Spec => []KeptSound
<1>1. VisitorInv => KeptSound
  BY DEF VisitorInv
<1> QED
  BY InitVisitor, VisitorStep, <1>1, PTL DEF Spec

-----------------------------------------------------------------------------
(* Why entries are skipped, and what the owner cache is good for           *)

CachedAs(cache, i, answer) == i \in DOMAIN cache /\ cache[i] = answer

\* Every id remembered as present is one of these.
Explained(cache, ids) == \A i \in DOMAIN cache : cache[i] => i \in ids

\* Why e was skipped, in terms of what the visitor's cache now holds.
Reason(e) ==
    \/ ~CheapHolds(e) \/ ~(args.access \subseteq e.access)
    \/ ~Matches(args.preds, e.meta, Now)
    \/ Erred(e)
    \/ args.preds.nouser /\ CachedAs(users, e.meta.uid, TRUE)
    \/ args.preds.nogroup /\ CachedAs(groups, e.meta.gid, TRUE)

UserMissing(e) == args.preds.nouser => CachedAs(users, e.meta.uid, FALSE)
GroupMissing(e) == args.preds.nogroup => CachedAs(groups, e.meta.gid, FALSE)

\* Every verdict given can still be read off the cache: an owner found missing
\* stays missing there, one found present was present at some time or its lookup failed.
CacheExplained ==
    /\ passwd \subseteq uidEver /\ group \subseteq gidEver
    /\ Explained(users, uidEver \cup uidFailed) /\ Explained(groups, gidEver \cup gidFailed)

Verdicts ==
    /\ CacheExplained
    /\ pc \in {"group", "access"} => UserMissing(entry)
    /\ pc = "access" => GroupMissing(entry)
    /\ \A e \in kept : UserMissing(e) /\ GroupMissing(e)
    /\ \A e \in skipped : Reason(e)

VerdictInv == VisitorInv /\ Verdicts

Grows(new, old) == \A i \in DOMAIN old : i \in DOMAIN new /\ new[i] = old[i]

\* or_insert_with overwrites no entry of the map, and a fresh answer is either the
\* database's or an error's.
LEMMA MemoGrows ==
    ASSUME NEW cache, NEW known, NEW old, NEW ids, NEW i, NEW answer \in BOOLEAN,
           known \subseteq ids, old \subseteq ids, Explained(cache, old),
           \/ answer = Resolve(cache, known, i)
           \/ i \notin DOMAIN cache /\ i \in ids
    PROVE  /\ Grows(Memo(cache, i, answer), cache)
           /\ CachedAs(Memo(cache, i, answer), i, answer)
           /\ Explained(Memo(cache, i, answer), ids)
<1> DEFINE m == Memo(cache, i, answer)
<1>1. DOMAIN m = DOMAIN cache \cup {i}
  BY DEF Memo
<1>2. \A j \in DOMAIN m : m[j] = IF j = i THEN answer ELSE cache[j]
  BY DEF Memo
<1>3. i \in DOMAIN cache => answer = cache[i]
  BY DEF Resolve
<1>4. answer => i \in ids
  BY Zenon DEF Resolve, NssExists, Explained
<1> HIDE DEF m
<1>5. Grows(m, cache) /\ CachedAs(m, i, answer)
  BY <1>1, <1>2, <1>3 DEF Grows, CachedAs
<1>6. Explained(m, ids)
  BY <1>1, <1>2, <1>4 DEF Explained
<1> QED
  BY <1>5, <1>6 DEF m

\* A larger cache and more failures explain every earlier verdict.
LEMMA VerdictsLast ==
    ASSUME args' = args, Grows(users', users), Grows(groups', groups), failed \subseteq failed'
    PROVE  \A e : /\ Reason(e) => Reason(e)'
                  /\ UserMissing(e) => UserMissing(e)'
                  /\ GroupMissing(e) => GroupMissing(e)'
<1>1. \A e : CheapHolds(e)' <=> CheapHolds(e)
  BY DEF CheapHolds
<1>2. \A i, answer : /\ CachedAs(users, i, answer) => CachedAs(users', i, answer)
                     /\ CachedAs(groups, i, answer) => CachedAs(groups', i, answer)
  BY DEF CachedAs, Grows
<1>3. \A e : Erred(e) => Erred(e)'
  BY DEF Erred
<1> QED
  BY <1>1, <1>2, <1>3 DEF Reason, UserMissing, GroupMissing

\* A cache that is not consulted answers as before.
LEMMA Unlooked ==
    /\ users' = users => Grows(users', users)
    /\ groups' = groups => Grows(groups', groups)
  BY DEF Grows

\* A verdict, or none, on the entry in hand.
LEMMA VerdictGiven ==
    ASSUME Verdicts, args' = args, Grows(users', users), Grows(groups', groups),
           failed \subseteq failed', CacheExplained', NEW e, e = entry,
           \/ kept' = kept /\ skipped' = skipped
           \/ kept' = kept \cup {e} /\ skipped' = skipped /\ pc = "access"
           \/ kept' = kept /\ skipped' = skipped \cup {e} /\ Reason(e)',
           \/ pc' \in {"idle", "cheap", "stat", "user"}
           \/ pc' = pc /\ entry' = entry
           \/ pc' \in {"group", "access"} /\ entry' = entry /\ UserMissing(e)'
              /\ (pc' = "access" => GroupMissing(e)')
    PROVE  Verdicts'
<1>1. \A d : /\ Reason(d) => Reason(d)'
             /\ UserMissing(d) => UserMissing(d)'
             /\ GroupMissing(d) => GroupMissing(d)'
  BY VerdictsLast
<1>2. \A d \in kept' : UserMissing(d)' /\ GroupMissing(d)'
  BY <1>1 DEF Verdicts
<1>3. \A d \in skipped' : Reason(d)'
  BY <1>1 DEF Verdicts
<1>4. entry' = e => /\ UserMissing(entry)' <=> UserMissing(e)'
                    /\ GroupMissing(entry)' <=> GroupMissing(e)'
  BY DEF UserMissing, GroupMissing
<1>5. /\ pc' \in {"group", "access"} => UserMissing(entry)'
      /\ pc' = "access" => GroupMissing(entry)'
  <2>1. /\ pc \in {"group", "access"} => UserMissing(e)
        /\ pc = "access" => GroupMissing(e)
    BY DEF Verdicts
  <2> QED
    BY <1>1, <1>4, <2>1
<1> QED
  BY <1>2, <1>3, <1>5 DEF Verdicts

\* What the filters that need no stat reject does not pass them.
LEMMA CheapReason ==
    ASSUME Rejects(entry, entry.empty, "lname" \in entry.hits)
    PROVE  ~CheapHolds(entry)
  BY DEF Rejects, CheapHolds, IgnoreFiletype

\* Every step keeps the reasons for the verdicts given.
LEMMA VerdictStep == VerdictInv /\ [Next]_vars => Verdicts'
<1> SUFFICES ASSUME VisitorInv, Verdicts, [Next]_vars PROVE Verdicts'
  BY DEF VerdictInv
<1>a. args.preds \in Predicates /\ Judging /\ CacheSound /\ CacheExplained
  BY DEF VisitorInv, Verdicts
<1>b. PICK e : e = entry
  OBVIOUS
<1>c. ASSUME UNCHANGED <<lookups, db>> PROVE CacheExplained'
  BY <1>a, <1>c DEF CacheExplained, Explained, lookups, db, userHistory, groupHistory
<1>1. CASE Visit
  <2>1. /\ UNCHANGED <<args, users, groups, lookups, db, failed, kept, skipped>>
        /\ pc' = "cheap" /\ failed \subseteq failed'
    BY <1>1 DEF Visit, lookups
  <2> QED
    BY <1>b, <1>c, <2>1, Unlooked, VerdictGiven
<1>2. CASE CheapFilters
  <2>1. UNCHANGED <<args, users, groups, lookups, db>> /\ failed \subseteq failed'
    BY <1>2 DEF CheapFilters, lookups
  <2>3. CASE Rejects(entry, entry.empty, "lname" \in entry.hits)
    <3>1. Reason(e)
      BY <1>b, <2>3, CheapReason DEF Reason
    <3>2. Reason(e)'
      BY <2>1, <3>1, Unlooked, VerdictsLast
    <3>3. kept' = kept /\ skipped' = skipped \cup {e} /\ pc' = "idle"
      BY <1>b, <1>2, <2>3 DEF CheapFilters, Skip
    <3> QED
      BY <1>b, <1>c, <2>1, <3>2, <3>3, Unlooked, VerdictGiven
  <2>4. CASE ~Rejects(entry, entry.empty, "lname" \in entry.hits)
    <3>1. Goto(IF IsActive(args.preds) THEN "stat" ELSE "access")
      BY <1>2, <2>4 DEF CheapFilters
    <3>2. UNCHANGED <<entry, kept, skipped>> /\ pc' = IF IsActive(args.preds) THEN "stat" ELSE "access"
      BY <3>1 DEF Goto
    <3>3. ~IsActive(args.preds) => UserMissing(e)' /\ GroupMissing(e)'
      BY <2>1 DEF IsActive, UserMissing, GroupMissing
    <3> QED
      BY <1>b, <1>c, <2>1, <3>2, <3>3, Unlooked, VerdictGiven
  <2> QED
    BY <2>3, <2>4
<1>3. CASE Fetch
  <2>1. UNCHANGED <<args, users, groups, lookups, db>> /\ failed \subseteq failed'
    BY <1>3 DEF Fetch, lookups
  <2>2. PICK filled \in BOOLEAN :
          IF Matches(args.preds, Fetched(entry, filled), Now)
          THEN Goto("user") /\ meta' = Fetched(entry, filled)
          ELSE Skip
    BY <1>3 DEF Fetch
  <2>3. CASE Matches(args.preds, Fetched(entry, filled), Now)
    <3>1. UNCHANGED <<kept, skipped>> /\ pc' = "user"
      BY <2>2, <2>3 DEF Goto
    <3> QED
      BY <1>b, <1>c, <2>1, <3>1, Unlooked, VerdictGiven
  <2>4. CASE ~Matches(args.preds, Fetched(entry, filled), Now)
    <3>1. \A f \in Mask(args.preds) : Fetched(entry, filled)[f] = entry.meta[f]
      BY <1>a, MaskFilled
    <3>2. ~Matches(args.preds, entry.meta, Now)
      BY <2>4, <3>1, MaskSufficient
    <3>3. Reason(e)'
      BY <1>b, <2>1, <3>2 DEF Reason
    <3>4. kept' = kept /\ skipped' = skipped \cup {e} /\ pc' = "idle"
      BY <1>b, <2>2, <2>4 DEF Skip
    <3> QED
      BY <1>b, <1>c, <2>1, <3>3, <3>4, Unlooked, VerdictGiven
  <2> QED
    BY <2>3, <2>4
<1>4. CASE EmptyFails \/ ReadlinkFails \/ FetchFails \/ AccessFails
  <2>1. PICK call \in Syscall : Fails(call)
    BY <1>4 DEF EmptyFails, ReadlinkFails, FetchFails, AccessFails, Syscall
  <2>2. UNCHANGED <<args, users, groups, lookups, db>> /\ failed \subseteq failed'
    BY <2>1 DEF Fails, lookups
  <2>3. Reason(e)'
    BY <1>b, <2>1 DEF Fails, Erred, Reason
  <2>4. kept' = kept /\ skipped' = skipped \cup {e} /\ pc' = "idle"
    BY <1>b, <2>1 DEF Fails, Skip
  <2> QED
    BY <1>b, <1>c, <2>2, <2>3, <2>4, Unlooked, VerdictGiven
<1>5. CASE CheckUser \/ UserLookupFails
  <2>1. /\ UNCHANGED <<args, groups, gidFailed, db, failed>> /\ pc = "user"
        /\ failed \subseteq failed'
    BY <1>5 DEF CheckUser, UserLookupFails
  <2>2. CASE args.preds.nouser
    <3>p. PICK answer : UserAnswer(answer)
      BY <1>5, <2>2, UserAnswered
    <3>0. /\ \/ answer = Resolve(users, passwd, meta.uid) /\ uidFailed' = uidFailed
             \/ /\ answer = TRUE /\ meta.uid \notin DOMAIN users
                /\ uidFailed' = uidFailed \cup {meta.uid}
          /\ users' = Memo(users, meta.uid, answer)
          /\ answer => Skip
          /\ ~answer => Goto("group") /\ UNCHANGED meta
      BY <3>p DEF UserAnswer
    <3>1. answer \in BOOLEAN
      <4>1. answer = TRUE \/ answer = Resolve(users, passwd, meta.uid)
        BY <3>0
      <4>2. uidAlways \subseteq passwd /\ Remembers(users, uidAlways)
        BY <1>a DEF CacheSound
      <4> QED
        BY <4>1, <4>2, ResolveSound
    <3>2. meta.uid = e.meta.uid
      BY <1>a, <1>b, <2>1, <2>2 DEF Judging, Mask
    <3>3. /\ Grows(users', users) /\ CachedAs(users', e.meta.uid, answer)
          /\ Explained(users', uidEver \cup uidFailed')
      <4> DEFINE ids == uidEver \cup uidFailed'
      <4>1. /\ passwd \subseteq ids /\ uidEver \cup uidFailed \subseteq ids
            /\ Explained(users, uidEver \cup uidFailed)
            /\ \/ answer = Resolve(users, passwd, meta.uid)
               \/ meta.uid \notin DOMAIN users /\ meta.uid \in ids
        BY <1>a, <3>0 DEF CacheExplained
      <4> HIDE DEF ids
      <4>2. /\ Grows(users', users) /\ CachedAs(users', meta.uid, answer)
            /\ Explained(users', ids)
        BY <3>0, <3>1, <4>1, MemoGrows
      <4> QED
        BY <3>2, <4>2 DEF ids
    <3>4. CacheExplained'
      BY <1>a, <2>1, <3>3 DEF CacheExplained, Explained, db, userHistory, groupHistory
    <3>5. CASE answer
      <4>1. Reason(e)'
        BY <2>1, <2>2, <3>3, <3>5 DEF Reason
      <4>2. kept' = kept /\ skipped' = skipped \cup {e} /\ pc' = "idle"
        BY <1>b, <3>0, <3>5 DEF Skip
      <4> QED
        BY <1>b, <2>1, <3>3, <3>4, <4>1, <4>2, Unlooked, VerdictGiven
    <3>6. CASE ~answer
      <4>0. answer = FALSE
        BY <3>1, <3>6
      <4>1. UserMissing(e)'
        BY <2>1, <2>2, <3>3, <4>0 DEF UserMissing
      <4>2. UNCHANGED <<entry, kept, skipped>> /\ pc' = "group"
        BY <3>0, <3>6 DEF Goto
      <4> QED
        BY <1>b, <2>1, <3>3, <3>4, <4>1, <4>2, Unlooked, VerdictGiven
    <3> QED
      BY <3>5, <3>6
  <2>3. CASE ~args.preds.nouser
    <3>1. UNCHANGED <<entry, kept, skipped, users, lookups>> /\ pc' = "group"
      BY <1>5, <2>3 DEF CheckUser, UserLookupFails, Goto, lookups
    <3>2. UserMissing(e)'
      BY <2>1, <2>3 DEF UserMissing
    <3> QED
      BY <1>b, <1>c, <2>1, <3>1, <3>2, Unlooked, VerdictGiven
  <2> QED
    BY <2>2, <2>3
<1>6. CASE CheckGroup \/ GroupLookupFails
  <2>1. /\ UNCHANGED <<args, users, uidFailed, db, failed>> /\ pc = "group"
        /\ failed \subseteq failed'
    BY <1>6 DEF CheckGroup, GroupLookupFails
  <2>u. Grows(groups', groups) => UserMissing(e)'
    BY <1>b, <2>1, Unlooked, VerdictsLast DEF Verdicts
  <2>2. CASE args.preds.nogroup
    <3>p. PICK answer : GroupAnswer(answer)
      BY <1>6, <2>2, GroupAnswered
    <3>0. /\ \/ answer = Resolve(groups, group, meta.gid) /\ gidFailed' = gidFailed
             \/ /\ answer = TRUE /\ meta.gid \notin DOMAIN groups
                /\ gidFailed' = gidFailed \cup {meta.gid}
          /\ groups' = Memo(groups, meta.gid, answer)
          /\ answer => Skip
          /\ ~answer => Goto("access") /\ UNCHANGED meta
      BY <3>p DEF GroupAnswer
    <3>1. answer \in BOOLEAN
      <4>1. answer = TRUE \/ answer = Resolve(groups, group, meta.gid)
        BY <3>0
      <4>2. gidAlways \subseteq group /\ Remembers(groups, gidAlways)
        BY <1>a DEF CacheSound
      <4> QED
        BY <4>1, <4>2, ResolveSound
    <3>2. meta.gid = e.meta.gid
      BY <1>a, <1>b, <2>1, <2>2 DEF Judging, Mask
    <3>3. /\ Grows(groups', groups) /\ CachedAs(groups', e.meta.gid, answer)
          /\ Explained(groups', gidEver \cup gidFailed')
      <4> DEFINE ids == gidEver \cup gidFailed'
      <4>1. /\ group \subseteq ids /\ gidEver \cup gidFailed \subseteq ids
            /\ Explained(groups, gidEver \cup gidFailed)
            /\ \/ answer = Resolve(groups, group, meta.gid)
               \/ meta.gid \notin DOMAIN groups /\ meta.gid \in ids
        BY <1>a, <3>0 DEF CacheExplained
      <4> HIDE DEF ids
      <4>2. /\ Grows(groups', groups) /\ CachedAs(groups', meta.gid, answer)
            /\ Explained(groups', ids)
        BY <3>0, <3>1, <4>1, MemoGrows
      <4> QED
        BY <3>2, <4>2 DEF ids
    <3>4. CacheExplained'
      BY <1>a, <2>1, <3>3 DEF CacheExplained, Explained, db, userHistory, groupHistory
    <3>5. CASE answer
      <4>1. Reason(e)'
        BY <2>1, <2>2, <3>3, <3>5 DEF Reason
      <4>2. kept' = kept /\ skipped' = skipped \cup {e} /\ pc' = "idle"
        BY <1>b, <3>0, <3>5 DEF Skip
      <4> QED
        BY <1>b, <2>1, <3>3, <3>4, <4>1, <4>2, Unlooked, VerdictGiven
    <3>6. CASE ~answer
      <4>0. answer = FALSE
        BY <3>1, <3>6
      <4>1. GroupMissing(e)'
        BY <2>1, <2>2, <3>3, <4>0 DEF GroupMissing
      <4>2. UNCHANGED <<entry, kept, skipped>> /\ pc' = "access"
        BY <3>0, <3>6 DEF Goto
      <4> QED
        BY <1>b, <2>1, <2>u, <3>3, <3>4, <4>1, <4>2, Unlooked, VerdictGiven
    <3> QED
      BY <3>5, <3>6
  <2>3. CASE ~args.preds.nogroup
    <3>1. UNCHANGED <<entry, kept, skipped, groups, lookups>> /\ pc' = "access"
      BY <1>6, <2>3 DEF CheckGroup, GroupLookupFails, Goto, lookups
    <3>2. GroupMissing(e)'
      BY <2>1, <2>3 DEF GroupMissing
    <3> QED
      BY <1>b, <1>c, <2>1, <2>u, <3>1, <3>2, Unlooked, VerdictGiven
  <2> QED
    BY <2>2, <2>3
<1>7. CASE CheckAccess
  <2>1. /\ UNCHANGED <<args, users, groups, lookups, db>> /\ pc = "access" /\ pc' = "idle"
        /\ failed \subseteq failed'
    BY <1>7 DEF CheckAccess, Skip, lookups
  <2>2. CASE ~(args.access \subseteq entry.access)
    <3>1. kept' = kept /\ skipped' = skipped \cup {e}
      BY <1>b, <1>7, <2>2 DEF CheckAccess, Skip
    <3>2. Reason(e)'
      BY <1>b, <2>1, <2>2 DEF Reason
    <3> QED
      BY <1>b, <1>c, <2>1, <3>1, <3>2, Unlooked, VerdictGiven
  <2>3. CASE args.access \subseteq entry.access
    <3>1. kept' = kept \cup {e} /\ skipped' = skipped
      BY <1>b, <1>7, <2>3 DEF CheckAccess
    <3> QED
      BY <1>b, <1>c, <2>1, <3>1, Unlooked, VerdictGiven
  <2> QED
    BY <2>2, <2>3
<1>8. CASE ChangeUser \/ ChangeGroup \/ UNCHANGED vars
  <2>1. /\ UNCHANGED <<args, users, groups, uidFailed, gidFailed, kept, skipped, entry, pc>>
        /\ failed \subseteq failed'
    BY <1>8 DEF ChangeUser, ChangeGroup, lookups, vars
  <2>2. /\ passwd' \subseteq uidEver' /\ group' \subseteq gidEver'
        /\ uidEver \subseteq uidEver' /\ gidEver \subseteq gidEver'
    BY <1>a, <1>8 DEF ChangeUser, ChangeGroup, CacheExplained, userHistory, groupHistory, vars
  <2>3. CacheExplained'
    BY <1>a, <2>1, <2>2 DEF CacheExplained, Explained
  <2> QED
    BY <1>b, <2>1, <2>3, Unlooked, VerdictGiven
<1> QED
  BY <1>1, <1>2, <1>3, <1>4, <1>5, <1>6, <1>7, <1>8 DEF Next, Judge, Finished

\* VerdictInv is an invariant of the visitor.
THEOREM VerdictInvariant == Spec => []VerdictInv
<1>1. Init => Verdicts
  BY DEF Init, Verdicts, CacheExplained, Explained
<1> QED
  BY <1>1, InitVisitor, VisitorStep, VerdictStep, PTL DEF Spec, VerdictInv

\* No entry is left out without a reason: a filter it fails, a system call that
\* did fail on it, or an owner that had an account at some time or whose lookup did
\* end in an error.
THEOREM SkippedCorrect == Spec => []SkippedJustified
<1>1. ASSUME VerdictInv PROVE SkippedJustified
  <2>1. /\ \A i \in DOMAIN users : users[i] => i \in uidEver \cup uidFailed
        /\ \A i \in DOMAIN groups : groups[i] => i \in gidEver \cup gidFailed
        /\ \A e \in skipped : Reason(e)
    BY <1>1 DEF VerdictInv, Verdicts, CacheExplained, Explained
  <2> QED
    BY <2>1 DEF SkippedJustified, Reason, CachedAs
<1> QED
  BY <1>1, VerdictInvariant, PTL

\* One thread gives all files of an owner the same answer, though the account is
\* created or deleted meanwhile or a lookup fails: the first answer is kept.
THEOREM OwnersCorrect == Spec => []OwnersAgree
<1>1. ASSUME VerdictInv PROVE OwnersAgree
  <2>1. /\ \A e \in skipped : Reason(e)
        /\ \A d \in kept : UserMissing(d) /\ GroupMissing(d)
    BY <1>1 DEF VerdictInv, Verdicts
  <2> QED
    BY <2>1 DEF OwnersAgree, Reason, UserMissing, GroupMissing, CachedAs
<1> QED
  BY <1>1, VerdictInvariant, PTL

-----------------------------------------------------------------------------
(* Types                                                                   *)

\* A stat, its unasked fields blank or not, is a Metadata.
LEMMA FetchedTyped ==
    ASSUME NEW e \in EntryRecord, NEW filled \in BOOLEAN
    PROVE  Fetched(e, filled) \in Metadata
<1> DEFINE m == Fetched(e, filled)
<1>1. e.meta \in Metadata
  BY DEF EntryRecord
<1>2. Zero \in Metadata
  BY WidthAssumption DEF Zero, Metadata, U64, I64
<1>3. DOMAIN Zero = {"size", "mtime", "ctime", "atime", "mode", "uid", "gid", "nlink", "ino"}
  BY DEF Zero
<1>4. m = [f \in {"size", "mtime", "ctime", "atime", "mode", "uid", "gid", "nlink", "ino"} |->
             IF filled \/ f \in Mask(args.preds) THEN e.meta[f] ELSE Zero[f]]
  BY <1>3 DEF Fetched
<1>5. \A f \in DOMAIN Zero : m[f] = e.meta[f] \/ m[f] = Zero[f]
  BY <1>3, <1>4
<1> HIDE DEF m
<1>6. /\ m.size \in U64 /\ m.mtime \in I64 /\ m.ctime \in I64 /\ m.atime \in I64
      /\ m.mode \in SUBSET ModeBit /\ m.uid \in Nat /\ m.gid \in Nat
      /\ m.nlink \in U64 /\ m.ino \in U64
  BY <1>1, <1>2, <1>3, <1>5 DEF Metadata
<1>7. m = [size |-> m.size, mtime |-> m.mtime, ctime |-> m.ctime, atime |-> m.atime,
           mode |-> m.mode, uid |-> m.uid, gid |-> m.gid, nlink |-> m.nlink, ino |-> m.ino]
  BY <1>4
<1> QED
  BY <1>6, <1>7 DEF m, Metadata

\* The visitor keeps its types, and looks up the owner only of an entry whose stat
\* succeeded.
THEOREM TypeCorrect == Spec => []TypeOK
<1>1. Init => TypeOK
  <2> SUFFICES ASSUME Init PROVE TypeOK
    OBVIOUS
  <2>1. PICK s \in Scenario : args = s.args /\ rest = s.entries /\ passwd = s.passwd /\ group = s.groups
    BY DEF Init
  <2>2. DOMAIN users = {} /\ DOMAIN groups = {}
    BY DEF Init
  <2> QED
    BY <2>1, <2>2, ScenarioAssumption DEF Init, TypeOK
<1>2. ASSUME TypeOK, [Next]_vars PROVE TypeOK'
  <2>1. CASE Visit
    BY <1>2, <2>1 DEF Visit, TypeOK, lookups, db, userHistory, groupHistory
  <2>2. CASE CheapFilters
    <3>1. UNCHANGED <<args, rest, users, groups, db>> /\ pc = "cheap"
          /\ (Skip \/ Goto("stat") \/ Goto("access"))
      BY <2>2 DEF CheapFilters, lookups
    <3> QED
      BY <1>2, <3>1 DEF TypeOK, Skip, Goto, db, userHistory, groupHistory
  <2>3. CASE Fetch
    <3>1. UNCHANGED <<args, rest, users, groups, db>> /\ pc = "stat"
          /\ (Skip \/ (Goto("user") /\ \E filled \in BOOLEAN : meta' = Fetched(entry, filled)))
      BY <2>3 DEF Fetch, lookups
    <3>2. Goto("user") => meta' \in Metadata \/ Skip
      BY <1>2, <3>1, FetchedTyped DEF TypeOK
    <3> QED
      BY <1>2, <3>1, <3>2 DEF TypeOK, Skip, Goto, db, userHistory, groupHistory
  <2>4. CASE EmptyFails \/ ReadlinkFails \/ FetchFails \/ AccessFails
    <3>1. UNCHANGED <<args, rest, users, groups, db>> /\ pc # "idle" /\ Skip
      BY <2>4 DEF EmptyFails, ReadlinkFails, FetchFails, AccessFails, Fails, lookups
    <3> QED
      BY <1>2, <3>1 DEF TypeOK, Skip, db, userHistory, groupHistory
  <2>5. CASE CheckUser \/ UserLookupFails
    <3>1. UNCHANGED <<args, rest, groups, db>> /\ pc = "user" /\ meta.uid \in Nat
      BY <1>2, <2>5 DEF CheckUser, UserLookupFails, TypeOK, Metadata
    <3>2. Skip \/ (Goto("group") /\ UNCHANGED meta)
      BY <2>5 DEF CheckUser, UserLookupFails
    <3>3. DOMAIN users' \subseteq DOMAIN users \cup {meta.uid}
      BY <2>5 DEF CheckUser, UserLookupFails, Memo
    <3> QED
      BY <1>2, <3>1, <3>2, <3>3 DEF TypeOK, Skip, Goto, db, userHistory, groupHistory
  <2>6. CASE CheckGroup \/ GroupLookupFails
    <3>1. UNCHANGED <<args, rest, users, db>> /\ pc = "group" /\ meta.gid \in Nat
      BY <1>2, <2>6 DEF CheckGroup, GroupLookupFails, TypeOK, Metadata
    <3>2. Skip \/ (Goto("access") /\ UNCHANGED meta)
      BY <2>6 DEF CheckGroup, GroupLookupFails
    <3>3. DOMAIN groups' \subseteq DOMAIN groups \cup {meta.gid}
      BY <2>6 DEF CheckGroup, GroupLookupFails, Memo
    <3> QED
      BY <1>2, <3>1, <3>2, <3>3 DEF TypeOK, Skip, Goto, db, userHistory, groupHistory
  <2>7. CASE CheckAccess
    <3>1. /\ UNCHANGED <<args, rest, users, groups, db>> /\ pc = "access" /\ pc' = "idle"
          /\ entry' = None /\ kept' \subseteq kept \cup {entry} /\ skipped' \subseteq skipped \cup {entry}
      BY <2>7 DEF CheckAccess, Skip, lookups
    <3> QED
      BY <1>2, <3>1 DEF TypeOK, db, userHistory, groupHistory
  <2>8. CASE ChangeUser \/ ChangeGroup
    <3>1. /\ UNCHANGED <<args, rest, users, groups, entry, pc, meta, kept, skipped>>
          /\ changes < MaxChanges /\ changes' = changes + 1
          /\ passwd' \subseteq passwd \cup OwnerId /\ group' \subseteq group \cup OwnerId
      BY <2>8 DEF ChangeUser, ChangeGroup, lookups
    <3>2. changes' \in 0 .. MaxChanges
      BY <1>2, <3>1, ScenarioAssumption DEF TypeOK
    <3> QED
      BY <1>2, <3>1, <3>2, ScenarioAssumption DEF TypeOK
  <2>9. CASE UNCHANGED vars
    BY <1>2, <2>9 DEF vars, TypeOK
  <2> QED
    BY <1>2, <2>1, <2>2, <2>3, <2>4, <2>5, <2>6, <2>7, <2>8, <2>9 DEF Next, Judge, Finished
<1> QED
  BY <1>1, <1>2, PTL DEF Spec

-----------------------------------------------------------------------------
(* The predicates mean what the documents say                              *)

\* Multiples of a unit are ordered as their factors.
LEMMA Scaling ==
    ASSUME NEW u \in Nat \ {0}, NEW x \in Int, NEW y \in Int
    PROVE  /\ x * u \in Int /\ y * u \in Int
           /\ x < y => x * u + u <= y * u
           /\ x * u < y * u => x < y
           /\ x <= y => x * u <= y * u
<1>1. x * u \in Int /\ y * u \in Int
  OBVIOUS
<1>2. ASSUME x <= y PROVE x * u <= y * u
  <2>1. PICK d \in Nat : y = x + d
    BY <1>2
  <2>2. y * u = x * u + d * u /\ d * u \in Nat
    BY <2>1
  <2> QED
    BY <1>1, <2>2
<1>3. ASSUME x < y PROVE x * u + u <= y * u
  <2>1. PICK d \in Nat : y = x + 1 + d
    BY <1>3
  <2>2. y * u = x * u + u + d * u /\ d * u \in Nat
    BY <2>1
  <2> QED
    BY <1>1, <2>2
<1>4. ASSUME x * u < y * u PROVE x < y
  <2> SUFFICES ASSUME y <= x PROVE FALSE
    OBVIOUS
  <2>1. PICK d \in Nat : x = y + d
    OBVIOUS
  <2>2. x * u = y * u + d * u /\ d * u \in Nat
    BY <2>1
  <2> QED
    BY <1>1, <1>4, <2>2
<1> QED
  BY <1>1, <1>2, <1>3, <1>4

\* Quotient and remainder of a division by a unit.
LEMMA DivBounds ==
    ASSUME NEW a \in Nat, NEW u \in Nat \ {0}
    PROVE  /\ a \div u \in Nat /\ a % u \in 0 .. u - 1
           /\ a = ((a \div u) * u) + (a % u)
  OBVIOUS

\* div_ceil rounds up to the next multiple.
LEMMA CeilBounds ==
    ASSUME NEW a \in Nat, NEW u \in Nat \ {0}
    PROVE  /\ DivCeil(a, u) \in Nat
           /\ (DivCeil(a, u) - 1) * u < a /\ a <= DivCeil(a, u) * u
<1> DEFINE q == a \div u
           r == a % u
<1>0. q \in Nat /\ r \in 0 .. u - 1 /\ a = (q * u) + r
  BY DivBounds, Zenon
<1> HIDE DEF q, r
<1>1. q \in Nat /\ r \in 0 .. u - 1 /\ a = q * u + r /\ q * u \in Int
  BY <1>0
<1>2. DivCeil(a, u) = q + (IF r = 0 THEN 0 ELSE 1)
  BY DEF DivCeil, q, r
<1>3. (q - 1) * u = q * u - u /\ (q + 1) * u = q * u + u /\ (q + 1) - 1 = q
  BY <1>1
<1>4. CASE r = 0
  BY <1>1, <1>2, <1>3, <1>4
<1>5. CASE r # 0
  BY <1>1, <1>2, <1>3, <1>5
<1> QED
  BY <1>4, <1>5

\* -size: rounding up to units and clamping agree with the intervals.
LEMMA SizeDecides ==
    ASSUME NEW p \in SizePred, NEW size \in Nat, p.cmp.n = IMax => DivCeil(size, p.unit) <= IMax
    PROVE  SizeMatches(p, size) <=> SizeMeans(p, size)
<1> DEFINE q == DivCeil(size, p.unit)
           n == p.cmp.n
           u == p.unit
<1>1. /\ p.cmp \in Comparison /\ n \in Int /\ u \in Nat \ {0}
      /\ p.cmp.op \in {"Exact", "Greater", "Less"}
  BY WidthAssumption DEF SizePred, Comparison, I64
<1>2. q \in Nat /\ (q - 1) * u < size /\ size <= q * u
  BY <1>1, CeilBounds
<1> HIDE DEF q
<1>3. SizeMatches(p, size) <=> CmpMatches(p.cmp, q)
  <2>1. p.cmp.n = IMax => ~(DivCeil(size, p.unit) > IMax)
    BY <1>1, <1>2, WidthAssumption DEF q
  <2> QED
    BY <1>1, <1>2, <2>1, SaturationExact DEF SizeMatches, q
<1> HIDE DEF n, u
<1>4. /\ n * u \in Int /\ (n - 1) * u \in Int /\ q * u \in Int /\ (q - 1) * u \in Int
      /\ n - 1 \in Int /\ q - 1 \in Int
  BY <1>1, <1>2, Scaling
<1>5. q = n <=> (n - 1) * u < size /\ size <= n * u
  <2>1. ASSUME (n - 1) * u < size, size <= n * u PROVE q = n
    <3>1. (n - 1) * u < q * u /\ (q - 1) * u < n * u
      BY <1>2, <1>4, <2>1
    <3>2. n - 1 < q /\ q - 1 < n
      BY <1>1, <1>2, <1>4, <3>1, Scaling
    <3> QED
      BY <1>1, <1>2, <3>2
  <2> QED
    BY <1>2, <2>1
<1>6. q > n <=> size > n * u
  <2>1. ASSUME q > n PROVE size > n * u
    <3>1. n * u <= (q - 1) * u
      BY <1>1, <1>2, <1>4, <2>1, Scaling
    <3> QED
      BY <1>2, <1>4, <3>1
  <2>2. ASSUME size > n * u PROVE q > n
    <3>1. n * u < q * u
      BY <1>2, <1>4, <2>2
    <3> QED
      BY <1>1, <1>2, <3>1, Scaling
  <2> QED
    BY <2>1, <2>2
<1>7. q < n <=> size <= (n - 1) * u
  <2>1. ASSUME q < n PROVE size <= (n - 1) * u
    <3>1. q * u <= (n - 1) * u
      BY <1>1, <1>2, <1>4, <2>1, Scaling
    <3> QED
      BY <1>2, <1>4, <3>1
  <2>2. ASSUME size <= (n - 1) * u PROVE q < n
    <3>1. (q - 1) * u < (n - 1) * u
      BY <1>2, <1>4, <2>2
    <3>2. q - 1 < n - 1
      BY <1>4, <1>1, <3>1, Scaling
    <3> QED
      BY <1>1, <1>2, <3>2
  <2> QED
    BY <2>1, <2>2
<1>8. CmpMatches(p.cmp, q) <=> SizeMeans(p, size)
  <2>1. CmpMatches(p.cmp, q) <=> \/ p.cmp.op = "Exact" /\ q = n
                                 \/ p.cmp.op = "Greater" /\ q > n
                                 \/ p.cmp.op = "Less" /\ q < n
    BY DEF CmpMatches, n
  <2>2. SizeMeans(p, size) <=> /\ p.cmp.op = "Exact" => (n - 1) * u < size /\ size <= n * u
                               /\ p.cmp.op = "Greater" => size > n * u
                               /\ p.cmp.op = "Less" => size <= (n - 1) * u
    BY DEF SizeMeans, n, u
  <2> QED
    BY <1>1, <1>5, <1>6, <1>7, <2>1, <2>2
<1> QED
  BY <1>3, <1>8

\* An age that fits 64 bits does not wrap.
LEMMA WrapSmall == ASSUME NEW x \in I64 PROVE Wrap(x) = x
<1>1. x \in Int /\ IMax \in Nat /\ x + IMax + 1 \in 0 .. 2 * IMax + 1 /\ 2 * IMax + 2 \in Nat \ {0}
  BY WidthAssumption DEF I64
<1>2. (x + IMax + 1) % (2 * IMax + 2) = x + IMax + 1
  BY <1>1
<1> QED
  BY <1>1, <1>2 DEF Wrap

\* Rust's division truncates towards zero.
LEMMA QuotientBounds ==
    ASSUME NEW a \in Int, NEW u \in Nat \ {0}
    PROVE  /\ Quotient(a, u) \in Int
           /\ a >= 0 => Quotient(a, u) >= 0 /\ Quotient(a, u) * u <= a /\ a < Quotient(a, u) * u + u
           /\ a < 0 => Quotient(a, u) <= 0 /\ Quotient(a, u) * u - u < a /\ a <= Quotient(a, u) * u
<1>1. CASE a >= 0
  <2> DEFINE q == a \div u
  <2>0. a \in Nat
    BY <1>1
  <2>1. q \in Nat /\ (a % u) \in 0 .. u - 1 /\ a = (q * u) + (a % u)
    BY <2>0, DivBounds, Zenon
  <2>2. Quotient(a, u) = q
    BY <1>1 DEF Quotient
  <2> HIDE DEF q
  <2>3. q * u \in Int
    BY <2>1
  <2> QED
    BY <1>1, <2>1, <2>2, <2>3
<1>2. CASE a < 0
  <2> DEFINE b == -a
             q == b \div u
             r == b % u
  <2>1. b \in Nat
    BY <1>2
  <2>2. q \in Nat /\ r \in 0 .. u - 1 /\ b = (q * u) + r
    BY <2>1, DivBounds
  <2>3. Quotient(a, u) = -q
    BY <1>2 DEF Quotient
  <2> HIDE DEF q, r
  <2>4. q * u \in Int /\ (-q) * u = -(q * u)
    BY <2>2
  <2> QED
    BY <1>2, <2>1, <2>2, <2>3, <2>4
<1> QED
  BY <1>1, <1>2

\* -mtime, -mmin and the like: truncated division agrees with the periods, but for an
\* age between 0 and one unit in the future.
LEMMA TimeDecides ==
    ASSUME NEW p \in TimePred, NEW m, Now - m[p.field] \in I64, p.cmp.n >= 0,
           p.cmp.n = 0 => Now - m[p.field] >= 0 \/ Now - m[p.field] <= -p.unit
    PROVE  TimeMatches(p, m, Now) <=> TimeMeans(p, Now - m[p.field])
<1> DEFINE age == Now - m[p.field]
           n == p.cmp.n
           u == p.unit
           q == Quotient(age, u)
<1>1. /\ p.cmp \in Comparison /\ n \in Nat /\ u \in Nat \ {0} /\ age \in Int
      /\ p.cmp.op \in {"Exact", "Greater", "Less"}
      /\ n = 0 => age >= 0 \/ age <= -u
  BY WidthAssumption DEF TimePred, Comparison, I64
<1>2. /\ q \in Int
      /\ age >= 0 => q >= 0 /\ q * u <= age /\ age < q * u + u
      /\ age < 0 => q <= 0 /\ q * u - u < age /\ age <= q * u
  BY <1>1, QuotientBounds
<1>3. TimeMatches(p, m, Now) <=> CmpMatches(p.cmp, q)
  BY WrapSmall DEF TimeMatches
<1>4. TimeMeans(p, age) <=> /\ p.cmp.op = "Exact" => n * u <= age /\ age < (n + 1) * u
                            /\ p.cmp.op = "Greater" => age >= (n + 1) * u
                            /\ p.cmp.op = "Less" => age < n * u
  BY DEF TimeMeans
<1>5. CmpMatches(p.cmp, q) <=> \/ p.cmp.op = "Exact" /\ q = n
                               \/ p.cmp.op = "Greater" /\ q > n
                               \/ p.cmp.op = "Less" /\ q < n
  BY DEF CmpMatches
<1> HIDE DEF age, n, u, q
<1>6. /\ n * u \in Nat /\ q * u \in Int /\ (n + 1) * u = n * u + u
      /\ n = 0 => n * u = 0
      /\ n # 0 => n * u >= u
      /\ n < q => n * u + u <= q * u
      /\ q < n => q * u + u <= n * u
      /\ q = n => q * u = n * u
      /\ q < 0 => q * u + u <= 0
      /\ q = 0 => q * u = 0
      /\ n * u < q * u => n < q
      /\ q * u < n * u => q < n
      /\ q * u < 0 => q < 0
  <2>1. /\ n * u \in Nat /\ q * u \in Int /\ (n + 1) * u = n * u + u /\ 0 * u = 0
        /\ n \in Int /\ 0 \in Int
    BY <1>1, <1>2
  <2>2. /\ n < q => n * u + u <= q * u
        /\ q < n => q * u + u <= n * u
        /\ n * u < q * u => n < q
        /\ q * u < n * u => q < n
    BY <1>1, <1>2, Scaling
  <2>3. /\ q < 0 => q * u + u <= 0 * u
        /\ q * u < 0 * u => q < 0
        /\ 0 < n => 0 * u + u <= n * u
    BY <1>1, <1>2, Scaling
  <2> QED
    BY <1>1, <1>2, <2>1, <2>2, <2>3
<1>7. q = n <=> n * u <= age /\ age < (n + 1) * u
  BY <1>1, <1>2, <1>6
<1>8. q > n <=> age >= (n + 1) * u
  BY <1>1, <1>2, <1>6
<1>9. q < n <=> age < n * u
  BY <1>1, <1>2, <1>6
<1>10. CmpMatches(p.cmp, q) <=> TimeMeans(p, age)
  BY <1>1, <1>4, <1>5, <1>7, <1>8, <1>9
<1> QED
  BY <1>3, <1>10 DEF age

\* -uid, -gid, -links, -inum
LEMMA NumberDecides ==
    ASSUME NEW c \in Comparison, NEW v \in Nat, c.n = IMax => v <= IMax
    PROVE  IdMatches(c, v) <=> NumberMeans(c, v)
<1>1. IdMatches(c, v) <=> CmpMatches(c, v)
  BY WidthAssumption, SaturationExact DEF IdMatches
<1> QED
  BY <1>1 DEF CmpMatches, NumberMeans, Comparison

\* A whole number is below the quotient, rounded down, exactly when its multiple is a
\* unit or more below.
LEMMA FloorBounds ==
    ASSUME NEW r \in Int, NEW u \in Nat \ {0}, NEW v \in Int
    PROVE  r \div u \in Int /\ (v > r \div u <=> v * u > r)
<1> DEFINE q == r \div u
           d == r % u
<1>1. q \in Int /\ d \in 0 .. u - 1 /\ r = u * q + d
  OBVIOUS
<1> HIDE DEF q, d
<1>2. q * u \in Int /\ v * u \in Int /\ u * q = q * u
  BY <1>1
<1>3. /\ q < v => q * u + u <= v * u
      /\ v <= q => v * u <= q * u
  BY <1>1, Scaling
<1>4. v > q <=> v * u > r
  BY <1>1, <1>2, <1>3
<1> QED
  BY <1>1, <1>4 DEF q

\* -newer: cutting the reference's time to seconds and clamping it to 0 .. i64::MAX
\* passes no file that is not newer, and, unless the reference is older than the epoch,
\* rejects none that is.
LEMMA NewerDecides ==
    ASSUME NEW r \in Int, NEW v \in I64
    PROVE  /\ v > RefSeconds(r) => v * Ticks > r
           /\ (r >= 0 \/ v > 0) /\ v * Ticks > r => v > RefSeconds(r)
<1> DEFINE q == r \div Ticks
<1>1. Ticks \in Nat \ {0} /\ v \in Int /\ IMax \in Nat /\ v <= IMax
  BY ScenarioAssumption, WidthAssumption DEF I64
<1>2. q \in Int /\ (v > q <=> v * Ticks > r)
  BY <1>1, FloorBounds
<1>3. RefSeconds(r) = IF q < 0 THEN 0 ELSE IF q <= IMax THEN q ELSE IMax
  BY DEF RefSeconds, FileMtime, Saturate
<1>4. r >= 0 => q >= 0
  BY <1>1, FloorBounds
<1> HIDE DEF q
<1> QED
  BY <1>1, <1>2, <1>3, <1>4

\* -perm, once the mode is known
LEMMA PermDecides ==
    ASSUME NEW p \in PermPred, NEW mode
    PROVE  PermMatches(p, mode) <=> PermMeans(p.kind, p.mode, mode)
<1>1. p.mode \subseteq PermBit /\ p.kind \in {"Exact", "AllOf", "AnyOf"} /\ <<"u", "s">> \in PermBit
  BY DEF PermPred, PermBit
<1> HIDE DEF PermBit
<1>2. CASE p.kind = "Exact"
  BY <1>1, <1>2 DEF PermMatches, PermMeans
<1>3. CASE p.kind = "AllOf"
  BY <1>1, <1>3 DEF PermMatches, PermMeans
<1>4. CASE p.kind = "AnyOf"
  BY <1>1, <1>4 DEF PermMatches, PermMeans
<1> QED
  BY <1>1, <1>2, <1>3, <1>4

\* A clause makes permission bits of permission bits.
LEMMA ClauseTyped ==
    ASSUME NEW c \in Clause
    PROVE  /\ ClauseBits(c) \subseteq PermBit
           /\ \A m \in SUBSET PermBit : ApplyClause(m, c) \in SUBSET PermBit
<1>1. Who(c) \subseteq {"u", "g", "o"}
  BY DEF Clause, Who, UserClass
<1>2. ClauseBits(c) \subseteq PermBit
  BY <1>1 DEF ClauseBits, PermBit, UserClass
<1> QED
  BY <1>2 DEF ApplyClause

\* SymbolicMode goes through the clauses from left to right.
LEMMA ModeRuns ==
    ASSUME NEW s \in Seq(Clause)
    PROVE  \E u \in [0 .. Len(s) -> SUBSET PermBit] :
               /\ u[0] = {} /\ SymbolicMode(s) = u[Len(s)]
               /\ \A n \in 1 .. Len(s) : u[n] = ApplyClause(u[n - 1], s[n])
<1> DEFINE N == Len(s)
           V == SUBSET PermBit
           P(g) == g = [t \in SUBSET (1 .. N) |->
                          IF t = {} THEN {} ELSE ApplyClause(g[t \ {Max(t)}], s[Max(t)])]
           it == CHOOSE g : P(g)
           D == [n \in Nat |-> [v \in V |-> IF n \in 1 .. N THEN ApplyClause(v, s[n]) ELSE v]]
<1>0. N \in Nat /\ DOMAIN s = 1 .. N /\ \A n \in 1 .. N : s[n] \in Clause
  OBVIOUS
<1>1. \A v \in V : \A x \in Clause : ApplyClause(v, x) \in V
  BY ClauseTyped
<1>2. StepOn(D, V)
  <2> HIDE DEF V
  <2> QED
    BY <1>0, <1>1 DEF StepOn
<1>3. PICK h \in [SUBSET (1 .. N) -> V] : Folds(h, D, {}, N)
  <2>1. {} \in V
    OBVIOUS
  <2> HIDE DEF D, V, N
  <2> QED
    BY <1>0, <1>2, <2>1, Folding
<1>4. P(h)
  <2>1. ASSUME NEW t \in SUBSET (1 .. N), t # {}
        PROVE  h[t] = ApplyClause(h[t \ {Max(t)}], s[Max(t)])
    <3>1. Max(t) \in 1 .. N
      <4> HIDE DEF N
      <4> QED
        BY <1>0, <2>1, MaxIn
    <3> DEFINE m == Max(t)
               v == h[t \ {m}]
    <3>2. v \in V
      BY <1>3, <2>1
    <3>3. D[m] = [w \in V |-> IF m \in 1 .. N THEN ApplyClause(w, s[m]) ELSE w]
      BY <1>0, <3>1
    <3>4. h[t] = D[m][v]
      <4> HIDE DEF D, V, N
      <4> QED
        BY <1>3, <2>1 DEF Folds
    <3> HIDE DEF v, m, D, V
    <3>5. h[t] = ApplyClause(v, s[m])
      BY <3>1, <3>2, <3>3, <3>4 DEF m
    <3> QED
      BY <3>5 DEF v, m
  <2>2. h[{}] = {}
    BY <1>3 DEF Folds
  <2> HIDE DEF V, N, D
  <2> QED
    BY <1>3, <2>1, <2>2
<1>5. P(it)
  <2> HIDE DEF P
  <2> QED
    BY <1>4, Zenon
<1>6. SymbolicMode(s) = it[1 .. N]
  BY <1>0 DEF SymbolicMode, FoldLeft, MapThenFoldSet
<1> DEFINE u == [n \in 0 .. N |-> it[1 .. n]]
<1> HIDE DEF it
<1>7. \A n \in 1 .. N : u[n] = ApplyClause(u[n - 1], s[n])
  <2> TAKE n \in 1 .. N
  <2>1. /\ 1 .. n \in SUBSET (1 .. N) /\ 1 .. n # {}
        /\ Max(1 .. n) = n /\ (1 .. n) \ {n} = 1 .. n - 1
    <3> HIDE DEF N
    <3> QED
      BY <1>0, PrefixPlaces
  <2>2. n \in 0 .. N /\ n - 1 \in 0 .. N
    BY <1>0
  <2>3. it[1 .. n] = ApplyClause(it[1 .. n - 1], s[n])
    BY <1>5, <2>1
  <2> QED
    BY <2>2, <2>3
<1>8. u[0] = {}
  <2>1. 1 .. 0 = {} /\ it[{}] = {}
    BY <1>5
  <2> QED
    BY <1>0, <2>1
<1>9. \A n \in 0 .. N : u[n] \in V
  <2> DEFINE G == {n \in 0 .. N : u[n] \in V}
  <2>1. 0 \in G
    <3>1. 0 \in 0 .. N /\ {} \in V
      BY <1>0
    <3> HIDE DEF u, V
    <3> QED
      BY <1>8, <3>1
  <2>2. \A n \in 0 .. N - 1 : n \in G => n + 1 \in G
    <3> SUFFICES ASSUME NEW n \in 0 .. N - 1, u[n] \in V PROVE n + 1 \in G
      OBVIOUS
    <3>1. n + 1 \in 1 .. N /\ (n + 1) - 1 = n
      BY <1>0
    <3> HIDE DEF u, V
    <3>2. u[n + 1] \in V
      BY <1>0, <1>1, <1>7, <3>1
    <3> QED
      BY <3>1, <3>2
  <2> HIDE DEF G, N
  <2>3. 0 .. N \subseteq G
    BY <1>0, <2>1, <2>2, BoundedInduction
  <2> QED
    BY <2>3 DEF G
<1>10. u \in [0 .. N -> V] /\ u[N] = it[1 .. N]
  BY <1>0, <1>9
<1> QED
  BY <1>6, <1>7, <1>8, <1>10

\* chmod's reading of a symbolic mode, for every list of clauses: folding them gives
\* the bits that the last clause to decide on them sets.
THEOREM ModeAsChmod ==
    ASSUME NEW s \in Seq(Clause)
    PROVE  SymbolicMode(s) = LastWord(s)
<1> DEFINE N == Len(s)
           LastUpTo(n) == {b \in PermBit : \E i \in 1 .. n :
               Sets(s[i], b) /\ \A j \in i + 1 .. n : Decides(s[j], b) => Sets(s[j], b)}
<1>0. N \in Nat /\ DOMAIN s = 1 .. N /\ \A n \in 1 .. N : s[n] \in Clause
  OBVIOUS
<1>1. PICK u \in [0 .. N -> SUBSET PermBit] :
          /\ u[0] = {} /\ SymbolicMode(s) = u[N]
          /\ \A n \in 1 .. N : u[n] = ApplyClause(u[n - 1], s[n])
  BY ModeRuns
<1> DEFINE G == {n \in 0 .. N : u[n] = LastUpTo(n)}
<1>2. 0 \in G
  BY <1>0, <1>1
<1>3. ASSUME NEW n \in 0 .. N - 1, n \in G PROVE n + 1 \in G
  <2> DEFINE c == s[n + 1]
  <2>1. n + 1 \in 1 .. N /\ n \in 0 .. N /\ (n + 1) - 1 = n /\ n \in Nat
    BY <1>0
  <2>2. u[n + 1] = ApplyClause(u[n], c) /\ u[n] \in SUBSET PermBit /\ c \in Clause
    BY <1>0, <1>1, <2>1
  <2>3. u[n] = LastUpTo(n)
    BY <1>3
  <2>4. ASSUME NEW b \in PermBit
        PROVE  b \in ApplyClause(u[n], c) <=>
                   Sets(c, b) \/ (b \in u[n] /\ (Decides(c, b) => Sets(c, b)))
    <3>1. c.op \in {"+", "-", "="}
      BY <2>2 DEF Clause
    <3> QED
      BY <2>2, <3>1 DEF ApplyClause, Sets, Decides
  <2>5. ASSUME NEW b \in PermBit
        PROVE  b \in LastUpTo(n + 1) <=>
                   Sets(c, b) \/ (b \in LastUpTo(n) /\ (Decides(c, b) => Sets(c, b)))
    <3>1. 1 .. n + 1 = (1 .. n) \cup {n + 1}
      BY <2>1
    <3>2. (n + 1) + 1 .. n + 1 = {}
      BY <2>1
    <3>3. \A i \in 1 .. n : i + 1 .. n + 1 = (i + 1 .. n) \cup {n + 1}
      BY <2>1
    <3> QED
      BY <3>1, <3>2, <3>3
  <2>6. u[n + 1] = LastUpTo(n + 1)
    <3>1. u[n + 1] \subseteq PermBit /\ LastUpTo(n + 1) \subseteq PermBit
      BY <1>1, <2>1
    <3>2. \A b \in PermBit : b \in u[n + 1] <=> b \in LastUpTo(n + 1)
      BY <2>2, <2>3, <2>4, <2>5
    <3> QED
      BY <3>1, <3>2
  <2>7. n + 1 \in 0 .. N
    BY <2>1
  <2> HIDE DEF LastUpTo, N
  <2> QED
    BY <2>6, <2>7
<1>4. N \in G
  <2> HIDE DEF G, N
  <2>1. 0 .. N \subseteq G
    BY <1>0, <1>2, <1>3, BoundedInduction
  <2> QED
    BY <1>0, <2>1
<1>5. LastWord(s) = LastUpTo(N)
  BY <1>0 DEF LastWord
<1> QED
  BY <1>1, <1>4, <1>5

\* What -newer tests is what was parsed from the reference files (ScenarioAssumption).
NewerParsed(p) ==
    p.newer = {[ref |-> RefSeconds(f.mtime), field |-> f.field] : f \in args.newerFiles}

\* For every width, predicate and file, but for the cases Regular names, the integer
\* arithmetic of meta.rs (round up, clamp, truncate, cut to seconds, compare) decides as
\* the documents say.
THEOREM PredicatesAsDocumented ==
    ASSUME NEW p \in Predicates, NEW m \in Metadata, Regular(p, m),
           args.newerFiles \subseteq [mtime : Int, field : TimeField], NewerParsed(p),
           p.perm # None => p.perm.mode = LastWord(args.clauses)
    PROVE  Matches(p, m, Now) <=> Means(p, m)
<1>1. /\ p.size \in SizePred \cup {None} /\ p.times \subseteq TimePred /\ p.perm \in PermPred \cup {None}
      /\ p.uid \in Comparison \cup {None} /\ p.gid \in Comparison \cup {None}
      /\ p.links \in Comparison \cup {None} /\ p.inum \in Comparison \cup {None}
  BY DEF Predicates
<1>2. /\ m.size \in Nat /\ m.uid \in Nat /\ m.gid \in Nat /\ m.nlink \in Nat /\ m.ino \in Nat
      /\ \A f \in TimeField : m[f] \in I64
  BY WidthAssumption DEF Metadata, U64, TimeField
<1>a. \A t \in U64Tests(p, m) : t[1].n = IMax => t[2] <= IMax
  BY DEF Regular
<1>3. p.size # None => (SizeMatches(p.size, m.size) <=> SizeMeans(p.size, m.size))
  <2> SUFFICES ASSUME p.size # None PROVE SizeMatches(p.size, m.size) <=> SizeMeans(p.size, m.size)
    OBVIOUS
  <2>1. <<p.size.cmp, DivCeil(m.size, p.size.unit)>> \in U64Tests(p, m)
    BY DEF U64Tests
  <2>2. p.size.cmp.n = IMax => DivCeil(m.size, p.size.unit) <= IMax
    BY <1>a, <2>1
  <2> QED
    BY <1>1, <1>2, <2>2, SizeDecides
<1>4. \A t \in p.times : TimeMatches(t, m, Now) <=> TimeMeans(t, Now - m[t.field])
  BY <1>1, TimeDecides DEF Regular
<1>5. /\ p.uid # None => (IdMatches(p.uid, m.uid) <=> NumberMeans(p.uid, m.uid))
      /\ p.gid # None => (IdMatches(p.gid, m.gid) <=> NumberMeans(p.gid, m.gid))
      /\ p.links # None => (IdMatches(p.links, m.nlink) <=> NumberMeans(p.links, m.nlink))
      /\ p.inum # None => (IdMatches(p.inum, m.ino) <=> NumberMeans(p.inum, m.ino))
  <2>1. \A t \in {<<p.uid, m.uid>>, <<p.gid, m.gid>>, <<p.links, m.nlink>>, <<p.inum, m.ino>>} :
           t[1] # None => (t[1].n = IMax => t[2] <= IMax)
    BY <1>a DEF U64Tests
  <2>2. /\ p.uid # None => (p.uid.n = IMax => m.uid <= IMax)
        /\ p.gid # None => (p.gid.n = IMax => m.gid <= IMax)
        /\ p.links # None => (p.links.n = IMax => m.nlink <= IMax)
        /\ p.inum # None => (p.inum.n = IMax => m.ino <= IMax)
    BY <2>1
  <2> QED
    BY <1>1, <1>2, <2>2, NumberDecides
<1>6. p.perm # None =>
        (PermMatches(p.perm, m.mode) <=> PermMeans(p.perm.kind, LastWord(args.clauses), m.mode))
  BY <1>1, PermDecides
<1>7. (\A t \in p.newer : NewerMatches(t, m)) <=> (\A f \in args.newerFiles : m[f.field] * Ticks > f.mtime)
  <2>1. (\A t \in p.newer : NewerMatches(t, m))
           <=> (\A f \in args.newerFiles : m[f.field] > RefSeconds(f.mtime))
    <3> DEFINE pred(f) == [ref |-> RefSeconds(f.mtime), field |-> f.field]
    <3>1. /\ \A t \in p.newer : \E f \in args.newerFiles : t = pred(f)
          /\ \A f \in args.newerFiles : pred(f) \in p.newer
      BY DEF NewerParsed
    <3>2. \A f : NewerMatches(pred(f), m) <=> m[f.field] > RefSeconds(f.mtime)
      BY DEF NewerMatches
    <3> HIDE DEF pred
    <3> QED
      BY <3>1, <3>2
  <2>2. \A f \in args.newerFiles : m[f.field] > RefSeconds(f.mtime) <=> m[f.field] * Ticks > f.mtime
    <3> SUFFICES ASSUME NEW f \in args.newerFiles
                 PROVE  m[f.field] > RefSeconds(f.mtime) <=> m[f.field] * Ticks > f.mtime
      OBVIOUS
    <3>1. f.mtime \in Int /\ m[f.field] \in I64 /\ (f.mtime >= 0 \/ m[f.field] > 0)
      BY <1>2 DEF Regular
    <3> QED
      BY <3>1, NewerDecides
  <2> QED
    BY <2>1, <2>2
<1> QED
  BY <1>3, <1>4, <1>5, <1>6, <1>7 DEF Matches, Means

\* The visitor runs one scenario.
From(s) ==
    /\ args = s.args /\ rest \cup kept \cup skipped \subseteq s.entries
    /\ pc # "idle" => entry \in s.entries
Sourced == \E s \in Scenario : From(s)

LEMMA SourcedAlways == Spec => []Sourced
<1>1. Init => Sourced
  BY DEF Init, Sourced, From
<1>2. ASSUME Sourced, [Next]_vars PROVE Sourced'
  <2>1. PICK s \in Scenario : From(s)
    BY <1>2 DEF Sourced
  <2>2. From(s)'
    BY <1>2, <2>1 DEF Next, Judge, Visit, CheapFilters, EmptyFails, ReadlinkFails, Fetch, FetchFails,
       CheckUser, UserLookupFails, CheckGroup, GroupLookupFails, CheckAccess, AccessFails,
       Fails, Skip, Goto, ChangeUser, ChangeGroup, Finished, vars, From
  <2> QED
    BY <2>2 DEF Sourced
<1> QED
  BY <1>1, <1>2, PTL DEF Spec

\* What a scenario says of the command line and the entries (ScenarioAssumption).
LEMMA ArgumentsParsed ==
    ASSUME Sourced
    PROVE  /\ args \in Arguments /\ NewerParsed(args.preds)
           /\ args.preds.perm # None => args.preds.perm.mode = LastWord(args.clauses)
           /\ \A e \in kept \cup skipped : e.meta \in Metadata
<1>1. PICK s \in Scenario : From(s)
  BY DEF Sourced
<1>2. args \in Arguments /\ NewerParsed(args.preds)
  BY <1>1, ScenarioAssumption DEF From, NewerParsed
<1>3. args.preds.perm # None => args.preds.perm.mode = LastWord(args.clauses)
  <2>1. args.clauses \in Seq(Clause)
    BY <1>2 DEF Arguments
  <2> QED
    BY <1>1, <2>1, ScenarioAssumption, ModeAsChmod DEF From
<1>4. \A e \in kept \cup skipped : e.meta \in Metadata
  BY <1>1, ScenarioAssumption DEF From, EntryRecord
<1> QED
  BY <1>2, <1>3, <1>4

\* Whatever the visitor judges, in any order, it judges by predicates that mean what
\* the documents say, but for the cases Regular names.
THEOREM MatchesCorrect == Spec => []MatchesAsDocumented
<1>1. ASSUME Sourced PROVE MatchesAsDocumented
  <2> SUFFICES ASSUME NEW e \in kept \cup skipped, Regular(args.preds, e.meta)
               PROVE  Matches(args.preds, e.meta, Now) <=> Means(args.preds, e.meta)
    BY DEF MatchesAsDocumented
  <2>1. /\ args.preds \in Predicates /\ e.meta \in Metadata
        /\ args.newerFiles \subseteq [mtime : Int, field : TimeField]
        /\ NewerParsed(args.preds)
        /\ args.preds.perm # None => args.preds.perm.mode = LastWord(args.clauses)
    BY <1>1, ArgumentsParsed DEF Arguments
  <2> QED
    BY <2>1, PredicatesAsDocumented
<1> QED
  BY <1>1, SourcedAlways, PTL

\* No file is reported under -newer that is not newer than the reference file, for any
\* two times: what is lost when they are cut to seconds and clamped only rejects.
THEOREM NewerCorrect == Spec => []NewerSound
<1>1. ASSUME Sourced, KeptSound PROVE NewerSound
  <2> SUFFICES ASSUME NEW e \in kept, NEW f \in args.newerFiles
               PROVE  e.meta[f.field] * Ticks > f.mtime
    BY DEF NewerSound
  <2>1. /\ f.mtime \in Int /\ f.field \in TimeField /\ e.meta \in Metadata /\ NewerParsed(args.preds)
    BY <1>1, ArgumentsParsed DEF Arguments
  <2>2. e.meta[f.field] \in I64
    BY <2>1 DEF Metadata, TimeField
  <2>3. \A t \in args.preds.newer : NewerMatches(t, e.meta)
    BY <1>1 DEF KeptSound, Matches
  <2>4. e.meta[f.field] > RefSeconds(f.mtime)
    <3> DEFINE t == [ref |-> RefSeconds(f.mtime), field |-> f.field]
    <3>1. t \in args.preds.newer
      BY <2>1 DEF NewerParsed
    <3>2. NewerMatches(t, e.meta) <=> e.meta[f.field] > RefSeconds(f.mtime)
      BY DEF NewerMatches
    <3> HIDE DEF t
    <3> QED
      BY <2>3, <3>1, <3>2
  <2> QED
    BY <2>1, <2>2, <2>4, NewerDecides
<1> QED
  BY <1>1, SourcedAlways, KeptCorrect, PTL
=============================================================================
