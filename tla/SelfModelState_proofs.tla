------------------------ MODULE SelfModelState_proofs ------------------------
(***************************************************************************)
(* Proofs about SelfModelState, for any machine, any settings of the       *)
(* limits, and any number of refreshes, events and deaths that leaves the  *)
(* history room for the changes nobody has counted yet.                    *)
(***************************************************************************)
EXTENDS SelfModelState, Lists_proofs, FiniteSetTheorems, SequenceTheorems

Entry == [at : Nat, to : Modes, severity : 0 .. 85, cause : Causes]

(* The part of a file that keeps the books of the changes of mode.         *)
BookTypes(f) ==
  /\ DOMAIN f = DOMAIN NoFile
  /\ f.hist \in Seq(Entry) /\ Len(f.hist) <= HistMax
  /\ f.counted \in [Modes -> Nat] /\ f.seen \in Nat /\ f.since \in Nat
  /\ f.told \in Nat /\ f.told <= f.since
  /\ \A i, j \in 1 .. Len(f.hist) : i <= j => f.hist[i].at <= f.hist[j].at

(* Nothing in it is of a refresh after the n-th.                           *)
UpTo(f, n) ==
  f.since <= n /\ f.seen <= n /\ \A i \in 1 .. Len(f.hist) : f.hist[i].at <= n

(* What a merge of process p makes of the file: g instead of saved.        *)
Keeps(g, fields) == DOMAIN g = DOMAIN NoFile /\ \A k \in fields : g[k] = saved[k]

Grown(h, n) ==
  \E e \in {h[Len(h)]} :
    e \in Entry /\ e.at = n /\ h = LastOf(Append(saved.hist, e), HistMax)

Follows(p, g) ==
  /\ stage[p] = "temporal" =>
       /\ Keeps(g, {"counted", "seen", "told"})
       /\ g.since \in {saved.since, obs[p].at} /\ own[p].since = g.since
       /\ g.hist = saved.hist \/ Grown(g.hist, obs[p].at)
  /\ stage[p] = "longterm" =>
       /\ Keeps(g, {"hist", "since", "told"})
       /\ g.counted = LongTermPatch.counted /\ g.seen = LongTermPatch.seen
       /\ own[p].counted = g.counted /\ own[p].seen = g.seen
  /\ stage[p] = "publish" =>
       /\ Keeps(g, {"hist", "counted", "seen", "since"})
       /\ g.told = saved.since /\ saved.told < saved.since
       /\ patch[p].told = saved.since
  /\ stage[p] \notin {"temporal", "longterm", "publish"} =>
       Keeps(g, {"hist", "counted", "seen", "since", "told"})

(* The file that process p is about to put in place of the one saved.      *)
InMaking(p) ==
  /\ io[p] = "load" => Follows(p, Patched(saved, patch[p]))
  /\ io[p] = "write" => Follows(p, buf[p])
  /\ io[p] = "replace" => tmp # <<>> /\ Follows(p, tmp[1])

(* What process p has computed so far.                                     *)
Late == {"capabilities", "confidence", "evaluation", "publish", "emit", "save"}
InStep(p) ==
  /\ stage[p] \in {"trend", "temporal"} =>
       /\ obs[p].at = refreshes /\ obs[p].reading \in Samples
       /\ refreshes > 0 /\ UpTo(saved, refreshes - 1)
  /\ stage[p] \in Late \cup {"longterm"} => own[p].since = saved.since
  /\ stage[p] \in Late => own[p].counted = saved.counted /\ own[p].seen = saved.seen
  /\ stage[p] = "emit" =>
       /\ patch[p].told = saved.told
       /\ \A i \in 1 .. Len(emitted) : emitted[i] < saved.told
  /\ stage[p] = "save" /\ io[p] # "read" => DOMAIN patch[p] = {"load", "mind", "stability"}

StepTypes ==
  /\ stage \in [Refreshers -> Stages]
  /\ io \in [Refreshers -> {"read", "load", "write", "replace"}]
  /\ DOMAIN obs = Refreshers /\ DOMAIN patch = Refreshers
  /\ DOMAIN buf = Refreshers /\ DOMAIN own = Refreshers
  /\ \A p \in Refreshers : /\ DOMAIN own[p] = DOMAIN NoOwn
                           /\ stage[p] \in {"idle", "emit"} => io[p] = "read"
  /\ refreshes \in Nat /\ recorded \in Nat /\ kills \in 0 .. MaxKills
  /\ emitted \in Seq(Nat)

(* The books balance: a change is counted or in the history, of which at   *)
(* most one entry per death waits to be counted but for the one of the     *)
(* refresh at work; and what was published is not after the last told.     *)
Balanced ==
  /\ BookTypes(saved) /\ UpTo(saved, refreshes)
  /\ Counted(saved.counted) + Cardinality(Unseen(saved)) = recorded
  /\ Cardinality(Unseen(saved)) <= kills + 1
  /\ (\A p \in Refreshers : stage[p] # "longterm") => Cardinality(Unseen(saved)) <= kills
  /\ \A i, j \in 1 .. Len(emitted) : emitted[i] = emitted[j] => i = j
  /\ \A i \in 1 .. Len(emitted) : emitted[i] <= saved.told

OneAtWork ==
  \A p, q \in Refreshers : stage[p] # "idle" /\ stage[q] # "idle" => p = q

SelfInv ==
  /\ raced \in BOOLEAN
  /\ ~raced =>
       /\ StepTypes /\ OneAtWork /\ Balanced
       /\ \A p \in Refreshers : stage[p] # "idle" => InStep(p) /\ InMaking(p)

-----------------------------------------------------------------------------
(* The rules of the state.                                                 *)

Levels == {0, 45, 50, 70, 75, 80, 85}

LEMMA HighestLevel ==
  ASSUME NEW S \in SUBSET Levels, S # {}
  PROVE  Max(S) \in S /\ \A y \in S : y <= Max(S)
<1>1. \E x \in S : \A y \in S : x >= y
  <2> SUFFICES ASSUME \A x \in S : \E y \in S : y > x PROVE FALSE
    BY DEF Levels
  <2>1. 85 \notin S
    BY DEF Levels
  <2>2. 80 \notin S
    BY <2>1 DEF Levels
  <2>3. 75 \notin S
    BY <2>1, <2>2 DEF Levels
  <2>4. 70 \notin S
    BY <2>1, <2>2, <2>3 DEF Levels
  <2>5. 50 \notin S
    BY <2>1, <2>2, <2>3, <2>4 DEF Levels
  <2>6. 45 \notin S
    BY <2>1, <2>2, <2>3, <2>4, <2>5 DEF Levels
  <2>7. \A x \in S : x = 0
    BY <2>1, <2>2, <2>3, <2>4, <2>5, <2>6 DEF Levels
  <2>8. PICK x \in S : x = 0
    BY <2>7
  <2>9. PICK y \in S : y > x
    BY <2>8
  <2> QED
    BY <2>7, <2>8, <2>9
<1>2. Max(S) \in S /\ \A y \in S : Max(S) >= y
  BY <1>1 DEF Max
<1> QED
  BY <1>2 DEF Levels

LEMMA SeverityIs ==
  ASSUME NEW r \in Readings
  PROVE  /\ Severity(r) \in 0 .. 85
         /\ Pressure(r) \in {"normal", "moderate", "high"}
         /\ Pressure(r) # "normal" => Severity(r) >= 45
<1> DEFINE S == {0} \cup (IF r.cpu >= 90 THEN {70} ELSE IF r.cpu >= 75 THEN {45} ELSE {})
                \cup (IF r.ram >= 90 THEN {75} ELSE IF r.ram >= 80 THEN {45} ELSE {})
                \cup (IF r.disk >= 90 THEN {80} ELSE {})
                \cup (IF r.swap >= 50 THEN {50} ELSE {})
                \cup (IF r.units = "all" THEN {} ELSE {85})
<1>1. Severity(r) = Max(S)
  BY DEF Severity
<1>2. S \in SUBSET Levels /\ 0 \in S
  BY DEF Levels
<1>3. r.cpu \in Int /\ r.ram \in Int /\ r.disk \in Int /\ r.swap \in Int
  BY DEF Readings
<1>4. /\ r.cpu >= 75 => \E y \in S : y >= 45
      /\ r.ram >= 80 => \E y \in S : y >= 45
      /\ r.disk >= 90 => \E y \in S : y >= 45
      /\ r.swap >= 50 => \E y \in S : y >= 45
  <2>1. r.cpu >= 75 => 70 \in S \/ 45 \in S
    BY <1>3
  <2>2. r.ram >= 80 => 75 \in S \/ 45 \in S
    BY <1>3
  <2>3. r.disk >= 90 => 80 \in S
    OBVIOUS
  <2>4. r.swap >= 50 => 50 \in S
    OBVIOUS
  <2> HIDE DEF S
  <2> QED
    BY <2>1, <2>2, <2>3, <2>4
<1> HIDE DEF S
<1>5. Severity(r) \in S /\ \A y \in S : y <= Severity(r)
  BY <1>1, <1>2, HighestLevel
<1>6. Severity(r) \in Levels
  BY <1>2, <1>5
<1>7. Severity(r) \in 0 .. 85
  BY <1>6 DEF Levels
<1>8. Pressure(r) \in {"normal", "moderate", "high"}
  BY <1>3 DEF Pressure
<1>9. Pressure(r) # "normal" =>
        r.cpu >= 75 \/ r.ram >= 80 \/ r.disk >= 90 \/ r.swap >= 50
  BY <1>3 DEF Pressure
<1>10. \A y \in S : y >= 45 => Severity(r) >= 45
  BY <1>2, <1>5, <1>6 DEF Levels
<1> QED
  BY <1>4, <1>7, <1>8, <1>9, <1>10

LEMMA ModeIs ==
  ASSUME NEW r \in Readings
  PROVE  ModeOf(r) \in Modes
BY SeverityIs DEF ModeOf, Modes

LEMMA CauseIs ==
  ASSUME NEW r, NEW f
  PROVE  Cause(r, f) \in Causes
<1>1. Issue(r) \in Causes
  BY DEF Issue, Causes
<1> QED
  BY <1>1 DEF Cause, Causes

-----------------------------------------------------------------------------
(* The files.                                                              *)

Books == {"hist", "counted", "seen", "since", "told"}

LEMMA FileFields ==
  /\ Books \subseteq DOMAIN NoFile
  /\ DOMAIN NoOwn = {"counted", "seen", "hist", "since", "samples", "autonomy",
                     "confidence", "evaluation"}
BY DEF NoFile, NoOwn, Books

(* What is merged replaces a field, and leaves the fields it does not name.*)
LEMMA PatchedIs ==
  ASSUME NEW f, DOMAIN f = DOMAIN NoFile, NEW q, NEW k \in Books
  PROVE  /\ DOMAIN Patched(f, q) = DOMAIN NoFile
         /\ Patched(f, q)[k] = IF k \in DOMAIN q THEN q[k] ELSE f[k]
<1>1. k \in DOMAIN NoFile /\ k \notin DOMAIN ListMax
  BY FileFields DEF Books, ListMax
<1>2. Patched(f, q) = Over(f, [x \in DOMAIN q |-> IF x \in DOMAIN ListMax
                                                  THEN Joined(f[x], q[x], ListMax[x])
                                                  ELSE q[x]])
  BY DEF Patched
<1> QED
  BY <1>1, <1>2 DEF Over

LEMMA SameBooks ==
  ASSUME BookTypes(saved), NEW g, Keeps(g, Books)
  PROVE  /\ BookTypes(g) /\ \A n : UpTo(saved, n) => UpTo(g, n)
         /\ Unseen(g) = Unseen(saved) /\ g.counted = saved.counted
         /\ g.since = saved.since /\ g.told = saved.told /\ g.hist = saved.hist
         /\ g.seen = saved.seen
<1>1. /\ DOMAIN g = DOMAIN NoFile /\ g.hist = saved.hist /\ g.counted = saved.counted
      /\ g.seen = saved.seen /\ g.since = saved.since /\ g.told = saved.told
  BY DEF Keeps, Books
<1> QED
  BY <1>1 DEF BookTypes, UpTo, Unseen

LEMMA UnseenIs ==
  ASSUME NEW f, BookTypes(f)
  PROVE  /\ Unseen(f) = {i \in 1 .. Len(f.hist) : f.hist[i].at > f.seen}
         /\ IsFiniteSet(Unseen(f)) /\ Cardinality(Unseen(f)) \in Nat
         /\ Len(f.hist) \in Nat /\ DOMAIN f.hist = 1 .. Len(f.hist)
<1>1. Len(f.hist) \in Nat /\ DOMAIN f.hist = 1 .. Len(f.hist)
  BY LenProperties DEF BookTypes
<1>2. Unseen(f) = {i \in 1 .. Len(f.hist) : f.hist[i].at > f.seen}
  BY <1>1 DEF Unseen
<1>3. Unseen(f) \in SUBSET (1 .. Len(f.hist)) /\ IsFiniteSet(1 .. Len(f.hist))
  BY <1>1, <1>2, FS_Interval
<1> QED
  BY <1>1, <1>2, <1>3, FS_Subset, FS_CardinalityType

-----------------------------------------------------------------------------
(* The end of a list that is cut: so many items are gone, all at its head. *)
Gone(s, n) == IF Len(s) > n THEN Len(s) - n ELSE 0

LEMMA LastOfIs ==
  ASSUME NEW S, NEW s \in Seq(S), NEW n \in Nat
  PROVE  /\ Gone(s, n) \in Nat /\ LastOf(s, n) \in Seq(S)
         /\ Len(LastOf(s, n)) + Gone(s, n) = Len(s)
         /\ \A i \in 1 .. Len(LastOf(s, n)) : LastOf(s, n)[i] = s[i + Gone(s, n)]
<1> DEFINE k == Gone(s, n)
           t == SubSeq(s, k + 1, Len(s))
<1>1. Len(s) \in Nat /\ k \in 0 .. Len(s)
  BY LenProperties DEF Gone
<1>2. \A i \in (k + 1) .. Len(s) : s[i] \in S
  BY <1>1
<1>3. LastOf(s, n) = t
  BY DEF LastOf, Gone
<1> HIDE DEF k
<1>4. k + 1 \in Int /\ Len(s) \in Int
  BY <1>1
<1>5. /\ t \in Seq(S) /\ Len(t) = (IF k + 1 <= Len(s) THEN Len(s) - (k + 1) + 1 ELSE 0)
      /\ \A i \in 1 .. Len(s) - (k + 1) + 1 : t[i] = s[(k + 1) + i - 1]
  BY <1>2, <1>4, SubSeqProperties
<1> HIDE DEF t
<1>6. Len(t) + k = Len(s) /\ Len(t) = Len(s) - (k + 1) + 1
  BY <1>1, <1>5
<1>7. \A i \in 1 .. Len(t) : t[i] = s[i + k]
  <2> SUFFICES ASSUME NEW i \in 1 .. Len(t) PROVE t[i] = s[i + k]
    OBVIOUS
  <2>1. t[i] = s[(k + 1) + i - 1]
    BY <1>5, <1>6
  <2>2. (k + 1) + i - 1 = i + k
    BY <1>1, <1>6
  <2> QED
    BY <2>1, <2>2
<1>8. k \in Nat /\ t \in Seq(S) /\ Len(t) + k = Len(s)
  BY <1>1, <1>5, <1>6
<1> QED
  BY <1>3, <1>7, <1>8, Zenon DEF k

(* The end of a list that is cut is no longer than it may be.              *)
LEMMA CutIs ==
  ASSUME NEW S, NEW s \in Seq(S), NEW n \in Nat
  PROVE  LastOf(s, n) \in Seq(S) /\ Len(LastOf(s, n)) <= n
<1>1. /\ LastOf(s, n) \in Seq(S) /\ Len(LastOf(s, n)) + Gone(s, n) = Len(s)
      /\ Gone(s, n) \in Nat
  BY LastOfIs
<1>2. Len(s) \in Nat /\ Len(LastOf(s, n)) \in Nat
  BY <1>1, LenProperties
<1> QED
  BY <1>1, <1>2 DEF Gone

LEMMA LastIsNew ==
  ASSUME NEW S, NEW s \in Seq(S), NEW e \in S, HistMax > 0,
         NEW t, t = LastOf(Append(s, e), HistMax)
  PROVE  Len(t) \in Nat \ {0} /\ t[Len(t)] = e
<1> DEFINE a == Append(s, e)
           k == Gone(a, HistMax)
<1>1. /\ a \in Seq(S) /\ Len(s) \in Nat /\ Len(a) = Len(s) + 1 /\ a[Len(s) + 1] = e
  BY AppendProperties, LenProperties
<1>2. HistMax \in Nat
  BY SelfModelAssumption
<1> HIDE DEF a
<1>3. /\ k \in Nat /\ t \in Seq(S) /\ Len(t) + k = Len(a)
      /\ \A i \in 1 .. Len(t) : t[i] = a[i + k]
  <2>1. t = LastOf(a, HistMax)
    BY DEF a
  <2> QED
    BY <2>1, <1>1, <1>2, LastOfIs
<1>4. Len(t) \in Nat /\ Len(t) # 0
  BY <1>1, <1>2, <1>3, LenProperties DEF Gone
<1> HIDE DEF k
<1>5. Len(t) \in 1 .. Len(t) /\ Len(t) + k = Len(s) + 1
  BY <1>1, <1>3, <1>4
<1> QED
  BY <1>1, <1>3, <1>4, <1>5

(* A change recorded: it is the last of the history, later than all before *)
(* it, and one more waits to be counted; when the first entry has to go it *)
(* is one that was counted, since fewer wait than the history holds.       *)
LEMMA ChangeRecorded ==
  ASSUME BookTypes(saved), NEW n \in Nat, n > 0, UpTo(saved, n - 1),
         Cardinality(Unseen(saved)) < HistMax, HistMax \in Nat,
         NEW h, Grown(h, n), NEW g, g.hist = h, g.seen = saved.seen
  PROVE  /\ h \in Seq(Entry) /\ Len(h) <= HistMax
         /\ \A i, j \in 1 .. Len(h) : i <= j => h[i].at <= h[j].at
         /\ \A i \in 1 .. Len(h) : h[i].at <= n
         /\ h # saved.hist
         /\ Cardinality(Unseen(g)) = Cardinality(Unseen(saved)) + 1
<1> DEFINE old == saved.hist
           l == Len(old)
           U == Unseen(saved)
<1>1. PICK e \in Entry : e.at = n /\ h = LastOf(Append(old, e), HistMax)
  BY DEF Grown
<1> DEFINE a == Append(old, e)
<1>2. /\ old \in Seq(Entry) /\ l \in Nat /\ l <= HistMax
      /\ saved.seen \in Nat /\ saved.seen <= n - 1
      /\ \A i, j \in 1 .. l : i <= j => old[i].at <= old[j].at
      /\ \A i \in 1 .. l : old[i].at <= n - 1 /\ old[i].at \in Nat
  <2>1. old \in Seq(Entry) /\ l \in Nat /\ l <= HistMax /\ saved.seen \in Nat
    BY LenProperties DEF BookTypes
  <2>2. \A i \in 1 .. l : old[i] \in Entry
    BY <2>1, ElementOfSeq
  <2> QED
    BY <2>1, <2>2 DEF BookTypes, UpTo, Entry
<1>3. /\ a \in Seq(Entry) /\ Len(a) = l + 1 /\ a[l + 1] = e
      /\ \A i \in 1 .. l : a[i] = old[i]
  BY <1>1, <1>2, AppendProperties
<1> HIDE DEF a
<1>4. \A i, j \in 1 .. l + 1 : i <= j => a[i].at <= a[j].at
  <2> SUFFICES ASSUME NEW i \in 1 .. l + 1, NEW j \in 1 .. l + 1, i <= j
               PROVE  a[i].at <= a[j].at
    OBVIOUS
  <2>1. CASE j = l + 1 /\ i = l + 1
    BY <2>1, <1>1, <1>2, <1>3
  <2>2. CASE j = l + 1 /\ i \in 1 .. l
    BY <2>2, <1>1, <1>2, <1>3, SMTT(30)
  <2>3. CASE j \in 1 .. l
    <3>1. i \in 1 .. l
      BY <2>3, <1>2
    <3> QED
      BY <2>3, <3>1, <1>2, <1>3
  <2> QED
    BY <2>1, <2>2, <2>3, <1>2
<1>5. \A i \in 1 .. l + 1 : a[i].at <= n /\ a[i].at \in Nat
  <2>1. a[l + 1].at <= n /\ a[l + 1].at \in Nat
    BY <1>1, <1>3
  <2>2. \A i \in 1 .. l : a[i].at <= n /\ a[i].at \in Nat
    <3>1. \A m \in Nat : m <= n - 1 => m <= n
      OBVIOUS
    <3> QED
      BY <3>1, <1>2, <1>3
  <2> QED
    BY <2>1, <2>2, <1>2
<1> DEFINE k == Gone(a, HistMax)
<1>6. /\ k \in Nat /\ h \in Seq(Entry) /\ Len(h) + k = Len(a)
      /\ k = IF Len(a) > HistMax THEN Len(a) - HistMax ELSE 0
      /\ \A i \in 1 .. Len(h) : h[i] = a[i + k]
  <2>1. h = LastOf(a, HistMax)
    BY <1>1 DEF a
  <2>2. /\ k \in Nat /\ LastOf(a, HistMax) \in Seq(Entry)
        /\ Len(LastOf(a, HistMax)) + k = Len(a)
        /\ \A i \in 1 .. Len(LastOf(a, HistMax)) : LastOf(a, HistMax)[i] = a[i + k]
    BY <1>3, LastOfIs
  <2> QED
    BY <2>1, <2>2 DEF Gone
<1> HIDE DEF k
<1>7. Len(h) \in Nat /\ Len(h) + k = l + 1 /\ (k = 0 \/ (k = 1 /\ l = HistMax))
  BY <1>2, <1>3, <1>6, LenProperties
<1>8. Cardinality(U) \in Nat /\ IsFiniteSet(U)
      /\ U = {i \in 1 .. l : old[i].at > saved.seen}
  BY UnseenIs
<1>9. Len(h) > 0 /\ h[Len(h)].at = n /\ Len(h) <= HistMax
  <2>1. Len(h) > 0 /\ Len(h) <= HistMax
    BY <1>2, <1>3, <1>6, <1>7, <1>8
  <2>2. h[Len(h)] = a[l + 1]
    BY <1>6, <1>7, <2>1
  <2> QED
    BY <2>1, <2>2, <1>1, <1>3
<1>10. \A i \in 1 .. Len(h) : i + k \in 1 .. l + 1 /\ h[i] = a[i + k]
  BY <1>2, <1>6, <1>7
<1>11. \A i, j \in 1 .. Len(h) : i <= j => h[i].at <= h[j].at
  <2> SUFFICES ASSUME NEW i \in 1 .. Len(h), NEW j \in 1 .. Len(h), i <= j
               PROVE  h[i].at <= h[j].at
    OBVIOUS
  <2>1. i + k <= j + k
    BY <1>7
  <2> QED
    BY <2>1, <1>4, <1>10
<1>12. \A i \in 1 .. Len(h) : h[i].at <= n
  BY <1>5, <1>10
<1>13. h # old
  BY <1>2, <1>9
<1> DEFINE V == Unseen(g)
           W == U \cup {l + 1}
<1>14. V = {i \in 1 .. Len(h) : h[i].at > saved.seen}
  <2>1. DOMAIN h = 1 .. Len(h)
    BY <1>6, LenProperties
  <2> QED
    BY <2>1 DEF Unseen, UpTo
<1>15. W = {i \in 1 .. l + 1 : a[i].at > saved.seen}
  <2>1. a[l + 1].at > saved.seen
    BY <1>1, <1>2, <1>3
  <2>2. \A i \in 1 .. l + 1 : i \in 1 .. l \/ i = l + 1
    BY <1>2
  <2>3. 1 .. l \subseteq 1 .. l + 1 /\ l + 1 \in 1 .. l + 1
    BY <1>2
  <2> HIDE DEF l, U
  <2> QED
    BY <2>1, <2>2, <2>3, <1>3, <1>8
<1>16. IsFiniteSet(W) /\ Cardinality(W) = Cardinality(U) + 1
  <2>1. l + 1 \notin U
    BY <1>2, <1>8
  <2> QED
    BY <2>1, <1>8, FS_AddElement
<1>17. \A i \in W : i - k \in 1 .. Len(h)
  <2>1. CASE k = 0
    BY <2>1, <1>2, <1>7, <1>15
  <2>2. CASE k = 1 /\ 1 \notin W
    BY <2>2, <1>2, <1>7, <1>15
  <2>3. CASE k = 1 /\ 1 \in W
    <3>1. l = HistMax /\ HistMax > 0 /\ 1 \in U
      BY <2>3, <1>2, <1>7, <1>8
    <3>2. \A i \in 1 .. l : old[i].at > saved.seen
      BY <3>1, <1>2, <1>8
    <3>3. U = 1 .. l
      BY <3>2, <1>8
    <3>4. Cardinality(U) = HistMax
      BY <3>1, <3>3, <1>2, FS_Interval
    <3> QED
      BY <3>4, <1>2
  <2> QED
    BY <2>1, <2>2, <2>3, <1>7
<1>18. Cardinality(V) = Cardinality(W)
  <2> DEFINE shift == [i \in W |-> i - k]
  <2>1. \A i \in W : i \in Nat /\ a[i].at > saved.seen
    BY <1>2, <1>15
  <2>2. \A i \in W : (i - k) + k = i
    BY <2>1, <1>6
  <2>3. \A i \in W : shift[i] \in V
    BY <1>10, <1>14, <1>17, <2>1, <2>2
  <2>4. \A j \in V : j + k \in W /\ j = (j + k) - k
    BY <1>7, <1>10, <1>14, <1>15
  <2>5. \A i, j \in W : shift[i] = shift[j] => i = j
    <3> SUFFICES ASSUME NEW i \in W, NEW j \in W, shift[i] = shift[j] PROVE i = j
      OBVIOUS
    <3>1. i - k = j - k
      OBVIOUS
    <3>2. (i - k) + k = i /\ (j - k) + k = j
      BY <2>2
    <3> QED
      BY <3>1, <3>2, Zenon
  <2>6. shift \in Bijection(W, V)
    BY <2>3, <2>4, <2>5 DEF Bijection, Injection, Surjection, IsInjective
  <2> HIDE DEF shift
  <2>7. ExistsBijection(W, V)
    BY <2>6 DEF ExistsBijection
  <2> QED
    BY <2>7, <1>16, FS_Bijection
<1> QED
  BY <1>6, <1>9, <1>11, <1>12, <1>13, <1>16, <1>18

LEMMA DisjointSum ==
  ASSUME NEW S, NEW T, IsFiniteSet(S), IsFiniteSet(T), S \cap T = {}
  PROVE  /\ IsFiniteSet(S \cup T)
         /\ Cardinality(S \cup T) = Cardinality(S) + Cardinality(T)
<1>1. Cardinality(S) \in Nat /\ Cardinality(T) \in Nat
  BY FS_CardinalityType
<1>2. Cardinality(S \cap T) = 0
  BY FS_EmptySet
<1>3. /\ IsFiniteSet(S \cup T)
      /\ Cardinality(S \cup T)
           = Cardinality(S) + Cardinality(T) - Cardinality(S \cap T)
  BY FS_Union, Zenon
<1> QED
  BY <1>1, <1>2, <1>3

(* Each mode is counted apart; together they count all that was not seen. *)
LEMMA AllAreCounted ==
  ASSUME NEW f, BookTypes(f)
  PROVE  /\ CountedWith(f) \in [Modes -> Nat]
         /\ Counted(CountedWith(f)) = Counted(f.counted) + Cardinality(Unseen(f))
         /\ Counted(f.counted) \in Nat
<1> DEFINE U == Unseen(f)
           Part(m) == {i \in U : f.hist[i].to = m}
<1>1. IsFiniteSet(U) /\ \A i \in U : i \in 1 .. Len(f.hist)
  BY UnseenIs
<1>2. \A i \in U : f.hist[i].to \in Modes
  <2>1. \A i \in 1 .. Len(f.hist) : f.hist[i] \in Entry
    BY ElementOfSeq, LenProperties DEF BookTypes
  <2> QED
    BY <1>1, <2>1 DEF Entry
<1> HIDE DEF U
<1>3. \A m : IsFiniteSet(Part(m)) /\ Cardinality(Part(m)) \in Nat
  <2> SUFFICES ASSUME NEW m PROVE IsFiniteSet(Part(m)) /\ Cardinality(Part(m)) \in Nat
    OBVIOUS
  <2>1. Part(m) \in SUBSET U
    OBVIOUS
  <2> HIDE DEF Part
  <2> QED
    BY <1>1, <2>1, FS_Subset, FS_CardinalityType
<1> DEFINE N == Part("normal")  P == Part("prudent")
           D == Part("degraded")  S == Part("survival")
<1>4. U = (N \cup P) \cup (D \cup S)
  BY <1>2 DEF Modes
<1>5. /\ N \cap P = {} /\ D \cap S = {} /\ (N \cup P) \cap (D \cup S) = {}
  OBVIOUS
<1>6. /\ IsFiniteSet(N) /\ IsFiniteSet(P) /\ IsFiniteSet(D) /\ IsFiniteSet(S)
      /\ Cardinality(N) \in Nat /\ Cardinality(P) \in Nat
      /\ Cardinality(D) \in Nat /\ Cardinality(S) \in Nat
  BY <1>3
<1>7. CountedWith(f) = [m \in Modes |-> f.counted[m] + Cardinality(Part(m))]
  BY DEF CountedWith, U
<1>8. f.counted \in [Modes -> Nat]
  BY DEF BookTypes
<1>9. CountedWith(f) \in [Modes -> Nat]
  <2>1. \A m : Cardinality(Part(m)) \in Nat
    BY <1>3
  <2> HIDE DEF Part
  <2> QED
    BY <1>7, <1>8, <2>1
<1>10. /\ CountedWith(f)["normal"] = f.counted["normal"] + Cardinality(N)
       /\ CountedWith(f)["prudent"] = f.counted["prudent"] + Cardinality(P)
       /\ CountedWith(f)["degraded"] = f.counted["degraded"] + Cardinality(D)
       /\ CountedWith(f)["survival"] = f.counted["survival"] + Cardinality(S)
  BY <1>7 DEF Modes
<1> HIDE DEF N, P, D, S
<1>11. /\ IsFiniteSet(N \cup P) /\ Cardinality(N \cup P) = Cardinality(N) + Cardinality(P)
       /\ IsFiniteSet(D \cup S) /\ Cardinality(D \cup S) = Cardinality(D) + Cardinality(S)
  BY <1>5, <1>6, DisjointSum
<1>12. Cardinality(U) = Cardinality(N \cup P) + Cardinality(D \cup S)
  BY <1>4, <1>5, <1>11, DisjointSum
<1>13. /\ f.counted["normal"] \in Nat /\ f.counted["prudent"] \in Nat
       /\ f.counted["degraded"] \in Nat /\ f.counted["survival"] \in Nat
  BY <1>8 DEF Modes
<1> QED
  BY <1>6, <1>9, <1>10, <1>11, <1>12, <1>13 DEF Counted, U

(* Once counted nothing waits, and nothing is seen that has not happened.  *)
LEMMA NothingWaits ==
  ASSUME BookTypes(saved), NEW g, g.hist = saved.hist, g.seen = LongTermPatch.seen
  PROVE  /\ g.seen \in Nat /\ Unseen(g) = {}
         /\ \A n \in Nat : UpTo(saved, n) => g.seen <= n
<1> DEFINE l == Len(saved.hist)
           S == {saved.seen} \cup {saved.hist[i].at : i \in Unseen(saved)}
<1>1. LongTermPatch.seen = Max(S)
  BY DEF LongTermPatch
<1>2. /\ l \in Nat /\ DOMAIN saved.hist = 1 .. l
      /\ Unseen(saved) = {i \in 1 .. l : saved.hist[i].at > saved.seen}
  BY UnseenIs
<1>3. /\ saved.seen \in Nat /\ \A i \in 1 .. l : saved.hist[i].at \in Nat
      /\ \A i, j \in 1 .. l : i <= j => saved.hist[i].at <= saved.hist[j].at
  <2>1. \A i \in 1 .. l : saved.hist[i] \in Entry
    BY ElementOfSeq, LenProperties DEF BookTypes
  <2> QED
    BY <2>1 DEF BookTypes, Entry
<1>4. \A y \in S : y \in Nat
  BY <1>2, <1>3
<1>5. \E x \in S : \A y \in S : x >= y
  <2>1. CASE Unseen(saved) = {}
    BY <2>1, <1>3
  <2>2. CASE Unseen(saved) # {}
    <3>1. l \in 1 .. l /\ \A i \in Unseen(saved) : i <= l
      BY <2>2, <1>2
    <3>2. \A i \in Unseen(saved) : saved.hist[i].at <= saved.hist[l].at
                                    /\ saved.seen <= saved.hist[l].at
      BY <3>1, <1>2, <1>3
    <3>3. l \in Unseen(saved)
      BY <2>2, <3>1, <3>2, <1>2, <1>3
    <3>4. saved.hist[l].at \in S
      BY <3>3
    <3>5. \A y \in S : saved.hist[l].at >= y
      BY <2>2, <3>2, <3>1, <1>2, <1>3
    <3> QED
      BY <3>4, <3>5
  <2> QED
    BY <2>1, <2>2
<1>6. Max(S) \in S /\ \A y \in S : Max(S) >= y
  <2> HIDE DEF S
  <2> QED
    BY <1>5 DEF Max
<1>7. g.seen \in S /\ \A y \in S : g.seen >= y
  BY <1>1, <1>6
<1>8. g.seen \in Nat
  BY <1>4, <1>7
<1>9. \A i \in 1 .. l : saved.hist[i].at <= g.seen
  <2> SUFFICES ASSUME NEW i \in 1 .. l PROVE saved.hist[i].at <= g.seen
    OBVIOUS
  <2>1. CASE i \in Unseen(saved)
    BY <2>1, <1>3, <1>4, <1>7, <1>8
  <2>2. CASE i \notin Unseen(saved)
    <3>1. saved.hist[i].at <= saved.seen
      BY <2>2, <1>2, <1>3
    <3>2. saved.seen <= g.seen
      BY <1>3, <1>7, <1>8
    <3> QED
      BY <3>1, <3>2, <1>3, <1>8
  <2> QED
    BY <2>1, <2>2
<1>10. Unseen(g) = {}
  <2>1. Unseen(g) = {i \in 1 .. l : saved.hist[i].at > g.seen}
    BY <1>2 DEF Unseen
  <2> HIDE DEF l
  <2> QED
    BY <2>1, <1>3, <1>8, <1>9
<1>11. ASSUME NEW n \in Nat, UpTo(saved, n) PROVE g.seen <= n
  <2>1. \A i \in 1 .. l : saved.hist[i].at <= n
    BY <1>11 DEF UpTo
  <2>2. saved.seen <= n
    BY <1>11 DEF UpTo
  <2>3. \A y \in S : y <= n
    BY <2>1, <2>2, <1>2
  <2> QED
    BY <2>3, <1>7
<1> QED
  BY <1>8, <1>10, <1>11

-----------------------------------------------------------------------------
(* The steps.  The invariant says nothing once refreshes overlapped.       *)

Settled == /\ ~raced /\ StepTypes /\ OneAtWork /\ Balanced
           /\ \A p \in Refreshers : stage[p] # "idle" => InStep(p) /\ InMaking(p)

LEMMA LimitsAreNat == HistMax \in Nat /\ MaxKills \in Nat
BY SelfModelAssumption

(* A step of the process at work that leaves the file and the counts alone *)
(* has to care for this process only.                                      *)
LEMMA QuietStep ==
  ASSUME Settled, NEW p \in Refreshers, stage[p] # "idle",
         NEW s, NEW i, Goto(p, s, i), StepTypes',
         UNCHANGED <<saved, refreshes, emitted, recorded, kills, raced>>,
         stage[p] # "longterm" \/ s = "longterm",
         s # "idle" => InStep(p)' /\ InMaking(p)'
  PROVE  SelfInv'
<1>1. stage' = [stage EXCEPT ![p] = s] /\ DOMAIN stage = Refreshers
  BY DEF Goto, Settled, StepTypes
<1>2. stage'[p] = s /\ \A q \in Refreshers \ {p} : stage'[q] = "idle" /\ stage[q] = "idle"
  BY <1>1 DEF Settled, OneAtWork
<1>3. OneAtWork'
  BY <1>2 DEF OneAtWork
<1>4. \A q \in Refreshers : stage'[q] # "idle" => InStep(q)' /\ InMaking(q)'
  BY <1>2
<1>5. (\A q \in Refreshers : stage'[q] # "longterm") =>
        \A q \in Refreshers : stage[q] # "longterm"
  BY <1>2
<1>6. Balanced'
  BY <1>5 DEF Settled, Balanced, BookTypes, UpTo, Unseen, Counted
<1>7. raced' = FALSE
  BY DEF Settled
<1> QED
  BY <1>3, <1>4, <1>6, <1>7 DEF SelfInv

(* Any step of the only process at work, or of one that begins.            *)
LEMMA OneSteps ==
  ASSUME Settled, NEW p \in Refreshers, \A x \in Refreshers \ {p} : stage[x] = "idle",
         NEW s, NEW i, Goto(p, s, i), StepTypes', Balanced', raced' = FALSE,
         s # "idle" => InStep(p)' /\ InMaking(p)'
  PROVE  SelfInv'
<1>1. stage' = [stage EXCEPT ![p] = s] /\ DOMAIN stage = Refreshers
  BY DEF Goto, Settled, StepTypes
<1>2. stage'[p] = s /\ \A q \in Refreshers \ {p} : stage'[q] = "idle"
  BY <1>1
<1>3. OneAtWork'
  BY <1>2 DEF OneAtWork
<1>4. \A q \in Refreshers : stage'[q] # "idle" => InStep(q)' /\ InMaking(q)'
  BY <1>2
<1> QED
  BY <1>3, <1>4 DEF SelfInv

LEMMA OthersIdle ==
  ASSUME Settled, NEW p \in Refreshers, stage[p] # "idle"
  PROVE  \A x \in Refreshers \ {p} : stage[x] = "idle"
BY DEF Settled, OneAtWork

(* The process at work is at one stage and at one access.                  *)
LEMMA AtWork ==
  ASSUME Settled, NEW p \in Refreshers, NEW s \in Stages,
         NEW i \in {"read", "load", "write", "replace"}, Goto(p, s, i)
  PROVE  /\ stage'[p] = s /\ io'[p] = i
         /\ stage' \in [Refreshers -> Stages]
         /\ io' \in [Refreshers -> {"read", "load", "write", "replace"}]
         /\ \A q \in Refreshers \ {p} : stage'[q] = stage[q] /\ io'[q] = io[q]
BY DEF Settled, StepTypes, Goto

LEMMA ComputeKeepsBooks ==
  ASSUME Settled, HistMax > 0, NEW p \in Refreshers, ComputeStep(p)
  PROVE  SelfInv'
<1>1. PICK q \in StepPatches(p) : /\ patch' = [patch EXCEPT ![p] = q]
                                  /\ own' = [own EXCEPT ![p] = Over(@, q)]
  BY DEF ComputeStep
<1>2. /\ stage[p] \in {"trend", "temporal", "longterm", "capabilities", "confidence",
                       "evaluation"}
      /\ Goto(p, stage[p], "load")
      /\ UNCHANGED <<saved, tmp, obs, buf, policy, refreshes, heard, kills, raced,
                     recorded, emitted>>
  BY DEF ComputeStep
<1>3. /\ DOMAIN patch = Refreshers /\ DOMAIN own = Refreshers /\ DOMAIN own[p] = DOMAIN NoOwn
      /\ stage[p] \in Stages /\ BookTypes(saved) /\ InStep(p)
      /\ UpTo(saved, refreshes) /\ DOMAIN saved = DOMAIN NoFile
  BY <1>2 DEF Settled, StepTypes, Balanced, BookTypes
<1>4. /\ stage'[p] = stage[p] /\ io'[p] = "load"
      /\ stage' \in [Refreshers -> Stages]
      /\ io' \in [Refreshers -> {"read", "load", "write", "replace"}]
      /\ \A x \in Refreshers \ {p} : stage'[x] = stage[x] /\ io'[x] = io[x]
  BY <1>2, <1>3, AtWork, Zenon
<1>5. patch'[p] = q /\ own'[p] = Over(own[p], q)
  BY <1>1, <1>3
<1>6. /\ DOMAIN own'[p] = DOMAIN NoOwn
      /\ \A k \in {"counted", "seen", "since"} :
           own'[p][k] = IF k \in DOMAIN q THEN q[k] ELSE own[p][k]
  BY <1>3, <1>5, FileFields DEF Over
<1>7. StepTypes'
  <2>1. \A x \in Refreshers : DOMAIN own'[x] = DOMAIN NoOwn
    BY <1>1, <1>3, <1>6 DEF Settled, StepTypes
  <2>2. \A x \in Refreshers : stage'[x] \in {"idle", "emit"} => io'[x] = "read"
    BY <1>2, <1>4 DEF Settled, StepTypes
  <2> QED
    BY <1>1, <1>2, <1>4, <2>1, <2>2 DEF Settled, StepTypes
<1> DEFINE g == Patched(saved, q)
<1>8. /\ DOMAIN g = DOMAIN NoFile
      /\ \A k \in Books : g[k] = IF k \in DOMAIN q THEN q[k] ELSE saved[k]
  BY <1>3, PatchedIs DEF Books
<1> HIDE DEF g
<1>9. (InMaking(p)' <=> Follows(p, g)') /\ g' = g
  BY <1>2, <1>4, <1>5 DEF InMaking, g
<1>10. CASE stage[p] \in {"trend", "capabilities", "confidence", "evaluation"}
  <2>1. DOMAIN q \cap Books = {}
    BY <1>10 DEF StepPatches, Books
  <2>2. \A k \in Books : g[k] = saved[k]
    BY <2>1, <1>8
  <2>3. Follows(p, g)'
    BY <2>2, <1>2, <1>4, <1>8, <1>9, <1>10 DEF Follows, Keeps, Books
  <2>4. InStep(p)'
    BY <2>1, <1>2, <1>3, <1>4, <1>6, <1>10 DEF InStep, Late, Books
  <2> QED
    BY <2>3, <2>4, <1>2, <1>7, <1>9, <1>10, QuietStep
<1>11. CASE stage[p] = "temporal"
  <2> DEFINE o == obs[p]
             mode == ModeOf(o.reading)
             e == [at |-> o.at, to |-> mode, severity |-> Severity(o.reading),
                   cause |-> Cause(o.reading, saved)]
  <2>1. /\ q = TemporalPatch(p) /\ DOMAIN q = {"mode", "since", "hist"}
        /\ q.since \in {saved.since, o.at}
        /\ q.hist = saved.hist \/ q.hist = LastOf(Append(saved.hist, e), HistMax)
    BY <1>11 DEF StepPatches, TemporalPatch
  <2>2. e \in Entry
    <3>1. o.reading \in Readings /\ o.at \in Nat
      BY <1>3, <1>11, SelfModelAssumption DEF InStep, Settled, StepTypes
    <3>2. Severity(o.reading) \in 0 .. 85 /\ mode \in Modes
      BY <3>1, SeverityIs, ModeIs
    <3>3. Cause(o.reading, saved) \in Causes
      BY CauseIs
    <3> HIDE DEF o, mode
    <3> QED
      BY <3>1, <3>2, <3>3 DEF Entry
  <2>3. ASSUME q.hist = LastOf(Append(saved.hist, e), HistMax)
        PROVE  Grown(q.hist, o.at)
    <3> HIDE DEF e
    <3>1. saved.hist \in Seq(Entry)
      BY <1>3 DEF BookTypes
    <3>2. q.hist[Len(q.hist)] = e
      BY <2>2, <2>3, <3>1, LastIsNew
    <3>3. e.at = o.at
      BY DEF e
    <3> QED
      BY <2>2, <2>3, <3>2, <3>3 DEF Grown
  <2> HIDE DEF o, e
  <2>4. /\ g.since = q.since /\ g.hist = q.hist
        /\ \A k \in {"counted", "seen", "told"} : g[k] = saved[k]
    BY <2>1, <1>8 DEF Books
  <2>5. own'[p].since = q.since
    BY <2>1, <1>6
  <2>6. g.hist = saved.hist \/ Grown(g.hist, o.at)
    BY <2>1, <2>3, <2>4
  <2>7. (g.hist = saved.hist \/ Grown(g.hist, o.at))'
    BY <2>6, <1>2, <1>9 DEF Grown, o
  <2>8. Follows(p, g)'
    BY <2>1, <2>4, <2>5, <2>7, <1>2, <1>4, <1>8, <1>9, <1>11 DEF Follows, Keeps, o
  <2>9. InStep(p)'
    BY <1>2, <1>3, <1>4, <1>11 DEF InStep, Late, UpTo
  <2> QED
    BY <2>8, <2>9, <1>2, <1>7, <1>9, <1>11, QuietStep
<1>12. CASE stage[p] = "longterm"
  <2>1. q = LongTermPatch /\ DOMAIN q = {"counted", "seen"}
    BY <1>12 DEF StepPatches, LongTermPatch
  <2>2. /\ g.counted = q.counted /\ g.seen = q.seen
        /\ \A k \in {"hist", "since", "told"} : g[k] = saved[k]
    BY <2>1, <1>8 DEF Books
  <2>3. own'[p].counted = q.counted /\ own'[p].seen = q.seen /\ own'[p].since = own[p].since
    BY <2>1, <1>6
  <2>4. LongTermPatch' = LongTermPatch
    BY <1>2 DEF LongTermPatch, CountedWith, Unseen
  <2>5. Follows(p, g)'
    BY <2>1, <2>2, <2>3, <2>4, <1>2, <1>4, <1>8, <1>9, <1>12 DEF Follows, Keeps
  <2>6. InStep(p)'
    BY <2>3, <1>2, <1>3, <1>4, <1>12 DEF InStep, Late
  <2> QED
    BY <2>5, <2>6, <1>2, <1>7, <1>9, <1>12, QuietStep
<1> QED
  BY <1>2, <1>10, <1>11, <1>12

(* A process that ends, or dies, holds nothing any more.                   *)
LEMMA DropKeepsTypes ==
  ASSUME Settled, NEW p \in Refreshers, Goto(p, "idle", "read"), Drop(p),
         refreshes' \in Nat, recorded' \in Nat, kills' \in 0 .. MaxKills,
         emitted' \in Seq(Nat)
  PROVE  StepTypes'
<1>1. /\ stage'[p] = "idle" /\ io'[p] = "read"
      /\ stage' \in [Refreshers -> Stages]
      /\ io' \in [Refreshers -> {"read", "load", "write", "replace"}]
      /\ \A x \in Refreshers \ {p} : stage'[x] = stage[x] /\ io'[x] = io[x]
  BY AtWork DEF Stages
<1>2. \A x \in Refreshers : stage'[x] \in {"idle", "emit"} => io'[x] = "read"
  BY <1>1 DEF Settled, StepTypes
<1>3. \A x \in Refreshers : DOMAIN own'[x] = DOMAIN NoOwn
  BY DEF Drop, Settled, StepTypes
<1> QED
  BY <1>1, <1>2, <1>3 DEF Drop, Settled, StepTypes

LEMMA PublishKeepsBooks ==
  ASSUME Settled, NEW p \in Refreshers, ReadPublish(p)
  PROVE  SelfInv'
<1>1. /\ stage[p] = "publish" /\ io[p] = "read"
      /\ UNCHANGED <<saved, tmp, policy, refreshes, heard, kills, raced, recorded, emitted>>
  BY DEF ReadPublish
<1>2. /\ DOMAIN patch = Refreshers /\ DOMAIN own = Refreshers /\ DOMAIN own[p] = DOMAIN NoOwn
      /\ DOMAIN obs = Refreshers /\ DOMAIN buf = Refreshers
      /\ BookTypes(saved) /\ InStep(p)
  BY <1>1 DEF Settled, StepTypes, Balanced
<1>3. /\ own[p].since = saved.since /\ own[p].counted = saved.counted
      /\ own[p].seen = saved.seen
  BY <1>1, <1>2 DEF InStep, Late
<1>4. CASE Due(own[p])
  <2>1. /\ patch' = [patch EXCEPT ![p] = [told |-> own[p].since]]
        /\ Goto(p, "publish", "load") /\ UNCHANGED <<obs, buf, own>>
    BY <1>4 DEF ReadPublish
  <2>2. /\ stage'[p] = "publish" /\ io'[p] = "load"
        /\ stage' \in [Refreshers -> Stages]
        /\ io' \in [Refreshers -> {"read", "load", "write", "replace"}]
        /\ \A x \in Refreshers \ {p} : stage'[x] = stage[x] /\ io'[x] = io[x]
    BY <2>1, AtWork DEF Stages
  <2>3. StepTypes'
    <3>1. \A x \in Refreshers : stage'[x] \in {"idle", "emit"} => io'[x] = "read"
      BY <2>2 DEF Settled, StepTypes
    <3> QED
      BY <1>1, <2>1, <2>2, <3>1 DEF Settled, StepTypes
  <2>4. patch'[p] = [told |-> saved.since]
    BY <1>2, <1>3, <2>1
  <2> DEFINE g == Patched(saved, [told |-> saved.since])
  <2>5. /\ DOMAIN g = DOMAIN NoFile /\ g.told = saved.since
        /\ \A k \in {"hist", "counted", "seen", "since"} : g[k] = saved[k]
    <3> DEFINE q == [told |-> saved.since]
    <3>1. DOMAIN q = {"told"} /\ q.told = saved.since
      OBVIOUS
    <3>2. DOMAIN saved = DOMAIN NoFile
      BY <1>2 DEF BookTypes
    <3> HIDE DEF q
    <3>3. /\ DOMAIN Patched(saved, q) = DOMAIN NoFile
          /\ \A k \in Books :
               Patched(saved, q)[k] = IF k \in DOMAIN q THEN q[k] ELSE saved[k]
      BY <3>2, PatchedIs DEF Books
    <3> QED
      BY <3>1, <3>3 DEF Books, q
  <2> HIDE DEF g
  <2>6. (InMaking(p)' <=> Follows(p, g)') /\ g' = g
    BY <1>1, <2>2, <2>4 DEF InMaking, g
  <2>7. saved.told < saved.since
    BY <1>2, <1>3, <1>4 DEF Due, BookTypes
  <2>8. Follows(p, g)'
    BY <1>1, <2>2, <2>4, <2>5, <2>6, <2>7 DEF Follows, Keeps
  <2>9. InStep(p)'
    BY <1>1, <1>3, <2>1, <2>2 DEF InStep, Late
  <2> QED
    BY <1>1, <2>1, <2>3, <2>6, <2>8, <2>9, QuietStep
<1>5. CASE ~Due(own[p])
  <2>1. Finished(p)
    BY <1>5 DEF ReadPublish
  <2>2. CASE p = "loop"
    <3>1. Goto(p, "save", "read") /\ UNCHANGED <<obs, patch, buf, own>>
      BY <2>1, <2>2 DEF Finished
    <3>2. /\ stage'[p] = "save" /\ io'[p] = "read"
          /\ stage' \in [Refreshers -> Stages]
          /\ io' \in [Refreshers -> {"read", "load", "write", "replace"}]
          /\ \A x \in Refreshers \ {p} : stage'[x] = stage[x] /\ io'[x] = io[x]
      BY <3>1, AtWork DEF Stages
    <3>3. StepTypes'
      <4>1. \A x \in Refreshers : stage'[x] \in {"idle", "emit"} => io'[x] = "read"
        BY <3>2 DEF Settled, StepTypes
      <4> QED
        BY <1>1, <3>1, <3>2, <4>1 DEF Settled, StepTypes
    <3>4. InStep(p)' /\ InMaking(p)'
      BY <1>1, <1>3, <3>1, <3>2 DEF InStep, InMaking, Late
    <3> QED
      BY <1>1, <3>1, <3>3, <3>4, QuietStep
  <2>3. CASE p # "loop"
    <3>1. Goto(p, "idle", "read") /\ Drop(p)
      BY <2>1, <2>3 DEF Finished
    <3>2. /\ refreshes' \in Nat /\ recorded' \in Nat /\ kills' \in 0 .. MaxKills
          /\ emitted' \in Seq(Nat) /\ stage[p] # "longterm"
      BY <1>1 DEF Settled, StepTypes
    <3>3. StepTypes'
      BY <3>1, <3>2, DropKeepsTypes
    <3> QED
      BY <1>1, <3>1, <3>3, QuietStep
  <2> QED
    BY <2>2, <2>3
<1> QED
  BY <1>4, <1>5

LEMMA LoadKeepsBooks ==
  ASSUME Settled, NEW p \in Refreshers, Load(p)
  PROVE  SelfInv'
<1>1. /\ io[p] = "load" /\ buf' = [buf EXCEPT ![p] = Patched(saved, patch[p])]
      /\ Goto(p, stage[p], "write")
      /\ UNCHANGED <<saved, tmp, obs, patch, own, policy, refreshes, heard, kills, raced,
                     recorded, emitted>>
  BY DEF Load
<1>2. stage[p] \in Stages /\ stage[p] \notin {"idle", "emit"} /\ DOMAIN buf = Refreshers
  BY <1>1 DEF Settled, StepTypes
<1>3. /\ stage'[p] = stage[p] /\ io'[p] = "write"
      /\ stage' \in [Refreshers -> Stages]
      /\ io' \in [Refreshers -> {"read", "load", "write", "replace"}]
      /\ \A x \in Refreshers \ {p} : stage'[x] = stage[x] /\ io'[x] = io[x]
  BY <1>1, <1>2, AtWork, Zenon
<1>4. StepTypes'
  <2>1. \A x \in Refreshers : stage'[x] \in {"idle", "emit"} => io'[x] = "read"
    BY <1>2, <1>3 DEF Settled, StepTypes
  <2> QED
    BY <1>1, <1>3, <2>1 DEF Settled, StepTypes
<1> DEFINE g == Patched(saved, patch[p])
<1>5. Follows(p, g) /\ InStep(p)
  BY <1>1, <1>2 DEF Settled, InMaking
<1>6. buf'[p] = g
  BY <1>1, <1>2
<1> HIDE DEF g
<1>7. LongTermPatch' = LongTermPatch
  BY <1>1 DEF LongTermPatch, CountedWith, Unseen
<1>8. InMaking(p)'
  BY <1>1, <1>3, <1>5, <1>6, <1>7 DEF InMaking, Follows, Keeps, Grown
<1>9. InStep(p)'
  BY <1>1, <1>3, <1>5 DEF InStep, UpTo
<1> QED
  BY <1>1, <1>2, <1>4, <1>8, <1>9, QuietStep

LEMMA WriteKeepsBooks ==
  ASSUME Settled, NEW p \in Refreshers, WriteTmp(p)
  PROVE  SelfInv'
<1>1. /\ io[p] = "write" /\ tmp' = <<buf[p]>>
      /\ buf' = [buf EXCEPT ![p] = NoFile]
      /\ Goto(p, stage[p], "replace")
      /\ UNCHANGED <<saved, obs, patch, own, policy, refreshes, heard, kills, raced,
                     recorded, emitted>>
  BY DEF WriteTmp
<1>2. stage[p] \in Stages /\ stage[p] \notin {"idle", "emit"} /\ DOMAIN buf = Refreshers
  BY <1>1 DEF Settled, StepTypes
<1>3. /\ stage'[p] = stage[p] /\ io'[p] = "replace"
      /\ stage' \in [Refreshers -> Stages]
      /\ io' \in [Refreshers -> {"read", "load", "write", "replace"}]
      /\ \A x \in Refreshers \ {p} : stage'[x] = stage[x] /\ io'[x] = io[x]
  BY <1>1, <1>2, AtWork, Zenon
<1>4. StepTypes'
  <2>1. \A x \in Refreshers : stage'[x] \in {"idle", "emit"} => io'[x] = "read"
    BY <1>2, <1>3 DEF Settled, StepTypes
  <2> QED
    BY <1>1, <1>3, <2>1 DEF Settled, StepTypes
<1>5. Follows(p, buf[p]) /\ InStep(p)
  BY <1>1, <1>2 DEF Settled, InMaking
<1>6. tmp'[1] = buf[p] /\ tmp' # <<>>
  BY <1>1
<1>7. LongTermPatch' = LongTermPatch
  BY <1>1 DEF LongTermPatch, CountedWith, Unseen
<1>8. InMaking(p)'
  BY <1>1, <1>3, <1>5, <1>6, <1>7 DEF InMaking, Follows, Keeps, Grown
<1>9. InStep(p)'
  BY <1>1, <1>3, <1>5 DEF InStep, UpTo
<1> QED
  BY <1>1, <1>2, <1>4, <1>8, <1>9, QuietStep

(* What the server notes of its events leaves the books alone.             *)
LEMMA NoteStep ==
  ASSUME Settled, NEW p \in Refreshers, \A x \in Refreshers \ {p} : stage[x] = "idle",
         stage[p] \in {"idle", "activity"}, NEW q, DOMAIN q \cap Books = {},
         NEW s \in {"event", "intent", "activity"},
         patch' = [patch EXCEPT ![p] = q], Goto(p, s, "load"), raced' = FALSE,
         UNCHANGED <<saved, tmp, obs, buf, own, refreshes, kills, recorded, emitted>>
  PROVE  SelfInv'
<1>1. /\ stage'[p] = s /\ io'[p] = "load"
      /\ stage' \in [Refreshers -> Stages]
      /\ io' \in [Refreshers -> {"read", "load", "write", "replace"}]
      /\ \A x \in Refreshers \ {p} : stage'[x] = stage[x] /\ io'[x] = io[x]
  BY AtWork DEF Stages
<1>2. StepTypes'
  <2>1. \A x \in Refreshers : stage'[x] \in {"idle", "emit"} => io'[x] = "read"
    BY <1>1 DEF Settled, StepTypes
  <2> QED
    BY <1>1, <2>1 DEF Settled, StepTypes
<1> DEFINE g == Patched(saved, q)
<1>3. Keeps(g, Books)
  <2>1. DOMAIN saved = DOMAIN NoFile
    BY DEF Settled, Balanced, BookTypes
  <2>2. /\ DOMAIN g = DOMAIN NoFile
        /\ \A k \in Books : g[k] = IF k \in DOMAIN q THEN q[k] ELSE saved[k]
    BY <2>1, PatchedIs DEF Books
  <2> QED
    BY <2>2 DEF Keeps, Books
<1>4. patch'[p] = q
  BY DEF Settled, StepTypes
<1>5. (InMaking(p)' <=> Follows(p, g)') /\ g' = g
  BY <1>1, <1>4 DEF InMaking
<1> HIDE DEF g
<1>6. InMaking(p)' /\ InStep(p)'
  BY <1>1, <1>3, <1>5 DEF Follows, InStep, Keeps, Books, Late
<1>7. Balanced'
  <2>1. \A x \in Refreshers : stage[x] # "longterm"
    OBVIOUS
  <2> QED
    BY <2>1 DEF Settled, Balanced, BookTypes, UpTo, Unseen, Counted
<1> QED
  BY <1>2, <1>6, <1>7, OneSteps

LEMMA NotesKeepBooks ==
  ASSUME Settled, NEW p \in Refreshers,
         NoteActivity(p) \/ ((HandleEvent(p) \/ NoteIntent(p)) /\ ~raced')
  PROVE  SelfInv'
<1>1. CASE NoteActivity(p)
  <2> DEFINE q == [activity |-> LastOf(Append(saved.activity,
                                              [no |-> heard, kind |-> "intent"]),
                                       ActivityMax)]
  <2>1. /\ stage[p] = "activity" /\ patch' = [patch EXCEPT ![p] = q]
        /\ Goto(p, "activity", "load") /\ raced' = FALSE
        /\ UNCHANGED <<saved, tmp, obs, buf, own, refreshes, kills, recorded, emitted>>
    BY <1>1 DEF NoteActivity, Settled
  <2>2. DOMAIN q \cap Books = {}
    BY DEF Books
  <2> HIDE DEF q
  <2> QED
    BY <2>1, <2>2, OthersIdle, NoteStep
<1>2. ASSUME Begins(p), ~raced'
      PROVE  raced' = FALSE /\ stage[p] = "idle" /\ \A x \in Refreshers \ {p} : stage[x] = "idle"
  BY <1>2 DEF Begins, Settled
<1>3. CASE HandleEvent(p) /\ ~raced'
  <2>1. PICK k \in Kinds :
          patch' = [patch EXCEPT ![p] = EventPatch([no |-> heard + 1, kind |-> k])]
    BY <1>3 DEF HandleEvent
  <2> DEFINE q == EventPatch([no |-> heard + 1, kind |-> k])
  <2>2. DOMAIN q \cap Books = {}
    BY DEF EventPatch, Books
  <2> HIDE DEF q
  <2>3. /\ patch' = [patch EXCEPT ![p] = q] /\ Goto(p, "event", "load") /\ Begins(p)
        /\ UNCHANGED <<saved, tmp, obs, buf, own, refreshes, kills, recorded, emitted>>
    BY <1>3, <2>1 DEF HandleEvent, q
  <2> QED
    BY <1>2, <1>3, <2>2, <2>3, NoteStep
<1>4. CASE NoteIntent(p) /\ ~raced'
  <2> DEFINE q == [noted |-> saved.noted + 1,
                   intents |-> <<[no |-> heard + 1, kind |-> "intent"]>>]
  <2>1. DOMAIN q \cap Books = {}
    BY DEF Books
  <2>2. /\ patch' = [patch EXCEPT ![p] = q] /\ Goto(p, "intent", "load") /\ Begins(p)
        /\ UNCHANGED <<saved, tmp, obs, buf, own, refreshes, kills, recorded, emitted>>
    BY <1>4 DEF NoteIntent
  <2> HIDE DEF q
  <2> QED
    BY <1>2, <1>4, <2>1, <2>2, NoteStep
<1> QED
  BY <1>1, <1>3, <1>4

(* A refresh begins: all the file holds is of earlier ones.                *)
LEMMA RefreshKeepsBooks ==
  ASSUME Settled, NEW p \in Refreshers, Refresh(p), ~raced'
  PROVE  SelfInv'
<1>1. PICK r \in Samples : obs' = [obs EXCEPT ![p] = [reading |-> r, at |-> refreshes + 1]]
  BY DEF Refresh
<1>2. /\ refreshes' = refreshes + 1 /\ Goto(p, "trend", "read") /\ stage[p] = "idle"
      /\ UNCHANGED <<saved, tmp, patch, buf, own, policy, heard, kills, recorded, emitted>>
      /\ raced' = FALSE /\ \A x \in Refreshers : stage[x] = "idle"
  BY DEF Refresh, Begins, Settled
<1>3. /\ stage'[p] = "trend" /\ io'[p] = "read"
      /\ stage' \in [Refreshers -> Stages]
      /\ io' \in [Refreshers -> {"read", "load", "write", "replace"}]
      /\ \A x \in Refreshers \ {p} : stage'[x] = stage[x] /\ io'[x] = io[x]
  BY <1>2, AtWork DEF Stages
<1>4. refreshes \in Nat /\ UpTo(saved, refreshes) /\ BookTypes(saved)
  BY DEF Settled, StepTypes, Balanced
<1>5. UpTo(saved, refreshes + 1)
  <2>1. \A i \in 1 .. Len(saved.hist) : saved.hist[i].at \in Nat
    <3>1. \A i \in 1 .. Len(saved.hist) : saved.hist[i] \in Entry
      BY <1>4, ElementOfSeq, LenProperties DEF BookTypes
    <3> QED
      BY <3>1 DEF Entry
  <2> QED
    BY <1>4, <2>1 DEF UpTo, BookTypes
<1>6. StepTypes'
  <2>1. \A x \in Refreshers : stage'[x] \in {"idle", "emit"} => io'[x] = "read"
    BY <1>3 DEF Settled, StepTypes
  <2> QED
    <3>1. DOMAIN obs' = Refreshers
      BY <1>1 DEF Settled, StepTypes
    <3>2. refreshes' \in Nat
      BY <1>2, <1>4
    <3> QED
      BY <1>2, <1>3, <2>1, <3>1, <3>2 DEF Settled, StepTypes
<1>7. Balanced'
  BY <1>2, <1>5 DEF Settled, Balanced, BookTypes, UpTo, Unseen, Counted
<1>8. InStep(p)' /\ InMaking(p)'
  <2>1. obs'[p].at = refreshes' /\ obs'[p].reading \in Samples /\ refreshes' > 0
    BY <1>1, <1>2, <1>4 DEF Settled, StepTypes
  <2>2. UpTo(saved, refreshes - 1)'
    BY <1>2, <1>4 DEF UpTo
  <2> QED
    BY <1>3, <2>1, <2>2 DEF InStep, InMaking, Late
<1> QED
  BY <1>2, <1>6, <1>7, <1>8, OneSteps

(* A process dies: what waits to be counted is left for a later refresh.   *)
LEMMA KillKeepsBooks ==
  ASSUME Settled, NEW p \in Refreshers, KillRefresher(p)
  PROVE  SelfInv'
<1>1. /\ stage[p] # "idle" /\ kills < MaxKills /\ kills' = kills + 1
      /\ Goto(p, "idle", "read") /\ Drop(p)
      /\ UNCHANGED <<saved, tmp, refreshes, heard, raced, recorded, emitted>>
  BY DEF KillRefresher
<1>2. /\ refreshes' \in Nat /\ recorded' \in Nat /\ kills' \in 0 .. MaxKills
      /\ emitted' \in Seq(Nat) /\ kills \in Nat /\ raced' = FALSE
  BY <1>1, LimitsAreNat DEF Settled, StepTypes
<1>3. StepTypes'
  BY <1>1, <1>2, DropKeepsTypes
<1>4. Cardinality(Unseen(saved)) \in Nat
  BY UnseenIs DEF Settled, Balanced
<1>5. Balanced'
  <2> DEFINE u == Cardinality(Unseen(saved))
  <2>1. u' = u /\ Counted(saved.counted)' = Counted(saved.counted)
    BY <1>1 DEF Unseen, Counted
  <2>2. /\ BookTypes(saved) /\ UpTo(saved, refreshes) /\ Counted(saved.counted) + u = recorded
        /\ u <= kills + 1
        /\ \A i, j \in 1 .. Len(emitted) : emitted[i] = emitted[j] => i = j
        /\ \A i \in 1 .. Len(emitted) : emitted[i] <= saved.told
    BY DEF Settled, Balanced
  <2>3. BookTypes(saved)' /\ UpTo(saved, refreshes)'
    BY <1>1, <2>2 DEF BookTypes, UpTo
  <2>4. u \in Nat /\ u <= kills' /\ u <= kills' + 1
    BY <1>1, <1>2, <1>4, <2>2
  <2> HIDE DEF u
  <2>5. u' <= kills' /\ u' <= kills' + 1 /\ (Counted(saved.counted) + u = recorded)'
    BY <1>1, <2>1, <2>2, <2>4
  <2> QED
    BY <1>1, <2>2, <2>3, <2>5 DEF Balanced, u
<1> QED
  BY <1>1, <1>2, <1>3, <1>5, OthersIdle, OneSteps

LEMMA SaveKeepsBooks ==
  ASSUME Settled, NEW p \in Refreshers, ReadSave(p)
  PROVE  SelfInv'
<1> DEFINE g == [saved EXCEPT !.counted = own[p].counted, !.seen = own[p].seen,
                              !.autonomy = own[p].autonomy,
                              !.confidence = own[p].confidence,
                              !.evaluation = own[p].evaluation]
           q == Snapshot(obs[p].reading)
<1>1. /\ stage[p] = "save" /\ io[p] = "read" /\ Goto(p, "save", "write")
      /\ buf' = [buf EXCEPT ![p] = g] /\ patch' = [patch EXCEPT ![p] = q]
      /\ UNCHANGED <<saved, tmp, obs, own, policy, refreshes, heard, kills, raced,
                     recorded, emitted>>
  BY DEF ReadSave
<1>2. /\ DOMAIN buf = Refreshers /\ DOMAIN patch = Refreshers
      /\ DOMAIN saved = DOMAIN NoFile /\ InStep(p)
  BY <1>1 DEF Settled, StepTypes, Balanced, BookTypes
<1>3. own[p].since = saved.since /\ own[p].counted = saved.counted /\ own[p].seen = saved.seen
  BY <1>1, <1>2 DEF InStep, Late
<1>4. Keeps(g, Books)
  <2>1. DOMAIN g = DOMAIN NoFile
    BY <1>2
  <2>2. g.hist = saved.hist /\ g.since = saved.since /\ g.told = saved.told
    BY <1>2 DEF NoFile
  <2>3. g.counted = own[p].counted /\ g.seen = own[p].seen
    BY <1>2 DEF NoFile
  <2> HIDE DEF g
  <2> QED
    BY <1>3, <2>1, <2>2, <2>3 DEF Keeps, Books
<1>5. DOMAIN q = {"load", "mind", "stability"}
  BY DEF Snapshot
<1> HIDE DEF q
<1>6. buf'[p] = g /\ patch'[p] = q /\ g' = g
  BY <1>1, <1>2
<1> HIDE DEF g
<1>7. /\ stage'[p] = "save" /\ io'[p] = "write"
      /\ stage' \in [Refreshers -> Stages]
      /\ io' \in [Refreshers -> {"read", "load", "write", "replace"}]
      /\ \A x \in Refreshers \ {p} : stage'[x] = stage[x] /\ io'[x] = io[x]
  BY <1>1, AtWork DEF Stages
<1>8. StepTypes'
  <2>1. \A x \in Refreshers : stage'[x] \in {"idle", "emit"} => io'[x] = "read"
    BY <1>7 DEF Settled, StepTypes
  <2> QED
    BY <1>1, <1>7, <2>1 DEF Settled, StepTypes
<1>9. InMaking(p)'
  BY <1>1, <1>4, <1>6, <1>7 DEF InMaking, Follows, Keeps, Books
<1>10. InStep(p)'
  BY <1>1, <1>3, <1>5, <1>6, <1>7 DEF InStep, Late
<1> QED
  BY <1>1, <1>8, <1>9, <1>10, QuietStep

(* A change is published: it is later than all that were.                  *)
LEMMA EmitKeepsBooks ==
  ASSUME Settled, NEW p \in Refreshers, Emit(p)
  PROVE  SelfInv'
<1>1. /\ stage[p] = "emit" /\ emitted' = Append(emitted, patch[p].told) /\ Finished(p)
      /\ UNCHANGED <<saved, tmp, refreshes, heard, kills, raced, recorded>>
  BY DEF Emit
<1>2. /\ DOMAIN own = Refreshers /\ DOMAIN own[p] = DOMAIN NoOwn
      /\ BookTypes(saved) /\ InStep(p) /\ Balanced /\ raced' = FALSE
      /\ emitted \in Seq(Nat) /\ refreshes' \in Nat /\ recorded' \in Nat
      /\ kills' \in 0 .. MaxKills
  <2>1. StepTypes /\ Balanced /\ InStep(p) /\ raced' = FALSE
    BY <1>1 DEF Settled
  <2>2. BookTypes(saved)
    BY <2>1 DEF Balanced
  <2> QED
    BY <1>1, <2>1, <2>2 DEF StepTypes
<1>3. /\ own[p].since = saved.since /\ own[p].counted = saved.counted
      /\ own[p].seen = saved.seen /\ patch[p].told = saved.told
      /\ \A i \in 1 .. Len(emitted) : emitted[i] < saved.told
      /\ saved.told \in Nat
  BY <1>1, <1>2 DEF InStep, Late, BookTypes
<1> DEFINE l == Len(emitted)
<1>4. /\ emitted' \in Seq(Nat) /\ l \in Nat /\ Len(emitted') = l + 1
      /\ emitted'[l + 1] = saved.told /\ \A i \in 1 .. l : emitted'[i] = emitted[i]
  BY <1>1, <1>2, <1>3, AppendProperties, LenProperties
<1>5. \A i \in 1 .. l : emitted[i] \in Nat
  BY <1>2, <1>4, ElementOfSeq
<1>6. \A i \in 1 .. l + 1 : emitted'[i] <= saved.told
  BY <1>3, <1>4, <1>5
<1>7. \A i, j \in 1 .. l + 1 : emitted'[i] = emitted'[j] => i = j
  <2> SUFFICES ASSUME NEW i \in 1 .. l + 1, NEW j \in 1 .. l + 1,
                      emitted'[i] = emitted'[j]
               PROVE  i = j
    OBVIOUS
  <2>1. \A k \in 1 .. l : emitted'[k] # saved.told
    BY <1>3, <1>4, <1>5
  <2>2. (i \in 1 .. l \/ i = l + 1) /\ (j \in 1 .. l \/ j = l + 1)
    BY <1>4
  <2>3. CASE i \in 1 .. l /\ j \in 1 .. l
    BY <2>3, <1>2, <1>4 DEF Balanced
  <2> QED
    BY <2>1, <2>2, <2>3, <1>4
<1>8. stage[p] # "longterm" /\ \A x \in Refreshers \ {p} : stage[x] = "idle"
  BY <1>1, OthersIdle
<1>9. Balanced'
  <2>1. \A x \in Refreshers : stage[x] # "longterm"
    BY <1>8
  <2>2. (\A i, j \in 1 .. Len(emitted) : emitted[i] = emitted[j] => i = j)'
    BY <1>4, <1>7
  <2>3. (\A i \in 1 .. Len(emitted) : emitted[i] <= saved.told)'
    BY <1>1, <1>4, <1>6
  <2> QED
    BY <1>1, <1>2, <2>1, <2>2, <2>3 DEF Balanced, BookTypes, UpTo, Unseen, Counted
<1>10. CASE p = "loop"
  <2>1. Goto(p, "save", "read") /\ UNCHANGED <<obs, patch, buf, own>>
    BY <1>1, <1>10 DEF Finished
  <2>2. /\ stage'[p] = "save" /\ io'[p] = "read"
        /\ stage' \in [Refreshers -> Stages]
        /\ io' \in [Refreshers -> {"read", "load", "write", "replace"}]
        /\ \A x \in Refreshers \ {p} : stage'[x] = stage[x] /\ io'[x] = io[x]
    BY <2>1, AtWork DEF Stages
  <2>3. StepTypes'
    <3>1. \A x \in Refreshers : stage'[x] \in {"idle", "emit"} => io'[x] = "read"
      BY <2>2 DEF Settled, StepTypes
    <3> QED
      BY <1>1, <1>4, <2>1, <2>2, <3>1 DEF Settled, StepTypes
  <2>4. InStep(p)' /\ InMaking(p)'
    BY <1>1, <1>3, <2>1, <2>2 DEF InStep, InMaking, Late
  <2> QED
    BY <1>2, <1>8, <1>9, <2>1, <2>3, <2>4, OneSteps
<1>11. CASE p # "loop"
  <2>1. Goto(p, "idle", "read") /\ Drop(p)
    BY <1>1, <1>11 DEF Finished
  <2>2. StepTypes'
    BY <1>2, <1>4, <2>1, DropKeepsTypes
  <2> QED
    BY <1>2, <1>8, <1>9, <2>1, <2>2, OneSteps
<1> QED
  BY <1>10, <1>11

(* The file is replaced by one that keeps its books: nothing is counted.   *)
LEMMA SameBalance ==
  ASSUME Settled, NEW g, Keeps(g, Books), saved' = g, NEW p \in Refreshers,
         stage[p] \notin {"idle", "longterm"},
         UNCHANGED <<refreshes, kills, recorded, emitted>>
  PROVE  Balanced'
<1>1. \A x \in Refreshers : stage[x] # "longterm"
  BY OthersIdle
<1>2. /\ BookTypes(g) /\ (UpTo(saved, refreshes) => UpTo(g, refreshes))
      /\ Unseen(g) = Unseen(saved) /\ g.counted = saved.counted /\ g.told = saved.told
  BY SameBooks DEF Settled, Balanced
<1> QED
  BY <1>1, <1>2 DEF Settled, Balanced, BookTypes, UpTo, Unseen, Counted

LEMMA ReplaceKeepsBooks ==
  ASSUME Settled, MaxKills < HistMax, NEW p \in Refreshers, Replace(p)
  PROVE  SelfInv'
<1> DEFINE g == tmp[1]
           n == After[stage[p]]
           i == IF stage[p] = "save" THEN "load" ELSE "read"
<1>1. /\ io[p] = "replace" /\ saved' = g /\ tmp' = <<>> /\ Goto(p, n, i)
      /\ recorded' = IF stage[p] = "temporal" /\ saved.hist # g.hist
                     THEN recorded + 1 ELSE recorded
      /\ IF n = "idle" THEN Drop(p) ELSE UNCHANGED <<obs, patch, buf, own>>
      /\ UNCHANGED <<policy, refreshes, heard, kills, raced, emitted>>
  BY DEF Replace
<1>2. stage[p] \in Stages \ {"idle", "emit"}
  BY <1>1 DEF Settled, StepTypes
<1>3. Follows(p, g) /\ InStep(p) /\ \A x \in Refreshers \ {p} : stage[x] = "idle"
  BY <1>1, <1>2, OthersIdle DEF Settled, InMaking
<1>4. n \in Stages /\ i \in {"read", "load", "write", "replace"}
  BY <1>2 DEF After, Stages
<1>5. /\ stage'[p] = n /\ io'[p] = i
      /\ stage' \in [Refreshers -> Stages]
      /\ io' \in [Refreshers -> {"read", "load", "write", "replace"}]
      /\ \A x \in Refreshers \ {p} : stage'[x] = stage[x] /\ io'[x] = io[x]
  <2> HIDE DEF n, i
  <2> QED
    BY <1>1, <1>4, AtWork
<1>6. /\ StepTypes /\ Balanced /\ raced' = FALSE /\ BookTypes(saved)
      /\ recorded' \in Nat /\ refreshes' \in Nat /\ kills' \in 0 .. MaxKills
      /\ emitted' \in Seq(Nat)
  <2>1. StepTypes /\ Balanced /\ raced' = FALSE
    BY <1>1 DEF Settled
  <2>2. BookTypes(saved)
    BY <2>1 DEF Balanced
  <2> QED
    BY <1>1, <2>1, <2>2 DEF StepTypes
<1> HIDE DEF g
<1>7. StepTypes'
  <2>1. CASE n = "idle"
    <3>1. Goto(p, "idle", "read") /\ Drop(p)
      BY <1>1, <1>2, <2>1 DEF After, Stages
    <3> QED
      BY <1>6, <3>1, DropKeepsTypes
  <2>2. CASE n # "idle"
    <3>1. n = "emit" => i = "read"
      BY <1>2 DEF After, Stages
    <3> HIDE DEF n, i
    <3>2. \A x \in Refreshers : stage'[x] \in {"idle", "emit"} => io'[x] = "read"
      BY <1>5, <1>6, <2>2, <3>1 DEF StepTypes
    <3> QED
      BY <1>1, <1>5, <1>6, <2>2, <3>2 DEF StepTypes
  <2> QED
    BY <2>1, <2>2
<1>8. CASE stage[p] \notin {"temporal", "longterm", "publish"}
  <2>1. Keeps(g, Books) /\ recorded' = recorded
    BY <1>1, <1>3, <1>8 DEF Follows, Books
  <2>2. Balanced'
    BY <1>1, <1>2, <1>8, <2>1, SameBalance
  <2>3. /\ g.counted = saved.counted /\ g.seen = saved.seen /\ g.since = saved.since
        /\ g.told = saved.told /\ DOMAIN g = DOMAIN NoFile
        /\ \A x : UpTo(saved, x) => UpTo(g, x)
    BY <1>6, <2>1, SameBooks DEF Keeps
  <2>4. ASSUME n # "idle" PROVE InStep(p)' /\ InMaking(p)'
    <3>1. UNCHANGED <<obs, patch, buf, own, refreshes>>
      BY <1>1, <2>4
    <3>2. CASE stage[p] = "trend"
      <4>1. n = "temporal" /\ i = "read"
        BY <3>2 DEF After
      <4>2. /\ obs[p].at = refreshes /\ obs[p].reading \in Samples
            /\ refreshes > 0 /\ UpTo(g, refreshes - 1)
        BY <1>3, <2>3, <3>2 DEF InStep
      <4>3. UpTo(saved, refreshes - 1)'
        BY <1>1, <3>1, <4>2 DEF UpTo
      <4> HIDE DEF n, i
      <4> QED
        BY <1>1, <1>5, <3>1, <4>1, <4>2, <4>3 DEF InStep, InMaking, Late
    <3>3. CASE stage[p] \in {"capabilities", "confidence", "evaluation"}
      <4>1. n \in {"confidence", "evaluation", "publish"} /\ i = "read"
        BY <3>3 DEF After
      <4>2. /\ own[p].since = saved.since /\ own[p].counted = saved.counted
            /\ own[p].seen = saved.seen
        BY <1>3, <3>3 DEF InStep, Late
      <4> HIDE DEF n, i
      <4> QED
        BY <1>1, <1>5, <2>3, <3>1, <4>1, <4>2 DEF InStep, InMaking, Late
    <3>4. CASE stage[p] = "save"
      <4>1. n = "snapshot" /\ i = "load"
        BY <3>4 DEF After
      <4>2. DOMAIN patch[p] = {"load", "mind", "stability"}
        BY <1>1, <1>3, <3>4 DEF InStep
      <4> DEFINE f == Patched(g, patch[p])
      <4>3. /\ DOMAIN f = DOMAIN NoFile
            /\ \A k \in Books : f[k] = g[k]
        <5>1. /\ DOMAIN f = DOMAIN NoFile
              /\ \A k \in Books : f[k] = IF k \in DOMAIN patch[p] THEN patch[p][k] ELSE g[k]
          BY <2>3, PatchedIs DEF Books
        <5> HIDE DEF f
        <5> QED
          BY <4>2, <5>1 DEF Books
      <4>4. (InMaking(p)' <=> Follows(p, Patched(saved, patch[p]))')
            /\ Patched(saved, patch[p])' = f
        <5> HIDE DEF n, i
        <5> QED
          BY <1>1, <1>5, <3>1, <4>1 DEF InMaking
      <4> HIDE DEF f, n, i
      <4>5. InMaking(p)'
        BY <1>1, <1>5, <4>1, <4>3, <4>4 DEF Follows, Keeps, Books
      <4> QED
        BY <1>5, <4>1, <4>5 DEF InStep, Late
    <3>5. CASE stage[p] = "intent"
      <4>1. n = "activity" /\ i = "read"
        BY <3>5 DEF After
      <4> HIDE DEF n, i
      <4> QED
        BY <1>5, <4>1 DEF InStep, InMaking, Late
    <3> QED
      BY <1>2, <1>8, <2>4, <3>2, <3>3, <3>4, <3>5 DEF After, Stages
  <2> HIDE DEF n, i
  <2> QED
    BY <1>1, <1>3, <1>6, <1>7, <2>2, <2>4, OneSteps
<1>9. CASE stage[p] = "temporal"
  <2> DEFINE c == Cardinality(Unseen(saved))
  <2>1. n = "longterm" /\ i = "read"
    BY <1>9 DEF After
  <2> HIDE DEF n, i
  <2>2. /\ DOMAIN g = DOMAIN NoFile /\ g.counted = saved.counted /\ g.seen = saved.seen
        /\ g.told = saved.told /\ own[p].since = g.since
        /\ g.since \in {saved.since, obs[p].at}
        /\ g.hist = saved.hist \/ Grown(g.hist, obs[p].at)
    BY <1>3, <1>9 DEF Follows, Keeps
  <2>3. /\ obs[p].at = refreshes /\ refreshes > 0 /\ UpTo(saved, refreshes - 1)
        /\ refreshes \in Nat
    BY <1>3, <1>6, <1>9 DEF InStep, StepTypes
  <2>4. /\ c \in Nat /\ c <= kills /\ c < HistMax /\ kills \in Nat /\ HistMax \in Nat
        /\ Counted(saved.counted) + c = recorded /\ Counted(saved.counted) \in Nat
    <3>1. \A x \in Refreshers : stage[x] # "longterm"
      BY <1>3, <1>9
    <3>2. c \in Nat /\ Counted(saved.counted) \in Nat
      BY <1>6, UnseenIs, AllAreCounted
    <3>3. c <= kills /\ kills \in 0 .. MaxKills /\ Counted(saved.counted) + c = recorded
      BY <1>6, <3>1 DEF Balanced, StepTypes
    <3> QED
      BY <3>2, <3>3, LimitsAreNat
  <2>5. /\ g.hist \in Seq(Entry) /\ Len(g.hist) <= HistMax
        /\ \A k, m \in 1 .. Len(g.hist) : k <= m => g.hist[k].at <= g.hist[m].at
        /\ \A k \in 1 .. Len(g.hist) : g.hist[k].at <= refreshes
        /\ Cardinality(Unseen(g)) = IF saved.hist # g.hist THEN c + 1 ELSE c
    <3>1. CASE g.hist = saved.hist
      <4>1. Unseen(g) = Unseen(saved)
        BY <2>2, <3>1 DEF Unseen
      <4>2. \A k \in 1 .. Len(saved.hist) : saved.hist[k].at <= refreshes
        BY <1>6 DEF Balanced, UpTo
      <4> QED
        BY <1>6, <3>1, <4>1, <4>2 DEF BookTypes
    <3>2. CASE Grown(g.hist, obs[p].at)
      <4>1. Grown(g.hist, refreshes)
        BY <2>3, <3>2
      <4> HIDE DEF c
      <4> QED
        BY <1>6, <2>2, <2>3, <2>4, <4>1, ChangeRecorded DEF c
    <3> QED
      BY <2>2, <3>1, <3>2
  <2>6. BookTypes(g) /\ UpTo(g, refreshes)
    <3>1. g.since \in Nat /\ g.since <= refreshes /\ g.told \in Nat /\ g.told <= g.since
      BY <1>6, <2>2, <2>3 DEF BookTypes, UpTo
    <3>2. g.seen \in Nat /\ g.seen <= refreshes /\ g.counted \in [Modes -> Nat]
      BY <1>6, <2>2, <2>3 DEF BookTypes, UpTo
    <3> QED
      BY <2>2, <2>5, <3>1, <3>2 DEF BookTypes, UpTo
  <2>7. /\ Counted(g.counted) + Cardinality(Unseen(g)) = recorded'
        /\ Cardinality(Unseen(g)) <= kills + 1
    <3> HIDE DEF c
    <3> QED
      BY <1>1, <1>9, <2>2, <2>4, <2>5
  <2>8. /\ saved' = g /\ UNCHANGED <<refreshes, kills, emitted>>
        /\ stage'[p] = "longterm" /\ io'[p] = "read" /\ UNCHANGED <<obs, patch, buf, own>>
    BY <1>1, <1>5, <2>1
  <2>9. Balanced'
    <3>1. BookTypes(saved)' /\ UpTo(saved, refreshes)'
      BY <2>6, <2>8 DEF BookTypes, UpTo
    <3>2. /\ (Counted(saved.counted) + Cardinality(Unseen(saved)) = recorded)'
          /\ (Cardinality(Unseen(saved)) <= kills + 1)'
      BY <2>7, <2>8 DEF Counted, Unseen
    <3> QED
      BY <1>6, <2>2, <2>8, <3>1, <3>2 DEF Balanced
  <2>10. InStep(p)' /\ InMaking(p)'
    BY <2>2, <2>8 DEF InStep, InMaking, Late
  <2> QED
    BY <1>1, <1>3, <1>6, <1>7, <2>9, <2>10, OneSteps
<1>10. CASE stage[p] = "longterm"
  <2>1. n = "capabilities" /\ i = "read"
    BY <1>10 DEF After
  <2> HIDE DEF n, i
  <2>2. /\ DOMAIN g = DOMAIN NoFile /\ g.hist = saved.hist /\ g.since = saved.since
        /\ g.told = saved.told /\ g.counted = CountedWith(saved)
        /\ g.seen = LongTermPatch.seen
        /\ own[p].counted = g.counted /\ own[p].seen = g.seen
    BY <1>3, <1>10 DEF Follows, Keeps, LongTermPatch
  <2>3. own[p].since = saved.since
    BY <1>3, <1>10 DEF InStep
  <2>4. /\ g.counted \in [Modes -> Nat]
        /\ Counted(g.counted) = Counted(saved.counted) + Cardinality(Unseen(saved))
        /\ Counted(g.counted) \in Nat
    <3>1. Cardinality(Unseen(saved)) \in Nat
      BY <1>6, UnseenIs
    <3> QED
      BY <1>6, <2>2, <3>1, AllAreCounted
  <2>5. g.seen \in Nat /\ Unseen(g) = {} /\ g.seen <= refreshes
    <3>1. UpTo(saved, refreshes) /\ refreshes \in Nat
      BY <1>6 DEF Balanced, StepTypes
    <3> QED
      BY <1>6, <2>2, <3>1, NothingWaits
  <2>6. Cardinality(Unseen(g)) = 0
    BY <2>5, FS_EmptySet
  <2>7. BookTypes(g) /\ UpTo(g, refreshes)
    BY <1>6, <2>2, <2>4, <2>5 DEF BookTypes, UpTo, Balanced
  <2>8. /\ saved' = g /\ UNCHANGED <<refreshes, kills, emitted, recorded>>
        /\ stage'[p] = "capabilities" /\ io'[p] = "read"
        /\ UNCHANGED <<obs, patch, buf, own>>
    BY <1>1, <1>5, <1>10, <2>1
  <2>9. Balanced'
    <3>1. BookTypes(saved)' /\ UpTo(saved, refreshes)'
      BY <2>7, <2>8 DEF BookTypes, UpTo
    <3>2. Counted(g.counted) + 0 = recorded /\ kills \in Nat
      BY <1>6, <2>4, LimitsAreNat DEF Balanced, StepTypes
    <3>3. /\ (Counted(saved.counted) + Cardinality(Unseen(saved)) = recorded)'
          /\ (Cardinality(Unseen(saved)) <= kills)'
          /\ (Cardinality(Unseen(saved)) <= kills + 1)'
      BY <2>6, <2>8, <3>2 DEF Counted, Unseen
    <3> QED
      BY <1>6, <2>2, <2>8, <3>1, <3>3 DEF Balanced
  <2>10. InStep(p)' /\ InMaking(p)'
    BY <2>2, <2>3, <2>8 DEF InStep, InMaking, Late
  <2> QED
    BY <1>1, <1>3, <1>6, <1>7, <2>9, <2>10, OneSteps
<1>11. CASE stage[p] = "publish"
  <2>1. n = "emit" /\ i = "read"
    BY <1>11 DEF After
  <2> HIDE DEF n, i
  <2>2. /\ DOMAIN g = DOMAIN NoFile /\ g.hist = saved.hist /\ g.since = saved.since
        /\ g.counted = saved.counted /\ g.seen = saved.seen /\ g.told = saved.since
        /\ saved.told < saved.since /\ patch[p].told = saved.since
    BY <1>3, <1>11 DEF Follows, Keeps
  <2>3. /\ own[p].since = saved.since /\ own[p].counted = saved.counted
        /\ own[p].seen = saved.seen
    BY <1>3, <1>11 DEF InStep, Late
  <2>4. BookTypes(g) /\ UpTo(g, refreshes) /\ Unseen(g) = Unseen(saved)
    BY <1>6, <2>2 DEF BookTypes, UpTo, Balanced, Unseen
  <2>5. /\ \A k \in 1 .. Len(emitted) : emitted[k] < g.told
        /\ \A k \in 1 .. Len(emitted) : emitted[k] <= g.told
    <3>1. saved.told \in Nat /\ saved.since \in Nat
      BY <1>6 DEF BookTypes
    <3>2. \A k \in 1 .. Len(emitted) : emitted[k] \in Nat
      BY <1>6, ElementOfSeq, LenProperties DEF StepTypes
    <3>3. \A k \in 1 .. Len(emitted) : emitted[k] <= saved.told
      BY <1>6 DEF Balanced
    <3> QED
      BY <2>2, <3>1, <3>2, <3>3
  <2>6. /\ saved' = g /\ UNCHANGED <<refreshes, kills, emitted, recorded>>
        /\ stage'[p] = "emit" /\ io'[p] = "read" /\ UNCHANGED <<obs, patch, buf, own>>
    BY <1>1, <1>5, <1>11, <2>1
  <2>7. \A x \in Refreshers : stage[x] # "longterm"
    BY <1>3, <1>11
  <2>8. Balanced'
    <3>1. BookTypes(saved)' /\ UpTo(saved, refreshes)' /\ Unseen(saved)' = Unseen(saved)
      BY <2>4, <2>6 DEF BookTypes, UpTo, Unseen
    <3>2. Counted(saved.counted)' = Counted(saved.counted)
      BY <2>2, <2>6 DEF Counted
    <3> QED
      BY <1>6, <2>2, <2>5, <2>6, <2>7, <3>1, <3>2 DEF Balanced
  <2>9. InStep(p)' /\ InMaking(p)'
    BY <2>2, <2>3, <2>5, <2>6 DEF InStep, InMaking, Late
  <2> QED
    BY <1>1, <1>3, <1>6, <1>7, <2>8, <2>9, OneSteps
<1> QED
  BY <1>8, <1>9, <1>10, <1>11

(* The exception of a replace that finds no file: only after an overlap.   *)
LEMMA ReplaceFindsItsFile ==
  ASSUME Settled, NEW p \in Refreshers
  PROVE  ~ReplaceFails(p)
<1>1. io[p] = "replace" => stage[p] # "idle"
  BY DEF Settled, StepTypes
<1> QED
  BY <1>1 DEF ReplaceFails, Settled, InMaking

LEMMA SelfStart == SelfModelInit => SelfInv
<1> SUFFICES ASSUME SelfModelInit PROVE SelfInv
  OBVIOUS
<1>1. /\ saved = NoFile /\ \A p \in Refreshers : stage[p] = "idle"
      /\ raced = FALSE /\ recorded = 0 /\ emitted = <<>> /\ kills = 0 /\ refreshes = 0
  BY DEF SelfModelInit
<1>2. /\ NoFile.hist = <<>> /\ NoFile.counted = [m \in Modes |-> 0]
      /\ NoFile.seen = 0 /\ NoFile.since = 0 /\ NoFile.told = 0
  BY DEF NoFile, NoTime, NoCounts
<1>3. Len(<<>>) = 0 /\ <<>> \in Seq(Entry) /\ <<>> \in Seq(Nat)
  BY EmptySeq
<1>4. StepTypes
  BY <1>3, LimitsAreNat DEF SelfModelInit, StepTypes, Stages
<1>5. BookTypes(saved) /\ UpTo(saved, 0)
  BY <1>1, <1>2, <1>3, LimitsAreNat DEF BookTypes, UpTo
<1>6. Unseen(saved) = {}
  <2>1. DOMAIN saved.hist = {}
    BY <1>1, <1>2
  <2> QED
    BY <2>1 DEF Unseen
<1>7. Cardinality(Unseen(saved)) = 0
  BY <1>6, FS_EmptySet
<1>8. Counted(saved.counted) = 0
  BY <1>1, <1>2 DEF Counted, Modes
<1>9. Balanced
  BY <1>1, <1>3, <1>5, <1>7, <1>8 DEF Balanced
<1> QED
  BY <1>1, <1>4, <1>9 DEF SelfInv, OneAtWork

LEMMA SelfStep ==
  ASSUME MaxKills < HistMax, SelfInv, [SelfModelNext]_selfVars
  PROVE  SelfInv'
<1>1. CASE raced
  <2>1. raced' = TRUE
    BY <1>1 DEF SelfInv, SelfModelNext, selfVars, Refresh, ComputeStep, ReadPublish,
       HandleEvent, NoteIntent, NoteActivity, Load, WriteTmp, Replace, ReplaceFails,
       Emit, ReadSave, KillRefresher, Begins
  <2> QED
    BY <2>1 DEF SelfInv
<1>2. CASE ~raced
  <2>1. Settled /\ HistMax > 0
    BY <1>2, LimitsAreNat DEF SelfInv, Settled
  <2>2. CASE UNCHANGED selfVars
    <3>1. UNCHANGED <<saved, tmp, stage, io, obs, patch, buf, own, refreshes, kills,
                      raced, recorded, emitted>>
      BY <2>2 DEF selfVars
    <3>2. StepTypes' /\ OneAtWork'
      BY <2>1, <3>1 DEF Settled, StepTypes, OneAtWork
    <3>3. Balanced'
      BY <2>1, <3>1 DEF Settled, Balanced, BookTypes, UpTo, Unseen, Counted
    <3>4. ASSUME NEW p \in Refreshers, stage'[p] # "idle"
          PROVE  InStep(p)' /\ InMaking(p)'
      <4>1. InStep(p) /\ InMaking(p)
        BY <2>1, <3>1, <3>4 DEF Settled
      <4>2. InStep(p)'
        BY <3>1, <4>1 DEF InStep, UpTo
      <4>3. LongTermPatch' = LongTermPatch /\ Patched(saved, patch[p])' = Patched(saved, patch[p])
        BY <3>1 DEF LongTermPatch, CountedWith, Unseen
      <4>4. InMaking(p)'
        BY <3>1, <4>1, <4>3 DEF InMaking, Follows, Keeps, Grown
      <4> QED
        BY <4>2, <4>4
    <3> QED
      BY <2>1, <3>1, <3>2, <3>3, <3>4 DEF SelfInv, Settled
  <2>3. CASE SelfModelNext
    <3>1. PICK p \in Refreshers :
            \/ Refresh(p) \/ ComputeStep(p) \/ ReadPublish(p)
            \/ HandleEvent(p) \/ NoteIntent(p) \/ NoteActivity(p)
            \/ Load(p) \/ WriteTmp(p) \/ Replace(p) \/ ReplaceFails(p) \/ Emit(p)
            \/ ReadSave(p) \/ KillRefresher(p)
      BY <2>3 DEF SelfModelNext
    <3>2. CASE raced'
      <4>1. raced' \in BOOLEAN
        BY <1>2, <3>1 DEF SelfInv, Refresh, ComputeStep, ReadPublish, HandleEvent,
           NoteIntent, NoteActivity, Load, WriteTmp, Replace, ReplaceFails, Emit,
           ReadSave, KillRefresher, Begins
      <4> QED
        BY <3>2, <4>1 DEF SelfInv
    <3>3. CASE ~raced'
      BY <2>1, <3>1, <3>3, RefreshKeepsBooks, ComputeKeepsBooks, PublishKeepsBooks,
         NotesKeepBooks, LoadKeepsBooks, WriteKeepsBooks, ReplaceKeepsBooks,
         ReplaceFindsItsFile, EmitKeepsBooks, SaveKeepsBooks, KillKeepsBooks, Zenon
    <3> QED
      BY <3>2, <3>3
  <2> QED
    BY <2>2, <2>3
<1> QED
  BY <1>1, <1>2 DEF SelfInv

(* While no two processes refreshed at once, every change of mode recorded *)
(* is counted once or still waits, and none is published twice, at         *)
(* whichever file access a process dies; fewer deaths than the history has *)
(* entries, as each may leave one change that waits and the twenty-first   *)
(* would be dropped before it is counted.                                  *)
THEOREM ChangesHandledOnceCorrect ==
  ASSUME MaxKills < HistMax
  PROVE  SelfModelSpec => []ChangesHandledOnce
<1>1. SelfModelInit => SelfInv
  BY SelfStart
<1>2. SelfInv /\ [SelfModelNext]_selfVars => SelfInv'
  BY SelfStep
<1>3. SelfInv => ChangesHandledOnce
  <2> SUFFICES ASSUME SelfInv, ~raced
               PROVE  /\ Counted(saved.counted) + Cardinality(Unseen(saved)) = recorded
                      /\ \A i, j \in DOMAIN emitted : emitted[i] = emitted[j] => i = j
    BY DEF ChangesHandledOnce
  <2>1. DOMAIN emitted = 1 .. Len(emitted)
    BY LenProperties DEF SelfInv, StepTypes
  <2> QED
    BY <2>1 DEF SelfInv, Balanced
<1> QED
  BY <1>1, <1>2, <1>3, PTL DEF SelfModelSpec
-----------------------------------------------------------------------------
(* What the files and the patches hold has its types, however the          *)
(* refreshes overlap.                                                      *)

(* What the field k of a file, of a patch or of what was computed may be.  *)
Fits(k, v) ==
  /\ k = "mode" => v \in Modes \cup {NoMode}
  /\ k \in {"since", "told"} => v \in 0 .. MaxRefresh
  /\ k = "hist" => v \in Seq(Change) /\ Len(v) <= HistMax
  /\ k = "counted" => v \in [Modes -> Nat]
  /\ k = "samples" => v \in Seq(Samples) /\ Len(v) <= SampleMax
  /\ k \in DOMAIN ListMax => v \in Seq(Item)

PatchTypes(q) == \A k \in DOMAIN q : Fits(k, q[k])
FileTypes(f) ==
  /\ DOMAIN f = DOMAIN NoFile /\ PatchTypes(f)
  /\ \A k \in DOMAIN ListMax : Len(f[k]) <= ListMax[k]
OwnTypes(o) == DOMAIN o = DOMAIN NoOwn /\ PatchTypes(o)

(* A process that has something to write is at a stage that writes, what   *)
(* it publishes it has put in its patch, and an intent it notes was heard. *)
AtStage(p) ==
  /\ stage[p] \in {"idle", "emit"} => io[p] = "read"
  /\ stage[p] = "emit" \/ (stage[p] = "publish" /\ io[p] # "read") => "told" \in DOMAIN patch[p]
  /\ stage[p] \in {"intent", "activity"} => heard >= 1

HeldTypes ==
  /\ DOMAIN patch = Refreshers /\ DOMAIN buf = Refreshers /\ DOMAIN own = Refreshers
  /\ \A p \in Refreshers : PatchTypes(patch[p]) /\ FileTypes(buf[p]) /\ OwnTypes(own[p])
  /\ obs \in [Refreshers -> [reading : Samples, at : 0 .. MaxRefresh]]

DiskTypes == FileTypes(saved) /\ (tmp = <<>> \/ \E f \in {tmp[1]} : tmp = <<f>> /\ FileTypes(f))

PlaceTypes ==
  /\ stage \in [Refreshers -> Stages]
  /\ io \in [Refreshers -> {"read", "load", "write", "replace"}]
  /\ \A p \in Refreshers : AtStage(p)

CountTypes ==
  /\ policy \in Modes
  /\ refreshes \in 0 .. MaxRefresh /\ heard \in 0 .. MaxEvents /\ kills \in 0 .. MaxKills
  /\ raced \in BOOLEAN /\ recorded \in Nat /\ emitted \in Seq(0 .. MaxRefresh)

SelfTypes == HeldTypes /\ DiskTypes /\ PlaceTypes /\ CountTypes

LEMMA Limits ==
  /\ {HistMax, SampleMax, Many, EventMax, ActivityMax, IntentMax, MaxRefresh,
      MaxEvents, MaxKills} \subseteq Nat
  /\ Samples \subseteq Readings /\ Samples # {}
  /\ Kinds \subseteq {"intent", "agent", "voice", "alert", "other"}
BY SelfModelAssumption

LEMMA ListsAre ==
  /\ DOMAIN ListMax = {"events", "activity", "intents"}
  /\ ListMax["events"] = EventMax /\ ListMax["activity"] = ActivityMax
  /\ ListMax["intents"] = IntentMax
  /\ \A k \in DOMAIN ListMax : ListMax[k] \in Nat /\ k \in DOMAIN NoFile
BY Limits DEF ListMax, NoFile

LEMMA OwnFields == DOMAIN NoOwn \subseteq DOMAIN NoFile
BY DEF NoOwn, NoFile

-----------------------------------------------------------------------------
(* A list joined to another one, without what is there twice.              *)
Uniting(g, s, m) ==
  g = [i \in 0 .. m |->
         IF i = 0 THEN <<>>
         ELSE IF s[i] \in Range(g[i - 1]) THEN g[i - 1] ELSE Append(g[i - 1], s[i])]

LEMMA UnitingExists ==
  ASSUME NEW s
  PROVE  \A m \in Nat : \E g : Uniting(g, s, m)
<1> DEFINE T == {m \in Nat : \E g : Uniting(g, s, m)}
           one(q, n) == IF s[n] \in Range(q) THEN q ELSE Append(q, s[n])
<1>0. \A g, m : Uniting(g, s, m)
                  <=> g = [n \in 0 .. m |-> IF n = 0 THEN <<>> ELSE one(g[n - 1], n)]
  BY DEF Uniting
<1> HIDE DEF one
<1>1. 0 \in T
  <2> DEFINE g == [n \in 0 .. 0 |-> <<>>]
  <2>1. g = [n \in 0 .. 0 |-> IF n = 0 THEN <<>> ELSE one(g[n - 1], n)]
    OBVIOUS
  <2> QED
    BY <1>0, <2>1
<1>2. ASSUME NEW m \in Nat, m \in T PROVE m + 1 \in T
  <2>1. PICK g : Uniting(g, s, m)
    BY <1>2
  <2> DEFINE h == [n \in 0 .. (m + 1) |-> IF n <= m THEN g[n] ELSE one(g[m], m + 1)]
             f == [n \in 0 .. (m + 1) |-> IF n = 0 THEN <<>> ELSE one(h[n - 1], n)]
  <2>2. \A n \in 0 .. m : g[n] = IF n = 0 THEN <<>> ELSE one(g[n - 1], n)
    <3> DEFINE e(n) == IF n = 0 THEN <<>> ELSE one(g[n - 1], n)
    <3>1. g = [n \in 0 .. m |-> e(n)]
      BY <1>0, <2>1
    <3> HIDE DEF e
    <3>2. \A n \in 0 .. m : g[n] = e(n)
      BY <3>1
    <3> QED
      BY <3>2 DEF e
  <2>3. ASSUME NEW n \in 0 .. (m + 1) PROVE h[n] = f[n]
    <3>1. CASE n = 0
      BY <2>2, <3>1
    <3>2. CASE n \in 1 .. m
      <4>1. h[n] = g[n] /\ n \in 0 .. m /\ n # 0 /\ n - 1 \in 0 .. (m + 1) /\ n - 1 <= m
        BY <3>2
      <4>2. h[n - 1] = g[n - 1]
        BY <4>1
      <4>3. f[n] = one(h[n - 1], n)
        BY <4>1
      <4> HIDE DEF h, f
      <4> QED
        BY <2>2, <4>1, <4>2, <4>3
    <3>3. CASE n = m + 1
      <4>1. h[n] = one(g[m], m + 1)
        BY <3>3
      <4>2. h[m] = g[m] /\ n - 1 = m /\ n # 0
        BY <3>3
      <4>3. f[n] = one(h[n - 1], n)
        BY <4>2
      <4> HIDE DEF h, f
      <4> QED
        BY <3>3, <4>1, <4>2, <4>3
    <3> QED
      BY <3>1, <3>2, <3>3
  <2>4. h = f
    BY <2>3
  <2>5. Uniting(h, s, m + 1)
    BY <1>0, <2>4
  <2> QED
    BY <2>5
<1> HIDE DEF T
<1>3. \A m \in Nat : m \in T
  BY <1>1, <1>2, Induction
<1> QED
  BY <1>3 DEF T

LEMMA JoinedIs ==
  ASSUME NEW S, NEW old \in Seq(S), NEW new \in Seq(S), NEW max \in Nat
  PROVE  Joined(old, new, max) \in Seq(S) /\ Len(Joined(old, new, max)) <= max
<1> DEFINE s == old \o new
           l == Len(s)
           f == CHOOSE g : Uniting(g, s, l)
<1>1. s \in Seq(S)
  BY ConcatProperties
<1>2. Joined(old, new, max) = LastOf(f[l], max)
  BY DEF Joined, Uniting
<1> HIDE DEF s
<1>3. l \in Nat /\ \A n \in 1 .. l : s[n] \in S
  BY <1>1, LenProperties, ElementOfSeq
<1>4. Uniting(f, s, l)
  BY <1>3, UnitingExists
<1> HIDE DEF f, l
<1>5. \A n \in 0 .. l : f[n] = IF n = 0 THEN <<>>
                               ELSE IF s[n] \in Range(f[n - 1]) THEN f[n - 1]
                               ELSE Append(f[n - 1], s[n])
  <2> DEFINE e(n) == IF n = 0 THEN <<>>
                     ELSE IF s[n] \in Range(f[n - 1]) THEN f[n - 1] ELSE Append(f[n - 1], s[n])
  <2>1. f = [n \in 0 .. l |-> e(n)]
    BY <1>4, Zenon DEF Uniting
  <2> HIDE DEF e
  <2>2. \A n \in 0 .. l : f[n] = e(n)
    BY <2>1
  <2> QED
    BY <2>2 DEF e
<1> DEFINE T == {n \in Nat : n <= l => f[n] \in Seq(S)}
<1>6. 0 \in T
  <2>1. 0 \in 0 .. l
    BY <1>3
  <2>2. f[0] = <<>>
    BY <1>5, <2>1
  <2>3. <<>> \in Seq(S)
    BY EmptySeq
  <2> QED
    BY <2>2, <2>3
<1>7. ASSUME NEW n \in Nat, n \in T PROVE n + 1 \in T
  <2>1. SUFFICES ASSUME n + 1 <= l PROVE f[n + 1] \in Seq(S)
    OBVIOUS
  <2>2. f[n] \in Seq(S)
    BY <1>3, <1>7, <2>1
  <2>3. n + 1 \in 0 .. l /\ n + 1 # 0 /\ (n + 1) - 1 = n /\ s[n + 1] \in S
    BY <1>3, <2>1
  <2>4. f[n + 1] = f[n] \/ f[n + 1] = Append(f[n], s[n + 1])
    BY <1>5, <2>3
  <2>5. Append(f[n], s[n + 1]) \in Seq(S)
    BY <2>2, <2>3, AppendProperties
  <2> QED
    BY <2>2, <2>4, <2>5, Zenon
<1> HIDE DEF T
<1>8. l \in T
  BY <1>3, <1>6, <1>7, Induction
<1>9. f[l] \in Seq(S)
  BY <1>3, <1>8 DEF T
<1>10. LastOf(f[l], max) \in Seq(S) /\ Len(LastOf(f[l], max)) <= max
  BY <1>9, CutIs
<1> QED
  BY <1>2, <1>10

-----------------------------------------------------------------------------
(* What is merged into a file, or put over what was computed.              *)
LEMMA OverFits ==
  ASSUME NEW f, NEW q, PatchTypes(f), PatchTypes(q)
  PROVE  DOMAIN Over(f, q) = DOMAIN f /\ PatchTypes(Over(f, q))
<1>1. DOMAIN Over(f, q) = DOMAIN f
  BY DEF Over
<1>2. ASSUME NEW k \in DOMAIN f PROVE Fits(k, Over(f, q)[k])
  <2>1. Over(f, q)[k] = IF k \in DOMAIN q THEN q[k] ELSE f[k]
    BY DEF Over
  <2>2. Fits(k, f[k]) /\ (k \in DOMAIN q => Fits(k, q[k]))
    BY DEF PatchTypes
  <2> QED
    BY <2>1, <2>2
<1> QED
  BY <1>1, <1>2 DEF PatchTypes

LEMMA PatchedFits ==
  ASSUME NEW f, NEW q, FileTypes(f), PatchTypes(q)
  PROVE  FileTypes(Patched(f, q))
<1> DEFINE j(k) == Joined(f[k], q[k], ListMax[k])
           g == Patched(f, q)
<1>1. /\ DOMAIN g = DOMAIN NoFile
      /\ \A k \in DOMAIN g : g[k] = IF k \in DOMAIN q
                                    THEN IF k \in DOMAIN ListMax THEN j(k) ELSE q[k]
                                    ELSE f[k]
  BY DEF Patched, Over, FileTypes
<1> HIDE DEF g
<1>2. ASSUME NEW k \in DOMAIN ListMax, k \in DOMAIN q
      PROVE  j(k) \in Seq(Item) /\ Len(j(k)) <= ListMax[k]
  <2>1. f[k] \in Seq(Item) /\ q[k] \in Seq(Item) /\ ListMax[k] \in Nat
    BY <1>2, ListsAre DEF FileTypes, PatchTypes, Fits
  <2> QED
    BY <2>1, JoinedIs
<1> HIDE DEF j
<1>3. ASSUME NEW k \in DOMAIN NoFile PROVE Fits(k, g[k])
  <2>1. Fits(k, f[k]) /\ (k \in DOMAIN q => Fits(k, q[k]))
    BY DEF FileTypes, PatchTypes
  <2>2. CASE k \in DOMAIN q /\ k \in DOMAIN ListMax
    <3>1. g[k] \in Seq(Item)
      BY <1>1, <1>2, <2>2
    <3>2. k \notin {"mode", "since", "told", "hist", "counted", "samples"}
      BY <2>2, ListsAre
    <3> QED
      BY <3>1, <3>2 DEF Fits
  <2>3. CASE k \notin DOMAIN q \/ k \notin DOMAIN ListMax
    <3>1. g[k] = f[k] \/ (k \in DOMAIN q /\ g[k] = q[k])
      BY <1>1, <2>3
    <3> QED
      BY <2>1, <3>1
  <2> QED
    BY <2>2, <2>3
<1>4. ASSUME NEW k \in DOMAIN ListMax PROVE Len(g[k]) <= ListMax[k]
  <2>1. Len(f[k]) <= ListMax[k] /\ k \in DOMAIN g
    BY <1>1, ListsAre DEF FileTypes
  <2> QED
    BY <1>1, <1>2, <2>1
<1>5. FileTypes(g)
  BY <1>1, <1>3, <1>4 DEF FileTypes, PatchTypes
<1> QED
  BY <1>5 DEF g

LEMMA NewFileFits == FileTypes(NoFile) /\ OwnTypes(NoOwn) /\ PatchTypes(NoPatch)
<1>1. /\ \A S : <<>> \in Seq(S)
      /\ Len(<<>>) = 0 /\ NoCounts \in [Modes -> Nat] /\ DOMAIN NoPatch = {}
  BY EmptySeq DEF NoCounts, NoPatch
<1>2. 0 \in 0 .. MaxRefresh /\ HistMax >= 0 /\ SampleMax >= 0
  BY Limits
<1>3. /\ NoFile["mode"] = NoMode /\ NoFile["since"] = 0 /\ NoFile["told"] = 0
      /\ NoFile["hist"] = <<>> /\ NoFile["counted"] = NoCounts /\ NoFile["samples"] = <<>>
      /\ NoFile["events"] = <<>> /\ NoFile["activity"] = <<>> /\ NoFile["intents"] = <<>>
  BY DEF NoFile, NoTime
<1>4. /\ NoOwn["since"] = 0 /\ NoOwn["hist"] = <<>> /\ NoOwn["counted"] = NoCounts
      /\ NoOwn["samples"] = <<>>
      /\ {"mode", "told", "events", "activity", "intents"} \cap DOMAIN NoOwn = {}
  BY DEF NoOwn, NoTime
<1>5. PatchTypes(NoFile)
  BY <1>1, <1>2, <1>3, ListsAre DEF PatchTypes, Fits
<1>6. PatchTypes(NoOwn)
  BY <1>1, <1>2, <1>4, ListsAre DEF PatchTypes, Fits
<1>7. \A k \in DOMAIN ListMax : Len(NoFile[k]) <= ListMax[k]
  BY <1>1, <1>3, ListsAre
<1>8. PatchTypes(NoPatch)
  BY <1>1 DEF PatchTypes
<1> QED
  BY <1>5, <1>6, <1>7, <1>8 DEF FileTypes, OwnTypes

(* The fields of a file, by their names.                                   *)
LEMMA FieldsAre ==
  ASSUME NEW f, FileTypes(f)
  PROVE  /\ DOMAIN f = DOMAIN NoFile
         /\ f.mode \in Modes \cup {NoMode} /\ f.since \in 0 .. MaxRefresh
         /\ f.hist \in Seq(Change) /\ Len(f.hist) <= HistMax
         /\ f.counted \in [Modes -> Nat]
         /\ f.samples \in Seq(Samples) /\ Len(f.samples) <= SampleMax
         /\ f.events \in Seq(Item) /\ Len(f.events) <= EventMax
         /\ f.activity \in Seq(Item) /\ Len(f.activity) <= ActivityMax
         /\ f.intents \in Seq(Item) /\ Len(f.intents) <= IntentMax
<1>1. {"mode", "since", "hist", "counted", "samples", "events", "activity", "intents"}
        \subseteq DOMAIN f
  BY DEF FileTypes, NoFile
<1>2. /\ Fits("mode", f.mode) /\ Fits("since", f.since) /\ Fits("hist", f.hist)
      /\ Fits("counted", f.counted) /\ Fits("samples", f.samples)
      /\ Fits("events", f.events) /\ Fits("activity", f.activity)
      /\ Fits("intents", f.intents)
  BY <1>1 DEF FileTypes, PatchTypes
<1>3. /\ Len(f.events) <= EventMax /\ Len(f.activity) <= ActivityMax
      /\ Len(f.intents) <= IntentMax
  BY ListsAre DEF FileTypes
<1> QED
  BY <1>2, <1>3, ListsAre DEF FileTypes, Fits

LEMMA OwnAre ==
  ASSUME NEW o, OwnTypes(o)
  PROVE  o.since \in 0 .. MaxRefresh /\ o.counted \in [Modes -> Nat]
<1>1. {"since", "counted"} \subseteq DOMAIN o
  BY DEF OwnTypes, NoOwn
<1>2. Fits("since", o.since) /\ Fits("counted", o.counted)
  BY <1>1 DEF OwnTypes, PatchTypes
<1> QED
  BY <1>2 DEF Fits

-----------------------------------------------------------------------------
(* What each step of a refresh merges.                                     *)
LEMMA TrendFits ==
  ASSUME FileTypes(saved), NEW r \in Samples
  PROVE  PatchTypes([samples |-> LastOf(Append(saved.samples, r), SampleMax)])
<1>1. saved.samples \in Seq(Samples) /\ SampleMax \in Nat
  BY FieldsAre, Limits
<1>2. Append(saved.samples, r) \in Seq(Samples)
  BY <1>1, AppendProperties
<1> DEFINE v == LastOf(Append(saved.samples, r), SampleMax)
<1>3. v \in Seq(Samples) /\ Len(v) <= SampleMax
  BY <1>1, <1>2, CutIs
<1> DEFINE q == [samples |-> v]
<1>4. DOMAIN q = {"samples"} /\ q["samples"] = v
  OBVIOUS
<1> HIDE DEF v, q
<1>5. Fits("samples", q["samples"])
  BY <1>3, <1>4, ListsAre DEF Fits
<1>6. PatchTypes(q)
  BY <1>4, <1>5 DEF PatchTypes
<1> QED
  BY <1>6 DEF q, v

LEMMA TemporalFits ==
  ASSUME FileTypes(saved), NEW p \in Refreshers,
         obs[p] \in [reading : Samples, at : 0 .. MaxRefresh]
  PROVE  PatchTypes(TemporalPatch(p))
<1> DEFINE r == obs[p].reading
           e == [at |-> obs[p].at, to |-> ModeOf(r), severity |-> Severity(r),
                 cause |-> Cause(r, saved)]
           q == TemporalPatch(p)
<1>1. r \in Readings /\ obs[p].at \in 0 .. MaxRefresh
  BY Limits
<1>2. ModeOf(r) \in Modes /\ Severity(r) \in 0 .. 85 /\ Cause(r, saved) \in Causes
  BY <1>1, ModeIs, SeverityIs, CauseIs
<1>3. e \in Change
  BY <1>1, <1>2 DEF Change
<1>4. q.mode = ModeOf(r) /\ q.since \in {obs[p].at, saved.since}
  BY DEF TemporalPatch
<1>5. q.hist = saved.hist \/ q.hist = LastOf(Append(saved.hist, e), HistMax)
  BY DEF TemporalPatch
<1>6. DOMAIN q = {"mode", "since", "hist"}
  BY DEF TemporalPatch
<1> HIDE DEF e, q
<1>7. saved.hist \in Seq(Change) /\ Len(saved.hist) <= HistMax /\ HistMax \in Nat
      /\ saved.since \in 0 .. MaxRefresh
  BY FieldsAre, Limits
<1>8. Append(saved.hist, e) \in Seq(Change)
  BY <1>3, <1>7, AppendProperties
<1>9. q.hist \in Seq(Change) /\ Len(q.hist) <= HistMax
  BY <1>5, <1>7, <1>8, CutIs
<1>10. Fits("mode", q.mode) /\ Fits("since", q.since) /\ Fits("hist", q.hist)
  BY <1>1, <1>2, <1>4, <1>7, <1>9, ListsAre DEF Fits
<1> QED
  BY <1>6, <1>10 DEF PatchTypes, q

LEMMA LongTermFits ==
  ASSUME FileTypes(saved)
  PROVE  PatchTypes(LongTermPatch)
<1>1. saved.hist \in Seq(Change) /\ saved.counted \in [Modes -> Nat]
  BY FieldsAre
<1>2. IsFiniteSet(1 .. Len(saved.hist)) /\ Unseen(saved) \subseteq 1 .. Len(saved.hist)
  <2>1. Len(saved.hist) \in Nat /\ DOMAIN saved.hist = 1 .. Len(saved.hist)
    BY <1>1, LenProperties
  <2>2. IsFiniteSet(1 .. Len(saved.hist))
    BY <2>1, FS_Interval
  <2> QED
    BY <2>1, <2>2 DEF Unseen
<1>3. ASSUME NEW m \in Modes
      PROVE  Cardinality({i \in Unseen(saved) : saved.hist[i].to = m}) \in Nat
  <2>1. {i \in Unseen(saved) : saved.hist[i].to = m} \subseteq 1 .. Len(saved.hist)
    BY <1>2
  <2> QED
    BY <1>2, <2>1, FS_Subset, FS_CardinalityType
<1>4. CountedWith(saved) \in [Modes -> Nat]
  BY <1>1, <1>3 DEF CountedWith
<1>5. DOMAIN LongTermPatch = {"counted", "seen"} /\ LongTermPatch.counted = CountedWith(saved)
  BY DEF LongTermPatch
<1> QED
  BY <1>4, <1>5, ListsAre DEF PatchTypes, Fits

LEMMA StepFits ==
  ASSUME FileTypes(saved), NEW p \in Refreshers,
         obs[p] \in [reading : Samples, at : 0 .. MaxRefresh],
         stage[p] \in {"trend", "temporal", "longterm", "capabilities", "confidence",
                       "evaluation"},
         NEW q \in StepPatches(p)
  PROVE  PatchTypes(q)
<1>1. CASE stage[p] = "trend"
  <2>1. q = [samples |-> LastOf(Append(saved.samples, obs[p].reading), SampleMax)]
    BY <1>1 DEF StepPatches
  <2> QED
    BY <2>1, TrendFits
<1>2. CASE stage[p] = "temporal"
  <2>1. q = TemporalPatch(p)
    BY <1>2 DEF StepPatches
  <2> QED
    BY <2>1, TemporalFits
<1>3. CASE stage[p] = "longterm"
  <2>1. q = LongTermPatch
    BY <1>3 DEF StepPatches
  <2> QED
    BY <2>1, LongTermFits
<1>4. CASE stage[p] \in {"capabilities", "confidence", "evaluation"}
  <2>1. DOMAIN q \subseteq {"autonomy", "confidence", "evaluation"}
    <3>1. CASE stage[p] = "capabilities"
      BY <3>1 DEF StepPatches
    <3>2. CASE stage[p] = "confidence"
      BY <3>2 DEF StepPatches
    <3>3. CASE stage[p] = "evaluation"
      <4>1. \E v : q = [evaluation |-> v]
        BY <3>3 DEF StepPatches
      <4> QED
        BY <4>1
    <3> QED
      BY <1>4, <3>1, <3>2, <3>3
  <2> QED
    BY <2>1, ListsAre DEF PatchTypes, Fits
<1> QED
  BY <1>1, <1>2, <1>3, <1>4

-----------------------------------------------------------------------------
(* The steps.                                                              *)


LEMMA GoesTo ==
  ASSUME PlaceTypes, NEW p \in Refreshers, NEW s \in Stages,
         NEW i \in {"read", "load", "write", "replace"}, Goto(p, s, i)
  PROVE  /\ stage' \in [Refreshers -> Stages]
         /\ io' \in [Refreshers -> {"read", "load", "write", "replace"}]
         /\ stage'[p] = s /\ io'[p] = i
         /\ \A q \in Refreshers \ {p} : stage'[q] = stage[q] /\ io'[q] = io[q]
BY DEF PlaceTypes, Goto

(* A step of p to the access i of stage s.                                 *)
LEMMA MovesTo ==
  ASSUME PlaceTypes, HeldTypes, NEW p \in Refreshers, NEW s \in Stages,
         NEW i \in {"read", "load", "write", "replace"}, Goto(p, s, i),
         heard' >= heard, heard \in Nat, heard' \in Nat,
         DOMAIN patch' = Refreshers, \A q \in Refreshers \ {p} : patch'[q] = patch[q],
         s \in {"idle", "emit"} => i = "read",
         s = "emit" \/ (s = "publish" /\ i # "read") => "told" \in DOMAIN patch'[p],
         s \in {"intent", "activity"} => heard' >= 1
  PROVE  PlaceTypes'
<1>1. ASSUME NEW q \in Refreshers PROVE AtStage(q)'
  <2>1. CASE q = p
    BY <2>1, GoesTo DEF AtStage
  <2>2. CASE q # p
    <3>1. stage'[q] = stage[q] /\ io'[q] = io[q] /\ patch'[q] = patch[q]
      BY <2>2, GoesTo
    <3>2. AtStage(q)
      BY DEF PlaceTypes
    <3> QED
      BY <3>1, <3>2 DEF AtStage
  <2> QED
    BY <2>1, <2>2
<1> QED
  BY <1>1, GoesTo DEF PlaceTypes

LEMMA NothingHeld ==
  ASSUME HeldTypes, NEW p \in Refreshers, Drop(p)
  PROVE  /\ HeldTypes' /\ DOMAIN patch' = Refreshers
         /\ \A q \in Refreshers \ {p} : patch'[q] = patch[q]
<1>1. NoObs \in [reading : Samples, at : 0 .. MaxRefresh]
  BY Limits DEF NoObs
<1>2. obs' \in [Refreshers -> [reading : Samples, at : 0 .. MaxRefresh]]
  BY <1>1 DEF HeldTypes, Drop
<1>3. ASSUME NEW q \in Refreshers
      PROVE  PatchTypes(patch'[q]) /\ FileTypes(buf'[q]) /\ OwnTypes(own'[q])
  <2>1. CASE q = p
    <3>1. patch'[q] = NoPatch /\ buf'[q] = NoFile /\ own'[q] = NoOwn
      BY <2>1 DEF HeldTypes, Drop
    <3> QED
      BY <3>1, NewFileFits
  <2>2. CASE q # p
    <3>1. patch'[q] = patch[q] /\ buf'[q] = buf[q] /\ own'[q] = own[q]
      BY <2>2 DEF HeldTypes, Drop
    <3> QED
      BY <3>1 DEF HeldTypes
  <2> QED
    BY <2>1, <2>2
<1> QED
  BY <1>2, <1>3 DEF HeldTypes, Drop

(* A process that changes no more than its patch.                          *)
LEMMA PatchedHeld ==
  ASSUME HeldTypes, NEW p \in Refreshers, NEW q, PatchTypes(q),
         patch' = [patch EXCEPT ![p] = q], UNCHANGED <<obs, buf, own>>
  PROVE  /\ HeldTypes' /\ DOMAIN patch' = Refreshers /\ patch'[p] = q
         /\ \A x \in Refreshers \ {p} : patch'[x] = patch[x]
<1>1. /\ DOMAIN patch' = Refreshers /\ patch'[p] = q
      /\ \A x \in Refreshers \ {p} : patch'[x] = patch[x]
  BY DEF HeldTypes
<1>2. \A x \in Refreshers : PatchTypes(patch'[x])
  BY <1>1 DEF HeldTypes
<1> QED
  BY <1>1, <1>2 DEF HeldTypes

LEMMA RefreshKeepsTypes ==
  ASSUME SelfTypes, NEW p \in Refreshers, Refresh(p)
  PROVE  SelfTypes'
<1>1. /\ UNCHANGED <<saved, tmp, patch, buf, own, policy, heard, kills, recorded, emitted>>
      /\ Goto(p, "trend", "read") /\ refreshes < MaxRefresh /\ refreshes' = refreshes + 1
  BY DEF Refresh
<1>2. PICK r \in Samples : obs' = [obs EXCEPT ![p] = [reading |-> r, at |-> refreshes + 1]]
  BY DEF Refresh
<1>3. refreshes + 1 \in 0 .. MaxRefresh
  BY <1>1, Limits DEF SelfTypes, CountTypes
<1>4. [reading |-> r, at |-> refreshes + 1] \in [reading : Samples, at : 0 .. MaxRefresh]
  BY <1>3
<1>5. obs' \in [Refreshers -> [reading : Samples, at : 0 .. MaxRefresh]]
  BY <1>2, <1>4 DEF SelfTypes, HeldTypes
<1>6. HeldTypes'
  BY <1>1, <1>5 DEF SelfTypes, HeldTypes
<1>7. heard \in Nat /\ DOMAIN patch = Refreshers /\ "trend" \in Stages
  BY DEF SelfTypes, CountTypes, HeldTypes, Stages
<1>8. PlaceTypes'
  BY <1>1, <1>7, MovesTo DEF SelfTypes
<1>9. raced' \in BOOLEAN
  BY DEF Refresh, Begins
<1>10. CountTypes'
  BY <1>1, <1>3, <1>9 DEF SelfTypes, CountTypes
<1> QED
  BY <1>1, <1>6, <1>8, <1>10 DEF SelfTypes, DiskTypes

LEMMA ComputeKeepsTypes ==
  ASSUME SelfTypes, NEW p \in Refreshers, ComputeStep(p)
  PROVE  SelfTypes'
<1>1. /\ UNCHANGED <<saved, tmp, obs, buf, policy, refreshes, heard, kills, raced, recorded, emitted>>
      /\ Goto(p, stage[p], "load")
      /\ stage[p] \in {"trend", "temporal", "longterm", "capabilities", "confidence",
                       "evaluation"}
  BY DEF ComputeStep
<1>2. PICK q \in StepPatches(p) : /\ patch' = [patch EXCEPT ![p] = q]
                                  /\ own' = [own EXCEPT ![p] = Over(@, q)]
  BY DEF ComputeStep
<1>3. PatchTypes(q)
  BY <1>1, <1>2, StepFits DEF SelfTypes, HeldTypes, DiskTypes
<1>4. /\ DOMAIN patch' = Refreshers /\ DOMAIN own' = Refreshers
      /\ patch'[p] = q /\ own'[p] = Over(own[p], q)
      /\ \A x \in Refreshers \ {p} : patch'[x] = patch[x] /\ own'[x] = own[x]
  BY <1>2 DEF SelfTypes, HeldTypes
<1>5. OwnTypes(own'[p])
  BY <1>3, <1>4, OverFits DEF SelfTypes, HeldTypes, OwnTypes
<1>6. \A x \in Refreshers : PatchTypes(patch'[x]) /\ OwnTypes(own'[x])
  BY <1>3, <1>4, <1>5 DEF SelfTypes, HeldTypes
<1>7. HeldTypes'
  BY <1>1, <1>4, <1>6 DEF SelfTypes, HeldTypes
<1>8. heard \in Nat /\ stage[p] \in Stages
  BY <1>1 DEF SelfTypes, CountTypes, Stages
<1>9. PlaceTypes'
  BY <1>1, <1>4, <1>8, MovesTo DEF SelfTypes
<1>10. CountTypes'
  BY <1>1 DEF SelfTypes, CountTypes
<1> QED
  BY <1>1, <1>7, <1>9, <1>10 DEF SelfTypes, DiskTypes

(* A refresh that is finished: the loop goes on to save.                   *)
LEMMA FinishedKeepsTypes ==
  ASSUME SelfTypes, NEW p \in Refreshers, Finished(p), heard' = heard
  PROVE  HeldTypes' /\ PlaceTypes'
<1>1. heard \in Nat /\ heard' \in Nat /\ heard' >= heard /\ {"idle", "save"} \subseteq Stages
  BY DEF SelfTypes, CountTypes, Stages
<1>2. CASE p = "loop"
  <2>1. UNCHANGED <<obs, patch, buf, own>> /\ Goto(p, "save", "read")
    BY <1>2 DEF Finished
  <2>2. DOMAIN patch' = Refreshers
    BY <2>1 DEF SelfTypes, HeldTypes
  <2>3. PlaceTypes'
    BY <1>1, <2>1, <2>2, MovesTo DEF SelfTypes
  <2> QED
    BY <2>1, <2>3 DEF SelfTypes, HeldTypes
<1>3. CASE p # "loop"
  <2>1. Drop(p) /\ Goto(p, "idle", "read")
    BY <1>3 DEF Finished
  <2> QED
    BY <1>1, <2>1, NothingHeld, MovesTo DEF SelfTypes
<1> QED
  BY <1>2, <1>3

LEMMA PublishKeepsTypes ==
  ASSUME SelfTypes, NEW p \in Refreshers, ReadPublish(p)
  PROVE  SelfTypes'
<1>1. UNCHANGED <<saved, tmp, policy, refreshes, heard, kills, raced, recorded, emitted>>
  BY DEF ReadPublish
<1>2. DiskTypes' /\ CountTypes'
  BY <1>1 DEF SelfTypes, DiskTypes, CountTypes
<1>3. CASE Due(own[p])
  <2> DEFINE q == [told |-> own[p].since]
  <2>1. /\ patch' = [patch EXCEPT ![p] = q] /\ Goto(p, "publish", "load")
        /\ UNCHANGED <<obs, buf, own>>
    BY <1>3 DEF ReadPublish
  <2>2. DOMAIN q = {"told"} /\ q["told"] = own[p].since /\ own[p].since \in 0 .. MaxRefresh
    BY OwnAre DEF SelfTypes, HeldTypes
  <2> HIDE DEF q
  <2>3. PatchTypes(q)
    BY <2>2, ListsAre DEF PatchTypes, Fits
  <2>4. /\ HeldTypes' /\ DOMAIN patch' = Refreshers /\ patch'[p] = q
        /\ \A x \in Refreshers \ {p} : patch'[x] = patch[x]
    BY <2>1, <2>3, PatchedHeld DEF SelfTypes
  <2>5. heard \in Nat /\ heard' = heard /\ "publish" \in Stages
    BY <1>1 DEF SelfTypes, CountTypes, Stages
  <2>6. PlaceTypes'
    BY <2>1, <2>2, <2>4, <2>5, MovesTo DEF SelfTypes
  <2> QED
    BY <1>2, <2>4, <2>6 DEF SelfTypes
<1>4. CASE ~Due(own[p])
  BY <1>1, <1>2, <1>4, FinishedKeepsTypes DEF ReadPublish, SelfTypes
<1> QED
  BY <1>3, <1>4

LEMMA LoadKeepsTypes ==
  ASSUME SelfTypes, NEW p \in Refreshers, Load(p)
  PROVE  SelfTypes'
<1>1. /\ UNCHANGED <<saved, tmp, obs, patch, own, policy, refreshes, heard, kills, raced,
                     recorded, emitted>>
      /\ Goto(p, stage[p], "write") /\ io[p] = "load"
      /\ buf' = [buf EXCEPT ![p] = Patched(saved, patch[p])]
  BY DEF Load
<1>2. FileTypes(Patched(saved, patch[p]))
  BY PatchedFits DEF SelfTypes, HeldTypes, DiskTypes
<1>3. DOMAIN buf' = Refreshers /\ \A x \in Refreshers : FileTypes(buf'[x])
  BY <1>1, <1>2 DEF SelfTypes, HeldTypes
<1>4. HeldTypes'
  BY <1>1, <1>3 DEF SelfTypes, HeldTypes
<1>5. /\ heard \in Nat /\ stage[p] \in Stages /\ AtStage(p) /\ DOMAIN patch' = Refreshers
  BY <1>1 DEF SelfTypes, CountTypes, PlaceTypes, HeldTypes
<1>6. PlaceTypes'
  BY <1>1, <1>5, MovesTo DEF SelfTypes, AtStage
<1>7. CountTypes' /\ DiskTypes'
  BY <1>1 DEF SelfTypes, CountTypes, DiskTypes
<1> QED
  BY <1>4, <1>6, <1>7 DEF SelfTypes

LEMMA WriteKeepsTypes ==
  ASSUME SelfTypes, NEW p \in Refreshers, WriteTmp(p)
  PROVE  SelfTypes'
<1>1. /\ UNCHANGED <<saved, obs, patch, own, policy, refreshes, heard, kills, raced,
                     recorded, emitted>>
      /\ Goto(p, stage[p], "replace") /\ io[p] = "write"
      /\ tmp' = <<buf[p]>> /\ buf' = [buf EXCEPT ![p] = NoFile]
  BY DEF WriteTmp
<1>2. DOMAIN buf' = Refreshers /\ \A x \in Refreshers : FileTypes(buf'[x])
  BY <1>1, NewFileFits DEF SelfTypes, HeldTypes
<1>3. HeldTypes'
  BY <1>1, <1>2 DEF SelfTypes, HeldTypes
<1>4. /\ heard \in Nat /\ stage[p] \in Stages /\ AtStage(p) /\ DOMAIN patch' = Refreshers
  BY <1>1 DEF SelfTypes, CountTypes, PlaceTypes, HeldTypes
<1>5. PlaceTypes'
  BY <1>1, <1>4, MovesTo DEF SelfTypes, AtStage
<1>6. DiskTypes'
  <2>1. FileTypes(buf[p])
    BY DEF SelfTypes, HeldTypes
  <2>2. tmp'[1] = buf[p]
    BY <1>1
  <2> QED
    BY <1>1, <2>1, <2>2 DEF SelfTypes, DiskTypes
<1>7. CountTypes'
  BY <1>1 DEF SelfTypes, CountTypes
<1> QED
  BY <1>3, <1>5, <1>6, <1>7 DEF SelfTypes

(* The stage after another, and what has to be so when it begins.          *)
LEMMA AfterIs ==
  ASSUME NEW s \in Stages, s \notin {"idle", "emit"}
  PROVE  /\ After[s] \in Stages
         /\ After[s] = "emit" <=> s = "publish"
         /\ After[s] = "activity" <=> s = "intent"
         /\ After[s] \notin {"publish", "intent"} \/ (After[s] = "publish" /\ s = "evaluation")
         /\ s = "save" => After[s] = "snapshot"
BY DEF After, Stages

LEMMA ReplaceKeepsTypes ==
  ASSUME SelfTypes, NEW p \in Refreshers, Replace(p)
  PROVE  SelfTypes'
<1> DEFINE s == stage[p]
           i == IF s = "save" THEN "load" ELSE "read"
<1>1. /\ UNCHANGED <<policy, refreshes, heard, kills, raced, emitted>>
      /\ io[p] = "replace" /\ tmp # <<>> /\ saved' = tmp[1] /\ tmp' = <<>>
      /\ recorded' \in {recorded, recorded + 1} /\ Goto(p, After[s], i)
      /\ IF After[s] = "idle" THEN Drop(p) ELSE UNCHANGED <<obs, patch, buf, own>>
  BY DEF Replace
<1>2. /\ heard \in Nat /\ s \in Stages /\ AtStage(p) /\ recorded \in Nat
  BY DEF SelfTypes, CountTypes, PlaceTypes
<1>3. s \notin {"idle", "emit"}
  BY <1>1, <1>2 DEF AtStage
<1> DEFINE t == After[s]
<1>4. /\ s = "publish" => "told" \in DOMAIN patch[p]
      /\ s = "intent" => heard >= 1
      /\ heard' = heard /\ heard' >= heard
  BY <1>1, <1>2 DEF AtStage
<1>5. /\ t \in Stages /\ (t = "emit" <=> s = "publish") /\ (t = "activity" <=> s = "intent")
      /\ t \notin {"publish", "intent"} \/ (t = "publish" /\ s = "evaluation")
      /\ s = "save" => t = "snapshot"
  BY <1>2, <1>3, AfterIs
<1> HIDE DEF t, s
<1>6. /\ HeldTypes' /\ DOMAIN patch' = Refreshers
      /\ \A q \in Refreshers \ {p} : patch'[q] = patch[q]
      /\ t # "idle" => patch'[p] = patch[p]
  <2>1. CASE t = "idle"
    BY <1>1, <2>1, NothingHeld DEF SelfTypes, t
  <2>2. CASE t # "idle"
    BY <1>1, <2>2 DEF SelfTypes, HeldTypes, t
  <2> QED
    BY <2>1, <2>2
<1>7. /\ t \in {"idle", "emit"} => i = "read"
      /\ t = "emit" \/ (t = "publish" /\ i # "read") => "told" \in DOMAIN patch'[p]
      /\ t \in {"intent", "activity"} => heard' >= 1
  <2>1. t \in {"idle", "emit"} => i = "read"
    BY <1>5
  <2>2. t = "emit" => "told" \in DOMAIN patch'[p]
    BY <1>4, <1>5, <1>6
  <2>3. t = "publish" => i = "read"
    BY <1>5
  <2>4. t \notin {"intent"} /\ (t = "activity" => heard' >= 1)
    BY <1>4, <1>5
  <2> QED
    BY <2>1, <2>2, <2>3, <2>4
<1>8. i \in {"read", "load", "write", "replace"} /\ Goto(p, t, i)
  BY <1>1 DEF t
<1> HIDE DEF i
<1>9. PlaceTypes'
  <2>1. PlaceTypes /\ HeldTypes
    BY DEF SelfTypes
  <2>2. heard \in Nat /\ heard' \in Nat /\ heard' >= heard
    BY <1>4, <1>2
  <2>3. t \in Stages
    BY <1>5
  <2> QED
    BY <1>6, <1>7, <1>8, <2>1, <2>2, <2>3, MovesTo
<1>10. DiskTypes'
  BY <1>1 DEF SelfTypes, DiskTypes
<1>11. CountTypes'
  BY <1>1, <1>2 DEF SelfTypes, CountTypes
<1> QED
  BY <1>6, <1>9, <1>10, <1>11 DEF SelfTypes

LEMMA DropsKeepTypes ==
  ASSUME SelfTypes, NEW p \in Refreshers, ReplaceFails(p) \/ KillRefresher(p)
  PROVE  SelfTypes'
<1>1. /\ UNCHANGED <<saved, tmp, refreshes, heard, raced, recorded, emitted>>
      /\ Goto(p, "idle", "read") /\ Drop(p)
  BY DEF ReplaceFails, KillRefresher
<1>2. heard \in Nat /\ heard' = heard /\ "idle" \in Stages
  BY <1>1 DEF SelfTypes, CountTypes, Stages
<1>3. HeldTypes' /\ PlaceTypes'
  BY <1>1, <1>2, NothingHeld, MovesTo DEF SelfTypes
<1>4. kills' \in 0 .. MaxKills /\ policy' \in Modes
  <2>1. kills \in 0 .. MaxKills /\ policy \in Modes /\ "normal" \in Modes
    BY DEF SelfTypes, CountTypes, Modes
  <2>2. CASE ReplaceFails(p)
    BY <2>1, <2>2 DEF ReplaceFails
  <2>3. CASE KillRefresher(p)
    <3>1. /\ kills < MaxKills /\ kills' = kills + 1
          /\ policy' = IF p = "server" THEN "normal" ELSE policy
      BY <2>3 DEF KillRefresher
    <3>2. MaxKills \in Nat
      BY Limits
    <3> QED
      BY <2>1, <3>1, <3>2
  <2> QED
    BY <2>2, <2>3
<1> QED
  BY <1>1, <1>3, <1>4 DEF SelfTypes, CountTypes, DiskTypes

LEMMA EmitKeepsTypes ==
  ASSUME SelfTypes, NEW p \in Refreshers, Emit(p)
  PROVE  SelfTypes'
<1>1. /\ UNCHANGED <<saved, tmp, refreshes, heard, kills, raced, recorded>>
      /\ stage[p] = "emit" /\ emitted' = Append(emitted, patch[p].told) /\ Finished(p)
  BY DEF Emit
<1>2. Fits("told", patch[p].told)
  BY <1>1 DEF SelfTypes, HeldTypes, PlaceTypes, AtStage, PatchTypes
<1>3. patch[p].told \in 0 .. MaxRefresh
  BY <1>2 DEF Fits
<1>4. emitted' \in Seq(0 .. MaxRefresh)
  BY <1>1, <1>3, AppendProperties DEF SelfTypes, CountTypes
<1>5. obs[p].reading \in Readings
  BY Limits DEF SelfTypes, HeldTypes
<1>6. policy' \in Modes
  <2>1. ModeOf(obs[p].reading) \in Modes /\ "survival" \in Modes
    BY <1>5, ModeIs DEF Modes
  <2> QED
    BY <2>1 DEF Emit, PolicyFor, SelfTypes, CountTypes
<1>7. HeldTypes' /\ PlaceTypes'
  BY <1>1, FinishedKeepsTypes
<1> QED
  BY <1>1, <1>4, <1>6, <1>7 DEF SelfTypes, CountTypes, DiskTypes

(* What the loop saves is the file as it read it, but for what it has      *)
(* computed itself.                                                        *)
LEMMA SavedFits ==
  ASSUME NEW f, FileTypes(f), NEW o, OwnTypes(o), NEW g,
         g = [f EXCEPT !.counted = o.counted, !.seen = o.seen, !.autonomy = o.autonomy,
                       !.confidence = o.confidence, !.evaluation = o.evaluation]
  PROVE  FileTypes(g)
<1> DEFINE Fields == {"counted", "seen", "autonomy", "confidence", "evaluation"}
<1>1. DOMAIN f = DOMAIN NoFile /\ Fields \subseteq DOMAIN f
  BY DEF FileTypes, NoFile
<1>2. /\ DOMAIN g = DOMAIN f /\ g["counted"] = o.counted
      /\ \A k \in DOMAIN f \ Fields : g[k] = f[k]
  BY <1>1
<1>3. o.counted \in [Modes -> Nat]
  BY OwnAre
<1>4. ASSUME NEW k \in DOMAIN g PROVE Fits(k, g[k])
  <2>1. CASE k \in DOMAIN f \ Fields
    BY <1>2, <2>1 DEF FileTypes, PatchTypes
  <2>2. CASE k = "counted"
    BY <1>2, <1>3, <2>2, ListsAre DEF Fits
  <2>3. CASE k \in Fields \ {"counted"}
    BY <2>3, ListsAre DEF Fits
  <2> QED
    BY <1>2, <2>1, <2>2, <2>3
<1>5. \A k \in DOMAIN ListMax : g[k] = f[k]
  BY <1>1, <1>2, ListsAre
<1> QED
  BY <1>1, <1>2, <1>4, <1>5 DEF FileTypes, PatchTypes

LEMMA ReadSaveKeepsTypes ==
  ASSUME SelfTypes, NEW p \in Refreshers, ReadSave(p)
  PROVE  SelfTypes'
<1> DEFINE o == own[p]
           g == [saved EXCEPT !.counted = o.counted, !.seen = o.seen,
                              !.autonomy = o.autonomy, !.confidence = o.confidence,
                              !.evaluation = o.evaluation]
           q == Snapshot(obs[p].reading)
<1>1. /\ UNCHANGED <<saved, tmp, obs, own, policy, refreshes, heard, kills, raced,
                     recorded, emitted>>
      /\ Goto(p, "save", "write")
      /\ buf' = [buf EXCEPT ![p] = g] /\ patch' = [patch EXCEPT ![p] = q]
  BY DEF ReadSave
<1>2. FileTypes(g)
  BY SavedFits DEF SelfTypes, HeldTypes, DiskTypes
<1>3. DOMAIN q = {"load", "mind", "stability"}
  BY DEF Snapshot
<1> HIDE DEF g, q
<1>4. PatchTypes(q)
  BY <1>3, ListsAre DEF PatchTypes, Fits
<1>5. DOMAIN buf' = Refreshers /\ \A x \in Refreshers : FileTypes(buf'[x])
  BY <1>1, <1>2 DEF SelfTypes, HeldTypes
<1>6. /\ DOMAIN patch' = Refreshers /\ \A x \in Refreshers : PatchTypes(patch'[x])
      /\ \A x \in Refreshers \ {p} : patch'[x] = patch[x]
  BY <1>1, <1>4 DEF SelfTypes, HeldTypes
<1>7. HeldTypes'
  BY <1>1, <1>5, <1>6 DEF SelfTypes, HeldTypes
<1>8. heard \in Nat /\ heard' = heard /\ "save" \in Stages
  BY <1>1 DEF SelfTypes, CountTypes, Stages
<1>9. PlaceTypes'
  BY <1>1, <1>6, <1>8, MovesTo DEF SelfTypes
<1> QED
  BY <1>1, <1>7, <1>9 DEF SelfTypes, CountTypes, DiskTypes

-----------------------------------------------------------------------------
(* What the server notes.                                                  *)
LEMMA ItemsFit ==
  ASSUME FileTypes(saved), NEW x \in Item
  PROVE  /\ Append(saved.events, x) \in Seq(Item)
         /\ LastOf(Append(saved.activity, x), ActivityMax) \in Seq(Item)
         /\ LastOf(Append(saved.intents, x), IntentMax) \in Seq(Item)
         /\ <<x>> \in Seq(Item) /\ <<>> \in Seq(Item)
<1>1. /\ saved.events \in Seq(Item) /\ saved.activity \in Seq(Item)
      /\ saved.intents \in Seq(Item) /\ ActivityMax \in Nat /\ IntentMax \in Nat
  BY FieldsAre, Limits
<1>2. /\ Append(saved.events, x) \in Seq(Item) /\ Append(saved.activity, x) \in Seq(Item)
      /\ Append(saved.intents, x) \in Seq(Item)
  BY <1>1, AppendProperties
<1>3. <<>> \in Seq(Item) /\ <<x>> \in Seq(Item)
  BY EmptySeq
<1> QED
  BY <1>1, <1>2, <1>3, CutIs

LEMMA EventFits ==
  ASSUME FileTypes(saved), NEW x \in Item
  PROVE  PatchTypes(EventPatch(x))
<1> DEFINE q == EventPatch(x)
<1>1. DOMAIN q \subseteq {"noted", "listed", "events", "activity", "intents"}
  BY DEF EventPatch
<1>2. /\ "events" \in DOMAIN q => q["events"] \in {Append(saved.events, x), <<>>}
      /\ "activity" \in DOMAIN q =>
           q["activity"] = LastOf(Append(saved.activity, x), ActivityMax)
      /\ "intents" \in DOMAIN q => q["intents"] = LastOf(Append(saved.intents, x), IntentMax)
  BY DEF EventPatch
<1> HIDE DEF q
<1>3. \A k \in DOMAIN q \cap DOMAIN ListMax : q[k] \in Seq(Item)
  BY <1>2, ItemsFit, ListsAre
<1>4. PatchTypes(q)
  BY <1>1, <1>3 DEF PatchTypes, Fits
<1> QED
  BY <1>4 DEF q

LEMMA EventKeepsTypes ==
  ASSUME SelfTypes, NEW p \in Refreshers, HandleEvent(p)
  PROVE  SelfTypes'
<1>1. /\ UNCHANGED <<saved, tmp, obs, buf, own, policy, refreshes, kills, recorded, emitted>>
      /\ Goto(p, "event", "load") /\ heard < MaxEvents /\ heard' = heard + 1
  BY DEF HandleEvent
<1>2. PICK k \in Kinds :
        patch' = [patch EXCEPT ![p] = EventPatch([no |-> heard + 1, kind |-> k])]
  BY DEF HandleEvent
<1>3. heard \in Nat /\ heard + 1 \in 1 .. MaxEvents /\ heard' \in 0 .. MaxEvents
  BY <1>1, Limits DEF SelfTypes, CountTypes
<1> DEFINE x == [no |-> heard + 1, kind |-> k]
           q == EventPatch(x)
<1>4. x \in Item
  BY <1>3 DEF Item
<1>5. PatchTypes(q)
  BY <1>4, EventFits DEF SelfTypes, DiskTypes
<1> HIDE DEF q
<1>6. /\ HeldTypes' /\ DOMAIN patch' = Refreshers
      /\ \A y \in Refreshers \ {p} : patch'[y] = patch[y]
  <2>1. patch' = [patch EXCEPT ![p] = q]
    BY <1>2 DEF q
  <2> QED
    BY <1>1, <1>5, <2>1, PatchedHeld DEF SelfTypes
<1>7. PlaceTypes'
  <2>1. "event" \in Stages /\ heard' >= heard /\ heard' \in Nat
    BY <1>1, <1>3 DEF Stages
  <2> QED
    BY <1>1, <1>3, <1>6, <2>1, MovesTo DEF SelfTypes
<1>8. raced' \in BOOLEAN
  BY DEF HandleEvent, Begins
<1> QED
  BY <1>1, <1>3, <1>6, <1>7, <1>8 DEF SelfTypes, CountTypes, DiskTypes

LEMMA NotesKeepTypes ==
  ASSUME SelfTypes, NEW p \in Refreshers, NoteIntent(p)
  PROVE  SelfTypes'
<1> DEFINE x == [no |-> heard + 1, kind |-> "intent"]
           q == [noted |-> saved.noted + 1, intents |-> <<x>>]
<1>1. /\ UNCHANGED <<saved, tmp, obs, buf, own, policy, refreshes, kills, recorded, emitted>>
      /\ Goto(p, "intent", "load") /\ heard < MaxEvents /\ heard' = heard + 1
      /\ patch' = [patch EXCEPT ![p] = q]
  BY DEF NoteIntent
<1>2. heard \in Nat /\ heard + 1 \in 1 .. MaxEvents /\ heard' \in 0 .. MaxEvents
  BY <1>1, Limits DEF SelfTypes, CountTypes
<1>3. x \in Item
  BY <1>2 DEF Item
<1> HIDE DEF x
<1>4. <<x>> \in Seq(Item)
  BY <1>3, ItemsFit DEF SelfTypes, DiskTypes
<1>5. DOMAIN q = {"noted", "intents"} /\ q["intents"] = <<x>>
  OBVIOUS
<1> HIDE DEF q
<1>6. PatchTypes(q)
  BY <1>4, <1>5, ListsAre DEF PatchTypes, Fits
<1>7. /\ HeldTypes' /\ DOMAIN patch' = Refreshers
      /\ \A y \in Refreshers \ {p} : patch'[y] = patch[y]
  BY <1>1, <1>6, PatchedHeld DEF SelfTypes
<1>8. PlaceTypes'
  <2>1. "intent" \in Stages /\ heard' >= heard /\ heard' \in Nat /\ heard' >= 1
    BY <1>1, <1>2 DEF Stages
  <2> QED
    BY <1>1, <1>2, <1>7, <2>1, MovesTo DEF SelfTypes
<1>9. raced' \in BOOLEAN
  BY DEF NoteIntent, Begins
<1> QED
  BY <1>1, <1>2, <1>7, <1>8, <1>9 DEF SelfTypes, CountTypes, DiskTypes

LEMMA ActivityKeepsTypes ==
  ASSUME SelfTypes, NEW p \in Refreshers, NoteActivity(p)
  PROVE  SelfTypes'
<1> DEFINE x == [no |-> heard, kind |-> "intent"]
           v == LastOf(Append(saved.activity, x), ActivityMax)
           q == [activity |-> v]
<1>1. /\ UNCHANGED <<saved, tmp, obs, buf, own, policy, refreshes, heard, kills, raced,
                     recorded, emitted>>
      /\ stage[p] = "activity" /\ Goto(p, "activity", "load")
      /\ patch' = [patch EXCEPT ![p] = q]
  BY DEF NoteActivity
<1>2. heard \in 1 .. MaxEvents
  BY <1>1 DEF SelfTypes, CountTypes, PlaceTypes, AtStage
<1>3. x \in Item
  BY <1>2 DEF Item
<1> HIDE DEF x
<1>4. v \in Seq(Item)
  BY <1>3, ItemsFit DEF SelfTypes, DiskTypes
<1> HIDE DEF v
<1>5. DOMAIN q = {"activity"} /\ q["activity"] = v
  OBVIOUS
<1> HIDE DEF q
<1>6. PatchTypes(q)
  BY <1>4, <1>5, ListsAre DEF PatchTypes, Fits
<1>7. /\ HeldTypes' /\ DOMAIN patch' = Refreshers
      /\ \A y \in Refreshers \ {p} : patch'[y] = patch[y]
  BY <1>1, <1>6, PatchedHeld DEF SelfTypes
<1>8. PlaceTypes'
  <2>1. "activity" \in Stages /\ heard' = heard /\ heard \in Nat /\ heard >= 1
    BY <1>1, <1>2 DEF Stages
  <2> QED
    BY <1>1, <1>7, <2>1, MovesTo DEF SelfTypes
<1> QED
  BY <1>1, <1>7, <1>8 DEF SelfTypes, CountTypes, DiskTypes

LEMMA SelfTypesStart == SelfModelInit => SelfTypes
<1> SUFFICES ASSUME SelfModelInit PROVE SelfTypes
  OBVIOUS
<1>1. NoObs \in [reading : Samples, at : 0 .. MaxRefresh]
  BY Limits DEF NoObs
<1>2. HeldTypes
  BY <1>1, NewFileFits DEF SelfModelInit, HeldTypes
<1>3. DiskTypes
  BY NewFileFits DEF SelfModelInit, DiskTypes
<1>4. PlaceTypes
  BY DEF SelfModelInit, PlaceTypes, AtStage, Stages
<1>5. CountTypes
  <2>1. <<>> \in Seq(0 .. MaxRefresh)
    BY EmptySeq
  <2>2. 0 \in 0 .. MaxRefresh /\ 0 \in 0 .. MaxEvents /\ 0 \in 0 .. MaxKills
    BY Limits
  <2> QED
    BY <2>1, <2>2 DEF SelfModelInit, CountTypes, Modes
<1> QED
  BY <1>2, <1>3, <1>4, <1>5 DEF SelfTypes

LEMMA SelfTypesStep == SelfTypes /\ [SelfModelNext]_selfVars => SelfTypes'
<1> SUFFICES ASSUME SelfTypes, [SelfModelNext]_selfVars PROVE SelfTypes'
  OBVIOUS
<1>1. ASSUME NEW p \in Refreshers,
             \/ Refresh(p) \/ ComputeStep(p) \/ ReadPublish(p)
             \/ HandleEvent(p) \/ NoteIntent(p) \/ NoteActivity(p)
             \/ Load(p) \/ WriteTmp(p) \/ Replace(p) \/ ReplaceFails(p) \/ Emit(p)
             \/ ReadSave(p) \/ KillRefresher(p)
      PROVE  SelfTypes'
  BY <1>1, RefreshKeepsTypes, ComputeKeepsTypes, PublishKeepsTypes, EventKeepsTypes,
     NotesKeepTypes, ActivityKeepsTypes, LoadKeepsTypes, WriteKeepsTypes,
     ReplaceKeepsTypes, DropsKeepTypes, EmitKeepsTypes, ReadSaveKeepsTypes
<1>2. CASE UNCHANGED selfVars
  BY <1>2 DEF selfVars, SelfTypes, HeldTypes, DiskTypes, PlaceTypes, AtStage, CountTypes
<1> QED
  BY <1>1, <1>2 DEF SelfModelNext

(* SelfModelTypeOK: however the refreshes of the two processes and the     *)
(* notes of the server overlap, and wherever one of them dies, what a      *)
(* merge reads, holds and puts in place of the file is a whole file, with  *)
(* no list in it longer than _merge_state lets it grow, of changes that    *)
(* were observed and items that were heard.                                *)
THEOREM SelfModelTypeCorrect == SelfModelSpec => []SelfModelTypeOK
<1>1. SelfTypes => SelfModelTypeOK
  <2> SUFFICES ASSUME SelfTypes PROVE SelfModelTypeOK
    OBVIOUS
  <2>1. Len(tmp) <= 1 /\ \A f \in Range(tmp) : FileTypes(f)
    <3>1. CASE tmp = <<>>
      BY <3>1, EmptySeq DEF Range
    <3>2. CASE tmp # <<>>
      <4>1. tmp = <<tmp[1]>> /\ FileTypes(tmp[1])
        BY <3>2 DEF SelfTypes, DiskTypes
      <4> DEFINE f == tmp[1]
      <4>2. tmp = <<f>> /\ FileTypes(f)
        BY <4>1
      <4> HIDE DEF f
      <4>3. Len(tmp) = 1 /\ DOMAIN tmp = {1} /\ tmp[1] = f
        BY <4>2
      <4>4. Range(tmp) = {f}
        BY <4>3 DEF Range
      <4> QED
        BY <4>2, <4>3, <4>4
    <3> QED
      BY <3>1, <3>2
  <2>2. \A f \in {saved} \cup {buf[p] : p \in Refreshers} \cup Range(tmp) : FileTypes(f)
    BY <2>1 DEF SelfTypes, HeldTypes, DiskTypes
  <2>3. \A f \in {saved} \cup {buf[p] : p \in Refreshers} \cup Range(tmp) :
          /\ DOMAIN f = DOMAIN NoFile
          /\ f.mode \in Modes \cup {NoMode} /\ f.hist \in Seq(Change)
          /\ f.counted \in [Modes -> Nat] /\ f.samples \in Seq(Samples)
          /\ {f.events, f.activity, f.intents} \subseteq Seq(Item)
          /\ Len(f.hist) <= HistMax /\ Len(f.samples) <= SampleMax
          /\ Len(f.events) <= EventMax /\ Len(f.activity) <= ActivityMax
          /\ Len(f.intents) <= IntentMax
    BY <2>2, FieldsAre
  <2> QED
    BY <2>1, <2>3, Zenon DEF SelfTypes, HeldTypes, PlaceTypes, CountTypes, SelfModelTypeOK
<1> QED
  BY <1>1, SelfTypesStart, SelfTypesStep, PTL DEF SelfModelSpec
=============================================================================
