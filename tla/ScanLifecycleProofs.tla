------------------------ MODULE ScanLifecycleProofs ------------------------
(***************************************************************************)
(* Theorems about ScanLifecycle: first what suppressing, filtering and     *)
(* merging a scan returns, for every scan, comment and baseline, then the  *)
(* stages of any number of invocations, over any command lines, trees,     *)
(* baseline files and edits.                                               *)
(***************************************************************************)
EXTENDS ScanLifecycle, FiniteSets, FiniteSetTheorems, WellFoundedInduction, TLAPS

\* A sublist of a list is a list.
LEMMA SubIsList ==
  ASSUME NEW l, IsList(l), NEW S \in SUBSET (DOMAIN l)
  PROVE  IsList(Sub(l, S)) /\ DOMAIN Sub(l, S) = S /\ \A i \in S : Sub(l, S)[i] = l[i]
BY DEF IsList, Sub

\* A scan is a list.
LEMMA SeqIsList ==
  ASSUME NEW s \in Seq(Scanned)
  PROVE  IsList(s) /\ \A i \in DOMAIN s : s[i] \in Scanned
BY DEF IsList, Scanned

\* The fingerprint of a finding is a fingerprint, marked or not.
LEMMA FpType ==
  ASSUME NEW f \in Finding
  PROVE  /\ Fp(f) \in FpSet
         /\ Quieted(f) \in Finding
         /\ Fp(Quieted(f)) = Fp(f)
BY DEF Finding, Fp, Fingerprint, FpSet, Quieted, Status

LEMMA FpsType ==
  ASSUME NEW l, IsList(l)
  PROVE  Fps(l) \in SUBSET FpSet
BY FpType DEF Fps, IsList

\* Suppressing splits a scan in two lists by position.
LEMMA KeptIsList ==
  ASSUME NEW fs, IsList(fs), NEW sups
  PROVE  /\ IsList(Kept(fs, sups))
         /\ DOMAIN Kept(fs, sups) = {i \in DOMAIN fs : ~SuppressedBy(fs[i], sups)}
         /\ \A i \in DOMAIN Kept(fs, sups) : Kept(fs, sups)[i] = fs[i]
<1> DEFINE S == {i \in DOMAIN fs : ~SuppressedBy(fs[i], sups)}
<1>1. S \in SUBSET (DOMAIN fs)
  OBVIOUS
<1>2. Kept(fs, sups) = Sub(fs, S)
  BY DEF Kept
<1> HIDE DEF S
<1>3. IsList(Sub(fs, S)) /\ DOMAIN Sub(fs, S) = S /\ \A i \in S : Sub(fs, S)[i] = fs[i]
  BY <1>1, SubIsList
<1> QED
  BY <1>2, <1>3 DEF S

LEMMA FreshIsList ==
  ASSUME NEW l, IsList(l), NEW old
  PROVE  /\ IsList(Fresh(l, old))
         /\ DOMAIN Fresh(l, old) = {i \in DOMAIN l : Fp(l[i]) \notin old}
         /\ \A i \in DOMAIN Fresh(l, old) : Fresh(l, old)[i] = l[i]
<1> DEFINE S == {i \in DOMAIN l : Fp(l[i]) \notin old}
<1>1. S \in SUBSET (DOMAIN l)
  OBVIOUS
<1>2. Fresh(l, old) = Sub(l, S)
  BY DEF Fresh
<1> HIDE DEF S
<1>3. IsList(Sub(l, S)) /\ DOMAIN Sub(l, S) = S /\ \A i \in S : Sub(l, S)[i] = l[i]
  BY <1>1, SubIsList
<1> QED
  BY <1>2, <1>3 DEF S

LEMMA SuppressedIsList ==
  ASSUME NEW fs, IsList(fs), NEW sups
  PROVE  /\ IsList(Suppressed(fs, sups))
         /\ DOMAIN Suppressed(fs, sups) = {i \in DOMAIN fs : SuppressedBy(fs[i], sups)}
         /\ \A i \in DOMAIN Suppressed(fs, sups) : Suppressed(fs, sups)[i] = Quieted(fs[i])
<1> DEFINE S == {i \in DOMAIN fs : SuppressedBy(fs[i], sups)}
<1>1. Suppressed(fs, sups) = [i \in S |-> Quieted(fs[i])]
  BY DEF Suppressed
<1>2. \A i \in S : Quieted(fs[i]) \in Finding
  BY FpType DEF IsList
<1>3. S \subseteq Nat
  BY DEF IsList
<1> HIDE DEF S
<1>4. IsList([i \in S |-> Quieted(fs[i])])
  BY <1>2, <1>3 DEF IsList
<1> QED
  BY <1>1, <1>4 DEF S
\* If one finding of a list has fingerprint p, the last one with it is that one.
LEMMA LastIsOnly ==
  ASSUME NEW l, IsList(l), NEW i \in DOMAIN l,
         \A j \in DOMAIN l : Fp(l[j]) = Fp(l[i]) => j = i
  PROVE  LastWith(l, Fp(l[i])) = l[i]
<1> DEFINE With == {j \in DOMAIN l : Fp(l[j]) = Fp(l[i])}
<1>1. With = {i}
  OBVIOUS
<1>2. i \in Nat
  BY DEF IsList
<1>3. (CHOOSE k \in With : \A j \in With : j <= k) = i
  BY <1>1, <1>2
<1> QED
  BY <1>3 DEF LastWith

\* A bounded, non-empty set of positions has a last one: among its upper
\* parts, ordered by inclusion, there is a least.
LEMMA LastPosition ==
  ASSUME NEW S \in SUBSET Nat, S # {}, NEW n \in Nat, \A s \in S : s <= n
  PROVE  \E i \in S : \A j \in S : j <= i
<1> DEFINE Up(i) == {j \in S : i <= j}
           T == {Up(i) : i \in S}
<1>1. IsFiniteSet(S)
  BY FS_BoundedSetOfNaturals
<1>2. T \subseteq FiniteSubsetsOf(S)
  BY <1>1, FS_FiniteSubsetsOfFinite
<1>3. T # {}
  OBVIOUS
<1>4. IsWellFoundedOn(StrictSubsetOrdering(S), FiniteSubsetsOf(S))
  BY FS_StrictSubsetOrderingWellFounded
<1> HIDE DEF T
<1>5. PICK X \in T : \A Y \in T : ~ (<<Y, X>> \in StrictSubsetOrdering(S))
  BY <1>2, <1>3, <1>4, WFMin
<1>6. PICK i \in S : X = Up(i)
  BY DEF T
<1>7. ASSUME NEW j \in S, ~(j <= i)
      PROVE  FALSE
  <2>1. Up(j) \in T
    BY DEF T
  <2>2. i \in Nat /\ j \in Nat /\ i < j
    BY <1>7
  <2>3. ASSUME NEW k \in Up(j)
        PROVE  k \in Up(i)
    <3>1. k \in S /\ k \in Nat /\ j <= k
      OBVIOUS
    <3>2. i <= k
      BY <2>2, <3>1
    <3> QED
      BY <3>1, <3>2
  <2>4. i \in Up(i) /\ i \notin Up(j)
    BY <2>2
  <2>5. <<Up(j), X>> \in StrictSubsetOrdering(S)
    BY <1>6, <2>3, <2>4 DEF StrictSubsetOrdering
  <2> QED
    BY <1>5, <2>1, <2>5
<1> QED
  BY <1>7

\* The last finding with fingerprint p has fingerprint p, if there is one.
LEMMA LastHasFp ==
  ASSUME NEW l, IsList(l), NEW n \in Nat, \A i \in DOMAIN l : i <= n,
         NEW p \in Fps(l)
  PROVE  \E i \in DOMAIN l : LastWith(l, p) = l[i] /\ Fp(l[i]) = p
<1> DEFINE With == {i \in DOMAIN l : Fp(l[i]) = p}
<1>1. With \in SUBSET Nat /\ With # {} /\ \A i \in With : i <= n
  BY DEF IsList, Fps
<1>2. \E i \in With : \A j \in With : j <= i
  BY <1>1, LastPosition
<1> DEFINE k == CHOOSE i \in With : \A j \in With : j <= i
<1>3. k \in With
  BY <1>2
<1>4. LastWith(l, p) = l[k]
  BY DEF LastWith
<1> QED
  BY <1>3, <1>4

\* The two lists that mergeLifecycle is given, by position in the scan.
LEMMA Partition ==
  ASSUME NEW fs, IsList(fs), NEW sups, NEW old
  PROVE  LET F == Fresh(Kept(fs, sups), old)
             S == Suppressed(fs, sups)
         IN  /\ IsList(F)
             /\ DOMAIN F = {i \in DOMAIN fs : ~SuppressedBy(fs[i], sups) /\ Fp(fs[i]) \notin old}
             /\ \A i \in DOMAIN F : F[i] = fs[i]
             /\ IsList(S)
             /\ DOMAIN S = {i \in DOMAIN fs : SuppressedBy(fs[i], sups)}
             /\ \A i \in DOMAIN S : S[i] = Quieted(fs[i]) /\ Fp(S[i]) = Fp(fs[i])
<1> DEFINE K == Kept(fs, sups)
           F == Fresh(K, old)
           S == Suppressed(fs, sups)
<1>1. /\ IsList(K)
      /\ DOMAIN K = {i \in DOMAIN fs : ~SuppressedBy(fs[i], sups)}
      /\ \A i \in DOMAIN K : K[i] = fs[i]
  BY KeptIsList
<1> HIDE DEF K
<1>2. /\ IsList(F)
      /\ DOMAIN F = {i \in DOMAIN K : Fp(K[i]) \notin old}
      /\ \A i \in DOMAIN F : F[i] = K[i]
  BY <1>1, FreshIsList
<1>3. /\ IsList(S)
      /\ DOMAIN S = {i \in DOMAIN fs : SuppressedBy(fs[i], sups)}
      /\ \A i \in DOMAIN S : S[i] = Quieted(fs[i])
  BY SuppressedIsList
<1> HIDE DEF F, S
<1>4. \A i \in DOMAIN S : Fp(S[i]) = Fp(fs[i])
  BY <1>3, FpType DEF IsList
<1> QED
  BY <1>1, <1>2, <1>3, <1>4 DEF K, F, S

\* Whatever fingerprints coincide, the life cycle loses no occurrence that is
\* due, and what it leaves open is an open, unknown finding of the scan.
THEOREM LifecycleCovers ==
  ASSUME NEW fs, IsList(fs), NEW n \in Nat, \A i \in DOMAIN fs : i <= n,
         NEW sups, NEW old
  PROVE  LET l == Lifecycle(fs, sups, old)
         IN  /\ IsList(l)
             /\ DOMAIN l \subseteq DOMAIN fs
             /\ Reported(fs, sups, old) \subseteq DOMAIN l
             /\ \A i \in DOMAIN l : Fp(l[i]) = Fp(fs[i])
             /\ \A i \in DOMAIN l : l[i].status # "suppressed" =>
                  \E j \in DOMAIN fs : /\ l[i] = fs[j]
                                      /\ ~SuppressedBy(fs[j], sups)
                                      /\ Fp(fs[j]) \notin old
<1> DEFINE F == Fresh(Kept(fs, sups), old)
           S == Suppressed(fs, sups)
           D == {j \in DOMAIN fs : Fp(fs[j]) \in Fps(F) \cup Fps(S)}
           emit == [p \in Fps(F) \cup Fps(S) |->
                      IF p \in Fps(S) THEN LastWith(S, p) ELSE LastWith(F, p)]
           l == Lifecycle(fs, sups, old)
<1>1. /\ IsList(F)
      /\ DOMAIN F = {i \in DOMAIN fs : ~SuppressedBy(fs[i], sups) /\ Fp(fs[i]) \notin old}
      /\ \A i \in DOMAIN F : F[i] = fs[i]
      /\ IsList(S)
      /\ DOMAIN S = {i \in DOMAIN fs : SuppressedBy(fs[i], sups)}
      /\ \A i \in DOMAIN S : S[i] = Quieted(fs[i]) /\ Fp(S[i]) = Fp(fs[i])
  BY Partition
<1>2. l = [i \in D |-> emit[Fp(fs[i])]]
  BY DEF Lifecycle, MergeLifecycle
<1> HIDE DEF F, S
<1>3. ASSUME NEW p \in Fps(S)
      PROVE  \E i \in DOMAIN S : emit[p] = S[i] /\ Fp(S[i]) = p
  <2>1. \A i \in DOMAIN S : i <= n
    BY <1>1
  <2>2. \E i \in DOMAIN S : LastWith(S, p) = S[i] /\ Fp(S[i]) = p
    BY <1>1, <2>1, LastHasFp
  <2> QED
    BY <2>2
<1>4. ASSUME NEW p \in Fps(F), p \notin Fps(S)
      PROVE  \E i \in DOMAIN F : emit[p] = F[i] /\ Fp(F[i]) = p
  <2>1. \A i \in DOMAIN F : i <= n
    BY <1>1
  <2>2. \E i \in DOMAIN F : LastWith(F, p) = F[i] /\ Fp(F[i]) = p
    BY <1>1, <2>1, LastHasFp
  <2> QED
    BY <1>4, <2>2
<1>5. Reported(fs, sups, old) \subseteq D
  BY <1>1 DEF Reported, Fps
<1> HIDE DEF emit
<1>6. ASSUME NEW i \in D
      PROVE  LET f == emit[Fp(fs[i])]
             IN  /\ f \in Finding
                 /\ Fp(f) = Fp(fs[i])
                 /\ f.status # "suppressed" =>
                      \E j \in DOMAIN fs : /\ f = fs[j]
                                          /\ ~SuppressedBy(fs[j], sups)
                                          /\ Fp(fs[j]) \notin old
  <2>1. CASE Fp(fs[i]) \in Fps(S)
    <3>1. PICK j \in DOMAIN S : emit[Fp(fs[i])] = S[j] /\ Fp(S[j]) = Fp(fs[i])
      BY <1>3, <2>1
    <3>2. S[j] = Quieted(fs[j]) /\ S[j] \in Finding /\ fs[j] \in Finding
      BY <1>1 DEF IsList
    <3>3. S[j].status = "suppressed"
      BY <3>2 DEF Quieted, Finding
    <3> QED
      BY <3>1, <3>2, <3>3
  <2>2. CASE Fp(fs[i]) \notin Fps(S)
    <3>1. PICK j \in DOMAIN F : emit[Fp(fs[i])] = F[j] /\ Fp(F[j]) = Fp(fs[i])
      BY <1>4, <2>2
    <3>2. F[j] \in Finding /\ F[j] = fs[j]
      BY <1>1 DEF IsList
    <3> QED
      BY <1>1, <3>1, <3>2
  <2> QED
    BY <2>1, <2>2
<1>7. DOMAIN l = D /\ \A i \in D : l[i] = emit[Fp(fs[i])]
  BY <1>2
<1>8. D \subseteq DOMAIN fs /\ DOMAIN fs \subseteq Nat
  BY DEF IsList
<1>9. l = [i \in DOMAIN l |-> l[i]]
  BY <1>2
<1> HIDE DEF D, l
<1>10. IsList(l)
  BY <1>6, <1>7, <1>8, <1>9 DEF IsList
<1> QED
  BY <1>5, <1>6, <1>7, <1>8, <1>10 DEF l

\* Under unique fingerprints the life cycle returns, position by position,
\* what the report of the scan ought to be.
THEOREM LifecycleExact ==
  ASSUME NEW fs, IsList(fs), NEW sups, NEW old, UniqueFps(fs)
  PROVE  Lifecycle(fs, sups, old) = ReportOf(fs, sups, old)
<1> DEFINE F == Fresh(Kept(fs, sups), old)
           S == Suppressed(fs, sups)
           emit == [p \in Fps(F) \cup Fps(S) |->
                      IF p \in Fps(S) THEN LastWith(S, p) ELSE LastWith(F, p)]
<1>1. /\ IsList(F)
      /\ DOMAIN F = {i \in DOMAIN fs : ~SuppressedBy(fs[i], sups) /\ Fp(fs[i]) \notin old}
      /\ \A i \in DOMAIN F : F[i] = fs[i]
      /\ IsList(S)
      /\ DOMAIN S = {i \in DOMAIN fs : SuppressedBy(fs[i], sups)}
      /\ \A i \in DOMAIN S : S[i] = Quieted(fs[i]) /\ Fp(S[i]) = Fp(fs[i])
  BY Partition
<1>2. Lifecycle(fs, sups, old) =
        [i \in {j \in DOMAIN fs : Fp(fs[j]) \in Fps(F) \cup Fps(S)} |-> emit[Fp(fs[i])]]
  BY DEF Lifecycle, MergeLifecycle
<1>3. \A i, j \in DOMAIN fs : Fp(fs[i]) = Fp(fs[j]) => i = j
  BY DEF UniqueFps
<1> HIDE DEF F, S
<1>4. \A i \in DOMAIN fs : Fp(fs[i]) \in Fps(F) <=> i \in DOMAIN F
  BY <1>1, <1>3 DEF Fps
<1>5. \A i \in DOMAIN fs : Fp(fs[i]) \in Fps(S) <=> i \in DOMAIN S
  BY <1>1, <1>3 DEF Fps
<1>6. {j \in DOMAIN fs : Fp(fs[j]) \in Fps(F) \cup Fps(S)} = Reported(fs, sups, old)
  BY <1>1, <1>4, <1>5 DEF Reported
<1>7. ASSUME NEW i \in DOMAIN S
      PROVE  emit[Fp(fs[i])] = Quieted(fs[i])
  <2>1. Fp(fs[i]) \in Fps(S)
    BY <1>1, <1>5
  <2>2. LastWith(S, Fp(S[i])) = S[i]
    BY <1>1, <1>3, LastIsOnly
  <2> QED
    BY <1>1, <2>1, <2>2
<1>8. ASSUME NEW i \in DOMAIN F
       PROVE  emit[Fp(fs[i])] = fs[i]
  <2>1. Fp(fs[i]) \in Fps(F) /\ Fp(fs[i]) \notin Fps(S)
    BY <1>1, <1>4, <1>5
  <2>2. LastWith(F, Fp(F[i])) = F[i]
    BY <1>1, <1>3, LastIsOnly
  <2> QED
    BY <1>1, <2>1, <2>2
<1>9. \A i \in Reported(fs, sups, old) :
         emit[Fp(fs[i])] = IF SuppressedBy(fs[i], sups) THEN Quieted(fs[i]) ELSE fs[i]
  BY <1>1, <1>7, <1>8 DEF Reported
<1> HIDE DEF emit
<1> QED
  BY <1>2, <1>6, <1>9 DEF ReportOf

(***************************************************************************)
(* The stages of an invocation.                                            *)
(***************************************************************************)

\* What the assumption says of a tree and a command line.
LEMMA TreeType ==
  ASSUME NEW t \in Trees
  PROVE  /\ t.pattern \in Seq(Scanned)
         /\ t.go \in Seq(Scanned)
         /\ t.sups \in SUBSET Suppression
BY ConfigAssumption DEF Tree

LEMMA ArgsType ==
  ASSUME NEW a \in Invocations
  PROVE  /\ a.cmd \in Commands
         /\ a.baseline \in Path \cup {NoPath}
         /\ a.baselineWrite \in Path \cup {NoPath}
BY ConfigAssumption DEF Invocation

LEMMA ReadType ==
  ASSUME NEW fs, NEW t \in Trees
  PROVE  ReadSuppressions(fs, t) \in SUBSET Suppression
BY TreeType DEF ReadSuppressions

\* Positions of a scan are bounded by its length.
LEMMA ScanIsList ==
  ASSUME NEW fs \in Seq(Scanned)
  PROVE  /\ IsList(fs)
         /\ Len(fs) \in Nat
         /\ \A i \in DOMAIN fs : i <= Len(fs)
BY SeqIsList

LEMMA RecordedType ==
  ASSUME NEW fs \in Seq(Scanned), NEW s
  PROVE  Fps(Kept(fs, s)) \in SUBSET FpSet
<1>1. IsList(fs)
  BY SeqIsList
<1> QED
  BY <1>1, KeptIsList, FpsType

LEMMA LifecycleType ==
  ASSUME NEW fs \in Seq(Scanned), NEW s, NEW k
  PROVE  IsList(Lifecycle(fs, s, k))
BY ScanIsList, LifecycleCovers

LEMMA KeepType ==
  ASSUME NEW l, IsList(l)
  PROVE  /\ IsList(KeepCardinality(l))
         /\ DOMAIN KeepCardinality(l) = {i \in DOMAIN l : l[i].rule \in CardinalityRules}
         /\ \A i \in DOMAIN KeepCardinality(l) : KeepCardinality(l)[i] = l[i]
<1> DEFINE S == {i \in DOMAIN l : l[i].rule \in CardinalityRules}
<1>1. S \in SUBSET (DOMAIN l)
  OBVIOUS
<1>2. KeepCardinality(l) = Sub(l, S)
  BY DEF KeepCardinality
<1> HIDE DEF S
<1>3. IsList(Sub(l, S)) /\ DOMAIN Sub(l, S) = S /\ \A i \in S : Sub(l, S)[i] = l[i]
  BY <1>1, SubIsList
<1> QED
  BY <1>2, <1>3 DEF S

LEMMA BeforeType ==
  ASSUME NEW l, IsList(l), NEW k
  PROVE  IsList(Before(l, k))
<1> DEFINE S == {i \in DOMAIN l : i < k}
<1>1. S \in SUBSET (DOMAIN l)
  OBVIOUS
<1>2. Before(l, k) = Sub(l, S)
  BY DEF Before
<1> HIDE DEF S
<1> QED
  BY <1>1, <1>2, SubIsList

LEMMA EmptyIsList == IsList(<<>>)
BY DEF IsList

\* An invocation records finitely many fingerprints.
LEMMA RecordedFinite ==
  ASSUME NEW fs \in Seq(Scanned), NEW s
  PROVE  IsFiniteSet(Fps(Kept(fs, s)))
<1> DEFINE l == Kept(fs, s)
           h == [i \in DOMAIN l |-> Fp(l[i])]
<1>1. IsFiniteSet(DOMAIN fs)
  BY FS_Interval, Len(fs) \in Nat, DOMAIN fs = 1..Len(fs)
<1>2. IsFiniteSet(DOMAIN l)
  BY <1>1, FS_Subset DEF Kept, Sub
<1>3. h \in Surjection(DOMAIN l, Fps(l))
  BY DEF Surjection, Fps
<1> QED
  BY <1>2, <1>3, FS_Surjection

-----------------------------------------------------------------------------
\* A record of finitely many fingerprints is lines that list them, and an end.
LEMMA RecordShape ==
  ASSUME NEW s \in SUBSET FpSet, IsFiniteSet(s), NEW rec \in Records(s)
  PROVE  /\ rec \in Content /\ rec # Empty
         /\ Len(rec) \in Nat \ {0} /\ DOMAIN rec = 1..Len(rec)
         /\ rec[Len(rec)] = End
         /\ \A i \in DOMAIN rec : i # Len(rec) => rec[i].kind = "line"
         /\ Fingerprints(rec) = s
<1>1. PICK l \in Sorted(s) :
        rec = [i \in 1..(Len(l) + 1) |-> IF i <= Len(l) THEN Line({l[i]}) ELSE End]
  BY DEF Records
<1>2. Cardinality(s) \in Nat
  BY FS_CardinalityType
<1>3. l \in [1..Cardinality(s) -> s] /\ \A p \in s : \E i \in DOMAIN l : l[i] = p
  BY DEF Sorted
<1>4. Len(l) = Cardinality(s) /\ DOMAIN l = 1..Len(l)
  BY <1>2, <1>3
<1>5. \A i \in DOMAIN l : Line({l[i]}) \in Cell /\ Line({l[i]}).kind = "line"
  BY <1>3 DEF Line, Cell
<1>6. End \in Cell
  BY DEF End, Cell
<1>7. rec \in [1..(Len(l) + 1) -> Cell]
  BY <1>1, <1>4, <1>5, <1>6
<1>8. rec \in Content /\ Len(rec) = Len(l) + 1
  BY <1>2, <1>4, <1>7 DEF Content
<1>9. /\ \A i \in DOMAIN l : rec[i] = Line({l[i]})
      /\ rec[Len(rec)] = End
  BY <1>1, <1>2, <1>4, <1>8
<1>10. Fingerprints(rec) = s
  <2>1. \A p \in s : \E i \in DOMAIN rec : p \in rec[i].fps
    <3> TAKE p \in s
    <3>1. PICK i \in DOMAIN l : l[i] = p
      BY <1>3
    <3>2. i \in DOMAIN rec
      BY <1>1, <1>2, <1>4
    <3>3. rec[i] = Line({p})
      BY <1>9, <3>1
    <3>4. rec[i].fps = {p}
      BY <3>3 DEF Line
    <3> QED
      BY <3>2, <3>4
  <2>2. \A i \in DOMAIN rec : rec[i].fps \subseteq s
    <3> TAKE i \in DOMAIN rec
    <3>1. i \in DOMAIN l \/ i = Len(rec)
      BY <1>1, <1>2, <1>4, <1>8
    <3>2. CASE i \in DOMAIN l
      <4>1. l[i] \in s /\ rec[i] = Line({l[i]})
        BY <1>3, <1>9, <3>2
      <4>2. rec[i].fps = {l[i]}
        BY <4>1 DEF Line
      <4> QED
        BY <4>1, <4>2
    <3>3. CASE i = Len(rec)
      BY <1>9, <3>3 DEF End
    <3> QED
      BY <3>1, <3>2, <3>3
  <2> QED
    BY <2>1, <2>2 DEF Fingerprints
<1> QED
  BY <1>1, <1>2, <1>4, <1>5, <1>7, <1>8, <1>9, <1>10 DEF Empty

\* What a record is laid over and what it becomes.
LEMMA LaidType ==
  ASSUME NEW f \in Content, NEW rec \in Content, NEW j \in DOMAIN rec, NEW c \in Cell
  PROVE  /\ Laid(rec, j, c, f) \in Content
         /\ DOMAIN Laid(rec, j, c, f) = 1..Len(Laid(rec, j, c, f))
         /\ Len(Laid(rec, j, c, f)) = IF Len(f) > j THEN Len(f) ELSE j
<1> DEFINE n == IF Len(f) > j THEN Len(f) ELSE j
<1>1. j \in 1..Len(rec) /\ Len(f) \in Nat /\ Len(rec) \in Nat /\ n \in Nat
  BY DEF Content
<1>2. Laid(rec, j, c, f) \in [1..n -> Cell]
  <2> SUFFICES ASSUME NEW i \in 1..n
               PROVE  (IF i < j THEN rec[i] ELSE IF i = j THEN c ELSE f[i]) \in Cell
    BY DEF Laid
  <2> QED
    BY <1>1 DEF Content
<1> QED
  BY <1>1, <1>2 DEF Content

LEMMA BoundaryType ==
  ASSUME NEW f \in Content, NEW rec \in Content, NEW j \in DOMAIN rec
  PROVE  /\ Boundary(rec, f, j) \subseteq Cell
         /\ j \in DOMAIN f => EndOver(f[j]) \subseteq Cell
<1>1. rec[j] \in Cell /\ Len(f) \in Nat /\ j \in Nat \ {0}
  BY DEF Content
<1>2. j <= Len(f) => j \in DOMAIN f /\ f[j] \in Cell
  BY <1>1 DEF Content
<1>3. \A y \in Cell : EndOver(y) \subseteq Cell
  BY DEF EndOver, Damaged, End, Cell
<1>4. \A x, y \in Cell : LineOver(x, y) \subseteq Cell
  BY DEF LineOver, Cell
<1>5. Damaged({}) \in Cell
  BY DEF Damaged, Cell
<1>6. j \in DOMAIN f => j <= Len(f)
  BY DEF Content
<1> QED
  BY <1>1, <1>2, <1>3, <1>4, <1>5, <1>6 DEF Boundary

LEMMA WritesType ==
  ASSUME NEW f \in Content, NEW s \in SUBSET FpSet, IsFiniteSet(s), NEW rec \in Records(s)
  PROVE  Overwritten(f, rec) \subseteq Content /\ Scribbled(f, rec) \subseteq Content
<1> DEFINE n == Len(rec)
<1>1. rec \in Content /\ n \in DOMAIN rec /\ n \in Nat
  BY RecordShape
<1>2. Len(f) \in Nat /\ (n <= Len(f) => n \in DOMAIN f)
  BY RecordShape DEF Content
<1>3. Overwritten(f, rec) \subseteq Content
  <2>1. CASE n > Len(f)
    BY <1>1, <2>1 DEF Overwritten
  <2>2. CASE ~(n > Len(f))
    <3>1. EndOver(f[n]) \subseteq Cell
      BY <1>1, <1>2, <2>2, BoundaryType
    <3>2. \A c \in EndOver(f[n]) : Laid(rec, n, c, f) \in Content
      BY <1>1, <3>1, LaidType
    <3> QED
      BY <2>2, <3>2 DEF Overwritten
  <2> QED
    BY <2>1, <2>2
<1>4. Scribbled(f, rec) \subseteq Content
  <2>1. \A j \in DOMAIN rec : \A c \in Boundary(rec, f, j) : Laid(rec, j, c, f) \in Content
    BY <1>1, BoundaryType, LaidType
  <2> QED
    BY <2>1 DEF Scribbled
<1> QED
  BY <1>3, <1>4

-----------------------------------------------------------------------------
\* The type invariant.
THEOREM TypeCorrect == Spec => []TypeOK
<1>1. Init => TypeOK
  <2> SUFFICES ASSUME Init PROVE TypeOK
    OBVIOUS
  <2>1. pc \in [Runs -> Stages]
    <3>1. \A a \in Invocations : FirstStage(a) \in Stages
      BY ArgsType DEF FirstStage, Stages, Commands
    <3> QED
      BY <3>1 DEF Init
  <2>2. \A r \in Runs : IsList(out[r]) /\ IsList(printed[r].list)
    BY EmptyIsList DEF Init, Nothing
  <2>3. disk \in [Path -> Content] /\ edits \in 0..MaxEdits
    BY ConfigAssumption DEF Init
  <2>4. /\ found \in [Runs -> Seq(Scanned)]
        /\ printed = [r \in Runs |-> [whole |-> printed[r].whole, list |-> printed[r].list]]
        /\ \A r \in Runs : printed[r].whole \in BOOLEAN
        /\ out = [r \in Runs |-> out[r]]
    <3>1. found \in [Runs -> Seq(Scanned)]
      BY DEF Init
    <3>2. /\ printed = [r \in Runs |-> Nothing]
          /\ out = [r \in Runs |-> <<>>]
      BY DEF Init
    <3>3. Nothing = [whole |-> Nothing.whole, list |-> Nothing.list] /\ Nothing.whole = FALSE
      BY DEF Nothing
    <3>4. \A r \in Runs : printed[r] = Nothing
      BY <3>2
    <3>5. \A r \in Runs : printed[r].whole \in BOOLEAN
      BY <3>3, <3>4
    <3>6. out = [r \in Runs |-> out[r]]
      BY <3>2
    <3>7. printed = [r \in Runs |-> printed[r]]
      BY <3>2, Zenon
    <3>8. printed = [r \in Runs |-> [whole |-> printed[r].whole, list |-> printed[r].list]]
      <4>1. ASSUME NEW r \in Runs
            PROVE  printed[r] = [whole |-> printed[r].whole, list |-> printed[r].list]
        BY <3>3, <3>4, Zenon
      <4> QED
        BY <3>7, <4>1, Zenon
    <3> QED
      BY <3>1, <3>5, <3>6, <3>8
  <2>5. /\ args \in [Runs -> Invocations]
        /\ temp \in [Runs -> BOOLEAN]
        /\ sup \in [Runs -> SUBSET Suppression]
        /\ known \in [Runs -> SUBSET FpSet]
        /\ verdict \in [Runs -> {"none", "clean", "blocked", "error"}]
        /\ wrote \in [Runs -> Writes]
        /\ tree \in Trees /\ adopted \in Adopted
    BY DEF Init, Writes
  <2> QED
    BY <2>1, <2>2, <2>3, <2>4, <2>5 DEF TypeOK
<1>2. TypeOK /\ [Next]_vars => TypeOK'
  <2> SUFFICES ASSUME TypeOK, [Next]_vars PROVE TypeOK'
    OBVIOUS
  <2>1. ASSUME NEW r \in Runs, NEW v \in {"clean", "blocked", "error"}, Return(r, v)
        PROVE  TypeOK'
    BY <2>1 DEF TypeOK, Return, GoTo, local, shared, Stages
  <2>2. ASSUME NEW r \in Runs, Fail(r)
        PROVE  TypeOK'
    BY <2>1, <2>2 DEF Fail
  <2>3. ASSUME NEW r \in Runs, NEW s \in Stages, GoTo(r, s),
               UNCHANGED <<args, temp, verdict, wrote, local, shared>>
        PROVE  TypeOK'
    BY <2>3 DEF TypeOK, GoTo, local, shared
  <2>4. \A r \in Runs : AfterRules(args[r]) \in Stages /\ AfterFailOn(args[r]) \in Stages
                        /\ AfterRender(args[r]) \in Stages
    BY DEF AfterRules, AfterFailOn, AfterRender, Stages
  <2>5. ASSUME NEW r \in Runs, LoadPolicy(r)
        PROVE  TypeOK'
    BY <2>5, <2>2, <2>3 DEF LoadPolicy, Stages
  <2>6. ASSUME NEW r \in Runs, NormalizeEngine(r)
        PROVE  TypeOK'
    BY <2>6, <2>2, <2>3 DEF NormalizeEngine, Stages
  <2>7. ASSUME NEW r \in Runs, MakeTemp(r)
        PROVE  TypeOK'
    <3>1. CASE /\ GoTo(r, "materialize")
               /\ temp' = [temp EXCEPT ![r] = TRUE]
               /\ UNCHANGED <<args, verdict, wrote, local, shared>>
      BY <3>1 DEF TypeOK, GoTo, local, shared, Stages
    <3> QED
      BY <2>7, <2>2, <2>3, <2>4, <3>1 DEF MakeTemp
  <2>8. ASSUME NEW r \in Runs, Materialize(r)
        PROVE  TypeOK'
    BY <2>8, <2>2, <2>3, <2>4 DEF Materialize
  <2>9. ASSUME NEW r \in Runs, CheckFailOn(r)
        PROVE  TypeOK'
    BY <2>9, <2>2, <2>3, <2>4 DEF CheckFailOn
  <2>10. tree.pattern \in Seq(Scanned) /\ tree.go \in Seq(Scanned)
    BY TreeType DEF TypeOK
  <2>11. ASSUME NEW r \in Runs, NEW s \in Stages, NEW fs \in Seq(Scanned), GoTo(r, s),
                found' = [found EXCEPT ![r] = fs],
                UNCHANGED <<args, temp, sup, known, out, printed, verdict, wrote, shared>>
         PROVE  TypeOK'
    BY <2>11 DEF TypeOK, GoTo, shared
  <2>12. ASSUME NEW r \in Runs, ScanPattern(r)
         PROVE  TypeOK'
    <3>1. CASE Fail(r)
      BY <2>2, <3>1
    <3>2. CASE ~Fail(r)
      <4> DEFINE fs == IF EngineOf(args[r]) = "go" THEN found[r] ELSE found[r] \o tree.pattern
                 s  == IF args[r].cmd = "check-cardinality" THEN "keep" ELSE "go"
      <4>1. fs \in Seq(Scanned)
        BY <2>10 DEF TypeOK
      <4>2. s \in Stages
        BY DEF Stages
      <4>3. /\ GoTo(r, s)
            /\ found' = [found EXCEPT ![r] = fs]
            /\ UNCHANGED <<args, temp, sup, known, out, printed, verdict, wrote, shared>>
        BY <2>12, <3>2 DEF ScanPattern, TypeOK
      <4> HIDE DEF fs, s
      <4> QED
        BY <2>11, <4>1, <4>2, <4>3
    <3> QED
      BY <3>1, <3>2
  <2>13. ASSUME NEW r \in Runs, ScanGo(r)
         PROVE  TypeOK'
    <3>1. CASE Fail(r)
      BY <2>2, <3>1
    <3>2. CASE ~Fail(r)
      <4> DEFINE fs == IF EngineOf(args[r]) = "pattern" THEN found[r] ELSE found[r] \o tree.go
      <4>1. fs \in Seq(Scanned)
        BY <2>10 DEF TypeOK
      <4>2. /\ GoTo(r, "suppress")
            /\ found' = [found EXCEPT ![r] = fs]
            /\ UNCHANGED <<args, temp, sup, known, out, printed, verdict, wrote, shared>>
        BY <2>13, <3>2 DEF ScanGo, TypeOK
      <4> HIDE DEF fs
      <4> QED
        BY <2>11, <4>1, <4>2 DEF Stages
    <3> QED
      BY <3>1, <3>2
  <2>14. ASSUME NEW r \in Runs, LoadSuppressions(r)
         PROVE  TypeOK'
    <3>1. ReadSuppressions(found[r], tree) \in SUBSET Suppression
      BY ReadType DEF TypeOK
    <3> QED
      BY <2>14, <3>1 DEF TypeOK, LoadSuppressions, GoTo, shared, Stages
  <2>15. ASSUME NEW r \in Runs, LoadBaseline(r)
         PROVE  TypeOK'
    <3> DEFINE p == args[r].baseline
    <3>1. CASE /\ p # NoPath
               /\ GoTo(r, "open")
               /\ known' = [known EXCEPT ![r] = Fingerprints(disk[p])]
               /\ UNCHANGED <<args, temp, found, sup, out, printed, verdict, wrote, shared>>
      <4>1. p \in Path
        BY <3>1, ArgsType DEF TypeOK
      <4>2. Fingerprints(disk[p]) \in SUBSET FpSet
        <5>1. disk[p] \in Seq(Cell)
          BY <4>1 DEF TypeOK, Content
        <5>2. \A i \in DOMAIN disk[p] : disk[p][i] \in Cell
          BY <5>1
        <5> QED
          BY <5>2 DEF Fingerprints, Cell
      <4> QED
        BY <3>1, <4>2 DEF TypeOK, GoTo, shared, Stages
    <3> QED
      BY <2>15, <2>2, <2>3, <3>1 DEF LoadBaseline, Stages
  <2>16. ASSUME NEW r \in Runs, NEW p \in Path, NEW c \in Content,
                disk' = [disk EXCEPT ![p] = c]
         PROVE  disk' \in [Path -> Content]
    BY <2>16 DEF TypeOK
  <2>17. ASSUME NEW r \in Runs, OpenBaseline(r)
         PROVE  TypeOK'
    <3> DEFINE p == args[r].baselineWrite
               c == Empty
    <3>1. CASE /\ p # NoPath
               /\ GoTo(r, "write")
               /\ disk' = [disk EXCEPT ![p] = c]
               /\ UNCHANGED <<args, temp, verdict, wrote, local, tree, edits, adopted>>
      <4>1. p \in Path
        BY <3>1, ArgsType DEF TypeOK
      <4>2. c \in Content
        BY DEF Content, Empty
      <4>3. disk' \in [Path -> Content]
        BY <2>16, <3>1, <4>1, <4>2
      <4> QED
        BY <3>1, <4>3 DEF TypeOK, GoTo, local, Stages
    <3> QED
      BY <2>17, <2>2, <2>3, <3>1 DEF OpenBaseline, Stages
  <2>18. ASSUME NEW r \in Runs
         PROVE  Recorded(r) \in SUBSET FpSet /\ IsFiniteSet(Recorded(r))
    BY RecordedType, RecordedFinite DEF Recorded, TypeOK
  <2>19. ASSUME NEW r \in Runs, NEW rec \in Records(Recorded(r)), NEW p,
                NEW c \in Overwritten(disk[p], rec) \cup Scribbled(disk[p], rec),
                disk' = [disk EXCEPT ![p] = c]
         PROVE  disk' \in [Path -> Content]
    <3>1. CASE p \in Path
      <4>1. disk[p] \in Content
        BY <3>1 DEF TypeOK
      <4>2. c \in Content
        BY <2>18, <2>19, <4>1, WritesType
      <4> QED
        BY <2>16, <2>19, <3>1, <4>2
    <3>2. CASE p \notin Path
      BY <2>19, <3>2 DEF TypeOK
    <3> QED
      BY <3>1, <3>2
  <2>29. ASSUME NEW r \in Runs, Scribble(r)
         PROVE  disk' \in [Path -> Content] /\ wrote' \in [Runs -> Writes]
    <3> DEFINE p == args[r].baselineWrite
    <3>1. PICK rec \in Records(Recorded(r)) : \E f \in Scribbled(disk[p], rec) :
            /\ disk' = [disk EXCEPT ![p] = f]
            /\ wrote' = [wrote EXCEPT ![r] = IF f = disk[p]         THEN "no"
                                             ELSE IF disk[p] = Empty THEN "part"
                                             ELSE "over"]
      BY <2>29 DEF Scribble
    <3>2. wrote' \in [Runs -> Writes]
      BY <3>1 DEF TypeOK, Writes
    <3> QED
      BY <2>19, <3>1, <3>2
  <2>20. ASSUME NEW r \in Runs, WriteBaseline(r)
         PROVE  TypeOK'
    <3> DEFINE p == args[r].baselineWrite
    <3>1. CASE /\ GoTo(r, "merge")
               /\ \E rec \in Records(Recorded(r)) : \E f \in Overwritten(disk[p], rec) :
                    disk' = [disk EXCEPT ![p] = f]
               /\ wrote' = [wrote EXCEPT ![r] = "all"]
               /\ UNCHANGED <<args, temp, verdict, local, tree, edits, adopted>>
      <4>1. disk' \in [Path -> Content]
        BY <2>19, <3>1
      <4>2. wrote' \in [Runs -> Writes]
        BY <3>1 DEF TypeOK, Writes
      <4> QED
        BY <3>1, <4>1, <4>2 DEF TypeOK, GoTo, local, Stages
    <3>2. CASE /\ GoTo(r, "done")
               /\ verdict' = [verdict EXCEPT ![r] = "error"]
               /\ temp' = [temp EXCEPT ![r] = FALSE]
               /\ Scribble(r)
               /\ UNCHANGED <<args, local, tree, edits, adopted>>
      <4>1. disk' \in [Path -> Content] /\ wrote' \in [Runs -> Writes]
        BY <2>29, <3>2
      <4> QED
        BY <3>2, <4>1 DEF TypeOK, GoTo, local, Stages
    <3> QED
      BY <2>20, <3>1, <3>2 DEF WriteBaseline
  <2>21. ASSUME NEW r \in Runs, NEW l, IsList(l), GoTo(r, "render"),
                out' = [out EXCEPT ![r] = l],
                UNCHANGED <<args, temp, found, sup, known, printed, verdict, wrote, shared>>
         PROVE  TypeOK'
    BY <2>21 DEF TypeOK, GoTo, shared, Stages
  <2>22. ASSUME NEW r \in Runs, Merge(r)
         PROVE  TypeOK'
    <3>1. IsList(Lifecycle(found[r], sup[r], known[r]))
      BY LifecycleType DEF TypeOK
    <3> QED
      BY <2>21, <2>22, <3>1 DEF Merge
  <2>23. ASSUME NEW r \in Runs, KeepFindings(r)
         PROVE  TypeOK'
    <3>1. IsList(KeepCardinality(found[r]))
      BY ScanIsList, KeepType DEF TypeOK
    <3> QED
      BY <2>21, <2>23, <3>1 DEF KeepFindings
  <2>24. ASSUME NEW r \in Runs, NEW b \in BOOLEAN, NEW l, IsList(l),
                printed' = [printed EXCEPT ![r] = [whole |-> b, list |-> l]]
         PROVE  /\ printed' = [q \in Runs |-> [whole |-> printed'[q].whole,
                                              list |-> printed'[q].list]]
                /\ \A q \in Runs : printed'[q].whole \in BOOLEAN /\ IsList(printed'[q].list)
    BY <2>24 DEF TypeOK
  <2>25. ASSUME NEW r \in Runs, Render(r)
         PROVE  TypeOK'
    <3>1. CASE /\ GoTo(r, AfterRender(args[r]))
               /\ printed' = [printed EXCEPT ![r] = [whole |-> TRUE, list |-> out[r]]]
               /\ UNCHANGED <<args, temp, found, sup, known, out, verdict, wrote, shared>>
      <4>1. IsList(out[r])
        BY DEF TypeOK
      <4> QED
        BY <2>4, <2>24, <3>1, <4>1 DEF TypeOK, GoTo, shared
    <3>2. CASE /\ GoTo(r, "done")
               /\ verdict' = [verdict EXCEPT ![r] = "error"]
               /\ temp' = [temp EXCEPT ![r] = FALSE]
               /\ \E k \in 1..(Len(found[r]) + 1) :
                    printed' = [printed EXCEPT ![r] =
                                  [whole |-> FALSE, list |-> Before(out[r], k)]]
               /\ UNCHANGED <<args, found, sup, known, out, wrote, shared>>
      <4>1. PICK k \in 1..(Len(found[r]) + 1) :
              printed' = [printed EXCEPT ![r] = [whole |-> FALSE, list |-> Before(out[r], k)]]
        BY <3>2
      <4>2. IsList(Before(out[r], k))
        BY BeforeType DEF TypeOK
      <4> QED
        BY <2>24, <3>2, <4>1, <4>2 DEF TypeOK, GoTo, shared, Stages
    <3> QED
      BY <2>25, <3>1, <3>2 DEF Render
  <2>26. ASSUME NEW r \in Runs, Gate(r)
         PROVE  TypeOK'
    BY <2>1, <2>26 DEF Gate
  <2>27. ASSUME NEW r \in Runs, Kill(r)
         PROVE  TypeOK'
    <3>1. disk' \in [Path -> Content] /\ wrote' \in [Runs -> Writes]
      BY <2>27, <2>29 DEF Kill, TypeOK
    <3> QED
      BY <2>27, <3>1 DEF TypeOK, Kill, GoTo, local, Stages
  <2>28. CASE Edit
    <3>1. edits + 1 \in 0..MaxEdits
      BY <2>28, ConfigAssumption DEF Edit, TypeOK
    <3> QED
      BY <2>28, <3>1 DEF TypeOK, Edit, local
  <2>30. CASE UNCHANGED vars
    BY <2>30 DEF TypeOK, vars, local, shared
  <2> QED
    BY <2>5, <2>6, <2>7, <2>8, <2>9, <2>12, <2>13, <2>14, <2>15, <2>17, <2>20, <2>22,
       <2>23, <2>25, <2>26, <2>27, <2>28, <2>30 DEF Next, Step, AllEnded
<1> QED
  BY <1>1, <1>2, PTL DEF Spec

-----------------------------------------------------------------------------
(* What each stage of an invocation may rely on.                           *)

\* The list that an invocation has to report.
DueList(r) ==
  IF args[r].cmd = "check-cardinality" THEN KeepCardinality(found[r])
                                       ELSE Lifecycle(found[r], sup[r], known[r])

CardinalityStages == {"rules", "materialize", "pattern", "keep", "render", "failOn", "gate",
                      "done", "killed"}

\* check-cardinality has no comments and no baseline, and checks --fail-on
\* when its report is out; scan checks it before it has anything to report.
CardinalityOf(r) ==
  args[r].cmd = "check-cardinality" =>
    /\ pc[r] \in CardinalityStages
    /\ sup[r] = {} /\ known[r] = {}
    /\ pc[r] = "failOn" => printed[r].whole

CommandOf(r) ==
  /\ args[r].cmd # "check-cardinality" => pc[r] # "keep"
  /\ pc[r] = "failOn" => args[r].cmd # "check"

\* From render on, the list is the one that is due; a whole report shows it.
PrintedOf(r) ==
  /\ printed[r].whole =>
       /\ pc[r] \in {"failOn", "gate", "done", "killed"}
       /\ pc[r] = "failOn" => args[r].cmd = "check-cardinality"
       /\ printed[r].list = out[r]
  /\ pc[r] = "render" \/ printed[r].whole => out[r] = DueList(r)
  /\ pc[r] = "gate" => printed[r].whole

\* A verdict comes last, and on findings only after a whole report.
VerdictOf(r) ==
  /\ verdict[r] # "none" => pc[r] = "done"
  /\ verdict[r] \in {"clean", "blocked"} =>
       /\ printed[r].whole
       /\ verdict[r] = "clean" <=> Gating(args[r], out[r]) = {}

StageOf(r) == CardinalityOf(r) /\ CommandOf(r) /\ PrintedOf(r) /\ VerdictOf(r)

StageInv == \A r \in Runs : StageOf(r)

\* What invocation q holds does not change.
Frozen(q) ==
  /\ pc'[q] = pc[q]
  /\ args'[q] = args[q]
  /\ temp'[q] = temp[q]
  /\ found'[q] = found[q]
  /\ sup'[q] = sup[q]
  /\ known'[q] = known[q]
  /\ out'[q] = out[q]
  /\ printed'[q] = printed[q]
  /\ verdict'[q] = verdict[q]
  /\ wrote'[q] = wrote[q]

\* A step of one invocation leaves the others alone.
LEMMA OthersFrozen ==
  ASSUME TypeOK, NEW r \in Runs, NEW q \in Runs, q # r, Step(r) \/ Kill(r)
  PROVE  Frozen(q)
<1> USE DEF TypeOK, Frozen, GoTo, local
<1>1. ASSUME NEW v, Return(r, v)
      PROVE  Frozen(q)
  BY <1>1 DEF Return
<1>2. CASE LoadPolicy(r)
  BY <1>1, <1>2 DEF LoadPolicy, Fail
<1>3. CASE NormalizeEngine(r)
  BY <1>1, <1>3 DEF NormalizeEngine, Fail
<1>4. CASE MakeTemp(r)
  BY <1>1, <1>4 DEF MakeTemp, Fail
<1>5. CASE Materialize(r)
  BY <1>1, <1>5 DEF Materialize, Fail
<1>6. CASE CheckFailOn(r)
  BY <1>1, <1>6 DEF CheckFailOn, Fail
<1>7. CASE ScanPattern(r)
  BY <1>1, <1>7 DEF ScanPattern, Fail
<1>8. CASE ScanGo(r)
  BY <1>1, <1>8 DEF ScanGo, Fail
<1>9. CASE LoadSuppressions(r)
  BY <1>9 DEF LoadSuppressions
<1>10. CASE LoadBaseline(r)
  BY <1>1, <1>10 DEF LoadBaseline, Fail
<1>11. CASE OpenBaseline(r)
  BY <1>1, <1>11 DEF OpenBaseline, Fail
<1>12. CASE WriteBaseline(r)
  BY <1>12 DEF WriteBaseline, Scribble
<1>13. CASE Merge(r)
  BY <1>13 DEF Merge
<1>14. CASE KeepFindings(r)
  BY <1>14 DEF KeepFindings
<1>15. CASE Render(r)
  BY <1>15 DEF Render
<1>16. CASE Gate(r)
  BY <1>1, <1>16 DEF Gate
<1>17. CASE Kill(r)
  BY <1>17 DEF Kill, Scribble
<1> QED
  BY <1>2, <1>3, <1>4, <1>5, <1>6, <1>7, <1>8, <1>9, <1>10, <1>11, <1>12, <1>13, <1>14,
     <1>15, <1>16, <1>17 DEF Step

\* An edit of the tree, and a step of nobody, leave every invocation alone.
LEMMA EditFrozen ==
  ASSUME NEW q \in Runs, Edit \/ UNCHANGED vars
  PROVE  Frozen(q)
BY DEF Frozen, Edit, vars, local

\* What holds of an invocation goes on holding while nothing of it changes.
LEMMA FrozenStage ==
  ASSUME NEW q \in Runs, StageOf(q), Frozen(q)
  PROVE  StageOf(q)'
BY DEF StageOf, CardinalityOf, CommandOf, PrintedOf, VerdictOf, DueList, Frozen

\* Each step of an invocation preserves what holds of it.
LEMMA OwnStage ==
  ASSUME TypeOK, NEW r \in Runs, StageOf(r), Step(r) \/ Kill(r)
  PROVE  StageOf(r)'
<1> USE DEF TypeOK, GoTo, At, local, CardinalityStages
<1>1. ASSUME NEW v, Return(r, v), v = "error", pc[r] # "done"
      PROVE  StageOf(r)'
  BY <1>1 DEF Return, StageOf, CardinalityOf, CommandOf, PrintedOf, VerdictOf, DueList
<1>2. args[r].cmd \in Commands
  BY ArgsType
<1>3. CASE LoadPolicy(r)
  BY <1>1, <1>2, <1>3 DEF LoadPolicy, Fail,
     StageOf, CardinalityOf, CommandOf, PrintedOf, VerdictOf, DueList
<1>4. CASE NormalizeEngine(r)
  BY <1>1, <1>4 DEF NormalizeEngine, Fail,
     StageOf, CardinalityOf, CommandOf, PrintedOf, VerdictOf, DueList
<1>5. CASE MakeTemp(r)
  BY <1>1, <1>5 DEF MakeTemp, Fail, AfterRules,
     StageOf, CardinalityOf, CommandOf, PrintedOf, VerdictOf, DueList
<1>6. CASE Materialize(r)
  BY <1>1, <1>6 DEF Materialize, Fail, AfterRules,
     StageOf, CardinalityOf, CommandOf, PrintedOf, VerdictOf, DueList
<1>7. CASE CheckFailOn(r)
  BY <1>1, <1>2, <1>7 DEF CheckFailOn, Fail, AfterFailOn, Commands,
     StageOf, CardinalityOf, CommandOf, PrintedOf, VerdictOf, DueList
<1>8. CASE ScanPattern(r)
  BY <1>1, <1>8 DEF ScanPattern, Fail,
     StageOf, CardinalityOf, CommandOf, PrintedOf, VerdictOf, DueList
<1>9. CASE ScanGo(r)
  BY <1>1, <1>9 DEF ScanGo, Fail,
     StageOf, CardinalityOf, CommandOf, PrintedOf, VerdictOf, DueList
<1>10. CASE LoadSuppressions(r)
  BY <1>10 DEF LoadSuppressions,
     StageOf, CardinalityOf, CommandOf, PrintedOf, VerdictOf, DueList
<1>11. CASE LoadBaseline(r)
  BY <1>1, <1>11 DEF LoadBaseline, Fail,
     StageOf, CardinalityOf, CommandOf, PrintedOf, VerdictOf, DueList
<1>12. CASE OpenBaseline(r)
  BY <1>1, <1>12 DEF OpenBaseline, Fail,
     StageOf, CardinalityOf, CommandOf, PrintedOf, VerdictOf, DueList
<1>13. CASE WriteBaseline(r)
  BY <1>13 DEF WriteBaseline,
     StageOf, CardinalityOf, CommandOf, PrintedOf, VerdictOf, DueList
<1>14. CASE Merge(r)
  BY <1>14 DEF Merge,
     StageOf, CardinalityOf, CommandOf, PrintedOf, VerdictOf, DueList
<1>15. CASE KeepFindings(r)
  BY <1>15 DEF KeepFindings,
     StageOf, CardinalityOf, CommandOf, PrintedOf, VerdictOf, DueList
<1>16. CASE Render(r)
  BY <1>16 DEF Render, AfterRender,
     StageOf, CardinalityOf, CommandOf, PrintedOf, VerdictOf, DueList
<1>17. CASE Gate(r)
  BY <1>17 DEF Gate, Return,
     StageOf, CardinalityOf, CommandOf, PrintedOf, VerdictOf, DueList
<1>18. CASE Kill(r)
  BY <1>18 DEF Kill, Ended,
     StageOf, CardinalityOf, CommandOf, PrintedOf, VerdictOf, DueList
<1> QED
  BY <1>3, <1>4, <1>5, <1>6, <1>7, <1>8, <1>9, <1>10, <1>11, <1>12, <1>13, <1>14, <1>15,
     <1>16, <1>17, <1>18 DEF Step

\* Stages hold of every invocation at any time.
THEOREM StagesCorrect == Spec => []StageInv
<1>1. Init => StageInv
  <2> SUFFICES ASSUME Init, NEW r \in Runs PROVE StageOf(r)
    BY DEF StageInv
  <2>1. printed[r].whole = FALSE
    BY DEF Init, Nothing
  <2> QED
    BY <2>1, ArgsType DEF Init, FirstStage, Commands, CardinalityStages,
       StageOf, CardinalityOf, CommandOf, PrintedOf, VerdictOf
<1>2. TypeOK /\ StageInv /\ [Next]_vars => StageInv'
  <2> SUFFICES ASSUME TypeOK, StageInv, [Next]_vars, NEW q \in Runs
               PROVE  StageOf(q)'
    BY DEF StageInv
  <2>1. StageOf(q)
    BY DEF StageInv
  <2>2. ASSUME NEW r \in Runs, Step(r) \/ Kill(r)
        PROVE  StageOf(q)'
    BY <2>1, <2>2, OwnStage, OthersFrozen, FrozenStage
  <2>3. CASE Edit \/ UNCHANGED vars
    BY <2>1, <2>3, EditFrozen, FrozenStage
  <2> QED
    BY <2>2, <2>3 DEF Next, AllEnded
<1> QED
  BY <1>1, <1>2, TypeCorrect, PTL DEF Spec
=============================================================================
