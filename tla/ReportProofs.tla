---------------------------- MODULE ReportProofs ----------------------------
(***************************************************************************)
(* The report of an invocation and the exit status it draws from it, what  *)
(* it records that the next one keeps quiet about, and that ScanLifecycle  *)
(* implements ScanContract: for any number of invocations, any command     *)
(* lines, trees, baseline files and edits, a kill at any moment.           *)
(***************************************************************************)
EXTENDS ScanLifecycleProofs, HtmlReport, FunctionTheorems

\* What an invocation answers for is a list of open findings.
LEMMA EvidenceIsList ==
  ASSUME TypeOK, NEW r \in Runs
  PROVE  /\ IsList(Evidence(r))
         /\ \A i \in DOMAIN Evidence(r) : Evidence(r)[i] \in Scanned /\ i <= Len(found[r])
<1>1. found[r] \in Seq(Scanned)
  BY DEF TypeOK
<1>2. IsList(found[r]) /\ \A i \in DOMAIN found[r] : found[r][i] \in Scanned /\ i <= Len(found[r])
  BY <1>1, SeqIsList, ScanIsList
<1>3. /\ IsList(KeepCardinality(found[r]))
      /\ \A i \in DOMAIN KeepCardinality(found[r]) :
           i \in DOMAIN found[r] /\ KeepCardinality(found[r])[i] = found[r][i]
  BY <1>2, KeepType
<1> QED
  BY <1>2, <1>3 DEF Evidence

\* Without comments and without a baseline, all of it is due, as it is.
LEMMA NothingToFilter ==
  ASSUME NEW l, IsList(l)
  PROVE  Reported(l, {}, {}) = DOMAIN l /\ ReportOf(l, {}, {}) = l
<1>1. \A i \in DOMAIN l : ~SuppressedBy(l[i], {})
  BY DEF SuppressedBy
<1>2. Reported(l, {}, {}) = DOMAIN l
  BY DEF Reported
<1>3. ReportOf(l, {}, {}) = [i \in DOMAIN l |-> l[i]]
  BY <1>1, <1>2 DEF ReportOf
<1> QED
  BY <1>2, <1>3 DEF IsList

\* What an invocation goes on to report covers what is due, says of nothing
\* that it is open unless it is, and is exact under unique fingerprints.
LEMMA DueListCovers ==
  ASSUME TypeOK, NEW r \in Runs, CardinalityOf(r)
  PROVE  LET e == Evidence(r)
             l == DueList(r)
         IN  /\ IsList(l)
             /\ Reported(e, sup[r], known[r]) \subseteq DOMAIN l
             /\ DOMAIN l \subseteq DOMAIN e
             /\ \A i \in DOMAIN l : Fp(l[i]) = Fp(e[i])
             /\ \A i \in DOMAIN l : l[i].status # "suppressed" =>
                  \E j \in DOMAIN e : /\ l[i] = e[j]
                                     /\ ~SuppressedBy(e[j], sup[r])
                                     /\ Fp(e[j]) \notin known[r]
             /\ UniqueFps(e) => l = ReportOf(e, sup[r], known[r])
<1> DEFINE e == Evidence(r)
           l == DueList(r)
<1>1. IsList(e) /\ \A i \in DOMAIN e : i <= Len(found[r])
  BY EvidenceIsList
<1>2. Len(found[r]) \in Nat
  BY ScanIsList DEF TypeOK
<1>3. CASE args[r].cmd = "check-cardinality"
  <2>1. l = e /\ sup[r] = {} /\ known[r] = {}
    BY <1>3 DEF DueList, Evidence, CardinalityOf
  <2>2. Reported(e, {}, {}) = DOMAIN e /\ ReportOf(e, {}, {}) = e
    BY <1>1, NothingToFilter
  <2>3. \A i \in DOMAIN e : ~SuppressedBy(e[i], {})
    BY DEF SuppressedBy
  <2> HIDE DEF e, l
  <2>4. \A i \in DOMAIN l : l[i] = e[i] /\ ~SuppressedBy(e[i], sup[r]) /\ Fp(e[i]) \notin known[r]
    BY <2>1, <2>3
  <2> QED
    BY <1>1, <2>1, <2>2, <2>4 DEF e, l
<1>4. CASE args[r].cmd # "check-cardinality"
  <2>1. l = Lifecycle(e, sup[r], known[r])
    BY <1>4 DEF DueList, Evidence
  <2> HIDE DEF e, l
  <2>2. UniqueFps(e) => l = ReportOf(e, sup[r], known[r])
    BY <1>1, <2>1, LifecycleExact
  <2> QED
    BY <1>1, <1>2, <2>1, <2>2, LifecycleCovers DEF e, l
<1> QED
  BY <1>3, <1>4

\* The report of a run whose fingerprints are unique is exact.
THEOREM ReportIsExact == Spec => []ReportExact
<1>1. TypeOK /\ StageInv => ReportExact
  BY DueListCovers DEF ReportExact, StageInv, StageOf, PrintedOf
<1> QED
  BY <1>1, TypeCorrect, StagesCorrect, PTL

\* The report of any run has an occurrence for each one that is due.
THEOREM NothingIsDropped == Spec => []NothingDropped
<1>1. TypeOK /\ StageInv => NothingDropped
  <2> SUFFICES ASSUME TypeOK, StageInv, NEW r \in Runs, printed[r].whole,
                      NEW i \in Reported(Evidence(r), sup[r], known[r])
               PROVE  i \in DOMAIN printed[r].list /\ Fp(printed[r].list[i]) = Fp(Evidence(r)[i])
    BY DEF NothingDropped
  <2>1. StageOf(r)
    BY DEF StageInv
  <2>2. printed[r].list = DueList(r)
    BY <2>1 DEF StageOf, PrintedOf
  <2> QED
    BY <2>1, <2>2, DueListCovers DEF StageOf
<1> QED
  BY <1>1, TypeCorrect, StagesCorrect, PTL

-----------------------------------------------------------------------------
\* The ranks order severities and levels as the words do.
LEMMA RankReaches ==
  ASSUME NEW sev \in Severity, NEW level
  PROVE  sev \in Reaches(level) <=>
           FailOnRank(level) > 0 /\ SeverityRank(sev) >= FailOnRank(level)
<1>1. CASE level = "hint"
  BY <1>1 DEF Severity, Reaches, FailOnRank, SeverityRank
<1>2. CASE level = "info"
  BY <1>2 DEF Severity, Reaches, FailOnRank, SeverityRank
<1>3. CASE level = "warning"
  BY <1>3 DEF Severity, Reaches, FailOnRank, SeverityRank
<1>4. CASE level = "error"
  BY <1>4 DEF Severity, Reaches, FailOnRank, SeverityRank
<1>5. CASE level \notin {"hint", "info", "warning", "error"}
  <2>1. level # "hint" /\ level # "info" /\ level # "warning" /\ level # "error"
    BY <1>5
  <2>2. Reaches(level) = {}
    BY <2>1, Zenon DEF Reaches
  <2>3. FailOnRank(level) = 0
    <3>1. CASE level \in {"", "none"}
      BY <2>1, <3>1 DEF FailOnRank
    <3>2. CASE level \notin {"", "none"}
      BY <2>1, <3>2, Zenon DEF FailOnRank
    <3> QED
      BY <3>1, <3>2
  <2> QED
    BY <2>2, <2>3
<1> QED
  BY <1>1, <1>2, <1>3, <1>4, <1>5

\* A policy blocks the rules of the classes it names, padded or not.
LEMMA OptedIsBlocked ==
  ASSUME NEW a \in Invocations, NEW rule
  PROVE  OptedIn(a.policy, rule) <=> rule \in BlockedRules(a.policy)
<1>1. a.policy.block \in Seq([name : STRING, padded : BOOLEAN])
  BY ConfigAssumption DEF Invocation, Policy
<1>2. DOMAIN a.policy.block = 1..Len(a.policy.block)
  BY <1>1
<1> QED
  BY <1>2 DEF OptedIn, BlockedRules, Trim

\* Finding f makes a command of line a fail.
Fails(a, f) ==
  /\ f.status # "suppressed"
  /\ f.conf # "medium"
  /\ IF a.cmd = "check" THEN OptedIn(a.policy, f.rule) ELSE f.sev \in Reaches(a.failOn)

\* The gate counts exactly these.
LEMMA GatingIsFails ==
  ASSUME NEW a \in Invocations, NEW l, IsList(l), NEW i
  PROVE  i \in Gating(a, l) <=> i \in DOMAIN l /\ Fails(a, l[i])
<1>1. ASSUME i \in DOMAIN l
      PROVE  l[i].sev \in Severity
  BY <1>1 DEF IsList, Finding
<1>2. CASE a.cmd = "check"
  BY <1>2, OptedIsBlocked DEF Gating, PolicyBlocking, Fails
<1>3. CASE a.cmd # "check"
  BY <1>1, <1>3, RankReaches DEF Gating, Blocking, Fails
<1> QED
  BY <1>2, <1>3

\* A run that fails over its findings has one to fail over.
THEOREM GateIsJustified == Spec => []GateJustified
<1>1. TypeOK /\ StageInv => GateJustified
  <2> SUFFICES ASSUME TypeOK, StageInv, NEW r \in Runs, verdict[r] = "blocked"
               PROVE  /\ printed[r].whole
                      /\ \E i \in DOMAIN Evidence(r) : Actionable(r, i)
    BY DEF GateJustified
  <2>1. StageOf(r)
    BY DEF StageInv
  <2>2. printed[r].whole /\ out[r] = DueList(r) /\ Gating(args[r], out[r]) # {}
    BY <2>1 DEF StageOf, VerdictOf, PrintedOf
  <2>3. PICK i : i \in Gating(args[r], out[r])
    BY <2>2
  <2>4. args[r] \in Invocations /\ IsList(out[r])
    BY DEF TypeOK
  <2>5. i \in DOMAIN out[r] /\ Fails(args[r], out[r][i])
    BY <2>3, <2>4, GatingIsFails
  <2>6. PICK j \in DOMAIN Evidence(r) : /\ out[r][i] = Evidence(r)[j]
                                        /\ ~SuppressedBy(Evidence(r)[j], sup[r])
                                        /\ Fp(Evidence(r)[j]) \notin known[r]
    BY <2>1, <2>2, <2>5, DueListCovers DEF StageOf, Fails
  <2>7. Actionable(r, j)
    BY <2>5, <2>6 DEF Actionable, Fails
  <2> QED
    BY <2>2, <2>7
<1> QED
  BY <1>1, TypeCorrect, StagesCorrect, PTL

\* A run that exits zero had nothing to fail over.
THEOREM GateIsSound == Spec => []GateSound
<1>1. TypeOK /\ StageInv => GateSound
  <2> SUFFICES ASSUME TypeOK, StageInv, NEW r \in Runs, verdict[r] = "clean"
               PROVE  /\ printed[r].whole
                      /\ UniqueFps(Evidence(r)) =>
                           ~\E i \in DOMAIN Evidence(r) : Actionable(r, i)
    BY DEF GateSound
  <2>1. StageOf(r)
    BY DEF StageInv
  <2>2. printed[r].whole /\ out[r] = DueList(r) /\ Gating(args[r], out[r]) = {}
    BY <2>1 DEF StageOf, VerdictOf, PrintedOf
  <2>3. args[r] \in Invocations /\ IsList(out[r])
    BY DEF TypeOK
  <2>4. ASSUME UniqueFps(Evidence(r)), NEW i \in DOMAIN Evidence(r), Actionable(r, i)
        PROVE  FALSE
    <3>1. out[r] = ReportOf(Evidence(r), sup[r], known[r])
      BY <2>1, <2>2, <2>4, DueListCovers DEF StageOf
    <3>2. ~SuppressedBy(Evidence(r)[i], sup[r]) /\ Fp(Evidence(r)[i]) \notin known[r]
      BY <2>4 DEF Actionable
    <3>3. i \in Reported(Evidence(r), sup[r], known[r])
      BY <3>2 DEF Reported
    <3>4. i \in DOMAIN out[r] /\ out[r][i] = Evidence(r)[i]
      BY <3>1, <3>2, <3>3 DEF ReportOf
    <3>5. Evidence(r)[i].status # "suppressed"
      BY EvidenceIsList DEF Scanned
    <3>6. Fails(args[r], out[r][i])
      BY <2>4, <3>4, <3>5 DEF Actionable, Fails
    <3> QED
      BY <2>2, <2>3, <3>4, <3>6, GatingIsFails
  <2> QED
    BY <2>2, <2>4
<1> QED
  BY <1>1, TypeCorrect, StagesCorrect, PTL

-----------------------------------------------------------------------------
(* The HTML page next to the verdict.                                      *)

LEMMA FirstNumbers ==
  ASSUME NEW n \in Nat
  PROVE  IsFiniteSet(1..n) /\ Cardinality(1..n) = n
<1>1. 1 \in Int /\ n \in Int /\ (1 > n <=> n = 0) /\ n - 1 + 1 = n
  OBVIOUS
<1> QED
  BY <1>1, FS_Interval

\* f numbers the elements of S.
Numbers(f, S) == /\ \A i \in S : f[i] \in 1..Cardinality(S)
                 /\ \A i, j \in S : f[i] = f[j] => i = j
                 /\ \A n \in 1..Cardinality(S) : \E i \in S : f[i] = n

LEMMA Numbered ==
  ASSUME NEW S, IsFiniteSet(S)
  PROVE  \E f : Numbers(f, S)
<1>1. Cardinality(S) \in Nat
  BY FS_CardinalityType
<1> DEFINE N == 1..Cardinality(S)
<1>2. IsFiniteSet(N) /\ Cardinality(N) = Cardinality(S)
  BY <1>1, FirstNumbers
<1> HIDE DEF N
<1>3. ExistsBijection(S, N)
  BY <1>2, FS_SameCardinalityBij
<1>4. PICK f : f \in Bijection(S, N)
  BY <1>3, Fun_ExistsBij
<1>5. /\ f \in [S -> N]
      /\ \A i, j \in S : f[i] = f[j] => i = j
      /\ \A n \in N : \E i \in S : f[i] = n
  BY <1>4, Fun_BijectionProperties
<1> QED
  BY <1>5 DEF Numbers, N

\* The elements of S whose key is in K, counted key by key: each class is
\* numbered, and an element is its key with its number.
LEMMA ClassesAddUp ==
  ASSUME NEW S, IsFiniteSet(S), NEW g, NEW K, NEW count,
         \A k \in K : count[k] = Cardinality({i \in S : g[i] = k})
  PROVE  Total(count, K) = Cardinality({i \in S : g[i] \in K})
<1> DEFINE T    == {i \in S : g[i] \in K}
           U    == UNION {{k} \X (1..count[k]) : k \in K}
           C(k) == {i \in S : g[i] = k}
           b    == [k \in K |-> CHOOSE f : Numbers(f, C(k))]
           h    == [i \in T |-> <<g[i], b[g[i]][i]>>]
<1>1. ASSUME NEW k \in K
      PROVE  Numbers(b[k], C(k))
  <2>1. IsFiniteSet(C(k))
    BY FS_Subset
  <2>2. \E f : Numbers(f, C(k))
    BY <2>1, Numbered
  <2> QED
    BY <2>2
<1>2. ASSUME NEW k \in K
      PROVE  /\ \A i \in C(k) : b[k][i] \in 1..count[k]
             /\ \A i, j \in C(k) : b[k][i] = b[k][j] => i = j
             /\ \A n \in 1..count[k] : \E i \in C(k) : b[k][i] = n
  <2>1. Numbers(b[k], C(k)) /\ count[k] = Cardinality(C(k))
    BY <1>1
  <2> HIDE DEF b, C
  <2> QED
    BY <2>1 DEF Numbers
<1> HIDE DEF b
<1>3. \A i \in T : g[i] \in K /\ i \in C(g[i])
  OBVIOUS
<1>4. h \in Bijection(T, U)
  <2>1. \A i \in T : h[i] = <<g[i], b[g[i]][i]>>
    OBVIOUS
  <2>2. ASSUME NEW i \in T
        PROVE  h[i] \in U
    <3>1. h[i] \in {g[i]} \X (1..count[g[i]])
      BY <1>2, <1>3, <2>1
    <3> QED
      BY <1>3, <3>1
  <2>3. ASSUME NEW i \in T, NEW j \in T, h[i] = h[j]
        PROVE  i = j
    <3>1. g[i] = g[j] /\ b[g[i]][i] = b[g[i]][j]
      BY <2>1, <2>3
    <3>2. i \in C(g[i]) /\ j \in C(g[i]) /\ g[i] \in K
      BY <1>3, <3>1
    <3> QED
      BY <1>2, <3>1, <3>2
  <2>4. ASSUME NEW u \in U
        PROVE  \E i \in T : h[i] = u
    <3>1. PICK k \in K : u \in {k} \X (1..count[k])
      OBVIOUS
    <3>2. PICK n \in 1..count[k] : u = <<k, n>>
      BY <3>1
    <3>3. PICK i \in C(k) : b[k][i] = n
      BY <1>2
    <3>4. i \in T /\ g[i] = k
      OBVIOUS
    <3> QED
      BY <2>1, <3>2, <3>3, <3>4
  <2> HIDE DEF T, U, h
  <2>5. h \in [T -> U]
    BY <2>2 DEF h
  <2> QED
    BY <2>3, <2>4, <2>5, Fun_IsBij
<1>5. IsFiniteSet(T)
  BY FS_Subset
<1> HIDE DEF T, U, h
<1>6. Cardinality(U) = Cardinality(T)
  BY <1>4, <1>5, Fun_ExistsBij, FS_Bijection
<1> QED
  BY <1>6 DEF Total, T, U

\* The rows of a page, and the totals on top of it, count every finding.
LEMMA RowsAddUp ==
  ASSUME NEW l, IsFiniteSet(DOMAIN l)
  PROVE  LET page == Build(l)
         IN  page.open + page.suppressed =
               Total([rule \in DOMAIN page.rules |-> page.rules[rule].count], DOMAIN page.rules)
<1> DEFINE K == {l[i].rule : i \in DOMAIN l}
           g == [i \in DOMAIN l |-> l[i].rule]
           count == [rule \in K |-> RuleGroup(l, rule).count]
<1>1. \A k \in K : count[k] = Cardinality({i \in DOMAIN l : g[i] = k})
  <2> SUFFICES ASSUME NEW k \in K
               PROVE  count[k] = Cardinality({i \in DOMAIN l : g[i] = k})
    OBVIOUS
  <2>1. {i \in DOMAIN l : g[i] = k} = {i \in DOMAIN l : l[i].rule = k}
    OBVIOUS
  <2> QED
    BY <2>1 DEF RuleGroup
<1>2. {i \in DOMAIN l : g[i] \in K} = DOMAIN l
  OBVIOUS
<1>3. Build(l).open + Build(l).suppressed = Cardinality(DOMAIN l)
  <2>1. OpenAt(l) \subseteq DOMAIN l /\ IsFiniteSet(OpenAt(l))
    BY FS_Subset DEF OpenAt
  <2>2. Cardinality(DOMAIN l \ OpenAt(l)) = Cardinality(DOMAIN l) - Cardinality(DOMAIN l \cap OpenAt(l))
    BY FS_Difference
  <2>3. DOMAIN l \cap OpenAt(l) = OpenAt(l)
    BY <2>1
  <2>4. Cardinality(DOMAIN l) \in Nat /\ Cardinality(OpenAt(l)) \in Nat
    BY <2>1, FS_CardinalityType
  <2>5. /\ Build(l).open = Cardinality(OpenAt(l))
        /\ Build(l).suppressed = Cardinality(DOMAIN l \ OpenAt(l))
    BY DEF Build
  <2> QED
    BY <2>2, <2>3, <2>4, <2>5
<1>4. DOMAIN Build(l).rules = K /\ count = [rule \in K |-> Build(l).rules[rule].count]
  BY DEF Build
<1> HIDE DEF K, g, count
<1>5. Total(count, K) = Cardinality(DOMAIN l)
  BY <1>1, <1>2, ClassesAddUp
<1> QED
  BY <1>3, <1>4, <1>5

\* The findings a level fails over are counted in the chips that reach it.
LEMMA ChipsAddUp ==
  ASSUME NEW l, IsList(l), IsFiniteSet(DOMAIN l), NEW level
  PROVE  LET chips == Build(l).severities
         IN  Cardinality(Blocking(l, FailOnRank(level)))
               <= Total(chips, Reaches(level) \cap DOMAIN chips)
<1> DEFINE chips == Build(l).severities
           K == Reaches(level) \cap DOMAIN chips
           g == [i \in OpenAt(l) |-> l[i].sev]
           T == {i \in OpenAt(l) : g[i] \in K}
<1>1. OpenAt(l) \subseteq DOMAIN l /\ IsFiniteSet(OpenAt(l))
  BY FS_Subset DEF OpenAt
<1>2. /\ DOMAIN chips = {l[i].sev : i \in OpenAt(l)}
      /\ \A k \in DOMAIN chips : chips[k] = Cardinality({i \in OpenAt(l) : l[i].sev = k})
  BY DEF Build
<1>3. ASSUME NEW i \in Blocking(l, FailOnRank(level))
      PROVE  i \in T
  <2>1. i \in OpenAt(l) /\ l[i].sev \in Severity
    BY <1>3 DEF Blocking, OpenAt, IsList, Finding
  <2>2. l[i].sev \in Reaches(level)
    BY <1>3, <2>1, RankReaches DEF Blocking
  <2> QED
    BY <1>2, <2>1, <2>2
<1>4. \A k \in K : chips[k] = Cardinality({i \in OpenAt(l) : g[i] = k})
  <2> SUFFICES ASSUME NEW k \in K
               PROVE  chips[k] = Cardinality({i \in OpenAt(l) : g[i] = k})
    OBVIOUS
  <2>1. {i \in OpenAt(l) : g[i] = k} = {i \in OpenAt(l) : l[i].sev = k}
    OBVIOUS
  <2> QED
    BY <1>2, <2>1
<1>5. IsFiniteSet(T)
  BY <1>1, FS_Subset
<1> HIDE DEF chips, K, g
<1>6. Total(chips, K) = Cardinality(T)
  BY <1>1, <1>4, ClassesAddUp
<1>7. Cardinality(Blocking(l, FailOnRank(level))) <= Cardinality(T)
  BY <1>3, <1>5, FS_Subset
<1> QED
  BY <1>6, <1>7 DEF K, chips

\* The page explains the verdict: every finding that is due to fail the run has
\* its row, what a failed run fails over is in the chips, the rows add up.
THEOREM PageExplains == Spec => []PageShowsWhy
<1>1. TypeOK /\ StageInv => PageShowsWhy
  <2> SUFFICES ASSUME TypeOK, StageInv, NEW r \in Runs, printed[r].whole
               PROVE  LET page == Build(printed[r].list)
                          Due  == {i \in DOMAIN Evidence(r) : Actionable(r, i)}
                          Over == Gating(args[r], printed[r].list)
                      IN  /\ UniqueFps(Evidence(r)) => \A i \in Due :
                               LET group == page.rules[Evidence(r)[i].rule]
                               IN  /\ i \in DOMAIN group.findings
                                   /\ ~group.findings[i].suppressed
                                   /\ group.findings[i].confidence # "medium"
                          /\ verdict[r] = "blocked" =>
                               /\ Over # {}
                               /\ args[r].cmd # "check" =>
                                    Cardinality(Over)
                                      <= Total(page.severities,
                                               Reaches(args[r].failOn) \cap DOMAIN page.severities)
                          /\ page.open + page.suppressed =
                               Total([rule \in DOMAIN page.rules |-> page.rules[rule].count],
                                     DOMAIN page.rules)
    BY DEF PageShowsWhy
  <2> DEFINE e == Evidence(r)
             l == printed[r].list
  <2>1. StageOf(r)
    BY DEF StageInv
  <2>2. l = DueList(r) /\ out[r] = l
    BY <2>1 DEF StageOf, PrintedOf
  <2>3. IsList(e) /\ IsList(l) /\ DOMAIN l \subseteq DOMAIN e
    BY <2>1, <2>2, EvidenceIsList, DueListCovers DEF StageOf
  <2>4. IsFiniteSet(DOMAIN l)
    <3>1. Len(found[r]) \in Nat
      BY ScanIsList DEF TypeOK
    <3>2. \A i \in DOMAIN l : i \in Nat /\ i <= Len(found[r])
      BY <2>3, EvidenceIsList DEF IsList
    <3> HIDE DEF l
    <3>3. DOMAIN l \in SUBSET Nat
      BY <3>2
    <3> QED
      BY <3>1, <3>2, <3>3, FS_BoundedSetOfNaturals
  <2>5. ASSUME UniqueFps(e), NEW i \in DOMAIN e, Actionable(r, i)
        PROVE  LET group == Build(l).rules[e[i].rule]
               IN  /\ i \in DOMAIN group.findings
                   /\ ~group.findings[i].suppressed
                   /\ group.findings[i].confidence # "medium"
    <3>1. l = ReportOf(e, sup[r], known[r])
      BY <2>1, <2>2, <2>5, DueListCovers DEF StageOf
    <3>2. ~SuppressedBy(e[i], sup[r]) /\ Fp(e[i]) \notin known[r] /\ e[i].conf # "medium"
      BY <2>5 DEF Actionable
    <3>3. i \in Reported(e, sup[r], known[r])
      BY <3>2 DEF Reported
    <3> HIDE DEF l
    <3>4. i \in DOMAIN l /\ l[i] = e[i]
      BY <3>1, <3>2, <3>3 DEF ReportOf
    <3>5. e[i].status # "suppressed"
      BY EvidenceIsList DEF Scanned
    <3> HIDE DEF e
    <3>6. Build(l).rules[e[i].rule] = RuleGroup(l, e[i].rule)
      BY <3>4 DEF Build
    <3>7. /\ i \in DOMAIN RuleGroup(l, e[i].rule).findings
          /\ RuleGroup(l, e[i].rule).findings[i] = Row(l[i])
      BY <3>4 DEF RuleGroup
    <3>8. /\ Row(l[i]).suppressed = (l[i].status = "suppressed")
          /\ Row(l[i]).confidence = l[i].conf
      BY Zenon DEF Row
    <3>9. ~Row(l[i]).suppressed /\ Row(l[i]).confidence # "medium"
      BY <3>2, <3>4, <3>5, <3>8, Zenon
    <3> QED
      BY <3>6, <3>7, <3>9, Zenon
  <2>6. ASSUME verdict[r] = "blocked"
        PROVE  Gating(args[r], l) # {}
    BY <2>1, <2>2, <2>6 DEF StageOf, VerdictOf
  <2>7. ASSUME args[r].cmd # "check"
        PROVE  Gating(args[r], l) = Blocking(l, FailOnRank(args[r].failOn))
    BY <2>7 DEF Gating
  <2> HIDE DEF e, l
  <2>8. args[r].cmd # "check" =>
          Cardinality(Gating(args[r], l)) <= Total(Build(l).severities,
            Reaches(args[r].failOn) \cap DOMAIN Build(l).severities)
    BY <2>3, <2>4, <2>7, ChipsAddUp
  <2>9. Build(l).open + Build(l).suppressed =
          Total([rule \in DOMAIN Build(l).rules |-> Build(l).rules[rule].count],
                DOMAIN Build(l).rules)
    BY <2>4, RowsAddUp
  <2> QED
    BY <2>5, <2>6, <2>8, <2>9 DEF e, l
<1> QED
  BY <1>1, TypeCorrect, StagesCorrect, PTL

-----------------------------------------------------------------------------
(* What one run settles for the next, and the contract.                    *)

\* An open finding on the list that is due is one the comments and the known
\* fingerprints leave over.
LEMMA OpenIsFresh ==
  ASSUME TypeOK, NEW r \in Runs, CardinalityOf(r),
         NEW i \in DOMAIN DueList(r), DueList(r)[i].status # "suppressed"
  PROVE  \E p \in Fps(Kept(Evidence(r), sup[r])) : p \notin known[r]
<1> DEFINE e == Evidence(r)
<1>1. PICK j \in DOMAIN e : ~SuppressedBy(e[j], sup[r]) /\ Fp(e[j]) \notin known[r]
  BY DueListCovers
<1>2. IsList(e)
  BY EvidenceIsList
<1> HIDE DEF e
<1>3. j \in DOMAIN Kept(e, sup[r]) /\ Kept(e, sup[r])[j] = e[j]
  BY <1>1, <1>2, KeptIsList
<1>4. Fp(e[j]) \in Fps(Kept(e, sup[r]))
  BY <1>3 DEF Fps
<1> QED
  BY <1>1, <1>4 DEF e

\* A run that knows the record of another, and leaves nothing open that the
\* other did not, has nothing open to report and nothing to fail over
\* (cli/scan.go applyLifecycle; finding/baseline.go WriteBaseline).
THEOREM RecordedIsSettled == Spec => []Settled
<1>1. TypeOK /\ StageInv => Settled
  <2> SUFFICES ASSUME TypeOK, StageInv, NEW q \in Runs, NEW r \in Runs,
                      printed[r].whole, known[r] = Recorded(q),
                      Fps(Kept(Evidence(r), sup[r])) \subseteq Fps(Kept(found[q], sup[q]))
               PROVE  /\ \A i \in DOMAIN printed[r].list :
                           printed[r].list[i].status = "suppressed"
                      /\ verdict[r] # "blocked"
    BY DEF Settled
  <2>1. StageOf(r)
    BY DEF StageInv
  <2>2. printed[r].list = DueList(r) /\ out[r] = DueList(r)
    BY <2>1 DEF StageOf, PrintedOf
  <2>3. ASSUME NEW i \in DOMAIN DueList(r)
        PROVE  DueList(r)[i].status = "suppressed"
    BY <2>1, OpenIsFresh DEF StageOf, Recorded
  <2>4. verdict[r] # "blocked"
    <3> SUFFICES ASSUME verdict[r] = "blocked" PROVE FALSE
      OBVIOUS
    <3>1. PICK i : i \in Gating(args[r], out[r])
      BY <2>1 DEF StageOf, VerdictOf
    <3>2. args[r] \in Invocations /\ IsList(out[r])
      BY DEF TypeOK
    <3>3. i \in DOMAIN out[r] /\ out[r][i].status # "suppressed"
      BY <3>1, <3>2, GatingIsFails DEF Fails
    <3> QED
      BY <2>2, <2>3, <3>3
  <2> QED
    BY <2>2, <2>3, <2>4
<1> QED
  BY <1>1, TypeCorrect, StagesCorrect, PTL

-----------------------------------------------------------------------------
(* The words of the contract are those of the life cycle.                  *)

LEMMA SameReport ==
  ASSUME NEW e
  PROVE  Contract!Due(e) = ReportOf(e.found, e.sup, e.known)
BY DEF Contract!Due, Contract!ReportOf, Contract!Reported, Contract!SuppressedBy, Contract!Quieted,
   Contract!Fp, Contract!Fingerprint, ReportOf, Reported, SuppressedBy, Quieted, Fp, Fingerprint

LEMMA SameFp ==
  ASSUME NEW f
  PROVE  Contract!Fp(f) = Fp(f)
BY DEF Contract!Fp, Contract!Fingerprint, Fp, Fingerprint

LEMMA SameUnique ==
  ASSUME NEW l
  PROVE  Contract!UniqueFps(l) <=> UniqueFps(l)
BY SameFp DEF Contract!UniqueFps, UniqueFps

LEMMA SameGating ==
  ASSUME NEW a, NEW l
  PROVE  Contract!Gating(a, l) = Gating(a, l)
<1>1. Contract!FailOnRank(a.failOn) = FailOnRank(a.failOn)
  BY DEF Contract!FailOnRank, FailOnRank
<1>2. \A s : Contract!SeverityRank(s) = SeverityRank(s)
  BY DEF Contract!SeverityRank, SeverityRank
<1>3. \A t : Contract!Blocking(l, t) = Blocking(l, t)
  BY <1>2 DEF Contract!Blocking, Blocking
<1>4. \A c : Contract!RulesOfClass(c) = RulesOfClass(c)
  BY DEF Contract!RulesOfClass, RulesOfClass
<1>5. Contract!BlockedRules(a.policy) = BlockedRules(a.policy)
  BY <1>4 DEF Contract!BlockedRules, BlockedRules, Contract!Trim, Trim
<1>6. \A b : Contract!PolicyBlocking(l, b) = PolicyBlocking(l, b)
  BY DEF Contract!PolicyBlocking, PolicyBlocking
<1> QED
  BY <1>1, <1>3, <1>5, <1>6 DEF Contract!Gating, Gating

\* What invocation r has gathered, as the contract sees it.
Held(r) == [found |-> Evidence(r), sup |-> sup[r], known |-> known[r]]

\* The list that is due answers for what an invocation holds.
LEMMA DueListAnswers ==
  ASSUME TypeOK, NEW r \in Runs, CardinalityOf(r)
  PROVE  Contract!Answers(DueList(r), Held(r))
<1> DEFINE e == Evidence(r)
           l == DueList(r)
<1>1. /\ Reported(e, sup[r], known[r]) \subseteq DOMAIN l
      /\ \A i \in DOMAIN l : Fp(l[i]) = Fp(e[i])
      /\ UniqueFps(e) => l = ReportOf(e, sup[r], known[r])
  BY DueListCovers
<1>2. Held(r).found = e /\ Held(r).sup = sup[r] /\ Held(r).known = known[r]
  BY DEF Held
<1>3. DOMAIN ReportOf(e, sup[r], known[r]) = Reported(e, sup[r], known[r])
  BY DEF ReportOf
<1> HIDE DEF e, l
<1>4. Contract!Due(Held(r)) = ReportOf(e, sup[r], known[r])
  BY <1>2, SameReport
<1>5. \A i \in DOMAIN ReportOf(e, sup[r], known[r]) :
         i \in DOMAIN l /\ Contract!Fp(l[i]) = Contract!Fp(e[i])
  BY <1>1, <1>3, SameFp
<1>6. Contract!UniqueFps(e) => l = ReportOf(e, sup[r], known[r])
  BY <1>1, SameUnique
<1> QED
  BY <1>2, <1>4, <1>5, <1>6 DEF Contract!Answers, l

\* A part of it up to some position breaks off in the report that is due.
LEMMA BeforeBreaksOff ==
  ASSUME TypeOK, NEW r \in Runs, CardinalityOf(r), NEW k \in Nat
  PROVE  Contract!BreaksOff(Before(DueList(r), k), Held(r))
<1> DEFINE e == Evidence(r)
           l == DueList(r)
           b == Before(l, k)
<1>1. UniqueFps(e) => l = ReportOf(e, sup[r], known[r])
  BY DueListCovers
<1>2. Held(r).found = e /\ Held(r).sup = sup[r] /\ Held(r).known = known[r]
  BY DEF Held
<1>3. DOMAIN l \subseteq Nat
  BY DueListCovers DEF IsList
<1> HIDE DEF e, l
<1>4. SUFFICES ASSUME Contract!UniqueFps(e)
               PROVE  /\ DOMAIN b \subseteq DOMAIN l
                      /\ \A i \in DOMAIN b, j \in DOMAIN l : j < i => j \in DOMAIN b
                      /\ b = Contract!Sub(l, DOMAIN b)
  <2>1. ASSUME Contract!UniqueFps(e)
        PROVE  Contract!Due(Held(r)) = l
    BY <1>1, <1>2, <2>1, SameReport, SameUnique, DueListCovers DEF e, l
  <2> QED
    BY <1>2, <2>1 DEF Contract!BreaksOff, l
<1>5. DOMAIN b = {i \in DOMAIN l : i < k} /\ b = [i \in DOMAIN b |-> l[i]]
  BY DEF Before, Sub
<1> QED
  BY <1>3, <1>5 DEF Contract!Sub

-----------------------------------------------------------------------------
(* What a step of an invocation is to the contract.                        *)

\* It gathers, or it does what the contract does not see, and prints nothing.
Gathers(r) == /\ Contract!Open(r)
              /\ ~printed[r].whole
              /\ UNCHANGED <<args, printed, verdict>>

Silent(r) == /\ Held(r)' = Held(r)
             /\ UNCHANGED <<args, printed, verdict>>

\* It publishes the list that is due and breaks off in one, or concludes.
Publishes(r) == /\ Contract!Open(r)
                /\ ~printed[r].whole
                /\ printed' = [printed EXCEPT ![r] = [whole |-> TRUE, list |-> DueList(r)]]
                /\ Held(r)' = Held(r)
                /\ UNCHANGED <<args, verdict>>

Concludes(r) == /\ Contract!Open(r)
                /\ printed[r].whole
                /\ verdict' = [verdict EXCEPT ![r] =
                     IF Gating(args[r], printed[r].list) = {} THEN "clean" ELSE "blocked"]
                /\ Held(r)' = Held(r)
                /\ UNCHANGED <<args, printed>>

Refuses(r) == /\ Contract!Open(r)
              /\ verdict' = [verdict EXCEPT ![r] = "error"]
              /\ \/ UNCHANGED printed
                 \/ /\ ~printed[r].whole
                    /\ \E k \in Nat : printed' = [printed EXCEPT ![r] =
                         [whole |-> FALSE, list |-> Before(DueList(r), k)]]
              /\ Held(r)' = Held(r)
              /\ UNCHANGED args

Does(r) == Gathers(r) \/ Silent(r) \/ Publishes(r) \/ Concludes(r) \/ Refuses(r)

LEMMA StepDoes ==
  ASSUME TypeOK, NEW r \in Runs, StageOf(r), Step(r) \/ Kill(r)
  PROVE  Does(r)
<1> USE DEF GoTo, At, local
<1>1. ASSUME UNCHANGED <<args, found, sup, known>>
      PROVE  Held(r)' = Held(r)
  BY <1>1 DEF Held, Evidence
<1>2. pc[r] # "done" => Contract!Open(r)
  BY DEF StageOf, VerdictOf, Contract!Open
<1>3. ASSUME UNCHANGED <<args, found, sup, known, printed, verdict>>
      PROVE  Does(r)
  BY <1>1, <1>3 DEF Does, Silent
<1>4. ASSUME Fail(r), pc[r] # "done"
      PROVE  Does(r)
  BY <1>1, <1>2, <1>4 DEF Does, Refuses, Fail, Return
<1>5. pc[r] \notin {"failOn", "gate", "done", "killed"} => ~printed[r].whole
  BY DEF StageOf, PrintedOf
<1>6. CASE LoadPolicy(r)
  BY <1>3, <1>4, <1>6 DEF LoadPolicy
<1>7. CASE NormalizeEngine(r)
  BY <1>3, <1>4, <1>7 DEF NormalizeEngine
<1>8. CASE MakeTemp(r)
  BY <1>3, <1>4, <1>8 DEF MakeTemp
<1>9. CASE Materialize(r)
  BY <1>3, <1>4, <1>9 DEF Materialize
<1>10. CASE CheckFailOn(r)
  BY <1>3, <1>4, <1>10 DEF CheckFailOn
<1>11. CASE ScanPattern(r)
  BY <1>2, <1>4, <1>5, <1>11 DEF ScanPattern, Does, Gathers
<1>12. CASE ScanGo(r)
  BY <1>2, <1>4, <1>5, <1>12 DEF ScanGo, Does, Gathers
<1>13. CASE LoadSuppressions(r)
  BY <1>2, <1>5, <1>13 DEF LoadSuppressions, Does, Gathers
<1>14. CASE LoadBaseline(r)
  BY <1>2, <1>3, <1>4, <1>5, <1>14 DEF LoadBaseline, Does, Gathers
<1>15. CASE OpenBaseline(r)
  BY <1>3, <1>4, <1>15 DEF OpenBaseline
<1>16. CASE WriteBaseline(r)
  BY <1>1, <1>2, <1>3, <1>16 DEF WriteBaseline, Does, Refuses
<1>17. CASE Merge(r)
  BY <1>3, <1>17 DEF Merge
<1>18. CASE KeepFindings(r)
  BY <1>3, <1>18 DEF KeepFindings
<1>19. CASE Render(r)
  <2>1. out[r] = DueList(r)
    BY <1>19 DEF Render, StageOf, PrintedOf
  <2>2. 1..(Len(found[r]) + 1) \subseteq Nat
    BY DEF TypeOK
  <2>3. Contract!Open(r) /\ ~printed[r].whole
    BY <1>2, <1>5, <1>19 DEF Render
  <2> QED
    BY <1>1, <1>19, <2>1, <2>2, <2>3 DEF Render, Does, Publishes, Refuses
<1>20. CASE Gate(r)
  <2>1. Contract!Open(r) /\ printed[r].whole /\ out[r] = printed[r].list
    BY <1>2, <1>20 DEF Gate, StageOf, PrintedOf
  <2> QED
    BY <1>1, <1>20, <2>1 DEF Gate, Return, Does, Concludes
<1>21. CASE Kill(r)
  BY <1>3, <1>21 DEF Kill
<1> QED
  BY <1>6, <1>7, <1>8, <1>9, <1>10, <1>11, <1>12, <1>13, <1>14, <1>15, <1>16, <1>17, <1>18,
     <1>19, <1>20, <1>21 DEF Step

\* The evidence of the contract.
Gathered == [q \in Runs |-> [found |-> Evidence(q), sup |-> sup[q], known |-> known[q]]]

LEMMA GatheredIsHeld ==
  ASSUME NEW q \in Runs
  PROVE  /\ Gathered[q] = Held(q)
         /\ Gathered'[q] = Held(q)'
BY DEF Gathered, Held

\* Each of these is a step of the contract, or none.
LEMMA DoesMaps ==
  ASSUME TypeOK, NEW r \in Runs, StageOf(r), Does(r),
         \A q \in Runs \ {r} : Held(q)' = Held(q)
  PROVE  [Contract!Next]_(Contract!cvars)
<1>1. Contract!Others(r, Gathered, Gathered')
  BY GatheredIsHeld DEF Contract!Others
<1>2. ASSUME Held(r)' = Held(r)
      PROVE  Gathered' = Gathered
  BY <1>2 DEF Gathered, Held
<1>3. CardinalityOf(r)
  BY DEF StageOf
<1>4. CASE Gathers(r)
  <2>1. Contract!Gather(r)
    BY <1>1, <1>4 DEF Gathers, Contract!Gather, Gathered
  <2> QED
    BY <2>1 DEF Contract!Next
<1>5. CASE Silent(r)
  BY <1>2, <1>5 DEF Silent, Contract!cvars, Gathered
<1>6. CASE Publishes(r)
  <2>1. printed'[r] = [whole |-> TRUE, list |-> DueList(r)]
    BY <1>6 DEF Publishes, TypeOK
  <2>2. Contract!Answers(printed'[r].list, Gathered[r])
    BY <1>3, <2>1, DueListAnswers, GatheredIsHeld
  <2>3. Contract!Others(r, printed, printed')
    BY <1>6 DEF Publishes, TypeOK, Contract!Others
  <2>4. Contract!Publish(r)
    BY <1>2, <1>6, <2>1, <2>2, <2>3 DEF Publishes, Contract!Publish, Gathered
  <2> QED
    BY <2>4 DEF Contract!Next
<1>7. CASE Concludes(r)
  <2>1. Contract!Conclude(r)
    BY <1>2, <1>7, SameGating DEF Concludes, Contract!Conclude, Gathered
  <2> QED
    BY <2>1 DEF Contract!Next
<1>8. CASE Refuses(r)
  <2>1. CASE UNCHANGED printed
    BY <1>2, <1>8, <2>1 DEF Refuses, Contract!Refuse, Contract!Next, Gathered
  <2>2. CASE printed' # printed
    <3>1. PICK k \in Nat : printed' = [printed EXCEPT ![r] =
                             [whole |-> FALSE, list |-> Before(DueList(r), k)]]
      BY <1>8, <2>2 DEF Refuses
    <3>2. printed'[r] = [whole |-> FALSE, list |-> Before(DueList(r), k)]
      BY <3>1 DEF TypeOK
    <3>3. Contract!BreaksOff(printed'[r].list, Gathered[r])
      BY <1>3, <3>2, BeforeBreaksOff, GatheredIsHeld
    <3>4. Contract!Others(r, printed, printed')
      BY <3>1 DEF TypeOK, Contract!Others
    <3>5. Contract!Refuse(r)
      BY <1>2, <1>8, <2>2, <3>2, <3>3, <3>4 DEF Refuses, Contract!Refuse, Gathered
    <3> QED
      BY <3>5 DEF Contract!Next
  <2> QED
    BY <2>1, <2>2
<1> QED
  BY <1>4, <1>5, <1>6, <1>7, <1>8 DEF Does

\* An invocation gives one answer: exact for the evidence it had, the verdict
\* last and drawn from the printed report, or a refusal (ScanContract).
THEOREM LifecycleKeepsContract == Spec => KeepsContract
<1>1. Init => Contract!Init
  <2> SUFFICES ASSUME Init PROVE Contract!Init
    OBVIOUS
  <2>1. KeepCardinality(<<>>) = <<>>
    BY DEF KeepCardinality, Sub
  <2>2. \A q \in Runs : Held(q) = Contract!Blank
    BY <2>1 DEF Init, Held, Evidence, Contract!Blank
  <2> QED
    BY <2>2 DEF Init, Nothing, Contract!Init, Held
<1>2. TypeOK /\ StageInv /\ [Next]_vars => [Contract!Next]_(Contract!cvars)
  <2> SUFFICES ASSUME TypeOK, StageInv, [Next]_vars
               PROVE  [Contract!Next]_(Contract!cvars)
    OBVIOUS
  <2>1. ASSUME NEW q \in Runs, Frozen(q)
        PROVE  Held(q)' = Held(q)
    BY <2>1 DEF Frozen, Held, Evidence
  <2>2. ASSUME NEW r \in Runs, Step(r) \/ Kill(r)
        PROVE  [Contract!Next]_(Contract!cvars)
    <3>1. \A q \in Runs \ {r} : Held(q)' = Held(q)
      BY <2>1, <2>2, OthersFrozen
    <3>2. StageOf(r)
      BY DEF StageInv
    <3> QED
      BY <2>2, <3>1, <3>2, StepDoes, DoesMaps
  <2>3. CASE Edit \/ UNCHANGED vars
    <3>1. \A q \in Runs : Held(q)' = Held(q)
      BY <2>1, <2>3, EditFrozen
    <3>2. UNCHANGED <<args, printed, verdict>>
      BY <2>3 DEF Edit, vars, local
    <3> QED
      BY <3>1, <3>2 DEF Contract!cvars, Held
  <2> QED
    BY <2>2, <2>3 DEF Next, AllEnded
<1> QED
  BY <1>1, <1>2, TypeCorrect, StagesCorrect, PTL DEF Spec, KeepsContract, Contract!Spec
=============================================================================
