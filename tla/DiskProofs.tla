----------------------------- MODULE DiskProofs -----------------------------
(***************************************************************************)
(* What invocations leave on the disk: their directories of rules and      *)
(* their baseline files.  For any number of invocations, any command       *)
(* lines, trees, baseline files and edits, and a kill at any moment.       *)
(***************************************************************************)
EXTENDS ScanLifecycleProofs

\* An invocation that needs the embedded rules has them from the moment it
\* makes the directory until it ends.
TempOf(r) ==
  /\ pc[r] \notin {"policy", "engine", "rules", "done", "killed"} /\ NeedsRules(args[r]) => temp[r]
  /\ pc[r] = "done" => ~temp[r]

TempInv == \A r \in Runs : TempOf(r)

LEMMA OwnTemp ==
  ASSUME TypeOK, NEW r \in Runs, TempOf(r), Step(r) \/ Kill(r)
  PROVE  TempOf(r)'
<1> USE DEF TypeOK, GoTo, At, local, TempOf, NeedsRules
<1>1. ASSUME NEW v, Return(r, v)
      PROVE  TempOf(r)'
  BY <1>1 DEF Return
<1>2. CASE LoadPolicy(r)
  BY <1>1, <1>2 DEF LoadPolicy, Fail
<1>3. CASE NormalizeEngine(r)
  BY <1>1, <1>3 DEF NormalizeEngine, Fail
<1>4. CASE MakeTemp(r)
  BY <1>1, <1>4 DEF MakeTemp, Fail, AfterRules
<1>5. CASE Materialize(r)
  BY <1>1, <1>5 DEF Materialize, Fail, AfterRules
<1>6. CASE CheckFailOn(r)
  BY <1>1, <1>6 DEF CheckFailOn, Fail, AfterFailOn
<1>7. CASE ScanPattern(r)
  BY <1>1, <1>7 DEF ScanPattern, Fail
<1>8. CASE ScanGo(r)
  BY <1>1, <1>8 DEF ScanGo, Fail
<1>9. CASE LoadSuppressions(r)
  BY <1>9 DEF LoadSuppressions
<1>10. CASE LoadBaseline(r)
  BY <1>1, <1>10 DEF LoadBaseline, Fail
<1>11. CASE OpenBaseline(r)
  BY <1>1, <1>11 DEF OpenBaseline, Fail
<1>12. CASE WriteBaseline(r)
  BY <1>12 DEF WriteBaseline
<1>13. CASE Merge(r)
  BY <1>13 DEF Merge
<1>14. CASE KeepFindings(r)
  BY <1>14 DEF KeepFindings
<1>15. CASE Render(r)
  BY <1>15 DEF Render, AfterRender
<1>16. CASE Gate(r)
  BY <1>1, <1>16 DEF Gate
<1>17. CASE Kill(r)
  BY <1>17 DEF Kill
<1> QED
  BY <1>2, <1>3, <1>4, <1>5, <1>6, <1>7, <1>8, <1>9, <1>10, <1>11, <1>12, <1>13, <1>14,
     <1>15, <1>16, <1>17 DEF Step

\* The directory of rules is there while the pattern tier needs it and gone
\* when the invocation returns.
THEOREM TempDirsKept == Spec => []TempDirs
<1>1. Init => TempInv
  BY ArgsType DEF Init, TempInv, TempOf, FirstStage, Commands
<1>2. TypeOK /\ TempInv /\ [Next]_vars => TempInv'
  <2> SUFFICES ASSUME TypeOK, TempInv, [Next]_vars, NEW q \in Runs
               PROVE  TempOf(q)'
    BY DEF TempInv
  <2>1. TempOf(q)
    BY DEF TempInv
  <2>2. ASSUME Frozen(q)
        PROVE  TempOf(q)'
    BY <2>1, <2>2 DEF TempOf, NeedsRules, Frozen
  <2>3. ASSUME NEW r \in Runs, Step(r) \/ Kill(r)
        PROVE  TempOf(q)'
    BY <2>1, <2>2, <2>3, OwnTemp, OthersFrozen
  <2>4. CASE Edit \/ UNCHANGED vars
    BY <2>2, <2>4, EditFrozen
  <2> QED
    BY <2>3, <2>4 DEF Next, AllEnded
<1>3. TempInv => TempDirs
  BY DEF TempInv, TempOf, TempDirs
<1> QED
  BY <1>1, <1>2, <1>3, TypeCorrect, PTL DEF Spec

-----------------------------------------------------------------------------
\* The cells of a file after a write were in the file or in the record.
LEMMA NothingAdded ==
  ASSUME NEW f \in Content, NEW s \in SUBSET FpSet, IsFiniteSet(s), NEW rec \in Records(s),
         NEW g \in Overwritten(f, rec) \cup Scribbled(f, rec)
  PROVE  Fingerprints(g) \subseteq Fingerprints(f) \cup s
<1> DEFINE n == Len(rec)
<1>1. /\ rec \in Content /\ n \in DOMAIN rec /\ n \in Nat /\ DOMAIN rec = 1..n
      /\ rec[n] = End /\ Fingerprints(rec) = s
  BY RecordShape
<1>2. Len(f) \in Nat /\ DOMAIN f = 1..Len(f)
  BY DEF Content
<1>3. \A i \in DOMAIN f : f[i].fps \subseteq Fingerprints(f)
  BY DEF Fingerprints
<1>4. \A i \in DOMAIN rec : rec[i].fps \subseteq s
  BY <1>1 DEF Fingerprints
<1>5. ASSUME NEW j \in DOMAIN rec, NEW c \in Cell, c.fps \subseteq Fingerprints(f) \cup s
      PROVE  Fingerprints(Laid(rec, j, c, f)) \subseteq Fingerprints(f) \cup s
  <2> DEFINE h == Laid(rec, j, c, f)
  <2>1. \A i \in DOMAIN h : h[i].fps \subseteq Fingerprints(f) \cup s
    <3> TAKE i \in DOMAIN h
    <3>1. i \in 1..(IF Len(f) > j THEN Len(f) ELSE j) /\ j \in 1..n
      BY <1>1 DEF Laid
    <3>2. CASE i < j
      BY <1>1, <1>2, <1>4, <3>1, <3>2 DEF Laid
    <3>3. CASE i = j
      BY <1>5, <3>1, <3>3 DEF Laid
    <3>4. CASE i > j
      BY <1>1, <1>2, <1>3, <3>1, <3>4 DEF Laid
    <3> QED
      BY <1>1, <1>2, <3>1, <3>2, <3>3, <3>4
  <2> QED
    BY <2>1 DEF Fingerprints
<1>6. ASSUME NEW j \in DOMAIN rec, NEW c \in Boundary(rec, f, j)
      PROVE  c.fps \subseteq Fingerprints(f) \cup s
  <2>1. CASE j > Len(f)
    BY <1>4, <1>6, <2>1 DEF Boundary, Damaged
  <2>2. CASE ~(j > Len(f))
    <3>1. j \in DOMAIN f /\ f[j].fps \subseteq Fingerprints(f)
      BY <1>1, <1>2, <1>3, <2>2
    <3>2. c \in EndOver(f[j]) \cup LineOver(rec[j], f[j])
      BY <1>6, <2>2 DEF Boundary
    <3> QED
      BY <1>4, <3>1, <3>2 DEF EndOver, LineOver, Damaged, End
  <2> QED
    BY <2>1, <2>2
<1>7. CASE g \in Overwritten(f, rec)
  <2>1. CASE n > Len(f)
    BY <1>1, <1>7, <2>1 DEF Overwritten
  <2>2. CASE ~(n > Len(f))
    <3>1. PICK c \in EndOver(f[n]) : g = Laid(rec, n, c, f)
      BY <1>7, <2>2 DEF Overwritten
    <3>2. c \in Boundary(rec, f, n)
      BY <1>1, <2>2 DEF Boundary, End
    <3> QED
      BY <1>1, <1>5, <1>6, <3>1, <3>2, BoundaryType
  <2> QED
    BY <2>1, <2>2
<1>8. CASE g \in Scribbled(f, rec)
  <2>1. \/ g = f
        \/ \E j \in DOMAIN rec : \E c \in Boundary(rec, f, j) : g = Laid(rec, j, c, f)
    BY <1>8 DEF Scribbled
  <2> QED
    BY <1>1, <1>5, <1>6, <2>1, BoundaryType
<1> QED
  BY <1>7, <1>8

\* What decodes after a whole write is the record that was written.
LEMMA WholeWrite ==
  ASSUME NEW f \in Content, NEW s \in SUBSET FpSet, IsFiniteSet(s), NEW rec \in Records(s),
         NEW g \in Overwritten(f, rec), Decodes(g)
  PROVE  Fingerprints(g) = s
<1> DEFINE n == Len(rec)
<1>1. /\ rec \in Content /\ n \in DOMAIN rec /\ n \in Nat \ {0} /\ DOMAIN rec = 1..n
      /\ rec[n] = End /\ Fingerprints(rec) = s
  BY RecordShape
<1>2. CASE n > Len(f)
  BY <1>1, <1>2 DEF Overwritten
<1>3. CASE ~(n > Len(f))
  <2>1. PICK c \in EndOver(f[n]) : g = Laid(rec, n, c, f)
    BY <1>3 DEF Overwritten
  <2>2. n \in DOMAIN f /\ Len(f) \in Nat /\ c \in Cell /\ f[n] \in Cell
    BY <1>1, <1>3, <2>1, BoundaryType DEF Content
  <2>3. DOMAIN g = 1..Len(g) /\ Len(g) = IF Len(f) > n THEN Len(f) ELSE n
    BY <1>1, <2>1, <2>2, LaidType
  <2>4. n \in DOMAIN g /\ g[n] = c
    <3>1. n \in 1..(IF Len(f) > n THEN Len(f) ELSE n)
      BY <1>1, <2>2
    <3> HIDE DEF n
    <3> QED
      BY <1>1, <2>1, <3>1 DEF Laid
  <2>5. c.kind # "line"
    BY <2>1, <2>2 DEF EndOver, Damaged, End, Cell
  <2>6. n = Len(g) /\ c.kind = "end"
    BY <2>4, <2>5 DEF Decodes
  <2>7. c = End
    BY <2>1, <2>2, <2>6 DEF EndOver, Damaged, End, Cell
  <2>8. DOMAIN g = DOMAIN rec /\ \A i \in DOMAIN rec : g[i].fps = rec[i].fps
    <3>1. DOMAIN g = DOMAIN rec
      BY <1>1, <2>3, <2>6
    <3>2. \A i \in DOMAIN rec : g[i] = rec[i]
      <4> TAKE i \in DOMAIN rec
      <4>1. i \in 1..(IF Len(f) > n THEN Len(f) ELSE n) /\ i \in 1..n
        BY <1>1, <2>2
      <4> HIDE DEF n
      <4> QED
        BY <1>1, <2>1, <2>7, <4>1 DEF Laid
    <3> QED
      BY <3>1, <3>2
  <2> QED
    BY <1>1, <2>8 DEF Fingerprints
<1> QED
  BY <1>2, <1>3

\* What decodes after a write into an empty file broke off is the record.
LEMMA WritePrefix ==
  ASSUME NEW s \in SUBSET FpSet, IsFiniteSet(s), NEW rec \in Records(s),
         NEW g \in Scribbled(Empty, rec), Decodes(g)
  PROVE  Fingerprints(g) = s
<1> DEFINE n == Len(rec)
<1>1. /\ rec \in Content /\ n \in DOMAIN rec /\ n \in Nat \ {0} /\ DOMAIN rec = 1..n
      /\ rec[n] = End /\ Fingerprints(rec) = s
      /\ \A i \in DOMAIN rec : i # n => rec[i].kind = "line"
  BY RecordShape
<1>2. Empty \in Content /\ Len(Empty) = 0
  BY DEF Empty, Content
<1>10. PICK j \in DOMAIN rec : \E c \in Boundary(rec, Empty, j) : g = Laid(rec, j, c, Empty)
  BY DEF Decodes, Scribbled
<1>3. PICK c \in Boundary(rec, Empty, j) : g = Laid(rec, j, c, Empty)
  BY <1>10
<1>4. c \in {rec[j], Damaged({})} /\ c \in Cell
  BY <1>1, <1>2, <1>3, BoundaryType DEF Boundary
<1>5. DOMAIN g = 1..j /\ Len(g) = j
  BY <1>1, <1>2, <1>3, <1>4, LaidType
<1>6. g[j] = c
  BY <1>1, <1>2, <1>3, <1>5 DEF Laid
<1>7. c.kind = "end"
  BY <1>1, <1>5, <1>6 DEF Decodes
<1>8. j = n /\ c = End
  BY <1>1, <1>4, <1>7 DEF Damaged
<1>9. \A i \in DOMAIN rec : g[i] = rec[i]
  BY <1>1, <1>2, <1>3, <1>5, <1>8 DEF Laid
<1> QED
  BY <1>1, <1>5, <1>8, <1>9 DEF Fingerprints

-----------------------------------------------------------------------------
\* Once it has put something into its baseline, an invocation scans no more
\* and reads no more comments: what it recorded stays what its findings say.
HistoryOf(r) ==
  wrote[r] # "no" => /\ args[r].cmd # "check-cardinality"
                     /\ pc[r] \in {"merge", "render", "gate", "done", "killed"}

HistoryInv == \A r \in Runs : HistoryOf(r)

\* What an invocation wrote, and that it wrote, never changes again.
Settles(r) == wrote[r] # "no" => wrote'[r] = wrote[r] /\ Recorded(r)' = Recorded(r)

LEMMA OwnHistory ==
  ASSUME TypeOK, NEW r \in Runs, StageOf(r), HistoryOf(r), Step(r) \/ Kill(r)
  PROVE  /\ HistoryOf(r)'
         /\ Settles(r)
<1> USE DEF TypeOK, GoTo, At, local, HistoryOf, Recorded, Settles
<1>1. ASSUME NEW v, Return(r, v)
      PROVE  /\ HistoryOf(r)'
             /\ Settles(r)
  BY <1>1 DEF Return
<1>2. CASE LoadPolicy(r)
  BY <1>1, <1>2 DEF LoadPolicy, Fail
<1>3. CASE NormalizeEngine(r)
  BY <1>1, <1>3 DEF NormalizeEngine, Fail
<1>4. CASE MakeTemp(r)
  BY <1>1, <1>4 DEF MakeTemp, Fail
<1>5. CASE Materialize(r)
  BY <1>1, <1>5 DEF Materialize, Fail
<1>6. CASE CheckFailOn(r)
  BY <1>1, <1>6 DEF CheckFailOn, Fail
<1>7. CASE ScanPattern(r)
  BY <1>1, <1>7 DEF ScanPattern, Fail
<1>8. CASE ScanGo(r)
  BY <1>1, <1>8 DEF ScanGo, Fail
<1>9. CASE LoadSuppressions(r)
  BY <1>9 DEF LoadSuppressions
<1>10. CASE LoadBaseline(r)
  BY <1>1, <1>10 DEF LoadBaseline, Fail
<1>11. CASE OpenBaseline(r)
  BY <1>1, <1>11 DEF OpenBaseline, Fail
<1>12. CASE WriteBaseline(r)
  BY <1>12 DEF WriteBaseline, Scribble, StageOf, CardinalityOf, CardinalityStages
<1>13. CASE Merge(r)
  BY <1>13 DEF Merge
<1>14. CASE KeepFindings(r)
  BY <1>14 DEF KeepFindings
<1>15. CASE Render(r)
  BY <1>15 DEF Render, AfterRender
<1>16. CASE Gate(r)
  BY <1>1, <1>16 DEF Gate
<1>17. CASE Kill(r)
  BY <1>17 DEF Kill, Scribble, StageOf, CardinalityOf, CardinalityStages
<1> QED
  BY <1>2, <1>3, <1>4, <1>5, <1>6, <1>7, <1>8, <1>9, <1>10, <1>11, <1>12, <1>13, <1>14,
     <1>15, <1>16, <1>17 DEF Step

\* Command lines and the adopted files never change.
LEMMA Constants ==
  ASSUME [Next]_vars
  PROVE  args' = args /\ adopted' = adopted
BY DEF Next, Step, AllEnded, vars, local, shared, Edit, Kill, LoadPolicy, NormalizeEngine,
   MakeTemp, Materialize, CheckFailOn, ScanPattern, ScanGo, LoadSuppressions, LoadBaseline,
   OpenBaseline, WriteBaseline, Merge, KeepFindings, Render, Gate, Fail, Return

\* A record that was written stays what it was.
LEMMA RecordStays ==
  ASSUME TypeOK, StageInv, HistoryInv, [Next]_vars, NEW q \in Runs
  PROVE  /\ HistoryOf(q)'
         /\ Settles(q)
<1>1. HistoryOf(q) /\ StageOf(q)
  BY DEF HistoryInv, StageInv
<1>2. ASSUME Frozen(q)
      PROVE  /\ HistoryOf(q)'
             /\ Settles(q)
  BY <1>1, <1>2 DEF HistoryOf, Recorded, Settles, Frozen
<1>3. ASSUME NEW r \in Runs, Step(r) \/ Kill(r)
      PROVE  /\ HistoryOf(q)'
             /\ Settles(q)
  BY <1>1, <1>2, <1>3, OwnHistory, OthersFrozen
<1>4. CASE Edit \/ UNCHANGED vars
  BY <1>2, <1>4, EditFrozen
<1> QED
  BY <1>3, <1>4 DEF Next, AllEnded

THEOREM HistoryCorrect == Spec => []HistoryInv
<1>1. Init => HistoryInv
  BY DEF Init, HistoryInv, HistoryOf
<1>2. TypeOK /\ StageInv /\ HistoryInv /\ [Next]_vars => HistoryInv'
  BY RecordStays DEF HistoryInv
<1> QED
  BY <1>1, <1>2, TypeCorrect, StagesCorrect, PTL DEF Spec

\* Invocation r lays its record, or some of it, over the file at p.
Lays(r, p) ==
  /\ args[r].baselineWrite = p
  /\ Recorded(r)' = Recorded(r)
  /\ \E rec \in Records(Recorded(r)) :
       \/ /\ disk'[p] \in Overwritten(disk[p], rec)
          /\ wrote'[r] = "all"
       \/ /\ disk'[p] \in Scribbled(disk[p], rec)
          /\ wrote'[r] = IF disk[p] = Empty THEN "part" ELSE "over"

\* A step leaves a baseline file alone, empties it or lays a record over it.
LEMMA FileMoves ==
  ASSUME TypeOK, [Next]_vars, NEW p \in Path
  PROVE  disk'[p] \in {disk[p], Empty} \/ \E r \in Runs : Lays(r, p)
<1> DEFINE Goal == disk'[p] \in {disk[p], Empty} \/ \E r \in Runs : Lays(r, p)
<1>1. ASSUME disk' = disk
      PROVE  Goal
  BY <1>1
<1>2. ASSUME NEW r \in Runs, Scribble(r), UNCHANGED local
      PROVE  Goal
  <2> DEFINE w == args[r].baselineWrite
  <2>1. PICK rec \in Records(Recorded(r)) : \E f \in Scribbled(disk[w], rec) :
          /\ disk' = [disk EXCEPT ![w] = f]
          /\ wrote' = [wrote EXCEPT ![r] = IF f = disk[w]         THEN "no"
                                           ELSE IF disk[w] = Empty THEN "part"
                                           ELSE "over"]
    BY <1>2 DEF Scribble
  <2>2. PICK f \in Scribbled(disk[w], rec) :
          /\ disk' = [disk EXCEPT ![w] = f]
          /\ wrote' = [wrote EXCEPT ![r] = IF f = disk[w]         THEN "no"
                                           ELSE IF disk[w] = Empty THEN "part"
                                           ELSE "over"]
    BY <2>1
  <2>3. CASE w # p \/ f = disk[p]
    BY <2>2, <2>3 DEF TypeOK
  <2>4. CASE w = p /\ f # disk[p]
    <3>1. disk'[p] = f
      BY <2>2, <2>4 DEF TypeOK
    <3>2. wrote'[r] = IF disk[p] = Empty THEN "part" ELSE "over"
      BY <2>2, <2>4 DEF TypeOK
    <3>3. Recorded(r)' = Recorded(r)
      BY <1>2 DEF Recorded, local
    <3> QED
      BY <2>2, <2>4, <3>1, <3>2, <3>3 DEF Lays
  <2> QED
    BY <2>3, <2>4
<1>3. ASSUME NEW r \in Runs, OpenBaseline(r)
      PROVE  Goal
  BY <1>3 DEF OpenBaseline, Fail, Return, shared, TypeOK
<1>4. ASSUME NEW r \in Runs, WriteBaseline(r)
      PROVE  Goal
  <2> DEFINE w == args[r].baselineWrite
  <2>1. CASE /\ \E rec \in Records(Recorded(r)) : \E f \in Overwritten(disk[w], rec) :
                  disk' = [disk EXCEPT ![w] = f]
             /\ wrote' = [wrote EXCEPT ![r] = "all"]
             /\ UNCHANGED local
    <3>1. PICK rec \in Records(Recorded(r)) : \E f \in Overwritten(disk[w], rec) :
            disk' = [disk EXCEPT ![w] = f]
      BY <2>1
    <3>2. PICK f \in Overwritten(disk[w], rec) : disk' = [disk EXCEPT ![w] = f]
      BY <3>1
    <3>3. CASE w = p
      <4>1. disk'[p] = f /\ wrote'[r] = "all"
        BY <2>1, <3>2, <3>3 DEF TypeOK
      <4>2. Recorded(r)' = Recorded(r)
        BY <2>1 DEF Recorded, local
      <4> QED
        BY <3>2, <3>3, <4>1, <4>2 DEF Lays
    <3>4. CASE w # p
      BY <3>2, <3>4 DEF TypeOK
    <3> QED
      BY <3>3, <3>4
  <2> QED
    BY <1>2, <1>4, <2>1 DEF WriteBaseline
<1>5. ASSUME NEW r \in Runs, Kill(r)
      PROVE  Goal
  BY <1>1, <1>2, <1>5 DEF Kill
<1>6. ASSUME NEW r \in Runs, Step(r), ~OpenBaseline(r), ~WriteBaseline(r)
      PROVE  disk' = disk
  BY <1>6 DEF Step, LoadPolicy, NormalizeEngine, MakeTemp, Materialize, CheckFailOn, ScanPattern,
     ScanGo, LoadSuppressions, LoadBaseline, Merge, KeepFindings, Render, Gate, Fail, Return, shared
<1>7. CASE Edit \/ UNCHANGED vars
  BY <1>1, <1>7 DEF Edit, vars
<1>8. ASSUME NEW r \in Runs, Step(r)
      PROVE  Goal
  BY <1>1, <1>3, <1>4, <1>6, <1>8
<1>9. \/ \E r \in Runs : Step(r) \/ Kill(r)
      \/ Edit
      \/ UNCHANGED vars
  BY DEF Next, AllEnded
<1>10. Goal
  BY <1>5, <1>7, <1>8, <1>9
<1> QED
  BY <1>10 DEF Goal

\* What has been recorded in a file stays recorded.
LEMMA RecordingsGrow ==
  ASSUME TypeOK, StageInv, HistoryInv, [Next]_vars, NEW p, NEW S \in SUBSET Runs
  PROVE  /\ Writers(p) \cap S \subseteq Writers(p)' \cap S
         /\ Recordings(p, Writers(p) \cap S) \subseteq Recordings(p, Writers(p) \cap S)'
         /\ Spliced(p) => Spliced(p)'
         /\ \A q \in Writers(p) : Recorded(q)' = Recorded(q)
<1>1. args' = args /\ adopted' = adopted
  BY Constants
<1>2. \A q \in Writers(p) : q \in Runs /\ wrote[q] # "no" /\ args[q].baselineWrite = p
  BY DEF Writers
<1>3. \A q \in Writers(p) : wrote'[q] = wrote[q] /\ Recorded(q)' = Recorded(q)
  BY <1>2, RecordStays DEF Settles
<1>4. Writers(p) \subseteq Writers(p)'
  BY <1>1, <1>2, <1>3 DEF Writers
<1>5. Spliced(p) => Spliced(p)'
  BY <1>3, <1>4 DEF Spliced
<1>6. Recordings(p, Writers(p) \cap S) \subseteq Recordings(p, Writers(p) \cap S)'
  BY <1>1, <1>3, <1>4 DEF Recordings
<1> QED
  BY <1>3, <1>4, <1>5, <1>6

\* Baseline files that decode are complete records, unless a write broke off
\* over another's record.
THEOREM BaselinesAreWhole == Spec => []BaselineIsWhole
<1>1. Init => BaselineIsWhole
  BY DEF Init, BaselineIsWhole, Recordings
<1>2. TypeOK /\ StageInv /\ HistoryInv /\ BaselineIsWhole /\ [Next]_vars => BaselineIsWhole'
  <2> SUFFICES ASSUME TypeOK, StageInv, HistoryInv, BaselineIsWhole, [Next]_vars,
                      NEW p \in Path, Decodes(disk'[p]), ~Spliced(p)'
               PROVE  Fingerprints(disk'[p]) \in Recordings(p, Writers(p))'
    BY DEF BaselineIsWhole
  <2>1. CASE disk'[p] = disk[p]
    <3>1. ~Spliced(p) /\ Fingerprints(disk[p]) \in Recordings(p, Writers(p))
      BY <2>1, RecordingsGrow DEF BaselineIsWhole
    <3>2. Writers(p) = Writers(p) \cap Runs /\ Writers(p)' = Writers(p)' \cap Runs
      BY DEF Writers
    <3>3. Recordings(p, Writers(p)) \subseteq Recordings(p, Writers(p))'
      BY <3>2, RecordingsGrow
    <3> QED
      BY <2>1, <3>1, <3>3
  <2>2. CASE disk'[p] = Empty
    BY <2>2 DEF Decodes
  <2>3. ASSUME NEW r \in Runs, Lays(r, p)
        PROVE  Fingerprints(disk'[p]) \in Recordings(p, Writers(p))'
    <3>1. disk[p] \in Content /\ Recorded(r) \in SUBSET FpSet /\ IsFiniteSet(Recorded(r))
      BY RecordedType, RecordedFinite DEF TypeOK, Recorded
    <3>2. r \in Writers(p)' /\ Recorded(r)' = Recorded(r)
      BY <2>3, Constants DEF Lays, Writers
    <3>3. wrote'[r] # "over"
      BY <3>2 DEF Spliced
    <3>4. PICK rec \in Records(Recorded(r)) :
            disk'[p] \in Overwritten(disk[p], rec) \cup Scribbled(Empty, rec)
      BY <2>3, <3>3 DEF Lays
    <3>5. Fingerprints(disk'[p]) = Recorded(r)
      BY <3>1, <3>4, WholeWrite, WritePrefix
    <3> QED
      BY <3>2, <3>5 DEF Recordings
  <2> QED
    BY <2>1, <2>2, <2>3, FileMoves
<1> QED
  BY <1>1, <1>2, TypeCorrect, StagesCorrect, HistoryCorrect, PTL DEF Spec

\* Nothing is in a baseline file that was not in the one adopted at its path or
\* in the record of one who wrote to it, whatever broke off.
FileInv ==
  \A p \in Path : Fingerprints(disk[p])
                   \subseteq Fingerprints(adopted[p]) \cup UNION {Recorded(q) : q \in Writers(p)}

THEOREM FilesCorrect == Spec => []FileInv
<1>1. Init => FileInv
  BY DEF Init, FileInv
<1>2. TypeOK /\ StageInv /\ HistoryInv /\ FileInv /\ [Next]_vars => FileInv'
  <2> SUFFICES ASSUME TypeOK, StageInv, HistoryInv, FileInv, [Next]_vars, NEW p \in Path,
                      NEW e \in Fingerprints(disk'[p]), e \notin Fingerprints(adopted[p])
               PROVE  \E q \in Writers(p)' : e \in Recorded(q)'
    BY Constants DEF FileInv
  <2>1. ASSUME e \in Fingerprints(disk[p])
        PROVE  \E q \in Writers(p)' : e \in Recorded(q)'
    <3>1. PICK q \in Writers(p) : e \in Recorded(q)
      BY <2>1 DEF FileInv
    <3>2. q \in Runs
      BY DEF Writers
    <3>3. q \in Writers(p)' /\ Recorded(q)' = Recorded(q)
      BY <3>2, RecordingsGrow
    <3> QED
      BY <3>1, <3>3
  <2>2. CASE disk'[p] = Empty
    BY <2>2 DEF Fingerprints, Empty
  <2>3. ASSUME NEW r \in Runs, Lays(r, p)
        PROVE  \E q \in Writers(p)' : e \in Recorded(q)'
    <3>1. disk[p] \in Content /\ Recorded(r) \in SUBSET FpSet /\ IsFiniteSet(Recorded(r))
      BY RecordedType, RecordedFinite DEF TypeOK, Recorded
    <3>2. r \in Writers(p)' /\ Recorded(r)' = Recorded(r)
      BY <2>3, Constants DEF Lays, Writers
    <3>3. PICK rec \in Records(Recorded(r)) :
            disk'[p] \in Overwritten(disk[p], rec) \cup Scribbled(disk[p], rec)
      BY <2>3 DEF Lays
    <3>4. e \in Fingerprints(disk[p]) \cup Recorded(r)
      BY <3>1, <3>3, NothingAdded
    <3> QED
      BY <2>1, <3>2, <3>4
  <2> QED
    BY <2>1, <2>2, <2>3, FileMoves
<1> QED
  BY <1>1, <1>2, TypeCorrect, StagesCorrect, HistoryCorrect, PTL DEF Spec

\* What an invocation holds as known changes only when it loads a baseline.
LEMMA KnownMoves ==
  ASSUME TypeOK, [Next]_vars, NEW r \in Runs
  PROVE  \/ known'[r] = known[r]
         \/ /\ LoadBaseline(r) /\ args[r].baseline # NoPath /\ Decodes(disk[args[r].baseline])
            /\ known'[r] = Fingerprints(disk[args[r].baseline]) /\ wrote' = wrote
<1>1. CASE Frozen(r)
  BY <1>1 DEF Frozen
<1>2. CASE LoadBaseline(r)
  BY <1>2 DEF LoadBaseline, Fail, Return, local, TypeOK
<1>3. CASE Kill(r)
  BY <1>3 DEF Kill, local
<1>4. CASE Step(r) /\ ~LoadBaseline(r)
  BY <1>4 DEF Step, LoadPolicy, NormalizeEngine, MakeTemp, Materialize, CheckFailOn, ScanPattern,
     ScanGo, LoadSuppressions, OpenBaseline, WriteBaseline, Merge, KeepFindings, Render, Gate,
     Fail, Return, local
<1>5. ASSUME NEW q \in Runs, q # r, Step(q) \/ Kill(q)
      PROVE  Frozen(r)
  BY <1>5, OthersFrozen
<1>6. ASSUME Edit \/ UNCHANGED vars
      PROVE  Frozen(r)
  BY <1>6, EditFrozen
<1> QED
  BY <1>1, <1>2, <1>3, <1>4, <1>5, <1>6 DEF Next, AllEnded

\* Set k comes from the file adopted at p and the records of others than r.
Sourced(r, p, k) ==
  LET Others == Writers(p) \ {r}
  IN  /\ k \subseteq Fingerprints(adopted[p]) \cup UNION {Recorded(q) : q \in Others}
      /\ ~Spliced(p) => k \in Recordings(p, Others)

LEMMA SourcedStays ==
  ASSUME TypeOK, StageInv, HistoryInv, [Next]_vars, NEW r \in Runs, NEW p, NEW k, Sourced(r, p, k)
  PROVE  Sourced(r, p, k)'
<1> DEFINE S == Runs \ {r}
<1>1. adopted' = adopted
  BY Constants
<1>2. /\ Writers(p) \cap S \subseteq Writers(p)' \cap S
      /\ Recordings(p, Writers(p) \cap S) \subseteq Recordings(p, Writers(p) \cap S)'
      /\ Spliced(p) => Spliced(p)'
      /\ \A q \in Writers(p) : Recorded(q)' = Recorded(q)
  BY RecordingsGrow, S \in SUBSET Runs
<1>3. Writers(p) \ {r} = Writers(p) \cap S /\ Writers(p)' \ {r} = Writers(p)' \cap S
  BY DEF Writers
<1>4. Recordings(p, Writers(p) \ {r}) \subseteq Recordings(p, Writers(p) \ {r})'
  BY <1>2, <1>3
<1>5. UNION {Recorded(q) : q \in Writers(p) \ {r}}
        \subseteq UNION {Recorded(q)' : q \in Writers(p)' \ {r}}
  <2> SUFFICES ASSUME NEW q \in Writers(p) \ {r}
               PROVE  q \in Writers(p)' \ {r} /\ Recorded(q)' = Recorded(q)
    BY Zenon
  <2> QED
    BY <1>2, <1>3
<1> QED
  BY <1>1, <1>2, <1>4, <1>5 DEF Sourced

\* What a run takes for known was recorded by somebody else, and is the whole
\* of what they recorded unless a write broke off over another's record.
THEOREM KnownIsRecorded == Spec => []KnownWasRecorded
<1>1. Init => KnownWasRecorded
  BY DEF Init, KnownWasRecorded
<1>2. /\ TypeOK /\ StageInv /\ HistoryInv /\ FileInv /\ BaselineIsWhole
      /\ KnownWasRecorded /\ [Next]_vars
      => KnownWasRecorded'
  <2> SUFFICES ASSUME TypeOK, StageInv, HistoryInv, FileInv, BaselineIsWhole, KnownWasRecorded,
                      [Next]_vars, NEW r \in Runs, known'[r] # {}
               PROVE  Sourced(r, args[r].baseline, known[r])'
    BY DEF KnownWasRecorded, Sourced
  <2>1. PICK p, k : p = args[r].baseline /\ k = known'[r]
    OBVIOUS
  <2>2. args'[r].baseline = p
    BY <2>1, Constants
  <2>3. Sourced(r, p, k)
    <3>1. CASE known'[r] = known[r]
      BY <2>1, <3>1 DEF KnownWasRecorded, Sourced
    <3>2. CASE /\ LoadBaseline(r) /\ p # NoPath /\ Decodes(disk[p])
               /\ k = Fingerprints(disk[p])
      <4>1. p \in Path
        BY <2>1, <3>2, ArgsType DEF TypeOK
      <4>2. wrote[r] = "no"
        BY <3>2 DEF HistoryInv, HistoryOf, LoadBaseline, At
      <4>3. Writers(p) = Writers(p) \ {r}
        BY <4>2 DEF Writers
      <4> QED
        BY <3>2, <4>1, <4>3 DEF FileInv, BaselineIsWhole, Sourced
    <3> QED
      BY <2>1, <3>1, <3>2, KnownMoves
  <2>4. Sourced(r, p, k)'
    BY <2>3, SourcedStays
  <2> QED
    BY <2>1, <2>2, <2>4 DEF Sourced
<1> QED
  BY <1>1, <1>2, TypeCorrect, StagesCorrect, HistoryCorrect, FilesCorrect, BaselinesAreWhole,
     PTL DEF Spec
=============================================================================
