-------------------------- MODULE AstGrepRunProofs --------------------------
(***************************************************************************)
(* Theorems about one scan of the pattern tier, for any files and texts,   *)
(* any output of ast-grep in any interleaving, any size of the pipe, and a *)
(* crash, a hang, a deadline or a cancellation at any moment.              *)
(***************************************************************************)
EXTENDS AstGrepRun, MeasuresProofs, FiniteSetTheorems, TLAPS

\* What is cut short stands for some item.
LEMMA GarbageType == Garbage \in Item /\ Garbage.kind = "garbage"
<1>1. (CHOOSE f \in File : TRUE) \in File /\ (CHOOSE t \in Text : TRUE) \in Text
  BY RunAssumption
<1> QED
  BY <1>1 DEF Garbage, Item

LEMMA CutShortType ==
  ASSUME NEW p \in Seq(Item), NEW q \in CutShort(p)
  PROVE  q \in Seq(Item) /\ (q = p \/ q = Append(p, Garbage))
BY GarbageType DEF CutShort

\* The items of a stream are about the file it is the stream of.
LEMMA ScriptType ==
  ASSUME script \in Scripts, NEW f \in File
  PROVE  /\ script[f] \in Seq(Item)
         /\ Len(script[f]) \in Nat
         /\ DOMAIN script[f] = 1..Len(script[f])
         /\ \A i \in 1..Len(script[f]) : script[f][i] \in Item /\ script[f][i].file = f
BY RunAssumption

\* The type invariant.
THEOREM TypeCorrect == Spec => []TypeOK
<1> USE DEF TypeOK
<1>1. Init => TypeOK
  <2>1. Len(Walked) \in Nat
    BY RunAssumption
  <2> SUFFICES ASSUME Init PROVE TypeOK
    OBVIOUS
  <2>2. version \in Versions \cup {<<>>}
    BY Zenon DEF Init
  <2>3. pipe \in Seq(Item) /\ walked \in 0..Len(Walked)
    BY <2>1 DEF Init
  <2>4. next \in [File -> Nat \ {0}] /\ seen \in [File -> [Text -> Nat]]
    BY DEF Init
  <2>5. script \in Scripts /\ out \subseteq Found /\ signalled \in BOOLEAN /\ broke \in BOOLEAN
        /\ stopped \in BOOLEAN
    BY DEF Init
  <2>6. pc = "resolve" /\ ctx = "live" /\ child = "unborn" /\ code = 0 /\ result = "none"
    BY DEF Init
  <2> QED
    BY <2>2, <2>3, <2>4, <2>5, <2>6
<1>2. TypeOK /\ [Next]_vars => TypeOK'
  <2> SUFFICES ASSUME TypeOK, [Next]_vars PROVE TypeOK'
    OBVIOUS
  <2> USE DEF childVars, decodeVars, Return
  <2>1. CASE Resolve
    BY <2>1 DEF Resolve
  <2>2. CASE Probe
    BY <2>2 DEF Probe
  <2>3. CASE Start
    BY <2>3 DEF Start
  <2>4. CASE Decode
    <3>1. ASSUME pipe # <<>>
          PROVE  Head(pipe) \in Item /\ Tail(pipe) \in Seq(Item)
      BY <3>1
    <3>2. CASE DecodeMatch
      <4> DEFINE m == Head(pipe)
                 x == [file |-> m.file, line |-> m.line, text |-> m.text,
                       n |-> Counted(m)[m.file][m.text]]
      <4>1. m \in Item /\ Tail(pipe) \in Seq(Item)
        BY <3>1, <3>2 DEF DecodeMatch
      <4>2. m.file \in File /\ m.text \in Text /\ m.line \in Nat
        BY <4>1 DEF Item
      <4>3. seen' = Counted(m) /\ pipe' = Tail(pipe)
            /\ out' = IF m.file \in Skipped THEN out ELSE out \cup {x}
        BY <3>2 DEF DecodeMatch
      <4> HIDE DEF m
      <4>4. Counted(m) \in [File -> [Text -> Nat]]
        BY <4>2 DEF Counted
      <4>5. x \in Found
        BY <4>2, <4>4 DEF Found
      <4> HIDE DEF x
      <4>6. out' \subseteq Found
        BY <4>3, <4>5
      <4> QED
        BY <2>4, <3>2, <4>1, <4>3, <4>4, <4>6 DEF Decode, DecodeMatch
    <3>3. CASE DecodeGarbage
      BY <2>4, <3>1, <3>3 DEF Decode, DecodeGarbage
    <3>4. CASE DecodeEnd
      BY <2>4, <3>4 DEF Decode, DecodeEnd
    <3> QED
      BY <2>4, <3>2, <3>3, <3>4 DEF Decode
  <2>5. CASE Drain
    <3>1. pipe # <<>> => Tail(pipe) \in Seq(Item)
      OBVIOUS
    <3>2. pipe' \in Seq(Item)
      BY <2>5, <3>1 DEF Drain
    <3>3. pc' \in {"drain", "wait"}
      BY <2>5 DEF Drain
    <3>4. UNCHANGED <<script, version, ctx, childVars, decodeVars, walked, result>>
      BY <2>5 DEF Drain
    <3> QED
      BY <3>2, <3>3, <3>4
  <2>6. CASE Wait
    BY <2>6 DEF Wait, WaitErr
  <2>7. CASE Extras
    <3>1. Len(Walked) \in Nat
      BY RunAssumption
    <3> QED
      BY <2>7, <3>1 DEF Extras
  <2>8. CASE Emit
    <3>1. PICK f \in File : /\ next[f] <= Len(script[f])
                            /\ pipe' = Append(pipe, script[f][next[f]])
                            /\ next' = [next EXCEPT ![f] = @ + 1]
      BY <2>8 DEF Emit
    <3>2. next[f] \in 1..Len(script[f])
      BY <3>1, ScriptType
    <3>3. Append(pipe, script[f][next[f]]) \in Seq(Item)
      BY <3>2, ScriptType
    <3> QED
      BY <2>8, <3>1, <3>3 DEF Emit
  <2>9. CASE Exit
    BY <2>9 DEF Exit
  <2>10. CASE Crash
    BY <2>10, CutShortType DEF Crash
  <2>11. CASE Hang
    BY <2>11 DEF Hang
  <2>12. CASE Expire
    BY <2>12 DEF Expire
  <2>13. CASE Cancel
    BY <2>13 DEF Cancel
  <2>14. CASE KillChild
    BY <2>14, CutShortType DEF KillChild
  <2>15. CASE UNCHANGED vars
    BY <2>15 DEF vars
  <2> QED
    BY <2>1, <2>2, <2>3, <2>4, <2>5, <2>6, <2>7, <2>8, <2>9, <2>10, <2>11, <2>12, <2>13,
       <2>14, <2>15 DEF Next, Parent, Child, Returned
<1> QED
  BY <1>1, <1>2, PTL DEF Spec

-----------------------------------------------------------------------------
(* The child process.                                                      *)

\* Where Scan is and what has become of ast-grep.
ProcessInv ==
  /\ pc \in {"resolve", "probe", "start"} => child = "unborn"
  /\ pc \in {"decode", "drain", "wait"} => child # "unborn"
  /\ pc \in {"wait", "extras", "done"} => child \notin {"running", "hung"}
  /\ pc = "done" <=> result # "none"
  /\ signalled => ctx # "live"
  /\ child \in {"unborn", "running", "hung"} => code = 0 /\ ~signalled
  /\ stopped => child = "exited" /\ code \in {1, 2}
  /\ code = 2 => stopped
  /\ child = "killed" => signalled

LEMMA ProcessStep == TypeOK /\ ProcessInv /\ [Next]_vars => ProcessInv'
<1> SUFFICES ASSUME TypeOK, ProcessInv, [Next]_vars PROVE ProcessInv'
  OBVIOUS
<1> USE DEF ProcessInv, childVars, Return
<1>1. CASE Resolve
  BY <1>1 DEF Resolve
<1>2. CASE Probe
  BY <1>2 DEF Probe
<1>3. CASE Start
  BY <1>3 DEF Start
<1>4. CASE Decode
  BY <1>4 DEF Decode, DecodeMatch, DecodeGarbage, DecodeEnd
<1>5. CASE Drain
  BY <1>5 DEF Drain, EndOfFile
<1>6. CASE Wait
  <2>1. \A failed, matched : WaitErr(failed, matched) \in {"ok", "timeout", "canceled", "failed"}
    BY DEF WaitErr
  <2> QED
    BY <1>6, <2>1 DEF Wait
<1>7. CASE Extras
  BY <1>7 DEF Extras
<1>8. CASE Emit
  BY <1>8 DEF Emit
<1>9. CASE Exit
  BY <1>9 DEF Exit
<1>10. CASE Crash
  BY <1>10 DEF Crash
<1>11. CASE Hang
  BY <1>11 DEF Hang
<1>12. CASE Expire
  BY <1>12 DEF Expire
<1>13. CASE Cancel
  BY <1>13 DEF Cancel
<1>14. CASE KillChild
  BY <1>14 DEF KillChild
<1>15. CASE UNCHANGED vars
  BY <1>15 DEF vars
<1> QED
  BY <1>1, <1>2, <1>3, <1>4, <1>5, <1>6, <1>7, <1>8, <1>9, <1>10, <1>11, <1>12, <1>13,
     <1>14, <1>15 DEF Next, Parent, Child, Returned

LEMMA ProcessCorrect == Spec => []ProcessInv
<1>1. Init => ProcessInv
  BY DEF Init, ProcessInv
<1> QED
  BY <1>1, ProcessStep, TypeCorrect, PTL DEF Spec

\* Scan leaves no ast-grep running, whatever it returns and wherever the
\* deadline, a cancellation or a crash of the child found it (runner.go Scan).
THEOREM NoneIsOrphaned == Spec => []NoOrphan
<1>1. ProcessInv => NoOrphan
  BY DEF ProcessInv, NoOrphan
<1> QED
  BY <1>1, ProcessCorrect, PTL

-----------------------------------------------------------------------------
(* A scan comes to its answer: somebody can go on, and not for ever.       *)

\* Whoever waits, waits for somebody who can go on.
THEOREM NobodyStandsStill == Spec => []NoStandstill
<1>1. TypeOK /\ ProcessInv => NoStandstill
  <2> SUFFICES ASSUME TypeOK, ProcessInv, pc \in {"decode", "drain", "wait"}
               PROVE  NoStandstill
    BY DEF TypeOK, NoStandstill
  <2>1. CASE child = "running"
    <3>1. pc # "wait"
      BY <2>1 DEF ProcessInv
    <3>2. pipe = <<>> => Len(pipe) < PipeSize
      BY RunAssumption
    <3> QED
      BY <2>1, <3>1, <3>2 DEF NoStandstill
  <2>2. CASE child = "hung"
    BY <2>2 DEF NoStandstill, ProcessInv
  <2>3. CASE child \in {"exited", "killed"}
    BY <2>3 DEF NoStandstill, EndOfFile
  <2> QED
    BY <2>1, <2>2, <2>3 DEF TypeOK, ProcessInv
<1> QED
  BY <1>1, TypeCorrect, ProcessCorrect, PTL

LEMMA UnwrittenIsFinite ==
  ASSUME TypeOK
  PROVE  IsFiniteSet(Unwritten)
<1> DEFINE rest == [f \in File |-> {f} \X (next[f]..Len(script[f]))]
           rests == {{f} \X (next[f]..Len(script[f])) : f \in File}
<1>1. IsFiniteSet(File)
  BY RunAssumption
<1>2. IsFiniteSet(rests)
  <2>1. rest \in [File -> rests] /\ \A t \in rests : \E f \in File : rest[f] = t
    OBVIOUS
  <2>2. rest \in Surjection(File, rests)
    BY <2>1 DEF Surjection
  <2> QED
    BY <1>1, <2>2, FS_Surjection
<1>3. ASSUME NEW f \in File
      PROVE  IsFiniteSet({f} \X (next[f]..Len(script[f])))
  <2>1. next[f] \in Int /\ Len(script[f]) \in Int
    BY ScriptType DEF TypeOK
  <2>2. IsFiniteSet(next[f]..Len(script[f]))
    BY <2>1, FS_Interval
  <2>3. IsFiniteSet({f})
    BY FS_Singleton
  <2> QED
    BY <2>2, <2>3, FS_Product
<1> QED
  BY <1>2, <1>3, FS_UNION DEF Unwritten

\* What is left is counted in seven numbers.
LEMMA LeftIsNatural ==
  ASSUME TypeOK
  PROVE  Left \in [1..7 -> Nat]
<1>1. Cardinality(Unwritten) \in Nat
  BY UnwrittenIsFinite, FS_CardinalityType
<1>2. StepsLeft[pc] \in Nat /\ LivesLeft[child] \in Nat
  BY DEF TypeOK, StepsLeft, LivesLeft
<1>3. Len(pipe) \in Nat /\ Len(Walked) - walked \in Nat
  BY RunAssumption DEF TypeOK
<1> QED
  BY <1>1, <1>2, <1>3 DEF Left

\* A file's next item is written: one less is left.
LEMMA EmitWrites ==
  ASSUME TypeOK, TypeOK', Emit
  PROVE  Cardinality(Unwritten)' < Cardinality(Unwritten)
<1>1. PICK f \in File : next[f] <= Len(script[f]) /\ next' = [next EXCEPT ![f] = @ + 1]
  BY DEF Emit
<1>2. script' = script
  BY DEF Emit
<1>3. \A g \in File : next[g] \in Nat /\ Len(script[g]) \in Nat
  BY ScriptType DEF TypeOK
<1>4. next'[f] = next[f] + 1 /\ \A g \in File \ {f} : next'[g] = next[g]
  BY <1>1 DEF TypeOK
<1>5. \A g, i : <<g, i>> \in Unwritten <=> g \in File /\ i \in next[g]..Len(script[g])
  BY DEF Unwritten
<1>6. \A g, i : <<g, i>> \in Unwritten' <=> g \in File /\ i \in next'[g]..Len(script[g])
  BY <1>2 DEF Unwritten
<1>7. ASSUME NEW u \in Unwritten'
      PROVE  u \in Unwritten
  <2>1. PICK g \in File : u \in {g} \X (next'[g]..Len(script[g]))
    BY <1>2 DEF Unwritten
  <2>2. PICK i \in next'[g]..Len(script[g]) : u = <<g, i>>
    BY <2>1
  <2>3. i \in next[g]..Len(script[g])
    BY <1>3, <1>4, <2>2
  <2> QED
    BY <1>5, <2>2, <2>3
<1>8. <<f, next[f]>> \in Unwritten /\ <<f, next[f]>> \notin Unwritten'
  BY <1>1, <1>3, <1>4, <1>5, <1>6
<1>9. IsFiniteSet(Unwritten)
  BY UnwrittenIsFinite
<1>10. /\ Cardinality(Unwritten') <= Cardinality(Unwritten)
       /\ Cardinality(Unwritten') # Cardinality(Unwritten)
  BY <1>7, <1>8, <1>9, FS_Subset
<1>11. Cardinality(Unwritten) \in Nat /\ Cardinality(Unwritten)' \in Nat
  BY LeftIsNatural, UnwrittenIsFinite, FS_CardinalityType, <1>7, <1>9, FS_Subset
<1> QED
  BY <1>10, <1>11

LEMMA LeftHas ==
  /\ DOMAIN Left = 1..7
  /\ Left[1] = IF ctx = "live" THEN 1 ELSE 0
  /\ Left[2] = StepsLeft[pc]
  /\ Left[3] = IF signalled THEN 0 ELSE 1
  /\ Left[4] = LivesLeft[child]
  /\ Left[5] = Cardinality(Unwritten)
  /\ Left[6] = Len(pipe)
  /\ Left[7] = Len(Walked) - walked
  /\ DOMAIN Left' = 1..7
  /\ Left'[1] = IF ctx' = "live" THEN 1 ELSE 0
  /\ Left'[2] = StepsLeft[pc']
  /\ Left'[3] = IF signalled' THEN 0 ELSE 1
  /\ Left'[4] = LivesLeft[child']
  /\ Left'[5] = Cardinality(Unwritten')
  /\ Left'[6] = Len(pipe')
  /\ Left'[7] = Len(Walked) - walked'
BY DEF Left

\* The decoder and the drain take something off the pipe, or go on.
LEMMA ReaderGoesOn ==
  ASSUME TypeOK, Decode \/ Drain
  PROVE  \/ StepsLeft[pc]' < StepsLeft[pc]
         \/ pc' = pc /\ Len(pipe)' < Len(pipe)
<1>1. ASSUME pipe # <<>>, pipe' = Tail(pipe)
      PROVE  Len(pipe)' < Len(pipe)
  BY <1>1 DEF TypeOK
<1>2. CASE Decode
  BY <1>1, <1>2 DEF Decode, DecodeMatch, DecodeGarbage, DecodeEnd, StepsLeft
<1>3. CASE Drain
  BY <1>1, <1>3 DEF Drain, StepsLeft
<1> QED
  BY <1>2, <1>3

\* Every step leaves less to do.
THEOREM EveryStepCounts == Spec => StepsRunOut
<1>1. TypeOK /\ TypeOK' /\ ProcessInv /\ [Next]_vars => [Below(Left', Left)]_vars
  <2> SUFFICES ASSUME TypeOK, TypeOK', ProcessInv, Next, vars' # vars
               PROVE  Below(Left', Left)
    OBVIOUS
  <2> USE DEF childVars, decodeVars, Return
  <2>1. ASSUME NEW k \in 1..7, Left'[k] < Left[k], \A j \in 1..(k - 1) : Left'[j] = Left[j]
        PROVE  Below(Left', Left)
    BY <2>1, LeftHas DEF Below
  <2>2. ASSUME ctx' = ctx, StepsLeft[pc]' < StepsLeft[pc]
        PROVE  Below(Left', Left)
    <3>1. Left'[1] = Left[1] /\ Left'[2] < Left[2]
      BY <2>2, LeftHas
    <3> QED
      BY <2>1, <3>1
  <2>3. CASE Resolve
    BY <2>2, <2>3 DEF Resolve, StepsLeft
  <2>4. CASE Probe
    BY <2>2, <2>4 DEF Probe, StepsLeft
  <2>5. CASE Start
    BY <2>2, <2>5 DEF Start, StepsLeft
  <2>6. CASE Decode \/ Drain
    <3>1. UNCHANGED <<script, ctx, child, signalled, next>>
      BY <2>6 DEF Decode, Drain
    <3>2. CASE StepsLeft[pc]' < StepsLeft[pc]
      BY <2>2, <3>1, <3>2
    <3>3. CASE pc' = pc /\ Len(pipe)' < Len(pipe)
      <4>1. Unwritten' = Unwritten
        BY <3>1 DEF Unwritten
      <4>2. Left'[6] < Left[6] /\ \A j \in 1..5 : Left'[j] = Left[j]
        BY <3>1, <3>3, <4>1, LeftHas
      <4> QED
        BY <2>1, <4>2
    <3> QED
      BY <2>6, <3>2, <3>3, ReaderGoesOn
  <2>7. CASE Wait
    BY <2>2, <2>7 DEF Wait, StepsLeft
  <2>8. CASE Extras
    <3>1. CASE pc' = "done"
      BY <2>2, <2>8, <3>1 DEF Extras, StepsLeft
    <3>2. CASE pc' # "done"
      <4>1. UNCHANGED <<script, pc, ctx, child, signalled, next, pipe>> /\ walked' = walked + 1
        BY <2>8, <3>2 DEF Extras
      <4>2. Unwritten' = Unwritten
        BY <4>1 DEF Unwritten
      <4>3. Len(Walked) \in Nat /\ walked \in Nat
        BY RunAssumption DEF TypeOK
      <4>4. Left'[7] < Left[7] /\ \A j \in 1..6 : Left'[j] = Left[j]
        BY <4>1, <4>2, <4>3, LeftHas
      <4> QED
        BY <2>1, <4>4
    <3> QED
      BY <3>1, <3>2
  <2>9. CASE Emit
    <3>1. UNCHANGED <<ctx, pc, signalled, child>>
      BY <2>9 DEF Emit
    <3>2. Left'[5] < Left[5] /\ \A j \in 1..4 : Left'[j] = Left[j]
      BY <2>9, <3>1, EmitWrites, LeftHas
    <3> QED
      BY <2>1, <3>2
  <2>10. CASE Exit \/ Crash \/ Hang
    <3>1. UNCHANGED <<ctx, pc, signalled>> /\ LivesLeft[child]' < LivesLeft[child]
      BY <2>10 DEF Exit, Crash, Hang, LivesLeft
    <3>2. Left'[4] < Left[4] /\ \A j \in 1..3 : Left'[j] = Left[j]
      BY <3>1, LeftHas
    <3> QED
      BY <2>1, <3>2
  <2>11. CASE Expire \/ Cancel
    <3>1. Left'[1] < Left[1]
      BY <2>11, LeftHas DEF Expire, Cancel
    <3> QED
      BY <2>1, <3>1
  <2>12. CASE KillChild
    <3>1. UNCHANGED <<ctx, pc>> /\ ~signalled /\ signalled'
      BY <2>12 DEF KillChild
    <3>2. Left'[3] < Left[3] /\ \A j \in 1..2 : Left'[j] = Left[j]
      BY <3>1, LeftHas
    <3> QED
      BY <2>1, <3>2
  <2> QED
    BY <2>3, <2>4, <2>5, <2>6, <2>7, <2>8, <2>9, <2>10, <2>11, <2>12
       DEF Next, Parent, Child, Returned
<1> QED
  BY <1>1, TypeCorrect, ProcessCorrect, PTL DEF Spec, StepsRunOut

-----------------------------------------------------------------------------
(* The version.                                                            *)

\* Comparing parsed versions decides what it is meant to decide: parts that are
\* missing, are no number or overflow make no version recent or old that is
\* not (runner.go versionAtLeast, parseVersion, leadingInt).
THEOREM GateIsRecent ==
  ASSUME NEW v \in Versions
  PROVE  VersionAtLeast(ParseVersion(v), MinVersion) <=> Recent(v)
<1> DEFINE got == ParseVersion(v)
<1>1. /\ MaxInt \in Nat /\ MaxInt > 45
      /\ Len(v) \in 1..3 /\ DOMAIN v = 1..Len(v)
      /\ \A i \in DOMAIN v : v[i] \in Part
  BY RunAssumption
<1>2. \A p \in Part : /\ LeadingInt(p) \in Nat
                      /\ LeadingInt(p) >= 1 <=> p.number /\ p.value >= 1
                      /\ LeadingInt(p) >= 45 <=> p.number /\ p.value >= 45
  BY <1>1 DEF Part, LeadingInt
<1>3. \A i \in 1..3 : got[i] = IF i \in DOMAIN v THEN LeadingInt(v[i]) ELSE 0
  BY DEF ParseVersion
<1>4. /\ got[1] \in Nat /\ got[2] \in Nat /\ got[3] \in Nat
      /\ got[1] >= 1 <=> 1 \in DOMAIN v /\ v[1].number /\ v[1].value >= 1
      /\ got[2] >= 45 <=> 2 \in DOMAIN v /\ v[2].number /\ v[2].value >= 45
  BY <1>1, <1>2, <1>3
<1> HIDE DEF got
<1>5. VersionAtLeast(got, MinVersion) <=> got[1] >= 1 \/ got[2] >= 45
  BY <1>4 DEF VersionAtLeast, MinVersion
<1> QED
  BY <1>4, <1>5 DEF Recent, got

VersionInv ==
  /\ pc = "start" \/ child # "unborn" => Recent(version)
  /\ result = "tooOld" => ~Recent(version)

\* ast-grep runs on the tree if and only if its version is recent enough.
THEOREM VersionIsGated == Spec => []VersionGate
<1>1. Init => VersionInv
  BY DEF Init, VersionInv
<1>2. ProcessInv /\ VersionInv /\ [Next]_vars => VersionInv'
  <2> SUFFICES ASSUME ProcessInv, VersionInv, [Next]_vars PROVE VersionInv'
    OBVIOUS
  <2>1. CASE Probe
    <3>1. child' = "unborn" /\ pc' # "resolve" /\ result = "none"
      BY <2>1 DEF Probe, ProcessInv, childVars, Return
    <3>2. CASE Return("failed")
      BY <2>1, <3>1, <3>2 DEF VersionInv, Return
    <3>3. CASE /\ version' \in Versions
               /\ IF VersionAtLeast(ParseVersion(version'), MinVersion)
                  THEN pc' = "start" /\ UNCHANGED result
                  ELSE Return("tooOld")
      <4>1. VersionAtLeast(ParseVersion(version'), MinVersion) <=> Recent(version')
        BY <3>3, GateIsRecent
      <4>2. VersionInv' <=> /\ pc' = "start" => Recent(version')
                            /\ result' = "tooOld" => ~Recent(version')
        BY <3>1 DEF VersionInv, Recent
      <4> QED
        BY <3>1, <3>3, <4>1, <4>2 DEF Return
    <3> QED
      BY <2>1, <3>2, <3>3 DEF Probe
  <2>2. CASE ~Probe
    <3>1. UNCHANGED version
      BY <2>2 DEF Next, vars, Parent, Child, Resolve, Start, Decode, Drain, Wait, Extras, Emit,
         Exit, Crash, Hang, Expire, Cancel, KillChild, Returned
    <3>2. pc' = "start" => pc = "start"
      BY <2>2 DEF Next, vars, Parent, Child, Resolve, Start, Decode, DecodeMatch, DecodeGarbage,
         DecodeEnd, Drain, Wait, Extras, Emit, Exit, Crash, Hang, Expire, Cancel, KillChild,
         Returned, Return
    <3>3. child' # "unborn" => child # "unborn" \/ pc = "start"
      BY <2>2 DEF Next, vars, childVars, Parent, Child, Resolve, Start, Decode, Drain, Wait,
         Extras, Emit, Exit, Crash, Hang, Expire, Cancel, KillChild, Returned, ProcessInv
    <3>4. result' = "tooOld" => result = "tooOld"
      BY <2>2 DEF Next, vars, Parent, Child, Resolve, Start, Decode, DecodeMatch, DecodeGarbage,
         DecodeEnd, Drain, Wait, WaitErr, Extras, Emit, Exit, Crash, Hang, Expire, Cancel,
         KillChild, Returned, Return
    <3> QED
      BY <3>1, <3>2, <3>3, <3>4 DEF VersionInv, Recent
  <2> QED
    BY <2>1, <2>2
<1>3. VersionInv => VersionGate
  BY DEF VersionInv, VersionGate
<1> QED
  BY <1>1, <1>2, <1>3, ProcessCorrect, PTL DEF Spec

-----------------------------------------------------------------------------
(* The stream.                                                             *)

\* Among the first k items of a file, the matches of a text.
Matches(f, t, k) == {j \in 1..k : /\ script[f][j].kind = "match"
                                  /\ script[f][j].text = t}

LEMMA MatchesGrow ==
  ASSUME NEW f \in File, NEW t, NEW k \in Nat
  PROVE  /\ Cardinality(Matches(f, t, k)) \in Nat
         /\ Cardinality(Matches(f, t, k + 1)) =
              Cardinality(Matches(f, t, k)) +
                IF script[f][k + 1].kind = "match" /\ script[f][k + 1].text = t THEN 1 ELSE 0
<1> DEFINE S == Matches(f, t, k)
<1>1. IsFiniteSet(S)
  <2>1. IsFiniteSet(1..k) /\ S \subseteq 1..k
    BY FS_Interval DEF Matches
  <2> QED
    BY <2>1, FS_Subset
<1>2. k + 1 \notin S
  BY DEF Matches
<1>3. 1..(k + 1) = (1..k) \cup {k + 1}
  OBVIOUS
<1>4. CASE script[f][k + 1].kind = "match" /\ script[f][k + 1].text = t
  <2>1. Matches(f, t, k + 1) = S \cup {k + 1}
    BY <1>3, <1>4 DEF Matches
  <2> QED
    BY <1>1, <1>2, <1>4, <2>1, FS_AddElement, FS_CardinalityType
<1>5. CASE ~(script[f][k + 1].kind = "match" /\ script[f][k + 1].text = t)
  <2>1. Matches(f, t, k + 1) = S
    BY <1>3, <1>5 DEF Matches
  <2> QED
    BY <1>1, <1>5, <2>1, FS_CardinalityType
<1> QED
  BY <1>4, <1>5

\* The finding that item i of file f stands for.
Named(f, i) == [file |-> f, line |-> script[f][i].line, text |-> script[f][i].text,
                n |-> Occurrence(f, i)]

LEMMA ExpectedNamed ==
  ASSUME script \in Scripts, NEW x
  PROVE  x \in Expected <=>
           \E f \in File \ Skipped : \E i \in 1..Len(script[f]) :
             script[f][i].kind = "match" /\ x = Named(f, i)
BY ScriptType DEF Expected, Numbered, Named

\* The decoder has read the first got[f] items of each file f: it has counted
\* the matches among them and made a finding of those that are not skipped.
Counts(got) ==
  /\ \A f \in File, t \in Text : seen[f][t] = Cardinality(Matches(f, t, got[f]))
  /\ \A x : x \in out <=>
       \E f \in File \ Skipped : \E i \in 1..got[f] :
         script[f][i].kind = "match" /\ x = Named(f, i)

\* The first n items of the pipe, the k-th of them number ix[k] of its file,
\* are what ast-grep has written of each file and the decoder has not read, in
\* the order of that file.  Behind them is only what a dying process cut short.
Carries(got, n, ix) ==
  /\ \A f \in File : got[f] < next[f]
  /\ \A k \in 1..n : /\ got[pipe[k].file] < ix[k]
                     /\ ix[k] < next[pipe[k].file]
                     /\ pipe[k] = script[pipe[k].file][ix[k]]
  /\ \A k, l \in 1..n : k < l /\ pipe[k].file = pipe[l].file => ix[k] < ix[l]
  /\ \A f \in File : \A i \in Nat :
       got[f] < i /\ i < next[f] => \E k \in 1..n : pipe[k].file = f /\ ix[k] = i
  /\ \A k \in DOMAIN pipe : k > n => pipe[k].kind = "garbage"
  /\ n < Len(pipe) => stopped \/ signalled

Reading == \E got \in [File -> Nat], n \in 0..Len(pipe) : \E ix \in [1..n -> Nat] :
             Counts(got) /\ Carries(got, n, ix)

\* What the counters and the findings say depends on these alone.
LEMMA CountsStay ==
  ASSUME NEW got, Counts(got), UNCHANGED <<script, seen, out>>
  PROVE  Counts(got)'
<1>1. \A f, t, k : Matches(f, t, k)' = Matches(f, t, k)
  BY DEF Matches
<1>2. \A f, i : Named(f, i)' = Named(f, i)
  BY DEF Named, Occurrence
<1> QED
  BY <1>1, <1>2 DEF Counts

LEMMA ReadingStays ==
  ASSUME Reading, UNCHANGED <<script, seen, out, pipe, next>>,
         stopped \/ signalled => stopped' \/ signalled'
  PROVE  Reading'
<1>1. PICK got \in [File -> Nat], n \in 0..Len(pipe) : \E ix \in [1..n -> Nat] :
        Counts(got) /\ Carries(got, n, ix)
  BY DEF Reading
<1>2. PICK ix \in [1..n -> Nat] : Counts(got) /\ Carries(got, n, ix)
  BY <1>1
<1>3. Counts(got)' /\ Carries(got, n, ix)'
  BY <1>2, CountsStay DEF Carries
<1> QED
  BY <1>3 DEF Reading

\* ast-grep writes an item.
LEMMA ReadingEmit ==
  ASSUME TypeOK, Reading, Emit, ~stopped /\ ~signalled
  PROVE  Reading'
<1>1. PICK got \in [File -> Nat], n \in 0..Len(pipe) : \E ix \in [1..n -> Nat] :
        Counts(got) /\ Carries(got, n, ix)
  BY DEF Reading
<1>2. PICK ix \in [1..n -> Nat] : Counts(got) /\ Carries(got, n, ix)
  BY <1>1
<1>3. PICK g \in File : /\ next[g] <= Len(script[g])
                        /\ pipe' = Append(pipe, script[g][next[g]])
                        /\ next' = [next EXCEPT ![g] = @ + 1]
  BY DEF Emit
<1>4. /\ script \in Scripts /\ pipe \in Seq(Item) /\ next \in [File -> Nat \ {0}]
      /\ UNCHANGED <<script, seen, out, stopped, signalled>>
  BY DEF TypeOK, Emit, decodeVars
<1>5. n = Len(pipe) /\ n \in Nat
  BY <1>2, <1>4 DEF Carries
<1>6. PICK i \in Nat : i = next[g]
  BY <1>4
<1>7. PICK jx \in [1..(n + 1) -> Nat] : jx = [k \in 1..(n + 1) |-> IF k = n + 1 THEN i ELSE ix[k]]
  <2>1. \A k \in 1..(n + 1) : k # n + 1 => k \in 1..n
    BY <1>5
  <2> QED
    BY <2>1
<1> DEFINE m == script[g][i]
<1>8. i \in 1..Len(script[g]) /\ m \in Item /\ m.file = g
  BY <1>3, <1>4, <1>6, ScriptType
<1>9. /\ Len(pipe') = n + 1 /\ DOMAIN pipe' = 1..(n + 1)
      /\ pipe'[n + 1] = m
      /\ \A k \in 1..n : pipe'[k] = pipe[k] /\ pipe[k] \in Item
  BY <1>3, <1>4, <1>5, <1>6, <1>8
<1>10. /\ next'[g] = i + 1
       /\ \A f \in File : f # g => next'[f] = next[f]
       /\ \A f \in File : next[f] \in Nat /\ next'[f] \in Nat /\ next[f] <= next'[f]
  BY <1>3, <1>4, <1>6
<1>11. jx[n + 1] = i /\ \A k \in 1..n : jx[k] = ix[k]
  BY <1>5, <1>7
<1>12. \A f \in File : got[f] \in Nat /\ got[f] < next[f]
  BY <1>2 DEF Carries
<1>13. \A k \in 1..n : pipe[k].file \in File
  BY <1>9 DEF Item
<1> HIDE DEF m
<1>14. n + 1 \in 0..Len(pipe') /\ \A k \in 1..(n + 1) : k = n + 1 \/ k \in 1..n
  BY <1>9
<1>15. Carries(got, n + 1, jx)'
  <2>1. \A f \in File : got[f] < next'[f]
    <3> SUFFICES ASSUME NEW f \in File PROVE got[f] < next'[f]
      OBVIOUS
    <3>1. next[f] \in Nat /\ next'[f] \in Nat /\ next[f] <= next'[f]
      BY <1>10
    <3>2. got[f] \in Nat /\ got[f] < next[f]
      BY <1>12
    <3> QED
      BY <3>1, <3>2
  <2>2. ASSUME NEW k \in 1..(n + 1)
        PROVE  /\ got[pipe'[k].file] < jx[k]
               /\ jx[k] < next'[pipe'[k].file]
               /\ pipe'[k] = script[pipe'[k].file][jx[k]]
    <3>1. CASE k = n + 1
      <4>1. pipe'[k] = script[g][i] /\ pipe'[k].file = g /\ jx[k] = i
        BY <1>8, <1>9, <1>11, <3>1 DEF m
      <4>2. got[g] < i /\ i < next'[g]
        BY <1>6, <1>10, <1>12
      <4> QED
        BY <4>1, <4>2
    <3>2. CASE k \in 1..n
      <4>1. /\ got[pipe[k].file] < ix[k]
            /\ ix[k] < next[pipe[k].file]
            /\ pipe[k] = script[pipe[k].file][ix[k]]
        BY <1>2, <3>2 DEF Carries
      <4>2. pipe'[k] = pipe[k] /\ jx[k] = ix[k] /\ ix[k] \in Nat /\ pipe[k].file \in File
        BY <1>9, <1>11, <1>13, <3>2
      <4>3. next[pipe[k].file] \in Nat /\ next'[pipe[k].file] \in Nat
            /\ next[pipe[k].file] <= next'[pipe[k].file]
        BY <1>10, <4>2
      <4> QED
        BY <4>1, <4>2, <4>3
    <3> QED
      BY <1>14, <3>1, <3>2
  <2>3. ASSUME NEW k \in 1..(n + 1), NEW l \in 1..(n + 1), k < l, pipe'[k].file = pipe'[l].file
        PROVE  jx[k] < jx[l]
    <3>1. k \in 1..n
      BY <1>5, <2>3
    <3>2. CASE l = n + 1
      <4>1. pipe[k].file = g /\ jx[l] = i
        BY <1>6, <1>9, <1>11, <1>8, <2>3, <3>1, <3>2
      <4>2. ix[k] < next[g]
        BY <1>2, <3>1, <4>1 DEF Carries
      <4> QED
        BY <1>6, <1>11, <3>1, <4>1, <4>2
    <3>3. CASE l \in 1..n
      BY <1>2, <1>9, <1>11, <2>3, <3>1, <3>3 DEF Carries
    <3> QED
      BY <3>2, <3>3
  <2>4. ASSUME NEW f \in File, NEW j \in Nat, got[f] < j, j < next'[f]
        PROVE  \E k \in 1..(n + 1) : pipe'[k].file = f /\ jx[k] = j
    <3>1. CASE f = g /\ j = i
      BY <1>6, <1>9, <1>11, <1>8, <3>1
    <3>2. CASE ~(f = g /\ j = i)
      <4>1. j < next[f]
        BY <1>6, <1>10, <2>4, <3>2
      <4>2. PICK k \in 1..n : pipe[k].file = f /\ ix[k] = j
        BY <1>2, <2>4, <4>1 DEF Carries
      <4> QED
        BY <1>9, <1>11, <4>2
    <3> QED
      BY <3>1, <3>2
  <2> QED
    BY <1>4, <1>9, <2>1, <2>2, <2>3, <2>4 DEF Carries
<1>16. Counts(got)'
  BY <1>2, <1>4, CountsStay
<1>17. Counts(got)' /\ Carries(got, n + 1, jx)'
  BY <1>15, <1>16
<1> QED
  BY <1>11, <1>14, <1>17 DEF Reading

\* A dying process cuts its stream short.
LEMMA ReadingCut ==
  ASSUME TypeOK, Reading, pipe' \in CutShort(pipe), UNCHANGED <<script, seen, out, next>>,
         stopped' \/ signalled'
  PROVE  Reading'
<1>1. PICK got \in [File -> Nat], n \in 0..Len(pipe) : \E ix \in [1..n -> Nat] :
        Counts(got) /\ Carries(got, n, ix)
  BY DEF Reading
<1>2. PICK ix \in [1..n -> Nat] : Counts(got) /\ Carries(got, n, ix)
  BY <1>1
<1>3. pipe \in Seq(Item)
  BY DEF TypeOK
<1>4. /\ Len(pipe) <= Len(pipe') /\ Len(pipe') \in Nat
      /\ \A k \in 1..n : pipe'[k] = pipe[k]
      /\ \A k \in DOMAIN pipe' : (k \in DOMAIN pipe /\ pipe'[k] = pipe[k]) \/ pipe'[k] = Garbage
  <2>1. CASE pipe' = pipe
    BY <1>3, <2>1
  <2>2. CASE pipe' = Append(pipe, Garbage)
    BY <1>3, <2>2, GarbageType
  <2> QED
    BY <1>3, <2>1, <2>2, CutShortType
<1>5. Counts(got)'
  BY <1>2, CountsStay
<1>6. Carries(got, n, ix)'
  <2>1. /\ \A f \in File : got[f] < next[f]
        /\ \A k \in 1..n : /\ got[pipe[k].file] < ix[k]
                           /\ ix[k] < next[pipe[k].file]
                           /\ pipe[k] = script[pipe[k].file][ix[k]]
        /\ \A k, l \in 1..n : k < l /\ pipe[k].file = pipe[l].file => ix[k] < ix[l]
        /\ \A f \in File : \A i \in Nat :
             got[f] < i /\ i < next[f] => \E k \in 1..n : pipe[k].file = f /\ ix[k] = i
    BY <1>2 DEF Carries
  <2>2. \A k \in DOMAIN pipe' : k > n => pipe'[k].kind = "garbage"
    BY <1>2, <1>4, GarbageType DEF Carries
  <2>3. UNCHANGED <<script, next>> /\ \A k \in 1..n : pipe'[k] = pipe[k]
    BY <1>4
  <2>4. \A k \in 1..n : /\ got[pipe'[k].file] < ix[k]
                        /\ ix[k] < next'[pipe'[k].file]
                        /\ pipe'[k] = script'[pipe'[k].file][ix[k]]
    BY <2>1, <2>3
  <2>5. \A k, l \in 1..n : k < l /\ pipe'[k].file = pipe'[l].file => ix[k] < ix[l]
    BY <2>1, <2>3
  <2>6. \A f \in File : \A i \in Nat :
          got[f] < i /\ i < next'[f] => \E k \in 1..n : pipe'[k].file = f /\ ix[k] = i
    BY <2>1, <2>3
  <2>7. \A f \in File : got[f] < next'[f]
    BY <2>1, <2>3
  <2> QED
    BY ONLY <2>2, <2>4, <2>5, <2>6, <2>7, stopped' \/ signalled' DEF Carries
<1>7. n \in 0..Len(pipe')
  BY <1>3, <1>4
<1> QED
  BY <1>5, <1>6, <1>7 DEF Reading

\* The decoder reads a match: the next one of its file, whatever other files
\* have written in between.
LEMMA ReadingMatch ==
  ASSUME TypeOK, Reading, DecodeMatch, UNCHANGED <<script, next, stopped, signalled>>,
         \A f \in File : next[f] <= Len(script[f]) + 1
  PROVE  Reading'
<1>1. PICK got \in [File -> Nat], n \in 0..Len(pipe) : \E ix \in [1..n -> Nat] :
        Counts(got) /\ Carries(got, n, ix)
  BY DEF Reading
<1>2. PICK ix \in [1..n -> Nat] : Counts(got) /\ Carries(got, n, ix)
  BY <1>1
<1>3. PICK m \in Item : m = Head(pipe)
  BY DEF TypeOK, DecodeMatch
<1>4. PICK f \in File : f = m.file
  BY DEF Item
<1>5. /\ pipe \in Seq(Item) /\ pipe # <<>> /\ m.kind = "match"
      /\ Len(pipe) \in Nat /\ DOMAIN pipe = 1..Len(pipe) /\ pipe[1] = m /\ 1 \in DOMAIN pipe
  BY <1>3 DEF TypeOK, DecodeMatch
<1>6. n \in Nat /\ n >= 1
  <2>1. pipe[1].kind # "garbage"
    BY <1>5
  <2>2. ~(1 > n)
    BY <1>2, <1>5, <2>1 DEF Carries
  <2> QED
    BY <1>5, <2>2
<1>7. PICK i \in Nat : i = ix[1]
  BY <1>6
<1>8. got[f] < i /\ i < next[f] /\ m = script[f][i]
  BY <1>2, <1>4, <1>5, <1>6, <1>7 DEF Carries
<1>9. next[f] \in Nat /\ got[f] \in Nat
  BY DEF TypeOK
<1>10. i = got[f] + 1
  <2> SUFFICES ASSUME got[f] + 1 < i PROVE FALSE
    BY <1>8, <1>9
  <2>1. PICK k \in 1..n : pipe[k].file = f /\ ix[k] = got[f] + 1
    BY <1>2, <1>8, <1>9 DEF Carries
  <2>2. k # 1
    BY <1>7, <2>1
  <2>3. ix[1] < ix[k]
    BY <1>2, <1>4, <1>5, <1>6, <2>1, <2>2 DEF Carries
  <2> QED
    BY <1>7, <1>9, <2>1, <2>3
<1>11. PICK gg \in [File -> Nat] : gg = [got EXCEPT ![f] = i]
  OBVIOUS
<1>12. PICK jx \in [1..(n - 1) -> Nat] : jx = [k \in 1..(n - 1) |-> ix[k + 1]]
  <2>1. \A k \in 1..(n - 1) : k + 1 \in 1..n
    BY <1>6
  <2> QED
    BY <2>1
<1>13. gg[f] = i /\ \A h \in File : h # f => gg[h] = got[h]
  BY <1>11
<1>14. \A k \in 1..(n - 1) : k + 1 \in 1..n /\ jx[k] = ix[k + 1]
  BY <1>6, <1>12
<1>15. /\ Len(pipe') = Len(pipe) - 1
       /\ DOMAIN pipe' = 1..(Len(pipe) - 1)
       /\ \A k \in 1..(Len(pipe) - 1) : pipe'[k] = pipe[k + 1]
  BY <1>5 DEF DecodeMatch
<1>16. n - 1 \in 0..Len(pipe') /\ \A k \in 1..(n - 1) : k \in 1..(Len(pipe) - 1)
  BY <1>5, <1>6, <1>15
<1>17. Carries(gg, n - 1, jx)'
  <2>1. \A h \in File : gg[h] < next[h]
    BY <1>2, <1>8, <1>13 DEF Carries
  <2>2. ASSUME NEW k \in 1..(n - 1)
        PROVE  /\ gg[pipe'[k].file] < jx[k]
               /\ jx[k] < next[pipe'[k].file]
               /\ pipe'[k] = script[pipe'[k].file][jx[k]]
    <3>1. pipe'[k] = pipe[k + 1] /\ jx[k] = ix[k + 1] /\ k + 1 \in 1..n
      BY <1>14, <1>15, <1>16
    <3>2. /\ got[pipe[k + 1].file] < ix[k + 1]
          /\ ix[k + 1] < next[pipe[k + 1].file]
          /\ pipe[k + 1] = script[pipe[k + 1].file][ix[k + 1]]
      BY <1>2, <3>1 DEF Carries
    <3>3. pipe[k + 1].file \in File
      <4>1. pipe[k + 1] \in Item
        BY <1>5, <3>1
      <4> QED
        BY <4>1 DEF Item
    <3>4. CASE pipe[k + 1].file = f
      <4>1. ix[1] < ix[k + 1]
        BY <1>2, <1>4, <1>5, <1>6, <3>1, <3>4 DEF Carries
      <4> QED
        BY <1>7, <1>13, <3>1, <3>2, <3>4, <4>1
    <3>5. CASE pipe[k + 1].file # f
      BY <1>13, <3>1, <3>2, <3>3, <3>5
    <3> QED
      BY <3>4, <3>5
  <2>3. ASSUME NEW k \in 1..(n - 1), NEW l \in 1..(n - 1), k < l, pipe'[k].file = pipe'[l].file
        PROVE  jx[k] < jx[l]
    <3>1. /\ pipe'[k] = pipe[k + 1] /\ jx[k] = ix[k + 1] /\ k + 1 \in 1..n
          /\ pipe'[l] = pipe[l + 1] /\ jx[l] = ix[l + 1] /\ l + 1 \in 1..n
      BY <1>14, <1>15, <1>16
    <3>2. k + 1 < l + 1
      BY <1>6, <2>3
    <3> QED
      BY <1>2, <2>3, <3>1, <3>2 DEF Carries
  <2>4. ASSUME NEW h \in File, NEW j \in Nat, gg[h] < j, j < next[h]
        PROVE  \E k \in 1..(n - 1) : pipe'[k].file = h /\ jx[k] = j
    <3>1. got[h] < j
      <4>1. CASE h = f
        BY <1>8, <1>9, <1>13, <2>4, <4>1
      <4>2. CASE h # f
        BY <1>13, <2>4, <4>2
      <4> QED
        BY <4>1, <4>2
    <3>2. PICK k \in 1..n : pipe[k].file = h /\ ix[k] = j
      BY <1>2, <2>4, <3>1 DEF Carries
    <3>3. k # 1
      BY <1>4, <1>5, <1>7, <1>13, <2>4, <3>2
    <3>4. k - 1 \in 1..(n - 1) /\ (k - 1) + 1 = k
      BY <1>6, <3>3
    <3>5. pipe'[k - 1] = pipe[k] /\ jx[k - 1] = ix[k]
      BY <1>14, <1>15, <1>16, <3>4
    <3> QED
      BY <3>2, <3>4, <3>5
  <2>5. ASSUME NEW k \in DOMAIN pipe', k > n - 1
        PROVE  pipe'[k].kind = "garbage"
    <3>1. k + 1 \in DOMAIN pipe /\ k + 1 > n /\ pipe'[k] = pipe[k + 1]
      BY <1>5, <1>6, <1>15, <2>5
    <3> QED
      BY <1>2, <3>1 DEF Carries
  <2>6. n - 1 < Len(pipe') => stopped \/ signalled
    BY <1>2, <1>5, <1>6, <1>15 DEF Carries
  <2>7. UNCHANGED <<script, next, stopped, signalled>>
    OBVIOUS
  <2> QED
    BY ONLY <2>1, <2>2, <2>3, <2>4, <2>5, <2>6, <2>7 DEF Carries
<1>18. \A h, t, k : Matches(h, t, k)' = Matches(h, t, k)
  BY DEF Matches
<1>19. \A h, k : Named(h, k)' = Named(h, k)
  BY DEF Named, Occurrence
<1>20. seen' = [seen EXCEPT ![f][m.text] = @ + 1] /\ m.text \in Text
  BY <1>3, <1>4 DEF DecodeMatch, Counted, Item
<1>21. \A t \in Text : Cardinality(Matches(f, t, i)) =
                         Cardinality(Matches(f, t, got[f])) + IF m.text = t THEN 1 ELSE 0
  <2>1. \A t : Cardinality(Matches(f, t, got[f] + 1)) =
                Cardinality(Matches(f, t, got[f])) +
                  IF script[f][got[f] + 1].kind = "match" /\ script[f][got[f] + 1].text = t
                  THEN 1 ELSE 0
    BY <1>9, MatchesGrow
  <2> QED
    BY <1>5, <1>8, <1>10, <2>1
<1>22. \A h \in File, t \in Text : seen'[h][t] = Cardinality(Matches(h, t, gg[h]))
  <2> SUFFICES ASSUME NEW h \in File, NEW t \in Text
               PROVE  seen'[h][t] = Cardinality(Matches(h, t, gg[h]))
    OBVIOUS
  <2>1. seen \in [File -> [Text -> Nat]]
    BY DEF TypeOK
  <2>2. seen[h][t] = Cardinality(Matches(h, t, got[h]))
    BY <1>2 DEF Counts
  <2>3. CASE h = f
    BY <1>13, <1>20, <1>21, <2>1, <2>2, <2>3
  <2>4. CASE h # f
    BY <1>13, <1>20, <2>1, <2>2, <2>4
  <2> QED
    BY <2>3, <2>4
<1>23. \A x : x \in out' <=>
         \E h \in File \ Skipped : \E j \in 1..gg[h] :
           script[h][j].kind = "match" /\ x = Named(h, j)
  <2>1. \A x : x \in out <=>
          \E h \in File \ Skipped : \E j \in 1..got[h] :
            script[h][j].kind = "match" /\ x = Named(h, j)
    BY <1>2 DEF Counts
  <2>2. \A j : j \in 1..i <=> j \in 1..got[f] \/ j = i
    BY <1>9, <1>10
  <2>3. CASE f \in Skipped
    <3>1. out' = out
      BY <1>3, <1>4, <2>3 DEF DecodeMatch
    <3> QED
      BY <1>13, <2>1, <2>3, <3>1
  <2>4. CASE f \notin Skipped
    <3>1. Counted(m)[f][m.text] = Occurrence(f, i)
      <4>1. seen'[f][m.text] = Cardinality(Matches(f, m.text, i))
        BY <1>13, <1>20, <1>22
      <4>2. Occurrence(f, i) = Cardinality(Matches(f, m.text, i))
        BY <1>8 DEF Occurrence, Matches
      <4>3. Counted(m) = seen'
        BY <1>3 DEF DecodeMatch
      <4> QED
        BY <4>1, <4>2, <4>3
    <3>2. out' = out \cup {[file |-> f, line |-> m.line, text |-> m.text,
                            n |-> Counted(m)[f][m.text]]}
      BY <1>3, <1>4, <2>4 DEF DecodeMatch
    <3>3. out' = out \cup {Named(f, i)}
      BY <1>8, <3>1, <3>2 DEF Named
    <3> QED
      BY <1>5, <1>8, <1>13, <2>1, <2>2, <2>4, <3>3
  <2> QED
    BY <2>3, <2>4
<1>24. Counts(gg)'
  BY <1>18, <1>19, <1>22, <1>23 DEF Counts
<1> QED
  BY <1>16, <1>17, <1>24 DEF Reading

-----------------------------------------------------------------------------
(* What comes of it.                                                       *)

\* ast-grep exits by itself only when it has written everything.
WrittenInv ==
  /\ \A f \in File : next[f] <= Len(script[f]) + 1
  /\ child = "exited" /\ ~stopped => AllWritten

LEMMA WrittenStep == TypeOK /\ WrittenInv /\ [Next]_vars => WrittenInv'
<1> SUFFICES ASSUME TypeOK, WrittenInv, [Next]_vars PROVE WrittenInv'
  OBVIOUS
<1>1. CASE Emit
  <2>1. PICK f \in File : /\ next[f] <= Len(script[f])
                          /\ next' = [next EXCEPT ![f] = @ + 1]
    BY <1>1 DEF Emit
  <2>2. \A g \in File : Len(script[g]) \in Nat /\ next[g] \in Nat
    BY ScriptType DEF TypeOK
  <2>3. \A g \in File : next'[g] <= Len(script[g]) + 1
    BY <2>1, <2>2 DEF TypeOK, WrittenInv
  <2>4. child' = "running" /\ script' = script
    BY <1>1 DEF Emit
  <2> QED
    BY <2>3, <2>4 DEF WrittenInv
<1>2. CASE Exit
  BY <1>2 DEF Exit, WrittenInv, AllWritten
<1>3. CASE Crash
  BY <1>3 DEF Crash, WrittenInv
<1>4. CASE UNCHANGED <<script, next>> /\ (child' = "exited" => child = "exited" /\ stopped' = stopped)
  BY <1>4 DEF WrittenInv, AllWritten
<1>5. CASE ~(Emit \/ Exit \/ Crash)
  <2>1. UNCHANGED <<script, next>> /\ (child' = "exited" => child = "exited" /\ stopped' = stopped)
    BY <1>5 DEF Next, vars, childVars, Parent, Child, Resolve, Probe, Start, Decode, Drain, Wait,
       Extras, Hang, Expire, Cancel, KillChild, Returned
  <2> QED
    BY <1>4, <2>1
<1> QED
  BY <1>1, <1>2, <1>3, <1>5

\* A whole or a partial reading yields findings of the tree and no others.
LEMMA ReadingIsStable == TypeOK /\ WrittenInv /\ Reading => out \subseteq Expected
<1> SUFFICES ASSUME TypeOK, WrittenInv, Reading, NEW x \in out PROVE x \in Expected
  OBVIOUS
<1>1. PICK got \in [File -> Nat], n \in 0..Len(pipe) : \E ix \in [1..n -> Nat] :
        Counts(got) /\ Carries(got, n, ix)
  BY DEF Reading
<1>2. PICK ix \in [1..n -> Nat] : Counts(got) /\ Carries(got, n, ix)
  BY <1>1
<1>3. PICK f \in File \ Skipped : \E i \in 1..got[f] :
        script[f][i].kind = "match" /\ x = Named(f, i)
  BY <1>2 DEF Counts
<1>4. got[f] \in Nat /\ next[f] \in Nat /\ Len(script[f]) \in Nat
  BY ScriptType DEF TypeOK
<1>5. got[f] <= Len(script[f])
  BY <1>2, <1>4 DEF Carries, WrittenInv
<1>6. \A i \in 1..got[f] : i \in 1..Len(script[f])
  BY <1>4, <1>5
<1> QED
  BY <1>3, <1>6, ExpectedNamed DEF TypeOK

\* One that came to the end of a stream that was written to its end yields all.
LEMMA ReadingIsComplete ==
  ASSUME TypeOK, WrittenInv, Reading, pipe = <<>>, AllWritten
  PROVE  out = Expected
<1>1. PICK got \in [File -> Nat], n \in 0..Len(pipe) : \E ix \in [1..n -> Nat] :
        Counts(got) /\ Carries(got, n, ix)
  BY DEF Reading
<1>2. PICK ix \in [1..n -> Nat] : Counts(got) /\ Carries(got, n, ix)
  BY <1>1
<1>3. \A f \in File : got[f] \in Nat /\ next[f] \in Nat /\ Len(script[f]) \in Nat
  BY ScriptType DEF TypeOK
<1>4. n = 0
  OBVIOUS
<1>5. \A f \in File : ~(got[f] + 1 < next[f])
  BY <1>2, <1>3, <1>4 DEF Carries
<1>6. \A f \in File : got[f] = Len(script[f])
  BY <1>2, <1>3, <1>5 DEF Carries, WrittenInv, AllWritten
<1>7. \A x : x \in out <=> \E f \in File \ Skipped : \E i \in 1..Len(script[f]) :
                               script[f][i].kind = "match" /\ x = Named(f, i)
  BY <1>2, <1>6 DEF Counts
<1>8. \A x : x \in Expected <=> \E f \in File \ Skipped : \E i \in 1..Len(script[f]) :
                                    script[f][i].kind = "match" /\ x = Named(f, i)
  BY ExpectedNamed DEF TypeOK
<1> QED
  BY <1>7, <1>8

\* Output that is malformed comes from ast-grep's own or from its death.
LEMMA ReadingGarbage ==
  ASSUME TypeOK, WrittenInv, Reading, pipe # <<>>, Head(pipe).kind = "garbage"
  PROVE  Malformed \/ stopped \/ signalled
<1>1. PICK got \in [File -> Nat], n \in 0..Len(pipe) : \E ix \in [1..n -> Nat] :
        Counts(got) /\ Carries(got, n, ix)
  BY DEF Reading
<1>2. PICK ix \in [1..n -> Nat] : Counts(got) /\ Carries(got, n, ix)
  BY <1>1
<1>3. Len(pipe) \in Nat /\ Len(pipe) > 0 /\ pipe[1] = Head(pipe) /\ pipe[1] \in Item
  BY DEF TypeOK
<1>4. CASE n = 0
  BY <1>2, <1>3, <1>4 DEF Carries
<1>5. CASE n # 0
  <2>1. PICK f \in File : f = pipe[1].file
    BY <1>3 DEF Item
  <2>2. 1 \in 1..n
    BY <1>3, <1>5
  <2>3. got[f] < ix[1] /\ ix[1] < next[f] /\ pipe[1] = script[f][ix[1]]
    BY <1>2, <2>1, <2>2 DEF Carries
  <2>4. got[f] \in Nat /\ ix[1] \in Nat /\ next[f] \in Nat /\ Len(script[f]) \in Nat
    BY <2>2, ScriptType DEF TypeOK
  <2>5. ix[1] \in 1..Len(script[f])
    BY <2>3, <2>4 DEF WrittenInv
  <2>6. ix[1] \in DOMAIN script[f] /\ script[f][ix[1]].kind = "garbage"
    BY <1>3, <2>3, <2>5, ScriptType DEF TypeOK
  <2> QED
    BY <2>6 DEF Malformed
<1> QED
  BY <1>4, <1>5

\* A scan that succeeds, or goes on to the extras.
Succeeds ==
  /\ child = "exited" /\ code # 2 /\ ~signalled
  /\ stopped => code = 1 /\ out # {}
  /\ ~stopped => /\ AllWritten
                 /\ IF broke THEN Malformed /\ out # {} ELSE out = Expected

OutcomeInv ==
  /\ pc \in {"resolve", "probe", "start", "decode"} => ~broke /\ Reading
  /\ out \subseteq Expected
  /\ broke => Malformed \/ stopped \/ signalled
  /\ pc \in {"drain", "wait"} /\ ~broke =>
       /\ pipe = <<>> /\ child \in {"exited", "killed"}
       /\ child = "exited" /\ ~stopped => out = Expected
  /\ pc = "extras" \/ result = "ok" => Succeeds

LEMMA OutcomeInit == Init => OutcomeInv
<1> SUFFICES ASSUME Init PROVE OutcomeInv
  OBVIOUS
<1>1. PICK got \in [File -> Nat] : got = [f \in File |-> 0]
  OBVIOUS
<1>2. PICK ix \in [1..0 -> Nat] : ix = [k \in 1..0 |-> 0]
  OBVIOUS
<1>3. \A f \in File, t \in Text : Cardinality(Matches(f, t, got[f])) = 0
  <2>1. \A f \in File, t \in Text : Matches(f, t, got[f]) = {}
    BY <1>1 DEF Matches
  <2> QED
    BY <2>1, FS_EmptySet
<1>4. Counts(got)
  BY <1>1, <1>3 DEF Init, Counts
<1>5. Carries(got, 0, ix)
  BY <1>1 DEF Init, Carries
<1>6. 0 \in 0..Len(pipe)
  BY DEF Init
<1>7. Reading
  BY <1>4, <1>5, <1>6 DEF Reading
<1> QED
  BY <1>7 DEF Init, OutcomeInv

LEMMA OutcomeStep ==
  TypeOK /\ ProcessInv /\ WrittenInv /\ WrittenInv' /\ TypeOK' /\ OutcomeInv /\ [Next]_vars =>
    OutcomeInv'
<1> SUFFICES ASSUME TypeOK, ProcessInv, WrittenInv, WrittenInv', TypeOK', OutcomeInv, [Next]_vars
             PROVE  OutcomeInv'
  OBVIOUS
<1>1. UNCHANGED script
  BY DEF Next, vars, Parent, Child, Resolve, Probe, Start, Decode, Drain, Wait, Extras, Emit,
     Exit, Crash, Hang, Expire, Cancel, KillChild, Returned
<1>2. Expected' = Expected /\ Malformed' = Malformed
  BY <1>1 DEF Expected, Numbered, Occurrence, Malformed
<1>3. ASSUME UNCHANGED <<next, child, code, stopped, signalled, broke, out>>
      PROVE  Succeeds' <=> Succeeds
  BY <1>1, <1>2, <1>3 DEF Succeeds, AllWritten
\* A step of Scan before it reads, or of the clock.
<1>4. ASSUME UNCHANGED <<next, child, code, stopped, signalled, seen, out, broke, pipe>>,
             pc' \in {"resolve", "probe", "start", "decode"} =>
               pc \in {"resolve", "probe", "start", "decode"},
             pc' \in {"drain", "wait"} => pc \in {"drain", "wait"},
             pc' = "extras" => pc = "extras",
             result' = "ok" => result = "ok" \/ pc = "extras"
      PROVE  OutcomeInv'
  <2>1. Reading => Reading'
    BY <1>1, <1>4, ReadingStays
  <2> QED
    BY <1>2, <1>3, <1>4, <2>1 DEF OutcomeInv
<1>5. CASE Resolve \/ Probe \/ Extras \/ Expire \/ Cancel \/ UNCHANGED vars
  BY <1>4, <1>5 DEF Resolve, Probe, Extras, Expire, Cancel, vars, childVars, decodeVars, Return
<1>6. CASE Start
  <2>1. Reading'
    BY <1>1, <1>6, ReadingStays DEF Start, childVars, decodeVars, OutcomeInv
  <2> QED
    BY <1>2, <1>6, <2>1 DEF Start, decodeVars, Return, OutcomeInv, ProcessInv
<1>7. CASE Decode
  <2>1. UNCHANGED <<next, child, code, stopped, signalled>> /\ pc = "decode" /\ result = "none"
    BY <1>7 DEF Decode, childVars, ProcessInv
  <2>2. Reading /\ ~broke
    BY <2>1 DEF OutcomeInv
  <2>3. CASE DecodeMatch
    <3>1. Reading'
      BY <1>1, <2>1, <2>2, <2>3, ReadingMatch DEF WrittenInv
    <3>2. (out \subseteq Expected)'
      BY <3>1, ReadingIsStable, PTL
    <3> QED
      BY <1>2, <2>1, <2>2, <2>3, <3>1, <3>2 DEF DecodeMatch, OutcomeInv
  <2>4. CASE DecodeGarbage
    <3>1. Malformed \/ stopped \/ signalled
      BY <2>2, <2>4, ReadingGarbage DEF DecodeGarbage
    <3> QED
      BY <1>2, <2>1, <2>4, <3>1 DEF DecodeGarbage, OutcomeInv
  <2>5. CASE DecodeEnd
    <3>1. child = "exited" /\ ~stopped => out = Expected
      BY <2>2, <2>5, ReadingIsComplete DEF DecodeEnd, EndOfFile, WrittenInv
    <3> QED
      BY <1>2, <2>1, <2>2, <2>5, <3>1 DEF DecodeEnd, EndOfFile, decodeVars, OutcomeInv
  <2> QED
    BY <1>7, <2>3, <2>4, <2>5 DEF Decode
<1>8. CASE Drain
  <2>1. UNCHANGED <<next, child, code, stopped, signalled, seen, out, broke, result>> /\ pc = "drain"
    BY <1>8 DEF Drain, childVars, decodeVars
  <2>2. pc' \in {"drain", "wait"} /\ (pipe = <<>> => pipe' = <<>>)
    BY <1>8, <2>1 DEF Drain
  <2> QED
    BY <1>2, <1>3, <2>1, <2>2 DEF OutcomeInv
<1>9. CASE Wait
  <2>1. /\ UNCHANGED <<next, child, code, stopped, signalled, seen, out, broke, pipe>>
        /\ pc = "wait" /\ child \in {"exited", "killed"} /\ result # "ok"
    BY <1>9 DEF Wait, childVars, decodeVars, ProcessInv
  <2> DEFINE err == WaitErr(child = "killed" \/ code # 0 \/ signalled, out # {})
  <2>2. CASE err # "ok" /\ Return(err)
    BY <1>2, <2>1, <2>2 DEF OutcomeInv, Return
  <2>3. CASE err = "ok" /\ broke /\ out = {} /\ Return("failed")
    BY <1>2, <2>1, <2>3 DEF OutcomeInv, Return
  <2>4. CASE err = "ok" /\ ~(broke /\ out = {}) /\ pc' = "extras" /\ UNCHANGED result
    <3>1. /\ child = "exited" /\ code # 2 /\ ~signalled
          /\ stopped => code = 1 /\ out # {}
      BY <2>1, <2>4 DEF WaitErr, ProcessInv, TypeOK
    <3>2. ~stopped => AllWritten
      BY <3>1 DEF WrittenInv
    <3>3. Succeeds
      BY <2>1, <2>4, <3>1, <3>2 DEF Succeeds, OutcomeInv
    <3> QED
      BY <1>2, <1>3, <2>1, <2>4, <3>3 DEF OutcomeInv
  <2> QED
    BY <1>9, <2>2, <2>3, <2>4 DEF Wait
\* A step of ast-grep's, or its death.
<1>10. ASSUME child \in {"running", "hung"}, pc' = pc, result' = result,
              UNCHANGED <<seen, out, broke>>, ~stopped /\ ~signalled,
              Reading => Reading'
       PROVE  OutcomeInv'
  <2>1. pc \in {"decode", "drain", "wait"} /\ result # "ok"
    BY <1>10 DEF ProcessInv, TypeOK
  <2> QED
    BY <1>2, <1>10, <2>1 DEF OutcomeInv
<1>11. CASE Emit
  <2>1. child = "running" /\ ~stopped /\ ~signalled
    BY <1>11 DEF Emit, ProcessInv
  <2>2. Reading => Reading'
    BY <1>11, <2>1, ReadingEmit
  <2> QED
    BY <1>10, <1>11, <2>1, <2>2 DEF Emit, decodeVars
<1>12. CASE Exit \/ Hang
  <2>1. child = "running" /\ ~stopped /\ ~signalled
    BY <1>12 DEF Exit, Hang, ProcessInv
  <2>2. Reading => Reading'
    BY <1>1, <1>12, <2>1, ReadingStays DEF Exit, Hang, decodeVars
  <2> QED
    BY <1>10, <1>12, <2>1, <2>2 DEF Exit, Hang, decodeVars
<1>13. CASE Crash
  <2>1. child = "running" /\ ~stopped /\ ~signalled
    BY <1>13 DEF Crash, ProcessInv
  <2>2. Reading => Reading'
    BY <1>13, ReadingCut DEF Crash, decodeVars
  <2> QED
    BY <1>10, <1>13, <2>1, <2>2 DEF Crash, decodeVars
<1>14. CASE KillChild
  <2>1. child # "unborn" /\ child # "killed"
    BY <1>14 DEF KillChild, ProcessInv
  <2>2. CASE child = "exited"
    <3>1. Reading => Reading'
      BY <1>1, <1>14, <2>2, ReadingStays DEF KillChild, decodeVars
    <3>2. pc \in {"decode", "drain", "wait"} /\ result # "ok"
      BY <1>14 DEF KillChild, ProcessInv
    <3> QED
      BY <1>2, <1>14, <2>2, <3>1, <3>2 DEF KillChild, decodeVars, OutcomeInv
  <2>3. CASE child \in {"running", "hung"}
    <3>1. ~stopped /\ ~signalled
      BY <2>3 DEF ProcessInv
    <3>2. Reading => Reading'
      BY <1>14, <2>3, ReadingCut DEF KillChild, decodeVars
    <3> QED
      BY <1>10, <1>14, <2>3, <3>1, <3>2 DEF KillChild, decodeVars
  <2> QED
    BY <2>1, <2>2, <2>3 DEF TypeOK
<1> QED
  BY <1>5, <1>6, <1>7, <1>8, <1>9, <1>11, <1>12, <1>13, <1>14 DEF Next, Parent, Child, Returned

LEMMA OutcomeCorrect == Spec => []OutcomeInv
<1>1. Init => WrittenInv
  <2>1. Init => \A f \in File : next[f] = 1 /\ Len(script[f]) \in Nat
    BY ScriptType DEF Init
  <2> QED
    BY <2>1 DEF Init, WrittenInv
<1> QED
  BY <1>1, OutcomeInit, OutcomeStep, WrittenStep, ProcessCorrect, TypeCorrect, PTL DEF Spec

\* A finding's number depends on its own file only, however ast-grep's workers
\* interleave the files and wherever the stream breaks off (runner.go
\* discriminator).
THEOREM FingerprintsAreStable == Spec => []StableFingerprints
<1>1. OutcomeInv => StableFingerprints
  BY DEF OutcomeInv, StableFingerprints
<1> QED
  BY <1>1, OutcomeCorrect, PTL

\* A scan that succeeds has every match of the tree, unless ast-grep's own
\* output is malformed or ast-grep stopped early with exit code 1 after a match
\* (runner.go executeScan, waitErr).
THEOREM SuccessIsWhole == Spec => []NoPartialSuccess
<1>1. OutcomeInv => NoPartialSuccess
  BY DEF OutcomeInv, Succeeds, NoPartialSuccess
<1> QED
  BY <1>1, OutcomeCorrect, PTL

-----------------------------------------------------------------------------
(* The scan seen from outside.                                               *)

\* What there is to find is there from the beginning, what has been answered
\* stays, and ast-grep stops early before there is an answer.
LEMMA AnswerStays ==
  ASSUME TypeOK, ProcessInv, [Next]_vars
  PROVE  /\ script' = script
         /\ result # "none" => result' = result /\ out' = out
         /\ result' # result => UNCHANGED <<stopped, code>>
         /\ UNCHANGED <<stopped, code>> \/ (~stopped /\ result = "none")
<1>1. result # "none" <=> pc = "done"
  BY DEF ProcessInv
<1>2. CASE Parent
  BY <1>1, <1>2 DEF Parent, Resolve, Probe, Start, Decode, Drain, Wait, Extras, childVars
<1>3. CASE Exit \/ Crash
  BY <1>1, <1>3 DEF ProcessInv, Exit, Crash, decodeVars
<1>4. CASE ~(Parent \/ Exit \/ Crash)
  BY <1>4 DEF Next, vars, childVars, decodeVars, Child, Emit, Hang, Expire, Cancel, KillChild,
     Returned
<1> QED
  BY <1>2, <1>3, <1>4

\* Whoever asked for the scan may take it for one step: every step of it is a
\* step of TierContract, or none that can be seen (runner.go Scan; cli/scan.go
\* runEngines).
THEOREM ScanKeepsContract == Spec => KeepsContract
<1> DEFINE Inv == TypeOK /\ ProcessInv /\ StableFingerprints /\ NoPartialSuccess
<1>1. Init => Contract!Init
  BY DEF Init, Contract!Init
<1>2. Inv /\ Inv' /\ [Next]_vars => [Contract!Next]_(Contract!tvars)
  <2> SUFFICES ASSUME Inv, Inv', [Next]_vars
               PROVE  [Contract!Next]_(Contract!tvars)
    OBVIOUS
  <2>1. /\ script' = script
        /\ result # "none" => result' = result /\ out' = out
        /\ result' # result => UNCHANGED <<stopped, code>>
        /\ UNCHANGED <<stopped, code>> \/ (~stopped /\ result = "none")
    BY AnswerStays
  <2>2. Expected' = Expected /\ Malformed' = Malformed
    BY <2>1 DEF Expected, Numbered, Occurrence, Malformed
  <2>3. CASE result' = result
    <3>1. CASE UNCHANGED <<stopped, code>>
      BY <2>1, <2>2, <2>3, <3>1 DEF Contract!tvars
    <3>2. CASE ~stopped /\ result = "none"
      BY <2>1, <2>2, <2>3, <3>2 DEF Contract!tvars, Contract!Next, Contract!Break
    <3> QED
      BY <2>1, <3>1, <3>2
  <2>4. CASE result = "none" /\ result' = "ok"
    <3>1. UNCHANGED <<stopped, code>>
      BY <2>1, <2>4
    <3>2. \/ out' = Expected
          \/ /\ Malformed \/ (stopped /\ code = 1)
             /\ out' \subseteq Expected /\ out' # {}
      BY <2>2, <2>4, <3>1 DEF NoPartialSuccess, StableFingerprints
    <3> QED
      BY <2>2, <2>4, <3>1, <3>2 DEF Contract!Next, Contract!Deliver
  <2>5. CASE result = "none" /\ result' \notin {"none", "ok"}
    BY <2>1, <2>2, <2>5 DEF Contract!Next, Contract!Refuse
  <2> QED
    BY <2>1, <2>3, <2>4, <2>5
<1> QED
  BY <1>1, <1>2, TypeCorrect, ProcessCorrect, FingerprintsAreStable, SuccessIsWhole, PTL
  DEF Spec, KeepsContract, Contract!Spec
=============================================================================
