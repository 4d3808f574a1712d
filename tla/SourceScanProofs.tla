-------------------------- MODULE SourceScanProofs --------------------------
(***************************************************************************)
(* Theorems about SourceScan, for any tree, any spelling of its root, any  *)
(* working directory, and a tree that may lose anything at any moment.     *)
(***************************************************************************)
EXTENDS SourceScan, FiniteSetTheorems, TLAPS


-----------------------------------------------------------------------------
(* Names below names.                                                      *)

LEMMA PrefixIs ==
  ASSUME NEW p \in Seq(Name), NEW q \in Seq(Name)
  PROVE  IsPrefix(p, q) <=> Len(p) <= Len(q) /\ \A i \in 1..Len(p) : p[i] = q[i]
  BY DEF IsPrefix

LEMMA PrefixOfPrefix ==
  ASSUME NEW p \in Seq(Name), NEW q \in Seq(Name), NEW r \in Seq(Name), IsPrefix(q, r)
  PROVE  /\ IsPrefix(p, q) => IsPrefix(p, r)
         /\ IsPrefix(p, r) /\ Len(p) <= Len(q) => IsPrefix(p, q)
  BY PrefixIs

LEMMA SamePrefix ==
  ASSUME NEW p \in Seq(Name), NEW q \in Seq(Name), IsPrefix(p, q), Len(p) = Len(q)
  PROVE  p = q
  BY DEF IsPrefix

LEMMA CutIsPrefix ==
  ASSUME NEW p \in Seq(Name), NEW n \in 0..Len(p)
  PROVE  /\ SubSeq(p, 1, n) \in Seq(Name) /\ Len(SubSeq(p, 1, n)) = n
         /\ IsPrefix(SubSeq(p, 1, n), p)
<1>1. /\ SubSeq(p, 1, n) \in Seq(Name) /\ Len(SubSeq(p, 1, n)) = n
      /\ \A i \in 1..n : SubSeq(p, 1, n)[i] = p[i]
  OBVIOUS
<1>2. PICK q \in Seq(Name) : q = SubSeq(p, 1, n)
  BY <1>1
<1>3. Len(q) <= Len(p) /\ \A i \in 1..Len(q) : q[i] = p[i]
  BY <1>1, <1>2
<1>4. IsPrefix(q, p)
  BY <1>3, PrefixIs
<1> QED
  BY <1>1, <1>2, <1>4

\* The names below a prefix, and back.
LEMMA RestOf ==
  ASSUME NEW p \in Seq(Name), NEW q \in Seq(Name), IsPrefix(p, q)
  PROVE  /\ SubSeq(q, Len(p) + 1, Len(q)) \in Seq(Name)
         /\ Len(SubSeq(q, Len(p) + 1, Len(q))) = Len(q) - Len(p)
         /\ p \o SubSeq(q, Len(p) + 1, Len(q)) = q
         /\ SubSeq(q, 1, Len(p)) = p
<1>1. Len(p) <= Len(q) /\ \A i \in 1..Len(p) : p[i] = q[i]
  BY PrefixIs
<1> QED
  BY <1>1

LEMMA BelowJoined ==
  ASSUME NEW p \in Seq(Name), NEW q \in Seq(Name)
  PROVE  /\ p \o q \in Seq(Name) /\ Len(p \o q) = Len(p) + Len(q)
         /\ IsPrefix(p, p \o q)
         /\ SubSeq(p \o q, Len(p) + 1, Len(p \o q)) = q
<1>1. /\ p \o q \in Seq(Name) /\ Len(p \o q) = Len(p) + Len(q)
      /\ \A i \in 1..Len(p) : (p \o q)[i] = p[i]
      /\ \A i \in 1..Len(q) : (p \o q)[Len(p) + i] = q[i]
  OBVIOUS
<1>2. PICK r \in Seq(Name) : r = p \o q
  BY <1>1
<1>3. Len(p) <= Len(r) /\ \A i \in 1..Len(p) : p[i] = r[i]
  BY <1>1, <1>2
<1>4. IsPrefix(p, r)
  BY <1>3, PrefixIs
<1>5. SubSeq(p \o q, Len(p) + 1, Len(p \o q)) = q
  BY <1>1
<1> QED
  BY <1>1, <1>2, <1>5, <1>4

LEMMA JoinedApart ==
  ASSUME NEW p \in Seq(Name), NEW q \in Seq(Name), NEW r \in Seq(Name), p \o q = p \o r
  PROVE  q = r
<1>1. SubSeq(p \o q, Len(p) + 1, Len(p \o q)) = q
  BY BelowJoined
<1>2. SubSeq(p \o r, Len(p) + 1, Len(p \o r)) = r
  BY BelowJoined
<1> QED
  BY <1>1, <1>2

LEMMA OneName ==
  ASSUME NEW p \in Seq(Name), Len(p) = 1
  PROVE  p = <<p[1]>>
  OBVIOUS

LEMMA JoinedTwice ==
  ASSUME NEW p \in Seq(Name), NEW q \in Seq(Name), NEW r \in Seq(Name)
  PROVE  (p \o q) \o r = p \o (q \o r)
  OBVIOUS

-----------------------------------------------------------------------------
(* What paths denote.                                                      *)

LEMMA DenotedType ==
  ASSUME NEW cwd \in Seq(Name), NEW p \in Path
  PROVE  Denoted(cwd, p) \in Seq(Name)
<1>1. SubSeq(cwd, 1, Len(cwd) - p.ups) \in Seq(Name)
  BY DEF Path
<1> QED
  BY <1>1 DEF Denoted, Path

LEMMA RelativeType ==
  ASSUME NEW names \in Seq(Name)
  PROVE  /\ Relative(names) \in Path /\ Absolute(names) \in Path
         /\ ~Relative(names).abs /\ Relative(names).ups = 0 /\ Relative(names).names = names
         /\ Absolute(names).abs /\ Absolute(names).ups = 0 /\ Absolute(names).names = names
  BY DEF Relative, Absolute, Path

LEMMA JoinType ==
  ASSUME NEW p \in Path, NEW q \in Path
  PROVE  Join(p, q) \in Path /\ Join(p, q).abs = p.abs
<1>1. SubSeq(p.names, 1, Len(p.names) - q.ups) \o q.names \in Seq(Name)
  BY DEF Path
<1>2. (IF p.abs \/ q.ups <= Len(p.names) THEN p.ups ELSE p.ups + (q.ups - Len(p.names))) \in Nat
  BY DEF Path
<1> QED
  BY <1>1, <1>2 DEF Join, Path

\* Joined to names, a path keeps its beginning.
LEMMA JoinNames ==
  ASSUME NEW p \in Path, NEW q \in Path, q.ups = 0
  PROVE  /\ Join(p, q) \in Path
         /\ Join(p, q).abs = p.abs
         /\ Join(p, q).ups = p.ups
         /\ Join(p, q).names = p.names \o q.names
<1>1. SubSeq(p.names, 1, Len(p.names) - q.ups) = p.names /\ q.ups <= Len(p.names)
  BY DEF Path
<1>2. Join(p, q).ups = p.ups
  BY <1>1 DEF Join
<1>3. Join(p, q).names = SubSeq(p.names, 1, Len(p.names) - q.ups) \o q.names
  BY Zenon DEF Join
<1> QED
  BY <1>1, <1>2, <1>3, JoinType

LEMMA DenotedJoin ==
  ASSUME NEW cwd \in Seq(Name), NEW p \in Path, NEW q \in Path, q.ups = 0
  PROVE  Denoted(cwd, Join(p, q)) = Denoted(cwd, p) \o q.names
<1>1. /\ SubSeq(cwd, 1, Len(cwd) - p.ups) \in Seq(Name)
      /\ p.names \in Seq(Name) /\ q.names \in Seq(Name)
  BY DEF Path
<1>2. (SubSeq(cwd, 1, Len(cwd) - p.ups) \o p.names) \o q.names
        = SubSeq(cwd, 1, Len(cwd) - p.ups) \o (p.names \o q.names)
  BY <1>1, JoinedTwice
<1>3. Join(p, q).abs = p.abs /\ Join(p, q).ups = p.ups /\ Join(p, q).names = p.names \o q.names
  BY JoinNames
<1>4. CASE p.abs
  <2>1. Denoted(cwd, p) = p.names
    BY <1>4, Zenon DEF Denoted
  <2>2. Denoted(cwd, Join(p, q)) = Join(p, q).names
    BY <1>3, <1>4, Zenon DEF Denoted
  <2> QED
    BY <1>3, <2>1, <2>2, Zenon
<1>5. CASE ~p.abs
  <2>1. Denoted(cwd, p) = SubSeq(cwd, 1, Len(cwd) - p.ups) \o p.names
    BY <1>5, Zenon DEF Denoted
  <2>2. Denoted(cwd, Join(p, q)) = SubSeq(cwd, 1, Len(cwd) - p.ups) \o (p.names \o q.names)
    BY <1>3, <1>5, Zenon DEF Denoted
  <2> QED
    BY <1>2, <2>1, <2>2, Zenon
<1> QED
  BY <1>4, <1>5

\* The directory of a file that has a name.
LEMMA DenotedDir ==
  ASSUME NEW cwd \in Seq(Name), NEW p \in Path, p.names # <<>>
  PROVE  /\ Dir(p) \in Path /\ Len(Denoted(cwd, Dir(p))) = Len(Denoted(cwd, p)) - 1
         /\ Base(p) = p.names[Len(p.names)] /\ Base(p) \in Name
         /\ Denoted(cwd, p) # <<>>
         /\ Denoted(cwd, p)[Len(Denoted(cwd, p))] = Base(p)
<1>1. p.names \in Seq(Name) /\ Len(p.names) > 0 /\ p.ups \in Nat
  BY DEF Path
<1>2. Front(p.names) \in Seq(Name) /\ Len(Front(p.names)) = Len(p.names) - 1
  BY <1>1 DEF Front
<1>3. Dir(p) = [abs |-> p.abs, ups |-> p.ups, names |-> Front(p.names)]
  BY DEF Dir, Path
<1>4. Base(p) = p.names[Len(p.names)] /\ Base(p) \in Name
  BY <1>1 DEF Base, Last
<1>5. SubSeq(cwd, 1, Len(cwd) - p.ups) \in Seq(Name)
  BY <1>1
<1>6. Dir(p).abs = p.abs /\ Dir(p).ups = p.ups /\ Dir(p).names = Front(p.names)
  BY <1>3
<1>7. PICK there \in Seq(Name) :
        /\ Denoted(cwd, p) = IF p.abs THEN p.names ELSE there \o p.names
        /\ Denoted(cwd, Dir(p)) = IF p.abs THEN Front(p.names) ELSE there \o Front(p.names)
  BY <1>5, <1>6, Zenon DEF Denoted
<1>8. Dir(p) \in Path
  BY <1>2, <1>3 DEF Path
<1> QED
  BY <1>1, <1>2, <1>4, <1>8, <1>7

-----------------------------------------------------------------------------
(* The tree at any moment.                                                 *)

TreeInv ==
  /\ Root \in Path /\ (Root.abs => Root.ups = 0) /\ scan.cwd \in Seq(Name)
  /\ \E s \in Scans : scan.root = s.root /\ DOMAIN entries \subseteq DOMAIN s.entries
  /\ IsFiniteSet(DOMAIN entries) /\ DOMAIN entries \subseteq Seq(Name)
  /\ \A p \in DOMAIN entries :
       /\ entries[p].kind \in {"file", "dir"}
       /\ \A m \in Lined(entries[p]) : m.line \in Nat
       /\ entries[p].kind = "file" => Under(p) = {}
       /\ IsPrefix(RootAt, p) => \A n \in Len(RootAt)..Len(p) : SubSeq(p, 1, n) \in DOMAIN entries
  /\ single \in BOOLEAN
  /\ RootAt \in DOMAIN entries => (single <=> entries[RootAt].kind = "file")
  /\ single => Root.names # <<>>

LEMMA RootAtType ==
  ASSUME TreeInv
  PROVE  RootAt \in Seq(Name)
  BY DenotedType DEF TreeInv, RootAt

LEMMA UnderIs ==
  ASSUME TreeInv, NEW p \in Seq(Name), NEW q \in Under(p)
  PROVE  q \in DOMAIN entries /\ q \in Seq(Name) /\ Len(q) > Len(p) /\ IsPrefix(p, q) /\ q # p
  BY DEF TreeInv, Under

\* What is there below the root has the root above it.
LEMMA RootStands ==
  ASSUME TreeInv, NEW q \in DOMAIN entries, IsPrefix(RootAt, q)
  PROVE  /\ RootAt \in DOMAIN entries
         /\ single => q = RootAt
<1>1. q \in Seq(Name) /\ RootAt \in Seq(Name)
  BY RootAtType DEF TreeInv
<1>2. Len(RootAt) <= Len(q) /\ SubSeq(q, 1, Len(RootAt)) = RootAt
  BY <1>1, RestOf, PrefixIs
<1>3. RootAt \in DOMAIN entries
  <2>1. \A n \in Len(RootAt)..Len(q) : SubSeq(q, 1, n) \in DOMAIN entries
    BY DEF TreeInv
  <2>2. Len(RootAt) \in Len(RootAt)..Len(q)
    BY <1>1, <1>2
  <2> QED
    BY <1>2, <2>1, <2>2
<1>4. single => Under(RootAt) = {}
  BY <1>3 DEF TreeInv
<1>5. ASSUME q # RootAt PROVE q \in Under(RootAt)
  BY <1>1, <1>2, <1>5 DEF Under
<1> QED
  BY <1>3, <1>4, <1>5

LEMMA TreeInit == Init => TreeInv
<1> SUFFICES ASSUME Init PROVE TreeInv
  OBVIOUS
<1>1. PICK s \in Scans :
        /\ scan = [root |-> s.root, cwd |-> s.cwd, engine |-> s.engine]
        /\ entries = s.entries
        /\ single = IsFile(RootAt)
  BY DEF Init
<1>2. ScanAssumed(s)
  BY ScansAssumption
<1>3. Root = s.root /\ scan.cwd = s.cwd /\ RootAt = Denoted(s.cwd, s.root)
  BY <1>1 DEF Root, RootAt
<1>4. /\ Root \in Path /\ (Root.abs => Root.ups = 0) /\ scan.cwd \in Seq(Name)
      /\ IsFiniteSet(DOMAIN entries) /\ DOMAIN entries \subseteq Seq(Name)
  BY <1>1, <1>2, <1>3 DEF ScanAssumed
<1>5. ASSUME NEW p \in DOMAIN entries
      PROVE  /\ entries[p].kind \in {"file", "dir"}
             /\ \A m \in Lined(entries[p]) : m.line \in Nat
             /\ entries[p].kind = "file" => Under(p) = {}
             /\ IsPrefix(RootAt, p) => \A n \in Len(RootAt)..Len(p) : SubSeq(p, 1, n) \in DOMAIN entries
  BY <1>1, <1>2, <1>3 DEF ScanAssumed, Under
<1>6. /\ single \in BOOLEAN
      /\ RootAt \in DOMAIN entries => (single <=> entries[RootAt].kind = "file")
      /\ single => Root.names # <<>>
  BY <1>1, <1>2, <1>3 DEF ScanAssumed, IsFile
<1>7. scan.root = s.root /\ DOMAIN entries \subseteq DOMAIN s.entries
  BY <1>1
<1> QED
  BY <1>4, <1>5, <1>6, <1>7 DEF TreeInv

\* Nothing in the tree changes but that a part of it goes.
LEMMA TreeShrinks ==
  ASSUME TreeInv, [Next]_vars
  PROVE  /\ UNCHANGED <<scan, single>>
         /\ DOMAIN entries' \subseteq DOMAIN entries
         /\ \A q \in DOMAIN entries' : entries'[q] = entries[q]
<1>1. CASE Vanish
  <2>1. PICK p \in DOMAIN entries :
          entries' = [q \in DOMAIN entries \ (Under(p) \cup {p}) |-> entries[q]]
    BY <1>1 DEF Vanish
  <2> QED
    BY <1>1, <2>1 DEF Vanish
<1>2. CASE UNCHANGED <<scan, single, entries>>
  BY <1>2
<1> QED
  BY <1>1, <1>2 DEF Next, vars, Pattern, Extras, Walk, Go, Suppress, Ended

LEMMA TreeStep == TreeInv /\ [Next]_vars => TreeInv'
<1> SUFFICES ASSUME TreeInv, [Next]_vars PROVE TreeInv'
  OBVIOUS
<1>1. /\ UNCHANGED <<scan, single>> /\ RootAt' = RootAt /\ Root' = Root
      /\ DOMAIN entries' \subseteq DOMAIN entries
      /\ \A q \in DOMAIN entries' : entries'[q] = entries[q]
  BY TreeShrinks DEF RootAt, Root
<1>2. ASSUME NEW p \in DOMAIN entries', NEW q \in DOMAIN entries,
             q \in Seq(Name), p \in Seq(Name), IsPrefix(q, p)
      PROVE  q \in DOMAIN entries'
  <2>1. CASE Vanish
    <3>1. PICK r \in DOMAIN entries :
            entries' = [x \in DOMAIN entries \ (Under(r) \cup {r}) |-> entries[x]]
      BY <2>1 DEF Vanish
    <3>2. r \in Seq(Name) /\ p \in DOMAIN entries /\ p \notin Under(r) /\ p # r
      BY <3>1 DEF TreeInv
    <3>3. ASSUME q \in Under(r) \cup {r} PROVE FALSE
      <4>1. IsPrefix(r, q) /\ Len(r) <= Len(q) /\ Len(q) <= Len(p)
        BY <1>2, <3>2, <3>3, UnderIs, PrefixIs
      <4>2. IsPrefix(r, p)
        BY <1>2, <3>2, <4>1, PrefixOfPrefix
      <4>3. Len(r) = Len(p)
        BY <1>2, <3>2, <4>1, <4>2 DEF Under
      <4> QED
        BY <1>2, <3>2, <4>2, <4>3, SamePrefix
    <3> QED
      BY <3>1, <3>3
  <2>2. CASE UNCHANGED entries
    BY <1>2, <2>2
  <2> QED
    BY <2>1, <2>2 DEF Next, vars, Pattern, Extras, Walk, Go, Suppress, Ended
<1>3. ASSUME NEW p \in DOMAIN entries'
      PROVE  /\ entries'[p].kind \in {"file", "dir"}
             /\ \A m \in Lined(entries'[p]) : m.line \in Nat
             /\ entries'[p].kind = "file" => Under(p)' = {}
             /\ IsPrefix(RootAt, p) => \A n \in Len(RootAt)..Len(p) : SubSeq(p, 1, n) \in DOMAIN entries'
  <2>1. p \in DOMAIN entries /\ entries'[p] = entries[p] /\ p \in Seq(Name) /\ RootAt \in Seq(Name)
    BY <1>1, RootAtType DEF TreeInv
  <2>2. Under(p)' \subseteq Under(p)
    BY <1>1 DEF Under
  <2>3. ASSUME IsPrefix(RootAt, p), NEW n \in Len(RootAt)..Len(p)
        PROVE  SubSeq(p, 1, n) \in DOMAIN entries'
    <3>1. n \in 0..Len(p)
      BY <2>1
    <3>2. /\ SubSeq(p, 1, n) \in Seq(Name)
          /\ IsPrefix(SubSeq(p, 1, n), p)
      BY <2>1, <3>1, CutIsPrefix
    <3>3. SubSeq(p, 1, n) \in DOMAIN entries
      BY <2>1, <2>3 DEF TreeInv
    <3> QED
      BY <1>2, <2>1, <3>2, <3>3
  <2> QED
    BY <2>1, <2>2, <2>3 DEF TreeInv
<1>4. IsFiniteSet(DOMAIN entries')
  <2>1. IsFiniteSet(DOMAIN entries)
    BY DEF TreeInv
  <2>2. DOMAIN entries' \in SUBSET DOMAIN entries
    BY <1>1
  <2> QED
    BY <2>1, <2>2, FS_Subset, Zenon
<1>5. \E s \in Scans : scan'.root = s.root /\ DOMAIN entries' \subseteq DOMAIN s.entries
  BY <1>1 DEF TreeInv
<1>6. RootAt \in DOMAIN entries' => (single' <=> entries'[RootAt].kind = "file")
  BY <1>1 DEF TreeInv
<1>7. /\ Root' \in Path /\ (Root'.abs => Root'.ups = 0) /\ scan'.cwd \in Seq(Name)
      /\ DOMAIN entries' \subseteq Seq(Name)
      /\ single' \in BOOLEAN /\ (single' => Root'.names # <<>>)
  BY <1>1 DEF TreeInv
<1> QED
  BY <1>1, <1>3, <1>4, <1>5, <1>6, <1>7 DEF TreeInv

-----------------------------------------------------------------------------
(* What the findings are called.                                           *)

FoundOK(f) ==
  /\ f.own \in Seq(Name) /\ f.own \in Somewhere /\ IsPrefix(RootAt, f.own)
  /\ single <=> f.own = RootAt
  /\ f.tier \in {"pattern", "extras", "go"} /\ f.line \in Nat
  /\ f.tier = "pattern" => f.file = RelPath(Root, FromThere(f.own))
  /\ f.tier = "extras" => f.file = IF single THEN Relative(<<Base(Root)>>) ELSE FromThere(f.own)
  /\ f.tier = "go" => /\ ~single
                      /\ f.file = IF Root.abs THEN FromThere(f.own) ELSE Absolute(f.own)

FoundInv == \A f \in found : FoundOK(f)

\* Below a directory a name is what comes after the root's.
LEMMA ThereBelow ==
  ASSUME TreeInv, ~single, NEW p \in Seq(Name), IsPrefix(RootAt, p)
  PROVE  /\ FromThere(p) \in Path /\ ~FromThere(p).abs /\ FromThere(p).ups = 0
         /\ FromThere(p) = Relative(FromThere(p).names)
         /\ FromThere(p).names = SubSeq(p, Len(RootAt) + 1, Len(p))
         /\ RootAt \o FromThere(p).names = p
         /\ p # RootAt => FromThere(p).names # <<>>
<1>1. FromThere(p) = Relative(SubSeq(p, Len(RootAt) + 1, Len(p)))
  BY DEF FromThere, ScanDir, RootAt
<1>2. PICK t \in Seq(Name) : t = SubSeq(p, Len(RootAt) + 1, Len(p))
  BY RootAtType, RestOf
<1>3. RootAt \o t = p /\ Len(t) = Len(p) - Len(RootAt)
  BY <1>2, RootAtType, RestOf
<1>4. p # RootAt => t # <<>>
  BY <1>3, RootAtType
<1>5. /\ FromThere(p) \in Path /\ ~FromThere(p).abs /\ FromThere(p).ups = 0
      /\ FromThere(p).names = t
  BY <1>1, <1>2, RelativeType
<1> QED
  BY <1>1, <1>2, <1>3, <1>4, <1>5

\* A single file goes by its base name there, which relPath takes for the root.
LEMMA ThereSingle ==
  ASSUME TreeInv, single
  PROVE  /\ FromThere(RootAt) = Relative(<<Base(Root)>>)
         /\ Base(Root) \in Name
         /\ RelPath(Root, FromThere(RootAt)) = Root
<1>1. /\ Len(Denoted(scan.cwd, Dir(Root))) = Len(RootAt) - 1
      /\ Base(Root) \in Name
      /\ RootAt # <<>> /\ RootAt \in Seq(Name)
      /\ RootAt[Len(RootAt)] = Base(Root)
  BY DenotedDir, RootAtType DEF TreeInv, RootAt
<1>2. SubSeq(RootAt, Len(RootAt), Len(RootAt)) = <<Base(Root)>>
  <2>1. Len(RootAt) \in 1..Len(RootAt)
    BY <1>1
  <2>2. /\ SubSeq(RootAt, Len(RootAt), Len(RootAt)) \in Seq(Name)
        /\ Len(SubSeq(RootAt, Len(RootAt), Len(RootAt))) = 1
        /\ SubSeq(RootAt, Len(RootAt), Len(RootAt))[1] = RootAt[Len(RootAt)]
    BY <1>1, <2>1
  <2> QED
    BY <1>1, <2>2, OneName
<1>3. Len(Denoted(scan.cwd, Dir(Root))) + 1 = Len(RootAt)
  BY <1>1
<1>4. FromThere(RootAt) = Relative(<<Base(Root)>>)
  BY <1>2, <1>3 DEF FromThere, ScanDir
<1>5. <<Base(Root)>> \in Seq(Name) /\ Len(<<Base(Root)>>) = 1 /\ <<Base(Root)>>[1] = Base(Root)
  BY <1>1
<1>6. /\ ~FromThere(RootAt).abs /\ FromThere(RootAt).names = <<Base(Root)>>
  BY <1>4, <1>5, RelativeType
<1>7. Len(FromThere(RootAt).names) = 1 /\ Base(FromThere(RootAt)) = Base(Root)
  BY <1>5, <1>6 DEF Base, Last
<1> QED
  BY <1>1, <1>4, <1>6, <1>7 DEF RelPath

\* relPath answers with the root, with what follows the root's names in the
\* file's, or with the file.
LEMMA RelPathAnswers ==
  ASSUME TreeInv, ~single, NEW p \in Seq(Name), IsPrefix(RootAt, p), p # RootAt
  PROVE  LET r == RelPath(Root, FromThere(p))
             t == FromThere(p).names
         IN  /\ r \in Path
             /\ \/ r = Root /\ Homonym(p) /\ (Root.ups > 0 => t = <<Base(Root)>>)
                \/ /\ ~Root.abs /\ Root.ups = 0 /\ IsPrefix(Root.names, t)
                   /\ r = Relative(SubSeq(t, Len(Root.names) + 1, Len(t)))
                \/ r = FromThere(p)
<1> DEFINE r == RelPath(Root, FromThere(p))
           t == FromThere(p).names
<1>1. /\ FromThere(p) \in Path /\ ~FromThere(p).abs /\ FromThere(p).ups = 0
      /\ t \in Seq(Name) /\ t # <<>> /\ Len(t) > 0
      /\ Root \in Path /\ Root.names \in Seq(Name)
  BY ThereBelow DEF TreeInv, Path
<1>2. CASE Len(t) = 1 /\ Base(FromThere(p)) = Base(Root)
  <2>1. t = <<Base(Root)>>
    BY <1>1, <1>2 DEF Base, Last
  <2> QED
    BY <1>1, <1>2, <2>1 DEF RelPath, Homonym
<1>3. CASE ~(Len(t) = 1 /\ Base(FromThere(p)) = Base(Root)) /\ FromThere(p) = Root
  <2>1. r = Root
    BY <1>3 DEF RelPath
  <2>2. ~Root.abs /\ Root.ups = 0 /\ Root.names = t
    BY <1>1, <1>3
  <2>3. IsPrefix(Root.names, t)
    BY <1>1, <2>2, PrefixIs
  <2> QED
    BY <1>1, <2>1, <2>2, <2>3 DEF Homonym
<1>4. CASE /\ ~(Len(t) = 1 /\ Base(FromThere(p)) = Base(Root)) /\ FromThere(p) # Root
           /\ AtOrBelow(Root, FromThere(p))
  <2>1. r = Relative(SubSeq(t, Len(Root.names) + 1, Len(t)))
    BY <1>4 DEF RelPath, Rel
  <2>2. ~Root.abs /\ Root.ups = 0 /\ IsPrefix(Root.names, t)
    BY <1>1, <1>4 DEF AtOrBelow
  <2>3. SubSeq(t, Len(Root.names) + 1, Len(t)) \in Seq(Name)
    BY <1>1, <2>2, RestOf
  <2>4. r \in Path
    BY <2>1, <2>3, RelativeType
  <2> QED
    BY <2>1, <2>2, <2>4
<1>5. CASE /\ ~(Len(t) = 1 /\ Base(FromThere(p)) = Base(Root)) /\ FromThere(p) # Root
           /\ ~AtOrBelow(Root, FromThere(p))
  BY <1>1, <1>5 DEF RelPath
<1> QED
  BY <1>2, <1>3, <1>4, <1>5

\* But for a homonym the three tiers agree, or go by the absolute path.
LEMMA SpelledWell ==
  ASSUME TreeInv, FoundInv, ~single, NEW f \in found, ~Homonym(f.own)
  PROVE  f.file = IF f.tier = "go" /\ ~Root.abs THEN Absolute(f.own) ELSE FromThere(f.own)
<1>1. /\ f.own \in Seq(Name) /\ IsPrefix(RootAt, f.own) /\ f.own # RootAt
      /\ f.tier \in {"pattern", "extras", "go"}
  BY DEF FoundInv, FoundOK
<1>2. CASE f.tier = "pattern"
  <2>1. f.file = RelPath(Root, FromThere(f.own))
    BY <1>2 DEF FoundInv, FoundOK
  <2>2. CASE /\ ~Root.abs /\ Root.ups = 0 /\ IsPrefix(Root.names, FromThere(f.own).names)
             /\ f.file = Relative(SubSeq(FromThere(f.own).names, Len(Root.names) + 1,
                                         Len(FromThere(f.own).names)))
    <3>1. Root.names = <<>>
      BY <2>2 DEF Homonym
    <3>2. FromThere(f.own).names \in Seq(Name) /\ Len(Root.names) = 0
      BY <1>1, <3>1, ThereBelow DEF Path
    <3>3. SubSeq(FromThere(f.own).names, 0 + 1, Len(FromThere(f.own).names)) = FromThere(f.own).names
      BY <3>2
    <3>4. f.file = Relative(FromThere(f.own).names)
      BY <2>2, <3>2, <3>3
    <3> QED
      BY <1>1, <1>2, <3>4, ThereBelow
  <2> QED
    BY <1>1, <1>2, <2>1, <2>2, RelPathAnswers
<1>3. CASE f.tier = "extras"
  BY <1>3 DEF FoundInv, FoundOK
<1>4. CASE f.tier = "go"
  BY <1>4 DEF FoundInv, FoundOK
<1> QED
  BY <1>1, <1>2, <1>3, <1>4

-----------------------------------------------------------------------------
(* The walk: what is pending, what it has found and what it still owes.    *)

Flow ==
  /\ edits \in 0..MaxEdits
  /\ pc \in {"pattern", "extras", "walk", "go", "suppress", "done", "failed"}
  /\ pc = "walk" => ~single
  /\ todo \subseteq found
  /\ pc \notin {"suppress", "done"} => todo = {} /\ seen = {} /\ sups = {}

\* The way to p is open: no link and no pruned name above it.
WayOpen(p) ==
  p # RootAt =>
    /\ ~Linked(RootAt) /\ Base(Root) \notin PrunedNames
    /\ \A q \in Under(RootAt) : IsPrefix(q, p) /\ q # p =>
         ~Linked(q) /\ Last(q) \notin PrunedNames

\* A pending entry, which may have gone since it was listed.
PendingOK(e) ==
  /\ e.at \in Seq(Name) /\ e.at \in Somewhere /\ IsPrefix(RootAt, e.at)
  /\ e.name = IF e.at = RootAt THEN Base(Root) ELSE Last(e.at)
  /\ e.at \in DOMAIN entries => /\ e.kind = entries[e.at].kind
                                /\ e.link = Linked(e.at)
                                /\ e.lang = entries[e.at].lang
                                /\ WayOpen(e.at)

PendingInv ==
  /\ pending \in Seq({pending[i] : i \in DOMAIN pending})
  /\ \A i \in DOMAIN pending : PendingOK(pending[i])

Shows(f) == [rule |-> f.rule, line |-> f.line, symbol |-> f.symbol]

\* Nothing is read that need not be.
OnlyDue ==
  \A f \in found : f.tier = "extras" /\ ~single /\ f.own \in DOMAIN entries =>
    Due(f.own) /\ Shows(f) \in ExtrasForFile(entries[f.own])

HasAll(p) ==
  \A m \in ExtrasForFile(entries[p]) :
    \E f \in found : f.tier = "extras" /\ f.own = p /\ Shows(f) = m

Awaited(p) == \E i \in DOMAIN pending : IsPrefix(pending[i].at, p)

\* What need be is read, or at or below something pending.
AllDue ==
  \A p \in Under(RootAt) : Due(p) /\ ~single =>
    /\ pc = "walk" => HasAll(p) \/ Awaited(p)
    /\ pc \in {"go", "suppress", "done"} => HasAll(p)

-----------------------------------------------------------------------------
(* The reading of the comments.                                            *)

Where(f) == SourcePath(Root, single, f.file)

\* What has been read of a finding's own file is a comment there, with a reason.
SupsInv ==
  \A s \in sups :
    /\ s.file \in Path /\ s.line \in Nat
    /\ \A f \in found : f.file = s.file /\ ~Homonym(f.own) /\ f.own \in DOMAIN entries =>
         \E c \in entries[f.own].comments : c.rule = s.rule /\ c.line = s.line /\ c.reason

\* A finding whose comments are looked for in the right place and labelled with
\* its own spelling.
Plain(f) == /\ ~Homonym(f.own)
            /\ single => \A g \in found : g.file = f.file
            /\ Root.ups > 0 => \A g \in found : ~Homonym(g.own)

\* Each file that is there has been read for each of its findings but those to
\* come.
ReadInv ==
  /\ seen \subseteq Path
  /\ pc = "done" => todo = {}
  /\ pc \in {"suppress", "done"} =>
       \A f \in found : Readable(f.own) =>
         /\ f \in todo \/ Where(f) \in seen
         /\ Where(f) \in seen /\ Plain(f) =>
              \A c \in Parsed(entries[f.own]) :
                [file |-> f.file, line |-> c.line, rule |-> c.rule] \in sups

-----------------------------------------------------------------------------
LEMMA RootAndBelow ==
  ASSUME TreeInv
  PROVE  /\ DOMAIN entries \subseteq Somewhere
         /\ \A p \in Under(RootAt) : p \in Seq(Name) /\ p \in Somewhere /\ IsPrefix(RootAt, p) /\ p # RootAt
         /\ RootAt \in DOMAIN entries => RootAt \in Somewhere
         /\ IsPrefix(RootAt, RootAt)
         /\ single => Under(RootAt) = {}
<1>1. DOMAIN entries \subseteq Somewhere
  BY DEF TreeInv, Somewhere
<1>2. ASSUME NEW p \in Under(RootAt)
      PROVE  /\ p \in Seq(Name) /\ p \in DOMAIN entries /\ IsPrefix(RootAt, p) /\ p # RootAt
             /\ ~single
  BY RootAtType, UnderIs, RootStands
<1>3. IsPrefix(RootAt, RootAt)
  BY RootAtType, PrefixIs
<1> QED
  BY <1>1, <1>2, <1>3

\* What a tier reports is called as the tier calls it.
LEMMA PatternFinds ==
  ASSUME TreeInv, NEW p \in Under(RootAt) \cup {RootAt}, Reached(p), NEW m, m.line \in Nat
  PROVE  FoundOK(About(p, RelPath(Root, FromThere(p)), "pattern", m))
<1>1. PICK f : f = About(p, RelPath(Root, FromThere(p)), "pattern", m)
  OBVIOUS
<1>2. f.own = p /\ f.tier = "pattern" /\ f.file = RelPath(Root, FromThere(p)) /\ f.line = m.line
  BY <1>1 DEF About
<1>3. p \in DOMAIN entries /\ entries[p].kind = "file"
  BY DEF Reached, Readable, IsFile
<1>4. p \in Seq(Name) /\ p \in Somewhere /\ IsPrefix(RootAt, p) /\ (single <=> p = RootAt)
  BY <1>3, RootAndBelow, RootAtType DEF TreeInv
<1> QED
  BY <1>1, <1>2, <1>4, Zenon DEF FoundOK

LEMMA ExtrasFinds ==
  ASSUME TreeInv, NEW p \in Seq(Name), p \in Somewhere, IsPrefix(RootAt, p), single <=> p = RootAt,
         NEW m, m.line \in Nat, NEW file, file = IF single THEN Relative(<<Base(Root)>>) ELSE FromThere(p)
  PROVE  FoundOK(About(p, file, "extras", m))
<1>1. PICK f : f = About(p, file, "extras", m)
  OBVIOUS
<1>2. f.own = p /\ f.tier = "extras" /\ f.file = file /\ f.line = m.line
  BY <1>1 DEF About
<1> QED
  BY <1>1, <1>2, Zenon DEF FoundOK

LEMMA ExtrasLines ==
  ASSUME TreeInv, NEW p \in DOMAIN entries, NEW m \in ExtrasForFile(entries[p])
  PROVE  m.line \in Nat
<1>1. m \in JavaExtras(entries[p]) \/ m \in PythonExtras(entries[p])
  BY Zenon DEF ExtrasForFile
<1>2. \E l \in entries[p].consts \cup entries[p].labels : m.line = l.line
  BY <1>1 DEF JavaExtras, PythonExtras
<1> QED
  BY <1>2 DEF TreeInv, Lined

LEMMA GoFinds ==
  ASSUME TreeInv, NEW p \in Under(RootAt), NEW m, m.line \in Nat
  PROVE  FoundOK(About(p, GoSpelling(Root, Absolute(p)), "go", m))
<1>1. PICK f : f = About(p, GoSpelling(Root, Absolute(p)), "go", m)
  OBVIOUS
<1>2. f.own = p /\ f.tier = "go" /\ f.file = GoSpelling(Root, Absolute(p)) /\ f.line = m.line
  BY <1>1 DEF About
<1>3. p \in Seq(Name) /\ p \in Somewhere /\ IsPrefix(RootAt, p) /\ p # RootAt /\ ~single
  BY RootAndBelow DEF TreeInv
<1>4. CASE Root.abs
  <2>1. RootAt = Root.names
    BY <1>4, Zenon DEF RootAt, Denoted
  <2>2. Absolute(p).abs /\ Absolute(p).ups = 0 /\ Absolute(p).names = p /\ Root.ups = 0
    BY <1>3, <1>4, RelativeType DEF TreeInv
  <2>3. Root.abs = Absolute(p).abs
    BY <1>4 DEF Absolute, TreeInv, Path
  <2>4. AtOrBelow(Root, Absolute(p))
    BY <1>3, <2>1, <2>2, <2>3 DEF AtOrBelow
  <2>5. Rel(Root, Absolute(p)) = Relative(SubSeq(p, Len(RootAt) + 1, Len(p)))
    BY <2>1, <2>2 DEF Rel
  <2>6. FromThere(p) = Relative(SubSeq(p, Len(RootAt) + 1, Len(p)))
    BY <1>3 DEF FromThere, ScanDir, RootAt
  <2> QED
    BY <1>1, <1>2, <1>3, <1>4, <2>4, <2>5, <2>6, Zenon DEF GoSpelling, FoundOK
<1>5. CASE ~Root.abs
  <2>1. Absolute(p).abs
    BY DEF Absolute
  <2>2. ~AtOrBelow(Root, Absolute(p))
    BY <1>5, <2>1 DEF AtOrBelow
  <2> QED
    BY <1>1, <1>2, <1>3, <1>5, <2>2, Zenon DEF GoSpelling, FoundOK
<1> QED
  BY <1>4, <1>5

LEMMA FoundInit == Init => FoundInv /\ Flow /\ PendingInv /\ OnlyDue /\ AllDue /\ SupsInv /\ ReadInv
<1> SUFFICES ASSUME Init
             PROVE  FoundInv /\ Flow /\ PendingInv /\ OnlyDue /\ AllDue /\ SupsInv /\ ReadInv
  OBVIOUS
<1>1. /\ edits = 0 /\ pc = "pattern" /\ pending = <<>>
      /\ found = {} /\ todo = {} /\ seen = {} /\ sups = {}
  BY DEF Init
<1>2. FoundInv /\ OnlyDue /\ AllDue /\ SupsInv /\ ReadInv
  BY <1>1 DEF FoundInv, OnlyDue, AllDue, SupsInv, ReadInv
<1>3. Flow
  BY <1>1, ScansAssumption DEF Flow
<1>4. PendingInv
  BY <1>1 DEF PendingInv
<1> QED
  BY <1>2, <1>3, <1>4

LEMMA FlowStep == Flow /\ TreeInv /\ [Next]_vars => Flow'
<1> SUFFICES ASSUME Flow, TreeInv, [Next]_vars PROVE Flow'
  OBVIOUS
<1> USE DEF Flow
<1>1. single' = single
  BY TreeShrinks
<1>2. CASE Pattern
  BY <1>1, <1>2 DEF Pattern, Fail
<1>3. CASE Extras
  <2>1. ~Readable(RootAt) /\ RootAt \in DOMAIN entries /\ entries[RootAt].kind = "dir" => ~single
    BY DEF TreeInv
  <2> QED
    BY <1>1, <1>3, <2>1 DEF Extras, Fail, Readable, IsFile
<1>4. CASE Walk
  BY <1>1, <1>4 DEF Walk, Pruned, PassedOver, Entered, Looked, Fail
<1>5. CASE Go
  BY <1>1, <1>5 DEF Go, Fail
<1>6. CASE Suppress
  BY <1>1, <1>6 DEF Suppress
<1>7. CASE Vanish
  BY <1>1, <1>7, ScansAssumption DEF Vanish
<1>8. CASE UNCHANGED vars \/ Ended
  BY <1>1, <1>8 DEF Ended, vars
<1> QED
  BY <1>2, <1>3, <1>4, <1>5, <1>6, <1>7, <1>8 DEF Next

\* The root and what names mean there do not change.
LEMMA RootStays ==
  ASSUME UNCHANGED <<scan, single>>
  PROVE  /\ Root' = Root /\ RootAt' = RootAt
         /\ \A p : FromThere(p)' = FromThere(p)
         /\ \A p : Homonym(p)' <=> Homonym(p)
         /\ \A f : FoundOK(f)' <=> FoundOK(f)
         /\ \A f : Where(f)' = Where(f)
<1>1. Root' = Root
  BY DEF Root
<1>2. RootAt' = RootAt
  BY <1>1 DEF RootAt
<1>3. \A p : FromThere(p)' = FromThere(p)
  BY <1>1 DEF FromThere, ScanDir
<1>4. \A p : Homonym(p)' <=> Homonym(p)
  BY <1>1, <1>3 DEF Homonym
<1>5. \A f : FoundOK(f)' <=> FoundOK(f)
  BY <1>1, <1>2, <1>3 DEF FoundOK
<1>6. \A f : Where(f)' = Where(f)
  BY <1>1 DEF Where
<1> QED
  BY <1>1, <1>2, <1>3, <1>4, <1>5, <1>6

\* An entry of the walk, while it is there, is one of the tree.
LEMMA PendingHead ==
  ASSUME TreeInv, PendingInv, pending # <<>>
  PROVE  /\ PendingOK(Head(pending))
         /\ Tail(pending) \in Seq({pending[i] : i \in DOMAIN pending})
         /\ \A i \in DOMAIN Tail(pending) : \E j \in DOMAIN pending : Tail(pending)[i] = pending[j]
         /\ \A j \in DOMAIN pending :
              pending[j] = Head(pending) \/ \E i \in DOMAIN Tail(pending) : Tail(pending)[i] = pending[j]
<1>1. /\ Head(pending) = pending[1] /\ 1 \in DOMAIN pending
      /\ Tail(pending) \in Seq({pending[i] : i \in DOMAIN pending})
      /\ DOMAIN pending = 1..Len(pending) /\ Len(pending) \in Nat
      /\ DOMAIN Tail(pending) = 1..(Len(pending) - 1)
      /\ \A i \in DOMAIN Tail(pending) : Tail(pending)[i] = pending[i + 1] /\ i + 1 \in DOMAIN pending
  BY DEF PendingInv
<1>2. ASSUME NEW j \in DOMAIN pending, j # 1
      PROVE  \E i \in DOMAIN Tail(pending) : Tail(pending)[i] = pending[j]
  <2>1. j - 1 \in DOMAIN Tail(pending) /\ Tail(pending)[j - 1] = pending[j]
    BY <1>1, <1>2
  <2> QED
    BY <2>1
<1> QED
  BY <1>1, <1>2 DEF PendingInv

LEMMA FoundStep == FoundInv /\ TreeInv /\ Flow /\ PendingInv /\ [Next]_vars => FoundInv'
<1> SUFFICES ASSUME FoundInv, TreeInv, Flow, PendingInv, [Next]_vars,
                    NEW f \in found', f \notin found
             PROVE  FoundOK(f)
  BY TreeShrinks, RootStays DEF FoundInv
<1>1. CASE Pattern
  <2>1. PICK p \in Under(RootAt) \cup {RootAt} : \E m \in entries[p].matches :
          Reached(p) /\ f = About(p, RelPath(Root, FromThere(p)), "pattern", m)
    BY <1>1 DEF Pattern, Fail
  <2>2. \A m \in entries[p].matches : m.line \in Nat
    BY <2>1 DEF Reached, Readable, IsFile, TreeInv, Lined
  <2> QED
    BY <2>1, <2>2, PatternFinds
<1>2. CASE Extras
  <2>1. /\ Readable(RootAt)
        /\ \E m \in ExtrasForFile(entries[RootAt]) :
             f = About(RootAt, Relative(<<Base(Root)>>), "extras", m)
    BY <1>2 DEF Extras, Fail
  <2>2. RootAt \in DOMAIN entries /\ single
    BY <2>1 DEF Readable, IsFile, TreeInv
  <2>3. \A m \in ExtrasForFile(entries[RootAt]) : m.line \in Nat
    BY <2>2, ExtrasLines
  <2> QED
    BY <2>1, <2>2, <2>3, RootAtType, RootAndBelow, ExtrasFinds
<1>3. CASE Walk
  <2>1. PICK e : e = Head(pending)
    OBVIOUS
  <2>2. /\ pending # <<>> /\ ~single /\ Readable(e.at)
        /\ \E m \in ExtrasForFile(entries[e.at]) :
             f = About(e.at, Rel(Absolute(RootAt), Absolute(e.at)), "extras", m)
    BY <1>3, <2>1 DEF Walk, Flow, Pruned, PassedOver, Entered, Looked, Fail
  <2>3. PendingOK(e)
    BY <2>1, <2>2, PendingHead
  <2>4. /\ e.at \in Seq(Name) /\ e.at \in Somewhere /\ IsPrefix(RootAt, e.at)
        /\ e.at # RootAt
    BY <2>2, <2>3 DEF PendingOK, Readable, IsFile, TreeInv
  <2>5. Rel(Absolute(RootAt), Absolute(e.at)) = Relative(SubSeq(e.at, Len(RootAt) + 1, Len(e.at)))
    BY DEF Rel, Absolute
  <2>6. FromThere(e.at) = Relative(SubSeq(e.at, Len(RootAt) + 1, Len(e.at)))
    BY <2>2 DEF FromThere, ScanDir, RootAt
  <2>7. \A m \in ExtrasForFile(entries[e.at]) : m.line \in Nat
    BY <2>2, ExtrasLines DEF Readable, IsFile
  <2> QED
    BY <2>2, <2>4, <2>5, <2>6, <2>7, ExtrasFinds
<1>4. CASE Go
  <2>1. PICK p \in Under(RootAt) : \E m \in entries[p].lint :
          f = About(p, GoSpelling(Root, Absolute(p)), "go", m)
    BY <1>4 DEF Go, Fail
  <2>2. \A m \in entries[p].lint : m.line \in Nat
    BY <2>1 DEF Under, TreeInv, Lined
  <2> QED
    BY <2>1, <2>2, GoFinds
<1>5. CASE Suppress \/ Vanish \/ Ended \/ UNCHANGED vars
  BY <1>5 DEF Suppress, Vanish, Ended, vars
<1> QED
  BY <1>1, <1>2, <1>3, <1>4, <1>5 DEF Next

\* What stays has everything above it stay, as it was.
LEMMA AboveStays ==
  ASSUME TreeInv, TreeInv', [Next]_vars, NEW p \in DOMAIN entries', IsPrefix(RootAt, p)
  PROVE  /\ p \in DOMAIN entries /\ p \in Seq(Name)
         /\ RootAt \in DOMAIN entries' /\ RootAt' = RootAt /\ Root' = Root
         /\ \A q \in DOMAIN entries' : q \in DOMAIN entries /\ entries'[q] = entries[q]
         /\ \A q \in Under(RootAt) : IsPrefix(q, p) => q \in Under(RootAt)'
         /\ \A q \in Under(RootAt)' : q \in Under(RootAt)
<1>1. /\ UNCHANGED <<scan, single>> /\ RootAt' = RootAt /\ Root' = Root
      /\ \A q \in DOMAIN entries' : q \in DOMAIN entries /\ entries'[q] = entries[q]
  BY TreeShrinks, RootStays
<1>2. p \in DOMAIN entries /\ p \in Seq(Name) /\ RootAt \in Seq(Name)
  BY <1>1, RootAtType DEF TreeInv
<1>3. \A n \in Len(RootAt)..Len(p) : SubSeq(p, 1, n) \in DOMAIN entries'
  BY <1>1 DEF TreeInv
<1>4. ASSUME NEW q \in Seq(Name), IsPrefix(q, p), Len(q) >= Len(RootAt)
      PROVE  q \in DOMAIN entries'
  <2>1. SubSeq(p, 1, Len(q)) = q /\ Len(q) <= Len(p)
    BY <1>2, <1>4, RestOf, PrefixIs
  <2>2. Len(q) \in Len(RootAt)..Len(p)
    BY <1>2, <1>4, <2>1
  <2> QED
    BY <1>3, <2>1, <2>2
<1>5. RootAt \in DOMAIN entries'
  BY <1>2, <1>4
<1>6. ASSUME NEW q \in Under(RootAt), IsPrefix(q, p)
      PROVE  q \in Under(RootAt)'
  <2>1. q \in Seq(Name) /\ Len(q) > Len(RootAt) /\ IsPrefix(RootAt, q)
    BY <1>2, UnderIs
  <2>2. q \in DOMAIN entries'
    BY <1>2, <1>4, <1>6, <2>1
  <2> QED
    BY <1>1, <2>1, <2>2 DEF Under
<1>7. \A q \in Under(RootAt)' : q \in Under(RootAt)
  BY <1>1 DEF Under
<1> QED
  BY <1>1, <1>2, <1>5, <1>6, <1>7

LEMMA DueStays ==
  ASSUME TreeInv, TreeInv', [Next]_vars, NEW p \in Under(RootAt)'
  PROVE  /\ p \in Under(RootAt) /\ p \in DOMAIN entries' /\ entries'[p] = entries[p]
         /\ Due(p)' <=> Due(p)
<1>1. p \in DOMAIN entries' /\ IsPrefix(RootAt, p) /\ RootAt' = RootAt /\ Root' = Root
  BY TreeShrinks, RootStays DEF Under
<1>2. /\ p \in DOMAIN entries /\ RootAt \in DOMAIN entries'
      /\ \A q \in DOMAIN entries' : q \in DOMAIN entries /\ entries'[q] = entries[q]
      /\ \A q \in Under(RootAt) : IsPrefix(q, p) => q \in Under(RootAt)'
      /\ \A q \in Under(RootAt)' : q \in Under(RootAt)
  BY <1>1, AboveStays
<1>3. \A q \in Under(RootAt)' : q \in DOMAIN entries'
  BY DEF Under
<1>4. Readable(p)' <=> Readable(p)
  BY <1>1, <1>2 DEF Readable, IsFile
<1>5. \A q \in DOMAIN entries' : Linked(q)' = Linked(q)
  BY <1>1, <1>2 DEF Linked
<1>6. (\A q \in Under(RootAt)' : IsPrefix(q, p) /\ q # p => ~Linked(q)' /\ Last(q) \notin PrunedNames)
      <=> \A q \in Under(RootAt) : IsPrefix(q, p) /\ q # p => ~Linked(q) /\ Last(q) \notin PrunedNames
  BY <1>2, <1>3, <1>5
<1>7. Due(p)' <=> Due(p)
  BY <1>1, <1>2, <1>4, <1>5, <1>6 DEF Due
<1> QED
  BY <1>1, <1>2, <1>7

LEMMA PendingStays ==
  ASSUME TreeInv, TreeInv', [Next]_vars, NEW e, PendingOK(e)
  PROVE  PendingOK(e)'
<1>1. RootAt' = RootAt /\ Root' = Root
  BY TreeShrinks, RootStays
<1>2. e.at \in Seq(Name) /\ IsPrefix(RootAt, e.at)
  BY DEF PendingOK
<1>3. ASSUME e.at \in DOMAIN entries'
      PROVE  e.at \in DOMAIN entries /\ entries'[e.at] = entries[e.at] /\ (WayOpen(e.at) => WayOpen(e.at)')
  <2>1. /\ e.at \in DOMAIN entries /\ RootAt \in DOMAIN entries'
        /\ \A q \in DOMAIN entries' : q \in DOMAIN entries /\ entries'[q] = entries[q]
        /\ \A q \in Under(RootAt)' : q \in Under(RootAt)
    BY <1>2, <1>3, AboveStays
  <2>2. \A q \in Under(RootAt)' : q \in DOMAIN entries'
    BY DEF Under
  <2>3. \A q \in DOMAIN entries' : Linked(q)' = Linked(q)
    BY <1>1, <2>1 DEF Linked
  <2> QED
    BY <1>1, <1>3, <2>1, <2>2, <2>3 DEF WayOpen
<1>4. e.at \in DOMAIN entries' => Linked(e.at)' = Linked(e.at)
  BY <1>1, <1>3 DEF Linked
<1> QED
  BY <1>1, <1>3, <1>4 DEF PendingOK

\* A directory's listing has its children, each in a place of its own.
LEMMA ListingIs ==
  ASSUME NEW S, IsFiniteSet(S)
  PROVE  /\ SetToSeq(S) \in Seq(S)
         /\ \A x \in S : \E i \in DOMAIN SetToSeq(S) : SetToSeq(S)[i] = x
         /\ \A i, j \in DOMAIN SetToSeq(S) : SetToSeq(S)[i] = SetToSeq(S)[j] => i = j
<1>1. PICK n \in Nat : n = Cardinality(S)
  BY FS_CardinalityType
<1>2. PICK f : f \in Bijection(1..n, S)
  BY <1>1, FS_CardinalityType DEF ExistsBijection
<1>3. f \in [1..n -> S] /\ IsInjective(f)
  BY <1>2 DEF Bijection, Injection, IsInjective
<1>4. SetToSeq(S) \in [1..n -> S] /\ IsInjective(SetToSeq(S))
  BY <1>1, <1>3 DEF SetToSeq
<1>5. PICK g : g = SetToSeq(S)
  OBVIOUS
<1>6. g \in Injection(1..n, S)
  BY <1>4, <1>5 DEF Injection, IsInjective
<1>7. Cardinality(1..n) = Cardinality(S)
  BY <1>1, FS_Interval
<1>8. g \in Surjection(1..n, S)
  BY <1>6, <1>7, FS_Injection
<1> QED
  BY <1>4, <1>5, <1>8 DEF Surjection, IsInjective

LEMMA OwnItems ==
  ASSUME NEW S, NEW s \in Seq(S)
  PROVE  s \in Seq({s[i] : i \in DOMAIN s})
  OBVIOUS

\* What a directory on an open way lists is on an open way.
LEMMA Opened ==
  ASSUME TreeInv, NEW e, PendingOK(e), e.at \in DOMAIN entries,
         ~e.link, e.name \notin PrunedNames,
         NEW k \in Children(e.at)
  PROVE  PendingOK(Listed(k, Last(k)))
<1>1. /\ e.at \in Seq(Name) /\ RootAt \in Seq(Name) /\ IsPrefix(RootAt, e.at)
      /\ e.name = IF e.at = RootAt THEN Base(Root) ELSE Last(e.at)
      /\ e.link = Linked(e.at) /\ WayOpen(e.at)
  BY RootAtType DEF PendingOK
<1>2. /\ k \in DOMAIN entries /\ k \in Seq(Name) /\ Len(k) = Len(e.at) + 1
      /\ IsPrefix(e.at, k) /\ Len(RootAt) <= Len(e.at)
  BY <1>1, UnderIs, PrefixIs DEF Children
<1>3. IsPrefix(RootAt, k) /\ k # RootAt /\ k \in Somewhere
  BY <1>1, <1>2, PrefixOfPrefix, RootAndBelow
<1>4. ~Linked(RootAt) /\ Base(Root) \notin PrunedNames
  BY <1>1 DEF WayOpen
<1>5. ASSUME NEW q \in Under(RootAt), IsPrefix(q, k), q # k
      PROVE  ~Linked(q) /\ Last(q) \notin PrunedNames
  <2>1. q \in Seq(Name) /\ Len(q) > Len(RootAt) /\ q # RootAt
    BY <1>1, UnderIs
  <2>2. Len(q) <= Len(e.at)
    BY <1>2, <1>5, <2>1, PrefixIs, SamePrefix
  <2>3. IsPrefix(q, e.at) /\ e.at # RootAt
    BY <1>1, <1>2, <1>5, <2>1, <2>2, PrefixOfPrefix
  <2> QED
    BY <1>1, <2>3 DEF WayOpen
<1>6. PICK l : l = Listed(k, Last(k))
  OBVIOUS
<1>7. /\ l.at = k /\ l.name = Last(k) /\ l.kind = entries[k].kind /\ l.link = Linked(k)
      /\ l.lang = entries[k].lang
  BY <1>6, Zenon DEF Listed
<1>8. WayOpen(k)
  BY <1>4, <1>5 DEF WayOpen
<1> QED
  BY <1>2, <1>3, <1>6, <1>7, <1>8 DEF PendingOK

LEMMA PendingStep == PendingInv /\ TreeInv /\ TreeInv' /\ Flow /\ [Next]_vars => PendingInv'
<1> SUFFICES ASSUME PendingInv, TreeInv, TreeInv', Flow, [Next]_vars PROVE PendingInv'
  OBVIOUS
<1>1. \A e : PendingOK(e) => PendingOK(e)'
  BY PendingStays
<1> DEFINE Own(s) == {s[i] : i \in DOMAIN s}
<1>2. ASSUME NEW S, pending' \in Seq(S), \A i \in DOMAIN pending' : PendingOK(pending'[i])
      PROVE  PendingInv'
  BY <1>1, <1>2, OwnItems DEF PendingInv
<1>3. CASE Extras /\ pc' = "walk"
  <2>1. PICK l : l = Listed(RootAt, Base(Root))
    OBVIOUS
  <2>2. pending' = <<l>> /\ RootAt \in DOMAIN entries
    BY <1>3, <2>1 DEF Extras, Fail
  <2>3. /\ l.at = RootAt /\ l.name = Base(Root) /\ l.kind = entries[RootAt].kind
        /\ l.link = Linked(RootAt) /\ l.lang = entries[RootAt].lang
    BY <2>1, Zenon DEF Listed
  <2>4. PendingOK(l)
    BY <2>2, <2>3, RootAtType, RootAndBelow DEF PendingOK, WayOpen
  <2>5. pending' \in Seq({l}) /\ \A i \in DOMAIN pending' : pending'[i] = l
    BY <2>2
  <2> QED
    BY <1>2, <2>4, <2>5
<1>4. CASE pc = "walk" /\ pending # <<>> /\ pending' = Tail(pending)
  <2>1. /\ Tail(pending) \in Seq(Own(pending))
        /\ \A i \in DOMAIN Tail(pending) : \E j \in DOMAIN pending : Tail(pending)[i] = pending[j]
    BY <1>4, PendingHead
  <2>2. \A i \in DOMAIN pending' : PendingOK(pending'[i])
    BY <1>4, <2>1 DEF PendingInv
  <2> QED
    BY <1>2, <1>4, <2>1, <2>2
<1>5. CASE pc = "walk" /\ pending # <<>> /\ Entered(Head(pending)) /\ UNCHANGED pc
  <2>1. PICK e : e = Head(pending)
    OBVIOUS
  <2>2. PendingOK(e)
    BY <1>5, <2>1, PendingHead
  <2>3. PICK kids : kids = SetToSeq(Children(e.at))
    OBVIOUS
  <2>4. PICK ls : ls = [i \in DOMAIN kids |-> Listed(kids[i], Last(kids[i]))]
    OBVIOUS
  <2>5. /\ ~e.link /\ e.kind = "dir" /\ e.name \notin PrunedNames
        /\ e.at \in DOMAIN entries
        /\ pending' = ls \o Tail(pending)
    BY <1>5, <2>1, <2>3, <2>4 DEF Entered, Fail
  <2>6. kids \in Seq(Children(e.at))
    <3>1. Children(e.at) \subseteq DOMAIN entries /\ IsFiniteSet(DOMAIN entries)
      BY DEF TreeInv, Children, Under
    <3>2. IsFiniteSet(Children(e.at))
      BY <3>1, FS_Subset
    <3> QED
      BY <2>3, <3>2, ListingIs
  <2>7. \A i \in DOMAIN ls : PendingOK(ls[i])
    <3>1. ASSUME NEW i \in DOMAIN ls PROVE PendingOK(ls[i])
      <4>1. kids[i] \in Children(e.at) /\ ls[i] = Listed(kids[i], Last(kids[i]))
        BY <2>4, <2>6, <3>1
      <4> QED
        BY <2>2, <2>5, <4>1, Opened
    <3> QED
      BY <3>1
  <2>8. PICK all : all = {ls[i] : i \in DOMAIN ls} \cup Own(pending)
    OBVIOUS
  <2>9. ls \in Seq(all) /\ Tail(pending) \in Seq(all)
    <3>1. Tail(pending) \in Seq(Own(pending))
      BY <1>5, PendingHead
    <3>2. Own(pending) \subseteq all /\ {ls[i] : i \in DOMAIN ls} \subseteq all
      BY <2>8
    <3>3. ls \in Seq({ls[i] : i \in DOMAIN ls})
      BY <2>4, <2>6
    <3> HIDE DEF Own
    <3> QED
      BY <3>1, <3>2, <3>3
  <2>10. \A x \in all : PendingOK(x)
    BY <2>7, <2>8 DEF PendingInv
  <2>11. ls \o Tail(pending) \in Seq(all)
    BY <2>9
  <2>12. \A i \in DOMAIN pending' : pending'[i] \in all
    BY <2>5, <2>11
  <2> QED
    BY <1>2, <2>5, <2>10, <2>11, <2>12
<1>6. CASE UNCHANGED pending
  BY <1>1, <1>6 DEF PendingInv
<1>7. Extras => pc' = "walk" \/ UNCHANGED pending
  BY DEF Extras, Fail
<1>8. Walk => \/ UNCHANGED pending
              \/ /\ pc = "walk" /\ pending # <<>>
                 /\ pending' = Tail(pending) \/ (Entered(Head(pending)) /\ UNCHANGED pc)
  BY DEF Walk, Pruned, PassedOver, Looked, Entered, Fail
<1>9. Pattern \/ Go \/ Suppress \/ Vanish \/ Ended \/ UNCHANGED vars => UNCHANGED pending
  BY DEF Pattern, Go, Suppress, Vanish, Ended, vars, Fail
<1> QED
  BY <1>3, <1>4, <1>5, <1>6, <1>7, <1>8, <1>9 DEF Next

\* What a resolver reports is a rule, a line and a symbol.
LEMMA ExtrasShape ==
  ASSUME NEW e, NEW m \in ExtrasForFile(e), NEW p, NEW file, NEW f, f = About(p, file, "extras", m)
  PROVE  Shows(f) = m /\ f.own = p /\ f.tier = "extras"
<1>1. m \in JavaExtras(e) \/ m \in PythonExtras(e)
  BY Zenon DEF ExtrasForFile
<1>2. \E r, l, s : m = [rule |-> r, line |-> l, symbol |-> s]
  BY <1>1 DEF JavaExtras, PythonExtras
<1>3. f = [rule |-> m.rule, file |-> file, line |-> m.line, symbol |-> m.symbol,
           own |-> p, tier |-> "extras"]
  BY Zenon DEF About
<1>4. f.rule = m.rule /\ f.line = m.line /\ f.symbol = m.symbol /\ f.own = p /\ f.tier = "extras"
  BY <1>3
<1> QED
  BY <1>2, <1>4 DEF Shows

\* What the walk looks at is due.
LEMMA LookedIsDue ==
  ASSUME TreeInv, ~single, NEW e, PendingOK(e), Readable(e.at), ~e.link, e.lang \in {"java", "python"}
  PROVE  e.at \in Under(RootAt) /\ Due(e.at)
<1>1. /\ e.at \in DOMAIN entries /\ entries[e.at].kind = "file"
      /\ e.at \in Seq(Name) /\ RootAt \in Seq(Name) /\ IsPrefix(RootAt, e.at)
      /\ e.link = Linked(e.at) /\ e.lang = entries[e.at].lang /\ WayOpen(e.at)
  BY RootAtType DEF Readable, IsFile, PendingOK
<1>2. e.at # RootAt
  BY <1>1 DEF TreeInv
<1>3. e.at \in Under(RootAt)
  BY <1>1, <1>2, PrefixIs, SamePrefix DEF Under
<1> QED
  BY <1>1, <1>2, <1>3 DEF Due, WayOpen

LEMMA OnlyDueStep ==
  OnlyDue /\ FoundInv /\ TreeInv /\ TreeInv' /\ Flow /\ PendingInv /\ [Next]_vars => OnlyDue'
<1> SUFFICES ASSUME OnlyDue, FoundInv, TreeInv, TreeInv', Flow, PendingInv, [Next]_vars,
                    NEW f \in found', f.tier = "extras", ~single', f.own \in DOMAIN entries'
             PROVE  Due(f.own)' /\ Shows(f) \in ExtrasForFile(entries'[f.own])
  BY DEF OnlyDue, Shows
<1>1. ~single /\ f.own \in DOMAIN entries /\ entries'[f.own] = entries[f.own]
  BY TreeShrinks
<1>2. CASE f \in found
  <2>1. Due(f.own) /\ Shows(f) \in ExtrasForFile(entries[f.own])
    BY <1>1, <1>2 DEF OnlyDue
  <2>2. /\ f.own \in Seq(Name) /\ RootAt \in Seq(Name) /\ IsPrefix(RootAt, f.own) /\ f.own # RootAt
        /\ RootAt' = RootAt
    BY <1>1, <1>2, RootAtType, TreeShrinks, RootStays DEF FoundInv, FoundOK
  <2>3. f.own \in Under(RootAt)'
    BY <2>2, PrefixIs, SamePrefix DEF Under
  <2> QED
    BY <1>1, <2>1, <2>3, DueStays
<1>3. CASE f \notin found
  <2>1. Walk
    <3>1. Pattern => f.tier = "pattern"
      BY <1>3 DEF Pattern, Fail, About
    <3>2. Go => f.tier = "go"
      BY <1>3 DEF Go, Fail, About
    <3>3. ~Extras
      BY <1>1, <1>3 DEF Extras, Fail, Readable, IsFile, TreeInv
    <3>4. ~(Suppress \/ Vanish \/ Ended \/ UNCHANGED vars)
      BY <1>3 DEF Suppress, Vanish, Ended, vars
    <3> QED
      BY <3>1, <3>2, <3>3, <3>4 DEF Next
  <2>2. PICK e : e = Head(pending)
    OBVIOUS
  <2>3. /\ pending # <<>> /\ Readable(e.at) /\ ~e.link /\ e.lang \in {"java", "python"}
        /\ \E m \in ExtrasForFile(entries[e.at]) :
             f = About(e.at, Rel(Absolute(RootAt), Absolute(e.at)), "extras", m)
    BY <1>3, <2>1, <2>2 DEF Walk, Pruned, PassedOver, Entered, Looked, Fail
  <2>4. PendingOK(e)
    BY <2>2, <2>3, PendingHead
  <2>5. Due(e.at)
    BY <1>1, <2>3, <2>4, LookedIsDue
  <2>6. f.own = e.at /\ Shows(f) \in ExtrasForFile(entries[e.at])
    BY <2>3, ExtrasShape
  <2>7. UNCHANGED entries
    BY <2>1 DEF Walk
  <2>8. Due(f.own)' <=> Due(f.own)
    <3>1. Root' = Root /\ RootAt' = RootAt
      BY TreeShrinks, RootStays
    <3> QED
      BY <2>7, <3>1 DEF Due, Linked, Readable, IsFile, Under
  <2> QED
    BY <1>1, <2>5, <2>6, <2>8
<1> QED
  BY <1>2, <1>3

\* The directories down to what is there are there.
LEMMA WayTo ==
  ASSUME TreeInv, NEW p \in Under(RootAt), NEW q \in Seq(Name), IsPrefix(RootAt, q), IsPrefix(q, p)
  PROVE  /\ q \in DOMAIN entries
         /\ q = RootAt \/ q \in Under(RootAt)
         /\ q # p => p \in Under(q) /\ Len(q) < Len(p)
<1>1. /\ p \in DOMAIN entries /\ p \in Seq(Name) /\ RootAt \in Seq(Name) /\ IsPrefix(RootAt, p)
  BY RootAtType, UnderIs
<1>2. SubSeq(p, 1, Len(q)) = q /\ Len(RootAt) <= Len(q) /\ Len(q) <= Len(p)
  BY <1>1, RestOf, PrefixIs
<1>3. q \in DOMAIN entries
  <2>1. Len(q) \in Len(RootAt)..Len(p)
    BY <1>1, <1>2
  <2>2. \A n \in Len(RootAt)..Len(p) : SubSeq(p, 1, n) \in DOMAIN entries
    BY <1>1 DEF TreeInv
  <2> QED
    BY <1>2, <2>1, <2>2
<1>4. q # RootAt => q \in Under(RootAt)
  BY <1>1, <1>2, <1>3, SamePrefix DEF Under
<1>5. q # p => p \in Under(q) /\ Len(q) < Len(p)
  BY <1>1, <1>2, <1>3, SamePrefix DEF Under
<1> QED
  BY <1>3, <1>4, <1>5

\* What is due is neither pruned nor passed over.
LEMMA DueIsReached ==
  ASSUME TreeInv, NEW p \in Under(RootAt), Due(p), NEW e, PendingOK(e), IsPrefix(e.at, p)
  PROVE  /\ e.at \in DOMAIN entries /\ ~e.link
         /\ e.kind = "dir" => e.name \notin PrunedNames /\ e.at # p
         /\ e.kind = "file" => e.at = p /\ e.lang \in {"java", "python"}
<1>1. /\ e.at \in Seq(Name) /\ IsPrefix(RootAt, e.at)
      /\ e.name = IF e.at = RootAt THEN Base(Root) ELSE Last(e.at)
  BY DEF PendingOK
<1>2. /\ e.at \in DOMAIN entries /\ (e.at = RootAt \/ e.at \in Under(RootAt))
      /\ e.at # p => p \in Under(e.at)
  BY <1>1, WayTo
<1>3. e.kind = entries[e.at].kind /\ e.link = Linked(e.at) /\ e.lang = entries[e.at].lang
  BY <1>2 DEF PendingOK
<1>4. /\ entries[p].kind = "file" /\ ~Linked(p) /\ entries[p].lang \in {"java", "python"}
      /\ ~Linked(RootAt) /\ Base(Root) \notin PrunedNames
      /\ \A q \in Under(RootAt) : IsPrefix(q, p) /\ q # p =>
           ~Linked(q) /\ Last(q) \notin PrunedNames
  BY DEF Due, Readable, IsFile
<1>5. e.at # p => e.kind # "file"
  BY <1>2, <1>3 DEF TreeInv
<1>6. p # RootAt
  BY RootAtType, UnderIs
<1>7. CASE e.at = p
  BY <1>2, <1>3, <1>4, <1>7
<1>8. CASE e.at = RootAt
  BY <1>1, <1>2, <1>3, <1>4, <1>5, <1>6, <1>8
<1>9. CASE e.at # p /\ e.at \in Under(RootAt) /\ e.at # RootAt
  BY <1>1, <1>2, <1>3, <1>4, <1>5, <1>9
<1> QED
  BY <1>2, <1>7, <1>8, <1>9

LEMMA AllDueStep ==
  AllDue /\ TreeInv /\ TreeInv' /\ Flow /\ PendingInv /\ [Next]_vars => AllDue'
<1> SUFFICES ASSUME AllDue, TreeInv, TreeInv', Flow, PendingInv, [Next]_vars,
                    NEW p \in Under(RootAt)', Due(p)', ~single'
             PROVE  /\ pc' = "walk" => HasAll(p)' \/ Awaited(p)'
                    /\ pc' \in {"go", "suppress", "done"} => HasAll(p)'
  BY DEF AllDue
<1>1. ~single /\ p \in Under(RootAt) /\ Due(p) /\ entries'[p] = entries[p]
  BY TreeShrinks, DueStays
<1>2. /\ pc = "walk" => HasAll(p) \/ Awaited(p)
      /\ pc \in {"go", "suppress", "done"} => HasAll(p)
  BY <1>1 DEF AllDue
<1>3. SUFFICES ASSUME ~Pattern
                PROVE  /\ pc' = "walk" => HasAll(p)' \/ Awaited(p)'
                       /\ pc' \in {"go", "suppress", "done"} => HasAll(p)'
  BY DEF Pattern, Fail
<1>4. found \subseteq found'
  BY <1>3 DEF Next, vars, Extras, Walk, Pruned, PassedOver, Entered, Looked, Go, Suppress,
         Vanish, Ended, Fail
<1>5. HasAll(p) => HasAll(p)'
  BY <1>1, <1>4 DEF HasAll, Shows
<1>6. p \in DOMAIN entries /\ p \in Seq(Name) /\ RootAt \in Seq(Name) /\ IsPrefix(RootAt, p)
  BY <1>1, RootAtType, UnderIs
<1>7. CASE Extras
  <2>1. ~Readable(RootAt)
    BY <1>1 DEF Readable, IsFile, TreeInv
  <2>2. CASE pc' = "walk"
    <3>1. PICK l : l = Listed(RootAt, Base(Root))
      OBVIOUS
    <3>2. l.at = RootAt
      BY <3>1, Zenon DEF Listed
    <3>3. pending' = <<l>>
      BY <1>7, <2>1, <2>2, <3>1 DEF Extras, Fail
    <3>4. 1 \in DOMAIN pending' /\ pending'[1].at = RootAt
      BY <3>2, <3>3
    <3> QED
      BY <1>6, <2>2, <3>4 DEF Awaited
  <2> QED
    BY <1>7, <2>1, <2>2 DEF Extras, Fail
<1>8. CASE Walk /\ pending = <<>>
  <2>1. ~Awaited(p) /\ pc = "walk"
    BY <1>8 DEF Awaited, Walk
  <2> QED
    BY <1>2, <1>5, <2>1
<1>9. CASE Walk /\ pending # <<>>
  <2>1. PICK e : e = Head(pending)
    OBVIOUS
  <2>2. /\ pc = "walk" /\ UNCHANGED <<single, entries>>
        /\ Pruned(e) \/ PassedOver(e) \/ Entered(e) \/ Looked(e)
        /\ pc' \in {"walk", "failed"}
    BY <1>9, <2>1 DEF Walk, Pruned, PassedOver, Entered, Looked, Fail
  <2>3. PendingOK(e)
    BY <1>9, <2>1, PendingHead
  <2>4. CASE HasAll(p)
    BY <1>5, <2>2, <2>4
  <2>5. SUFFICES ASSUME ~HasAll(p), pc' = "walk"
                 PROVE  HasAll(p)' \/ Awaited(p)'
    BY <2>2, <2>4
  <2>6. PICK j \in DOMAIN pending : IsPrefix(pending[j].at, p)
    BY <1>2, <2>2, <2>5 DEF Awaited
  <2>7. /\ pending[j] = e \/ \E i \in DOMAIN Tail(pending) : Tail(pending)[i] = pending[j]
        /\ Tail(pending) \in Seq({pending[i] : i \in DOMAIN pending})
    BY <1>9, <2>1, PendingHead
  <2>8. CASE \E i \in DOMAIN pending' : IsPrefix(pending'[i].at, p)
    BY <2>8 DEF Awaited
  <2>9. CASE Pruned(e) \/ PassedOver(e)
    <3>1. pending' = Tail(pending)
      BY <2>9 DEF Pruned, PassedOver
    <3>2. pending[j] # e
      BY <1>1, <2>3, <2>6, <2>9, DueIsReached DEF Pruned, PassedOver
    <3> QED
      BY <2>6, <2>7, <2>8, <3>1, <3>2
  <2>10. CASE Looked(e)
    <3>1. CASE pending[j] = e
      <4>1. e.at = p /\ Readable(e.at)
        BY <1>1, <2>3, <2>6, <2>10, <3>1, DueIsReached DEF Looked, Due
      <4>2. found' = found \cup {About(p, Rel(Absolute(RootAt), Absolute(p)), "extras", m) :
                                   m \in ExtrasForFile(entries[p])}
        BY <2>10, <4>1 DEF Looked
      <4>3. ASSUME NEW m \in ExtrasForFile(entries[p])
            PROVE  \E f \in found' : f.tier = "extras" /\ f.own = p /\ Shows(f) = m
        <5>1. PICK f : f = About(p, Rel(Absolute(RootAt), Absolute(p)), "extras", m)
          OBVIOUS
        <5> QED
          BY <4>2, <5>1, ExtrasShape
      <4>4. ASSUME NEW m \in ExtrasForFile(entries'[p])
            PROVE  \E f \in found' : f.tier = "extras" /\ f.own = p /\ Shows(f)' = m
        BY <1>1, <4>3 DEF Shows
      <4> QED
        BY <4>4 DEF HasAll
    <3>2. pending' = Tail(pending)
      BY <2>10 DEF Looked
    <3> QED
      BY <2>6, <2>7, <2>8, <3>1, <3>2
  <2>11. CASE Entered(e)
    <3>1. PICK kids : kids = SetToSeq(Children(e.at))
      OBVIOUS
    <3>2. PICK ls : ls = [i \in DOMAIN kids |-> Listed(kids[i], Last(kids[i]))]
      OBVIOUS
    <3>3. pending' = ls \o Tail(pending) /\ e.kind = "dir"
      BY <2>2, <2>5, <2>11, <3>1, <3>2 DEF Entered, Fail
    <3>4. /\ kids \in Seq(Children(e.at))
          /\ \A k \in Children(e.at) : \E i \in DOMAIN kids : kids[i] = k
      <4>1. Children(e.at) \subseteq DOMAIN entries /\ IsFiniteSet(DOMAIN entries)
        BY DEF TreeInv, Children, Under
      <4>2. IsFiniteSet(Children(e.at))
        BY <4>1, FS_Subset
      <4> QED
        BY <3>1, <4>2, ListingIs
    <3>5. ASSUME NEW x, \/ \E i \in DOMAIN ls : ls[i] = x
                       \/ \E i \in DOMAIN Tail(pending) : Tail(pending)[i] = x
          PROVE  \E n \in DOMAIN pending' : pending'[n] = x
      <4>1. PICK all : all = {ls[i] : i \in DOMAIN ls} \cup {pending[i] : i \in DOMAIN pending}
        OBVIOUS
      <4>2. ls \in Seq({ls[i] : i \in DOMAIN ls})
        BY <3>2, <3>4
      <4>3. ls \in Seq(all) /\ Tail(pending) \in Seq(all)
        BY <2>7, <4>1, <4>2
      <4>4. PICK tail : tail = Tail(pending)
        OBVIOUS
      <4>5. /\ tail \in Seq(all) /\ pending' = ls \o tail
            /\ (\E i \in DOMAIN ls : ls[i] = x) \/ \E i \in DOMAIN tail : tail[i] = x
        BY <3>3, <3>5, <4>3, <4>4
      <4>6. PICK new : new = pending'
        OBVIOUS
      <4>7. /\ Len(new) = Len(ls) + Len(tail) /\ Len(ls) \in Nat /\ Len(tail) \in Nat
            /\ DOMAIN ls = 1..Len(ls) /\ DOMAIN tail = 1..Len(tail) /\ DOMAIN new = 1..Len(new)
            /\ \A i \in 1..Len(ls) : new[i] = ls[i]
            /\ \A i \in 1..Len(tail) : new[Len(ls) + i] = tail[i]
        BY <4>3, <4>5, <4>6
      <4>8. ASSUME NEW i \in DOMAIN ls, ls[i] = x PROVE i \in DOMAIN new /\ new[i] = x
        BY <4>7, <4>8
      <4>9. ASSUME NEW i \in DOMAIN tail, tail[i] = x
            PROVE  Len(ls) + i \in DOMAIN new /\ new[Len(ls) + i] = x
        BY <4>7, <4>9
      <4> QED
        BY <4>5, <4>6, <4>8, <4>9
    <3>6. CASE pending[j] = e
      <4>1. /\ e.at \in Seq(Name) /\ e.at \in DOMAIN entries /\ IsPrefix(RootAt, e.at)
            /\ IsPrefix(e.at, p) /\ e.at # p
        BY <1>1, <2>3, <2>6, <3>3, <3>6, DueIsReached DEF PendingOK
      <4>2. Len(e.at) < Len(p)
        BY <1>1, <4>1, WayTo
      <4>3. PICK k : k = SubSeq(p, 1, Len(e.at) + 1)
        OBVIOUS
      <4>4. Len(e.at) + 1 \in 0..Len(p)
        BY <1>6, <4>1, <4>2
      <4>5. k \in Seq(Name) /\ Len(k) = Len(e.at) + 1 /\ IsPrefix(k, p)
        BY <1>6, <4>3, <4>4, CutIsPrefix
      <4>6. IsPrefix(e.at, k)
        BY <1>6, <4>1, <4>5, PrefixOfPrefix
      <4>7. IsPrefix(RootAt, k)
        BY <1>6, <4>1, <4>5, <4>6, PrefixOfPrefix
      <4>8. k \in DOMAIN entries
        BY <1>1, <4>5, <4>7, WayTo
      <4>9. k \in Children(e.at)
        BY <4>1, <4>5, <4>6, <4>8 DEF Children, Under
      <4>10. PICK i \in DOMAIN kids : kids[i] = k
        BY <3>4, <4>9
      <4>11. i \in DOMAIN ls /\ ls[i] = Listed(k, Last(k))
        BY <3>2, <4>10
      <4>12. Listed(k, Last(k)).at = k
        BY Zenon DEF Listed
      <4>13. ls[i].at = k
        BY <4>11, <4>12, Zenon
      <4>14. PICK n \in DOMAIN pending' : pending'[n] = ls[i]
        BY <3>5, <4>11
      <4> QED
        BY <2>8, <4>5, <4>13, <4>14
    <3> QED
      BY <2>6, <2>7, <2>8, <3>5, <3>6
  <2> QED
    BY <2>2, <2>9, <2>10, <2>11
<1>10. CASE Vanish
  <2>1. pc' = pc /\ pending' = pending
    BY <1>10 DEF Vanish
  <2>2. Awaited(p)' <=> Awaited(p)
    BY <2>1 DEF Awaited
  <2> QED
    BY <1>2, <1>5, <2>1, <2>2
<1>11. CASE Ended \/ UNCHANGED vars
  <2>1. pc' = pc /\ pending' = pending
    BY <1>11 DEF Ended, vars
  <2>2. Awaited(p)' <=> Awaited(p)
    BY <2>1 DEF Awaited
  <2> QED
    BY <1>2, <1>5, <2>1, <2>2
<1>12. CASE Go
  BY <1>2, <1>5, <1>12 DEF Go, Fail
<1>13. CASE Suppress
  BY <1>2, <1>5, <1>13 DEF Suppress
<1> QED
  BY <1>7, <1>8, <1>9, <1>10, <1>11, <1>3, <1>12, <1>13 DEF Next

-----------------------------------------------------------------------------
(* Finding the file again.                                                 *)

\* A finding goes by a relative path, by the absolute one or, a homonym's, by
\* the root.
LEMMA FileForms ==
  ASSUME TreeInv, FoundInv, ~single, NEW f \in found
  PROVE  \/ \E t \in Seq(Name) : f.file = Relative(t)
         \/ ~Root.abs /\ \E t \in Seq(Name) : f.file = Absolute(t)
         \/ f.file = Root /\ Homonym(f.own)
<1>1. /\ f.own \in Seq(Name) /\ IsPrefix(RootAt, f.own) /\ f.own # RootAt
      /\ f.tier \in {"pattern", "extras", "go"}
      /\ f.tier = "pattern" => f.file = RelPath(Root, FromThere(f.own))
      /\ f.tier = "extras" => f.file = FromThere(f.own)
      /\ f.tier = "go" => f.file = IF Root.abs THEN FromThere(f.own) ELSE Absolute(f.own)
  BY DEF FoundInv, FoundOK
<1>2. PICK t \in Seq(Name) : t = FromThere(f.own).names /\ FromThere(f.own) = Relative(t)
  BY <1>1, ThereBelow DEF Path
<1>3. CASE f.tier = "pattern"
  <2>1. CASE /\ ~Root.abs /\ Root.ups = 0 /\ IsPrefix(Root.names, t)
             /\ f.file = Relative(SubSeq(t, Len(Root.names) + 1, Len(t)))
    <3>1. Root.names \in Seq(Name)
      BY DEF TreeInv, Path
    <3>2. SubSeq(t, Len(Root.names) + 1, Len(t)) \in Seq(Name)
      BY <2>1, <3>1, RestOf
    <3> QED
      BY <2>1, <3>2
  <2> QED
    BY <1>1, <1>2, <1>3, <2>1, RelPathAnswers
<1> QED
  BY <1>1, <1>2, <1>3

LEMMA FileType ==
  ASSUME TreeInv, FoundInv, NEW f \in found
  PROVE  f.file \in Path
<1>1. CASE single
  <2>1. f.own = RootAt /\ f.tier \in {"pattern", "extras"}
    BY <1>1 DEF FoundInv, FoundOK
  <2>2. f.file = Root \/ f.file = Relative(<<Base(Root)>>)
    BY <1>1, <2>1, ThereSingle DEF FoundInv, FoundOK
  <2>3. Root \in Path /\ Base(Root) \in Name
    BY <1>1, ThereSingle DEF TreeInv
  <2>4. Relative(<<Base(Root)>>) \in Path
    <3>1. <<Base(Root)>> \in Seq(Name)
      BY <2>3
    <3> QED
      BY <3>1, RelativeType
  <2> QED
    BY <2>2, <2>3, <2>4
<1>2. CASE ~single
  <2>1. Root \in Path
    BY DEF TreeInv
  <2> QED
    BY <1>2, <2>1, FileForms, RelativeType
<1> QED
  BY <1>1, <1>2

LEMMA SourcePathType ==
  ASSUME TreeInv, NEW rel \in Path
  PROVE  SourcePath(Root, IsFile(RootAt), rel) \in Path
<1>1. Root \in Path
  BY DEF TreeInv
<1>2. Join(Root, rel) \in Path
  BY <1>1, JoinType
<1>3. CASE IsFile(RootAt)
  <2>1. Root.names # <<>>
    BY <1>3 DEF TreeInv, IsFile
  <2>2. Dir(Root) \in Path
    BY <1>1, <2>1, DenotedDir DEF TreeInv
  <2>3. Join(Dir(Root), rel) \in Path
    BY <2>2, JoinType
  <2> QED
    BY <1>1, <1>2, <2>3 DEF SourcePath
<1> QED
  BY <1>1, <1>2, <1>3 DEF SourcePath

\* While the file is there, the root is what it was.
LEMMA RootKind ==
  ASSUME TreeInv, FoundInv, NEW f \in found, f.own \in DOMAIN entries
  PROVE  IsFile(RootAt) <=> single
<1>1. IsPrefix(RootAt, f.own)
  BY DEF FoundInv, FoundOK
<1>2. RootAt \in DOMAIN entries
  BY <1>1, RootStands
<1> QED
  BY <1>2 DEF TreeInv, IsFile

\* sourcePath finds the finding's own file.
LEMMA FindsAgain ==
  ASSUME TreeInv, FoundInv, NEW f \in found, ~Homonym(f.own)
  PROVE  Denoted(scan.cwd, Where(f)) = f.own
<1>1. CASE single
  <2>1. f.own = RootAt /\ f.tier \in {"pattern", "extras"}
    BY <1>1 DEF FoundInv, FoundOK
  <2>2. f.file = Root \/ f.file = Relative(<<Base(Root)>>)
    BY <1>1, <2>1, ThereSingle DEF FoundInv, FoundOK
  <2>3. Base(Root) \in Name
    BY <1>1, ThereSingle
  <2>4. /\ ~Relative(<<Base(Root)>>).abs
        /\ Relative(<<Base(Root)>>).names = <<Base(Root)>>
    <3>1. <<Base(Root)>> \in Seq(Name)
      BY <2>3
    <3> QED
      BY <3>1, RelativeType
  <2>5. Base(Relative(<<Base(Root)>>)) = Base(Root)
    BY <2>4 DEF Base, Last
  <2>6. Where(f) = Root
    BY <1>1, <2>2, <2>4, <2>5 DEF Where, SourcePath
  <2> QED
    BY <2>1, <2>6 DEF RootAt
<1>2. CASE ~single
  <2>1. f.file = IF f.tier = "go" /\ ~Root.abs THEN Absolute(f.own) ELSE FromThere(f.own)
    BY <1>2, SpelledWell
  <2>2. f.own \in Seq(Name) /\ IsPrefix(RootAt, f.own)
    BY DEF FoundInv, FoundOK
  <2>3. CASE f.file = Absolute(f.own)
    <3>1. f.file.abs /\ f.file.names = f.own
      BY <2>2, <2>3, RelativeType
    <3>2. Where(f) = f.file
      BY <3>1 DEF Where, SourcePath
    <3> QED
      BY <3>1, <3>2 DEF Denoted
  <2>4. CASE f.file = FromThere(f.own)
    <3>1. /\ FromThere(f.own) \in Path /\ ~FromThere(f.own).abs /\ FromThere(f.own).ups = 0
          /\ RootAt \o FromThere(f.own).names = f.own
      BY <1>2, <2>2, ThereBelow
    <3>2. Where(f) = Join(Root, FromThere(f.own))
      BY <1>2, <2>4, <3>1 DEF Where, SourcePath
    <3>3. Root \in Path /\ scan.cwd \in Seq(Name)
      BY DEF TreeInv
    <3> QED
      BY <3>1, <3>2, <3>3, DenotedJoin DEF RootAt
  <2> QED
    BY <2>1, <2>3, <2>4
<1> QED
  BY <1>1, <1>2

\* Two names joined to the root.
LEMMA JoinedToRoot ==
  ASSUME TreeInv, ~single, NEW f, NEW t \in Seq(Name), f.file = Relative(t)
  PROVE  /\ Where(f).abs = Root.abs /\ Where(f).names = Root.names \o t
<1>1. Root \in Path /\ Relative(t) \in Path /\ ~Relative(t).abs /\ Relative(t).ups = 0
      /\ Relative(t).names = t
  BY RelativeType DEF TreeInv
<1>2. Where(f) = Join(Root, Relative(t))
  BY <1>1 DEF Where, SourcePath
<1> QED
  BY <1>1, <1>2, JoinNames

\* Whatever is looked for where a plain finding's comments are goes by the same
\* name as it.
LEMMA OneSpelling ==
  ASSUME TreeInv, FoundInv, NEW f \in found, NEW g \in found, Plain(f), Where(g) = Where(f)
  PROVE  g.file = f.file
<1>1. CASE single
  BY <1>1 DEF Plain
<1>2. CASE ~single
  <2>1. ~Homonym(f.own) /\ (Homonym(g.own) => ~(Root.ups > 0))
    BY DEF Plain
  <2>2. Root \in Path /\ Root.names \in Seq(Name) /\ Root.ups \in Nat /\ Root.abs \in BOOLEAN
    BY DEF TreeInv, Path
  <2>3. ASSUME NEW h \in found, NEW t \in Seq(Name), h.file = Absolute(t)
        PROVE  Where(h) = h.file /\ h.file.abs
    BY <2>3, RelativeType DEF Where, SourcePath
  <2>4. CASE ~Root.abs /\ \E t \in Seq(Name) : f.file = Absolute(t)
    <3>1. Where(f) = f.file /\ f.file.abs
      BY <2>3, <2>4
    <3>2. CASE \E t \in Seq(Name) : g.file = Absolute(t)
      BY <2>3, <3>1, <3>2
    <3>3. CASE \E t \in Seq(Name) : g.file = Relative(t)
      BY <1>2, <2>4, <3>1, <3>3, JoinedToRoot
    <3>4. CASE g.file = Root
      <4>1. Where(g) = Join(Root, Root)
        BY <1>2, <2>4, <3>4 DEF Where, SourcePath
      <4>2. Join(Root, Root).abs = Root.abs
        BY <2>2, JoinType
      <4> QED
        BY <2>4, <3>1, <4>1, <4>2
    <3> QED
      BY <1>2, <3>2, <3>3, <3>4, FileForms
  <2>5. CASE \E t \in Seq(Name) : f.file = Relative(t)
    <3>1. PICK t \in Seq(Name) : f.file = Relative(t)
      BY <2>5
    <3>2. /\ f.file = FromThere(f.own) /\ t = FromThere(f.own).names /\ t # <<>>
      <4>1. ~f.file.abs
        BY <3>1, RelativeType
      <4>2. /\ f.own \in Seq(Name) /\ IsPrefix(RootAt, f.own) /\ f.own # RootAt
        BY <1>2 DEF FoundInv, FoundOK
      <4>3. f.file = FromThere(f.own)
        BY <1>2, <2>1, <4>1, <4>2, SpelledWell, RelativeType
      <4>4. t = f.file.names
        BY <3>1, RelativeType
      <4>5. FromThere(f.own).names # <<>>
        BY <1>2, <4>2, ThereBelow
      <4> QED
        BY <4>3, <4>4, <4>5
    <3>3. Where(f).abs = Root.abs /\ Where(f).names = Root.names \o t
      BY <1>2, <3>1, JoinedToRoot
    <3>4. CASE ~Root.abs /\ \E s \in Seq(Name) : g.file = Absolute(s)
      BY <2>3, <3>3, <3>4
    <3>5. CASE \E s \in Seq(Name) : g.file = Relative(s)
      <4>1. PICK s \in Seq(Name) : g.file = Relative(s)
        BY <3>5
      <4>2. Root.names \o s = Root.names \o t
        BY <1>2, <3>3, <4>1, JoinedToRoot
      <4> QED
        BY <2>2, <3>1, <4>1, <4>2, JoinedApart
    <3>6. CASE g.file = Root /\ Homonym(g.own)
      <4>1. Root.ups = 0
        BY <2>1, <2>2, <3>6
      <4>2. CASE Root.abs
        <5>1. Where(g) = Root
          BY <3>6, <4>2 DEF Where, SourcePath
        <5>2. Root.names = Root.names \o t
          BY <3>3, <5>1
        <5>3. Len(Root.names \o t) = Len(Root.names) + Len(t) /\ Len(t) > 0
          BY <2>2, <3>2
        <5> QED
          BY <2>2, <5>2, <5>3
      <4>3. CASE ~Root.abs
        <5>1. Where(g) = Join(Root, Root)
          BY <1>2, <3>6, <4>3 DEF Where, SourcePath
        <5>2. Root.names \o Root.names = Root.names \o t
          <6>1. Join(Root, Root).names = Root.names \o Root.names
            BY <2>2, <4>1, JoinNames
          <6> QED
            BY <3>3, <5>1, <6>1, Zenon
        <5>3. Root.names = t
          BY <2>2, <5>2, JoinedApart
        <5>4. IsPrefix(Root.names, t) /\ Root.names # <<>>
          BY <2>2, <3>2, <5>3, PrefixIs
        <5> QED
          BY <1>2, <2>1, <3>2, <4>1, <4>3, <5>4 DEF Homonym
      <4> QED
        BY <4>2, <4>3
    <3> QED
      BY <1>2, <3>4, <3>5, <3>6, FileForms
  <2>6. ~(f.file = Root /\ Homonym(f.own))
    BY <2>1
  <2> QED
    BY <1>2, <2>4, <2>5, <2>6, FileForms
<1> QED
  BY <1>1, <1>2

\* The next finding's comments are looked for where sourcePath says.
LEMMA SuppressReads ==
  ASSUME TreeInv, FoundInv, Flow, Suppress
  PROVE  \/ todo = {} /\ pc' = "done" /\ UNCHANGED <<todo, seen, sups>>
         \/ \E f \in todo, path \in Path :
              /\ f \in found
              /\ \A h \in found : h.own \in DOMAIN entries => path = Where(f)
              /\ todo' = todo \ {f} /\ seen' = seen \cup {path} /\ pc' = pc
              /\ sups' = IF path \in seen \/ ~Readable(Denoted(scan.cwd, path)) THEN sups
                         ELSE sups \cup {[file |-> f.file, line |-> c.line, rule |-> c.rule] :
                                           c \in Parsed(entries[Denoted(scan.cwd, path)])}
<1>1. CASE todo = {} /\ pc' = "done" /\ UNCHANGED <<todo, seen, sups>>
  BY <1>1
<1>2. CASE \E f \in todo :
             LET path == SourcePath(Root, IsFile(RootAt), f.file)
                 at   == Denoted(scan.cwd, path)
             IN  /\ todo' = todo \ {f}
                 /\ seen' = seen \cup {path}
                 /\ sups' = IF path \in seen \/ ~Readable(at) THEN sups
                            ELSE sups \cup {[file |-> f.file, line |-> c.line, rule |-> c.rule] :
                                              c \in Parsed(entries[at])}
                 /\ UNCHANGED pc
  <2>1. PICK f \in todo :
             LET path == SourcePath(Root, IsFile(RootAt), f.file)
                 at   == Denoted(scan.cwd, path)
             IN  /\ todo' = todo \ {f}
                 /\ seen' = seen \cup {path}
                 /\ sups' = IF path \in seen \/ ~Readable(at) THEN sups
                            ELSE sups \cup {[file |-> f.file, line |-> c.line, rule |-> c.rule] :
                                              c \in Parsed(entries[at])}
                 /\ UNCHANGED pc
    BY <1>2
  <2>2. PICK path : path = SourcePath(Root, IsFile(RootAt), f.file)
    OBVIOUS
  <2>3. f \in found
    BY DEF Flow
  <2>4. path \in Path
    BY <2>2, <2>3, FileType, SourcePathType
  <2>5. ASSUME NEW h \in found, h.own \in DOMAIN entries PROVE path = Where(f)
    <3>1. IsFile(RootAt) <=> single
      BY <2>5, RootKind
    <3>2. IsFile(RootAt) \in BOOLEAN /\ single \in BOOLEAN
      BY DEF IsFile, TreeInv
    <3>3. IsFile(RootAt) = single
      BY <3>1, <3>2
    <3> QED
      BY <2>2, <3>3, Zenon DEF Where
  <2> QED
    BY <2>1, <2>2, <2>3, <2>4, <2>5
<1> QED
  BY <1>1, <1>2 DEF Suppress

LEMMA SupsStep ==
  SupsInv /\ TreeInv /\ FoundInv /\ Flow /\ [Next]_vars => SupsInv'
<1> SUFFICES ASSUME SupsInv, TreeInv, FoundInv, Flow, [Next]_vars PROVE SupsInv'
  OBVIOUS
<1>1. /\ UNCHANGED <<scan, single>>
      /\ \A q \in DOMAIN entries' : q \in DOMAIN entries /\ entries'[q] = entries[q]
      /\ \A p : Homonym(p)' <=> Homonym(p)
  BY TreeShrinks, RootStays
<1>2. CASE UNCHANGED <<found, sups>>
  <2>1. ASSUME NEW s \in sups
        PROVE  /\ s.file \in Path /\ s.line \in Nat
               /\ \A f \in found : f.file = s.file /\ ~Homonym(f.own) /\ f.own \in DOMAIN entries' =>
                    \E c \in entries'[f.own].comments : c.rule = s.rule /\ c.line = s.line /\ c.reason
    BY <1>1 DEF SupsInv
  <2> QED
    BY <1>1, <1>2, <2>1 DEF SupsInv
<1>3. CASE sups' = {}
  BY <1>3 DEF SupsInv
<1>4. CASE Suppress
  <2>1. UNCHANGED <<found, entries>>
    BY <1>4 DEF Suppress
  <2>2. SUFFICES ASSUME NEW s \in sups', s \notin sups
                 PROVE  /\ s.file \in Path /\ s.line \in Nat
                        /\ \A f \in found : f.file = s.file /\ ~Homonym(f.own) /\ f.own \in DOMAIN entries =>
                             \E c \in entries[f.own].comments :
                               c.rule = s.rule /\ c.line = s.line /\ c.reason
    BY <1>1, <2>1 DEF SupsInv
  <2>3. PICK f \in todo, path \in Path :
          /\ f \in found
          /\ \A h \in found : h.own \in DOMAIN entries => path = Where(f)
          /\ Readable(Denoted(scan.cwd, path))
          /\ sups' = sups \cup {[file |-> f.file, line |-> c.line, rule |-> c.rule] :
                                  c \in Parsed(entries[Denoted(scan.cwd, path)])}
    BY <1>4, <2>2, SuppressReads
  <2>4. PICK at : at = Denoted(scan.cwd, path)
    OBVIOUS
  <2>5. PICK c \in Parsed(entries[at]) : s = [file |-> f.file, line |-> c.line, rule |-> c.rule]
    BY <2>2, <2>3, <2>4
  <2>6. c \in entries[at].comments /\ c.reason
    BY Zenon DEF Parsed
  <2>7. at \in DOMAIN entries /\ c.line \in Nat
    BY <2>3, <2>4, <2>6 DEF Readable, IsFile, TreeInv, Lined
  <2>8. s.file = f.file /\ s.line = c.line /\ s.rule = c.rule
    BY <2>5
  <2>9. f.file \in Path
    BY <2>3, FileType
  <2>10. ASSUME NEW g \in found, g.file = s.file, ~Homonym(g.own), g.own \in DOMAIN entries
         PROVE  \E d \in entries[g.own].comments : d.rule = s.rule /\ d.line = s.line /\ d.reason
    <3>1. path = Where(g)
      BY <2>3, <2>8, <2>10 DEF Where
    <3>2. g.own = at
      BY <2>4, <2>10, <3>1, FindsAgain
    <3> QED
      BY <2>6, <2>8, <3>2, Zenon
  <2> QED
    BY <2>7, <2>8, <2>9, <2>10
<1>5. Pattern \/ Extras \/ Walk \/ Go => sups' = {}
  BY DEF Flow, Pattern, Extras, Walk, Go
<1>6. Vanish \/ Ended \/ UNCHANGED vars => UNCHANGED <<found, sups>>
  BY DEF Vanish, Ended, vars
<1> QED
  BY <1>2, <1>3, <1>4, <1>5, <1>6 DEF Next

LEMMA ReadStep ==
  ReadInv /\ TreeInv /\ FoundInv /\ Flow /\ [Next]_vars => ReadInv'
<1> SUFFICES ASSUME ReadInv, TreeInv, FoundInv, Flow, [Next]_vars PROVE ReadInv'
  OBVIOUS
<1>1. /\ UNCHANGED <<scan, single>> /\ Root' = Root
      /\ \A q \in DOMAIN entries' : q \in DOMAIN entries /\ entries'[q] = entries[q]
      /\ \A p : Homonym(p)' <=> Homonym(p)
      /\ \A f : Where(f)' = Where(f)
  BY TreeShrinks, RootStays
<1>2. \A p : Readable(p)' => Readable(p) /\ entries'[p] = entries[p]
  BY <1>1 DEF Readable, IsFile
<1>3. CASE UNCHANGED <<pc, found, todo, seen, sups>>
  <2>1. \A f : Plain(f)' <=> Plain(f)
    BY <1>1, <1>3 DEF Plain
  <2>2. seen' \subseteq Path /\ (pc' = "done" => todo' = {})
    BY <1>3 DEF ReadInv
  <2>3. ASSUME pc' \in {"suppress", "done"}, NEW f \in found', Readable(f.own)'
        PROVE  /\ f \in todo' \/ Where(f)' \in seen'
               /\ Where(f)' \in seen' /\ Plain(f)' =>
                    \A c \in Parsed(entries'[f.own]) :
                      [file |-> f.file, line |-> c.line, rule |-> c.rule] \in sups'
    <3>1. /\ f \in todo \/ Where(f) \in seen
          /\ Where(f) \in seen /\ Plain(f) =>
                    \A c \in Parsed(entries[f.own]) :
                      [file |-> f.file, line |-> c.line, rule |-> c.rule] \in sups
      BY <1>2, <1>3, <2>3 DEF ReadInv
    <3> QED
      BY <1>1, <1>2, <1>3, <2>1, <2>3, <3>1
  <2> QED
    BY <2>2, <2>3 DEF ReadInv, Parsed
<1>4. CASE pc' \notin {"suppress", "done"} /\ seen' = {}
  BY <1>4 DEF ReadInv
<1>5. CASE Go /\ pc' = "suppress"
  <2>1. todo' = found' /\ seen' = {}
    BY <1>5 DEF Go, Flow, Fail
  <2> QED
    BY <1>5, <2>1 DEF ReadInv
<1>6. CASE Suppress
  <2>1. UNCHANGED <<found, entries>> /\ pc = "suppress"
    BY <1>6 DEF Suppress
  <2>2. \A f : Plain(f)' <=> Plain(f)
    BY <1>1, <2>1 DEF Plain
  <2>3. CASE todo = {} /\ pc' = "done" /\ UNCHANGED <<todo, seen, sups>>
    <3>1. ASSUME NEW f \in found', Readable(f.own)'
          PROVE  /\ f \in todo' \/ Where(f)' \in seen'
                 /\ Where(f)' \in seen' /\ Plain(f)' =>
                      \A c \in Parsed(entries'[f.own]) :
                        [file |-> f.file, line |-> c.line, rule |-> c.rule] \in sups'
      <4>1. /\ f \in todo \/ Where(f) \in seen
            /\ Where(f) \in seen /\ Plain(f) =>
                      \A c \in Parsed(entries[f.own]) :
                        [file |-> f.file, line |-> c.line, rule |-> c.rule] \in sups
        BY <1>2, <2>1, <3>1 DEF ReadInv
      <4> QED
        BY <1>1, <2>1, <2>2, <2>3, <4>1
    <3>2. seen' \subseteq Path /\ todo' = {}
      BY <2>3 DEF ReadInv
    <3> QED
      BY <3>1, <3>2 DEF ReadInv, Parsed
  <2>4. CASE \E f \in todo, path \in Path :
              /\ f \in found
              /\ \A h \in found : h.own \in DOMAIN entries => path = Where(f)
              /\ todo' = todo \ {f} /\ seen' = seen \cup {path} /\ pc' = pc
              /\ sups' = IF path \in seen \/ ~Readable(Denoted(scan.cwd, path)) THEN sups
                         ELSE sups \cup {[file |-> f.file, line |-> c.line, rule |-> c.rule] :
                                           c \in Parsed(entries[Denoted(scan.cwd, path)])}
    <3>1. PICK g \in todo, path \in Path :
              /\ g \in found
              /\ \A h \in found : h.own \in DOMAIN entries => path = Where(g)
              /\ todo' = todo \ {g} /\ seen' = seen \cup {path} /\ pc' = pc
              /\ sups' = IF path \in seen \/ ~Readable(Denoted(scan.cwd, path)) THEN sups
                         ELSE sups \cup {[file |-> g.file, line |-> c.line, rule |-> c.rule] :
                                           c \in Parsed(entries[Denoted(scan.cwd, path)])}
      BY <2>4
    <3>2. ASSUME NEW f \in found, Readable(f.own)
          PROVE  /\ f \in todo' \/ Where(f) \in seen'
                 /\ Where(f) \in seen' /\ Plain(f) =>
                      \A c \in Parsed(entries[f.own]) :
                        [file |-> f.file, line |-> c.line, rule |-> c.rule] \in sups'
      <4>1. /\ f \in todo \/ Where(f) \in seen
            /\ Where(f) \in seen /\ Plain(f) =>
                      \A c \in Parsed(entries[f.own]) :
                        [file |-> f.file, line |-> c.line, rule |-> c.rule] \in sups
        BY <2>1, <3>2 DEF ReadInv
      <4>2. f \in todo' \/ Where(f) \in seen'
        BY <3>1, <3>2, <4>1 DEF Readable, IsFile
      <4>3. ASSUME Where(f) \in seen', Plain(f), NEW c \in Parsed(entries[f.own])
            PROVE  [file |-> f.file, line |-> c.line, rule |-> c.rule] \in sups'
        <5>1. CASE Where(f) \in seen
          <6>1. [file |-> f.file, line |-> c.line, rule |-> c.rule] \in sups
            BY <4>1, <4>3, <5>1
          <6>2. sups \subseteq sups'
            BY <3>1
          <6> QED
            BY <6>1, <6>2
        <5>2. CASE Where(f) \notin seen
          <6>1. path = Where(f) /\ path \notin seen
            BY <3>1, <4>3, <5>2
          <6>2. path = Where(g)
            BY <3>1, <3>2 DEF Readable, IsFile
          <6>3. Denoted(scan.cwd, path) = f.own
            BY <4>3, <6>1, FindsAgain DEF Plain
          <6>4. sups' = sups \cup {[file |-> g.file, line |-> d.line, rule |-> d.rule] :
                                     d \in Parsed(entries[f.own])}
            BY <3>1, <3>2, <6>1, <6>3
          <6>5. g.file = f.file
            BY <3>1, <4>3, <6>1, <6>2, OneSpelling
          <6> QED
            BY <4>3, <6>4, <6>5
        <5> QED
          BY <5>1, <5>2
      <4> QED
        BY <4>2, <4>3
    <3>3. ASSUME NEW f \in found', Readable(f.own)'
          PROVE  /\ f \in todo' \/ Where(f)' \in seen'
                 /\ Where(f)' \in seen' /\ Plain(f)' =>
                      \A c \in Parsed(entries'[f.own]) :
                        [file |-> f.file, line |-> c.line, rule |-> c.rule] \in sups'
      BY <1>1, <1>2, <2>1, <2>2, <3>2, <3>3
    <3>4. seen' \subseteq Path /\ pc' = "suppress"
      BY <2>1, <3>1 DEF ReadInv
    <3> QED
      BY <3>3, <3>4 DEF ReadInv, Parsed
  <2> QED
    BY <1>6, <2>3, <2>4, SuppressReads
<1>7. Pattern \/ Extras \/ Walk => pc' \notin {"suppress", "done"} /\ seen' = {}
  BY DEF Flow, Pattern, Extras, Walk, Pruned, PassedOver, Entered, Looked, Fail
<1>8. Go => pc' = "suppress" \/ (pc' = "failed" /\ seen' = {})
  BY DEF Flow, Go, Fail
<1>9. Vanish \/ Ended \/ UNCHANGED vars => UNCHANGED <<pc, found, todo, seen, sups>>
  BY DEF Vanish, Ended, vars
<1> QED
  BY <1>3, <1>4, <1>5, <1>6, <1>7, <1>8, <1>9 DEF Next

-----------------------------------------------------------------------------
(* The theorems.                                                           *)

SourcesInv == /\ TreeInv /\ FoundInv /\ Flow /\ PendingInv
              /\ OnlyDue /\ AllDue /\ SupsInv /\ ReadInv

LEMMA SourcesAreKept == Spec => []SourcesInv
<1>1. Init => SourcesInv
  BY TreeInit, FoundInit DEF SourcesInv
<1>2. SourcesInv /\ [Next]_vars => SourcesInv'
  BY TreeStep, FoundStep, FlowStep, PendingStep, OnlyDueStep, AllDueStep, SupsStep, ReadStep
     DEF SourcesInv
<1> QED
  BY <1>1, <1>2, PTL DEF Spec

\* Every variable has its type: what is found, read and pending is somewhere in
\* what may be scanned (cli/scan.go, runner.go, extras.go).
THEOREM TypeCorrect == Spec => []TypeOK
<1>1. SourcesInv => TypeOK
  <2> SUFFICES ASSUME SourcesInv PROVE TypeOK
    OBVIOUS
  <2>1. /\ TreeInv /\ FoundInv /\ Flow /\ PendingInv /\ SupsInv /\ ReadInv
    BY DEF SourcesInv
  <2>2. /\ \E s \in Scans : scan.root = s.root /\ DOMAIN entries \subseteq DOMAIN s.entries
        /\ single \in BOOLEAN
    BY <2>1 DEF TreeInv
  <2>3. \A i \in DOMAIN pending : pending[i].at \in Somewhere
    BY <2>1 DEF PendingInv, PendingOK
  <2>4. \A f \in found : /\ f.file \in Path /\ f.own \in Somewhere /\ f.line \in Nat
                         /\ f.tier \in {"pattern", "extras", "go"}
    BY <2>1, FileType DEF FoundInv, FoundOK
  <2>5. /\ seen \subseteq Path
        /\ \A s \in sups : s.file \in Path /\ s.line \in Nat
    BY <2>1 DEF SupsInv, ReadInv
  <2>6. /\ edits \in 0..MaxEdits
        /\ pc \in {"pattern", "extras", "walk", "go", "suppress", "done", "failed"}
        /\ todo \subseteq found
    BY <2>1 DEF Flow
  <2> QED
    BY <2>2, <2>3, <2>4, <2>5, <2>6 DEF TypeOK
<1> QED
  BY <1>1, SourcesAreKept, PTL

\* A walk that comes through has read each java and python file within its
\* reach that is still there and is not marked, and none beyond its reach,
\* whatever is pruned, linked or removed meanwhile (extras.go
\* CardinalityExtras, visitCardinalityPath).
THEOREM ExtrasAreInScope == Spec => []ExtrasInScope
<1>1. SourcesInv => ExtrasInScope
  <2> SUFFICES ASSUME SourcesInv, pc \in {"go", "suppress", "done"}, ~single,
                      NEW p \in DOMAIN entries \ {RootAt}
               PROVE  {[rule |-> f.rule, line |-> f.line, symbol |-> f.symbol] :
                         f \in {g \in found : g.tier = "extras" /\ g.own = p}}
                        = IF p \in Under(RootAt) /\ Due(p) THEN ExtrasForFile(entries[p]) ELSE {}
    BY DEF ExtrasInScope
  <2>1. TreeInv /\ FoundInv /\ OnlyDue /\ AllDue
    BY DEF SourcesInv
  <2>2. ASSUME NEW f \in found, f.tier = "extras", f.own = p
        PROVE  p \in Under(RootAt) /\ Due(p) /\ Shows(f) \in ExtrasForFile(entries[p])
    <3>1. Due(p) /\ Shows(f) \in ExtrasForFile(entries[p])
      BY <2>1, <2>2 DEF OnlyDue
    <3>2. p \in Seq(Name) /\ RootAt \in Seq(Name) /\ IsPrefix(RootAt, p) /\ p # RootAt
      BY <2>1, <2>2, RootAtType DEF FoundInv, FoundOK
    <3> QED
      BY <3>1, <3>2, PrefixIs, SamePrefix DEF Under
  <2>3. ASSUME p \in Under(RootAt), Due(p), NEW m \in ExtrasForFile(entries[p])
        PROVE  \E f \in found : f.tier = "extras" /\ f.own = p /\ Shows(f) = m
    BY <2>1, <2>3 DEF AllDue, HasAll
  <2> QED
    BY <2>2, <2>3 DEF Shows
<1> QED
  BY <1>1, SourcesAreKept, PTL

\* However the root is spelled, a finding in a directory goes by the path below
\* it, but for the homonyms and the go tier's below a relative root (runner.go
\* relPath, golang/runner.go diagnosticFinding, extras.go).
THEOREM FindingsAreSpelled == Spec => []SpelledFromRoot
<1>1. SourcesInv => SpelledFromRoot
  BY SpelledWell DEF SourcesInv, SpelledFromRoot
<1> QED
  BY <1>1, SourcesAreKept, PTL

\* A comment with a reason quiets the finding beside it, whichever tier found
\* it and however the root is spelled, with the exceptions the property names
\* (cli/scan.go sourcePath, loadSuppressions; suppress.go).
THEOREM CommentsAreHeard == Spec => []CommentsApply
<1>1. SourcesInv => CommentsApply
  <2> SUFFICES ASSUME SourcesInv, pc = "done", NEW f \in found,
                      ~Homonym(f.own), Readable(f.own),
                      single => \A g \in found : g.file = f.file,
                      Root.ups > 0 => \A g \in found : ~Homonym(g.own),
                      NEW c \in entries[f.own].comments,
                      Beside(c, f), c.reason,
                      entries[f.own].cut = 0 \/ c.line < entries[f.own].cut
               PROVE  SuppressedBy(f, sups)
    BY DEF CommentsApply
  <2>1. TreeInv /\ FoundInv /\ ReadInv
    BY DEF SourcesInv
  <2>2. Plain(f) /\ c \in Parsed(entries[f.own])
    BY DEF Plain, Parsed
  <2>3. [file |-> f.file, line |-> c.line, rule |-> c.rule] \in sups
    BY <2>1, <2>2 DEF ReadInv
  <2>4. PICK s \in sups : s = [file |-> f.file, line |-> c.line, rule |-> c.rule]
    BY <2>3
  <2>5. s.file = f.file /\ s.line = c.line /\ s.rule = c.rule
    BY <2>4
  <2>6. c.rule = f.rule /\ (c.line = f.line \/ c.line = f.line - 1)
    BY DEF Beside
  <2>7. f.line \in Nat
    BY <2>1 DEF FoundInv, FoundOK
  <2> QED
    BY <2>5, <2>6, <2>7 DEF SuppressedBy
<1> QED
  BY <1>1, SourcesAreKept, PTL

\* No finding is quieted by a comment of another file, or one that gives no
\* reason (cli/scan.go loadSuppressions, suppress.go ParseSuppressions).
THEOREM NoForeignCommentQuiets == Spec => []NoForeignComment
<1>1. SourcesInv => NoForeignComment
  <2> SUFFICES ASSUME SourcesInv, NEW f \in found, SuppressedBy(f, sups), ~Homonym(f.own),
                      f.own \in DOMAIN entries
               PROVE  \E c \in entries[f.own].comments : Beside(c, f) /\ c.reason
    BY DEF NoForeignComment
  <2>1. SupsInv /\ f.line \in Nat
    BY DEF SourcesInv, FoundInv, FoundOK
  <2>2. PICK s \in sups : s.file = f.file /\ s.rule = f.rule /\ (s.line = f.line \/ s.line + 1 = f.line)
    BY DEF SuppressedBy
  <2>3. PICK c \in entries[f.own].comments : c.rule = s.rule /\ c.line = s.line /\ c.reason
    BY <2>1, <2>2 DEF SupsInv
  <2>4. s.line \in Nat
    BY <2>1 DEF SupsInv
  <2> QED
    BY <2>1, <2>2, <2>3, <2>4 DEF Beside
<1> QED
  BY <1>1, SourcesAreKept, PTL

-----------------------------------------------------------------------------
(* What is left to do.                                                       *)

LEMMA ImageIsFinite ==
  ASSUME NEW S, IsFiniteSet(S), NEW f, f = [x \in S |-> f[x]]
  PROVE  IsFiniteSet({f[x] : x \in S})
<1> DEFINE T == {f[x] : x \in S}
<1>1. f \in [S -> T] /\ \A t \in T : \E x \in S : f[x] = t
  OBVIOUS
<1>2. f \in Surjection(S, T)
  BY <1>1 DEF Surjection
<1> QED
  BY <1>2, FS_Surjection

\* Finitely many marks make finitely many findings.
LEMMA AboutIsFinite ==
  ASSUME NEW S, IsFiniteSet(S), NEW p, NEW file, NEW tier
  PROVE  IsFiniteSet({About(p, file, tier, m) : m \in S})
<1> DEFINE f == [m \in S |-> About(p, file, tier, m)]
<1>1. IsFiniteSet({f[m] : m \in S})
  BY ImageIsFinite
<1>2. {f[m] : m \in S} = {About(p, file, tier, m) : m \in S}
  OBVIOUS
<1> QED
  BY <1>1, <1>2

LEMMA ExtrasAreFinite ==
  ASSUME NEW e, IsFiniteSet(Lined(e))
  PROVE  IsFiniteSet(ExtrasForFile(e))
<1>1. IsFiniteSet(JavaExtras(e))
  <2> DEFINE S == {d \in e.consts : d.name \in e.used /\ d.value \in UnboundedLabels}
             f == [c \in S |-> [rule |-> "metrics/high-cardinality-label", line |-> c.line, symbol |-> c.value]]
  <2>1. IsFiniteSet(S)
    BY FS_Subset DEF Lined
  <2>2. IsFiniteSet({f[c] : c \in S})
    BY <2>1, ImageIsFinite
  <2>3. {f[c] : c \in S} = JavaExtras(e)
    BY DEF JavaExtras
  <2> QED
    BY <2>2, <2>3
<1>2. IsFiniteSet(PythonExtras(e))
  <2> DEFINE S == {k \in e.labels : /\ Annotated(e, k.name) # {}
                                    /\ Params(e, k.name) \in {"Exception", "BaseException"}}
             f == [l \in S |-> [rule |-> "metrics/unbounded-label-value", line |-> l.line, symbol |-> l.name]]
  <2>1. IsFiniteSet(S)
    BY FS_Subset DEF Lined
  <2>2. IsFiniteSet({f[l] : l \in S})
    BY <2>1, ImageIsFinite
  <2>3. {f[l] : l \in S} = PythonExtras(e)
    BY DEF PythonExtras
  <2> QED
    BY <2>2, <2>3
<1> QED
  BY <1>1, <1>2, FS_EmptySet, Zenon DEF ExtrasForFile

\* A file has finitely many marks, and a scan finitely many findings.
FiniteInv == /\ \A p \in DOMAIN entries : IsFiniteSet(Lined(entries[p]))
             /\ IsFiniteSet(found)

\* What is said of finitely many files is finite.
LEMMA AllAboutIsFinite ==
  ASSUME NEW P, IsFiniteSet(P), NEW g, g = [p \in P |-> g[p]],
         \A p \in P : IsFiniteSet(g[p])
  PROVE  IsFiniteSet(UNION {g[p] : p \in P})
<1>1. IsFiniteSet({g[p] : p \in P})
  BY ImageIsFinite
<1> QED
  BY <1>1, FS_UNION

LEMMA FiniteStep == TreeInv /\ Flow /\ PendingInv /\ FiniteInv /\ [Next]_vars => FiniteInv'
<1> SUFFICES ASSUME TreeInv, Flow, PendingInv, FiniteInv, [Next]_vars PROVE FiniteInv'
  OBVIOUS
<1>1. \A p \in DOMAIN entries' : IsFiniteSet(Lined(entries'[p]))
  BY TreeShrinks DEF FiniteInv
<1>2. ASSUME NEW p \in DOMAIN entries
      PROVE  /\ IsFiniteSet(entries[p].matches) /\ IsFiniteSet(entries[p].lint)
             /\ IsFiniteSet(ExtrasForFile(entries[p]))
  <2>1. IsFiniteSet(Lined(entries[p]))
    BY DEF FiniteInv
  <2>2. entries[p].matches \in SUBSET Lined(entries[p]) /\ entries[p].lint \in SUBSET Lined(entries[p])
    BY DEF Lined
  <2>3. IsFiniteSet(entries[p].matches)
    BY <2>1, <2>2, FS_Subset
  <2>4. IsFiniteSet(entries[p].lint)
    BY <2>1, <2>2, FS_Subset
  <2> QED
    BY <2>1, <2>3, <2>4, ExtrasAreFinite
<1>3. IsFiniteSet(DOMAIN entries)
  BY DEF TreeInv
<1>4. CASE Pattern
  <2>1. CASE UNCHANGED found
    BY <1>1, <2>1 DEF FiniteInv
  <2>2. CASE ~UNCHANGED found
    <3> DEFINE P == {q \in Under(RootAt) \cup {RootAt} :
                       Reached(q) /\ ~Excluded(RelPath(ScanDir, FromThere(q)))}
               g == [p \in P |-> {About(p, RelPath(Root, FromThere(p)), "pattern", m) :
                                    m \in entries[p].matches}]
    <3>1. P \subseteq DOMAIN entries
      BY DEF Reached, Readable, IsFile
    <3>2. IsFiniteSet(P)
      BY <1>3, <3>1, FS_Subset
    <3>3. /\ g = [p \in P |-> g[p]]
          /\ \A p \in P : g[p] = {About(p, RelPath(Root, FromThere(p)), "pattern", m) : m \in entries[p].matches}
      OBVIOUS
    <3>4. found' = UNION {g[p] : p \in P}
      <4>1. {g[p] : p \in P} = {{About(p, RelPath(Root, FromThere(p)), "pattern", m) : m \in entries[p].matches} : p \in P}
        OBVIOUS
      <4> QED
        BY <1>4, <2>2, <4>1 DEF Pattern, Fail
    <3> HIDE DEF P, g
    <3>5. ASSUME NEW p \in P PROVE IsFiniteSet(g[p])
      <4>1. IsFiniteSet(entries[p].matches)
        BY <1>2, <3>1
      <4> QED
        BY <3>3, <4>1, AboutIsFinite
    <3>6. IsFiniteSet(UNION {g[p] : p \in P})
      BY <3>2, <3>3, <3>5, AllAboutIsFinite
    <3> QED
      BY <1>1, <3>4, <3>6 DEF FiniteInv
  <2> QED
    BY <2>1, <2>2
<1>5. ASSUME NEW p \in DOMAIN entries, NEW file,
             found' = found \cup {About(p, file, "extras", m) : m \in ExtrasForFile(entries[p])}
      PROVE  FiniteInv'
  <2>1. IsFiniteSet({About(p, file, "extras", m) : m \in ExtrasForFile(entries[p])})
    BY <1>2, AboutIsFinite
  <2> QED
    BY <1>1, <1>5, <2>1, FS_Union DEF FiniteInv
<1>6. CASE Extras
  BY <1>1, <1>5, <1>6 DEF Extras, Fail, FiniteInv, Readable, IsFile
<1>7. CASE Walk
  BY <1>1, <1>5, <1>7 DEF Walk, Pruned, PassedOver, Entered, Looked, Fail, FiniteInv, Readable, IsFile
<1>8. CASE Go
  <2>1. CASE UNCHANGED found
    BY <1>1, <2>1 DEF FiniteInv
  <2>2. CASE ~UNCHANGED found
    <3> DEFINE P == {q \in Under(RootAt) : Readable(q) /\ entries[q].lang = "go"}
               g == [p \in P |-> {About(p, GoSpelling(Root, Absolute(p)), "go", m) :
                                    m \in entries[p].lint}]
    <3>1. P \subseteq DOMAIN entries
      BY DEF Under
    <3>2. IsFiniteSet(P)
      BY <1>3, <3>1, FS_Subset
    <3>3. /\ g = [p \in P |-> g[p]]
          /\ \A p \in P : g[p] = {About(p, GoSpelling(Root, Absolute(p)), "go", m) : m \in entries[p].lint}
      OBVIOUS
    <3>4. found' = found \cup UNION {g[p] : p \in P}
      <4>1. {g[p] : p \in P} = {{About(p, GoSpelling(Root, Absolute(p)), "go", m) : m \in entries[p].lint} : p \in P}
        OBVIOUS
      <4> QED
        BY <1>8, <2>2, <4>1 DEF Go, Fail
    <3> HIDE DEF P, g
    <3>5. ASSUME NEW p \in P PROVE IsFiniteSet(g[p])
      <4>1. IsFiniteSet(entries[p].lint)
        BY <1>2, <3>1
      <4> QED
        BY <3>3, <4>1, AboutIsFinite
    <3>6. IsFiniteSet(UNION {g[p] : p \in P})
      BY <3>2, <3>3, <3>5, AllAboutIsFinite
    <3> QED
      BY <1>1, <3>4, <3>6, FS_Union DEF FiniteInv
  <2> QED
    BY <2>1, <2>2
<1>9. CASE UNCHANGED found
  BY <1>1, <1>9 DEF FiniteInv
<1> QED
  BY <1>4, <1>6, <1>7, <1>8, <1>9 DEF Next, Suppress, Vanish, Ended, vars

\* No pending entry lies below another: what the walk has still to see falls
\* into parts.
ApartInv ==
  \A i, j \in DOMAIN pending : i # j => ~IsPrefix(pending[i].at, pending[j].at)

LEMMA ConcatIs ==
  ASSUME NEW S, NEW s \in Seq(S), NEW t \in Seq(S)
  PROVE  /\ DOMAIN (s \o t) = 1..(Len(s) + Len(t))
         /\ \A i \in 1..Len(s) : (s \o t)[i] = s[i]
         /\ \A i \in 1..Len(t) : (s \o t)[Len(s) + i] = t[i]
  OBVIOUS

\* A directory's place is taken by its children, each once.
LEMMA EnteredShape ==
  ASSUME TreeInv, PendingInv, pending # <<>>, Entered(Head(pending)), UNCHANGED pc, pc = "walk"
  PROVE  /\ pending[1].at \in DOMAIN entries
         /\ \E n \in Nat :
              /\ DOMAIN pending' = 1..(n + (Len(pending) - 1))
              /\ \A i \in 1..n : pending'[i].at \in Children(pending[1].at)
              /\ \A i, j \in 1..n : pending'[i].at = pending'[j].at => i = j
              /\ \A i \in 1..(Len(pending) - 1) : pending'[n + i] = pending[i + 1]
<1> DEFINE Own(s) == {s[i] : i \in DOMAIN s}
<1>1. PICK e : e = Head(pending)
  OBVIOUS
<1>2. PICK kids : kids = SetToSeq(Children(e.at))
  OBVIOUS
<1>3. PICK ls : ls = [i \in DOMAIN kids |-> Listed(kids[i], Last(kids[i]))]
  OBVIOUS
<1>4. e.at \in DOMAIN entries /\ pending' = ls \o Tail(pending)
  BY <1>1, <1>2, <1>3 DEF Entered, Fail
<1>5. /\ kids \in Seq(Children(e.at))
      /\ \A i, j \in DOMAIN kids : kids[i] = kids[j] => i = j
  <2>1. Children(e.at) \subseteq DOMAIN entries /\ IsFiniteSet(DOMAIN entries)
    BY DEF TreeInv, Children, Under
  <2>2. IsFiniteSet(Children(e.at))
    BY <2>1, FS_Subset
  <2> QED
    BY <1>2, <2>2, ListingIs
<1>6. PICK n : n = Len(kids)
  OBVIOUS
<1>7. n \in Nat /\ DOMAIN kids = 1..n
  BY <1>5, <1>6
<1>8. DOMAIN ls = 1..n /\ \A i \in 1..n : ls[i].at = kids[i]
  BY <1>3, <1>7 DEF Listed
<1>9. PICK tail : tail = Tail(pending)
  OBVIOUS
<1>10. /\ Len(pending) \in Nat \ {0} /\ e = pending[1]
       /\ Len(tail) = Len(pending) - 1
       /\ \A i \in 1..(Len(pending) - 1) : tail[i] = pending[i + 1]
       /\ tail \in Seq(Own(pending))
  BY <1>1, <1>9 DEF PendingInv
<1>11. PICK all : all = {ls[i] : i \in DOMAIN ls} \cup Own(pending)
  OBVIOUS
<1>12. ls \in Seq(all) /\ tail \in Seq(all)
  <2>1. ls \in [1..n -> all]
    BY <1>3, <1>7, <1>8, <1>11
  <2>2. Own(pending) \subseteq all
    BY <1>11
  <2> HIDE DEF Own
  <2> QED
    BY <1>7, <1>10, <2>1, <2>2
<1>13. Len(ls) = n
  BY <1>7, <1>8, <1>12
<1>14. /\ DOMAIN (ls \o tail) = 1..(n + (Len(pending) - 1))
       /\ \A i \in 1..n : (ls \o tail)[i] = ls[i]
       /\ \A i \in 1..(Len(pending) - 1) : (ls \o tail)[n + i] = tail[i]
  <2>1. PICK s : s = ls \o tail
    OBVIOUS
  <2>2. /\ DOMAIN s = 1..(Len(ls) + Len(tail))
        /\ \A i \in 1..Len(ls) : s[i] = ls[i]
        /\ \A i \in 1..Len(tail) : s[Len(ls) + i] = tail[i]
    BY <1>12, <2>1, ConcatIs
  <2>3. Len(tail) = Len(pending) - 1
    BY <1>10
  <2> QED
    BY <1>13, <2>1, <2>2, <2>3
<1>15. pending' = ls \o tail
  BY <1>4, <1>9
<1>16. \A i \in 1..n : pending'[i].at = kids[i]
  BY <1>8, <1>14, <1>15
<1>17. \A i \in 1..n : pending'[i].at \in Children(pending[1].at)
  BY <1>5, <1>7, <1>10, <1>16
<1>18. \A i, j \in 1..n : pending'[i].at = pending'[j].at => i = j
  BY <1>5, <1>7, <1>16
<1>19. \A i \in 1..(Len(pending) - 1) : pending'[n + i] = pending[i + 1]
  BY <1>10, <1>14, <1>15
<1>20. DOMAIN pending' = 1..(n + (Len(pending) - 1)) /\ pending[1].at \in DOMAIN entries
  BY <1>4, <1>10, <1>14, <1>15
<1> HIDE DEF Own
<1> QED
  BY <1>7, <1>17, <1>18, <1>19, <1>20

LEMMA ApartStep ==
  TreeInv /\ PendingInv /\ ApartInv /\ [Next]_vars => ApartInv'
<1> SUFFICES ASSUME TreeInv, PendingInv, ApartInv, [Next]_vars,
                    NEW i \in DOMAIN pending', NEW j \in DOMAIN pending', i # j,
                    IsPrefix(pending'[i].at, pending'[j].at)
             PROVE  FALSE
  BY DEF ApartInv
<1>1. CASE UNCHANGED pending
  BY <1>1 DEF ApartInv
<1>2. CASE pending # <<>> /\ pending' = Tail(pending)
  <2>1. /\ Len(pending) \in Nat
        /\ DOMAIN pending' = 1..(Len(pending) - 1)
        /\ \A k \in DOMAIN pending' : pending'[k] = pending[k + 1] /\ k + 1 \in DOMAIN pending
    BY <1>2 DEF PendingInv
  <2> QED
    BY <2>1 DEF ApartInv
<1>3. CASE Len(pending') = 1 /\ DOMAIN pending' = {1}
  BY <1>3
<1>4. CASE pc = "walk" /\ pending # <<>> /\ Entered(Head(pending)) /\ UNCHANGED pc
  <2>1. PICK n \in Nat :
          /\ DOMAIN pending' = 1..(n + (Len(pending) - 1))
          /\ \A k \in 1..n : pending'[k].at \in Children(pending[1].at)
          /\ \A k, l \in 1..n : pending'[k].at = pending'[l].at => k = l
          /\ \A k \in 1..(Len(pending) - 1) : pending'[n + k] = pending[k + 1]
    BY <1>4, EnteredShape
  <2>2. pending[1].at \in DOMAIN entries /\ Len(pending) \in Nat \ {0} /\ DOMAIN pending = 1..Len(pending)
    BY <1>4, EnteredShape DEF PendingInv
  <2>3. PICK d : d = pending[1].at
    OBVIOUS
  <2>4. d \in Seq(Name)
    BY <2>2, <2>3 DEF TreeInv
  <2>5. ASSUME NEW k \in 1..n
        PROVE  /\ pending'[k].at \in Seq(Name) /\ IsPrefix(d, pending'[k].at)
               /\ Len(pending'[k].at) = Len(d) + 1
    BY <2>1, <2>3, <2>4, UnderIs DEF Children
  <2>6. ASSUME NEW k \in (n + 1)..(n + (Len(pending) - 1))
        PROVE  /\ pending'[k] = pending[(k - n) + 1] /\ (k - n) + 1 \in DOMAIN pending
               /\ (k - n) + 1 # 1
               /\ pending'[k].at \in Seq(Name)
               /\ ~IsPrefix(d, pending'[k].at) /\ ~IsPrefix(pending'[k].at, d)
    <3>1. PICK m : m = (k - n) + 1
      OBVIOUS
    <3>2. k - n \in 1..(Len(pending) - 1) /\ m \in DOMAIN pending /\ m # 1 /\ 1 \in DOMAIN pending
      BY <2>2, <3>1
    <3>3. pending'[n + (k - n)] = pending[m] /\ n + (k - n) = k
      <4>1. PICK q : q = k - n
        OBVIOUS
      <4>2. q \in 1..(Len(pending) - 1) /\ m = q + 1 /\ n + q = k
        BY <3>1, <3>2, <4>1
      <4> QED
        BY <2>1, <4>1, <4>2
    <3>4. PendingOK(pending[m])
      BY <3>2 DEF PendingInv
    <3> QED
      BY <2>3, <3>1, <3>2, <3>3, <3>4 DEF ApartInv, PendingOK
  <2>7. CASE i \in 1..n /\ j \in 1..n
    BY <2>1, <2>5, <2>7, SamePrefix
  <2>8. CASE i \in 1..n /\ j \notin 1..n
    <3>1. j \in (n + 1)..(n + (Len(pending) - 1))
      BY <2>1, <2>2, <2>8
    <3> QED
      BY <2>4, <2>5, <2>6, <2>8, <3>1, PrefixOfPrefix
  <2>9. CASE i \notin 1..n /\ j \in 1..n
    <3>1. i \in (n + 1)..(n + (Len(pending) - 1))
      BY <2>1, <2>2, <2>9
    <3>2. PICK x : x = pending'[i].at
      OBVIOUS
    <3>3. PICK k : k = pending'[j].at
      OBVIOUS
    <3>4. /\ x \in Seq(Name) /\ k \in Seq(Name) /\ IsPrefix(x, k) /\ IsPrefix(d, k)
          /\ Len(k) = Len(d) + 1 /\ ~IsPrefix(d, x) /\ ~IsPrefix(x, d)
      BY <2>5, <2>6, <2>9, <3>1, <3>2, <3>3
    <3>5. Len(x) <= Len(d) \/ Len(x) = Len(k)
      BY <2>4, <3>4, PrefixIs
    <3>6. CASE Len(x) <= Len(d)
      BY <2>4, <3>4, <3>6, PrefixOfPrefix
    <3>7. CASE Len(x) = Len(k)
      BY <3>4, <3>7, SamePrefix
    <3> QED
      BY <3>5, <3>6, <3>7
  <2>10. CASE i \notin 1..n /\ j \notin 1..n
    <3>1. /\ i \in (n + 1)..(n + (Len(pending) - 1)) /\ j \in (n + 1)..(n + (Len(pending) - 1))
          /\ (i - n) + 1 # (j - n) + 1
      BY <2>1, <2>2, <2>10
    <3> QED
      BY <2>6, <3>1 DEF ApartInv
  <2> QED
    BY <2>7, <2>8, <2>9, <2>10
<1>5. Extras => UNCHANGED pending \/ (Len(pending') = 1 /\ DOMAIN pending' = {1})
  BY DEF Extras, Fail
<1>6. Walk => \/ UNCHANGED pending
              \/ /\ pc = "walk" /\ pending # <<>>
                 /\ pending' = Tail(pending) \/ (Entered(Head(pending)) /\ UNCHANGED pc)
  BY DEF Walk, Pruned, PassedOver, Looked, Entered, Fail
<1>7. Pattern \/ Go \/ Suppress \/ Vanish \/ Ended \/ UNCHANGED vars => UNCHANGED pending
  BY DEF Pattern, Go, Suppress, Vanish, Ended, vars, Fail
<1> QED
  BY <1>1, <1>2, <1>3, <1>4, <1>5, <1>6, <1>7 DEF Next

LEMMA AheadIsFinite ==
  ASSUME TreeInv
  PROVE  /\ Ahead \subseteq DOMAIN entries
         /\ IsFiniteSet(Ahead) /\ Cardinality(Ahead) \in Nat
<1>1. Ahead \subseteq DOMAIN entries /\ IsFiniteSet(DOMAIN entries)
  BY DEF Ahead, TreeInv
<1>2. IsFiniteSet(Ahead)
  BY <1>1, FS_Subset
<1> QED
  BY <1>1, <1>2, FS_CardinalityType

\* A directory that has been listed is behind the walk, and nothing new is
\* ahead of it.
LEMMA EnteredGoesOn ==
  ASSUME TreeInv, PendingInv, ApartInv, pending # <<>>, Entered(Head(pending)), UNCHANGED pc,
         pc = "walk", UNCHANGED entries
  PROVE  Cardinality(Ahead)' < Cardinality(Ahead) /\ Cardinality(Ahead)' \in Nat
<1>1. PICK n \in Nat :
        /\ DOMAIN pending' = 1..(n + (Len(pending) - 1))
        /\ \A i \in 1..n : pending'[i].at \in Children(pending[1].at)
        /\ \A i \in 1..(Len(pending) - 1) : pending'[n + i] = pending[i + 1]
  BY EnteredShape
<1>2. /\ pending[1].at \in DOMAIN entries /\ pending[1].at \in Seq(Name)
      /\ Len(pending) \in Nat \ {0} /\ DOMAIN pending = 1..Len(pending)
  BY EnteredShape DEF PendingInv, TreeInv
<1>3. PICK d : d = pending[1].at
  OBVIOUS
<1>4. d \in Ahead
  BY <1>2, <1>3, PrefixIs DEF Ahead
<1>5. ASSUME NEW q \in Ahead'
      PROVE  q \in Ahead \ {d}
  <2>1. q \in DOMAIN entries /\ q \in Seq(Name)
    BY DEF Ahead, TreeInv
  <2>2. PICK i \in DOMAIN pending' : IsPrefix(pending'[i].at, q)
    BY DEF Ahead
  <2>3. CASE i \in 1..n
    <3>1. PICK k : k = pending'[i].at
      OBVIOUS
    <3>2. k \in Seq(Name) /\ IsPrefix(d, k) /\ Len(k) = Len(d) + 1 /\ IsPrefix(k, q)
      BY <1>1, <1>2, <1>3, <2>2, <2>3, <3>1, UnderIs DEF Children
    <3>3. IsPrefix(d, q) /\ q # d
      BY <1>2, <1>3, <2>1, <3>2, PrefixOfPrefix, PrefixIs
    <3> QED
      BY <1>2, <1>3, <2>1, <3>3 DEF Ahead
  <2>4. CASE i \notin 1..n
    <3>1. PICK j : j = i - n
      OBVIOUS
    <3>2. j \in 1..(Len(pending) - 1) /\ i = n + j
      BY <1>1, <1>2, <2>4, <3>1
    <3>3. pending'[i] = pending[j + 1] /\ j + 1 \in DOMAIN pending /\ j + 1 # 1 /\ 1 \in DOMAIN pending
      BY <1>1, <1>2, <3>2
    <3>4. q # d
      BY <1>3, <2>2, <3>3 DEF ApartInv
    <3> QED
      BY <2>1, <2>2, <3>3, <3>4 DEF Ahead
  <2> QED
    BY <2>3, <2>4
<1>6. Ahead' \subseteq Ahead \ {d}
  BY <1>5
<1>7. IsFiniteSet(Ahead) /\ Cardinality(Ahead) \in Nat
  BY AheadIsFinite
<1>8. /\ IsFiniteSet(Ahead \ {d}) /\ Cardinality(Ahead \ {d}) = Cardinality(Ahead) - 1
  BY <1>4, <1>7, FS_RemoveElement
<1>9. IsFiniteSet(Ahead') /\ Cardinality(Ahead') <= Cardinality(Ahead \ {d})
  BY <1>6, <1>8, FS_Subset
<1>10. Cardinality(Ahead') \in Nat
  BY <1>9, FS_CardinalityType
<1> QED
  BY <1>7, <1>8, <1>9, <1>10

LEMMA LeftHas ==
  /\ DOMAIN Left = 1..5
  /\ Left[1] = MaxEdits - edits
  /\ Left[2] = StepsLeft[pc]
  /\ Left[3] = Cardinality(Ahead)
  /\ Left[4] = Len(pending)
  /\ Left[5] = Cardinality(todo)
  /\ DOMAIN Left' = 1..5
  /\ Left'[1] = MaxEdits - edits'
  /\ Left'[2] = StepsLeft[pc']
  /\ Left'[3] = Cardinality(Ahead')
  /\ Left'[4] = Len(pending')
  /\ Left'[5] = Cardinality(todo')
BY DEF Left

\* What is left is counted in five numbers.
LEMMA LeftIsNatural ==
  ASSUME SourcesInv, FiniteInv
  PROVE  Left \in [1..5 -> Nat]
<1>1. edits \in 0..MaxEdits /\ MaxEdits \in Nat
  BY ScansAssumption DEF SourcesInv, Flow
<1>2. MaxEdits - edits \in Nat
  BY <1>1
<1>3. StepsLeft[pc] \in Nat
  BY DEF SourcesInv, Flow, StepsLeft
<1>4. Cardinality(Ahead) \in Nat
  BY AheadIsFinite DEF SourcesInv
<1>5. Len(pending) \in Nat
  BY DEF SourcesInv, PendingInv
<1>6. Cardinality(todo) \in Nat
  <2>1. IsFiniteSet(todo)
    BY FS_Subset DEF SourcesInv, Flow, FiniteInv
  <2> QED
    BY <2>1, FS_CardinalityType
<1> QED
  BY <1>2, <1>3, <1>4, <1>5, <1>6 DEF Left

\* Every step leaves less to do, whatever is taken away under the walk: a
\* directory is listed once, no entry is come to twice, and the reading of
\* comments takes each finding once (extras.go CardinalityExtras, cli/scan.go
\* loadSuppressions).
THEOREM EveryStepCounts == Spec => StepsRunOut
<1> DEFINE Inv == SourcesInv /\ FiniteInv /\ ApartInv
<1>1. Init => FiniteInv /\ ApartInv
  <2> SUFFICES ASSUME Init PROVE FiniteInv /\ ApartInv
    OBVIOUS
  <2>1. PICK s \in Scans : entries = s.entries
    BY DEF Init
  <2>2. \A p \in DOMAIN entries : IsFiniteSet(Lined(entries[p]))
    BY <2>1, ScansAssumption DEF ScanAssumed
  <2>3. found = {} /\ pending = <<>>
    BY DEF Init
  <2> QED
    BY <2>2, <2>3, FS_EmptySet DEF FiniteInv, ApartInv
<1>2. SourcesInv /\ FiniteInv /\ ApartInv /\ [Next]_vars => FiniteInv' /\ ApartInv'
  BY FiniteStep, ApartStep DEF SourcesInv
<1>3. Inv /\ [Next]_vars => [Below(Left', Left)]_vars
  <2> SUFFICES ASSUME Inv, Next, vars' # vars
               PROVE  Below(Left', Left)
    OBVIOUS
  <2>1. ASSUME NEW k \in 1..5, Left'[k] < Left[k], \A j \in 1..(k - 1) : Left'[j] = Left[j]
        PROVE  Below(Left', Left)
    BY <2>1, LeftHas DEF Below
  <2>2. ASSUME edits' = edits, StepsLeft[pc'] < StepsLeft[pc]
        PROVE  Below(Left', Left)
    <3>1. Left'[1] = Left[1] /\ Left'[2] < Left[2]
      BY <2>2, LeftHas
    <3> QED
      BY <2>1, <3>1
  <2>3. CASE Pattern
    BY <2>2, <2>3 DEF Pattern, Fail, StepsLeft
  <2>4. CASE Extras
    BY <2>2, <2>4 DEF Extras, Fail, StepsLeft
  <2>5. CASE Go
    BY <2>2, <2>5 DEF Go, Fail, StepsLeft
  <2>6. CASE Walk
    <3>1. UNCHANGED <<edits, entries>> /\ pc = "walk"
      BY <2>6 DEF Walk
    <3>2. CASE pc' \in {"go", "failed"}
      BY <2>2, <3>1, <3>2 DEF StepsLeft
    <3>3. CASE pc' = pc /\ pending # <<>> /\ pending' = Tail(pending)
      <4>1. /\ Len(pending') < Len(pending)
            /\ \A i \in DOMAIN pending' : \E j \in DOMAIN pending : pending'[i] = pending[j]
        BY <3>3 DEF SourcesInv, PendingInv
      <4>2. Ahead' \subseteq Ahead
        BY <3>1, <4>1 DEF Ahead
      <4>3. Cardinality(Ahead') = Cardinality(Ahead) \/ Cardinality(Ahead') < Cardinality(Ahead)
        <5>1. IsFiniteSet(Ahead) /\ Cardinality(Ahead) \in Nat
          BY AheadIsFinite DEF SourcesInv
        <5>2. IsFiniteSet(Ahead') /\ Cardinality(Ahead') <= Cardinality(Ahead)
          BY <4>2, <5>1, FS_Subset
        <5>3. Cardinality(Ahead') \in Nat
          BY <5>2, FS_CardinalityType
        <5> QED
          BY <5>1, <5>2, <5>3
      <4>4. CASE Cardinality(Ahead') < Cardinality(Ahead)
        <5>1. Left'[3] < Left[3] /\ \A j \in 1..2 : Left'[j] = Left[j]
          BY <3>1, <3>3, <4>4, LeftHas
        <5> QED
          BY <2>1, <5>1
      <4>5. CASE Cardinality(Ahead') = Cardinality(Ahead)
        <5>1. Left'[4] < Left[4] /\ \A j \in 1..3 : Left'[j] = Left[j]
          BY <3>1, <3>3, <4>1, <4>5, LeftHas
        <5> QED
          BY <2>1, <5>1
      <4> QED
        BY <4>3, <4>4, <4>5
    <3>4. CASE pc' = pc /\ pending # <<>> /\ Entered(Head(pending))
      <4>1. Cardinality(Ahead') < Cardinality(Ahead)
        BY <3>1, <3>4, EnteredGoesOn DEF SourcesInv
      <4>2. Left'[3] < Left[3] /\ \A j \in 1..2 : Left'[j] = Left[j]
        BY <3>1, <3>4, <4>1, LeftHas
      <4> QED
        BY <2>1, <4>2
    <3> QED
      BY <2>6, <3>2, <3>3, <3>4 DEF Walk, Pruned, PassedOver, Looked, Entered, Fail
  <2>7. CASE Suppress
    <3>1. UNCHANGED <<edits, entries, pending>> /\ pc = "suppress"
      BY <2>7 DEF Suppress
    <3>2. CASE pc' = "done"
      BY <2>2, <3>1, <3>2 DEF StepsLeft
    <3>3. CASE pc' # "done"
      <4>1. PICK f \in todo : todo' = todo \ {f} /\ pc' = pc
        BY <2>7, <3>3 DEF Suppress
      <4>2. IsFiniteSet(todo)
        BY FS_Subset DEF SourcesInv, Flow, FiniteInv
      <4>3. Cardinality(todo') = Cardinality(todo) - 1 /\ Cardinality(todo) \in Nat
        BY <4>1, <4>2, FS_RemoveElement, FS_CardinalityType
      <4>4. Ahead' = Ahead
        BY <3>1 DEF Ahead
      <4>5. Left'[5] < Left[5] /\ \A j \in 1..4 : Left'[j] = Left[j]
        BY <3>1, <4>1, <4>3, <4>4, LeftHas
      <4> QED
        BY <2>1, <4>5
    <3> QED
      BY <3>2, <3>3
  <2>8. CASE Vanish
    <3>1. edits' = edits + 1 /\ edits \in Nat /\ MaxEdits \in Nat
      BY <2>8, ScansAssumption DEF Vanish, SourcesInv, Flow
    <3>2. Left'[1] < Left[1]
      BY <3>1, LeftHas
    <3> QED
      BY <2>1, <3>2
  <2> QED
    BY <2>3, <2>4, <2>5, <2>6, <2>7, <2>8 DEF Next, Ended
<1> QED
  BY <1>1, <1>2, <1>3, SourcesAreKept, PTL DEF Spec, StepsRunOut
=============================================================================
