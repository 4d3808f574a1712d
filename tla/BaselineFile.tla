---------------------------- MODULE BaselineFile ----------------------------
(***************************************************************************)
(* What is in a baseline file and what reading it makes of that            *)
(* (finding/baseline.go).  WriteBaseline encodes a record: a constant      *)
(* header, one line of fixed width per fingerprint, in the order of the    *)
(* digests, and the closing brackets.  os.WriteFile truncates the file and *)
(* then lays the record over whatever is there, from offset 0: that is     *)
(* nothing, unless another process has written since.  All records share   *)
(* the header, and their lines start at the same offsets, so a file is a   *)
(* sequence of cells: what lies between the offsets of two lines.          *)
(***************************************************************************)
EXTENDS Findings, FiniteSets

CONSTANT Digest  \* the place of a fingerprint in the order of the digests

ASSUME DigestAssumption ==
  /\ Digest \in [FpSet -> Nat]
  /\ \A p, q \in FpSet : Digest[p] = Digest[q] => p = q

\* line: a line of the list.  Its fingerprint is nobody's if the bytes of two
\* digests were spliced in it.
\* end: the closing brackets, up to a missing newline.
\* damaged: anything else; the digest of the line it was may still be there.
Cell == [kind : {"line", "end", "damaged"}, fps : SUBSET FpSet]

\* Where nothing can be read, or not even the header, there is no cell.
Content == Seq(Cell)
Empty   == <<>>

Line(s)    == [kind |-> "line", fps |-> s]
Damaged(s) == [kind |-> "damaged", fps |-> s]
End        == [kind |-> "end", fps |-> {}]

\* json.Unmarshal: the list is closed, its lines are in order, and nothing
\* follows.  What does not decode, or has another version, is an error.
Decodes(f) == /\ f # Empty
              /\ \A i \in DOMAIN f : f[i].kind = IF i = Len(f) THEN "end" ELSE "line"

Fingerprints(f) == UNION {f[i].fps : i \in DOMAIN f}

-----------------------------------------------------------------------------
\* The fingerprints in s as slices.Sort leaves their digests.
Sorted(s) == {l \in [1..Cardinality(s) -> s] :
                /\ \A p \in s : \E i \in DOMAIN l : l[i] = p
                /\ \A i, j \in DOMAIN l : i < j => Digest[l[i]] < Digest[l[j]]}

\* MarshalIndent: the record of the fingerprints in s.
Records(s) ==
  {[i \in 1..(Len(l) + 1) |-> IF i <= Len(l) THEN Line({l[i]}) ELSE End] : l \in Sorted(s)}

\* A line x, or its first bytes, over a cell y: at least the separator.
LineOver(x, y) ==
  {x} \cup [kind : CASE y.kind = "line" -> {"line"}
                     [] y.kind = "end"  -> {"damaged"}
                     [] OTHER           -> {"line", "damaged"},
            fps  : {y.fps, {}}]

\* The end, or its first bytes: it is shorter than a line and has a digest for
\* a tail where it comes to lie on one.
EndOver(y) == CASE y.kind = "line" -> {Damaged(y.fps)}
                [] y.kind = "end"  -> {End}
                [] OTHER           -> {y, End}

\* The cell at j where the bytes of a record end in it, over file f.
Boundary(rec, f, j) ==
  IF j > Len(f)              THEN {rec[j], Damaged({})}
  ELSE IF rec[j].kind = "end" THEN EndOver(f[j])
  ELSE LineOver(rec[j], f[j])

\* Cells of a record before j, then c, then what the file had behind it.
Laid(rec, j, c, f) ==
  [i \in 1..(IF Len(f) > j THEN Len(f) ELSE j) |->
     IF i < j THEN rec[i] ELSE IF i = j THEN c ELSE f[i]]

\* Mutant: a writer that appends to a file somebody else has filled.
OverwrittenAppended(f, rec) ==
  {IF f = Empty THEN rec ELSE SubSeq(f, 1, Len(f) - 1) \o rec}

\* A whole record over file f.
Overwritten(f, rec) ==
  LET n == Len(rec)
  IN  IF n > Len(f) THEN {rec} ELSE {Laid(rec, n, c, f) : c \in EndOver(f[n])}

\* A prefix of a record over file f, perhaps of nothing but the header.
Scribbled(f, rec) ==
  {f} \cup UNION {{Laid(rec, j, c, f) : c \in Boundary(rec, f, j)} : j \in DOMAIN rec}
=============================================================================
