------------------------------ MODULE Findings ------------------------------
(***************************************************************************)
(* The finding schema that every analyzer emits and every consumer reads   *)
(* (finding/finding.go), inline suppressions (finding/suppress.go), the    *)
(* partition against a baseline (finding/baseline.go) and the merge that   *)
(* puts the surviving findings back into scan order (cli/scan.go).         *)
(*                                                                         *)
(* A slice of findings is a function from positions to findings.  The scan *)
(* itself is a sequence; what is filtered out of it keeps the position it  *)
(* had there, so the order of a sublist is the order of its positions and  *)
(* nothing has to be renumbered.                                           *)
(***************************************************************************)
EXTENDS Naturals, Sequences

CONSTANTS Rule,     \* rule identifiers (metadata.rule)
          File,     \* scan-relative paths, with forward slashes
          Symbol    \* the full identity text of a match, "#n" suffix included

Severity   == {"hint", "info", "warning", "error"}
\* "" stands for whatever else the metadata of a rule says, if anything.
Confidence == {"high", "medium", ""}
Status     == {"open", "suppressed"}

\* A finding carries the fields its life cycle looks at; message, note,
\* evidence and language are only printed.
Finding == [rule : Rule, file : File, line : Nat, symbol : Symbol,
            sev : Severity, conf : Confidence, status : Status]

\* An engine emits open findings: only the life cycle marks them.
Scanned == {f \in Finding : f.status = "open"}

\* finding.Suppression: one parsed tarsier:ignore comment that has a reason.
Suppression == [file : File, line : Nat, rule : Rule]

-----------------------------------------------------------------------------
\* The digest of the length-prefixed fields: injective in them, blind to the
\* line.  Module is "" wherever the program builds a finding.
Fingerprint(rule, file, symbol) == <<rule, file, symbol>>

FpSet == Rule \X File \X Symbol

\* Finding.Fill: the fingerprint of a finding's own identity fields.
Fp(f) == Fingerprint(f.rule, f.file, f.symbol)

\* A list: findings at some positions.
IsList(l) == /\ l = [i \in DOMAIN l |-> l[i]]
             /\ DOMAIN l \subseteq Nat
             /\ \A i \in DOMAIN l : l[i] \in Finding

\* The fingerprints of a list of findings.
Fps(l) == {Fp(l[i]) : i \in DOMAIN l}

\* The part of list l at the positions in S.
Sub(l, S) == [i \in S |-> l[i]]

-----------------------------------------------------------------------------
\* A comment quiets its own line and the line below it.
SuppressedBy(f, sup) ==
  \E s \in sup : /\ s.file = f.file
                 /\ s.rule = f.rule
                 /\ \/ s.line = f.line
                    \/ s.line + 1 = f.line

\* Mutant: a status the schema does not have.
QuietedAsIgnored(f) == [f EXCEPT !.status = "ignored"]

Quieted(f) == [f EXCEPT !.status = "suppressed"]

\* ApplySuppressions partitions the scan; the suppressed part is marked.
Kept(fs, sup) == Sub(fs, {i \in DOMAIN fs : ~SuppressedBy(fs[i], sup)})

Suppressed(fs, sup) ==
  [i \in {j \in DOMAIN fs : SuppressedBy(fs[j], sup)} |-> Quieted(fs[i])]

\* PartitionNew: the part a baseline does not know.  The known part is only
\* counted, for the log.
Fresh(kept, known) == Sub(kept, {i \in DOMAIN kept : Fp(kept[i]) \notin known})

-----------------------------------------------------------------------------
\* The last finding of list l with fingerprint p: a Go map that is filled in
\* slice order keeps the last value stored under a key.
LastWith(l, p) ==
  LET At == {i \in DOMAIN l : Fp(l[i]) = p}
  IN  l[CHOOSE i \in At : \A j \in At : j <= i]

\* Mutants of mergeLifecycle: one that re-reads the input slice, and one that
\* emits a fingerprint only where it first occurs.
MergeOriginals(original, fresh, supp) ==
  Sub(original, {i \in DOMAIN original : Fp(original[i]) \in Fps(fresh) \cup Fps(supp)})

MergeOnce(original, fresh, supp) ==
  Sub(original, {i \in DOMAIN original :
                   /\ Fp(original[i]) \in Fps(fresh) \cup Fps(supp)
                   /\ \A j \in DOMAIN original : j < i => Fp(original[j]) # Fp(original[i])})

\* mergeLifecycle builds emit from the fresh findings, then from the
\* suppressed ones, and looks every scanned finding up by its fingerprint.
MergeLifecycle(original, fresh, supp) ==
  LET emit == [p \in Fps(fresh) \cup Fps(supp) |->
                 IF p \in Fps(supp) THEN LastWith(supp, p) ELSE LastWith(fresh, p)]
  IN  [i \in {j \in DOMAIN original : Fp(original[j]) \in DOMAIN emit} |->
         emit[Fp(original[i])]]

\* applyLifecycle: suppress, filter against the baseline, merge.
Lifecycle(fs, sup, known) ==
  MergeLifecycle(fs, Fresh(Kept(fs, sup), known), Suppressed(fs, sup))

-----------------------------------------------------------------------------
\* What the report of a scan ought to be, occurrence by occurrence: each
\* suppressed finding, marked, and each open finding the baseline lacks.
Reported(fs, sup, known) ==
  {i \in DOMAIN fs : SuppressedBy(fs[i], sup) \/ Fp(fs[i]) \notin known}

ReportOf(fs, sup, known) ==
  [i \in Reported(fs, sup, known) |->
     IF SuppressedBy(fs[i], sup) THEN Quieted(fs[i]) ELSE fs[i]]

\* No two findings of a scan share a fingerprint.
UniqueFps(fs) == \A i, j \in DOMAIN fs : Fp(fs[i]) = Fp(fs[j]) => i = j
=============================================================================
