----------------------------- MODULE SecretScan -----------------------------
(***************************************************************************)
(* The secrets agent (agents/secrets.py) on the text of the files: what    *)
(* its rules match, on which line, and which finding a decision of the     *)
(* triage model turns into.  In AuditGraph these are `hits`, `candidates`  *)
(* and FindingsOf.                                                         *)
(*                                                                         *)
(* A text is a sequence of tokens: "nl" a line break, "sp" a blank, "x"    *)
(* any other text, "hc" a match of a high-confidence rule, "key" the start *)
(* of an assignment to a name like `password`, and what it assigns: "val"  *)
(* in quotes, "ph" a placeholder in quotes, "hcval" a quoted match of a    *)
(* high-confidence rule.                                                   *)
(***************************************************************************)
EXTENDS Integers, Sequences, FiniteSets, SequencesExt, FiniteSetsExt, Positions

CONSTANTS
  FileSets,     \* bound: the file sets that are scanned, as sequences of texts
  MaxLine,      \* Finding.snippet and SecretCandidate.context: at most 500 characters
  MaxDecisions  \* bound: decisions in an answer of the triage model

Tokens == {"nl", "sp", "x", "hc", "key", "val", "ph", "hcval"}

ASSUME ScanAssumption ==
  FileSets \subseteq Seq(Seq(Tokens)) /\ MaxLine \in Nat /\ MaxDecisions \in Nat

VARIABLES
  files,       \* the texts, in the order of file_set.files
  scanned,     \* how many of them have been scanned
  findings,    \* [rule, file, line, snippet]
  candidates,  \* [index, file, line, context]
  decisions,   \* what the triage model answered
  phase        \* "scan", "raised", "prompt", "done" or "degraded"

vars == <<files, scanned, findings, candidates, decisions, phase>>

Decision(n) == [index : 0..n, is_secret : BOOLEAN, sure : BOOLEAN]

Init ==
  /\ files \in FileSets
  /\ scanned = 0 /\ findings = <<>> /\ candidates = <<>> /\ decisions = <<>>
  /\ phase = "scan"

-----------------------------------------------------------------------------
Breaks(text, S) == {k \in DOMAIN text \cap S : text[k] = "nl"}

\* _line_number.
LineNumber(text, offset) == Cardinality(Breaks(text, 1..(offset - 1))) + 1

Strip(line) ==
  LET ink == {k \in DOMAIN line : line[k] # "sp"}
  IN  IF ink = {} THEN <<>> ELSE SubSeq(line, Min(ink), Max(ink))

\* Mutant of LineContext: the search for the line's start includes the offset.
LineContextAt(text, offset) ==
  LET start == Max({0} \cup Breaks(text, 1..offset)) + 1
      end == Min({Len(text) + 1} \cup Breaks(text, (offset + 1)..Len(text)))
  IN  Strip(SubSeq(text, start + 1, end - 1))

\* _line_context: from the last line break before to the first one after.
LineContext(text, offset) ==
  LET start == Max({0} \cup Breaks(text, 1..(offset - 1))) + 1
      end == Min({Len(text) + 1} \cup Breaks(text, offset..Len(text)))
  IN  Strip(SubSeq(text, start, end - 1))

\* What a loop over matches appends: one element for each, from left to right.
Ascending(S) == [n \in 1..Cardinality(S) |-> Nth(S, n)]

\* The offsets of HIGH_CONFIDENCE_RULES' matches.
Hits(text) == {k \in DOMAIN text : text[k] \in {"hc", "hcval"}}

\* An assignment's value, past blanks and line breaks; 0 if there is none.
Value(text, k) ==
  LET after == {j \in (k + 1)..Len(text) : text[j] \notin {"sp", "nl"}}
  IN  IF after # {} /\ text[Min(after)] \in {"val", "ph", "hcval"} THEN Min(after) ELSE 0

\* The offsets of AMBIGUOUS_RULES' matches, less those of placeholders.
Ambiguous(text) ==
  {k \in DOMAIN text : /\ text[k] = "key" /\ Value(text, k) # 0
                       /\ text[Value(text, k)] # "ph"}

\* The matches on lines that no Finding or SecretCandidate can be made of.
TooLong(text) ==
  {k \in Hits(text) \cup Ambiguous(text) : Len(LineContext(text, k)) > MaxLine}

\* _scan_file, for the next file.
ScanFile ==
  /\ phase = "scan" /\ scanned < Len(files) /\ TooLong(files[scanned + 1]) = {}
  /\ scanned' = scanned + 1
  /\ LET text == files[scanned']
         hit == Ascending(Hits(text))
         amb == Ascending(Ambiguous(text)) IN
       /\ findings' = findings \o
            [k \in DOMAIN hit |-> [rule |-> "high_confidence", file |-> scanned',
               line |-> LineNumber(text, hit[k]), snippet |-> LineContext(text, hit[k])]]
       /\ candidates' = candidates \o
            [k \in DOMAIN amb |-> [index |-> 0, file |-> scanned',
               line |-> LineNumber(text, amb[k]), context |-> LineContext(text, amb[k])]]
  /\ UNCHANGED <<files, decisions, phase>>

\* Making one of them raises, out of the node: AuditGraph's ScanRaises.
ScanRaises ==
  /\ phase = "scan" /\ scanned < Len(files) /\ TooLong(files[scanned + 1]) # {}
  /\ phase' = "raised"
  /\ UNCHANGED <<files, scanned, findings, candidates, decisions>>

\* Mutant of Number: every file's candidates are numbered from zero.
NumberPerFile ==
  /\ phase = "scan" /\ scanned = Len(files)
  /\ candidates' = [k \in DOMAIN candidates |->
       [candidates[k] EXCEPT !.index =
          Cardinality({j \in 1..(k - 1) : candidates[j].file = candidates[k].file})]]
  /\ phase' = IF candidates = <<>> THEN "done" ELSE "prompt"
  /\ UNCHANGED <<files, scanned, findings, decisions>>

\* The candidates of all files are numbered; with none, there is no call.
Number ==
  /\ phase = "scan" /\ scanned = Len(files)
  /\ candidates' = [k \in DOMAIN candidates |-> [candidates[k] EXCEPT !.index = k - 1]]
  /\ phase' = IF candidates = <<>> THEN "done" ELSE "prompt"
  /\ UNCHANGED <<files, scanned, findings, decisions>>

\* Whether a decision makes a finding: an index that was not asked for does not.
Confirmed(d) ==
  d.is_secret /\ d.sure /\ \E k \in DOMAIN candidates : candidates[k].index = d.index

\* by_index: of candidates with the same index the last one wins.
ByIndex(n) == candidates[Max({k \in DOMAIN candidates : candidates[k].index = n})]

Triage(ds) ==
  /\ phase = "prompt"
  /\ decisions' = ds
  /\ LET yes == Select(ds, {k \in DOMAIN ds : Confirmed(ds[k])}) IN
       findings' = findings \o
         [k \in DOMAIN yes |-> LET c == ByIndex(yes[k].index) IN
            [rule |-> "triaged", file |-> c.file, line |-> c.line, snippet |-> c.context]]
  /\ phase' = "done"
  /\ UNCHANGED <<files, scanned, candidates>>

\* The call fails or its answer does not parse.
TriageFails ==
  /\ phase = "prompt"
  /\ phase' = "degraded"
  /\ UNCHANGED <<files, scanned, findings, candidates, decisions>>

Next == \/ ScanFile \/ ScanRaises \/ Number \/ TriageFails
        \/ \E ds \in BoundedSeq(Decision(Len(candidates)), MaxDecisions) : Triage(ds)

Spec == Init /\ [][Next]_vars

-----------------------------------------------------------------------------
(***************************************************************************)
(* Properties.  They look at a text as an editor shows it: its lines, one  *)
(* by one, and on each what a rule matches there.                          *)
(***************************************************************************)

AfterToken(lines, t) ==
  IF t = "nl" THEN Append(lines, <<>>) ELSE Append(Front(lines), Append(Last(lines), t))

Lines(text) ==
  LET lines[n \in 0..Len(text)] ==
        IF n = 0 THEN << <<>> >> ELSE AfterToken(lines[n - 1], text[n])
  IN  lines[Len(text)]

\* A line without the blanks around it: whatever has other text on both sides, or is it.
Trimmed(line) ==
  LET ink == {k \in DOMAIN line : line[k] # "sp"}
  IN  Select(line, {k \in DOMAIN line : (\E j \in ink : j <= k) /\ (\E j \in ink : k <= j)})

Occurrences(S, line) == Cardinality({k \in DOMAIN line : line[k] \in S})

\* Every match of a high-confidence rule is reported with its file, its line and
\* that line's text, once per match, whether triage is asked, answers or fails.  The
\* scan gives up on all files only for a line with a match on it that, without the
\* blanks around it, is longer than a finding can show.
HitsReported ==
  /\ phase = "raised" =>
       \E f \in DOMAIN files : \E n \in DOMAIN Lines(files[f]) :
         LET line == Trimmed(Lines(files[f])[n]) IN
           Len(line) > MaxLine /\ ToSet(line) \cap {"hc", "hcval", "key"} # {}
  /\ phase \notin {"scan", "raised"} =>
       \A f \in DOMAIN files : LET lines == Lines(files[f]) IN
         \A n \in 1..(Len(lines) + 1) :
           LET here == {k \in DOMAIN findings : /\ findings[k].rule = "high_confidence"
                                                /\ findings[k].file = f /\ findings[k].line = n} IN
             IF n > Len(lines) THEN here = {}
             ELSE /\ Cardinality(here) = Occurrences({"hc", "hcval"}, lines[n])
                  /\ \A k \in here : findings[k].snippet = Trimmed(lines[n])

\* The prompt names candidates of all files under different numbers; a decision
\* that is sure of a secret is reported at the place the prompt showed under that
\* number, where a line assigns to a name like `password`; no other decision, and
\* nothing else, is reported as triaged.
DecisionsHitTheirCandidate ==
  phase \in {"done", "degraded"} =>
    LET triaged == Select(findings, {k \in DOMAIN findings : findings[k].rule = "triaged"})
        counted == Select(decisions, {k \in DOMAIN decisions :
                     /\ decisions[k].is_secret /\ decisions[k].sure
                     /\ decisions[k].index < Len(candidates)}) IN
      /\ \A j, k \in DOMAIN candidates : j # k => candidates[j].index # candidates[k].index
      /\ Len(triaged) = Len(counted)
      /\ \A k \in DOMAIN triaged :
           \E c \in ToSet(candidates) :
             /\ c.index = counted[k].index
             /\ triaged[k].file = c.file /\ triaged[k].line = c.line
             /\ c.context = Trimmed(Lines(files[c.file])[c.line])
             /\ "key" \in ToSet(c.context)
=============================================================================
