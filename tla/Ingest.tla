------------------------------- MODULE Ingest -------------------------------
(***************************************************************************)
(* Ingestion (ingest/): a zip archive, the files of an inline request, or  *)
(* a directory that scripts/audit_local.py collects, is taken entry by     *)
(* entry into a FileSet, until an entry or a limit rejects all of it.      *)
(*                                                                         *)
(* A raw path is the sequence of what stands between its separators, "/"   *)
(* or "\": a name, "", "." or "..", or one of two classes of names: "c:",  *)
(* whose second character is a colon, and "nul", with a null byte in it.   *)
(***************************************************************************)
EXTENDS Integers, Sequences, FiniteSets, SequencesExt, Positions

CONSTANTS
  Names,     \* the names in raw paths
  Allowed,   \* those whose text after the last dot is in ALLOWED_EXTENSIONS
  Suffixed,  \* those of them that have a suffix for pathlib: not ".env"
  Inputs,    \* bound: the sequences of entries that are submitted
  MaxFileCount, MaxFileSize, MaxArchiveSize   \* settings

Segments == Names \cup {"", ".", "..", "c:", "nul"}

(***************************************************************************)
(* `size` is the declared size; `data` is what reading the entry gives:    *)
(* "text", bytes that are not UTF-8 ("binary"), fewer than declared        *)
(* ("short"), an exception of zipfile or the file system ("corrupt"); or   *)
(* the normalised path has more than 1000 characters, the limit of         *)
(* IngestedFile.path ("long").                                             *)
(***************************************************************************)
Entry == [path : Seq(Segments), kind : {"file", "dir", "symlink"}, size : Nat,
          data : {"text", "binary", "short", "corrupt", "long"}]

ASSUME IngestAssumption ==
  /\ Suffixed \subseteq Allowed /\ Allowed \subseteq Names
  /\ Names \cap {"", ".", "..", "c:", "nul"} = {}
  /\ Inputs \subseteq Seq({e \in Entry : e.path # <<>>})
  /\ MaxFileCount \in Nat /\ MaxFileSize \in Nat /\ MaxArchiveSize \in Nat

VARIABLES
  source,  \* "zip", "inline" or "local"
  input,   \* the entries as they are submitted
  infos,   \* those that are looked at
  i,       \* the next of them
  running_total,
  files,   \* per normalised path: the entry it is read from
  verdict  \* "pending", or how it came out

vars == <<source, input, infos, i, running_total, files, verdict>>

\* What each source can hold.  zipfile cuts names at a null byte.  Two paths of a
\* request may have the same segments between different separators.  A directory has
\* its files under names; it may lose one, or the right to read it, while it is read.
\* (Local names with a backslash in them are left out.)
Possible(s, es) ==
  CASE s = "zip" -> \A k \in DOMAIN es : "nul" \notin ToSet(es[k].path)
    [] s = "inline" ->
         /\ \A k \in DOMAIN es : Cardinality({j \in DOMAIN es : es[j].path = es[k].path})
                                   <= 2 ^ (Len(es[k].path) - 1)
         /\ \A k \in DOMAIN es : es[k].kind = "file" /\ es[k].data \in {"text", "long"}
    [] s = "local" ->
         /\ \A j, k \in DOMAIN es : j # k => es[j].path # es[k].path
         /\ \A k \in DOMAIN es : /\ ToSet(es[k].path) \subseteq Names \cup {"c:"}
                                 /\ es[k].data \in {"text", "binary", "corrupt", "long"}

\* _collect_files, and the entries of an archive that are no directories.
Listed(s, es) ==
  Select(es, {k \in DOMAIN es :
    /\ es[k].kind # "dir"
    /\ s = "local" => Last(es[k].path) \in Suffixed /\ es[k].data # "binary"})

Init ==
  /\ source \in {"zip", "inline", "local"}
  /\ input \in {es \in Inputs : Possible(source, es)}
  /\ infos = Listed(source, input)
  /\ i = 0 /\ running_total = 0 /\ files = <<>> /\ verdict = "pending"

-----------------------------------------------------------------------------
\* Mutant of Normalize: ".." is skipped like ".".
NormalizeFlat(path) == SelectSeq(path, LAMBDA s : s \notin {"", ".", ".."})

\* posixpath.normpath, segment by segment: ".." takes back a name, and stays if
\* there is none.
AfterSegment(done, s) ==
  IF s \in {"", "."} THEN done
  ELSE IF s = ".." /\ done # <<>> /\ Last(done) # ".." THEN Front(done)
  ELSE Append(done, s)

Normalize(path) ==
  LET done[n \in 0..Len(path)] ==
        IF n = 0 THEN <<>> ELSE AfterSegment(done[n - 1], path[n])
  IN  done[Len(path)]

\* normalize_path: a null byte, "/..." or "c:...", nothing left, a way out.
PathRejected(path) ==
  \/ "nul" \in ToSet(path)
  \/ path[1] = "c:" \/ (path[1] = "" /\ Len(path) > 1)
  \/ Normalize(path) = <<>> \/ Normalize(path)[1] = ".."

\* validate_extension: what follows the last dot of the whole path.
ExtensionRejected(path) == Last(path) \notin Allowed

\* Mutant of TooLarge: the total is compared before the entry is added to it.
TooLargeOneLate(e) == e.size > MaxFileSize \/ running_total > MaxArchiveSize

\* validate_file_size and validate_total_size, by declared sizes.
TooLarge(e) == e.size > MaxFileSize \/ running_total + e.size > MaxArchiveSize

\* Mutant of Complaint: an entry is read before its declared size is looked at.
ComplaintReadsFirst(e) ==
  IF \/ source = "zip" /\ e.kind = "symlink"
     \/ PathRejected(e.path) \/ ExtensionRejected(Normalize(e.path))
    THEN "rejected"
  ELSE CASE e.data \in {"short", "binary"} -> "rejected"
         [] e.data \in {"corrupt", "long"} -> "crashed"
         [] OTHER -> IF TooLarge(e) THEN "rejected" ELSE "none"

\* What ends the loop at entry e, if something does.
Complaint(e) ==
  IF \/ source = "zip" /\ e.kind = "symlink"
     \/ PathRejected(e.path) \/ ExtensionRejected(Normalize(e.path)) \/ TooLarge(e)
    THEN "rejected"
  ELSE CASE e.data \in {"short", "binary"} -> "rejected"
         [] e.data \in {"corrupt", "long"} -> "crashed"
         [] OTHER -> "none"

\* _collect_files reads every file of the directory first: an exception other than
\* UnicodeDecodeError leaves the script.
Unreadable == source = "local" /\ \E k \in DOMAIN infos : infos[k].data = "corrupt"

CountFiles ==
  /\ verdict = "pending" /\ i = 0
  /\ i' = 1
  /\ verdict' = IF Unreadable THEN "crashed"
                ELSE IF Len(infos) > MaxFileCount THEN "rejected" ELSE "pending"
  /\ UNCHANGED <<source, input, infos, running_total, files>>

\* One entry: the first complaint discards everything, an exception that is no
\* IngestionError is not even caught.
Take ==
  /\ verdict = "pending" /\ i \in DOMAIN infos
  /\ LET why == Complaint(infos[i])
         place == Normalize(infos[i].path) IN
       IF why # "none"
         THEN verdict' = why /\ UNCHANGED <<i, running_total, files>>
         ELSE /\ i' = i + 1 /\ running_total' = running_total + infos[i].size
              /\ files' = [p \in DOMAIN files \cup {place} |->
                             IF p = place THEN i ELSE files[p]]
              /\ UNCHANGED verdict
  /\ UNCHANGED <<source, input, infos>>

\* The script stops when there is nothing to audit; the endpoints do not.
Accept ==
  /\ verdict = "pending" /\ i > Len(infos)
  /\ verdict' = IF source = "local" /\ files = <<>> THEN "nothing" ELSE "accepted"
  /\ UNCHANGED <<source, input, infos, i, running_total, files>>

Next == CountFiles \/ Take \/ Accept

Spec == Init /\ [][Next]_vars

-----------------------------------------------------------------------------
(***************************************************************************)
(* Properties.                                                             *)
(***************************************************************************)

Downs(path) == {k \in DOMAIN path : path[k] \in Names \cup {"c:", "nul"}}
Ups(path) == {k \in DOMAIN path : path[k] = ".."}

\* How deep below the root a path is after its first n segments.
Depth(path, n) == Cardinality({k \in Downs(path) : k <= n})
                    - Cardinality({k \in Ups(path) : k <= n})

\* Where a path leads, without walking it: through the names that no later ".."
\* takes back.
Leads(path) ==
  Select(path, {k \in Downs(path) :
                  \A n \in k..Len(path) : Depth(path, n) >= Depth(path, k)})

\* The docstring of normalize_path: nothing escapes the sandbox.  Every file stays
\* below the root all along its raw path, it is filed under the place that path
\* leads to, and of several entries for one place the last one is kept, as when
\* an archive is unpacked.
FiledWhereItLeads ==
  /\ DOMAIN files = {Leads(infos[k].path) : k \in 1..(i - 1)}
  /\ \A k \in 1..(i - 1) :
       /\ \A n \in DOMAIN infos[k].path : Depth(infos[k].path, n) >= 0
       /\ k <= files[Leads(infos[k].path)]
       /\ Leads(infos[files[Leads(infos[k].path)]].path) = Leads(infos[k].path)

\* What an entry of source s has to be, whatever it comes with: it can be submitted,
\* and read.
Submittable(s, e) ==
  /\ e.size <= MaxFileSize /\ (e.kind = "file" \/ s = "local")
  /\ "nul" \notin ToSet(e.path) /\ e.path[1] \notin {"c:"}
  /\ e.path[1] = "" => Len(e.path) = 1
  /\ \A n \in DOMAIN e.path : Depth(e.path, n) >= 0
  /\ Leads(e.path) # <<>> /\ Last(Leads(e.path)) \in Allowed

Fine(s, e) == e.data = "text" /\ Submittable(s, e)

\* What the first n entries declare together.
TotalSize(es, n) ==
  LET total[k \in 0..Len(es)] == IF k = 0 THEN 0 ELSE total[k - 1] + es[k].size
  IN  total[n]

\* Checking file by file, with a running total and an early exit, decides what a
\* look at all of them at once would: files are accepted exactly when each is fine
\* by itself and they keep the limits together, in whatever order they come.
\* And it fails with an exception, a 500 where the client should be told what is
\* wrong, only for an entry that cannot be read while nothing up to it is wrong: the
\* checks that cost nothing come before the entry is read.  (The script reads all
\* files before it checks any.)
AcceptedIffFine ==
  /\ verdict # "pending" =>
       (verdict \in {"accepted", "nothing"} <=>
          /\ Len(infos) <= MaxFileCount
          /\ \A k \in DOMAIN infos : Fine(source, infos[k])
          /\ TotalSize(infos, Len(infos)) <= MaxArchiveSize)
  /\ verdict = "crashed" =>
       \/ Unreadable
       \/ /\ Len(infos) <= MaxFileCount
          /\ \E k \in DOMAIN infos :
               /\ infos[k].data \in {"corrupt", "long"} /\ Submittable(source, infos[k])
               /\ \A j \in 1..(k - 1) : Fine(source, infos[j])
               /\ TotalSize(infos, k) <= MaxArchiveSize
=============================================================================
