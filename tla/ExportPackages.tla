--------------------------- MODULE ExportPackages ---------------------------
(***************************************************************************)
(* export_programs over several candidates, as its effects reach the file  *)
(* system and the database: select and validate, write the files into a    *)
(* temporary directory, rename it, record the run and mark the candidates. *)
(* Each step may fail, and the process may die between any two.  A run is  *)
(* one export command; reviews and extractions are seen through what they  *)
(* change of a candidate.                                                  *)
(***************************************************************************)
EXTENDS Naturals, FiniteSets

CONSTANTS
  Candidates,   \* programme candidates of the job
  Keys,         \* country, university, programme name and degree, normalised
  Unmappable,   \* keys with a value the Pathfinder contract does not map
  Runs          \* export commands, by run id

ASSUME ExportConstants == Unmappable \subseteq Keys

VARIABLES
  status,     \* review_status
  key,        \* the key of the candidate's effective data
  blocked,    \* candidates _blocking_error would reject
  pc,         \* how far each run is
  marks,      \* the candidates whose status a run will write as exported
  rows,       \* the programme rows a run writes: candidate -> key
  directory,  \* a run's directory: see Directories
  recorded    \* export_candidates: run -> candidates, for the recorded runs

candidateVars == <<status, key, blocked>>
vars == <<candidateVars, pc, marks, rows, directory, recorded>>

Statuses == {"unreviewed", "approved", "rejected", "exported"}
Steps == {"new", "selected", "written", "renamed", "done", "failed", "crashed"}

\* Under its temporary name partial or staged (complete), under its own name
\* final or remains (some files are missing).
Directories == {"none", "partial", "staged", "final", "remains"}

\* Programme rows: one per candidate.
Packages == UNION {[S -> Keys] : S \in SUBSET Candidates}

TypeOK ==
  /\ status \in [Candidates -> Statuses]
  /\ key \in [Candidates -> Keys]
  /\ blocked \subseteq Candidates
  /\ pc \in [Runs -> Steps]
  /\ marks \in [Runs -> SUBSET Candidates]
  /\ rows \in [Runs -> Packages]
  /\ directory \in [Runs -> Directories]
  /\ DOMAIN recorded \subseteq Runs
  /\ \A r \in DOMAIN recorded : recorded[r] \subseteq Candidates

Init ==
  /\ status = [c \in Candidates |-> "unreviewed"]
  /\ key \in [Candidates -> Keys]
  /\ blocked = {}
  /\ pc = [r \in Runs |-> "new"]
  /\ marks = [r \in Runs |-> {}]
  /\ rows = [r \in Runs |-> [c \in {} |-> {}]]
  /\ directory = [r \in Runs |-> "none"]
  /\ recorded = [r \in {} |-> {}]

Running(r) == pc[r] \in {"selected", "written", "renamed"}

-----------------------------------------------------------------------------
Eligible(c) == status[c] \in {"approved", "exported"}

\* Mutant: duplicates are reported and exported all the same.
Duplicates_Ignored(chosen) == {}

\* duplicate_candidate_groups.
Duplicates(chosen) == {c \in chosen : \E d \in chosen \ {c} : key[d] = key[c]}

\* Selection and validation: others are skipped, but one error among the
\* eligible stops the whole run.
Select(r, request) ==
  LET chosen == {c \in request : Eligible(c)}
  IN  /\ pc[r] = "new"
      /\ chosen \cap blocked = {}
      /\ Duplicates(chosen) = {}
      /\ \A c \in chosen : key[c] \notin Unmappable
      /\ pc' = [pc EXCEPT ![r] = "selected"]
      /\ marks' = [marks EXCEPT ![r] = {c \in chosen : status[c] # "exported"}]
      /\ rows' = [rows EXCEPT ![r] = [c \in chosen |-> key[c]]]
      /\ directory' = [directory EXCEPT ![r] = "partial"]
      /\ UNCHANGED <<candidateVars, recorded>>

Write(r) ==
  /\ pc[r] = "selected"
  /\ pc' = [pc EXCEPT ![r] = "written"]
  /\ directory' = [directory EXCEPT ![r] = "staged"]
  /\ UNCHANGED <<candidateVars, marks, rows, recorded>>

Rename(r) ==
  /\ pc[r] = "written"
  /\ pc' = [pc EXCEPT ![r] = "renamed"]
  /\ directory' = [directory EXCEPT ![r] = "final"]
  /\ UNCHANGED <<candidateVars, marks, rows, recorded>>

\* Mutant: the run is recorded before its directory is in place.
Commit_BeforeRename(r) ==
  /\ pc[r] = "written"
  /\ recorded' = [q \in DOMAIN recorded \cup {r} |->
                    IF q = r THEN DOMAIN rows[r] ELSE recorded[q]]
  /\ status' = [c \in Candidates |->
                  IF c \in marks[r] THEN "exported" ELSE status[c]]
  /\ marks' = [marks EXCEPT ![r] = {}]
  /\ pc' = [pc EXCEPT ![r] = "done"]
  /\ UNCHANGED <<key, blocked, rows, directory>>

\* Mutant: the candidates are given the status of the run.
Commit_RunStatus(r) ==
  /\ pc[r] = "renamed"
  /\ recorded' = [q \in DOMAIN recorded \cup {r} |->
                    IF q = r THEN DOMAIN rows[r] ELSE recorded[q]]
  /\ status' = [c \in Candidates |->
                  IF c \in marks[r] THEN "completed" ELSE status[c]]
  /\ marks' = [marks EXCEPT ![r] = {}]
  /\ pc' = [pc EXCEPT ![r] = "done"]
  /\ UNCHANGED <<key, blocked, rows, directory>>

\* Mutant: every approved candidate is marked, selected or not.
Commit_MarksAll(r) ==
  /\ pc[r] = "renamed"
  /\ recorded' = [q \in DOMAIN recorded \cup {r} |->
                    IF q = r THEN DOMAIN rows[r] ELSE recorded[q]]
  /\ status' = [c \in Candidates |->
                  IF status[c] = "approved" THEN "exported" ELSE status[c]]
  /\ marks' = [marks EXCEPT ![r] = {}]
  /\ pc' = [pc EXCEPT ![r] = "done"]
  /\ UNCHANGED <<key, blocked, rows, directory>>

\* One transaction.  review_status is written where it differed from exported
\* when the row was read, whatever the row holds by now.
Commit(r) ==
  /\ pc[r] = "renamed"
  /\ recorded' = [q \in DOMAIN recorded \cup {r} |->
                    IF q = r THEN DOMAIN rows[r] ELSE recorded[q]]
  /\ status' = [c \in Candidates |->
                  IF c \in marks[r] THEN "exported" ELSE status[c]]
  /\ marks' = [marks EXCEPT ![r] = {}]
  /\ pc' = [pc EXCEPT ![r] = "done"]
  /\ UNCHANGED <<key, blocked, rows, directory>>

\* rmtree with ignore_errors: what cannot be removed stays, all of it or some.
AfterRemoval(found) ==
  CASE found = "partial" -> {"none", "partial"}
    [] found = "staged" -> {"none", "partial", "staged"}
    [] found = "final" -> {"none", "remains", "final"}

\* An exception while writing, renaming or committing: the transaction is
\* rolled back, the directory removed wherever it is, if that is possible.
Fail(r) ==
  /\ Running(r)
  /\ pc' = [pc EXCEPT ![r] = "failed"]
  /\ marks' = [marks EXCEPT ![r] = {}]
  /\ \E left \in AfterRemoval(directory[r]) :
       directory' = [directory EXCEPT ![r] = left]
  /\ UNCHANGED <<candidateVars, rows, recorded>>

\* The process dies, or is interrupted from the keyboard.
Crash(r) ==
  /\ Running(r)
  /\ pc' = [pc EXCEPT ![r] = "crashed"]
  /\ marks' = [marks EXCEPT ![r] = {}]
  /\ UNCHANGED <<candidateVars, rows, directory, recorded>>

-----------------------------------------------------------------------------
\* A review: approval wants nothing open; overrides may change the key.
Review(c, resulting, k) ==
  /\ resulting = "approved" => c \notin blocked
  /\ status' = [status EXCEPT ![c] = resulting]
  /\ key' = [key EXCEPT ![c] = k]
  /\ UNCHANGED <<blocked, pc, marks, rows, directory, recorded>>

\* An extraction may change the extracted values and open or close what blocks
\* the candidate; an open conflict takes a human status away, a contradicted
\* context leaves it.
Extraction(c, open, k) ==
  /\ blocked' = IF open THEN blocked \cup {c} ELSE blocked \ {c}
  /\ status' \in {status, [status EXCEPT ![c] = IF open THEN "unreviewed" ELSE @]}
  /\ key' = [key EXCEPT ![c] = k]
  /\ UNCHANGED <<pc, marks, rows, directory, recorded>>

ExportStep(r) ==
  \/ \E request \in SUBSET Candidates : Select(r, request)
  \/ Write(r) \/ Rename(r) \/ Commit(r) \/ Fail(r) \/ Crash(r)

OtherCommand(c) ==
  \/ \E resulting \in Statuses \ {"exported"}, k \in Keys : Review(c, resulting, k)
  \/ \E open \in BOOLEAN, k \in Keys : Extraction(c, open, k)

Next ==
  \/ \E r \in Runs : ExportStep(r)
  \/ \E c \in Candidates : OtherCommand(c)

Spec == Init /\ [][Next]_vars

(***************************************************************************)
(* Properties                                                              *)
(***************************************************************************)

\* Wherever an export fails or dies, and whatever its cleanup leaves, a recorded
\* run has its complete package in place, with the candidates it recorded.
RunHasPackage ==
  \A r \in DOMAIN recorded :
    directory[r] = "final" /\ recorded[r] = DOMAIN rows[r]

\* No package in its final place holds one programme twice, however reviews
\* and other exports interleave with the run that wrote it.
NoDuplicateProgrammes ==
  \A r \in Runs : directory[r] = "final" =>
    \A c, d \in DOMAIN rows[r] : rows[r][c] = rows[r][d] => c = d

\* A candidate is exported only if a recorded run holds it.
ExportedWereRecorded ==
  \A c \in Candidates : status[c] = "exported" =>
    \E r \in DOMAIN recorded : c \in recorded[r]

\* However exports overlap, fail or die, among reviews and extractions, each
\* is atomic on the snapshot it took: its rows were eligible, unblocked and
\* distinct together, they are published as they were then and with the record
\* of the run, and no candidate but theirs is marked.
Ledger == INSTANCE ExportLedger WITH
  prepared <- [r \in {q \in Runs : Running(q)} |-> [rows |-> rows[r], fresh |-> marks[r]]],
  published <- [r \in DOMAIN recorded |-> rows[r]]

ImplementsLedger == Ledger!Spec

(***************************************************************************)
(* What the documents say and the code does not do                         *)
(***************************************************************************)

\* PATHFINDER_EXPORT.md: "Collected, needs-review, and rejected candidates are
\* skipped".
OnlyApprovedBecomeExported ==
  [][\A c \in Candidates : status'[c] = "exported" => Eligible(c)]_vars
=============================================================================
