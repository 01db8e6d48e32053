------------------------ MODULE ExportPackagesProofs ------------------------
(***************************************************************************)
(* Theorems about ExportPackages, for any candidates, keys and runs.       *)
(*                                                                         *)
(* The invariants of the packages follow from how far each run is: what is *)
(* on disk and on record for it, that its rows were distinct when it       *)
(* selected them, and that it marks none but those rows.  What a run that  *)
(* failed or died has left on disk is not restricted.                      *)
(* For the refinement, a run's rows and marks are its snapshot, which only *)
(* its own steps change.                                                   *)
(***************************************************************************)
EXTENDS ExportPackages, TLAPS

\* Where each run's directory and record are.
Progress ==
  \A r \in Runs :
    /\ pc[r] = "new" => directory[r] = "none"
    /\ pc[r] = "selected" => directory[r] = "partial"
    /\ pc[r] = "written" => directory[r] = "staged"
    /\ pc[r] = "renamed" => directory[r] = "final"
    /\ pc[r] = "done" => directory[r] = "final"
    /\ pc[r] = "done" <=> r \in DOMAIN recorded
    /\ pc[r] = "done" => recorded[r] = DOMAIN rows[r]

\* No run, under way or finished, holds one programme twice.
DistinctRows ==
  \A r \in Runs : \A c, d \in DOMAIN rows[r] : rows[r][c] = rows[r][d] => c = d

MarksInRows == \A r \in Runs : marks[r] \subseteq DOMAIN rows[r]

IInv ==
  /\ TypeOK
  /\ Progress
  /\ DistinctRows
  /\ MarksInRows
  /\ ExportedWereRecorded

-----------------------------------------------------------------------------
LEMMA InitInv == Init => IInv
<1> SUFFICES ASSUME Init PROVE IInv
  OBVIOUS
<1>1. [c \in {} |-> {}] \in Packages
  <2>1. [c \in {} |-> {}] \in [{} -> Keys]
    OBVIOUS
  <2>2. QED
    BY <2>1 DEF Packages
<1>2. TypeOK
  BY <1>1 DEF Init, TypeOK, Statuses, Steps, Directories
<1>3. QED
  BY <1>2 DEF Init, IInv, Progress, DistinctRows, MarksInRows, ExportedWereRecorded

LEMMA SelectInv ==
  ASSUME IInv, NEW r \in Runs, NEW request \in SUBSET Candidates, Select(r, request)
  PROVE  IInv'
<1> DEFINE chosen == {c \in request : Eligible(c)}
<1> USE DEF IInv
<1>1. /\ pc[r] = "new" /\ r \notin DOMAIN recorded
      /\ chosen \subseteq Candidates
      /\ pc' = [pc EXCEPT ![r] = "selected"]
      /\ marks' = [marks EXCEPT ![r] = {c \in chosen : status[c] # "exported"}]
      /\ rows' = [rows EXCEPT ![r] = [c \in chosen |-> key[c]]]
      /\ directory' = [directory EXCEPT ![r] = "partial"]
      /\ UNCHANGED <<status, key, blocked, recorded>>
  BY DEF Select, Progress, candidateVars
<1>2. [c \in chosen |-> key[c]] \in Packages
  <2>1. [c \in chosen |-> key[c]] \in [chosen -> Keys]
    BY <1>1 DEF TypeOK
  <2>2. QED
    BY <1>1, <2>1 DEF Packages
<1>3. TypeOK'
  <2> HIDE DEF chosen
  <2>1. marks' \in [Runs -> SUBSET Candidates]
    BY <1>1 DEF TypeOK
  <2>2. rows' \in [Runs -> Packages]
    BY <1>1, <1>2 DEF TypeOK
  <2>3. pc' \in [Runs -> Steps] /\ directory' \in [Runs -> Directories]
    BY <1>1 DEF TypeOK, Steps, Directories
  <2>4. QED
    BY <1>1, <2>1, <2>2, <2>3 DEF TypeOK
<1>4. Progress'
  BY <1>1 DEF Progress, TypeOK
<1>5. DistinctRows'
  <2>1. \A c, d \in chosen : key[c] = key[d] => c = d
    BY DEF Select, Duplicates
  <2>2. QED
    BY <1>1, <2>1 DEF DistinctRows, TypeOK
<1>6. MarksInRows'
  BY <1>1 DEF MarksInRows, TypeOK
<1>7. ExportedWereRecorded'
  BY <1>1 DEF ExportedWereRecorded
<1>8. QED
  BY <1>3, <1>4, <1>5, <1>6, <1>7

LEMMA CommitInv ==
  ASSUME IInv, NEW r \in Runs, Commit(r)
  PROVE  IInv'
<1> USE DEF IInv
<1>1. TypeOK'
  BY DEF Commit, TypeOK, Statuses, Steps, MarksInRows, Packages
<1>2. Progress'
  BY DEF Commit, Progress, TypeOK
<1>3. DistinctRows'
  BY DEF Commit, DistinctRows
<1>4. MarksInRows'
  BY DEF Commit, MarksInRows, TypeOK
<1>5. ExportedWereRecorded'
  <2> SUFFICES ASSUME NEW c \in Candidates, status'[c] = "exported"
               PROVE  \E q \in DOMAIN recorded' : c \in recorded'[q]
    BY DEF ExportedWereRecorded
  <2>1. DOMAIN recorded' = DOMAIN recorded \cup {r}
    BY DEF Commit
  <2>2. CASE c \in marks[r]
    <3>1. recorded'[r] = DOMAIN rows[r]
      BY DEF Commit
    <3>2. QED
      BY <2>1, <2>2, <3>1 DEF MarksInRows
  <2>3. CASE c \notin marks[r]
    <3>1. status[c] = "exported"
      BY <2>3 DEF Commit
    <3>2. PICK q \in DOMAIN recorded : c \in recorded[q]
      BY <3>1 DEF ExportedWereRecorded
    <3>3. q # r
      BY <3>2 DEF Commit, Progress
    <3>4. recorded'[q] = recorded[q]
      BY <3>2, <3>3 DEF Commit
    <3>5. QED
      BY <2>1, <3>2, <3>4
  <2>4. QED
    BY <2>2, <2>3
<1>6. QED
  BY <1>1, <1>2, <1>3, <1>4, <1>5

\* The steps of a run that touch neither the candidates nor the record.
LEMMA OtherStepsInv ==
  ASSUME IInv, NEW r \in Runs, Write(r) \/ Rename(r) \/ Fail(r) \/ Crash(r)
  PROVE  IInv'
<1> USE DEF IInv
<1>1. pc[r] \in {"selected", "written", "renamed"} /\ r \notin DOMAIN recorded
  BY DEF Write, Rename, Fail, Crash, Running, Progress
<1>2. UNCHANGED <<status, key, blocked, rows, recorded>>
  BY DEF Write, Rename, Fail, Crash, candidateVars
<1>3. TypeOK'
  <2>1. directory' \in [Runs -> Directories]
    <3>1. CASE Fail(r)
      BY <1>1, <3>1 DEF Fail, AfterRemoval, Progress, TypeOK, Directories
    <3>2. CASE Write(r) \/ Rename(r) \/ Crash(r)
      BY <3>2 DEF Write, Rename, Crash, TypeOK, Directories
    <3>3. QED
      BY <3>1, <3>2
  <2>2. pc' \in [Runs -> Steps] /\ marks' \in [Runs -> SUBSET Candidates]
    BY DEF Write, Rename, Fail, Crash, TypeOK, Steps
  <2>3. QED
    BY <1>2, <2>1, <2>2 DEF TypeOK
<1>4. Progress'
  BY <1>1 DEF Write, Rename, Fail, Crash, candidateVars, Progress, TypeOK
<1>5. MarksInRows'
  BY DEF Write, Rename, Fail, Crash, MarksInRows, TypeOK
<1>6. DistinctRows' /\ ExportedWereRecorded'
  BY <1>2 DEF DistinctRows, ExportedWereRecorded
<1>7. QED
  BY <1>3, <1>4, <1>5, <1>6

LEMMA ReviewInv ==
  ASSUME IInv, NEW c \in Candidates, NEW resulting \in Statuses \ {"exported"},
         NEW k \in Keys, Review(c, resulting, k)
  PROVE  IInv'
<1> USE DEF IInv, Review
<1>1. TypeOK'
  BY DEF TypeOK
<1>2. Progress' /\ DistinctRows' /\ MarksInRows'
  BY DEF Progress, DistinctRows, MarksInRows
<1>3. \A d \in Candidates : status'[d] = "exported" => status[d] = "exported"
  BY DEF TypeOK
<1>4. ExportedWereRecorded'
  BY <1>3 DEF ExportedWereRecorded
<1>5. QED
  BY <1>1, <1>2, <1>4

LEMMA ExtractionInv ==
  ASSUME IInv, NEW c \in Candidates, NEW open \in BOOLEAN, NEW k \in Keys,
         Extraction(c, open, k)
  PROVE  IInv'
<1> USE DEF IInv, Extraction
<1>1. TypeOK'
  BY DEF TypeOK, Statuses
<1>2. Progress' /\ DistinctRows' /\ MarksInRows'
  BY DEF Progress, DistinctRows, MarksInRows
<1>3. \A d \in Candidates : status'[d] = "exported" => status[d] = "exported"
  BY DEF TypeOK
<1>4. ExportedWereRecorded'
  BY <1>3 DEF ExportedWereRecorded
<1>5. QED
  BY <1>1, <1>2, <1>4

LEMMA NextInv == IInv /\ [Next]_vars => IInv'
<1> SUFFICES ASSUME IInv, [Next]_vars PROVE IInv'
  OBVIOUS
<1>1. ASSUME NEW r \in Runs, ExportStep(r) PROVE IInv'
  BY <1>1, SelectInv, CommitInv, OtherStepsInv DEF ExportStep
<1>2. ASSUME NEW c \in Candidates, OtherCommand(c) PROVE IInv'
  BY <1>2, ReviewInv, ExtractionInv DEF OtherCommand
<1>3. CASE UNCHANGED vars
  BY <1>3 DEF vars, candidateVars, IInv, TypeOK, Progress, DistinctRows, MarksInRows,
              ExportedWereRecorded
<1>4. QED
  BY <1>1, <1>2, <1>3 DEF Next

\* Each of the packages' invariants follows from the inductive one.
LEMMA InvConsequences == IInv => RunHasPackage /\ NoDuplicateProgrammes
BY DEF IInv, TypeOK, Progress, DistinctRows, RunHasPackage, NoDuplicateProgrammes

\* The inductive invariant holds in every reachable state.
THEOREM Invariance == Spec => []IInv
BY InitInv, NextInv, PTL DEF Spec

\* Every state is well typed, whatever the candidates, keys and runs.
THEOREM TypeCorrect == Spec => []TypeOK
<1>1. IInv => TypeOK
  BY DEF IInv
<1>2. QED
  BY <1>1, Invariance, PTL

\* A recorded run has its complete package in place (export_programs renames
\* before it commits).
THEOREM RecordedRunsHavePackages == Spec => []RunHasPackage
BY Invariance, InvConsequences, PTL

\* No package in place holds one programme twice, however exports overlap with
\* reviews, extractions and each other (duplicate_candidate_groups).
THEOREM PackagesHoldNoDuplicates == Spec => []NoDuplicateProgrammes
BY Invariance, InvConsequences, PTL

\* A candidate's status is exported only if a recorded run holds it.
THEOREM ExportedAreRecorded == Spec => []ExportedWereRecorded
<1>1. IInv => ExportedWereRecorded
  BY DEF IInv
<1>2. QED
  BY <1>1, Invariance, PTL

(***************************************************************************)
(* Exports implement the ledger                                            *)
(***************************************************************************)

\* The ledger's prepared runs, as ExportPackages has them.
Snapshot(r) == [rows |-> rows[r], fresh |-> marks[r]]
Prepared == [r \in {q \in Runs : Running(q)} |-> Snapshot(r)]
Published == [r \in DOMAIN recorded |-> rows[r]]

LEMMA SelectPrepares ==
  ASSUME IInv, NEW r \in Runs, NEW request \in SUBSET Candidates, Select(r, request)
  PROVE  Ledger!Next
<1> DEFINE chosen == {c \in request : Eligible(c)}
           fresh == {c \in chosen : status[c] # "exported"}
           table == [c \in chosen |-> key[c]]
<1> USE DEF IInv
<1>1. /\ pc[r] = "new" /\ r \notin DOMAIN recorded
      /\ pc' = [pc EXCEPT ![r] = "selected"]
      /\ marks' = [marks EXCEPT ![r] = fresh]
      /\ rows' = [rows EXCEPT ![r] = table]
      /\ UNCHANGED <<status, key, blocked, recorded>>
      /\ chosen \cap blocked = {}
  BY DEF Select, Progress, candidateVars
<1>2. /\ \A c, d \in chosen : key[c] = key[d] => c = d
      /\ \A c \in chosen : status[c] \in {"approved", "exported"}
      /\ chosen \in SUBSET Candidates
  BY DEF Select, Duplicates, Eligible
<1> HIDE DEF chosen, fresh, table
<1>3. Prepared' = Ledger!With(Prepared, r, [rows |-> table, fresh |-> fresh])
  <2>1. {q \in Runs : Running(q)}' = {q \in Runs : Running(q)} \cup {r}
    BY <1>1 DEF Running, TypeOK
  <2>2. ~ Running(r)
    BY <1>1 DEF Running
  <2>3. Snapshot(r)' = [rows |-> table, fresh |-> fresh]
    BY <1>1 DEF Snapshot, TypeOK
  <2>4. \A q \in Runs \ {r} : Snapshot(q)' = Snapshot(q)
    BY <1>1 DEF Snapshot, TypeOK
  <2>5. QED
    BY <2>1, <2>2, <2>3, <2>4 DEF Prepared, Ledger!With
<1>4. Published' = Published
  <2>1. \A q \in DOMAIN recorded : rows'[q] = rows[q]
    BY <1>1 DEF TypeOK
  <2>2. QED
    BY <1>1, <2>1 DEF Published
<1>5. r \notin DOMAIN Prepared \cup DOMAIN Published
  BY <1>1 DEF Prepared, Published, Running
<1>6. Ledger!Prepare(r, chosen)
  BY <1>1, <1>2, <1>3, <1>4, <1>5
     DEF Ledger!Prepare, Prepared, Published, Snapshot, fresh, table
<1>7. QED
  BY <1>2, <1>6 DEF Ledger!Next, Ledger!Prepare

LEMMA CommitPublishes ==
  ASSUME IInv, NEW r \in Runs, Commit(r)
  PROVE  Ledger!Next
<1> USE DEF IInv
<1>1. /\ Running(r) /\ r \notin DOMAIN recorded
      /\ DOMAIN recorded' = DOMAIN recorded \cup {r}
      /\ pc' = [pc EXCEPT ![r] = "done"]
      /\ marks' = [marks EXCEPT ![r] = {}]
      /\ status' = [c \in Candidates |-> IF c \in marks[r] THEN "exported" ELSE status[c]]
      /\ UNCHANGED <<key, blocked, rows>>
  BY DEF Commit, Progress, Running
<1>2. Prepared' = Ledger!Without(Prepared, r)
  <2>1. {q \in Runs : Running(q)}' = {q \in Runs : Running(q)} \ {r}
    BY <1>1 DEF Running, TypeOK
  <2>2. \A q \in Runs \ {r} : Snapshot(q)' = Snapshot(q)
    BY <1>1 DEF Snapshot, TypeOK
  <2>3. QED
    BY <2>1, <2>2 DEF Prepared, Ledger!Without
<1>3. r \in DOMAIN Prepared /\ Prepared[r] = [rows |-> rows[r], fresh |-> marks[r]]
  BY <1>1 DEF Prepared, Snapshot
<1>4. Published' = Ledger!With(Published, r, rows[r])
  BY <1>1 DEF Published, Ledger!With
<1>5. Ledger!Publish(r)
  BY <1>1, <1>2, <1>3, <1>4 DEF Ledger!Publish, Prepared, Published, Snapshot
<1>6. QED
  BY <1>5 DEF Ledger!Next, Ledger!Publish

LEMMA EndDiscards ==
  ASSUME IInv, NEW r \in Runs, Fail(r) \/ Crash(r)
  PROVE  Ledger!Next
<1> USE DEF IInv
<1>1. /\ Running(r) /\ ~ Running(r)'
      /\ \A q \in Runs \ {r} : Running(q)' = Running(q)
      /\ marks' = [marks EXCEPT ![r] = {}]
      /\ UNCHANGED <<status, key, blocked, rows, recorded>>
  BY DEF Fail, Crash, Running, TypeOK, candidateVars
<1>2. Prepared' = Ledger!Without(Prepared, r)
  <2>1. {q \in Runs : Running(q)}' = {q \in Runs : Running(q)} \ {r}
    BY <1>1
  <2>2. \A q \in Runs \ {r} : Snapshot(q)' = Snapshot(q)
    BY <1>1 DEF Snapshot, TypeOK
  <2>3. QED
    BY <2>1, <2>2 DEF Prepared, Ledger!Without
<1>3. r \in DOMAIN Prepared
  BY <1>1 DEF Prepared
<1>4. Ledger!Discard(r)
  BY <1>1, <1>2, <1>3 DEF Ledger!Discard, Prepared, Published, Snapshot
<1>5. QED
  BY <1>4 DEF Ledger!Next, Ledger!Discard

\* Every step of the exports is a step of the ledger or none.
LEMMA LedgerStep ==
  ASSUME IInv, Next
  PROVE  [Ledger!Next]_(Ledger!ledgerVars)
<1> USE DEF IInv
<1>1. ASSUME NEW r \in Runs, Write(r) \/ Rename(r)
      PROVE  UNCHANGED Ledger!ledgerVars
  <2>1. /\ {q \in Runs : Running(q)}' = {q \in Runs : Running(q)}
        /\ UNCHANGED <<status, key, blocked, rows, marks, recorded>>
    BY <1>1 DEF Write, Rename, Running, TypeOK, candidateVars
  <2>2. QED
    BY <2>1 DEF Ledger!ledgerVars
<1>2. ASSUME NEW c \in Candidates, OtherCommand(c)
      PROVE  Ledger!Next
  <2>1. UNCHANGED <<pc, marks, rows, recorded>>
    BY <1>2 DEF OtherCommand, Review, Extraction
  <2>2. \A d \in Candidates : status'[d] = "exported" => status[d] = "exported"
    BY <1>2 DEF OtherCommand, Review, Extraction, TypeOK
  <2>3. {q \in Runs : Running(q)}' = {q \in Runs : Running(q)}
    BY <2>1 DEF Running
  <2>4. Ledger!Review
    BY <2>1, <2>2, <2>3 DEF Ledger!Review
  <2>5. QED
    BY <2>4 DEF Ledger!Next
<1>3. QED
  BY <1>1, <1>2, SelectPrepares, CommitPublishes, EndDiscards DEF Next, ExportStep

\* However exports overlap with each other, with reviews and extractions, fail
\* or die: a run publishes the eligible, distinct snapshot it took, at once
\* and as it was, or nothing (export_programs).
THEOREM ExportsPublishSnapshots == Spec => ImplementsLedger
<1>1. Init => Ledger!Init
  BY DEF Init, Ledger!Init, Running
<1>2. IInv /\ [Next]_vars => [Ledger!Next]_(Ledger!ledgerVars)
  <2>1. ASSUME UNCHANGED vars PROVE UNCHANGED Ledger!ledgerVars
    <3>1. {q \in Runs : Running(q)}' = {q \in Runs : Running(q)}
      BY <2>1 DEF vars, Running
    <3>2. QED
      BY <2>1, <3>1 DEF vars, candidateVars, Ledger!ledgerVars
  <2>2. QED
    BY <2>1, LedgerStep
<1>3. QED
  BY <1>1, <1>2, Invariance, PTL DEF Spec, ImplementsLedger, Ledger!Spec
=============================================================================
