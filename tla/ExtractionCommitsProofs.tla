---------------------- MODULE ExtractionCommitsProofs ----------------------
(***************************************************************************)
(* Theorems about ExtractionCommits: what holds with other commands and    *)
(* crashes between the commits of an extraction, for any fields, sources,  *)
(* page contents and bounds.                                               *)
(***************************************************************************)
EXTENDS ExtractionCommits, CandidateLifecycleProofs

(***************************************************************************)
(* Types                                                                   *)
(***************************************************************************)
RecordType ==
  [status: Statuses \ {"absent"}, overrides: FieldValues, warnings: SUBSET (Notes \cup Fields),
   approvedAt: Nat, normalized: [Fields -> Values \cup {None}]]

JobType == [source: Sources, role: {"primary", "supporting"}, page: Pages, record: RecordType]

CommitsTyped ==
  /\ TypeOK
  /\ pc \in Commits
  /\ pc # "idle" => job \in JobType
  /\ interrupted \in BOOLEAN

\* What another command does it does to the candidate alone.
LEMMA OthersAreLifecycleSteps ==
  ASSUME OtherCommand
  PROVE  /\ Next
         /\ UNCHANGED <<pc, job, interrupted, before>>
BY DEF OtherCommand, Next, processVars, auxVars

\* The row as it is, or a new one, is a record.
LEMMA RecordTyped ==
  ASSUME TypeOK
  PROVE  Record \in RecordType
BY DEF TypeOK, Record, RecordType, Statuses

\* A record written back leaves the row typed.
LEMMA RowTyped ==
  ASSUME TypeOK, NEW r \in RecordType, WriteRow(r),
         UNCHANGED <<stored, roles, evidenceVars, contextVars, auditVars, extractions, accepted>>
  PROVE  TypeOK' /\ status' # "absent"
BY DEF RecordType, WriteRow, TypeOK, evidenceVars, contextVars, auditVars

\* The first read takes a page that is cached and a typed record.
LEMMA LoadTyped ==
  ASSUME CommitsTyped, NEW s \in Sources, NEW attach \in BOOLEAN, Load(s, attach)
  PROVE  CommitsTyped'
<1>1. job' \in JobType
  BY RecordTyped DEF CommitsTyped, Load, JobType, TypeOK
<1>2. TypeOK'
  BY DEF CommitsTyped, Load, TypeOK, candidateVars, evidenceVars, contextVars, auditVars
<1>3. QED
  BY <1>1, <1>2 DEF CommitsTyped, Load, Commits

\* The three writes of the candidate row, whatever record the process holds.
LEMMA SaveTyped ==
  ASSUME CommitsTyped, SaveCandidate \/ SaveValues \/ SaveStatus
  PROVE  CommitsTyped' /\ (SaveCandidate \/ SaveValues => status' # "absent")
<1>1. job \in JobType /\ job.record \in RecordType /\ job.page \in Pages /\ TypeOK
  BY DEF CommitsTyped, SaveCandidate, SaveValues, SaveStatus, JobType
<1>2. CASE SaveCandidate
  <2>1. TypeOK' /\ status' # "absent"
    BY <1>1, <1>2, RowTyped DEF SaveCandidate
  <2>2. QED
    BY <1>1, <1>2, <2>1 DEF SaveCandidate, CommitsTyped, Commits, auxVars
<1>3. CASE SaveValues
  <2> DEFINE r == [job.record EXCEPT
                     !.normalized = Normalized(evidence, Primary),
                     !.warnings = @ \cup PageNotes[job.page]
                                    \cup ResolutionWarnings(evidence, Primary)]
  <2>1. Normalized(evidence, Primary) \in [Fields -> Values \cup {None}]
    BY <1>1, NormalizedType DEF TypeOK
  <2>2. PageNotes[job.page] \cup ResolutionWarnings(evidence, Primary) \subseteq Notes \cup Fields
    BY <1>1, LifecycleConstants DEF ResolutionWarnings
  <2>3. r \in RecordType
    BY <1>1, <2>1, <2>2 DEF RecordType
  <2>4. WriteRow(r) /\ job' = [job EXCEPT !.record = r]
    BY <1>3 DEF SaveValues
  <2> HIDE DEF r
  <2>5. TypeOK' /\ status' # "absent"
    BY <1>1, <1>3, <2>3, <2>4, RowTyped DEF SaveValues
  <2>6. job' \in JobType
    BY <1>1, <2>3, <2>4 DEF JobType
  <2>7. QED
    BY <1>3, <2>5, <2>6 DEF SaveValues, CommitsTyped, Commits, auxVars
<1>4. CASE SaveStatus
  <2> DEFINE r == [job.record EXCEPT !.status =
                     AutomaticStatus(evidence, job.record.normalized, conflicts)]
  <2>1. r \in RecordType
    BY <1>1, AutomaticStatusType DEF RecordType, Statuses
  <2>2. WriteRow(r) \/ UNCHANGED <<status, normalized, overrides, warnings, approvedAt>>
    BY <1>4 DEF SaveStatus
  <2> HIDE DEF r
  <2>3. TypeOK'
    <3>1. CASE WriteRow(r)
      BY <1>1, <1>4, <2>1, <3>1, RowTyped DEF SaveStatus
    <3>2. CASE UNCHANGED <<status, normalized, overrides, warnings, approvedAt>>
      BY <1>1, <1>4, <3>2 DEF SaveStatus, TypeOK, evidenceVars, contextVars, auditVars
    <3>3. QED
      BY <2>2, <3>1, <3>2
  <2>4. ~ SaveCandidate /\ ~ SaveValues
    BY <1>4 DEF SaveStatus, SaveCandidate, SaveValues
  <2>5. QED
    BY <1>1, <1>4, <2>3, <2>4 DEF SaveStatus, CommitsTyped, Commits, auxVars
<1>5. QED
  BY <1>2, <1>3, <1>4

\* The two commits of attach_source.
LEMMA LinkTyped ==
  ASSUME CommitsTyped, LinkPrimary \/ LinkSource
  PROVE  CommitsTyped'
<1>1. job \in JobType /\ TypeOK
  BY DEF CommitsTyped, LinkPrimary, LinkSource
<1>2. roles' \in [Sources -> {"none", "primary", "supporting"}]
  BY <1>1, LifecycleConstants, AttachSourceType DEF LinkPrimary, LinkSource, TypeOK, JobType
<1>3. TypeOK'
  BY <1>1, <1>2 DEF LinkPrimary, LinkSource, TypeOK, evidenceVars, contextVars, auditVars
<1>4. QED
  BY <1>1, <1>3 DEF LinkPrimary, LinkSource, CommitsTyped, Commits, auxVars

\* The commits to the evidence, conflict and context tables.
LEMMA TablesTyped ==
  ASSUME CommitsTyped, ReplaceEvidence \/ StoreConflicts \/ RefreshContext
  PROVE  CommitsTyped'
<1>1. job \in JobType /\ TypeOK /\ job.source \in Sources /\ Content[job.page] \in SUBSET Suggestion
  BY LifecycleConstants DEF CommitsTyped, ReplaceEvidence, StoreConflicts, RefreshContext, JobType
<1>2. CASE ReplaceEvidence
  <2>1. evidence' \in SUBSET Evidence
    BY <1>1, <1>2, ReplaceForSourceType DEF ReplaceEvidence, TypeOK
  <2>2. conflicts' \subseteq Conflict /\ contextConflicts' \subseteq Evidence
    BY <1>1, <1>2 DEF ReplaceEvidence, DropConflictsOf, TypeOK
  <2>3. TypeOK'
    BY <1>1, <1>2, <2>1, <2>2 DEF ReplaceEvidence, TypeOK, candidateVars, auditVars
  <2>4. QED
    BY <1>1, <1>2, <2>3 DEF ReplaceEvidence, CommitsTyped, Commits, auxVars
<1>3. CASE StoreConflicts
  <2>1. conflicts' \subseteq Conflict
    BY <1>1, <1>3, ConflictPairsRows DEF StoreConflicts, ReplaceConflicts, TypeOK
  <2>2. TypeOK'
    BY <1>1, <1>3, <2>1 DEF StoreConflicts, TypeOK, candidateVars, contextVars, auditVars
  <2>3. QED
    BY <1>1, <1>3, <2>2 DEF StoreConflicts, CommitsTyped, Commits, auxVars
<1>4. CASE RefreshContext
  <2>1. context' \in {"none", "effective", "disabled"} /\ contextConflicts' \subseteq Evidence
    BY <1>1, <1>4 DEF RefreshContext, ContextAfter, ContextConflictsAfter, Contradictions, TypeOK
  <2>2. TypeOK'
    BY <1>1, <1>4, <2>1 DEF RefreshContext, TypeOK, candidateVars, evidenceVars, auditVars
  <2>3. QED
    BY <1>4, <2>2 DEF RefreshContext, CommitsTyped, Commits
<1>5. QED
  BY <1>2, <1>3, <1>4

\* Every commit, every other command and a crash keep the types.
LEMMA CommitsKeepTypes ==
  ASSUME CommitsTyped, [CommitsNext]_commitVars
  PROVE  CommitsTyped'
<1>1. CASE Extraction
  BY <1>1, LoadTyped, SaveTyped, LinkTyped, TablesTyped DEF Extraction
<1>2. CASE OtherCommand
  BY <1>2, OthersAreLifecycleSteps, NextType DEF CommitsTyped
<1>3. CASE Crash
  <2>1. TypeOK'
    BY <1>3, NextType DEF Crash, CommitsTyped
  <2>2. QED
    BY <1>3, <2>1 DEF Crash, CommitsTyped, Commits
<1>4. CASE UNCHANGED commitVars
  <2>1. TypeOK'
    BY <1>4, NextType DEF commitVars, CommitsTyped
  <2>2. QED
    BY <1>4, <2>1 DEF commitVars, processVars, auxVars, CommitsTyped
<1>5. QED
  BY <1>1, <1>2, <1>3, <1>4 DEF CommitsNext

\* No extraction is under way at the start.
LEMMA CommitsStartTyped == CommitsInit => CommitsTyped
BY InitType DEF CommitsInit, CommitsTyped, Commits

\* The strengthened types hold: with the record a process holds in between.
THEOREM CommitsTypesInvariant == CommitsSpec => []CommitsTyped
BY CommitsStartTyped, CommitsKeepTypes, PTL DEF CommitsSpec

\* Whatever is committed, interrupted or interleaved, the tables and what the
\* process holds are well typed.
THEOREM CommitsTypesCorrect == CommitsSpec => []CommitsTypeOK
<1>1. CommitsTyped => CommitsTypeOK
  BY DEF CommitsTyped, CommitsTypeOK, JobType
<1>2. QED
  BY <1>1, CommitsTypesInvariant, PTL

(***************************************************************************)
(* References                                                              *)
(***************************************************************************)

\* The steps that write the evidence or what refers to it; all others leave
\* the three tables as they are.
LEMMA TableSteps ==
  ASSUME [CommitsNext]_commitVars
  PROVE  \/ ReplaceEvidence \/ StoreConflicts \/ RefreshContext \/ ApplyJobCountry
         \/ \E c \in conflicts, action \in ResolutionActions : Resolve(c, action)
         \/ UNCHANGED <<evidence, conflicts, contextConflicts>>
BY DEF CommitsNext, Extraction, Load, SaveCandidate, LinkPrimary, LinkSource, SaveValues,
       SaveStatus, OtherCommand, Fetch, LoseCache, Approve, Reject, ReturnToReview, Decide,
       Export, Crash, commitVars, vars, evidenceVars, contextVars

\* Refreshing takes context conflicts from the evidence there is.
LEMMA ContextRows ==
  ASSUME NEW ctx, NEW ev
  PROVE  ContextConflictsAfter(ctx, ev) \subseteq ev
BY DEF ContextConflictsAfter, Contradictions

\* Every step keeps the references: rows go only together with what refers
\* to them.
LEMMA NextRefers ==
  ASSUME CommitsTyped, ConflictsReferToEvidence, [CommitsNext]_commitVars
  PROVE  ConflictsReferToEvidence'
<1>1. CASE ReplaceEvidence
  <2> DEFINE gone == Obsolete(evidence, job.source, Content[job.page])
  <2>1. /\ evidence \ gone \subseteq evidence'
        /\ conflicts' = DropConflictsOf(conflicts, gone)
        /\ contextConflicts' = contextConflicts \ gone
    BY <1>1 DEF ReplaceEvidence, ReplaceForSource
  <2> HIDE DEF gone
  <2>2. QED
    BY <2>1 DEF DropConflictsOf, ConflictsReferToEvidence
<1>2. CASE StoreConflicts
  <2> DEFINE new == ConflictPairs(evidence, Primary)
  <2>1. \A c \in new : c.first \in evidence /\ c.second \in evidence
    BY ConflictPairsRows DEF CommitsTyped, TypeOK
  <2>2. conflicts' = ReplaceConflicts(conflicts, new) /\ UNCHANGED <<evidence, contextConflicts>>
    BY <1>2 DEF StoreConflicts, contextVars
  <2> HIDE DEF new
  <2>3. QED
    BY <2>1, <2>2 DEF ReplaceConflicts, ConflictsReferToEvidence
<1>3. CASE RefreshContext \/ ApplyJobCountry
  <2>1. contextConflicts' \subseteq evidence /\ UNCHANGED <<evidence, conflicts>>
    BY <1>3, ContextRows DEF RefreshContext, ApplyJobCountry, evidenceVars
  <2>2. QED
    BY <2>1 DEF ConflictsReferToEvidence
<1>4. ASSUME NEW c \in conflicts, NEW action \in ResolutionActions, Resolve(c, action)
      PROVE  ConflictsReferToEvidence'
  <2>1. PICK v : conflicts' = (conflicts \ {c}) \cup
            {[c EXCEPT !.status = IF v = None THEN "unresolved" ELSE "resolved", !.value = v]}
    BY <1>4 DEF Resolve
  <2> DEFINE d == [c EXCEPT !.status = IF v = None THEN "unresolved" ELSE "resolved", !.value = v]
  <2>2. d.first = c.first /\ d.second = c.second
    BY DEF CommitsTyped, TypeOK, Conflict
  <2>3. UNCHANGED <<evidence, contextConflicts>>
    BY <1>4 DEF Resolve, contextVars
  <2> HIDE DEF d
  <2>4. conflicts' = (conflicts \ {c}) \cup {d}
    BY <2>1 DEF d
  <2>5. QED
    BY <2>2, <2>3, <2>4 DEF ConflictsReferToEvidence
<1>5. CASE UNCHANGED <<evidence, conflicts, contextConflicts>>
  BY <1>5 DEF ConflictsReferToEvidence
<1>6. QED
  BY <1>1, <1>2, <1>3, <1>4, <1>5, TableSteps

\* No conflict and no context conflict ever refers to an evidence row that is
\* gone, at whatever commit extractions are cut short and whatever runs between
\* (replace_for_source deletes the referring rows first).
THEOREM ReferencesStayIntact == CommitsSpec => []ConflictsReferToEvidence
<1>1. CommitsInit => ConflictsReferToEvidence
  BY DEF CommitsInit, Init, ConflictsReferToEvidence
<1>2. CommitsTyped /\ ConflictsReferToEvidence /\ [CommitsNext]_commitVars
        => ConflictsReferToEvidence'
  BY NextRefers
<1>3. QED
  BY <1>1, <1>2, CommitsTypesInvariant, PTL DEF CommitsSpec

-----------------------------------------------------------------------------

\* When evidence is about to be stored its source is attached.
Attached ==
  /\ EvidenceFromAttachedSources
  /\ pc = "replace" => roles[job.source] # "none"

\* Linking never unlinks, and links the source it is given.
LEMMA LinkedStay ==
  ASSUME NEW rs \in [Sources -> {"none", "primary", "supporting"}], NEW s \in Sources,
         NEW role \in {"primary", "supporting"}
  PROVE  /\ \A q \in Sources : rs[q] # "none" => AttachSource(rs, s, role)[q] # "none"
         /\ AttachSource(rs, s, role)[s] # "none"
BY DEF AttachSource

\* Every step keeps evidence to attached sources, no step detaches one.
LEMMA NextAttached ==
  ASSUME CommitsTyped, Attached, [CommitsNext]_commitVars
  PROVE  Attached'
<1>0. \A e \in evidence : e.src \in Sources
  BY DEF CommitsTyped, TypeOK, Evidence
<1>1. CASE LinkPrimary \/ LinkSource
  <2>1. /\ roles \in [Sources -> {"none", "primary", "supporting"}]
        /\ job.source \in Sources /\ job.role \in {"primary", "supporting"} /\ Primary \in Sources
    BY <1>1, LifecycleConstants DEF LinkPrimary, LinkSource, CommitsTyped, TypeOK, JobType
  <2>2. \A q \in Sources : roles[q] # "none" => roles'[q] # "none"
    BY <1>1, <2>1, LinkedStay DEF LinkPrimary, LinkSource
  <2>3. LinkSource => roles'[job.source] # "none"
    BY <2>1, LinkedStay DEF LinkSource
  <2>4. UNCHANGED <<evidence, job>> /\ (LinkPrimary => pc' = "attach")
    BY <1>1 DEF LinkPrimary, LinkSource, evidenceVars
  <2>5. QED
    BY <1>0, <1>1, <2>2, <2>3, <2>4 DEF Attached, EvidenceFromAttachedSources
<1>2. CASE ReplaceEvidence
  <2>1. \A e \in evidence' : e \in evidence \/ e.src = job.source
    BY <1>2 DEF ReplaceEvidence, ReplaceForSource
  <2>2. roles' = roles /\ pc' = "values" /\ pc = "replace"
    BY <1>2 DEF ReplaceEvidence, candidateVars
  <2>3. QED
    BY <2>1, <2>2 DEF Attached, EvidenceFromAttachedSources
<1>3. CASE UNCHANGED <<roles, evidence>> /\ (pc' = "replace" => pc = "replace" /\ job' = job)
  BY <1>3 DEF Attached, EvidenceFromAttachedSources
<1>4. QED
  BY <1>1, <1>2, <1>3
     DEF CommitsNext, Extraction, Load, SaveCandidate, SaveValues, StoreConflicts, SaveStatus,
         RefreshContext, OtherCommand, Fetch, LoseCache, ApplyJobCountry, Resolve, Approve,
         Reject, ReturnToReview, Decide, Export, Crash, commitVars, vars, processVars,
         candidateVars, evidenceVars

\* Evidence is stored only for attached sources, so that the cache check of an
\* approval covers every page a value may come from, also after a crash.
THEOREM EvidenceIsAttached == CommitsSpec => []EvidenceFromAttachedSources
<1>1. CommitsInit => Attached
  BY DEF CommitsInit, Init, Attached, EvidenceFromAttachedSources
<1>2. CommitsTyped /\ Attached /\ [CommitsNext]_commitVars => Attached'
  BY NextAttached
<1>3. Attached => EvidenceFromAttachedSources
  BY DEF Attached
<1>4. QED
  BY <1>1, <1>2, <1>3, CommitsTypesInvariant, PTL DEF CommitsSpec

(***************************************************************************)
(* Resolutions                                                             *)
(***************************************************************************)

\* A conflict that refers to a replaced row is no longer one the evidence
\* disputes.
LEMMA DroppedAreSettled ==
  ASSUME CommitsTyped, ReplaceEvidence, CommitsTyped',
         NEW c \in conflicts, c \notin conflicts'
  PROVE  ConflictKey(c) \notin {ConflictKey(d) : d \in ConflictPairs(evidence', Primary)}
<1> DEFINE gone == Obsolete(evidence, job.source, Content[job.page])
<1>1. c.first \in gone \/ c.second \in gone
  BY DEF ReplaceEvidence, DropConflictsOf
<1>2. gone \cap evidence' = {}
  BY ObsoleteRowsGo DEF ReplaceEvidence
<1>3. \A d \in ConflictPairs(evidence', Primary) : {d.first, d.second} \subseteq evidence'
  BY ConflictPairsRows DEF CommitsTyped, TypeOK
<1> HIDE DEF gone
<1>4. ~ ({c.first, c.second} \subseteq evidence')
  BY <1>1, <1>2
<1>5. QED
  BY <1>3, <1>4 DEF ConflictKey

\* No extraction, cut short or not, loses a resolution from the conflict table
\* while its pair is still what the evidence disputes (replace_conflicts keeps
\* the row by its key).
THEOREM ResolutionsSurvive == CommitsSpec => ResolutionsLapseWithEvidence
<1>1. CommitsTyped /\ CommitsTyped' /\ [CommitsNext]_commitVars =>
        [\A c \in conflicts \ Open(conflicts) :
           \/ c \in conflicts'
           \/ resolutions' # resolutions
           \/ ConflictKey(c) \notin
                {ConflictKey(d) : d \in ConflictPairs(evidence', Primary)}]_commitVars
  <2> SUFFICES ASSUME CommitsTyped, CommitsTyped', CommitsNext, NEW c \in conflicts,
                      c \notin conflicts', resolutions' = resolutions
               PROVE  ConflictKey(c) \notin
                        {ConflictKey(d) : d \in ConflictPairs(evidence', Primary)}
    BY DEF Open
  <2>1. CASE ReplaceEvidence
    BY <2>1, DroppedAreSettled
  <2>2. CASE StoreConflicts
    <3> DEFINE new == ConflictPairs(evidence, Primary)
    <3>1. conflicts' = ReplaceConflicts(conflicts, new) /\ evidence' = evidence
      BY <2>2 DEF StoreConflicts
    <3> HIDE DEF new
    <3>2. \A d \in new : ConflictKey(c) # ConflictKey(d)
      BY <3>1 DEF ReplaceConflicts
    <3>3. QED
      BY <3>1, <3>2 DEF new
  <2>3. ASSUME NEW d \in conflicts, NEW action \in ResolutionActions, Resolve(d, action)
        PROVE  FALSE
    <3>1. PICK v \in Selectable(d, action) : resolutions' =
            Append(resolutions, [field |-> d.field, action |-> action, selected |-> v])
      BY <2>3 DEF Resolve
    <3>2. Len(resolutions) \in Nat /\ Len(resolutions') = Len(resolutions) + 1
      BY <3>1, ResolutionAppended DEF CommitsTyped
    <3>3. QED
      BY <3>2
  <2>4. CASE conflicts' = conflicts
    BY <2>4
  <2>5. QED
    BY <2>1, <2>2, <2>3, <2>4, TableSteps DEF RefreshContext, ApplyJobCountry, evidenceVars
<1>2. QED
  BY <1>1, CommitsTypesInvariant, PTL DEF CommitsSpec, ResolutionsLapseWithEvidence

(***************************************************************************)
(* Repair                                                                  *)
(***************************************************************************)

\* What is up to date once the evidence was read back, once the conflicts were
\* stored, and after an extraction that ended.
Repaired ==
  /\ pc \in {"conflicts", "status", "refresh"} =>
       NormalizedCurrent /\ job.record.normalized = Normalized(evidence, Primary)
  /\ pc \in {"status", "refresh"} => ConflictsCurrent
  /\ pc = "idle" /\ ~ interrupted =>
       NormalizedCurrent /\ ConflictsCurrent /\ ContextCurrent /\ ContextConflictsCurrent

\* A step that leaves the tables, the job and the place of the extraction.
LEMMA SameRepaired ==
  ASSUME Repaired,
         UNCHANGED <<normalized, evidence, conflicts, context, contextConflicts, pc, job, interrupted>>
  PROVE  Repaired'
BY DEF Repaired, NormalizedCurrent, ConflictsCurrent, ContextCurrent, ContextConflictsCurrent

\* Other commands leave values and conflict keys, or refresh the context.
LEMMA OthersRepaired ==
  ASSUME CommitsTyped, Repaired, OtherCommand
  PROVE  Repaired'
<1>1. UNCHANGED <<pc, job, interrupted>>
  BY OthersAreLifecycleSteps
<1>2. CASE ApplyJobCountry
  <2>1. UNCHANGED <<normalized, evidence, conflicts>>
    BY <1>2 DEF ApplyJobCountry, candidateVars, evidenceVars
  <2>2. ContextCurrent' /\ ContextConflictsCurrent'
    BY <1>2, <2>1, ContextRefreshed DEF ApplyJobCountry
  <2>3. QED
    BY <1>1, <2>1, <2>2 DEF Repaired, NormalizedCurrent, ConflictsCurrent
<1>3. ASSUME NEW c \in conflicts, NEW action \in ResolutionActions, Resolve(c, action)
      PROVE  Repaired'
  <2>1. UNCHANGED <<normalized, evidence, context, contextConflicts>>
    BY <1>3 DEF Resolve, contextVars
  <2>2. PICK v : conflicts' = (conflicts \ {c}) \cup
            {[c EXCEPT !.status = IF v = None THEN "unresolved" ELSE "resolved", !.value = v]}
    BY <1>3 DEF Resolve
  <2> DEFINE d == [c EXCEPT !.status = IF v = None THEN "unresolved" ELSE "resolved", !.value = v]
  <2>3. ConflictKey(d) = ConflictKey(c)
    BY DEF CommitsTyped, TypeOK, Conflict, ConflictKey
  <2>4. {ConflictKey(e) : e \in conflicts'} = {ConflictKey(e) : e \in conflicts}
    BY <2>2, <2>3
  <2>5. QED
    BY <1>1, <2>1, <2>4
       DEF Repaired, NormalizedCurrent, ConflictsCurrent, ContextCurrent, ContextConflictsCurrent
<1>4. CASE UNCHANGED <<normalized, evidence, conflicts, context, contextConflicts>>
  BY <1>1, <1>4, SameRepaired
<1>5. QED
  BY <1>2, <1>3, <1>4
     DEF OtherCommand, Fetch, LoseCache, Approve, Reject, ReturnToReview, Decide, Export,
         candidateVars, evidenceVars, contextVars

\* Each commit brings one part up to date and keeps what was brought up
\* to date before it.
LEMMA NextRepaired ==
  ASSUME CommitsTyped, Repaired, [CommitsNext]_commitVars
  PROVE  Repaired'
<1>1. CASE \E s \in Sources, attach \in BOOLEAN : Load(s, attach)
  BY <1>1 DEF Load, Repaired
<1>2. CASE SaveCandidate \/ LinkPrimary \/ LinkSource \/ ReplaceEvidence
  BY <1>2 DEF SaveCandidate, LinkPrimary, LinkSource, ReplaceEvidence, Repaired
<1>3. CASE SaveValues
  <2>1. job \in JobType /\ job.record \in RecordType
    BY <1>3 DEF SaveValues, CommitsTyped, JobType
  <2> DEFINE r == [job.record EXCEPT
                     !.normalized = Normalized(evidence, Primary),
                     !.warnings = @ \cup PageNotes[job.page]
                                    \cup ResolutionWarnings(evidence, Primary)]
  <2>2. r.normalized = Normalized(evidence, Primary)
    BY <2>1 DEF RecordType
  <2>3. WriteRow(r) /\ job' = [job EXCEPT !.record = r] /\ evidence' = evidence /\ pc' = "conflicts"
    BY <1>3 DEF SaveValues, evidenceVars
  <2> HIDE DEF r
  <2>4. job'.record = r
    BY <2>1, <2>3 DEF JobType
  <2>5. QED
    BY <2>2, <2>3, <2>4 DEF WriteRow, Repaired, NormalizedCurrent
<1>4. CASE StoreConflicts
  <2>1. /\ UNCHANGED <<evidence, normalized, job>> /\ pc = "conflicts" /\ pc' = "status"
        /\ conflicts' = ReplaceConflicts(conflicts, ConflictPairs(evidence', Primary))
    BY <1>4 DEF StoreConflicts, candidateVars
  <2>2. ConflictsCurrent'
    BY <2>1, ReplaceConflictsKeys DEF ConflictsCurrent
  <2>3. QED
    BY <2>1, <2>2 DEF Repaired, NormalizedCurrent
<1>5. CASE SaveStatus
  <2>1. job.record \in RecordType
    BY <1>5 DEF SaveStatus, CommitsTyped, JobType
  <2>2. /\ UNCHANGED <<evidence, conflicts, job>> /\ pc = "status" /\ pc' = "refresh"
        /\ normalized' = job.record.normalized \/ normalized' = normalized
    BY <1>5, <2>1 DEF SaveStatus, WriteRow, RecordType, evidenceVars
  <2>3. QED
    BY <2>2 DEF Repaired, NormalizedCurrent, ConflictsCurrent
<1>6. CASE RefreshContext
  <2>1. UNCHANGED <<normalized, evidence, conflicts>> /\ pc = "refresh" /\ pc' = "idle"
    BY <1>6 DEF RefreshContext, candidateVars, evidenceVars
  <2>2. ContextCurrent' /\ ContextConflictsCurrent'
    BY <1>6, <2>1, ContextRefreshed DEF RefreshContext, CommitsTyped, TypeOK
  <2>3. QED
    BY <2>1, <2>2 DEF Repaired, NormalizedCurrent, ConflictsCurrent
<1>7. CASE OtherCommand
  BY <1>7, OthersRepaired
<1>8. CASE Crash
  BY <1>8 DEF Crash, Repaired
<1>9. CASE UNCHANGED commitVars
  BY <1>9, SameRepaired
     DEF commitVars, vars, candidateVars, evidenceVars, contextVars, processVars, auxVars
<1>10. QED
  BY <1>1, <1>2, <1>3, <1>4, <1>5, <1>6, <1>7, <1>8, <1>9 DEF CommitsNext, Extraction

\* The inductive invariant of the repair.
THEOREM RepairedInvariance == CommitsSpec => []Repaired
<1>1. CommitsInit => Repaired
  <2> SUFFICES ASSUME CommitsInit PROVE Repaired
    OBVIOUS
  <2>1. pc = "idle" /\ Init
    BY DEF CommitsInit
  <2>2. NormalizedCurrent /\ ConflictsCurrent
    BY <2>1, InitIInv DEF IInv
  <2>3. QED
    BY <2>1, <2>2, InitSources DEF SourceInv, Repaired
<1>2. CommitsTyped /\ Repaired /\ [CommitsNext]_commitVars => Repaired'
  BY NextRepaired
<1>3. QED
  BY <1>1, <1>2, CommitsTypesInvariant, PTL DEF CommitsSpec

\* However often extractions were cut short and whatever ran meanwhile, the next
\* one that ends leaves values, conflicts and context as the evidence says.
THEOREM NextExtractionRepairs == CommitsSpec => []RerunRepairs
<1>1. CommitsTyped /\ Repaired => RerunRepairs
  <2> SUFFICES ASSUME CommitsTyped, Repaired, pc = "idle", ~ interrupted
               PROVE  /\ ConflictsCurrent /\ NormalizedFollowsEvidence /\ ContextCurrent
                      /\ context # "none" => contextConflicts = Contradictions(evidence)
    BY DEF RerunRepairs
  <2>1. NormalizedCurrent /\ ConflictsCurrent /\ ContextCurrent /\ ContextConflictsCurrent
    BY DEF Repaired
  <2>2. NormalizedFollowsEvidence
    BY <2>1, CurrentValuesFollow DEF CommitsTyped
  <2>3. QED
    BY <2>1, <2>2 DEF ContextConflictsCurrent
<1>2. QED
  BY <1>1, CommitsTypesInvariant, RepairedInvariance, PTL

\* Whenever no extraction is under way, what is derived from the evidence is
\* what the evidence says.
CurrentAtRest ==
  pc = "idle" =>
    /\ ConflictsCurrent /\ NormalizedFollowsEvidence
    /\ ContextCurrent /\ ContextConflictsCurrent

\* Other commands running between the commits do no harm to the derived tables:
\* only an interruption leaves them behind the evidence.
THEOREM UninterruptedCurrent ==
  ASSUME ~ MayCrash
  PROVE  CommitsSpec => []CurrentAtRest
<1>1. CommitsInit => ~ interrupted
  BY DEF CommitsInit
<1>2. ~ interrupted /\ [CommitsNext]_commitVars => ~ interrupted'
  BY DEF CommitsNext, Extraction, Load, SaveCandidate, LinkPrimary, LinkSource, ReplaceEvidence,
         SaveValues, StoreConflicts, SaveStatus, RefreshContext, OtherCommand, Crash, auxVars,
         commitVars
<1>3. CommitsTyped /\ Repaired /\ ~ interrupted => CurrentAtRest
  BY CurrentValuesFollow DEF CommitsTyped, Repaired, CurrentAtRest
<1>4. QED
  BY <1>1, <1>2, <1>3, CommitsTypesInvariant, RepairedInvariance, PTL DEF CommitsSpec

(***************************************************************************)
(* The conflict table under interleaving                                   *)
(***************************************************************************)

\* One record per contested field, whatever runs between the commits: what
\* resolve and the report look up by field is never ambiguous.
OneConflictPerField == \A c, d \in conflicts : c.field = d.field => c = d

\* Every stored conflict is between two stored rows that state its field, as
\* firmly and differently; a settled one has the value of either of them, or
\* is a blank of an optional field.
ConflictsAreDisputes ==
  /\ \A c \in conflicts :
       /\ {c.first, c.second} \subseteq evidence
       /\ c.first.field = c.field /\ c.second.field = c.field
       /\ c.first.conf = c.second.conf /\ c.first.val # c.second.val
  /\ \A c \in conflicts \ Open(conflicts) :
       \/ c.value \in {c.first.val, c.second.val}
       \/ c.value = Blank /\ c.field \notin ApprovalCoreFields

\* What resolve makes of a conflict: the same pair of the same field, settled
\* by one of its values or reopened.
LEMMA ResolvedRecord ==
  ASSUME TypeOK, NEW c \in conflicts, NEW action \in ResolutionActions, Resolve(c, action)
  PROVE  \E d : /\ conflicts' = (conflicts \ {c}) \cup {d}
                /\ d.field = c.field /\ d.first = c.first /\ d.second = c.second
                /\ \/ d.status = "unresolved"
                   \/ d.value \in {c.first.val, c.second.val}
                   \/ d.value = Blank /\ c.field \notin ApprovalCoreFields
<1>1. PICK v \in Selectable(c, action) :
        conflicts' = (conflicts \ {c}) \cup
          {[c EXCEPT !.status = IF v = None THEN "unresolved" ELSE "resolved", !.value = v]}
  BY DEF Resolve
<1> DEFINE d == [c EXCEPT !.status = IF v = None THEN "unresolved" ELSE "resolved", !.value = v]
<1>2. /\ d.field = c.field /\ d.first = c.first /\ d.second = c.second /\ d.value = v
      /\ d.status = IF v = None THEN "unresolved" ELSE "resolved"
  BY DEF TypeOK, Conflict
<1>3. v # None => v \in {c.first.val, c.second.val} \/ (v = Blank /\ c.field \notin ApprovalCoreFields)
  BY DEF Selectable, ResolutionActions
<1> HIDE DEF d
<1>4. conflicts' = (conflicts \ {c}) \cup {d}
  BY <1>1 DEF d
<1>5. QED
  BY <1>2, <1>3, <1>4

\* Conflicts enter one per field, and a resolution replaces one by another of
\* the same field.
LEMMA NextOnePerField ==
  ASSUME CommitsTyped, OneConflictPerField, [CommitsNext]_commitVars
  PROVE  OneConflictPerField'
<1>1. CASE ReplaceEvidence
  BY <1>1 DEF ReplaceEvidence, DropConflictsOf, OneConflictPerField
<1>2. CASE StoreConflicts
  <2> DEFINE new == ConflictPairs(evidence, Primary)
  <2>1. conflicts' = ReplaceConflicts(conflicts, new)
    BY <1>2 DEF StoreConflicts
  <2>2. \A c, d \in new : c.field = d.field => c = d
    BY ConflictPairsUnique
  <2>3. \A c, d \in conflicts : ConflictKey(c) = ConflictKey(d) => c = d
    BY DEF ConflictKey, OneConflictPerField
  <2> HIDE DEF new
  <2>4. \A c, d \in ReplaceConflicts(conflicts, new) : c.field = d.field => c = d
    BY <2>2, <2>3, ReplaceConflictsUnique
  <2>5. QED
    BY <2>1, <2>4 DEF OneConflictPerField
<1>3. ASSUME NEW c \in conflicts, NEW action \in ResolutionActions, Resolve(c, action)
      PROVE  OneConflictPerField'
  <2>1. PICK d : conflicts' = (conflicts \ {c}) \cup {d} /\ d.field = c.field
    BY <1>3, ResolvedRecord DEF CommitsTyped
  <2>2. QED
    BY <2>1 DEF OneConflictPerField
<1>4. CASE conflicts' = conflicts
  BY <1>4 DEF OneConflictPerField
<1>5. QED
  BY <1>1, <1>2, <1>3, <1>4, TableSteps DEF RefreshContext, ApplyJobCountry, evidenceVars

\* Wherever extractions are cut short and whatever runs between their commits,
\* no field is ever in conflict twice (replace_conflicts, resolve).
THEOREM OneConflictEach == CommitsSpec => []OneConflictPerField
<1>1. CommitsInit => OneConflictPerField
  BY DEF CommitsInit, Init, OneConflictPerField
<1>2. CommitsTyped /\ OneConflictPerField /\ [CommitsNext]_commitVars => OneConflictPerField'
  BY NextOnePerField
<1>3. QED
  BY <1>1, <1>2, CommitsTypesInvariant, PTL DEF CommitsSpec

\* Evidence goes with its conflicts, and what is stored or settled is what
\* the rows say.
LEMMA NextDisputes ==
  ASSUME CommitsTyped, ConflictsAreDisputes, [CommitsNext]_commitVars
  PROVE  ConflictsAreDisputes'
<1>1. CASE ReplaceEvidence
  <2> DEFINE gone == Obsolete(evidence, job.source, Content[job.page])
  <2>1. evidence \ gone \subseteq evidence' /\ conflicts' = DropConflictsOf(conflicts, gone)
    BY <1>1 DEF ReplaceEvidence, ReplaceForSource
  <2> HIDE DEF gone
  <2>2. \A c \in conflicts' : c \in conflicts /\ {c.first, c.second} \subseteq evidence'
    BY <2>1 DEF DropConflictsOf, ConflictsAreDisputes
  <2>3. QED
    BY <2>2 DEF ConflictsAreDisputes, Open
<1>2. CASE StoreConflicts
  <2> DEFINE new == ConflictPairs(evidence, Primary)
  <2>1. \A c \in new : /\ {c.first, c.second} \subseteq evidence /\ c.status = "unresolved"
                       /\ c.first.field = c.field /\ c.second.field = c.field
                       /\ c.first.conf = c.second.conf /\ c.first.val # c.second.val
    BY ConflictPairsRows, ConflictPairsDispute DEF CommitsTyped, TypeOK
  <2>2. conflicts' = ReplaceConflicts(conflicts, new) /\ evidence' = evidence
    BY <1>2 DEF StoreConflicts
  <2> HIDE DEF new
  <2>3. \A c \in conflicts' : c \in conflicts \/ c \in new
    BY <2>2 DEF ReplaceConflicts
  <2>4. QED
    BY <2>1, <2>2, <2>3 DEF ConflictsAreDisputes, Open
<1>3. ASSUME NEW c \in conflicts, NEW action \in ResolutionActions, Resolve(c, action)
      PROVE  ConflictsAreDisputes'
  <2>1. PICK d : /\ conflicts' = (conflicts \ {c}) \cup {d}
                 /\ d.field = c.field /\ d.first = c.first /\ d.second = c.second
                 /\ \/ d.status = "unresolved"
                    \/ d.value \in {c.first.val, c.second.val}
                    \/ d.value = Blank /\ c.field \notin ApprovalCoreFields
    BY <1>3, ResolvedRecord DEF CommitsTyped
  <2>2. evidence' = evidence
    BY <1>3 DEF Resolve
  <2>3. QED
    BY <2>1, <2>2 DEF ConflictsAreDisputes, Open
<1>4. CASE UNCHANGED <<conflicts, evidence>>
  BY <1>4 DEF ConflictsAreDisputes, Open
<1>5. QED
  BY <1>1, <1>2, <1>3, <1>4, TableSteps DEF RefreshContext, ApplyJobCountry, evidenceVars

\* A conflict shown to a reviewer always is a real one of the stored evidence,
\* and a settled one was settled by what its rows say, at every commit.
THEOREM StoredConflictsAreReal == CommitsSpec => []ConflictsAreDisputes
<1>1. CommitsInit => ConflictsAreDisputes
  BY DEF CommitsInit, Init, ConflictsAreDisputes
<1>2. CommitsTyped /\ ConflictsAreDisputes /\ [CommitsNext]_commitVars => ConflictsAreDisputes'
  BY NextDisputes
<1>3. QED
  BY <1>1, <1>2, CommitsTypesInvariant, PTL DEF CommitsSpec

\* Also between the commits of an extraction, and after one was cut short, only
\* a reviewer resolves: no other step leaves a conflict resolved that was not
\* resolved before with the same rows and value.
THEOREM OnlyReviewersResolveMeanwhile == CommitsSpec => NoAutomaticResolution
<1>1. CommitsTyped /\ [CommitsNext]_commitVars =>
        [resolutions' = resolutions => conflicts' \ Open(conflicts') \subseteq conflicts]_vars
  <2> SUFFICES ASSUME CommitsTyped, [CommitsNext]_commitVars, resolutions' = resolutions
               PROVE  conflicts' \ Open(conflicts') \subseteq conflicts
    OBVIOUS
  <2>1. CASE ReplaceEvidence
    BY <2>1 DEF ReplaceEvidence, DropConflictsOf
  <2>2. CASE StoreConflicts
    <3> DEFINE new == ConflictPairs(evidence, Primary)
    <3>1. conflicts' = ReplaceConflicts(conflicts, new)
      BY <2>2 DEF StoreConflicts
    <3>2. \A c \in new : c.status = "unresolved"
      BY DEF ConflictPairs, NewConflict
    <3> HIDE DEF new
    <3>3. \A c \in ReplaceConflicts(conflicts, new) : c.status # "unresolved" => c \in conflicts
      BY <3>2, ReplaceConflictsResolved
    <3>4. QED
      BY <3>1, <3>3 DEF Open
  <2>3. ASSUME NEW c \in conflicts, NEW action \in ResolutionActions, Resolve(c, action)
        PROVE  FALSE
    <3>1. PICK v \in Selectable(c, action) : resolutions' =
            Append(resolutions, [field |-> c.field, action |-> action, selected |-> v])
      BY <2>3 DEF Resolve
    <3>2. Len(resolutions) \in Nat /\ Len(resolutions') = Len(resolutions) + 1
      BY <3>1, ResolutionAppended DEF CommitsTyped
    <3>3. QED
      BY <3>2
  <2>4. CASE conflicts' = conflicts
    BY <2>4
  <2>5. QED
    BY <2>1, <2>2, <2>3, <2>4, TableSteps DEF RefreshContext, ApplyJobCountry, evidenceVars
<1>2. QED
  BY <1>1, CommitsTypesInvariant, PTL DEF CommitsSpec, NoAutomaticResolution

(***************************************************************************)
(* The candidate row under interleaving: each save writes back the record  *)
(* the extraction read at its start                                        *)
(***************************************************************************)

\* Overrides that are all in one of the audit tables.
Audited(ov) ==
  \A f \in Fields : ov[f] # None =>
    \/ \E i \in 1..Len(reviews) : reviews[i].overrides[f] = ov[f]
    \/ \E i \in 1..Len(resolutions) : resolutions[i].field = f /\ resolutions[i].selected = ov[f]

\* A status and date that an approving review has given together.
ApprovedBy(st, date) ==
  st \in {"approved", "exported"} =>
    date \in 1..Len(reviews) /\ reviews[date].decision = "approve"

\* However rows are saved over each other, a candidate is approved or exported
\* only with the date of a review that approved it.
ApprovalHadItsReview == ApprovedBy(status, approvedAt)

\* The row and the record an extraction holds say what humans once said.
RowInv ==
  /\ Audited(overrides) /\ ApprovedBy(status, approvedAt)
  /\ pc # "idle" => Audited(job.record.overrides)
                    /\ ApprovedBy(job.record.status, job.record.approvedAt)

\* The histories only grow.
LEMMA HistoriesGrow ==
  ASSUME TypeOK, [Next]_vars
  PROVE  /\ Len(reviews) \in Nat /\ Len(reviews') \in Nat /\ Len(reviews) <= Len(reviews')
         /\ \A i \in 1..Len(reviews) : reviews'[i] = reviews[i]
         /\ Len(resolutions) \in Nat /\ Len(resolutions') \in Nat
         /\ Len(resolutions) <= Len(resolutions')
         /\ \A i \in 1..Len(resolutions) : resolutions'[i] = resolutions[i]
<1>0. Len(reviews) \in Nat /\ Len(resolutions) \in Nat
  BY LenProperties DEF TypeOK
<1>1. CASE UNCHANGED <<reviews, resolutions>>
  BY <1>0, <1>1
<1>2. ASSUME NEW c \in conflicts, NEW action \in ResolutionActions, Resolve(c, action)
      PROVE  /\ Len(resolutions') = Len(resolutions) + 1 /\ reviews' = reviews
             /\ \A i \in 1..Len(resolutions) : resolutions'[i] = resolutions[i]
  <2>1. PICK v \in Selectable(c, action) : resolutions' =
          Append(resolutions, [field |-> c.field, action |-> action, selected |-> v])
    BY <1>2 DEF Resolve
  <2>2. QED
    BY <1>2, <2>1, ResolutionAppended DEF Resolve
<1>3. ASSUME NEW given \in OverrideChoices, NEW ack \in BOOLEAN,
             Approve(given, ack) \/ Reject(given) \/ ReturnToReview(given)
      PROVE  /\ Len(reviews') = Len(reviews) + 1 /\ resolutions' = resolutions
             /\ \A i \in 1..Len(reviews) : reviews'[i] = reviews[i]
  <2>1. PICK decision \in Decisions, resulting \in Statuses : Decide(decision, resulting, given)
    BY <1>3 DEF Approve, Reject, ReturnToReview, Decisions, Statuses
  <2>2. QED
    BY <2>1, ReviewRecorded DEF Decide
<1>4. CASE \E c \in conflicts, action \in ResolutionActions : Resolve(c, action)
  BY <1>0, <1>2, <1>4
<1>5. CASE \E given \in OverrideChoices, ack \in BOOLEAN :
             Approve(given, ack) \/ Reject(given) \/ ReturnToReview(given)
  BY <1>0, <1>3, <1>5
<1>6. QED
  BY <1>1, <1>4, <1>5
     DEF Next, Fetch, LoseCache, Extract, ApplyJobCountry, Export, vars, auditVars

\* What was audited, and what was approved, stays so while the histories grow.
LEMMA HistoriesKeep ==
  ASSUME TypeOK, [Next]_vars, NEW ov, NEW st, NEW date
  PROVE  /\ Audited(ov) =>
              \A f \in Fields : ov[f] # None =>
                \/ \E i \in 1..Len(reviews') : reviews'[i].overrides[f] = ov[f]
                \/ \E i \in 1..Len(resolutions') :
                     resolutions'[i].field = f /\ resolutions'[i].selected = ov[f]
         /\ ApprovedBy(st, date) =>
              (st \in {"approved", "exported"} =>
                 date \in 1..Len(reviews') /\ reviews'[date].decision = "approve")
<1>1. /\ \A i \in 1..Len(reviews) : i \in 1..Len(reviews') /\ reviews'[i] = reviews[i]
      /\ \A i \in 1..Len(resolutions) : i \in 1..Len(resolutions') /\ resolutions'[i] = resolutions[i]
  BY HistoriesGrow
<1>2. QED
  BY <1>1 DEF Audited, ApprovedBy

\* A review dates the approval it gives; nothing else approves.
LEMMA NextReviewed ==
  ASSUME TypeOK, ApprovalHadItsReview, Next,
         \A s \in Sources, attach \in BOOLEAN : ~ Extract(s, attach)
  PROVE  ApprovalHadItsReview'
<1>1. ASSUME NEW given \in OverrideChoices, NEW ack \in BOOLEAN, Approve(given, ack)
      PROVE  ApprovalHadItsReview'
  <2>1. Decide("approve", "approved", given)
    BY <1>1 DEF Approve
  <2>2. /\ Len(reviews') = Len(reviews) + 1
        /\ reviews'[Len(reviews) + 1].decision = "approve"
    BY <2>1, ReviewAppended DEF Decisions, Statuses
  <2>3. approvedAt' = Len(reviews) + 1 /\ Len(reviews) \in Nat
    BY <2>1, LenProperties DEF Decide, TypeOK
  <2>4. QED
    BY <2>2, <2>3 DEF ApprovalHadItsReview, ApprovedBy
<1>2. CASE status' \notin {"approved", "exported"}
  BY <1>2 DEF ApprovalHadItsReview, ApprovedBy
<1>3. CASE approvedAt' = approvedAt /\ reviews' = reviews
           /\ (status' \in {"approved", "exported"} => status \in {"approved", "exported"})
  BY <1>3 DEF ApprovalHadItsReview, ApprovedBy
<1>4. QED
  BY <1>1, <1>2, <1>3
     DEF Next, Fetch, LoseCache, ApplyJobCountry, Resolve, Reject, ReturnToReview, Decide,
         Export, ExportAllowed, candidateVars, auditVars

\* Of the other commands only an approving review approves, and then it is the
\* last review.
LEMMA OthersDecideLast ==
  ASSUME TypeOK, ApprovalIsHuman, OtherCommand
  PROVE  ApprovalIsHuman'
<1>1. ASSUME NEW given \in OverrideChoices, NEW ack \in BOOLEAN, Approve(given, ack)
      PROVE  ApprovalIsHuman'
  <2>1. Decide("approve", "approved", given)
    BY <1>1 DEF Approve
  <2>2. /\ Len(reviews') = Len(reviews) + 1
        /\ reviews'[Len(reviews) + 1].decision = "approve"
    BY <2>1, ReviewAppended DEF Decisions, Statuses
  <2>3. approvedAt' = Len(reviews) + 1 /\ Len(reviews) \in Nat
    BY <2>1, LenProperties DEF Decide, TypeOK
  <2>4. QED
    BY <2>2, <2>3 DEF ApprovalIsHuman
<1>2. CASE status' \notin {"approved", "exported"}
  BY <1>2 DEF ApprovalIsHuman
<1>3. CASE approvedAt' = approvedAt /\ reviews' = reviews
           /\ (status' \in {"approved", "exported"} => status \in {"approved", "exported"})
  BY <1>3 DEF ApprovalIsHuman
<1>4. QED
  BY <1>1, <1>2, <1>3
     DEF OtherCommand, Fetch, LoseCache, ApplyJobCountry, Resolve, Reject, ReturnToReview,
         Decide, Export, ExportAllowed, candidateVars, auditVars

\* Every commit writes what was said, and every command says it with a record.
LEMMA NextRow ==
  ASSUME CommitsTyped, RowInv, [CommitsNext]_commitVars
  PROVE  RowInv'
<1>1. CASE \E s \in Sources, attach \in BOOLEAN : Load(s, attach)
  <2>1. /\ UNCHANGED <<status, overrides, approvedAt, reviews, resolutions>>
        /\ job'.record = Record
    BY <1>1 DEF Load, candidateVars, auditVars
  <2>2. /\ Record.overrides = overrides /\ Record.approvedAt = approvedAt
        /\ Record.status \in {"approved", "exported"} => Record.status = status
    BY DEF Record
  <2>3. QED
    BY <2>1, <2>2 DEF RowInv, Audited, ApprovedBy
<1>2. CASE SaveCandidate \/ SaveValues \/ SaveStatus
  <2>1. /\ pc # "idle" /\ job \in JobType /\ job.record \in RecordType
        /\ UNCHANGED <<reviews, resolutions>>
    BY <1>2 DEF SaveCandidate, SaveValues, SaveStatus, CommitsTyped, JobType, auditVars
  <2>2. /\ job'.record.overrides = job.record.overrides
        /\ job'.record.status = job.record.status
        /\ job'.record.approvedAt = job.record.approvedAt
    <3>1. CASE SaveValues
      <4>1. PICK n, w : job' = [job EXCEPT !.record =
                          [job.record EXCEPT !.normalized = n, !.warnings = w]]
        BY <3>1 DEF SaveValues
      <4> DEFINE r == [job.record EXCEPT !.normalized = n, !.warnings = w]
      <4>2. r.overrides = job.record.overrides /\ r.status = job.record.status
            /\ r.approvedAt = job.record.approvedAt
        BY <2>1 DEF RecordType
      <4> HIDE DEF r
      <4>3. job'.record = r
        BY <2>1, <4>1 DEF JobType, r
      <4>4. QED
        BY <4>2, <4>3
    <3>2. CASE SaveCandidate \/ SaveStatus
      BY <3>2 DEF SaveCandidate, SaveStatus
    <3>3. QED
      BY <1>2, <3>1, <3>2
  <2>3. /\ overrides' \in {overrides, job.record.overrides}
        /\ \/ status' \notin {"approved", "exported"}
           \/ status' = job.record.status /\ approvedAt' = job.record.approvedAt
           \/ status' = status /\ approvedAt' = approvedAt
    <3>1. CASE SaveCandidate
      BY <3>1 DEF SaveCandidate, WriteRow
    <3>2. CASE SaveValues
      BY <2>1, <3>2 DEF SaveValues, WriteRow, RecordType
    <3>3. CASE SaveStatus
      BY <2>1, <3>3, AutomaticStatusType DEF SaveStatus, WriteRow, RecordType
    <3>4. QED
      BY <1>2, <3>1, <3>2, <3>3
  <2>4. QED
    BY <2>1, <2>2, <2>3 DEF RowInv, Audited, ApprovedBy
<1>3. CASE LinkPrimary \/ LinkSource \/ ReplaceEvidence \/ StoreConflicts
  <2>1. pc # "idle" /\ UNCHANGED <<status, overrides, approvedAt, reviews, resolutions, job>>
    BY <1>3 DEF LinkPrimary, LinkSource, ReplaceEvidence, StoreConflicts, candidateVars, auditVars
  <2>2. QED
    BY <2>1 DEF RowInv, Audited, ApprovedBy
<1>4. CASE RefreshContext \/ Crash
  <2>1. pc' = "idle" /\ UNCHANGED <<status, overrides, approvedAt, reviews, resolutions>>
    BY <1>4 DEF RefreshContext, Crash, vars, candidateVars, auditVars
  <2>2. QED
    BY <2>1 DEF RowInv, Audited, ApprovedBy
<1>5. CASE OtherCommand
  <2>1. Next /\ UNCHANGED <<pc, job>> /\ TypeOK
    BY <1>5, OthersAreLifecycleSteps DEF CommitsTyped
  <2>2. OverridesAudited'
    BY <2>1, NextAudited DEF RowInv, Audited, OverridesAudited
  <2>3. ApprovalHadItsReview'
    <3>1. extractions' = extractions
      BY <1>5 DEF OtherCommand, Fetch, LoseCache, ApplyJobCountry, Resolve, Approve, Reject,
                  ReturnToReview, Decide, Export
    <3>2. \A s \in Sources, attach \in BOOLEAN : ~ Extract(s, attach)
      BY <2>1, <3>1 DEF Extract, TypeOK
    <3>3. QED
      BY <2>1, <3>2, NextReviewed DEF RowInv, ApprovalHadItsReview
  <2>4. pc # "idle" => /\ Audited(job.record.overrides)'
                       /\ ApprovedBy(job.record.status, job.record.approvedAt)'
    <3>1. PICK r : r = job.record
      OBVIOUS
    <3>2. pc # "idle" => Audited(r.overrides) /\ ApprovedBy(r.status, r.approvedAt)
      BY <3>1 DEF RowInv
    <3>3. [Next]_vars
      BY <2>1
    <3>4. /\ Audited(r.overrides) => Audited(r.overrides)'
          /\ ApprovedBy(r.status, r.approvedAt) => ApprovedBy(r.status, r.approvedAt)'
      BY <2>1, <3>3, HistoriesKeep DEF Audited, ApprovedBy
    <3>5. job'.record = r
      BY <2>1, <3>1
    <3>6. QED
      BY <3>2, <3>4, <3>5 DEF Audited, ApprovedBy
  <2>5. QED
    BY <2>1, <2>2, <2>3, <2>4 DEF RowInv, Audited, OverridesAudited, ApprovalHadItsReview
<1>6. CASE UNCHANGED commitVars
  BY <1>6 DEF commitVars, vars, processVars, candidateVars, auditVars, RowInv, Audited, ApprovedBy
<1>7. QED
  BY <1>1, <1>2, <1>3, <1>4, <1>5, <1>6 DEF CommitsNext, Extraction

\* What is saved over a newer review or resolution is an older one, never
\* something no reviewer said.
THEOREM RowsSayWhatHumansSaid == CommitsSpec => []RowInv
<1>1. CommitsInit => RowInv
  BY DEF CommitsInit, Init, NoValues, RowInv, Audited, ApprovedBy
<1>2. CommitsTyped /\ RowInv /\ [CommitsNext]_commitVars => RowInv'
  BY NextRow
<1>3. QED
  BY <1>1, <1>2, CommitsTypesInvariant, PTL DEF CommitsSpec

\* Every override in force is in the audit tables, at every commit and after
\* any crash, even when the row was saved from an old record.
THEOREM OverridesStayAudited == CommitsSpec => []OverridesAudited
<1>1. RowInv => OverridesAudited
  BY DEF RowInv, Audited, OverridesAudited
<1>2. QED
  BY <1>1, RowsSayWhatHumansSaid, PTL

\* No interleaving approves a candidate that was never approved: an approval
\* that comes back with an old record is one some review gave.
THEOREM ApprovalsHadTheirReview == CommitsSpec => []ApprovalHadItsReview
<1>1. RowInv => ApprovalHadItsReview
  BY DEF RowInv, ApprovalHadItsReview
<1>2. QED
  BY <1>1, RowsSayWhatHumansSaid, PTL

-----------------------------------------------------------------------------

\* Evidence is never there without the candidate's own page linked as primary,
\* and no other page is, wherever extractions of several sources are cut short.
PrimaryLinkedFirst ==
  /\ \A s \in Sources : roles[s] = "primary" => s = Primary
  /\ evidence # {} => roles[Primary] = "primary"

\* The same with what the running extraction is about to link.
PrimaryInv ==
  /\ PrimaryLinkedFirst
  /\ pc # "idle" /\ job.role = "primary" => job.source = Primary
  /\ pc \in {"attach", "replace"} => roles[Primary] = "primary"

\* Linking gives the primary role only to the source it is given for, and
\* takes it from none.
LEMMA LinkedRoles ==
  ASSUME NEW rs \in [Sources -> {"none", "primary", "supporting"}], NEW s \in Sources,
         NEW role \in {"primary", "supporting"}
  PROVE  /\ \A q \in Sources : AttachSource(rs, s, role)[q] = "primary"
              <=> rs[q] = "primary" \/ (q = s /\ role = "primary")
BY DEF AttachSource

\* The primary source is linked in the commit before the first evidence.
LEMMA NextPrimary ==
  ASSUME CommitsTyped, PrimaryInv, [CommitsNext]_commitVars
  PROVE  PrimaryInv'
<1>0. Primary \in Sources
  BY LifecycleConstants
<1>1. CASE \E s \in Sources, attach \in BOOLEAN : Load(s, attach)
  <2>1. PICK s \in Sources, attach \in BOOLEAN : Load(s, attach)
    BY <1>1
  <2>2. /\ UNCHANGED <<roles, evidence>> /\ pc' = "save"
        /\ job'.source = s /\ job'.role = IF attach THEN "supporting" ELSE "primary"
        /\ ~ attach => s = Primary
    BY <2>1 DEF Load, candidateVars, evidenceVars
  <2>3. QED
    BY <2>2 DEF PrimaryInv, PrimaryLinkedFirst
<1>2. CASE LinkPrimary
  <2>1. /\ \A q \in Sources : roles'[q] = "primary" <=> roles[q] = "primary" \/ q = Primary
        /\ UNCHANGED <<evidence, job>> /\ pc = "primary" /\ pc' = "attach"
    BY <1>0, <1>2, LinkedRoles DEF LinkPrimary, CommitsTyped, TypeOK, evidenceVars
  <2>2. QED
    BY <1>0, <2>1 DEF PrimaryInv, PrimaryLinkedFirst
<1>3. CASE LinkSource
  <2>1. job.source \in Sources /\ job.role \in {"primary", "supporting"}
    BY <1>3 DEF LinkSource, CommitsTyped, JobType
  <2>2. /\ \A q \in Sources : roles'[q] = "primary"
             <=> roles[q] = "primary" \/ (q = job.source /\ job.role = "primary")
        /\ UNCHANGED <<evidence, job>> /\ pc = "attach" /\ pc' = "replace"
    <3>1. roles \in [Sources -> {"none", "primary", "supporting"}]
      BY DEF CommitsTyped, TypeOK
    <3>2. \A q \in Sources : AttachSource(roles, job.source, job.role)[q] = "primary"
            <=> roles[q] = "primary" \/ (q = job.source /\ job.role = "primary")
      BY <2>1, <3>1, LinkedRoles
    <3>3. QED
      BY <1>3, <3>2 DEF LinkSource, evidenceVars
  <2>3. /\ \A q \in Sources : roles[q] = "primary" => q = Primary
        /\ roles[Primary] = "primary"
        /\ job.role = "primary" => job.source = Primary
    BY <2>2 DEF PrimaryInv, PrimaryLinkedFirst
  <2>4. \A q \in Sources : roles'[q] = "primary" <=> q = Primary
    BY <1>0, <2>2, <2>3
  <2>5. QED
    BY <1>0, <2>2, <2>3, <2>4 DEF PrimaryInv, PrimaryLinkedFirst
<1>4. CASE ReplaceEvidence
  BY <1>4 DEF ReplaceEvidence, candidateVars, PrimaryInv, PrimaryLinkedFirst
<1>5. CASE SaveValues
  <2>1. job'.source = job.source /\ job'.role = job.role
    BY <1>5 DEF SaveValues, CommitsTyped, JobType
  <2>2. UNCHANGED <<roles, evidence>> /\ pc = "values" /\ pc' = "conflicts"
    BY <1>5 DEF SaveValues, evidenceVars
  <2>3. QED
    BY <2>1, <2>2 DEF PrimaryInv, PrimaryLinkedFirst
<1>6. CASE /\ UNCHANGED <<roles, evidence>>
           /\ \/ pc' = "idle"
              \/ UNCHANGED <<pc, job>>
              \/ job' = job /\ pc # "idle" /\ pc' \notin {"attach", "replace"}
  BY <1>6 DEF PrimaryInv, PrimaryLinkedFirst
<1>7. CASE SaveCandidate \/ StoreConflicts \/ SaveStatus
  BY <1>6, <1>7 DEF SaveCandidate, StoreConflicts, SaveStatus, candidateVars, evidenceVars
<1>8. CASE RefreshContext \/ Crash
  BY <1>6, <1>8 DEF RefreshContext, Crash, vars, candidateVars, evidenceVars
<1>9. CASE OtherCommand
  <2>1. UNCHANGED <<pc, job>>
    BY <1>9, OthersAreLifecycleSteps
  <2>2. UNCHANGED <<roles, evidence>>
    BY <1>9 DEF OtherCommand, Fetch, LoseCache, ApplyJobCountry, Resolve, Approve, Reject,
                ReturnToReview, Decide, Export, candidateVars, evidenceVars
  <2>3. QED
    BY <1>6, <2>1, <2>2
<1>10. CASE UNCHANGED commitVars
  BY <1>6, <1>10 DEF commitVars, vars, processVars, candidateVars, evidenceVars
<1>11. QED
  BY <1>1, <1>2, <1>3, <1>4, <1>5, <1>7, <1>8, <1>9, <1>10 DEF CommitsNext, Extraction

\* Whatever commit a crash follows, what was extracted belongs to a candidate
\* whose own page is its one primary source (save, attach_source).
THEOREM EvidenceHasItsPrimary == CommitsSpec => []PrimaryLinkedFirst
<1>1. CommitsInit => PrimaryInv
  BY DEF CommitsInit, Init, PrimaryInv, PrimaryLinkedFirst
<1>2. CommitsTyped /\ PrimaryInv /\ [CommitsNext]_commitVars => PrimaryInv'
  BY NextPrimary
<1>3. PrimaryInv => PrimaryLinkedFirst
  BY DEF PrimaryInv
<1>4. QED
  BY <1>1, <1>2, <1>3, CommitsTypesInvariant, PTL DEF CommitsSpec

(***************************************************************************)
(* The rows of a source are one page's                                     *)
(***************************************************************************)

\* What source s says when it returns page p.
SaidBy(s, p) == {<<s, x.field, x.val, x.conf>> : x \in Content[p]}

\* The evidence of a source is all of one of its pages or nothing, never part
\* of a page and never what two versions of it said: replace_for_source runs
\* in one transaction, on a page read before the extraction's first write.
RowsOfOnePage ==
  \A s \in Sources :
    \/ {e \in evidence : e.src = s} = {}
    \/ \E p \in PagesOf[s] : Stated({e \in evidence : e.src = s}) = SaidBy(s, p)

\* A page in the cache, or in the memory of the extraction, is its source's.
PagesAreTheSources ==
  /\ \A s \in Sources : stored[s] # None => stored[s] \in PagesOf[s]
  /\ pc # "idle" => job.source \in Sources /\ job.page \in PagesOf[job.source]

\* Only fetching writes the cache, only the guards of extract_source read it.
LEMMA NextPages ==
  ASSUME CommitsTyped, PagesAreTheSources, [CommitsNext]_commitVars
  PROVE  PagesAreTheSources'
<1>1. CASE \E s \in Sources, attach \in BOOLEAN : Load(s, attach)
  <2>1. PICK s \in Sources, attach \in BOOLEAN : Load(s, attach)
    BY <1>1
  <2>2. stored[s] \in PagesOf[s] /\ stored' = stored
    BY <2>1 DEF Load, PagesAreTheSources
  <2>3. job'.source = s /\ job'.page = stored[s]
    BY <2>1 DEF Load
  <2>4. QED
    BY <2>2, <2>3 DEF PagesAreTheSources
<1>2. CASE SaveValues
  <2>1. job \in JobType
    BY <1>2 DEF CommitsTyped, SaveValues
  <2>2. job'.source = job.source /\ job'.page = job.page
    BY <1>2, <2>1 DEF SaveValues, JobType
  <2>3. pc # "idle" /\ stored' = stored
    BY <1>2 DEF SaveValues
  <2>4. QED
    BY <2>2, <2>3 DEF PagesAreTheSources
<1>3. CASE OtherCommand
  <2>1. UNCHANGED <<pc, job>>
    BY <1>3 DEF OtherCommand, processVars
  <2>2. CASE \E s \in Sources : Fetch(s) \/ LoseCache(s)
    <3>1. PICK s \in Sources :
            \E p : stored' = [stored EXCEPT ![s] = p] /\ (p = None \/ p \in PagesOf[s])
      BY <2>2 DEF Fetch, LoseCache
    <3>2. stored \in [Sources -> Pages \cup {None}]
      BY DEF CommitsTyped, TypeOK
    <3>3. \A t \in Sources : stored'[t] # None => stored'[t] \in PagesOf[t]
      BY <3>1, <3>2 DEF PagesAreTheSources
    <3>4. QED
      BY <2>1, <3>3 DEF PagesAreTheSources
  <2>3. CASE ~ \E s \in Sources : Fetch(s) \/ LoseCache(s)
    <3>1. stored' = stored
      BY <1>3, <2>3 DEF OtherCommand, ApplyJobCountry, Resolve, Approve, Reject,
                        ReturnToReview, Decide, Export
    <3>2. QED
      BY <2>1, <3>1 DEF PagesAreTheSources
  <2>4. QED
    BY <2>2, <2>3
<1>4. CASE \/ SaveCandidate \/ LinkPrimary \/ LinkSource \/ ReplaceEvidence
           \/ StoreConflicts \/ SaveStatus
  <2>1. stored' = stored /\ pc # "idle" /\ job' = job
    BY <1>4 DEF SaveCandidate, LinkPrimary, LinkSource, ReplaceEvidence, StoreConflicts,
                SaveStatus
  <2>2. QED
    BY <2>1 DEF PagesAreTheSources
<1>5. CASE RefreshContext \/ Crash
  BY <1>5 DEF RefreshContext, Crash, vars, PagesAreTheSources
<1>6. CASE UNCHANGED commitVars
  BY <1>6 DEF commitVars, processVars, vars, PagesAreTheSources
<1>7. QED
  BY <1>1, <1>2, <1>3, <1>4, <1>5, <1>6 DEF CommitsNext, Extraction

\* Rows change only when one source's page replaces them.
LEMMA NextOnePage ==
  ASSUME CommitsTyped, PagesAreTheSources, RowsOfOnePage, [CommitsNext]_commitVars
  PROVE  RowsOfOnePage'
<1>1. CASE ReplaceEvidence
  <2> DEFINE page == Content[job.page]
  <2>1. evidence' = ReplaceForSource(evidence, job.source, page, extractions)
    BY <1>1 DEF ReplaceEvidence
  <2>2. job.page \in PagesOf[job.source]
    BY <1>1 DEF ReplaceEvidence, PagesAreTheSources
  <2>3. /\ Stated({e \in evidence' : e.src = job.source})
              = {<<job.source, x.field, x.val, x.conf>> : x \in page}
        /\ {e \in evidence' : e.src # job.source} = {e \in evidence : e.src # job.source}
    BY <2>1, SourceSpeaks
  <2>4. Stated({e \in evidence' : e.src = job.source}) = SaidBy(job.source, job.page)
    BY <2>3 DEF SaidBy
  <2>5. ASSUME NEW s \in Sources, s # job.source
        PROVE  {e \in evidence' : e.src = s} = {e \in evidence : e.src = s}
    BY <2>3, <2>5
  <2>6. ASSUME NEW s \in Sources
        PROVE  \/ {e \in evidence' : e.src = s} = {}
               \/ \E p \in PagesOf[s] : Stated({e \in evidence' : e.src = s}) = SaidBy(s, p)
    <3>1. CASE s = job.source
      BY <2>2, <2>4, <3>1
    <3>2. CASE s # job.source
      <4>1. \/ {e \in evidence : e.src = s} = {}
            \/ \E p \in PagesOf[s] : Stated({e \in evidence : e.src = s}) = SaidBy(s, p)
        BY DEF RowsOfOnePage
      <4>2. QED
        BY <2>5, <3>2, <4>1
    <3>3. QED
      BY <3>1, <3>2
  <2>7. QED
    BY <2>6 DEF RowsOfOnePage, Stated
<1>2. CASE ~ ReplaceEvidence
  <2>1. evidence' = evidence
    BY <1>2, TableSteps DEF StoreConflicts, RefreshContext, ApplyJobCountry, Resolve, evidenceVars
  <2>2. QED
    BY <2>1 DEF RowsOfOnePage
<1>3. QED
  BY <1>1, <1>2

\* No extraction, cut short or overtaken wherever it may be, leaves a mixture
\* of two versions of a page behind, or part of one.
THEOREM EvidenceIsOfOnePage == CommitsSpec => []RowsOfOnePage
<1>1. CommitsInit => PagesAreTheSources /\ RowsOfOnePage
  BY DEF CommitsInit, Init, PagesAreTheSources, RowsOfOnePage
<1>2. CommitsTyped /\ PagesAreTheSources /\ [CommitsNext]_commitVars => PagesAreTheSources'
  BY NextPages
<1>3. /\ CommitsTyped /\ PagesAreTheSources /\ RowsOfOnePage
      /\ [CommitsNext]_commitVars
      => RowsOfOnePage'
  BY NextOnePage
<1>4. QED
  BY <1>1, <1>2, <1>3, CommitsTypesInvariant, PTL DEF CommitsSpec
=============================================================================
