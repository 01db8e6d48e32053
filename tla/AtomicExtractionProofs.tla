----------------------- MODULE AtomicExtractionProofs -----------------------
(***************************************************************************)
(* The commits of extract_source, when nothing runs between them and none  *)
(* is interrupted, implement the single step Extract of                    *)
(* CandidateLifecycle: for any fields, sources, page contents and bounds.  *)
(* The proof describes the database at every commit as a function of what  *)
(* it was when the extraction started.                                     *)
(***************************************************************************)
EXTENDS ExtractionCommitsProofs

(***************************************************************************)
(* The operators of the instance are those of the module                   *)
(***************************************************************************)

\* Reading the evidence of a field.
LEMMA SameItems ==
  /\ \A ev, f, p : Atomic!Items(ev, f, p) = Items(ev, f, p)
  /\ \A items : Atomic!Strongest(items) = Strongest(items)
  /\ \A items : Atomic!First(items) = First(items)
  /\ \A items : Atomic!Agree(items) = Agree(items)
  /\ \A items : Atomic!Contested(items) = Contested(items)
<1>1. \A ev, f, p : Atomic!Items(ev, f, p) = Items(ev, f, p)
  BY DEF Atomic!Items, Items
<1>2. \A items : Atomic!Strongest(items) = Strongest(items)
  BY DEF Atomic!Strongest, Strongest, Atomic!Rank, Rank
<1>3. \A items : Atomic!First(items) = First(items)
  BY DEF Atomic!First, First, Atomic!Before, Before
<1>4. \A items : Atomic!Agree(items) = Agree(items)
  BY DEF Atomic!Agree, Agree
<1>5. \A items : Atomic!Contested(items) = Contested(items)
  BY <1>2, <1>4 DEF Atomic!Contested, Contested
<1>6. QED
  BY <1>1, <1>2, <1>3, <1>4, <1>5

\* Resolving the fields.
LEMMA SameNormalized ==
  \A ev, p : Atomic!Normalized(ev, p) = Normalized(ev, p)
<1>1. \A items : Atomic!AgreementConfidence(items) = AgreementConfidence(items)
  BY SameItems DEF Atomic!AgreementConfidence, AgreementConfidence
<1>2. \A items : Atomic!NormalizedValue(items) = NormalizedValue(items)
  BY SameItems, <1>1 DEF Atomic!NormalizedValue, NormalizedValue
<1>3. QED
  BY SameItems, <1>2 DEF Atomic!Normalized, Normalized

\* The conflict table.
LEMMA SameConflicts ==
  /\ \A ev, p : Atomic!ConflictPairs(ev, p) = ConflictPairs(ev, p)
  /\ \A ev, p : Atomic!ResolutionWarnings(ev, p) = ResolutionWarnings(ev, p)
  /\ \A old, new : Atomic!ReplaceConflicts(old, new) = ReplaceConflicts(old, new)
  /\ \A cs, gone : Atomic!DropConflictsOf(cs, gone) = DropConflictsOf(cs, gone)
  /\ \A cs : Atomic!Open(cs) = Open(cs)
<1>1. \A items : Atomic!ConflictFirst(items) = ConflictFirst(items)
  BY SameItems DEF Atomic!ConflictFirst, ConflictFirst
<1>2. \A items : Atomic!ConflictSecond(items) = ConflictSecond(items)
  BY SameItems, <1>1 DEF Atomic!ConflictSecond, ConflictSecond
<1>3. \A ev, p, f : Atomic!NewConflict(ev, p, f) = NewConflict(ev, p, f)
  BY SameItems, <1>1, <1>2 DEF Atomic!NewConflict, NewConflict
<1>4. \A ev, p : Atomic!ConflictPairs(ev, p) = ConflictPairs(ev, p)
  BY SameItems, <1>3 DEF Atomic!ConflictPairs, ConflictPairs
<1>5. \A ev, p : Atomic!ResolutionWarnings(ev, p) = ResolutionWarnings(ev, p)
  BY SameItems DEF Atomic!ResolutionWarnings, ResolutionWarnings
<1>6. \A old, new : Atomic!ReplaceConflicts(old, new) = ReplaceConflicts(old, new)
  BY DEF Atomic!ReplaceConflicts, ReplaceConflicts, Atomic!ConflictKey, ConflictKey
<1>7. \A cs, gone : Atomic!DropConflictsOf(cs, gone) = DropConflictsOf(cs, gone)
  BY DEF Atomic!DropConflictsOf, DropConflictsOf
<1>8. \A cs : Atomic!Open(cs) = Open(cs)
  BY DEF Atomic!Open, Open
<1>9. QED
  BY <1>4, <1>5, <1>6, <1>7, <1>8

\* The evidence table and the links.
LEMMA SameEvidenceTable ==
  /\ \A ev, s, page : Atomic!Obsolete(ev, s, page) = Obsolete(ev, s, page)
  /\ \A ev, s, page, run :
       Atomic!ReplaceForSource(ev, s, page, run) = ReplaceForSource(ev, s, page, run)
  /\ \A rs, s, role : Atomic!AttachSource(rs, s, role) = AttachSource(rs, s, role)
<1>1. \A e, s : Atomic!SameEvidence(e, s) = SameEvidence(e, s)
  BY DEF Atomic!SameEvidence, SameEvidence
<1>2. \A ev, s, page : Atomic!Obsolete(ev, s, page) = Obsolete(ev, s, page)
  BY <1>1 DEF Atomic!Obsolete, Obsolete
<1>3. \A ev, s, page, run :
        Atomic!ReplaceForSource(ev, s, page, run) = ReplaceForSource(ev, s, page, run)
  BY <1>1, <1>2 DEF Atomic!ReplaceForSource, ReplaceForSource
<1>4. \A rs, s, role : Atomic!AttachSource(rs, s, role) = AttachSource(rs, s, role)
  BY DEF Atomic!AttachSource, AttachSource
<1>5. QED
  BY <1>2, <1>3, <1>4

\* Values, status, context and conflict choices.
LEMMA SameCandidate ==
  /\ \A data, required : Atomic!Missing(data, required) = Missing(data, required)
  /\ \A data : Atomic!Valid(data) = Valid(data)
  /\ \A old, new : Atomic!Merge(old, new) = Merge(old, new)
  /\ \A norm, ctx, ov : Atomic!EffectiveData(norm, ctx, ov) = EffectiveData(norm, ctx, ov)
  /\ \A st, ev, norm, cs :
       Atomic!StatusAfterExtraction(st, ev, norm, cs) = StatusAfterExtraction(st, ev, norm, cs)
  /\ \A ev : Atomic!Contradictions(ev) = Contradictions(ev)
  /\ \A ctx, ev : Atomic!ContextAfter(ctx, ev) = ContextAfter(ctx, ev)
  /\ \A ctx, ev : Atomic!ContextConflictsAfter(ctx, ev) = ContextConflictsAfter(ctx, ev)
  /\ \A c, action : Atomic!Selectable(c, action) = Selectable(c, action)
<1>1. \A data, required : Atomic!Missing(data, required) = Missing(data, required)
  BY DEF Atomic!Missing, Missing
<1>2. \A data : Atomic!Valid(data) = Valid(data)
  BY DEF Atomic!Valid, Valid
<1>3. \A old, new : Atomic!Merge(old, new) = Merge(old, new)
  BY DEF Atomic!Merge, Merge
<1>4. \A norm, ctx, ov : Atomic!EffectiveData(norm, ctx, ov) = EffectiveData(norm, ctx, ov)
  BY <1>3 DEF Atomic!EffectiveData, EffectiveData
<1>5. \A ev, norm, cs : Atomic!AutomaticStatus(ev, norm, cs) = AutomaticStatus(ev, norm, cs)
  BY SameConflicts, <1>1
     DEF Atomic!AutomaticStatus, AutomaticStatus, Atomic!LowConfidenceCore, LowConfidenceCore
<1>6. \A st, ev, norm, cs :
        Atomic!StatusAfterExtraction(st, ev, norm, cs) = StatusAfterExtraction(st, ev, norm, cs)
  BY SameConflicts, <1>5
     DEF Atomic!StatusAfterExtraction, StatusAfterExtraction, Atomic!HumanStatuses, HumanStatuses
<1>7. \A ev : Atomic!Contradictions(ev) = Contradictions(ev)
  BY DEF Atomic!Contradictions, Contradictions
<1>8. \A ctx, ev : Atomic!ContextAfter(ctx, ev) = ContextAfter(ctx, ev)
  BY <1>7 DEF Atomic!ContextAfter, ContextAfter
<1>9. \A ctx, ev : Atomic!ContextConflictsAfter(ctx, ev) = ContextConflictsAfter(ctx, ev)
  BY <1>7 DEF Atomic!ContextConflictsAfter, ContextConflictsAfter
<1>10. \A c, action : Atomic!Selectable(c, action) = Selectable(c, action)
  BY DEF Atomic!Selectable, Selectable
<1>11. QED
  BY <1>1, <1>2, <1>3, <1>4, <1>6, <1>7, <1>8, <1>9, <1>10
(***************************************************************************)
(* Commands that run while no extraction does                              *)
(***************************************************************************)

\* Between extractions the candidate is shown as it is.
LEMMA ShownAtRest ==
  ASSUME pc = "idle"
  PROVE  /\ Shown.status = status /\ Shown.normalized = normalized
         /\ Shown.overrides = overrides /\ Shown.warnings = warnings
         /\ Shown.approvedAt = approvedAt /\ Shown.roles = roles
         /\ Shown.evidence = evidence /\ Shown.conflicts = conflicts
         /\ Shown.context = context /\ Shown.contextConflicts = contextConflicts
         /\ (IF pc = "idle" THEN extractions ELSE extractions - 1) = extractions
BY DEF Shown, CandidateState

\* The same of the next state.
LEMMA ShownAtRestNext ==
  ASSUME pc' = "idle"
  PROVE  /\ Shown'.status = status' /\ Shown'.normalized = normalized'
         /\ Shown'.overrides = overrides' /\ Shown'.warnings = warnings'
         /\ Shown'.approvedAt = approvedAt' /\ Shown'.roles = roles'
         /\ Shown'.evidence = evidence' /\ Shown'.conflicts = conflicts'
         /\ Shown'.context = context' /\ Shown'.contextConflicts = contextConflicts'
         /\ (IF pc' = "idle" THEN extractions' ELSE extractions' - 1) = extractions'
BY DEF Shown, CandidateState

\* Every other command is the command of the same name in the core model.
LEMMA CommandsMap ==
  ASSUME pc = "idle", pc' = "idle", OtherCommand
  PROVE  Atomic!Next
<1>1. ASSUME NEW s \in Sources, Fetch(s) \/ LoseCache(s)
      PROVE  Atomic!Fetch(s) \/ Atomic!LoseCache(s)
  BY <1>1, ShownAtRest, ShownAtRestNext
     DEF Fetch, LoseCache, Atomic!Fetch, Atomic!LoseCache, candidateVars, evidenceVars,
         contextVars, auditVars, Atomic!candidateVars, Atomic!evidenceVars,
         Atomic!contextVars, Atomic!auditVars
<1>2. CASE ApplyJobCountry
  <2>1. Atomic!ApplyJobCountry
    BY <1>2, ShownAtRest, ShownAtRestNext, SameCandidate
       DEF ApplyJobCountry, Atomic!ApplyJobCountry, candidateVars, evidenceVars,
           auditVars, Atomic!candidateVars, Atomic!evidenceVars, Atomic!auditVars
  <2>2. QED
    BY <2>1 DEF Atomic!Next
<1>3. ASSUME NEW c \in conflicts, NEW action \in ResolutionActions, Resolve(c, action)
      PROVE  Atomic!Resolve(c, action)
  BY <1>3, ShownAtRest, ShownAtRestNext, SameCandidate
     DEF Resolve, Atomic!Resolve, contextVars, Atomic!contextVars
<1>4. ASSUME NEW given \in OverrideChoices, NEW decision, NEW resulting,
             Decide(decision, resulting, given)
      PROVE  Atomic!Decide(decision, resulting, given)
  BY <1>4, ShownAtRest, ShownAtRestNext, SameCandidate
     DEF Decide, Atomic!Decide, evidenceVars, contextVars, Atomic!evidenceVars, Atomic!contextVars
<1>5. ASSUME NEW given \in OverrideChoices, NEW ack \in BOOLEAN, Approve(given, ack)
      PROVE  Atomic!Approve(given, ack)
  <2>1. Atomic!AttachedSources = AttachedSources
    BY ShownAtRest DEF Atomic!AttachedSources, AttachedSources
  <2>2. \A data : Atomic!ApprovalAllowed(data, ack) <=> ApprovalAllowed(data, ack)
    BY <2>1, ShownAtRest, SameCandidate, SameConflicts
       DEF Atomic!ApprovalAllowed, ApprovalAllowed
  <2>3. Atomic!EffectiveData(Shown.normalized, Shown.context, Atomic!Merge(Shown.overrides, given))
          = EffectiveData(normalized, context, Merge(overrides, given))
    BY ShownAtRest, SameCandidate
  <2>4. QED
    BY <1>4, <1>5, <2>2, <2>3 DEF Approve, Atomic!Approve
<1>6. ASSUME NEW given \in OverrideChoices, Reject(given) \/ ReturnToReview(given)
      PROVE  Atomic!Reject(given) \/ Atomic!ReturnToReview(given)
  BY <1>4, <1>6 DEF Reject, ReturnToReview, Atomic!Reject, Atomic!ReturnToReview
<1>7. CASE Export
  <2>1. Atomic!Effective = Effective
    BY ShownAtRest, SameCandidate DEF Atomic!Effective, Effective
  <2>2. Atomic!Export
    BY <1>7, <2>1, ShownAtRest, ShownAtRestNext, SameCandidate, SameConflicts
       DEF Export, Atomic!Export, ExportAllowed, Atomic!ExportAllowed, candidateVars,
           evidenceVars, contextVars, Atomic!candidateVars, Atomic!evidenceVars,
           Atomic!contextVars
  <2>3. QED
    BY <2>2 DEF Atomic!Next
<1>8. QED
  BY <1>1, <1>2, <1>3, <1>5, <1>6, <1>7, ShownAtRest
     DEF OtherCommand, Atomic!Next, ResolutionActions, Atomic!ResolutionActions
(***************************************************************************)
(* The commits of an extraction                                            *)
(***************************************************************************)

\* What the extraction under way makes of the state it started from.
FirstStatus == IF before.status = "absent" THEN "discovered" ELSE before.status
NewEvidence == ReplaceForSource(before.evidence, job.source, Content[job.page], extractions)
Gone == Obsolete(before.evidence, job.source, Content[job.page])
KeptConflicts == DropConflictsOf(before.conflicts, Gone)
NewConflicts == ReplaceConflicts(KeptConflicts, ConflictPairs(NewEvidence, Primary))
NewNormalized == Normalized(NewEvidence, Primary)
NewWarnings == before.warnings \cup PageNotes[job.page] \cup ResolutionWarnings(NewEvidence, Primary)
LinkedPrimary == AttachSource(before.roles, Primary, "primary")
LinkedBoth == AttachSource(LinkedPrimary, job.source, job.role)

OldEvidence == pc \in {"save", "primary", "attach", "replace"}
OldValues == OldEvidence \/ pc = "values"

\* The guards under which the extraction was started still hold.
Started ==
  /\ extractions \in Nat \ {0} /\ extractions - 1 < MaxExtractions
  /\ stored[job.source] = job.page
  /\ job.page # None
  /\ Content[job.page] # {}
  /\ IF job.role = "supporting" THEN before.status # "absent" ELSE job.source = Primary

\* What extraction leaves alone, in the row and in the record.
Untouched ==
  /\ overrides = before.overrides /\ job.record.overrides = before.overrides
  /\ approvedAt = before.approvedAt /\ job.record.approvedAt = before.approvedAt
  /\ context = before.context

RowProgress ==
  /\ job.record.status = FirstStatus
  /\ status = CASE pc = "save" -> before.status
                [] pc = "refresh" ->
                     StatusAfterExtraction(before.status, NewEvidence, NewNormalized, NewConflicts)
                [] OTHER -> FirstStatus
  /\ normalized = (IF OldValues THEN before.normalized ELSE NewNormalized)
  /\ job.record.normalized = normalized
  /\ warnings = (IF OldValues THEN before.warnings ELSE NewWarnings)
  /\ job.record.warnings = warnings

TableProgress ==
  /\ roles = CASE pc \in {"save", "primary"} -> before.roles
               [] pc = "attach" -> LinkedPrimary
               [] OTHER -> LinkedBoth
  /\ evidence = (IF OldEvidence THEN before.evidence ELSE NewEvidence)
  /\ conflicts = CASE OldEvidence -> before.conflicts
                   [] pc \in {"values", "conflicts"} -> KeptConflicts
                   [] OTHER -> NewConflicts

Underway == pc # "idle" => Started /\ Untouched /\ RowProgress /\ TableProgress

\* The commits between the first and the last leave what the extraction is
\* measured by.
Constantly == UNCHANGED <<before, extractions, stored, job.source, job.page, job.role>>

\* So what the extraction comes to does not change while it runs.
LEMMA NewFromStart ==
  ASSUME Constantly
  PROVE  /\ FirstStatus' = FirstStatus /\ NewEvidence' = NewEvidence /\ Gone' = Gone
         /\ KeptConflicts' = KeptConflicts /\ NewConflicts' = NewConflicts
         /\ NewNormalized' = NewNormalized /\ NewWarnings' = NewWarnings
         /\ LinkedPrimary' = LinkedPrimary /\ LinkedBoth' = LinkedBoth
         /\ (Started => Started')
<1>1. /\ before' = before /\ extractions' = extractions /\ stored' = stored
      /\ job'.source = job.source /\ job'.page = job.page /\ job'.role = job.role
  BY DEF Constantly
<1>2. FirstStatus' = FirstStatus
  BY <1>1 DEF FirstStatus
<1>3. NewEvidence' = NewEvidence
  BY <1>1 DEF NewEvidence
<1>4. Gone' = Gone
  BY <1>1 DEF Gone
<1>5. KeptConflicts' = KeptConflicts
  BY <1>1, <1>4 DEF KeptConflicts
<1>6. NewConflicts' = NewConflicts
  BY <1>3, <1>5 DEF NewConflicts
<1>7. NewNormalized' = NewNormalized
  BY <1>3 DEF NewNormalized
<1>8. NewWarnings' = NewWarnings
  BY <1>1, <1>3 DEF NewWarnings
<1>9. LinkedPrimary' = LinkedPrimary /\ LinkedBoth' = LinkedBoth
  BY <1>1 DEF LinkedPrimary, LinkedBoth
<1>10. Started => Started'
  BY <1>1 DEF Started
<1>11. QED
  BY <1>2, <1>3, <1>4, <1>5, <1>6, <1>7, <1>8, <1>9, <1>10

\* The first read starts from the state it shows.
LEMMA LoadUnderway ==
  ASSUME TypeOK, NEW s \in Sources, NEW attach \in BOOLEAN, Load(s, attach)
  PROVE  Underway'
<1>1. /\ pc' = "save" /\ before' = CandidateState /\ extractions' = extractions + 1
      /\ job' = [source |-> s, role |-> IF attach THEN "supporting" ELSE "primary",
                 page |-> stored[s], record |-> Record]
      /\ UNCHANGED <<stored, status, normalized, overrides, warnings, approvedAt, roles,
                     evidence, conflicts, context, contextConflicts>>
  BY DEF Load, candidateVars, evidenceVars, contextVars
<1>2. Started'
  BY <1>1, LifecycleConstants DEF Load, Started, CandidateState, TypeOK
<1>3. Untouched'
  BY <1>1 DEF Untouched, CandidateState, Record
<1>4. RowProgress'
  BY <1>1 DEF RowProgress, CandidateState, Record, FirstStatus, OldValues, OldEvidence
<1>5. TableProgress'
  BY <1>1 DEF TableProgress, CandidateState, OldEvidence
<1>6. QED
  BY <1>2, <1>3, <1>4, <1>5 DEF Underway

\* The candidate row is first saved as it was, or as discovered.
LEMMA SaveCandidateUnderway ==
  ASSUME CommitsTyped, Underway, SaveCandidate
  PROVE  Underway'
<1>1. Constantly /\ job' = job /\ pc = "save" /\ pc' = "primary" /\ WriteRow(job.record)
      /\ UNCHANGED <<roles, evidence, conflicts, context>>
  BY DEF SaveCandidate, Constantly, auxVars, evidenceVars, contextVars
<1>2. Started /\ Untouched /\ RowProgress /\ TableProgress
  BY <1>1 DEF Underway
<1>3. Untouched'
  BY <1>1, <1>2 DEF Untouched, WriteRow, Constantly
<1>4. RowProgress'
  BY <1>1, <1>2, NewFromStart DEF RowProgress, WriteRow, OldValues, OldEvidence, Constantly
<1>5. TableProgress'
  BY <1>1, <1>2, NewFromStart DEF TableProgress, OldEvidence, Constantly
<1>6. QED
  BY <1>1, <1>2, <1>3, <1>4, <1>5, NewFromStart DEF Underway

\* The two links.
LEMMA LinkUnderway ==
  ASSUME CommitsTyped, Underway, LinkPrimary \/ LinkSource
  PROVE  Underway'
<1>1. Constantly /\ job' = job
      /\ UNCHANGED <<status, normalized, overrides, warnings, approvedAt, evidence, conflicts, context>>
  BY DEF LinkPrimary, LinkSource, Constantly, auxVars, evidenceVars, contextVars
<1>2. \/ pc = "primary" /\ pc' = "attach" /\ roles' = AttachSource(roles, Primary, "primary")
      \/ pc = "attach" /\ pc' = "replace" /\ roles' = AttachSource(roles, job.source, job.role)
  BY DEF LinkPrimary, LinkSource
<1>3. Started /\ Untouched /\ RowProgress /\ TableProgress
  BY <1>2 DEF Underway
<1>4. Untouched'
  BY <1>1, <1>3 DEF Untouched, Constantly
<1>5. RowProgress'
  BY <1>1, <1>2, <1>3, NewFromStart DEF RowProgress, OldValues, OldEvidence, Constantly
<1>6. TableProgress'
  <2>1. roles' = CASE pc' = "attach" -> LinkedPrimary [] OTHER -> LinkedBoth
    BY <1>2, <1>3 DEF TableProgress, LinkedPrimary, LinkedBoth
  <2>2. evidence' = before.evidence /\ conflicts' = before.conflicts
    BY <1>1, <1>2, <1>3 DEF TableProgress, OldEvidence
  <2>3. QED
    BY <1>1, <1>2, <2>1, <2>2, NewFromStart DEF TableProgress, OldEvidence, Constantly
<1>7. QED
  BY <1>1, <1>3, <1>4, <1>5, <1>6, NewFromStart DEF Underway

\* The evidence of the source is replaced, with what refers to it.
LEMMA ReplaceUnderway ==
  ASSUME CommitsTyped, Underway, ReplaceEvidence
  PROVE  Underway'
<1>1. Constantly /\ job' = job /\ pc = "replace" /\ pc' = "values"
      /\ UNCHANGED <<status, normalized, overrides, warnings, approvedAt, roles, context>>
  BY DEF ReplaceEvidence, Constantly, auxVars, candidateVars
<1>2. Started /\ Untouched /\ RowProgress /\ TableProgress
  BY <1>1 DEF Underway
<1>3. evidence = before.evidence /\ conflicts = before.conflicts /\ roles = LinkedBoth
  BY <1>1, <1>2 DEF TableProgress, OldEvidence
<1>4. evidence' = NewEvidence /\ conflicts' = KeptConflicts
  BY <1>3 DEF ReplaceEvidence, NewEvidence, KeptConflicts, Gone
<1>5. Untouched'
  BY <1>1, <1>2 DEF Untouched, Constantly
<1>6. RowProgress'
  BY <1>1, <1>2, NewFromStart DEF RowProgress, OldValues, OldEvidence, Constantly
<1>7. TableProgress'
  BY <1>1, <1>3, <1>4, NewFromStart DEF TableProgress, OldEvidence, Constantly
<1>8. QED
  BY <1>1, <1>2, <1>5, <1>6, <1>7, NewFromStart DEF Underway
\* The new evidence is resolved.
LEMMA SaveValuesUnderway ==
  ASSUME CommitsTyped, Underway, SaveValues
  PROVE  Underway'
<1> DEFINE r == [job.record EXCEPT
                   !.normalized = Normalized(evidence, Primary),
                   !.warnings = @ \cup PageNotes[job.page]
                                  \cup ResolutionWarnings(evidence, Primary)]
<1>1. job \in JobType /\ job.record \in RecordType
  BY DEF SaveValues, CommitsTyped, JobType
<1>2. /\ r.status = job.record.status /\ r.overrides = job.record.overrides
      /\ r.approvedAt = job.record.approvedAt
      /\ r.normalized = Normalized(evidence, Primary)
      /\ r.warnings = job.record.warnings \cup PageNotes[job.page]
                        \cup ResolutionWarnings(evidence, Primary)
  BY <1>1 DEF RecordType
<1>3. /\ pc = "values" /\ pc' = "conflicts" /\ WriteRow(r) /\ job' = [job EXCEPT !.record = r]
      /\ UNCHANGED <<before, extractions, stored, roles, evidence, conflicts, context>>
  BY DEF SaveValues, auxVars, evidenceVars, contextVars
<1> HIDE DEF r
<1>4. job'.record = r /\ Constantly
  BY <1>1, <1>3 DEF JobType, Constantly
<1>5. Started /\ Untouched /\ RowProgress /\ TableProgress
  BY <1>3 DEF Underway
<1>6. evidence = NewEvidence /\ r.normalized = NewNormalized /\ r.warnings = NewWarnings
  BY <1>2, <1>3, <1>5 DEF TableProgress, RowProgress, OldEvidence, OldValues, NewNormalized, NewWarnings
<1>7. Untouched'
  BY <1>2, <1>3, <1>4, <1>5 DEF Untouched, WriteRow
<1>8. RowProgress'
  BY <1>2, <1>3, <1>4, <1>5, <1>6, NewFromStart DEF RowProgress, WriteRow, OldValues, OldEvidence
<1>9. TableProgress'
  BY <1>3, <1>4, <1>5, NewFromStart DEF TableProgress, OldEvidence
<1>10. QED
  BY <1>3, <1>4, <1>5, <1>7, <1>8, <1>9, NewFromStart DEF Underway

\* The conflicts of the new evidence are stored.
LEMMA StoreConflictsUnderway ==
  ASSUME CommitsTyped, Underway, StoreConflicts
  PROVE  Underway'
<1>1. Constantly /\ job' = job /\ pc = "conflicts" /\ pc' = "status"
      /\ UNCHANGED <<status, normalized, overrides, warnings, approvedAt, roles, evidence, context>>
  BY DEF StoreConflicts, Constantly, auxVars, candidateVars, contextVars
<1>2. Started /\ Untouched /\ RowProgress /\ TableProgress
  BY <1>1 DEF Underway
<1>3. conflicts' = NewConflicts /\ evidence = NewEvidence
  BY <1>1, <1>2 DEF StoreConflicts, TableProgress, OldEvidence, NewConflicts
<1>4. Untouched'
  BY <1>1, <1>2 DEF Untouched, Constantly
<1>5. RowProgress'
  BY <1>1, <1>2, NewFromStart DEF RowProgress, OldValues, OldEvidence, Constantly
<1>6. TableProgress'
  BY <1>1, <1>2, <1>3, NewFromStart DEF TableProgress, OldEvidence, Constantly
<1>7. QED
  BY <1>1, <1>2, <1>4, <1>5, <1>6, NewFromStart DEF Underway

\* A row that was absent counts like the discovered one written meanwhile.
LEMMA SaveStatusUnderway ==
  ASSUME CommitsTyped, Underway, SaveStatus
  PROVE  Underway'
<1>1. Constantly /\ job' = job /\ pc = "status" /\ pc' = "refresh"
      /\ UNCHANGED <<roles, evidence, conflicts, context>>
  BY DEF SaveStatus, Constantly, auxVars, evidenceVars, contextVars
<1>2. Started /\ Untouched /\ RowProgress /\ TableProgress
  BY <1>1 DEF Underway
<1>3. /\ job.record.status = FirstStatus /\ status = FirstStatus /\ evidence = NewEvidence
      /\ conflicts = NewConflicts /\ job.record.normalized = NewNormalized
  BY <1>1, <1>2 DEF RowProgress, TableProgress, OldValues, OldEvidence
<1>4. job.record \in RecordType
  BY <1>1 DEF CommitsTyped, JobType
<1>5. /\ status' = IF Open(conflicts) # {} \/ FirstStatus \notin HumanStatuses
                   THEN AutomaticStatus(evidence, NewNormalized, conflicts) ELSE FirstStatus
      /\ UNCHANGED <<normalized, overrides, warnings, approvedAt>>
  BY <1>1, <1>2, <1>3, <1>4 DEF SaveStatus, WriteRow, RowProgress, Untouched, RecordType
<1>6. FirstStatus \in HumanStatuses <=> before.status \in HumanStatuses
  BY DEF FirstStatus, HumanStatuses
<1>7. FirstStatus \in HumanStatuses => FirstStatus = before.status
  BY DEF FirstStatus, HumanStatuses
<1>8. status' = StatusAfterExtraction(before.status, NewEvidence, NewNormalized, NewConflicts)
  BY <1>3, <1>5, <1>6, <1>7 DEF StatusAfterExtraction
<1>9. Untouched'
  BY <1>1, <1>2, <1>5 DEF Untouched, Constantly
<1>10. RowProgress'
  BY <1>1, <1>2, <1>5, <1>8, NewFromStart DEF RowProgress, OldValues, OldEvidence, Constantly
<1>11. TableProgress'
  BY <1>1, <1>2, NewFromStart DEF TableProgress, OldEvidence, Constantly
<1>12. QED
  BY <1>1, <1>2, <1>9, <1>10, <1>11, NewFromStart DEF Underway

\* Run alone, the extraction is at every commit where its start says, and once
\* cut short it no longer counts.
LEMMA NextUnderway ==
  ASSUME ~ OthersRun, CommitsTyped, Underway, [CommitsNext]_commitVars
  PROVE  Underway'
<1>1. CASE \E s \in Sources, attach \in BOOLEAN : Load(s, attach)
  BY <1>1, LoadUnderway DEF CommitsTyped
<1>2. CASE RefreshContext
  BY <1>2 DEF RefreshContext, Underway
<1>3. CASE OtherCommand
  BY <1>3, OthersAreLifecycleSteps DEF OtherCommand, Underway
<1>4. CASE UNCHANGED commitVars
  <2>1. Constantly /\ job' = job /\ pc' = pc
        /\ UNCHANGED <<status, normalized, overrides, warnings, approvedAt, roles, evidence,
                       conflicts, context>>
    BY <1>4 DEF Constantly, commitVars, vars, processVars, auxVars, candidateVars,
                evidenceVars, contextVars
  <2>2. Untouched => Untouched'
    BY <2>1 DEF Untouched, Constantly
  <2>3. RowProgress => RowProgress'
    BY <2>1, NewFromStart DEF RowProgress, OldValues, OldEvidence, Constantly
  <2>4. TableProgress => TableProgress'
    BY <2>1, NewFromStart DEF TableProgress, OldEvidence, Constantly
  <2>5. QED
    BY <2>1, <2>2, <2>3, <2>4, NewFromStart DEF Underway
<1>5. CASE Crash
  BY <1>5 DEF Crash, Underway
<1>6. QED
  BY <1>1, <1>2, <1>3, <1>4, <1>5, SaveCandidateUnderway, LinkUnderway, ReplaceUnderway,
     SaveValuesUnderway, StoreConflictsUnderway, SaveStatusUnderway
     DEF CommitsNext, Extraction

(***************************************************************************)
(* The refinement                                                          *)
(***************************************************************************)

\* The last commit makes the whole extraction visible at once.
LEMMA LastCommitMaps ==
  ASSUME CommitsTyped, Underway, RefreshContext
  PROVE  Atomic!Extract(job.source, job.role = "supporting")
<1>1. /\ pc = "refresh" /\ pc' = "idle"
      /\ context' = ContextAfter(context, evidence)
      /\ contextConflicts' = ContextConflictsAfter(context, evidence)
      /\ UNCHANGED <<stored, status, normalized, overrides, warnings, approvedAt, roles,
                     evidence, conflicts, reviews, resolutions, exports, extractions, accepted>>
  BY DEF RefreshContext, candidateVars, evidenceVars, auditVars
<1>2. Started /\ Untouched /\ RowProgress /\ TableProgress
  BY <1>1 DEF Underway
<1>3. job.role \in {"primary", "supporting"}
  BY <1>1 DEF CommitsTyped, JobType
<1>4. Shown = before /\ (IF pc = "idle" THEN extractions ELSE extractions - 1) = extractions - 1
      /\ (extractions - 1) + 1 = extractions
  BY <1>1, <1>2 DEF Shown, Started
<1>5. /\ evidence = NewEvidence /\ conflicts = NewConflicts /\ roles = LinkedBoth
      /\ normalized = NewNormalized /\ warnings = NewWarnings
      /\ status = StatusAfterExtraction(before.status, NewEvidence, NewNormalized, NewConflicts)
  BY <1>1, <1>2 DEF RowProgress, TableProgress, OldValues, OldEvidence
<1> DEFINE page == Content[stored[job.source]]
           ev == Atomic!ReplaceForSource(before.evidence, job.source, page, extractions)
           cs == Atomic!ReplaceConflicts(
                   Atomic!DropConflictsOf(before.conflicts,
                     Atomic!Obsolete(before.evidence, job.source, page)),
                   Atomic!ConflictPairs(ev, Primary))
<1>6. ev = NewEvidence
  BY <1>2, SameEvidenceTable DEF Started, NewEvidence
<1>7. cs = NewConflicts
  BY <1>2, <1>6, SameEvidenceTable, SameConflicts DEF Started, NewConflicts, KeptConflicts, Gone
<1>8. Atomic!Normalized(ev, Primary) = NewNormalized
  BY <1>6, SameNormalized DEF NewNormalized
<1>9. before.warnings \cup PageNotes[stored[job.source]] \cup Atomic!ResolutionWarnings(ev, Primary)
        = NewWarnings
  BY <1>2, <1>6, SameConflicts DEF Started, NewWarnings
<1>10. Atomic!AttachSource(Atomic!AttachSource(before.roles, Primary, "primary"), job.source,
         IF job.role = "supporting" THEN "supporting" ELSE "primary") = LinkedBoth
  BY <1>3, SameEvidenceTable DEF LinkedBoth, LinkedPrimary
<1>11. /\ context' = Atomic!ContextAfter(before.context, ev)
       /\ contextConflicts' = Atomic!ContextConflictsAfter(before.context, ev)
       /\ status' = Atomic!StatusAfterExtraction(before.status, ev, Atomic!Normalized(ev, Primary), cs)
  BY <1>1, <1>2, <1>5, <1>6, <1>7, <1>8, SameCandidate DEF Untouched
<1>12. /\ evidence' = ev /\ conflicts' = cs /\ normalized' = Atomic!Normalized(ev, Primary)
       /\ warnings' = before.warnings \cup PageNotes[stored[job.source]]
                        \cup Atomic!ResolutionWarnings(ev, Primary)
       /\ roles' = Atomic!AttachSource(Atomic!AttachSource(before.roles, Primary, "primary"),
                     job.source, IF job.role = "supporting" THEN "supporting" ELSE "primary")
       /\ overrides' = before.overrides /\ approvedAt' = before.approvedAt
  BY <1>1, <1>2, <1>5, <1>6, <1>7, <1>8, <1>9, <1>10 DEF Untouched
<1>13. /\ extractions - 1 < MaxExtractions /\ stored[job.source] # None
       /\ Content[stored[job.source]] # {}
       /\ IF job.role = "supporting" THEN before.status # "absent" ELSE job.source = Primary
  BY <1>2 DEF Started
<1>14. QED
  BY <1>1, <1>4, <1>11, <1>12, <1>13, ShownAtRestNext DEF Atomic!Extract, Atomic!auditVars
\* Reading, and every commit but the last, shows nothing.
LEMMA CommitsStutter ==
  ASSUME TypeOK, Extraction, ~ RefreshContext
  PROVE  UNCHANGED Atomic!vars
<1>1. CASE \E s \in Sources, attach \in BOOLEAN : Load(s, attach)
  <2>1. /\ pc = "idle" /\ pc' # "idle" /\ before' = CandidateState
        /\ extractions' - 1 = extractions
        /\ UNCHANGED <<stored, reviews, resolutions, exports, accepted>>
    BY <1>1 DEF Load, auditVars, TypeOK
  <2>2. Shown' = Shown
    BY <2>1 DEF Shown
  <2>3. QED
    BY <2>1, <2>2 DEF Atomic!vars, Atomic!candidateVars, Atomic!evidenceVars,
                      Atomic!contextVars, Atomic!auditVars
<1>2. CASE ~ \E s \in Sources, attach \in BOOLEAN : Load(s, attach)
  <2>1. /\ pc # "idle" /\ pc' # "idle"
        /\ UNCHANGED <<before, extractions, stored, reviews, resolutions, exports, accepted>>
    BY <1>2 DEF Extraction, SaveCandidate, LinkPrimary, LinkSource, ReplaceEvidence, SaveValues,
                StoreConflicts, SaveStatus, auxVars, auditVars
  <2>2. Shown' = Shown
    BY <2>1 DEF Shown
  <2>3. QED
    BY <2>1, <2>2 DEF Atomic!vars, Atomic!candidateVars, Atomic!evidenceVars,
                      Atomic!contextVars, Atomic!auditVars
<1>3. QED
  BY <1>1, <1>2

\* Every step is a step of the core model or shows nothing.
LEMMA StepsMap ==
  ASSUME ~ OthersRun, ~ MayCrash, CommitsTyped, Underway, [CommitsNext]_commitVars
  PROVE  [Atomic!Next]_(Atomic!vars)
<1>1. CASE Extraction /\ ~ RefreshContext
  BY <1>1, CommitsStutter DEF CommitsTyped
<1>2. CASE RefreshContext
  <2>1. job.source \in Sources /\ (job.role = "supporting") \in BOOLEAN
    BY <1>2 DEF RefreshContext, CommitsTyped, JobType
  <2>2. QED
    BY <1>2, <2>1, LastCommitMaps DEF Atomic!Next
<1>3. CASE OtherCommand
  <2>1. pc = "idle" /\ pc' = "idle"
    BY <1>3, OthersAreLifecycleSteps DEF OtherCommand
  <2>2. QED
    BY <1>3, <2>1, CommandsMap
<1>4. CASE UNCHANGED commitVars
  <2>1. UNCHANGED <<pc, before, extractions, stored, reviews, resolutions, exports, accepted>>
        /\ CandidateState' = CandidateState
    BY <1>4 DEF commitVars, vars, processVars, auxVars, candidateVars, evidenceVars,
                contextVars, auditVars, CandidateState
  <2>2. Shown' = Shown
    BY <2>1 DEF Shown
  <2>3. QED
    BY <2>1, <2>2 DEF Atomic!vars, Atomic!candidateVars, Atomic!evidenceVars,
                      Atomic!contextVars, Atomic!auditVars
<1>5. QED
  BY <1>1, <1>2, <1>3, <1>4 DEF CommitsNext, Crash

\* At every commit the database is what the start of the extraction says, also
\* when earlier extractions were cut short.
THEOREM AloneUnderway ==
  ASSUME ~ OthersRun
  PROVE  CommitsSpec => []Underway
<1>1. CommitsInit => Underway
  BY DEF CommitsInit, Underway
<1>2. CommitsTyped /\ Underway /\ [CommitsNext]_commitVars => Underway'
  BY NextUnderway
<1>3. QED
  BY <1>1, <1>2, CommitsTypesInvariant, PTL DEF CommitsSpec

\* Run alone and to its end, the eight commits of extract_source are one step
\* Extract of the core model: what is proved of commands run one at a time
\* holds of the code that commits piecewise.
THEOREM AloneIsAtomic ==
  ASSUME ~ OthersRun, ~ MayCrash
  PROVE  CommitsSpec => ImplementsAtomicExtraction
<1>1. CommitsInit => Atomic!Init
  BY ShownAtRest DEF CommitsInit, Init, Atomic!Init, NoValues, Atomic!NoValues
<1>2. CommitsTyped /\ Underway /\ [CommitsNext]_commitVars => [Atomic!Next]_(Atomic!vars)
  BY StepsMap
<1>3. QED
  BY <1>1, <1>2, CommitsTypesInvariant, AloneUnderway, PTL
     DEF CommitsSpec, ImplementsAtomicExtraction, Atomic!Spec

(***************************************************************************)
(* What an extraction that runs alone may do to a human decision           *)
(***************************************************************************)

\* The approval an extraction found is still the last review's.
LastReviewApproved ==
  /\ approvedAt = Len(reviews)
  /\ approvedAt # 0
  /\ reviews[approvedAt].decision = "approve"

Approved ==
  /\ ApprovalIsHuman
  /\ pc # "idle" /\ before.status \in {"approved", "exported"} => LastReviewApproved

\* The commits before the last leave the reviews and the start alone.
LEMMA CommitStages ==
  ASSUME Extraction, pc # "idle", ~ RefreshContext
  PROVE  pc' # "idle" /\ UNCHANGED <<before, reviews>>
BY DEF Extraction, Load, SaveCandidate, LinkPrimary, LinkSource, ReplaceEvidence, SaveValues,
       StoreConflicts, SaveStatus, auxVars, auditVars

\* Only the last review approves, seen from every commit.
LEMMA NextApproved ==
  ASSUME ~ OthersRun, CommitsTyped, Underway, Underway', Approved, [CommitsNext]_commitVars
  PROVE  Approved'
<1>1. CASE \E s \in Sources, attach \in BOOLEAN : Load(s, attach)
  BY <1>1 DEF Load, Approved, ApprovalIsHuman, LastReviewApproved, CandidateState,
              candidateVars, auditVars
<1>2. CASE Extraction /\ pc # "idle" /\ ~ RefreshContext
  <2>1. pc' # "idle" /\ UNCHANGED <<before, reviews>>
    BY <1>2, CommitStages
  <2>2. approvedAt' = approvedAt
    BY <1>2, <2>1 DEF Underway, Untouched
  <2>3. status' \in {"approved", "exported"} => before'.status \in {"approved", "exported"}
    <3>1. RowProgress'
      BY <2>1 DEF Underway
    <3>2. \A ev, norm, cs :
            StatusAfterExtraction(before'.status, ev, norm, cs) \in {"approved", "exported"}
              => before'.status \in {"approved", "exported"}
      BY AutomaticStatusType DEF StatusAfterExtraction
    <3>3. FirstStatus' \in {"approved", "exported"} => before'.status \in {"approved", "exported"}
      BY DEF FirstStatus
    <3>4. QED
      BY <3>1, <3>2, <3>3 DEF RowProgress
  <2>4. QED
    BY <1>2, <2>1, <2>2, <2>3 DEF Approved, ApprovalIsHuman, LastReviewApproved
<1>3. CASE RefreshContext \/ Crash
  BY <1>3 DEF RefreshContext, Crash, Approved, ApprovalIsHuman, vars, candidateVars,
              evidenceVars, auditVars
<1>4. CASE OtherCommand
  <2>1. pc = "idle" /\ pc' = "idle" /\ Next /\ TypeOK
    BY <1>4, OthersAreLifecycleSteps DEF OtherCommand, CommitsTyped
  <2>2. ApprovalIsHuman'
    BY <1>4, <2>1, OthersDecideLast DEF Approved
  <2>3. QED
    BY <2>1, <2>2 DEF Approved
<1>5. CASE UNCHANGED commitVars
  BY <1>5 DEF Approved, ApprovalIsHuman, LastReviewApproved,
              commitVars, vars, processVars, auxVars, candidateVars, evidenceVars, auditVars
<1>6. QED
  BY <1>1, <1>2, <1>3, <1>4, <1>5
     DEF CommitsNext, Extraction, SaveCandidate, LinkPrimary, LinkSource,
         ReplaceEvidence, SaveValues, StoreConflicts, SaveStatus

\* Run alone, no commit of an extraction ever shows a candidate approved or
\* exported that the last review did not approve, also when extractions are
\* cut short.
THEOREM AloneApprovalIsHuman ==
  ASSUME ~ OthersRun
  PROVE  CommitsSpec => []ApprovalIsHuman
<1>1. CommitsInit => Approved
  <2>1. Init => ApprovalIsHuman
    BY InitIInv DEF IInv
  <2>2. QED
    BY <2>1 DEF CommitsInit, Approved
<1>2. CommitsTyped /\ Underway /\ Underway' /\ Approved /\ [CommitsNext]_commitVars => Approved'
  BY NextApproved
<1>3. Approved => ApprovalIsHuman
  BY DEF Approved
<1>4. QED
  BY <1>1, <1>2, <1>3, CommitsTypesInvariant, AloneUnderway, PTL DEF CommitsSpec

\* An approval comes only with a review, when extractions run alone, also when
\* they are cut short: that another command runs meanwhile is what it takes to
\* approve without one.
THEOREM AloneOnlyReviewApproves ==
  ASSUME ~ OthersRun
  PROVE  CommitsSpec => OnlyReviewApproves
<1>1. CommitsTyped /\ Underway /\ Underway' /\ [CommitsNext]_commitVars =>
        [status' = "approved" /\ status # "approved" => reviews' # reviews]_commitVars
  <2> SUFFICES ASSUME CommitsTyped, Underway, Underway', CommitsNext,
                      status' = "approved", status # "approved"
               PROVE  reviews' # reviews
    OBVIOUS
  <2>1. CASE Extraction /\ pc # "idle" /\ ~ RefreshContext
    <3>1. RowProgress /\ RowProgress' /\ before' = before /\ pc' # "idle"
      BY <2>1, CommitStages DEF Underway
    <3>2. before.status = "approved"
      <4>1. \/ status' = before'.status
            \/ status' = FirstStatus'
            \/ status' = StatusAfterExtraction(before'.status, NewEvidence', NewNormalized', NewConflicts')
        BY <3>1 DEF RowProgress
      <4>2. FirstStatus' = "approved" => before'.status = "approved"
        BY DEF FirstStatus
      <4>3. \A ev, norm, cs : StatusAfterExtraction(before'.status, ev, norm, cs) = "approved"
              => before'.status = "approved"
        BY AutomaticStatusType DEF StatusAfterExtraction
      <4>4. QED
        BY <3>1, <4>1, <4>2, <4>3
    <3>3. status = "approved"
      <4>1. FirstStatus = "approved" /\ pc # "refresh"
        BY <2>1, <3>2 DEF FirstStatus, Extraction, Load, SaveCandidate, LinkPrimary, LinkSource,
             ReplaceEvidence, SaveValues, StoreConflicts, SaveStatus
      <4>2. QED
        BY <3>1, <3>2, <4>1 DEF RowProgress
    <3>4. QED
      BY <3>3
  <2>2. CASE OtherCommand
    <3>1. CASE \E given \in OverrideChoices, ack \in BOOLEAN : Approve(given, ack)
      <4>1. PICK given \in OverrideChoices, ack \in BOOLEAN : Approve(given, ack)
        BY <3>1
      <4>2. Len(reviews') = Len(reviews) + 1 /\ Len(reviews) \in Nat
        BY <4>1, ReviewAppended, LenProperties
           DEF Approve, Decisions, Statuses, CommitsTyped, TypeOK
      <4>3. QED
        BY <4>2
    <3>2. QED
      BY <2>2, <3>1
         DEF OtherCommand, Fetch, LoseCache, ApplyJobCountry, Resolve, Reject, ReturnToReview,
             Decide, Export
  <2>3. QED
    BY <2>1, <2>2
       DEF CommitsNext, Extraction, Load, SaveCandidate, LinkPrimary, LinkSource,
           ReplaceEvidence, SaveValues, StoreConflicts, SaveStatus, RefreshContext, Crash, vars
<1>2. QED
  BY <1>1, CommitsTypesInvariant, AloneUnderway, PTL DEF CommitsSpec, OnlyReviewApproves

(***************************************************************************)
(* What takes no crash and no other command                                *)
(***************************************************************************)

\* Between extractions nothing approved or exported has an open conflict.
SettledAtRest == pc = "idle" => NoApprovalOverOpenConflict

\* The last commit that changes the status has seen every conflict.
LEMMA NextSettled ==
  ASSUME ~ OthersRun, ~ MayCrash, CommitsTyped, Underway, ApprovalIsHuman, SettledAtRest,
         [CommitsNext]_commitVars
  PROVE  SettledAtRest'
<1>1. CASE RefreshContext
  <2>1. pc = "refresh" /\ UNCHANGED <<status, conflicts>>
    BY <1>1 DEF RefreshContext, evidenceVars
  <2>2. /\ conflicts = NewConflicts
        /\ status = StatusAfterExtraction(before.status, NewEvidence, NewNormalized, NewConflicts)
    BY <2>1 DEF Underway, RowProgress, TableProgress, OldEvidence
  <2>3. status \in {"approved", "exported"} => Open(conflicts) = {}
    BY <2>2, AutomaticStatusType DEF StatusAfterExtraction
  <2>4. QED
    BY <2>1, <2>3 DEF SettledAtRest, NoApprovalOverOpenConflict
<1>2. CASE OtherCommand
  <2>1. pc = "idle" /\ Next
    BY <1>2, OthersAreLifecycleSteps DEF OtherCommand
  <2>2. QED
    BY <2>1, NextHuman DEF SettledAtRest, CommitsTyped
<1>3. CASE Extraction /\ ~ RefreshContext
  <2>1. pc' # "idle"
    BY <1>3 DEF Extraction, Load, SaveCandidate, LinkPrimary, LinkSource, ReplaceEvidence,
                SaveValues, StoreConflicts, SaveStatus
  <2>2. QED
    BY <2>1 DEF SettledAtRest
<1>4. CASE UNCHANGED commitVars
  BY <1>4 DEF SettledAtRest, NoApprovalOverOpenConflict, commitVars, vars, processVars, evidenceVars
<1>5. QED
  BY <1>1, <1>2, <1>3, <1>4 DEF CommitsNext, Crash

\* Whenever no extraction is under way, no candidate is approved or exported
\* over an open conflict: the gate the core model keeps at every step is kept
\* by the commits taken together.
THEOREM AloneSettled ==
  ASSUME ~ OthersRun, ~ MayCrash
  PROVE  CommitsSpec => []SettledAtRest
<1>1. CommitsInit => SettledAtRest
  BY DEF CommitsInit, Init, SettledAtRest, NoApprovalOverOpenConflict
<1>2. CommitsTyped /\ Underway /\ ApprovalIsHuman /\ SettledAtRest /\ [CommitsNext]_commitVars
        => SettledAtRest'
  BY NextSettled
<1>3. QED
  BY <1>1, <1>2, CommitsTypesInvariant, AloneUnderway, AloneApprovalIsHuman, PTL DEF CommitsSpec

\* A field its evidence disputes has a settled conflict before a review may
\* approve: with one command at a time it takes an interruption to approve over
\* a contradiction no conflict row records.
THEOREM AloneContestedBlock ==
  ASSUME ~ OthersRun, ~ MayCrash
  PROVE  CommitsSpec => ContestedFieldsBlockApproval
<1>1. CommitsTyped /\ CurrentAtRest /\ [CommitsNext]_commitVars =>
        [reviews' # reviews /\ status' = "approved" =>
           {f \in Fields : Contested(Items(evidence, f, Primary))}
             \subseteq {c.field : c \in conflicts \ Open(conflicts)}]_commitVars
  <2> SUFFICES ASSUME CommitsTyped, CurrentAtRest, CommitsNext, reviews' # reviews,
                      status' = "approved", NEW f \in Fields,
                      Contested(Items(evidence, f, Primary))
               PROVE  \E c \in conflicts \ Open(conflicts) : c.field = f
    BY DEF Open
  <2>1. OtherCommand
    BY DEF CommitsNext, Extraction, Load, SaveCandidate, LinkPrimary, LinkSource,
           ReplaceEvidence, SaveValues, StoreConflicts, SaveStatus, RefreshContext, Crash,
           vars, auditVars
  <2>2. PICK given \in OverrideChoices, ack \in BOOLEAN : Approve(given, ack)
    BY <2>1 DEF OtherCommand, Fetch, LoseCache, ApplyJobCountry, Resolve, Reject,
                ReturnToReview, Decide, Export, auditVars
  <2>3. Open(conflicts) = {} /\ ConflictsCurrent
    BY <2>1, <2>2 DEF Approve, ApprovalAllowed, OtherCommand, CurrentAtRest
  <2>4. NewConflict(evidence, Primary, f) \in ConflictPairs(evidence, Primary)
    BY DEF ConflictPairs
  <2>5. PICK c \in conflicts : ConflictKey(c) = ConflictKey(NewConflict(evidence, Primary, f))
    BY <2>3, <2>4 DEF ConflictsCurrent
  <2>6. c.field = f
    BY <2>5 DEF ConflictKey, NewConflict
  <2>7. QED
    BY <2>3, <2>5, <2>6
<1>2. QED
  BY <1>1, CommitsTypesInvariant, UninterruptedCurrent, PTL
     DEF CommitsSpec, ContestedFieldsBlockApproval

\* No export ships a candidate whose country the operator and a source dispute,
\* with the context table refreshed in the last commit only.
THEOREM AloneCountryUncontradicted ==
  ASSUME ~ OthersRun, ~ MayCrash
  PROVE  CommitsSpec => ExportedCountryUncontradicted
<1>1. CommitsTyped /\ CurrentAtRest /\ [CommitsNext]_commitVars =>
        [exports' # exports /\ context # "none" => Contradictions(evidence) = {}]_vars
  <2> SUFFICES ASSUME CommitsTyped, CurrentAtRest, [CommitsNext]_commitVars, exports' # exports,
                      context # "none"
               PROVE  Contradictions(evidence) = {}
    OBVIOUS
  <2>1. OtherCommand
    BY DEF CommitsNext, Extraction, Load, SaveCandidate, LinkPrimary, LinkSource,
           ReplaceEvidence, SaveValues, StoreConflicts, SaveStatus, RefreshContext, Crash,
           commitVars, vars, auditVars
  <2>2. Export
    BY <2>1 DEF OtherCommand, Fetch, LoseCache, ApplyJobCountry, Resolve, Approve, Reject,
                ReturnToReview, Decide, auditVars
  <2>3. QED
    BY <2>1, <2>2 DEF Export, ExportAllowed, OtherCommand, CurrentAtRest, ContextConflictsCurrent
<1>2. QED
  BY <1>1, CommitsTypesInvariant, UninterruptedCurrent, PTL
     DEF CommitsSpec, ExportedCountryUncontradicted
=============================================================================
