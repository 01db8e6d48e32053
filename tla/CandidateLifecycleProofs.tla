---------------------- MODULE CandidateLifecycleProofs ----------------------
(***************************************************************************)
(* Theorems about CandidateLifecycle, for any fields, sources, page        *)
(* contents and bounds.                                                    *)
(*                                                                         *)
(* The inductive invariant is TypeOK, that normalized_data and the         *)
(* conflict table are functions of the stored evidence, and the two        *)
(* statements about human decisions.  On it rest the refinement of the     *)
(* review gate and, each with an invariant of its own, the theorems on     *)
(* source links and operator context, on overrides, on resolutions and on  *)
(* reruns that find nothing new.                                           *)
(***************************************************************************)
EXTENDS CandidateLifecycle, EvidenceResolutionProofs, SequenceTheorems

NormalizedCurrent == normalized = Normalized(evidence, Primary)

\* Conflicts belong to a candidate row.
NoConflictWithoutCandidate == status = "absent" => conflicts = {}

IInv ==
  /\ TypeOK
  /\ NoConflictWithoutCandidate
  /\ NormalizedCurrent
  /\ ConflictsCurrent
  /\ ApprovalIsHuman
  /\ NoApprovalOverOpenConflict

(***************************************************************************)
(* Types                                                                   *)
(***************************************************************************)

LEMMA MergeType ==
  ASSUME NEW old \in FieldValues, NEW new \in FieldValues
  PROVE  Merge(old, new) \in FieldValues
BY DEF Merge, FieldValues

LEMMA EffectiveDataType ==
  ASSUME NEW norm \in [Fields -> Values \cup {None}], NEW ctx, NEW ov \in FieldValues
  PROVE  EffectiveData(norm, ctx, ov) \in FieldValues
BY LifecycleConstants DEF EffectiveData, Merge, FieldValues

LEMMA AutomaticStatusType ==
  ASSUME NEW ev, NEW norm, NEW cs
  PROVE  /\ AutomaticStatus(ev, norm, cs) \in {"collected", "needs_review"}
         /\ Open(cs) # {} => AutomaticStatus(ev, norm, cs) = "needs_review"
BY DEF AutomaticStatus

LEMMA AttachSourceType ==
  ASSUME NEW rs \in [Sources -> {"none", "primary", "supporting"}],
         NEW s \in Sources, NEW role \in {"primary", "supporting"}
  PROVE  AttachSource(rs, s, role) \in [Sources -> {"none", "primary", "supporting"}]
BY DEF AttachSource

\* The values an action can select fit an override, a conflict and its record.
LEMMA SelectableType ==
  ASSUME NEW c \in Conflict, NEW action \in ResolutionActions,
         NEW v \in Selectable(c, action)
  PROVE  v \in Values \cup {None, Blank}
<1>1. c.first.val \in Values /\ c.second.val \in Values
  BY DEF Conflict, Evidence
<1>2. QED
  BY <1>1 DEF Selectable, ResolutionActions

\* The tables after an extraction are well formed.
LEMMA ExtractionTables ==
  ASSUME NEW ev \in SUBSET Evidence, NEW cs \in SUBSET Conflict,
         NEW s \in Sources, NEW page \in SUBSET Suggestion, NEW run \in Nat
  PROVE  /\ ReplaceForSource(ev, s, page, run) \in SUBSET Evidence
         /\ ReplaceConflicts(DropConflictsOf(cs, Obsolete(ev, s, page)),
              ConflictPairs(ReplaceForSource(ev, s, page, run), Primary))
              \in SUBSET Conflict
<1> DEFINE ev2 == ReplaceForSource(ev, s, page, run)
<1>1. ev2 \in SUBSET Evidence
  BY ReplaceForSourceType
<1>2. ConflictPairs(ev2, Primary) \in SUBSET Conflict
  BY <1>1, ConflictPairsRows
<1>3. DropConflictsOf(cs, Obsolete(ev, s, page)) \in SUBSET Conflict
  BY DEF DropConflictsOf
<1>4. QED
  BY <1>1, <1>2, <1>3 DEF ReplaceConflicts

LEMMA InitType == Init => TypeOK
BY LifecycleConstants DEF Init, TypeOK, NoValues, FieldValues, Statuses

LEMMA ExtractType ==
  ASSUME TypeOK, NEW s \in Sources, NEW attach \in BOOLEAN, Extract(s, attach)
  PROVE  TypeOK'
<1> USE LifecycleConstants
<1> DEFINE run == extractions + 1
           page == Content[stored[s]]
           ev == ReplaceForSource(evidence, s, page, run)
           norm == Normalized(ev, Primary)
           cs == ReplaceConflicts(DropConflictsOf(conflicts, Obsolete(evidence, s, page)),
                                  ConflictPairs(ev, Primary))
<1>1. /\ stored[s] \in Pages /\ page \in SUBSET Suggestion /\ run \in Nat
      /\ PageNotes[stored[s]] \subseteq Notes
  BY DEF TypeOK, Extract
<1>2. ev \in SUBSET Evidence /\ cs \in SUBSET Conflict
  BY <1>1, ExtractionTables DEF TypeOK
<1>3. norm \in [Fields -> Values \cup {None}]
  BY <1>2, NormalizedType
<1>4. evidence' = ev /\ conflicts' = cs /\ normalized' = norm /\ extractions' = run
  BY DEF Extract
<1>5. status' \in Statuses
  <2>1. status' = StatusAfterExtraction(status, ev, norm, cs)
    BY DEF Extract
  <2>2. QED
    BY <2>1, AutomaticStatusType DEF StatusAfterExtraction, Statuses, TypeOK
<1>6. warnings' \subseteq Notes \cup Fields
  BY <1>1 DEF Extract, TypeOK, ResolutionWarnings
<1>7. roles' \in [Sources -> {"none", "primary", "supporting"}]
  BY AttachSourceType DEF Extract, TypeOK
<1>8. context' \in {"none", "effective", "disabled"} /\ contextConflicts' \subseteq Evidence
  BY <1>2 DEF Extract, ContextAfter, ContextConflictsAfter, Contradictions
<1>9. QED
  BY <1>1, <1>2, <1>3, <1>4, <1>5, <1>6, <1>7, <1>8 DEF Extract, TypeOK, auditVars

LEMMA ResolveType ==
  ASSUME TypeOK, NEW c \in conflicts, NEW action \in ResolutionActions,
         Resolve(c, action)
  PROVE  TypeOK'
<1>1. PICK v \in Selectable(c, action) :
        /\ conflicts' = (conflicts \ {c}) \cup
             {[c EXCEPT !.status = IF v = None THEN "unresolved" ELSE "resolved",
                        !.value = v]}
        /\ overrides' = IF v = None THEN overrides
                        ELSE [overrides EXCEPT ![c.field] = v]
        /\ resolutions' = Append(resolutions,
             [field |-> c.field, action |-> action, selected |-> v])
  BY DEF Resolve
<1>2. c \in Conflict /\ v \in Values \cup {None, Blank}
  BY SelectableType DEF TypeOK
<1>3. conflicts' \subseteq Conflict
  BY <1>1, <1>2 DEF TypeOK, Conflict
<1>4. overrides' \in FieldValues
  BY <1>1, <1>2 DEF TypeOK, Conflict, FieldValues
<1>5. resolutions' \in Seq(Resolution)
  <2>1. [field |-> c.field, action |-> action, selected |-> v] \in Resolution
    BY <1>2 DEF Conflict, Resolution
  <2>2. QED
    BY <1>1, <2>1, AppendProperties DEF TypeOK
<1>6. QED
  BY <1>3, <1>4, <1>5 DEF Resolve, TypeOK, Statuses, contextVars

LEMMA DecideType ==
  ASSUME TypeOK, NEW given \in OverrideChoices, NEW decision \in Decisions,
         NEW resulting \in Statuses, Decide(decision, resulting, given),
         accepted' \in FieldValues
  PROVE  TypeOK'
<1>1. given \in FieldValues
  BY LifecycleConstants DEF FieldValues
<1>2. overrides' \in FieldValues
  BY <1>1, MergeType DEF Decide, TypeOK
<1>3. Len(reviews) \in Nat
  BY LenProperties DEF TypeOK
<1>4. approvedAt' \in Nat
  BY <1>3 DEF Decide
<1>5. reviews' \in Seq(Review)
  <2>1. [decision |-> decision, overrides |-> given,
         original |-> status, resulting |-> resulting] \in Review
    BY <1>1 DEF Review, TypeOK
  <2>2. QED
    BY <2>1, AppendProperties DEF Decide, TypeOK
<1>6. QED
  BY <1>2, <1>4, <1>5 DEF Decide, TypeOK, evidenceVars, contextVars

\* Every step keeps the types.
LEMMA NextType ==
  ASSUME TypeOK, [Next]_vars
  PROVE  TypeOK'
<1>1. ASSUME NEW s \in Sources, Fetch(s) \/ LoseCache(s)
      PROVE  TypeOK'
  BY <1>1, LifecycleConstants
     DEF Fetch, LoseCache, TypeOK, candidateVars, evidenceVars, contextVars, auditVars
<1>2. ASSUME NEW s \in Sources, NEW attach \in BOOLEAN, Extract(s, attach)
      PROVE  TypeOK'
  BY <1>2, ExtractType
<1>3. CASE ApplyJobCountry
  <2>1. context' \in {"none", "effective", "disabled"} /\ contextConflicts' \subseteq Evidence
    BY <1>3 DEF ApplyJobCountry, ContextAfter, ContextConflictsAfter, Contradictions, TypeOK
  <2>2. QED
    BY <1>3, <2>1 DEF ApplyJobCountry, TypeOK, candidateVars, evidenceVars, auditVars
<1>4. ASSUME NEW c \in conflicts, NEW action \in ResolutionActions, Resolve(c, action)
      PROVE  TypeOK'
  BY <1>4, ResolveType
<1>5. ASSUME NEW given \in OverrideChoices, NEW ack \in BOOLEAN, Approve(given, ack)
      PROVE  TypeOK'
  <2>1. given \in FieldValues
    BY LifecycleConstants DEF FieldValues
  <2>2. accepted' \in FieldValues
    BY <1>5, <2>1, MergeType, EffectiveDataType DEF Approve, TypeOK
  <2>3. QED
    BY <1>5, <2>2, DecideType DEF Approve, Decisions, Statuses
<1>6. ASSUME NEW given \in OverrideChoices, Reject(given) \/ ReturnToReview(given)
      PROVE  TypeOK'
  <2>1. accepted' \in FieldValues
    BY <1>6 DEF Reject, ReturnToReview, TypeOK
  <2>2. QED
    BY <1>6, <2>1, DecideType DEF Reject, ReturnToReview, Decisions, Statuses
<1>7. CASE Export
  BY <1>7 DEF Export, TypeOK, Statuses, candidateVars, evidenceVars, contextVars
<1>8. CASE UNCHANGED vars
  BY <1>8 DEF vars, TypeOK, candidateVars, evidenceVars, contextVars, auditVars
<1>9. QED
  BY <1>1, <1>2, <1>3, <1>4, <1>5, <1>6, <1>7, <1>8 DEF Next

(***************************************************************************)
(* Derived tables                                                          *)
(***************************************************************************)

\* normalized_data and conflict_records are what resolution makes of the
\* stored evidence: extraction recomputes both from all rows, a resolution
\* changes no conflict's key, and nothing else writes them.
LEMMA NextDerived ==
  ASSUME TypeOK, NormalizedCurrent, ConflictsCurrent, [Next]_vars
  PROVE  NormalizedCurrent' /\ ConflictsCurrent'
<1> USE DEF NormalizedCurrent, ConflictsCurrent
<1>1. ASSUME NEW s \in Sources, NEW attach \in BOOLEAN, Extract(s, attach)
      PROVE  NormalizedCurrent' /\ ConflictsCurrent'
  <2>1. normalized' = Normalized(evidence', Primary)
    BY <1>1 DEF Extract
  <2>2. PICK old : conflicts' = ReplaceConflicts(old, ConflictPairs(evidence', Primary))
    BY <1>1 DEF Extract
  <2>3. {ConflictKey(c) : c \in conflicts'}
          = {ConflictKey(c) : c \in ConflictPairs(evidence', Primary)}
    BY <2>2, ReplaceConflictsKeys
  <2>4. QED
    BY <2>1, <2>3
<1>2. ASSUME NEW c \in conflicts, NEW action \in ResolutionActions, Resolve(c, action)
      PROVE  NormalizedCurrent' /\ ConflictsCurrent'
  <2>1. PICK v \in Selectable(c, action) :
          conflicts' = (conflicts \ {c}) \cup
            {[c EXCEPT !.status = IF v = None THEN "unresolved" ELSE "resolved",
                       !.value = v]}
    BY <1>2 DEF Resolve
  <2> DEFINE d == [c EXCEPT !.status = IF v = None THEN "unresolved" ELSE "resolved",
                            !.value = v]
  <2>2. ConflictKey(d) = ConflictKey(c)
    BY DEF TypeOK, Conflict, ConflictKey
  <2>3. {ConflictKey(e) : e \in conflicts'} = {ConflictKey(e) : e \in conflicts}
    BY <2>1, <2>2
  <2>4. evidence' = evidence /\ normalized' = normalized
    BY <1>2 DEF Resolve
  <2>5. QED
    BY <2>3, <2>4
<1>3. CASE UNCHANGED <<evidence, conflicts, normalized>>
  BY <1>3
<1>4. QED
  BY <1>1, <1>2, <1>3
     DEF Next, Fetch, LoseCache, ApplyJobCountry, Approve, Reject, ReturnToReview,
         Decide, Export, vars, candidateVars, evidenceVars

LEMMA NextConflictOwner ==
  ASSUME TypeOK, NoConflictWithoutCandidate, [Next]_vars
  PROVE  NoConflictWithoutCandidate'
<1> USE DEF NoConflictWithoutCandidate
<1>1. ASSUME NEW s \in Sources, NEW attach \in BOOLEAN, Extract(s, attach)
      PROVE  status' # "absent"
  <2>1. PICK ev, norm : status' = StatusAfterExtraction(status, ev, norm, conflicts')
    BY <1>1 DEF Extract
  <2>2. QED
    BY <2>1, AutomaticStatusType DEF StatusAfterExtraction, HumanStatuses
<1>2. CASE UNCHANGED <<status, conflicts>>
  BY <1>2
<1>3. CASE status' # "absent"
  BY <1>3
<1>4. QED
  BY <1>1, <1>2, <1>3
     DEF Next, Fetch, LoseCache, ApplyJobCountry, Resolve, Approve, Reject,
         ReturnToReview, Decide, Export, vars, candidateVars, evidenceVars

(***************************************************************************)
(* Human decisions                                                         *)
(***************************************************************************)

\* Only a review changes the history of reviews, and then appends to it.
LEMMA ReviewAppended ==
  ASSUME TypeOK, NEW given \in OverrideChoices, NEW decision \in Decisions,
         NEW resulting \in Statuses, Decide(decision, resulting, given)
  PROVE  /\ Len(reviews') = Len(reviews) + 1
         /\ reviews'[Len(reviews) + 1].decision = decision
         /\ reviews' # <<>>
<1>1. given \in FieldValues
  BY LifecycleConstants DEF FieldValues
<1> DEFINE row == [decision |-> decision, overrides |-> given,
                   original |-> status, resulting |-> resulting]
<1>2. row \in Review
  BY <1>1 DEF Review, TypeOK
<1>3. reviews' = Append(reviews, row)
  BY DEF Decide
<1>4. reviews \in Seq(Review)
  BY DEF TypeOK
<1>5. Append(reviews, row)[Len(reviews) + 1] = row /\ Append(reviews, row) # <<>>
      /\ Len(Append(reviews, row)) = Len(reviews) + 1
  BY <1>2, <1>4, AppendProperties
<1>6. QED
  BY <1>3, <1>5

\* An approving review leaves no conflict open and dates the approval by
\* itself; extraction yields a human status only with no conflict open;
\* resolution and the other reviews leave the approved statuses.
LEMMA NextHuman ==
  ASSUME TypeOK, ApprovalIsHuman, NoApprovalOverOpenConflict, [Next]_vars
  PROVE  ApprovalIsHuman' /\ NoApprovalOverOpenConflict'
<1> USE DEF ApprovalIsHuman, NoApprovalOverOpenConflict
<1>1. ASSUME NEW s \in Sources, NEW attach \in BOOLEAN, Extract(s, attach)
      PROVE  ApprovalIsHuman' /\ NoApprovalOverOpenConflict'
  <2>1. \E ev, norm : status' = StatusAfterExtraction(status, ev, norm, conflicts')
    BY <1>1 DEF Extract
  <2>2. status' \in {"approved", "exported"} => status' = status /\ Open(conflicts') = {}
    BY <2>1, AutomaticStatusType DEF StatusAfterExtraction
  <2>3. approvedAt' = approvedAt /\ reviews' = reviews
    BY <1>1 DEF Extract, auditVars
  <2>4. QED
    BY <2>2, <2>3
<1>2. ASSUME NEW given \in OverrideChoices, NEW ack \in BOOLEAN, Approve(given, ack)
      PROVE  ApprovalIsHuman' /\ NoApprovalOverOpenConflict'
  <2>1. Decide("approve", "approved", given) /\ Open(conflicts) = {}
    BY <1>2 DEF Approve, ApprovalAllowed
  <2>2. /\ Len(reviews') = Len(reviews) + 1
        /\ reviews'[Len(reviews) + 1].decision = "approve"
    BY <2>1, ReviewAppended DEF Decisions, Statuses
  <2>3. approvedAt' = Len(reviews) + 1 /\ conflicts' = conflicts
    BY <2>1 DEF Decide, evidenceVars
  <2>4. Len(reviews) \in Nat
    BY LenProperties DEF TypeOK
  <2>5. QED
    BY <2>1, <2>2, <2>3, <2>4
<1>3. ASSUME NEW given \in OverrideChoices, Reject(given) \/ ReturnToReview(given)
      PROVE  ApprovalIsHuman' /\ NoApprovalOverOpenConflict'
  BY <1>3 DEF Reject, ReturnToReview, Decide
<1>4. ASSUME NEW c \in conflicts, NEW action \in ResolutionActions, Resolve(c, action)
      PROVE  ApprovalIsHuman' /\ NoApprovalOverOpenConflict'
  BY <1>4 DEF Resolve
<1>5. CASE Export
  BY <1>5 DEF Export, ExportAllowed, candidateVars, evidenceVars
<1>6. CASE UNCHANGED <<status, conflicts, approvedAt, reviews>>
  BY <1>6
<1>7. QED
  BY <1>1, <1>2, <1>3, <1>4, <1>5, <1>6
     DEF Next, Fetch, LoseCache, ApplyJobCountry, vars, candidateVars,
         evidenceVars, auditVars

(***************************************************************************)
(* Theorems                                                                *)
(***************************************************************************)

LEMMA InitIInv == Init => IInv
<1> SUFFICES ASSUME Init PROVE IInv
  OBVIOUS
<1>1. TypeOK
  BY InitType
<1>2. \A f \in Fields : Items(evidence, f, Primary) = {}
  BY DEF Init, Items
<1>3. NormalizedCurrent
  BY <1>2 DEF Init, NormalizedCurrent, Normalized, NormalizedValue, NoValues
<1>4. ConflictsCurrent
  BY <1>2 DEF Init, ConflictsCurrent, ConflictPairs, Contested, Agree, Strongest
<1>5. ApprovalIsHuman /\ NoApprovalOverOpenConflict
  BY DEF Init, ApprovalIsHuman, NoApprovalOverOpenConflict
<1>6. NoConflictWithoutCandidate
  BY DEF Init, NoConflictWithoutCandidate
<1>7. QED
  BY <1>1, <1>3, <1>4, <1>5, <1>6 DEF IInv

\* The inductive invariant of CandidateLifecycle.
THEOREM Invariance == Spec => []IInv
<1>1. IInv /\ [Next]_vars => IInv'
  BY NextType, NextConflictOwner, NextDerived, NextHuman DEF IInv
<1>2. QED
  BY InitIInv, <1>1, PTL DEF Spec

\* Every state is well typed, for all fields, sources, contents and bounds.
THEOREM TypeCorrect == Spec => []TypeOK
<1>1. IInv => TypeOK
  BY DEF IInv
<1>2. QED
  BY Invariance, <1>1, PTL

\* The conflict table always is exactly the disagreements of the evidence.
THEOREM ConflictsFollowEvidence == Spec => []ConflictsCurrent
<1>1. IInv => ConflictsCurrent
  BY DEF IInv
<1>2. QED
  BY Invariance, <1>1, PTL

\* Values recomputed from the evidence are what its strongest rows agree on.
LEMMA CurrentValuesFollow ==
  ASSUME TypeOK, NormalizedCurrent
  PROVE  NormalizedFollowsEvidence
<1> SUFFICES ASSUME NEW f \in Fields, NEW v \in Values
             PROVE  normalized[f] = v <=>
                      /\ \E e \in Strongest(Items(evidence, f, Primary)) :
                           e.val = v /\ e.conf # "low"
                      /\ \A e \in Strongest(Items(evidence, f, Primary)) : e.val = v
  BY DEF NormalizedFollowsEvidence
<1>1. normalized[f] = NormalizedValue(Items(evidence, f, Primary))
  BY DEF NormalizedCurrent, Normalized
<1>2. Items(evidence, f, Primary) \in SUBSET Evidence
  BY ItemsOfField DEF TypeOK
<1>3. QED
  BY <1>1, <1>2, NormalizedValueIsAgreed

\* normalized_data always is what the strongest evidence agrees on: the
\* policy of EXTRACTION_POLICY.md, for every history of extractions.
THEOREM ValuesFollowEvidence == Spec => []NormalizedFollowsEvidence
<1>1. IInv => NormalizedFollowsEvidence
  BY CurrentValuesFollow DEF IInv
<1>2. QED
  BY Invariance, <1>1, PTL

\* Approved and exported candidates carry the last review's approval.
THEOREM ApprovalOnlyByReview == Spec => []ApprovalIsHuman
<1>1. IInv => ApprovalIsHuman
  BY DEF IInv
<1>2. QED
  BY Invariance, <1>1, PTL

\* No candidate is approved or exported over an open evidence conflict.
THEOREM ApprovedWithoutConflict == Spec => []NoApprovalOverOpenConflict
<1>1. IInv => NoApprovalOverOpenConflict
  BY DEF IInv
<1>2. QED
  BY Invariance, <1>1, PTL

\* Only a reviewer resolves a conflict: no other step leaves a conflict
\* resolved that was not resolved before with the same rows and value.
THEOREM OnlyReviewersResolve == Spec => NoAutomaticResolution
<1>1. TypeOK /\ [Next]_vars =>
        [resolutions' = resolutions => conflicts' \ Open(conflicts') \subseteq conflicts]_vars
  <2> SUFFICES ASSUME TypeOK, Next, resolutions' = resolutions
               PROVE  conflicts' \ Open(conflicts') \subseteq conflicts
    OBVIOUS
  <2>1. ASSUME NEW s \in Sources, NEW attach \in BOOLEAN, Extract(s, attach)
        PROVE  conflicts' \ Open(conflicts') \subseteq conflicts
    <3> DEFINE ev == ReplaceForSource(evidence, s, Content[stored[s]], extractions + 1)
               kept == DropConflictsOf(conflicts, Obsolete(evidence, s, Content[stored[s]]))
               new == ConflictPairs(ev, Primary)
    <3>1. conflicts' = ReplaceConflicts(kept, new)
      BY <2>1 DEF Extract
    <3>2. \A c \in new : c.status = "unresolved"
      BY DEF ConflictPairs, NewConflict
    <3>3. \A c \in ReplaceConflicts(kept, new) : c.status # "unresolved" => c \in kept
      BY <3>2, ReplaceConflictsResolved
    <3>4. kept \subseteq conflicts
      BY DEF DropConflictsOf
    <3>5. QED
      BY <3>1, <3>3, <3>4 DEF Open
  <2>2. ASSUME NEW c \in conflicts, NEW action \in ResolutionActions, Resolve(c, action)
        PROVE  FALSE
    <3>1. PICK row : resolutions' = Append(resolutions, row)
                     /\ row \in Resolution
      <4>1. PICK v \in Selectable(c, action) :
              resolutions' = Append(resolutions,
                [field |-> c.field, action |-> action, selected |-> v])
        BY <2>2 DEF Resolve
      <4>2. c \in Conflict /\ v \in Values \cup {None, Blank}
        BY SelectableType DEF TypeOK
      <4>3. [field |-> c.field, action |-> action, selected |-> v] \in Resolution
        BY <4>2 DEF Conflict, Resolution
      <4>4. QED
        BY <4>1, <4>3
    <3>2. resolutions \in Seq(Resolution)
      BY DEF TypeOK
    <3>3. Len(Append(resolutions, row)) = Len(resolutions) + 1 /\ Len(resolutions) \in Nat
      BY <3>1, <3>2, AppendProperties, LenProperties
    <3>4. QED
      BY <3>1, <3>3
  <2>3. CASE conflicts' = conflicts
    BY <2>3
  <2>4. QED
    BY <2>1, <2>2, <2>3
       DEF Next, Fetch, LoseCache, ApplyJobCountry, Approve, Reject, ReturnToReview,
           Decide, Export, evidenceVars
<1>2. QED
  BY <1>1, TypeCorrect, PTL DEF Spec, NoAutomaticResolution

(***************************************************************************)
(* CandidateLifecycle implements ReviewGate                                *)
(***************************************************************************)

\* A review of the code is the gate's decision of the same name.
LEMMA DecideIsGateDecide ==
  ASSUME TypeOK, NEW given \in OverrideChoices, NEW decision \in Decisions,
         Decide(decision, Gate!Outcome[decision], given),
         decision = "approve" => Open(conflicts) = {}
  PROVE  Gate!Next
<1>1. Gate!Outcome[decision] \in Statuses /\ decision \in DOMAIN Gate!Outcome
  BY DEF Gate!Outcome, Decisions, Statuses
<1>2. LastDecision' = decision
  <2>1. /\ reviews' # <<>>
        /\ Len(reviews') = Len(reviews) + 1
        /\ reviews'[Len(reviews) + 1].decision = decision
    BY <1>1, ReviewAppended
  <2>2. QED
    BY <2>1 DEF LastDecision
<1>3. Gate!Decide(decision)
  BY <1>2 DEF Gate!Decide, Decide, evidenceVars
<1>4. QED
  BY <1>1, <1>3 DEF Gate!Next

\* Every step of the candidate is a step of the gate or leaves it alone.
LEMMA StepIsGateStep ==
  ASSUME IInv, [Next]_vars
  PROVE  [Gate!Next]_(Gate!gateVars)
<1> USE DEF Gate!gateVars
<1>0. TypeOK /\ NoApprovalOverOpenConflict
  BY DEF IInv
<1>1. ASSUME NEW s \in Sources, NEW attach \in BOOLEAN, Extract(s, attach)
      PROVE  Gate!Next
  <2>1. PICK ev, norm : status' = StatusAfterExtraction(status, ev, norm, conflicts')
    BY <1>1 DEF Extract
  <2>2. LastDecision' = LastDecision
    BY <1>1 DEF Extract, auditVars, LastDecision
  <2>3. AutomaticStatus(ev, norm, conflicts') \in {"collected", "needs_review"}
        /\ (Open(conflicts') # {} => AutomaticStatus(ev, norm, conflicts') = "needs_review")
    BY AutomaticStatusType
  <2>4. \/ Open(conflicts') # {} /\ status' = "needs_review"
        \/ Open(conflicts') = {} /\ status \in HumanStatuses /\ status' = status
        \/ /\ Open(conflicts') = {}
           /\ status \notin HumanStatuses
           /\ status' \in {"collected", "needs_review"}
    BY <2>1, <2>3 DEF StatusAfterExtraction
  <2>5. Gate!Collect
    BY <2>2, <2>4 DEF Gate!Collect, Gate!Human, HumanStatuses
  <2>6. QED
    BY <2>5 DEF Gate!Next
<1>2. ASSUME NEW c \in conflicts, NEW action \in ResolutionActions, Resolve(c, action)
      PROVE  Gate!Next
  <2>1. LastDecision' = LastDecision /\ status' = "needs_review"
    BY <1>2 DEF Resolve, LastDecision
  <2>2. status # "absent"
    BY DEF IInv, NoConflictWithoutCandidate
  <2>3. Gate!Settle
    BY <2>1, <2>2 DEF Gate!Settle
  <2>4. QED
    BY <2>3 DEF Gate!Next
<1>3. ASSUME NEW given \in OverrideChoices, NEW ack \in BOOLEAN, Approve(given, ack)
      PROVE  Gate!Next
  BY <1>0, <1>3, DecideIsGateDecide
     DEF Approve, ApprovalAllowed, Gate!Outcome, Decisions
<1>4. ASSUME NEW given \in OverrideChoices, Reject(given) \/ ReturnToReview(given)
      PROVE  Gate!Next
  BY <1>0, <1>4, DecideIsGateDecide DEF Reject, ReturnToReview, Gate!Outcome, Decisions
<1>5. CASE Export
  <2>1. LastDecision' = LastDecision /\ conflicts' = conflicts
    BY <1>5 DEF Export, LastDecision, evidenceVars
  <2>2. Gate!Ship
    BY <1>5, <2>1 DEF Export, ExportAllowed, Gate!Ship
  <2>3. QED
    BY <2>2 DEF Gate!Next
<1>6. CASE UNCHANGED <<status, conflicts, reviews>>
  BY <1>6 DEF LastDecision
<1>7. QED
  BY <1>1, <1>2, <1>3, <1>4, <1>5, <1>6
     DEF Next, Fetch, LoseCache, ApplyJobCountry, vars, evidenceVars, auditVars

\* Extraction, conflict resolution, review and export together keep to the
\* documented review workflow, for every candidate and every order of commands.
THEOREM LifecycleImplementsReviewGate == Spec => ImplementsReviewGate
<1>1. Init => Gate!Init
  BY DEF Init, Gate!Init, LastDecision, Open
<1>2. IInv /\ [Next]_vars => [Gate!Next]_(Gate!gateVars)
  BY StepIsGateStep
<1>3. QED
  BY <1>1, <1>2, Invariance, PTL DEF Spec, Gate!Spec, ImplementsReviewGate

(***************************************************************************)
(* Sources and context                                                     *)
(***************************************************************************)

\* The context conflicts are the contradictions of the stored evidence.
ContextConflictsCurrent ==
  contextConflicts = IF context = "none" THEN {} ELSE Contradictions(evidence)

SourceInv == OnePrimarySource /\ ContextCurrent /\ ContextConflictsCurrent

\* refresh_candidate leaves flag and conflicts as the evidence says.
LEMMA ContextRefreshed ==
  ASSUME NEW ctx \in {"none", "effective", "disabled"},
         context' = ContextAfter(ctx, evidence'),
         contextConflicts' = ContextConflictsAfter(ctx, evidence')
  PROVE  ContextCurrent' /\ ContextConflictsCurrent'
BY DEF ContextAfter, ContextConflictsAfter, ContextCurrent, ContextConflictsCurrent,
       Contradictions

\* Extraction links the primary source first and never demotes it.
LEMMA ExtractSources ==
  ASSUME TypeOK, SourceInv, NEW s \in Sources, NEW attach \in BOOLEAN, Extract(s, attach)
  PROVE  SourceInv'
<1>1. /\ context' = ContextAfter(context, evidence')
      /\ contextConflicts' = ContextConflictsAfter(context, evidence')
  BY DEF Extract
<1>2. ContextCurrent' /\ ContextConflictsCurrent'
  BY <1>1, ContextRefreshed DEF TypeOK
<1>3. status' # "absent"
  <2>1. PICK ev, norm, cs : status' = StatusAfterExtraction(status, ev, norm, cs)
    BY DEF Extract
  <2>2. QED
    BY <2>1, AutomaticStatusType DEF StatusAfterExtraction, HumanStatuses
<1>4. OnePrimarySource'
  <2> DEFINE role == IF attach THEN "supporting" ELSE "primary"
             linked == AttachSource(roles, Primary, "primary")
  <2>1. roles' = AttachSource(linked, s, role) /\ (~ attach => s = Primary)
    BY DEF Extract
  <2>2. roles \in [Sources -> {"none", "primary", "supporting"}] /\ Primary \in Sources
    BY LifecycleConstants DEF TypeOK
  <2>3. \A q \in Sources : linked[q] = "primary" <=> q = Primary
    BY <2>2 DEF AttachSource, SourceInv, OnePrimarySource
  <2>4. linked \in [Sources -> {"none", "primary", "supporting"}]
    BY <2>2, AttachSourceType
  <2> HIDE DEF linked
  <2>5. \A q \in Sources : roles'[q] = "primary" <=> q = Primary
    BY <2>1, <2>3, <2>4 DEF AttachSource
  <2>6. QED
    BY <1>3, <2>5 DEF OnePrimarySource
<1>5. QED
  BY <1>2, <1>4 DEF SourceInv

\* Only extraction links sources, and only it and the operator touch the
\* context; a candidate, once there, is never absent again.
LEMMA NextSources ==
  ASSUME TypeOK, NoConflictWithoutCandidate, SourceInv, [Next]_vars
  PROVE  SourceInv'
<1>1. ASSUME NEW s \in Sources, NEW attach \in BOOLEAN, Extract(s, attach)
      PROVE  SourceInv'
  BY <1>1, ExtractSources
<1>2. CASE ApplyJobCountry
  <2>1. ContextCurrent' /\ ContextConflictsCurrent'
    BY <1>2, ContextRefreshed DEF ApplyJobCountry, evidenceVars
  <2>2. OnePrimarySource'
    BY <1>2 DEF ApplyJobCountry, candidateVars, SourceInv, OnePrimarySource
  <2>3. QED
    BY <2>1, <2>2 DEF SourceInv
<1>3. CASE /\ UNCHANGED <<roles, evidence, context, contextConflicts>>
           /\ status' = "absent" <=> status = "absent"
  BY <1>3 DEF SourceInv, OnePrimarySource, ContextCurrent, ContextConflictsCurrent
<1>4. ASSUME NEW c \in conflicts, NEW action \in ResolutionActions, Resolve(c, action)
      PROVE  SourceInv'
  BY <1>3, <1>4 DEF Resolve, NoConflictWithoutCandidate, contextVars
<1>5. CASE Export
  BY <1>3, <1>5 DEF Export, ExportAllowed, candidateVars, evidenceVars, contextVars
<1>6. ASSUME NEW given \in OverrideChoices, NEW ack \in BOOLEAN,
             Approve(given, ack) \/ Reject(given) \/ ReturnToReview(given)
      PROVE  SourceInv'
  <2>1. /\ UNCHANGED <<roles, evidence, context, contextConflicts>>
        /\ status # "absent" /\ status' # "absent"
    BY <1>6 DEF Approve, Reject, ReturnToReview, Decide, evidenceVars, contextVars
  <2>2. QED
    BY <1>3, <2>1
<1>7. QED
  BY <1>1, <1>2, <1>3, <1>4, <1>5, <1>6
     DEF Next, Fetch, LoseCache, vars, candidateVars, evidenceVars, contextVars

\* Nothing is linked at the start.
LEMMA InitSources == Init => SourceInv
BY LifecycleConstants DEF Init, SourceInv, OnePrimarySource, ContextCurrent, ContextConflictsCurrent

\* Links and context follow the evidence and the row, in every state.
THEOREM SourcesInvariance == Spec => [](IInv /\ SourceInv)
<1>1. IInv /\ SourceInv /\ [Next]_vars => SourceInv'
  BY NextSources DEF IInv
<1>2. QED
  BY InitSources, Invariance, <1>1, PTL DEF Spec

\* The primary source keeps its role through every extraction, also when it is
\* extracted as a supporting one (attach_source), and no other gets it.
THEOREM PrimaryStays == Spec => []OnePrimarySource
<1>1. SourceInv => OnePrimarySource
  BY DEF SourceInv
<1>2. QED
  BY <1>1, SourcesInvariance, PTL

\* The operator's country is in force exactly while no stored evidence
\* contradicts it, whatever evidence comes and goes (refresh_candidate).
THEOREM ContextFollowsEvidence == Spec => []ContextCurrent
<1>1. SourceInv => ContextCurrent
  BY DEF SourceInv
<1>2. QED
  BY <1>1, SourcesInvariance, PTL

\* No export ships a candidate whose country the operator and a source dispute.
THEOREM DisputedCountryNotExported == Spec => ExportedCountryUncontradicted
<1>1. TypeOK /\ SourceInv /\ [Next]_vars =>
        [exports' # exports /\ context # "none" => Contradictions(evidence) = {}]_vars
  <2> SUFFICES ASSUME TypeOK, SourceInv, Next, exports' # exports, context # "none"
               PROVE  Contradictions(evidence) = {}
    OBVIOUS
  <2>1. Export
    BY DEF Next, Fetch, LoseCache, Extract, ApplyJobCountry, Resolve, Approve, Reject,
           ReturnToReview, Decide, auditVars
  <2>2. QED
    BY <2>1 DEF Export, ExportAllowed, SourceInv, ContextConflictsCurrent
<1>2. QED
  BY <1>1, TypeCorrect, SourcesInvariance, PTL DEF Spec, ExportedCountryUncontradicted

(***************************************************************************)
(* Overrides and resolutions                                               *)
(***************************************************************************)

\* Every field's override is in one of the audit tables.
LEMMA ResolutionAppended ==
  ASSUME TypeOK, NEW c \in conflicts, NEW action \in ResolutionActions,
         NEW v \in Selectable(c, action),
         resolutions' = Append(resolutions, [field |-> c.field, action |-> action, selected |-> v])
  PROVE  /\ Len(resolutions) \in Nat /\ Len(resolutions') = Len(resolutions) + 1
         /\ resolutions'[Len(resolutions')].field = c.field
         /\ resolutions'[Len(resolutions')].selected = v
         /\ \A i \in 1..Len(resolutions) : resolutions'[i] = resolutions[i]
<1> DEFINE row == [field |-> c.field, action |-> action, selected |-> v]
<1>1. row \in Resolution
  <2>1. c \in Conflict /\ v \in Values \cup {None, Blank}
    BY SelectableType DEF TypeOK
  <2>2. QED
    BY <2>1 DEF Conflict, Resolution
<1>2. resolutions \in Seq(Resolution)
  BY DEF TypeOK
<1>3. row.field = c.field /\ row.selected = v
  OBVIOUS
<1> HIDE DEF row
<1>4. QED
  BY <1>1, <1>2, <1>3, AppendProperties, LenProperties DEF row

\* A review's row keeps its overrides, and the rows before it stay.
LEMMA ReviewRecorded ==
  ASSUME TypeOK, NEW given \in OverrideChoices, NEW decision \in Decisions,
         NEW resulting \in Statuses, Decide(decision, resulting, given)
  PROVE  /\ Len(reviews) \in Nat /\ Len(reviews') = Len(reviews) + 1
         /\ reviews'[Len(reviews')].overrides = given
         /\ \A i \in 1..Len(reviews) : reviews'[i] = reviews[i]
<1> DEFINE row == [decision |-> decision, overrides |-> given,
                   original |-> status, resulting |-> resulting]
<1>1. row \in Review
  BY LifecycleConstants DEF FieldValues, Review, TypeOK
<1>2. reviews \in Seq(Review) /\ reviews' = Append(reviews, row)
  BY DEF TypeOK, Decide
<1>3. row.overrides = given
  OBVIOUS
<1> HIDE DEF row
<1>4. QED
  BY <1>1, <1>2, <1>3, AppendProperties, LenProperties

\* A resolution enters the override and its record together.
LEMMA ResolveAudited ==
  ASSUME TypeOK, OverridesAudited, NEW c \in conflicts, NEW action \in ResolutionActions,
         Resolve(c, action)
  PROVE  OverridesAudited'
<1>1. PICK v \in Selectable(c, action) :
        /\ overrides' = IF v = None THEN overrides ELSE [overrides EXCEPT ![c.field] = v]
        /\ resolutions' = Append(resolutions,
             [field |-> c.field, action |-> action, selected |-> v])
  BY DEF Resolve
<1>2. /\ Len(resolutions) \in Nat /\ Len(resolutions') = Len(resolutions) + 1
      /\ resolutions'[Len(resolutions')].field = c.field
      /\ resolutions'[Len(resolutions')].selected = v
      /\ \A i \in 1..Len(resolutions) : resolutions'[i] = resolutions[i]
  BY <1>1, ResolutionAppended
<1>3. reviews' = reviews
  BY DEF Resolve
<1>4. ASSUME NEW f \in Fields, overrides'[f] # None
      PROVE  \/ \E i \in 1..Len(reviews') : reviews'[i].overrides[f] = overrides'[f]
             \/ \E i \in 1..Len(resolutions') :
                  resolutions'[i].field = f /\ resolutions'[i].selected = overrides'[f]
  <2>1. CASE overrides'[f] = overrides[f]
    BY <1>2, <1>3, <1>4, <2>1 DEF OverridesAudited
  <2>2. CASE overrides'[f] # overrides[f]
    <3>1. f = c.field /\ overrides'[f] = v
      BY <1>1, <2>2 DEF TypeOK, FieldValues
    <3>2. Len(resolutions') \in 1..Len(resolutions')
      BY <1>2
    <3>3. QED
      BY <1>2, <3>1, <3>2
  <2>3. QED
    BY <2>1, <2>2
<1>5. QED
  BY <1>4 DEF OverridesAudited

\* A review records what it enters, whatever it decides.
LEMMA DecideAudited ==
  ASSUME TypeOK, OverridesAudited, NEW given \in OverrideChoices, NEW decision \in Decisions,
         NEW resulting \in Statuses, Decide(decision, resulting, given)
  PROVE  OverridesAudited'
<1>1. /\ Len(reviews) \in Nat /\ Len(reviews') = Len(reviews) + 1
      /\ reviews'[Len(reviews')].overrides = given
      /\ \A i \in 1..Len(reviews) : reviews'[i] = reviews[i]
  BY ReviewRecorded
<1>2. resolutions' = resolutions /\ overrides' = Merge(overrides, given)
  BY DEF Decide
<1>3. ASSUME NEW f \in Fields, overrides'[f] # None
      PROVE  \/ \E i \in 1..Len(reviews') : reviews'[i].overrides[f] = overrides'[f]
             \/ \E i \in 1..Len(resolutions') :
                  resolutions'[i].field = f /\ resolutions'[i].selected = overrides'[f]
  <2>1. CASE overrides'[f] = overrides[f]
    BY <1>1, <1>2, <1>3, <2>1 DEF OverridesAudited
  <2>2. CASE overrides'[f] = given[f]
    <3>1. Len(reviews') \in 1..Len(reviews')
      BY <1>1
    <3>2. QED
      BY <1>1, <2>2, <3>1
  <2>3. QED
    BY <1>2, <2>1, <2>2 DEF Merge
<1>4. QED
  BY <1>3 DEF OverridesAudited

\* Every step that writes an override appends the audit row with it.
LEMMA NextAudited ==
  ASSUME TypeOK, OverridesAudited, [Next]_vars
  PROVE  OverridesAudited'
<1>1. CASE UNCHANGED <<overrides, reviews, resolutions>>
  BY <1>1 DEF OverridesAudited
<1>2. ASSUME NEW c \in conflicts, NEW action \in ResolutionActions, Resolve(c, action)
      PROVE  OverridesAudited'
  BY <1>2, ResolveAudited
<1>3. ASSUME NEW given \in OverrideChoices, NEW ack \in BOOLEAN,
             Approve(given, ack) \/ Reject(given) \/ ReturnToReview(given)
      PROVE  OverridesAudited'
  <2>1. \E decision \in Decisions, resulting \in Statuses : Decide(decision, resulting, given)
    BY <1>3 DEF Approve, Reject, ReturnToReview, Decisions, Statuses
  <2>2. QED
    BY <2>1, DecideAudited
<1>4. QED
  BY <1>1, <1>2, <1>3
     DEF Next, Fetch, LoseCache, Extract, ApplyJobCountry, Export, vars, candidateVars, auditVars

\* Every override in force is in the reviews or in the resolutions with that
\* very value: no command sets one without its record (review_candidate,
\* resolve), and none is changed by extraction or export.
THEOREM EveryOverrideIsAudited == Spec => []OverridesAudited
<1>1. Init => OverridesAudited
  BY DEF Init, NoValues, OverridesAudited
<1>2. TypeOK /\ OverridesAudited /\ [Next]_vars => OverridesAudited'
  BY NextAudited
<1>3. QED
  BY <1>1, <1>2, TypeCorrect, PTL DEF Spec

-----------------------------------------------------------------------------

\* Stored conflicts refer to stored evidence, and a resolved one to its value.
ResolvedInv ==
  /\ \A c \in conflicts : {c.first, c.second} \subseteq evidence
  /\ ResolvedFromOfficialValues

\* A resolved conflict that survives an extraction was resolved before it.
LEMMA ExtractResolved ==
  ASSUME TypeOK, ResolvedInv, NEW s \in Sources, NEW attach \in BOOLEAN, Extract(s, attach)
  PROVE  ResolvedInv'
<1> DEFINE page == Content[stored[s]]
           gone == Obsolete(evidence, s, page)
           kept == DropConflictsOf(conflicts, gone)
           new == ConflictPairs(evidence', Primary)
<1>1. /\ conflicts' = ReplaceConflicts(kept, new) /\ overrides' = overrides
      /\ evidence \ gone \subseteq evidence'
  BY DEF Extract, ReplaceForSource
<1>2. evidence' \in SUBSET Evidence
  BY NextType DEF Next, TypeOK
<1>3. \A c \in new : c.status = "unresolved" /\ c.first \in evidence' /\ c.second \in evidence'
  BY <1>2, ConflictPairsRows
<1>4. \A c \in kept : c \in conflicts /\ c.first \in evidence' /\ c.second \in evidence'
  BY <1>1 DEF DropConflictsOf, ResolvedInv
<1> HIDE DEF kept, new
<1>5. \A c \in conflicts' : c \in kept \/ c \in new
  BY <1>1 DEF ReplaceConflicts
<1>6. QED
  BY <1>1, <1>3, <1>4, <1>5 DEF ResolvedInv, ResolvedFromOfficialValues, Open

\* What resolve selects is official, and becomes the override.
LEMMA ResolveResolved ==
  ASSUME TypeOK, ResolvedInv, NEW c \in conflicts, NEW action \in ResolutionActions,
         Resolve(c, action)
  PROVE  ResolvedInv'
<1>1. PICK v \in Selectable(c, action) :
        /\ conflicts' = (conflicts \ {c}) \cup
             {[c EXCEPT !.status = IF v = None THEN "unresolved" ELSE "resolved",
                        !.value = v]}
        /\ overrides' = IF v = None THEN overrides ELSE [overrides EXCEPT ![c.field] = v]
  BY DEF Resolve
<1> DEFINE d == [c EXCEPT !.status = IF v = None THEN "unresolved" ELSE "resolved",
                          !.value = v]
<1>2. c \in Conflict
  BY DEF TypeOK
<1>3. /\ d.field = c.field /\ d.first = c.first /\ d.second = c.second /\ d.value = v
      /\ d.status = IF v = None THEN "unresolved" ELSE "resolved"
  BY <1>2 DEF Conflict
<1>4. evidence' = evidence
  BY DEF Resolve
<1>5. v # None => v \in {c.first.val, c.second.val} \/ (v = Blank /\ c.field \notin ApprovalCoreFields)
  BY DEF Selectable, ResolutionActions
<1>6. \A f \in Fields : overrides[f] # None => overrides'[f] # None
  BY <1>1, <1>2 DEF TypeOK, FieldValues, Conflict
<1>7. v # None => overrides'[c.field] # None
  BY <1>1, <1>2 DEF TypeOK, FieldValues, Conflict
<1> HIDE DEF d
<1>8. conflicts' = (conflicts \ {c}) \cup {d}
  BY <1>1 DEF d
<1>9. \A e \in conflicts : e.field \in Fields
  BY DEF TypeOK, Conflict
<1>10. \A e \in conflicts' : {e.first, e.second} \subseteq evidence'
  BY <1>3, <1>4, <1>8 DEF ResolvedInv
<1>11. ASSUME NEW e \in conflicts', e.status # "unresolved"
       PROVE  /\ \/ e.value \in {e.first.val, e.second.val}
                 \/ e.value = Blank /\ e.field \notin ApprovalCoreFields
              /\ overrides'[e.field] # None
  <2>1. CASE e = d
    BY <1>3, <1>5, <1>7, <1>11, <2>1
  <2>2. CASE e \in conflicts
    BY <1>6, <1>9, <1>11, <2>2 DEF ResolvedInv, ResolvedFromOfficialValues, Open
  <2>3. QED
    BY <1>8, <2>1, <2>2
<1>12. QED
  BY <1>10, <1>11 DEF ResolvedInv, ResolvedFromOfficialValues, Open

\* Every step keeps resolutions official.
LEMMA NextResolved ==
  ASSUME TypeOK, ResolvedInv, [Next]_vars
  PROVE  ResolvedInv'
<1>1. ASSUME NEW s \in Sources, NEW attach \in BOOLEAN, Extract(s, attach)
      PROVE  ResolvedInv'
  BY <1>1, ExtractResolved
<1>2. ASSUME NEW c \in conflicts, NEW action \in ResolutionActions, Resolve(c, action)
      PROVE  ResolvedInv'
  BY <1>2, ResolveResolved
<1>3. CASE /\ UNCHANGED <<conflicts, evidence>>
           /\ \A f \in Fields : overrides[f] # None => overrides'[f] # None
  BY <1>3 DEF TypeOK, Conflict, ResolvedInv, ResolvedFromOfficialValues, Open
<1>4. ASSUME NEW given \in OverrideChoices, NEW ack \in BOOLEAN,
             Approve(given, ack) \/ Reject(given) \/ ReturnToReview(given)
      PROVE  ResolvedInv'
  <2>1. overrides' = Merge(overrides, given) /\ UNCHANGED <<conflicts, evidence>>
    BY <1>4 DEF Approve, Reject, ReturnToReview, Decide, evidenceVars
  <2>2. QED
    BY <1>3, <2>1 DEF Merge
<1>5. QED
  BY <1>1, <1>2, <1>3, <1>4
     DEF Next, Fetch, LoseCache, ApplyJobCountry, Export, vars, candidateVars, evidenceVars

\* What a resolution settled stays official: its value is one of its two
\* retained rows' or a blank of an optional field, and it is in force as an
\* override, through re-extractions and later reviews.
THEOREM ResolutionsAreOfficial == Spec => []ResolvedFromOfficialValues
<1>1. Init => ResolvedInv
  BY DEF Init, ResolvedInv, ResolvedFromOfficialValues
<1>2. TypeOK /\ ResolvedInv /\ [Next]_vars => ResolvedInv'
  BY NextResolved
<1>3. ResolvedInv => ResolvedFromOfficialValues
  BY DEF ResolvedInv
<1>4. QED
  BY <1>1, <1>2, <1>3, TypeCorrect, PTL DEF Spec

\* Each command that leaves or makes a candidate approved leaves its overrides
\* as they were, or takes them into the data it accepts.
LEMMA NextAccepted ==
  ASSUME TypeOK, OverridesWereAccepted, [Next]_vars
  PROVE  OverridesWereAccepted'
<1>1. ASSUME NEW s \in Sources, NEW attach \in BOOLEAN, Extract(s, attach)
      PROVE  OverridesWereAccepted'
  <2>1. PICK ev, norm, cs : status' = StatusAfterExtraction(status, ev, norm, cs)
    BY <1>1 DEF Extract
  <2>2. status' \in {"approved", "exported"} => status' = status
    BY <2>1, AutomaticStatusType DEF StatusAfterExtraction
  <2>3. UNCHANGED <<overrides, accepted>>
    BY <1>1 DEF Extract
  <2>4. QED
    BY <2>2, <2>3 DEF OverridesWereAccepted
<1>2. ASSUME NEW c \in conflicts, NEW action \in ResolutionActions, Resolve(c, action)
      PROVE  OverridesWereAccepted'
  BY <1>2 DEF Resolve, OverridesWereAccepted
<1>3. ASSUME NEW given \in OverrideChoices, NEW ack \in BOOLEAN, Approve(given, ack)
      PROVE  OverridesWereAccepted'
  <2>1. /\ overrides' = Merge(overrides, given)
        /\ accepted' = EffectiveData(normalized, context, Merge(overrides, given))
    BY <1>3 DEF Approve, Decide
  <2>2. QED
    BY <2>1 DEF OverridesWereAccepted, EffectiveData, Merge
<1>4. ASSUME NEW given \in OverrideChoices, Reject(given) \/ ReturnToReview(given)
      PROVE  OverridesWereAccepted'
  BY <1>4 DEF Reject, ReturnToReview, Decide, OverridesWereAccepted
<1>5. CASE Export
  BY <1>5 DEF Export, ExportAllowed, candidateVars, OverridesWereAccepted
<1>6. CASE UNCHANGED <<status, overrides, accepted>>
  BY <1>6 DEF OverridesWereAccepted
<1>7. QED
  BY <1>1, <1>2, <1>3, <1>4, <1>5, <1>6
     DEF Next, Fetch, LoseCache, ApplyJobCountry, vars, candidateVars

\* What an approved candidate has in place of extracted values is what its
\* approval accepted, however resolutions, reviews and extractions follow each
\* other (review_candidate, resolve, extract_source).
THEOREM ApprovalCoversOverrides == Spec => []OverridesWereAccepted
<1>1. Init => OverridesWereAccepted
  BY DEF Init, OverridesWereAccepted
<1>2. TypeOK /\ OverridesWereAccepted /\ [Next]_vars => OverridesWereAccepted'
  BY NextAccepted
<1>3. QED
  BY <1>1, <1>2, TypeCorrect, PTL DEF Spec

(***************************************************************************)
(* Extraction again                                                        *)
(***************************************************************************)

\* A row that is replaced is gone for good: what replaces it is not equal.
LEMMA ObsoleteRowsGo ==
  ASSUME NEW ev, NEW s, NEW page, NEW run
  PROVE  Obsolete(ev, s, page) \cap ReplaceForSource(ev, s, page, run) = {}
BY DEF Obsolete, ReplaceForSource, SameEvidence

\* An extraction that finds the same evidence keeps every conflict with its
\* resolution and every value (replace_for_source, replace_conflicts).
THEOREM UnchangedRerunsKeepResolutions == Spec => UnchangedRerunKeepsResolutions
<1>1. IInv /\ [Next]_vars =>
        [extractions' # extractions /\ evidence' = evidence
           => conflicts' = conflicts /\ normalized' = normalized]_vars
  <2> SUFFICES ASSUME IInv, Next, extractions' # extractions, evidence' = evidence
               PROVE  conflicts' = conflicts /\ normalized' = normalized
    OBVIOUS
  <2>1. PICK s \in Sources, attach \in BOOLEAN : Extract(s, attach)
    BY DEF Next, Fetch, LoseCache, ApplyJobCountry, Resolve, Approve, Reject,
           ReturnToReview, Decide, Export
  <2> DEFINE page == Content[stored[s]]
             gone == Obsolete(evidence, s, page)
             new == ConflictPairs(evidence, Primary)
  <2>2. /\ evidence' = ReplaceForSource(evidence, s, page, extractions + 1)
        /\ conflicts' = ReplaceConflicts(DropConflictsOf(conflicts, gone), new)
        /\ normalized' = Normalized(evidence, Primary)
    BY <2>1 DEF Extract
  <2>3. gone = {}
    BY <2>2, ObsoleteRowsGo DEF Obsolete
  <2>4. DropConflictsOf(conflicts, gone) = conflicts
    BY <2>3 DEF DropConflictsOf
  <2>5. {ConflictKey(c) : c \in conflicts} = {ConflictKey(c) : c \in new}
    BY DEF IInv, ConflictsCurrent
  <2>6. ReplaceConflicts(conflicts, new) = conflicts
    <3> HIDE DEF new
    <3>1. \A c \in conflicts : \E d \in new : ConflictKey(c) = ConflictKey(d)
      BY <2>5
    <3>2. \A d \in new : \E c \in conflicts : ConflictKey(c) = ConflictKey(d)
      BY <2>5
    <3>3. QED
      BY <3>1, <3>2 DEF ReplaceConflicts
  <2>7. QED
    BY <2>2, <2>4, <2>6 DEF IInv, NormalizedCurrent
<1>2. QED
  BY <1>1, Invariance, PTL DEF Spec, UnchangedRerunKeepsResolutions
=============================================================================
