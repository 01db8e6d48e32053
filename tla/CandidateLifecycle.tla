------------------------- MODULE CandidateLifecycle -------------------------
(***************************************************************************)
(* One programme candidate from its first extraction to its export, with   *)
(* every command of the command line as one atomic step: fetching a page,  *)
(* extracting it (primary or supporting), applying the job's country,      *)
(* resolving a conflict, reviewing, exporting.  This is how the program    *)
(* behaves when commands are run one at a time and none is interrupted;    *)
(* ExtractionCommits splits the extraction at its database commits, and    *)
(* only there does a candidate rest in status discovered.                  *)
(***************************************************************************)
EXTENDS EvidenceResolution, Sequences

CONSTANTS
  CoreFields,          \* CORE_FIELDS: extraction completeness
  ApprovalCoreFields,  \* APPROVAL_CORE_FIELDS: also the country
  CountryField,        \* "country_code", the one field context may supply
  CategoryField,       \* "field_category", required by export alone
  Primary,             \* the candidate's source_page_id
  JobCountry,          \* the job's country code
  Pages,               \* contents a page can have
  PagesOf,             \* the contents each source can return
  Content,             \* what the extractor suggests for a content
  Notes, PageNotes,    \* the extractor's own warnings, by content
  OverrideChoices,     \* field overrides a reviewer may enter
  MaxExtractions, MaxReviews, MaxResolutions, MaxExports

ASSUME LifecycleConstants ==
  /\ CoreFields \subseteq ApprovalCoreFields
  /\ ApprovalCoreFields \subseteq Fields
  /\ UrlField \in CoreFields
  /\ CountryField \in ApprovalCoreFields \ CoreFields
  /\ CategoryField \in Fields \ ApprovalCoreFields
  /\ Primary \in Sources
  /\ JobCountry \in Values \ RawValues
  /\ PagesOf \in [Sources -> SUBSET Pages]
  /\ Content \in [Pages -> SUBSET Suggestion]
  /\ PageNotes \in [Pages -> SUBSET Notes]
  /\ OverrideChoices \subseteq [Fields -> Values \cup {Blank, None}]
  /\ None \notin Pages
  /\ {MaxExtractions, MaxReviews, MaxResolutions, MaxExports} \subseteq Nat

VARIABLES
  stored,       \* intact cached content of each source, or None
  status,       \* review_status, "absent" while there is no candidate row
  normalized,   \* normalized_data
  overrides,    \* reviewer_overrides
  warnings,     \* extraction_warnings
  approvedAt,   \* approved_at: the number of the approving review, or 0
  roles,        \* candidate_sources
  evidence,     \* extraction_evidence
  conflicts,    \* conflict_records
  context,      \* the candidate_context_values row: none, effective, disabled
  contextConflicts, \* context_conflicts, by the contradicting evidence
  reviews,      \* candidate_reviews, oldest first
  resolutions,  \* conflict_resolutions, oldest first
  exports,      \* export_candidates rows of this candidate
  extractions   \* extractions run so far: the clock of created_at

\* Not in the code: the effective values at the last approval.
VARIABLE accepted

candidateVars == <<normalized, overrides, warnings, approvedAt, roles>>
evidenceVars == <<evidence, conflicts>>
contextVars == <<context, contextConflicts>>
auditVars == <<reviews, resolutions, exports>>
vars == <<stored, status, candidateVars, evidenceVars, contextVars,
          auditVars, extractions, accepted>>

Statuses == {"absent", "discovered", "collected", "needs_review", "approved",
             "rejected", "exported"}
HumanStatuses == {"approved", "rejected", "exported"}
Decisions == {"approve", "reject", "return_to_review"}
ResolutionActions == {"select_first", "select_second", "reviewer_override",
                      "clear_optional_field", "keep_unresolved"}

FieldValues == [Fields -> Values \cup {None, Blank}]

Review == [decision: Decisions, overrides: FieldValues,
           original: Statuses, resulting: Statuses]
Resolution == [field: Fields, action: ResolutionActions,
               selected: Values \cup {None, Blank}]

TypeOK ==
  /\ stored \in [Sources -> Pages \cup {None}]
  /\ status \in Statuses
  /\ normalized \in [Fields -> Values \cup {None}]
  /\ overrides \in FieldValues
  /\ warnings \subseteq Notes \cup Fields
  /\ approvedAt \in Nat
  /\ roles \in [Sources -> {"none", "primary", "supporting"}]
  /\ evidence \subseteq Evidence
  /\ conflicts \subseteq Conflict
  /\ context \in {"none", "effective", "disabled"}
  /\ contextConflicts \subseteq Evidence
  /\ reviews \in Seq(Review)
  /\ resolutions \in Seq(Resolution)
  /\ exports \in Nat
  /\ extractions \in Nat
  /\ accepted \in FieldValues

NoValues == [f \in Fields |-> None]

Init ==
  /\ stored = [s \in Sources |-> None]
  /\ status = "absent"
  /\ normalized = NoValues
  /\ overrides = NoValues
  /\ warnings = {}
  /\ approvedAt = 0
  /\ roles = [s \in Sources |-> "none"]
  /\ evidence = {}
  /\ conflicts = {}
  /\ context = "none"
  /\ contextConflicts = {}
  /\ reviews = <<>>
  /\ resolutions = <<>>
  /\ exports = 0
  /\ extractions = 0
  /\ accepted = NoValues

(***************************************************************************)
(* Effective values and the checks made on them                            *)
(***************************************************************************)

\* dict.update: the fields given in new replace those in old.
Merge(old, new) == [f \in Fields |-> IF new[f] # None THEN new[f] ELSE old[f]]

\* effective_candidate_data: extracted values, then operator context where
\* nothing was extracted, then reviewer overrides on top.
EffectiveData(norm, ctx, ov) ==
  Merge([f \in Fields |->
           IF norm[f] = None /\ f = CountryField /\ ctx = "effective"
           THEN JobCountry ELSE norm[f]],
        ov)

Effective == EffectiveData(normalized, context, overrides)

Missing(data, required) == {f \in required : data[f] \in {None, Blank}}

\* validate_overrides, on the values it would be given.
Valid(data) == \A f \in Fields : data[f] \notin RawValues

\* Evidence that a stored context value does not survive.
Contradictions(ev) ==
  {e \in ev : e.field = CountryField /\ e.val \notin RawValues \cup {JobCountry}}

AttachedSources == {s \in Sources : roles[s] # "none"}

(***************************************************************************)
(* Source pages                                                            *)
(***************************************************************************)

\* fetch_url succeeds: the page's current content is cached.
Fetch(s) ==
  /\ \E p \in PagesOf[s] : stored' = [stored EXCEPT ![s] = p]
  /\ UNCHANGED <<status, candidateVars, evidenceVars, contextVars, auditVars,
                 extractions, accepted>>

\* A failed refresh overwrites the hash and path with nothing; a lost or
\* damaged cache file has the same effect on every reader.
LoseCache(s) ==
  /\ stored[s] # None
  /\ stored' = [stored EXCEPT ![s] = None]
  /\ UNCHANGED <<status, candidateVars, evidenceVars, contextVars, auditVars,
                 extractions, accepted>>

(***************************************************************************)
(* Extraction                                                              *)
(***************************************************************************)

\* Mutant: the elif of attach_source without its condition.
AttachSource_Demotes(rs, s, role) == [rs EXCEPT ![s] = role]

\* attach_source: a primary source is never demoted.
AttachSource(rs, s, role) ==
  IF rs[s] = "primary" THEN rs ELSE [rs EXCEPT ![s] = role]

LowConfidenceCore(ev) == {e.field : e \in {d \in ev : d.conf = "low"}} \cap CoreFields

\* What the evidence alone says of the candidate.
AutomaticStatus(ev, norm, cs) ==
  IF Missing(norm, CoreFields) = {} /\ Open(cs) = {} /\ LowConfidenceCore(ev) = {}
  THEN "collected" ELSE "needs_review"

\* Mutant: human statuses are not overwritten, whatever the conflicts.
StatusAfterExtraction_HumanStands(st, ev, norm, cs) ==
  IF st \in HumanStatuses THEN st ELSE AutomaticStatus(ev, norm, cs)

\* The status extraction leaves: a human status stands unless a conflict is open.
StatusAfterExtraction(st, ev, norm, cs) ==
  IF Open(cs) # {} \/ st \notin HumanStatuses
  THEN AutomaticStatus(ev, norm, cs) ELSE st

\* Mutant: the flag is set once and never recomputed.
ContextAfter_Sticky(ctx, ev) == ctx

\* refresh_candidate: the conflicts are rebuilt and the flag recomputed.
ContextAfter(ctx, ev) ==
  IF ctx = "none" THEN "none"
  ELSE IF Contradictions(ev) = {} THEN "effective" ELSE "disabled"

\* Mutant: a context already disabled is skipped after its conflicts are deleted.
ContextConflictsAfter_EffectiveOnly(ctx, ev) ==
  IF ctx = "effective" THEN Contradictions(ev) ELSE {}

ContextConflictsAfter(ctx, ev) ==
  IF ctx = "none" THEN {} ELSE Contradictions(ev)

\* extract_source(s), with candidate_id given when attach.
Extract(s, attach) ==
  /\ extractions < MaxExtractions
  /\ stored[s] # None
  /\ Content[stored[s]] # {}
  /\ IF attach THEN status # "absent" ELSE s = Primary
  /\ LET run == extractions + 1
         page == Content[stored[s]]
         gone == Obsolete(evidence, s, page)
         ev == ReplaceForSource(evidence, s, page, run)
         norm == Normalized(ev, Primary)
         cs == ReplaceConflicts(DropConflictsOf(conflicts, gone),
                                ConflictPairs(ev, Primary))
     IN  /\ extractions' = run
         /\ evidence' = ev
         /\ conflicts' = cs
         /\ normalized' = norm
         /\ warnings' = warnings \cup PageNotes[stored[s]]
                          \cup ResolutionWarnings(ev, Primary)
         /\ status' = StatusAfterExtraction(status, ev, norm, cs)
         /\ context' = ContextAfter(context, ev)
         /\ contextConflicts' = ContextConflictsAfter(context, ev)
  /\ roles' = AttachSource(AttachSource(roles, Primary, "primary"), s,
                           IF attach THEN "supporting" ELSE "primary")
  /\ UNCHANGED <<stored, overrides, approvedAt, auditVars, accepted>>

(***************************************************************************)
(* Operator context                                                        *)
(***************************************************************************)

\* apply_job_country: insert the row if it is not there, then refresh.
ApplyJobCountry ==
  /\ status # "absent"
  /\ context' = ContextAfter("effective", evidence)
  /\ contextConflicts' = ContextConflictsAfter("effective", evidence)
  /\ UNCHANGED <<stored, status, candidateVars, evidenceVars, auditVars,
                 extractions, accepted>>

(***************************************************************************)
(* Conflict resolution                                                     *)
(***************************************************************************)

\* Mutant: core fields may be cleared like optional ones.
Selectable_ClearsCore(c, action) ==
  CASE action = "select_first" -> {c.first.val}
    [] action = "select_second" -> {c.second.val}
    [] action = "reviewer_override" -> {c.first.val, c.second.val} \ RawValues
    [] action = "clear_optional_field" -> {Blank}
    [] action = "keep_unresolved" -> {None}

\* The values an action may select on a conflict.
Selectable(c, action) ==
  CASE action = "select_first" -> {c.first.val}
    [] action = "select_second" -> {c.second.val}
    [] action = "reviewer_override" -> {c.first.val, c.second.val} \ RawValues
    [] action = "clear_optional_field" ->
         IF c.field \in ApprovalCoreFields THEN {} ELSE {Blank}
    [] action = "keep_unresolved" -> {None}

\* Mutant: reopening a conflict forgets to withdraw the human status.
Resolve_KeepsStatus(c, action) ==
  /\ Len(resolutions) < MaxResolutions
  /\ \E v \in Selectable(c, action) :
       /\ conflicts' = (conflicts \ {c}) \cup
            {[c EXCEPT !.status = IF v = None THEN "unresolved" ELSE "resolved",
                       !.value = v]}
       /\ overrides' = IF v = None THEN overrides
                       ELSE [overrides EXCEPT ![c.field] = v]
       /\ resolutions' = Append(resolutions,
            [field |-> c.field, action |-> action, selected |-> v])
  /\ UNCHANGED <<status, stored, normalized, warnings, approvedAt, roles, evidence,
                 contextVars, reviews, exports, extractions, accepted>>

\* resolve: the conflict, the override that carries the choice, the status
\* and the audit row change together; approved_at is left as it was.
Resolve(c, action) ==
  /\ Len(resolutions) < MaxResolutions
  /\ \E v \in Selectable(c, action) :
       /\ conflicts' = (conflicts \ {c}) \cup
            {[c EXCEPT !.status = IF v = None THEN "unresolved" ELSE "resolved",
                       !.value = v]}
       /\ overrides' = IF v = None THEN overrides
                       ELSE [overrides EXCEPT ![c.field] = v]
       /\ resolutions' = Append(resolutions,
            [field |-> c.field, action |-> action, selected |-> v])
  /\ status' = "needs_review"
  /\ UNCHANGED <<stored, normalized, warnings, approvedAt, roles, evidence,
                 contextVars, reviews, exports, extractions, accepted>>

(***************************************************************************)
(* Review                                                                  *)
(***************************************************************************)

\* _validate_approval, on the effective data the new overrides would give.
\* Warnings that are not acknowledged block too.
ApprovalAllowed(data, acknowledged) ==
  /\ AttachedSources # {}
  /\ \A s \in AttachedSources : stored[s] # None
  /\ Open(conflicts) = {}
  /\ contextConflicts = {}
  /\ Missing(data, ApprovalCoreFields) = {}
  /\ Valid(data)
  /\ warnings # {} => acknowledged

\* Mutant: a later approval keeps the date of the first.
Decide_KeepsFirstDate(decision, resulting, given) ==
  /\ status # "absent"
  /\ Len(reviews) < MaxReviews
  /\ Valid(given)
  /\ overrides' = Merge(overrides, given)
  /\ status' = resulting
  /\ approvedAt' = IF approvedAt = 0 /\ resulting = "approved" THEN Len(reviews) + 1
                   ELSE approvedAt
  /\ reviews' = Append(reviews, [decision |-> decision, overrides |-> given,
                                 original |-> status, resulting |-> resulting])
  /\ UNCHANGED <<stored, normalized, warnings, roles, evidenceVars,
                 contextVars, resolutions, exports, extractions>>

\* Mutant: overrides given with a rejection or a return leave no record.
Decide_RecordsApprovalsOnly(decision, resulting, given) ==
  /\ status # "absent"
  /\ Len(reviews) < MaxReviews
  /\ Valid(given)
  /\ overrides' = Merge(overrides, given)
  /\ status' = resulting
  /\ approvedAt' = IF resulting = "approved" THEN Len(reviews) + 1 ELSE 0
  /\ reviews' = Append(reviews,
       [decision |-> decision,
        overrides |-> IF decision = "approve" THEN given ELSE NoValues,
        original |-> status, resulting |-> resulting])
  /\ UNCHANGED <<stored, normalized, warnings, roles, evidenceVars,
                 contextVars, resolutions, exports, extractions>>

\* review_candidate.
Decide(decision, resulting, given) ==
  /\ status # "absent"
  /\ Len(reviews) < MaxReviews
  /\ Valid(given)
  /\ overrides' = Merge(overrides, given)
  /\ status' = resulting
  /\ approvedAt' = IF resulting = "approved" THEN Len(reviews) + 1 ELSE 0
  /\ reviews' = Append(reviews, [decision |-> decision, overrides |-> given,
                                 original |-> status, resulting |-> resulting])
  /\ UNCHANGED <<stored, normalized, warnings, roles, evidenceVars,
                 contextVars, resolutions, exports, extractions>>

Approve(given, acknowledged) ==
  LET data == EffectiveData(normalized, context, Merge(overrides, given))
  IN  /\ ApprovalAllowed(data, acknowledged)
      /\ Decide("approve", "approved", given)
      /\ accepted' = data

Reject(given) ==
  /\ Decide("reject", "rejected", given)
  /\ UNCHANGED accepted

ReturnToReview(given) ==
  /\ Decide("return_to_review", "needs_review", given)
  /\ UNCHANGED accepted

(***************************************************************************)
(* Export                                                                  *)
(***************************************************************************)

\* _blocking_error finds nothing.
ExportAllowed ==
  /\ status \in {"approved", "exported"}
  /\ Open(conflicts) = {}
  /\ contextConflicts = {}
  /\ Missing(Effective, ApprovalCoreFields \cup {CategoryField}) = {}
  /\ Valid(Effective)

\* export_programs selecting this candidate.
Export ==
  /\ exports < MaxExports
  /\ ExportAllowed
  /\ status' = "exported"
  /\ exports' = exports + 1
  /\ UNCHANGED <<stored, candidateVars, evidenceVars, contextVars, reviews,
                 resolutions, extractions, accepted>>

-----------------------------------------------------------------------------

Next ==
  \/ \E s \in Sources : Fetch(s) \/ LoseCache(s)
  \/ \E s \in Sources, attach \in BOOLEAN : Extract(s, attach)
  \/ ApplyJobCountry
  \/ \E c \in conflicts, action \in ResolutionActions : Resolve(c, action)
  \/ \E given \in OverrideChoices, ack \in BOOLEAN : Approve(given, ack)
  \/ \E given \in OverrideChoices : Reject(given) \/ ReturnToReview(given)
  \/ Export

Spec == Init /\ [][Next]_vars

(***************************************************************************)
(* Safety                                                                  *)
(***************************************************************************)

\* Whatever order sources are extracted, refreshed and re-extracted in, the
\* stored conflicts are exactly the disagreements of the stored evidence, one
\* per contested field: none is lost when evidence is replaced, none outlives
\* its evidence (replace_for_source, replace_conflicts).
ConflictsCurrent ==
  {ConflictKey(c) : c \in conflicts}
    = {ConflictKey(c) : c \in ConflictPairs(evidence, Primary)}

\* normalized_data holds, for every field, the one value the strongest
\* evidence agrees on, and nothing when that evidence is weak or divided
\* (EXTRACTION_POLICY: low confidence and contradictions are excluded).
NormalizedFollowsEvidence ==
  \A f \in Fields :
    LET items == Items(evidence, f, Primary)
    IN  \A v \in Values :
          normalized[f] = v <=>
            /\ \E e \in Strongest(items) : e.val = v /\ e.conf # "low"
            /\ \A e \in Strongest(items) : e.val = v

\* A candidate is approved or exported only by the decision of the last
\* review, and carries that review's date: extraction, context and export
\* never approve, and every later human step that withdraws the approval
\* takes the status with it.
ApprovalIsHuman ==
  status \in {"approved", "exported"} =>
    /\ approvedAt = Len(reviews)
    /\ approvedAt # 0
    /\ reviews[approvedAt].decision = "approve"

\* A candidate with an open evidence conflict is never approved or exported,
\* however the conflict came about: by new evidence, by a reviewer who
\* reopened it, or before the review.
NoApprovalOverOpenConflict ==
  status \in {"approved", "exported"} => Open(conflicts) = {}

\* A resolved conflict carries a value one of its two retained evidence rows
\* states, or a blank on an optional field, and an override took effect for
\* that field (resolve, re-extraction and later reviews together).
ResolvedFromOfficialValues ==
  \A c \in conflicts \ Open(conflicts) :
    /\ {c.first, c.second} \subseteq evidence
    /\ \/ c.value \in {c.first.val, c.second.val}
       \/ c.value = Blank /\ c.field \notin ApprovalCoreFields
    /\ overrides[c.field] # None

\* Every override in force was entered by a reviewer: the history of reviews
\* or of conflict resolutions holds that very value for that field.
OverridesAudited ==
  \A f \in Fields : overrides[f] # None =>
    \/ \E i \in 1..Len(reviews) : reviews[i].overrides[f] = overrides[f]
    \/ \E i \in 1..Len(resolutions) :
         resolutions[i].field = f /\ resolutions[i].selected = overrides[f]

\* An approval covers every override in force: one that outlives the conflict
\* it settled, is replaced by a later resolution or comes with a rejection is
\* shipped only if a human accepted that very value with all the others.
OverridesWereAccepted ==
  status \in {"approved", "exported"} =>
    \A f \in Fields : overrides[f] # None => accepted[f] = overrides[f]

\* The operator's country, once applied, is in force exactly while no source
\* states another one: evidence replaced after it was applied disables it, and
\* evidence withdrawn enables it again (refresh_candidate).
ContextCurrent ==
  context = "effective" <=> context # "none" /\ Contradictions(evidence) = {}

\* The primary source keeps its role through supporting extractions, also of
\* itself, and no other source ever gets it.
OnePrimarySource ==
  \A s \in Sources : roles[s] = "primary" <=> s = Primary /\ status # "absent"

\* Evidence comes only from sources attached to the candidate, so approval's
\* cache check covers every page a value was taken from.
EvidenceFromAttachedSources == \A e \in evidence : roles[e.src] # "none"

\* The human decision in force, the candidate's status and whether an evidence
\* conflict is open move together as the documented review workflow allows
\* (ReviewGate): extraction never approves, approval and export need every
\* conflict settled, settling a conflict returns the candidate to review.
LastDecision == IF reviews = <<>> THEN "none" ELSE reviews[Len(reviews)].decision

Gate == INSTANCE ReviewGate WITH decision <- LastDecision, open <- (Open(conflicts) # {})

ImplementsReviewGate == Gate!Spec

(***************************************************************************)
(* Action properties                                                       *)
(***************************************************************************)

\* Only a reviewer resolves: a conflict that a step without a new resolution
\* record leaves resolved was resolved before it, with the same evidence and
\* the same value; evidence that changes the pair reopens the question.
NoAutomaticResolution ==
  [][resolutions' = resolutions =>
       conflicts' \ Open(conflicts') \subseteq conflicts]_vars

\* Unchanged re-extraction is idempotent: when an extraction leaves the
\* evidence as it was, every conflict keeps its resolution and the normalised
\* values stay (REVIEW_WORKFLOW: unchanged re-extraction preserves a resolution).
UnchangedRerunKeepsResolutions ==
  [][extractions' # extractions /\ evidence' = evidence
     => conflicts' = conflicts /\ normalized' = normalized]_vars

\* Nothing is exported while the operator's country and a source's disagree,
\* even when the country shipped is a reviewer's override: the table export
\* looks at keeps up with the evidence.
ExportedCountryUncontradicted ==
  [][exports' # exports /\ context # "none" => Contradictions(evidence) = {}]_vars

(***************************************************************************)
(* What the documents say and the code does not do                         *)
(***************************************************************************)

\* REVIEW_WORKFLOW.md: "approved: a human explicitly accepted the effective
\* values".
ApprovedValuesWereAccepted ==
  status = "approved" => Effective = accepted

\* REVIEW_WORKFLOW.md: "materially different evidence reopens a conflict": a
\* value no evidence had before, as strong as the two in conflict.
NewValueReopensConflict ==
  [][\A c \in conflicts :
       LET strongest == Strongest(Items(evidence', c.field, Primary))
       IN  /\ c.status = "resolved"
           /\ {c.first, c.second} \subseteq strongest
           /\ \E e \in strongest \ evidence :
                \A d \in evidence : d.field = c.field => d.val # e.val
           => \E d \in Open(conflicts') : d.field = c.field]_vars
=============================================================================
