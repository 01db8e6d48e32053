-------------------------- MODULE ExtractionCommits --------------------------
(***************************************************************************)
(* extract_source as it reaches the database: one action per commit, with  *)
(* everything it has read kept in the process.  Other commands may run     *)
(* between two commits, and the process may die there.  Each repository    *)
(* call reads and writes in one step, and so does every other command; one *)
(* extraction runs at a time.                                              *)
(***************************************************************************)
EXTENDS CandidateLifecycle

CONSTANTS
  OthersRun,   \* may other commands run while an extraction does?
  MayCrash     \* may an extraction be interrupted?

ASSUME CommitsConstants == {OthersRun, MayCrash} \subseteq BOOLEAN

VARIABLES
  pc,    \* the next commit of the running extraction, or "idle"
  job    \* what the extraction holds in memory

\* Not in the code: an extraction was cut short and none has finished since;
\* and the candidate's state when the running extraction was started.
VARIABLES interrupted, before

processVars == <<pc, job>>
auxVars == <<interrupted, before>>
commitVars == <<vars, processVars, auxVars>>

Commits == {"idle", "save", "primary", "attach", "replace", "values",
            "conflicts", "status", "refresh"}

NoJob == [source |-> None]

\* The CandidateRecord read from the row, or a new one.
Record ==
  [status |-> IF status = "absent" THEN "discovered" ELSE status,
   overrides |-> overrides, warnings |-> warnings, approvedAt |-> approvedAt,
   normalized |-> normalized]

CandidateState ==
  [status |-> status, normalized |-> normalized, overrides |-> overrides,
   warnings |-> warnings, approvedAt |-> approvedAt, roles |-> roles,
   evidence |-> evidence, conflicts |-> conflicts,
   context |-> context, contextConflicts |-> contextConflicts]

CommitsTypeOK ==
  /\ TypeOK
  /\ pc \in Commits
  /\ pc # "idle" => job.source \in Sources /\ job.page \in Pages
  /\ interrupted \in BOOLEAN

CommitsInit ==
  /\ Init
  /\ pc = "idle"
  /\ job = NoJob
  /\ interrupted = FALSE
  /\ before = CandidateState

-----------------------------------------------------------------------------
\* Mutant: approved_at is not read back into the record.
WriteRow_DropsApproval(r) ==
  /\ status' = r.status
  /\ normalized' = r.normalized
  /\ overrides' = r.overrides
  /\ warnings' = r.warnings
  /\ approvedAt' = 0

\* save: every column of the row is written from the record in memory.
WriteRow(r) ==
  /\ status' = r.status
  /\ normalized' = r.normalized
  /\ overrides' = r.overrides
  /\ warnings' = r.warnings
  /\ approvedAt' = r.approvedAt

\* The guards of extract_source, up to the first write.
Load(s, attach) ==
  /\ pc = "idle"
  /\ extractions < MaxExtractions
  /\ stored[s] # None
  /\ Content[stored[s]] # {}
  /\ IF attach THEN status # "absent" ELSE s = Primary
  /\ extractions' = extractions + 1
  /\ pc' = "save"
  /\ job' = [source |-> s, role |-> IF attach THEN "supporting" ELSE "primary",
             page |-> stored[s], record |-> Record]
  /\ before' = CandidateState
  /\ UNCHANGED <<stored, status, candidateVars, evidenceVars, contextVars,
                 auditVars, accepted, interrupted>>

SaveCandidate ==
  /\ pc = "save"
  /\ WriteRow(job.record)
  /\ pc' = "primary"
  /\ UNCHANGED <<stored, roles, evidenceVars, contextVars, auditVars,
                 extractions, accepted, job, auxVars>>

\* The end of save: the primary source is linked in a commit of its own.
LinkPrimary ==
  /\ pc = "primary"
  /\ roles' = AttachSource(roles, Primary, "primary")
  /\ pc' = "attach"
  /\ UNCHANGED <<stored, status, normalized, overrides, warnings, approvedAt,
                 evidenceVars, contextVars, auditVars, extractions, accepted,
                 job, auxVars>>

\* Mutant: the source is not attached.
LinkSource_Skipped ==
  /\ pc = "attach"
  /\ pc' = "replace"
  /\ UNCHANGED <<vars, job, auxVars>>

LinkSource ==
  /\ pc = "attach"
  /\ roles' = AttachSource(roles, job.source, job.role)
  /\ pc' = "replace"
  /\ UNCHANGED <<stored, status, normalized, overrides, warnings, approvedAt,
                 evidenceVars, contextVars, auditVars, extractions, accepted,
                 job, auxVars>>

\* replace_for_source; context conflicts on deleted rows go with them.
ReplaceEvidence ==
  /\ pc = "replace"
  /\ LET page == Content[job.page]
         gone == Obsolete(evidence, job.source, page)
     IN  /\ evidence' = ReplaceForSource(evidence, job.source, page, extractions)
         /\ conflicts' = DropConflictsOf(conflicts, gone)
         /\ contextConflicts' = contextConflicts \ gone
  /\ pc' = "values"
  /\ UNCHANGED <<stored, status, candidateVars, context, auditVars, extractions,
                 accepted, job, auxVars>>

\* Mutant: only the rows of the page just extracted are resolved.
SaveValues_ThisSourceOnly ==
  /\ pc = "values"
  /\ LET ev == {e \in evidence : e.src = job.source}
         r == [job.record EXCEPT
                 !.normalized = Normalized(ev, Primary),
                 !.warnings = @ \cup PageNotes[job.page]
                                \cup ResolutionWarnings(ev, Primary)]
     IN  /\ WriteRow(r)
         /\ job' = [job EXCEPT !.record = r]
  /\ pc' = "conflicts"
  /\ UNCHANGED <<stored, roles, evidenceVars, contextVars, auditVars,
                 extractions, accepted, auxVars>>

\* The evidence is read back and resolved; the record is saved with its values.
SaveValues ==
  /\ pc = "values"
  /\ LET r == [job.record EXCEPT
                 !.normalized = Normalized(evidence, Primary),
                 !.warnings = @ \cup PageNotes[job.page]
                                \cup ResolutionWarnings(evidence, Primary)]
     IN  /\ WriteRow(r)
         /\ job' = [job EXCEPT !.record = r]
  /\ pc' = "conflicts"
  /\ UNCHANGED <<stored, roles, evidenceVars, contextVars, auditVars,
                 extractions, accepted, auxVars>>

StoreConflicts ==
  /\ pc = "conflicts"
  /\ conflicts' = ReplaceConflicts(conflicts, ConflictPairs(evidence, Primary))
  /\ pc' = "status"
  /\ UNCHANGED <<stored, status, candidateVars, evidence, contextVars, auditVars,
                 extractions, accepted, job, auxVars>>

\* Mutant: a human status is recomputed like any other.
SaveStatus_Always ==
  /\ pc = "status"
  /\ WriteRow([job.record EXCEPT !.status =
                 AutomaticStatus(evidence, job.record.normalized, conflicts)])
  /\ pc' = "refresh"
  /\ UNCHANGED <<stored, roles, evidenceVars, contextVars, auditVars,
                 extractions, accepted, job, auxVars>>

\* The status read at the start decides; a human one is saved again only if a
\* conflict is open.
SaveStatus ==
  /\ pc = "status"
  /\ LET r == job.record
     IN  IF Open(conflicts) # {} \/ r.status \notin HumanStatuses
         THEN WriteRow([r EXCEPT !.status =
                          AutomaticStatus(evidence, r.normalized, conflicts)])
         ELSE UNCHANGED <<status, normalized, overrides, warnings, approvedAt>>
  /\ pc' = "refresh"
  /\ UNCHANGED <<stored, roles, evidenceVars, contextVars, auditVars,
                 extractions, accepted, job, auxVars>>

RefreshContext ==
  /\ pc = "refresh"
  /\ context' = ContextAfter(context, evidence)
  /\ contextConflicts' = ContextConflictsAfter(context, evidence)
  /\ pc' = "idle"
  /\ job' = NoJob
  /\ interrupted' = FALSE
  /\ UNCHANGED <<stored, status, candidateVars, evidenceVars, auditVars,
                 extractions, accepted, before>>

Crash ==
  /\ MayCrash
  /\ pc # "idle"
  /\ pc' = "idle"
  /\ job' = NoJob
  /\ interrupted' = TRUE
  /\ UNCHANGED <<vars, before>>

-----------------------------------------------------------------------------
Extraction ==
  \/ \E s \in Sources, attach \in BOOLEAN : Load(s, attach)
  \/ SaveCandidate \/ LinkPrimary \/ LinkSource
  \/ ReplaceEvidence \/ SaveValues \/ StoreConflicts \/ SaveStatus
  \/ RefreshContext

\* Every other command, each a transaction of its own.
OtherCommand ==
  /\ pc = "idle" \/ OthersRun
  /\ \/ \E s \in Sources : Fetch(s) \/ LoseCache(s)
     \/ ApplyJobCountry
     \/ \E c \in conflicts, action \in ResolutionActions : Resolve(c, action)
     \/ \E given \in OverrideChoices, ack \in BOOLEAN : Approve(given, ack)
     \/ \E given \in OverrideChoices : Reject(given) \/ ReturnToReview(given)
     \/ Export
  /\ UNCHANGED <<processVars, auxVars>>

CommitsNext == Extraction \/ OtherCommand \/ Crash

\* An extraction that has started goes on; no one is obliged to start one.
CommitsSpec ==
  /\ CommitsInit
  /\ [][CommitsNext]_commitVars
  /\ WF_commitVars(pc # "idle" /\ Extraction)

(***************************************************************************)
(* Properties                                                              *)
(***************************************************************************)

\* Wherever an extraction is cut short or interleaved, no stored conflict and
\* no context conflict refers to an evidence row that is gone.
ConflictsReferToEvidence ==
  /\ \A c \in conflicts : {c.first, c.second} \subseteq evidence
  /\ contextConflicts \subseteq evidence

\* An interruption leaves the derived tables behind the evidence; the next
\* extraction that runs to its end, of any source, brings all of them up to
\* date, whatever other commands ran meanwhile.
RerunRepairs ==
  pc = "idle" /\ ~ interrupted =>
    /\ ConflictsCurrent
    /\ NormalizedFollowsEvidence
    /\ ContextCurrent
    /\ context # "none" => contextConflicts = Contradictions(evidence)

\* A resolution made while an extraction runs is not lost by it: a resolved
\* conflict goes only with a new resolution, or when its pair is no longer the
\* one the evidence disputes.
ResolutionsLapseWithEvidence ==
  [][\A c \in conflicts \ Open(conflicts) :
       \/ c \in conflicts'
       \/ resolutions' # resolutions
       \/ ConflictKey(c) \notin {ConflictKey(d) : d \in ConflictPairs(evidence', Primary)}]_commitVars

\* Without interruption every disagreement that reaches the evidence table
\* reaches the conflict table.
ConflictsCatchUp == ~ ConflictsCurrent ~> ConflictsCurrent

(***************************************************************************)
(* An extraction that nothing interleaves with and nothing interrupts is    *)
(* the single step Extract of CandidateLifecycle: its commits are hidden by *)
(* showing the state it started from until the last one is done.            *)
(***************************************************************************)
Shown == IF pc = "idle" THEN CandidateState ELSE before

Atomic == INSTANCE CandidateLifecycle WITH
  status <- Shown.status, normalized <- Shown.normalized,
  overrides <- Shown.overrides, warnings <- Shown.warnings,
  approvedAt <- Shown.approvedAt, roles <- Shown.roles,
  evidence <- Shown.evidence, conflicts <- Shown.conflicts,
  context <- Shown.context, contextConflicts <- Shown.contextConflicts,
  extractions <- IF pc = "idle" THEN extractions ELSE extractions - 1

\* Run alone and to its end, extract_source has the effect the core model
\* gives it in one step.
ImplementsAtomicExtraction == Atomic!Spec

(***************************************************************************)
(* What the documents say and the code does not do                         *)
(***************************************************************************)

\* REVIEW_WORKFLOW.md: automatic extraction "can never approve a candidate".
OnlyReviewApproves ==
  [][status' = "approved" /\ status # "approved" => reviews' # reviews]_commitVars

\* REVIEW_WORKFLOW.md: "unresolved extraction conflicts block approval".
ContestedFieldsBlockApproval ==
  [][reviews' # reviews /\ status' = "approved" =>
       {f \in Fields : Contested(Items(evidence, f, Primary))}
         \subseteq {c.field : c \in conflicts \ Open(conflicts)}]_commitVars
=============================================================================
