------------------------- MODULE EvidenceResolution -------------------------
(***************************************************************************)
(* The pure part of programme extraction: how the evidence rows kept for   *)
(* one candidate become normalised values, conflict pairs and warnings     *)
(* (services/extraction.py, _resolve_records and agreement_confidence),    *)
(* and how one source's rows and the conflict table are replaced           *)
(* (persistence/repositories.py, replace_for_source, replace_conflicts).   *)
(*                                                                         *)
(* A value stands for a casefold class: two texts that differ only in case *)
(* are one value.  Evidence order is creation order, (run, pos): the       *)
(* extraction that inserted the row and its place among that extraction's  *)
(* suggestions.  A row never changes after it is inserted, so the record   *)
(* is its own identity.                                                    *)
(***************************************************************************)
EXTENDS Naturals, FiniteSets

CONSTANTS
  Fields,       \* SUPPORTED_FIELDS
  UrlField,     \* "source_url", judged on the primary source alone
  Sources,      \* source pages of the job
  Values,       \* casefold classes of field values
  RawValues,    \* values of controlled fields the normaliser does not know
  None,         \* no value
  Blank         \* the empty string: a field cleared on purpose

ASSUME ResolutionConstants ==
  /\ UrlField \in Fields
  /\ RawValues \subseteq Values
  /\ None \notin Values
  /\ Blank \notin Values
  /\ None # Blank

Confidences == {"high", "medium", "low"}

\* _confidence_rank: 0 is the strongest.
Rank(c) == CASE c = "high" -> 0 [] c = "medium" -> 1 [] c = "low" -> 2

Suggestion == [pos: Nat, field: Fields, val: Values, conf: Confidences]

Evidence == [src: Sources, run: Nat, pos: Nat,
             field: Fields, val: Values, conf: Confidences]

Conflict == [field: Fields, first: Evidence, second: Evidence,
             status: {"unresolved", "resolved"},
             value: Values \cup {None, Blank}]

\* ORDER BY created_at.
Before(d, e) == d.run < e.run \/ (d.run = e.run /\ d.pos < e.pos)

First(items) == CHOOSE e \in items : \A d \in items : ~ Before(d, e)

(***************************************************************************)
(* Resolution of one field                                                 *)
(***************************************************************************)

\* The rows _resolve_records considers for f: for the page's own address,
\* the primary source's rows whenever it has any.
Items(ev, f, primary) ==
  LET all == {e \in ev : e.field = f}
      own == {e \in all : e.src = primary}
  IN  IF f = UrlField /\ own # {} THEN own ELSE all

\* The rows of the best rank present.
Strongest(items) ==
  {e \in items : \A d \in items : Rank(e.conf) <= Rank(d.conf)}

Agree(items) == \A d, e \in items : d.val = e.val

\* agreement_confidence: two independent medium sources count as one high.
AgreementConfidence(items) ==
  LET strongest == First(Strongest(items)).conf
  IN  IF items = {} THEN "low"
      ELSE IF /\ strongest = "medium"
              /\ \E d, e \in items : d.src # e.src
      THEN "high"
      ELSE strongest

\* Mutant: a sole value is taken however weak its evidence.
NormalizedValue_KeepsLow(items) ==
  IF items # {} /\ Agree(Strongest(items)) THEN First(Strongest(items)).val ELSE None

\* Mutant: a contested field is stored as the empty string, not left out.
NormalizedValue_BlankWhenContested(items) ==
  IF items # {} /\ ~ Agree(Strongest(items)) THEN Blank
  ELSE IF items = {} THEN None ELSE First(Strongest(items)).val

\* The value _resolve_records puts in normalized_data, or None.
NormalizedValue(items) ==
  IF items = {} THEN None
  ELSE IF Agree(items)
  THEN IF AgreementConfidence(items) # "low" THEN First(Strongest(items)).val
       ELSE None
  ELSE IF Agree(Strongest(items)) THEN First(Strongest(items)).val
  ELSE None

\* Equally strong rows that disagree.
Contested(items) == ~ Agree(Strongest(items))

ConflictFirst(items) == First(Strongest(items))

ConflictSecond(items) ==
  First({e \in Strongest(items) : e.val # ConflictFirst(items).val})

(***************************************************************************)
(* Resolution of a candidate: normalized, conflict pairs, warnings         *)
(***************************************************************************)

Normalized(ev, primary) ==
  [f \in Fields |-> NormalizedValue(Items(ev, f, primary))]

NewConflict(ev, primary, f) ==
  [field |-> f,
   first |-> ConflictFirst(Items(ev, f, primary)),
   second |-> ConflictSecond(Items(ev, f, primary)),
   status |-> "unresolved", value |-> None]

ConflictPairs(ev, primary) ==
  {NewConflict(ev, primary, f) :
     f \in {g \in Fields : Contested(Items(ev, g, primary))}}

\* "Lower-confidence conflicting <f> evidence requires review", by field.
ResolutionWarnings(ev, primary) ==
  {f \in Fields : LET items == Items(ev, f, primary)
                  IN  ~ Agree(items) /\ Agree(Strongest(items))}

(***************************************************************************)
(* Replacement of stored rows                                              *)
(***************************************************************************)

\* _evidence_key, within one source.  The code also compares wording and
\* locator, which are not modelled: a page whose layout or case changes and
\* nothing else replaces its rows there, like a page with other values here.
SameEvidence(e, s) == e.field = s.field /\ e.val = s.val /\ e.conf = s.conf

\* Rows of src that the page no longer suggests.
Obsolete(ev, src, page) ==
  {e \in ev : e.src = src /\ \A s \in page : ~ SameEvidence(e, s)}

\* replace_for_source: drop obsolete rows, keep matching ones with their
\* identity, insert the rest.
ReplaceForSource(ev, src, page, run) ==
  (ev \ Obsolete(ev, src, page))
    \cup {[src |-> src, run |-> run, pos |-> s.pos,
           field |-> s.field, val |-> s.val, conf |-> s.conf] :
            s \in {t \in page : \A e \in ev : e.src = src => ~ SameEvidence(e, t)}}

\* Mutant: obsolete rows are deleted under the conflicts that refer to them.
DropConflictsOf_None(conflicts, gone) == conflicts

\* The conflicts left once obsolete rows are gone (they refer to them).
DropConflictsOf(conflicts, gone) ==
  {c \in conflicts : c.first \notin gone /\ c.second \notin gone}

\* The key replace_conflicts compares by: the field and the unordered pair.
ConflictKey(c) == <<c.field, {c.first, c.second}>>

\* Mutant: conflicts no longer reported are left in the table.
ReplaceConflicts_KeepsObsolete(old, new) ==
  old \cup {d \in new : \A c \in old : ConflictKey(c) # ConflictKey(d)}

\* Mutant: a new pair inherits the resolution its field had before.
ReplaceConflicts_InheritsResolution(old, new) ==
  {c \in old : \E d \in new : ConflictKey(c) = ConflictKey(d)}
    \cup {LET same == {c \in old : c.field = d.field /\ c.status = "resolved"}
          IN  IF same = {} THEN d
              ELSE [d EXCEPT !.status = "resolved", !.value = (CHOOSE c \in same : TRUE).value] :
            d \in {n \in new : \A c \in old : ConflictKey(c) # ConflictKey(n)}}

\* Mutant: the whole table is rebuilt, so a resolution does not survive.
ReplaceConflicts_Rebuild(old, new) == new

\* replace_conflicts: a stored conflict whose key is still reported is kept
\* as it is, resolved or not; the others go; new keys come in unresolved.
ReplaceConflicts(old, new) ==
  {c \in old : \E d \in new : ConflictKey(c) = ConflictKey(d)}
    \cup {d \in new : \A c \in old : ConflictKey(c) # ConflictKey(d)}

Open(conflicts) == {c \in conflicts : c.status = "unresolved"}
=============================================================================
