----------------------- MODULE EvidenceResolutionProofs -----------------------
(***************************************************************************)
(* What the operators of EvidenceResolution return, for every set of       *)
(* evidence rows: there always is an oldest row and a strongest one, so    *)
(* the choices made by CHOOSE are rows of the set they choose from.        *)
(***************************************************************************)
EXTENDS EvidenceResolution, WellFoundedInduction, TLAPS

\* Every non-empty set of naturals has a least element.
LEMMA LeastNatural ==
  ASSUME NEW T \in SUBSET Nat, T # {}
  PROVE  \E n \in T : \A m \in T : n <= m
<1>1. PICK n \in T : \A m \in T : ~ (<<m, n>> \in OpToRel(<, Nat))
  BY WFMin, NatLessThanWellFounded
<1>2. ASSUME NEW m \in T
      PROVE  n <= m
  <2>1. m \in Nat /\ n \in Nat /\ ~ (m < n)
    BY <1>1 DEF OpToRel
  <2>2. QED
    BY <2>1
<1>3. QED
  BY <1>2

\* A non-empty set of evidence rows has an oldest row (ORDER BY created_at),
\* and First chooses one.
LEMMA FirstIsOldest ==
  ASSUME NEW T \in SUBSET Evidence, T # {}
  PROVE  /\ First(T) \in T
         /\ \A d \in T : ~ Before(d, First(T))
<1>1. \A e \in T : e.run \in Nat /\ e.pos \in Nat
  BY DEF Evidence
<1>2. PICK r \in {e.run : e \in T} : \A q \in {e.run : e \in T} : r <= q
  <2>1. {e.run : e \in T} \in SUBSET Nat /\ {e.run : e \in T} # {}
    BY <1>1
  <2>2. QED
    BY <2>1, LeastNatural
<1> DEFINE U == {e \in T : e.run = r}
<1>3. PICK p \in {e.pos : e \in U} : \A q \in {e.pos : e \in U} : p <= q
  <2>1. {e.pos : e \in U} \in SUBSET Nat /\ {e.pos : e \in U} # {}
    BY <1>1, <1>2
  <2>2. QED
    BY <2>1, LeastNatural
<1>4. PICK e \in U : e.pos = p
  BY <1>3
<1>5. ASSUME NEW d \in T
      PROVE  ~ Before(d, e)
  <2>1. d.run \in Nat /\ d.pos \in Nat /\ e.run = r /\ r \in Nat /\ e.pos \in Nat
    BY <1>1, <1>2, <1>4
  <2>2. r <= d.run
    BY <1>2
  <2>3. d.run = r => e.pos <= d.pos
    BY <1>3, <1>4
  <2>4. QED
    BY <2>1, <2>2, <2>3 DEF Before
<1>6. QED
  BY <1>4, <1>5 DEF First

\* Some row has the best rank.
LEMMA StrongestExists ==
  ASSUME NEW T \in SUBSET Evidence, T # {}
  PROVE  Strongest(T) # {} /\ Strongest(T) \subseteq T
<1>1. \A e \in T : e.conf \in Confidences
  BY DEF Evidence
<1>2. \A c \in Confidences : Rank(c) \in {0, 1, 2}
  BY DEF Confidences, Rank
<1>3. PICK r \in {Rank(e.conf) : e \in T} : \A q \in {Rank(e.conf) : e \in T} : r <= q
  <2>1. {Rank(e.conf) : e \in T} \in SUBSET Nat /\ {Rank(e.conf) : e \in T} # {}
    BY <1>1, <1>2
  <2>2. QED
    BY <2>1, LeastNatural
<1>4. QED
  BY <1>3 DEF Strongest

\* The rows considered for a field are rows of the candidate for that field.
LEMMA ItemsOfField ==
  ASSUME NEW ev \in SUBSET Evidence, NEW f, NEW primary
  PROVE  /\ Items(ev, f, primary) \in SUBSET Evidence
         /\ Items(ev, f, primary) \subseteq ev
         /\ \A e \in Items(ev, f, primary) : e.field = f
BY DEF Items

\* A contested field has two strongest rows with different values, and these
\* are what the conflict records.
LEMMA ConflictRows ==
  ASSUME NEW T \in SUBSET Evidence, Contested(T)
  PROVE  /\ ConflictFirst(T) \in Strongest(T)
         /\ ConflictSecond(T) \in Strongest(T)
         /\ ConflictSecond(T).val # ConflictFirst(T).val
<1> DEFINE S == Strongest(T)
<1> DEFINE rest == {e \in S : e.val # ConflictFirst(T).val}
<1>1. S \in SUBSET Evidence /\ S # {} /\ \E d, e \in S : d.val # e.val
  BY DEF Contested, Agree, Strongest
<1>2. ConflictFirst(T) \in S
  BY <1>1, FirstIsOldest DEF ConflictFirst
<1>3. rest \in SUBSET Evidence /\ rest # {}
  BY <1>1
<1>4. ConflictSecond(T) \in rest
  BY <1>3, FirstIsOldest DEF ConflictSecond
<1>5. QED
  BY <1>2, <1>4

\* The value stored for a field is the one its strongest evidence agrees on,
\* provided that evidence is not of low confidence; otherwise none is stored
\* (_resolve_records with agreement_confidence).
LEMMA NormalizedValueIsAgreed ==
  ASSUME NEW T \in SUBSET Evidence, NEW v \in Values
  PROVE  NormalizedValue(T) = v <=>
           /\ \E e \in Strongest(T) : e.val = v /\ e.conf # "low"
           /\ \A e \in Strongest(T) : e.val = v
<1> USE ResolutionConstants
<1> DEFINE S == Strongest(T)
<1>1. CASE T = {}
  BY <1>1 DEF NormalizedValue, Strongest
<1>2. CASE T # {}
  <2>1. S # {} /\ S \subseteq T /\ S \in SUBSET Evidence
    BY <1>2, StrongestExists
  <2> DEFINE best == First(S)
  <2>2. best \in S
    BY <2>1, FirstIsOldest
  <2>3. \A e \in S : e.conf = best.conf
    <3>1. \A e \in S : e.conf \in Confidences /\ Rank(e.conf) <= Rank(best.conf)
                        /\ Rank(best.conf) <= Rank(e.conf)
      BY <2>1, <2>2 DEF Strongest, Evidence
    <3>2. \A c, d \in Confidences : Rank(c) <= Rank(d) /\ Rank(d) <= Rank(c) => c = d
      BY DEF Confidences, Rank
    <3>3. QED
      BY <2>2, <3>1, <3>2
  <2>4. AgreementConfidence(T) = "low" <=> best.conf = "low"
    BY <1>2 DEF AgreementConfidence
  <2>5. CASE Agree(T)
    <3>1. NormalizedValue(T) = IF best.conf # "low" THEN best.val ELSE None
      BY <1>2, <2>4, <2>5 DEF NormalizedValue
    <3>2. \A e \in S : e.val = best.val
      BY <2>1, <2>2, <2>5 DEF Agree
    <3>3. QED
      BY <2>2, <2>3, <3>1, <3>2
  <2>6. CASE ~ Agree(T) /\ Agree(S)
    <3>1. NormalizedValue(T) = best.val
      BY <1>2, <2>6 DEF NormalizedValue
    <3>2. \A e \in S : e.val = best.val
      BY <2>2, <2>6 DEF Agree
    <3>3. best.conf # "low"
      <4> SUFFICES ASSUME best.conf = "low" PROVE FALSE
        OBVIOUS
      <4>1. \A e \in T : e.conf \in Confidences /\ Rank("low") <= Rank(e.conf)
        BY <2>2 DEF Strongest, Evidence
      <4>2. \A c \in Confidences : Rank("low") <= Rank(c) => c = "low"
        BY DEF Confidences, Rank
      <4>3. T = S
        BY <4>1, <4>2, <2>1 DEF Strongest, Rank
      <4>4. QED
        BY <4>3, <2>6
    <3>4. QED
      BY <2>2, <3>1, <3>2, <3>3
  <2>7. CASE ~ Agree(T) /\ ~ Agree(S)
    <3>1. NormalizedValue(T) = None
      BY <1>2, <2>7 DEF NormalizedValue
    <3>2. \E d, e \in S : d.val # e.val
      BY <2>7 DEF Agree
    <3>3. QED
      BY <3>1, <3>2
  <2>8. QED
    BY <2>5, <2>6, <2>7
<1>3. QED
  BY <1>1, <1>2

LEMMA NormalizedValueType ==
  ASSUME NEW T \in SUBSET Evidence
  PROVE  NormalizedValue(T) \in Values \cup {None}
<1>1. CASE T = {}
  BY <1>1 DEF NormalizedValue
<1>2. CASE T # {}
  <2>1. Strongest(T) # {} /\ Strongest(T) \in SUBSET Evidence
    BY <1>2, StrongestExists
  <2>2. First(Strongest(T)).val \in Values
    BY <2>1, FirstIsOldest DEF Evidence
  <2>3. QED
    BY <2>2 DEF NormalizedValue
<1>3. QED
  BY <1>1, <1>2

LEMMA NormalizedType ==
  ASSUME NEW ev \in SUBSET Evidence, NEW primary
  PROVE  Normalized(ev, primary) \in [Fields -> Values \cup {None}]
BY ItemsOfField, NormalizedValueType DEF Normalized

\* Every reported conflict is open and names two rows of the candidate, for
\* its field, with different values.
LEMMA ConflictPairsRows ==
  ASSUME NEW ev \in SUBSET Evidence, NEW primary,
         NEW c \in ConflictPairs(ev, primary)
  PROVE  /\ c \in Conflict
         /\ c.status = "unresolved"
         /\ c.first \in ev /\ c.second \in ev
         /\ c.first.val # c.second.val
<1>1. PICK f \in Fields : /\ Contested(Items(ev, f, primary))
                          /\ c = NewConflict(ev, primary, f)
  BY DEF ConflictPairs
<1> DEFINE T == Items(ev, f, primary)
<1>2. T \in SUBSET Evidence /\ T \subseteq ev
  BY ItemsOfField
<1>3. /\ ConflictFirst(T) \in ev
      /\ ConflictSecond(T) \in ev
      /\ ConflictSecond(T).val # ConflictFirst(T).val
  BY <1>1, <1>2, ConflictRows DEF Strongest
<1>4. QED
  BY <1>1, <1>3 DEF NewConflict, Conflict

\* The two rows of a reported conflict state its field, equally firmly.
LEMMA ConflictPairsDispute ==
  ASSUME NEW ev \in SUBSET Evidence, NEW primary,
         NEW c \in ConflictPairs(ev, primary)
  PROVE  /\ c.first.field = c.field /\ c.second.field = c.field
         /\ c.first.conf = c.second.conf
<1>1. PICK f \in Fields : /\ Contested(Items(ev, f, primary))
                          /\ c = NewConflict(ev, primary, f)
  BY DEF ConflictPairs
<1> DEFINE T == Items(ev, f, primary)
<1>2. T \in SUBSET Evidence /\ \A e \in T : e.field = f
  BY ItemsOfField
<1>3. c.field = f /\ c.first = ConflictFirst(T) /\ c.second = ConflictSecond(T)
  BY <1>1 DEF NewConflict
<1>4. Contested(T)
  BY <1>1
<1> HIDE DEF T
<1>5. c.first \in Strongest(T) /\ c.second \in Strongest(T)
  BY <1>2, <1>3, <1>4, ConflictRows
<1>6. /\ c.first \in T /\ c.second \in T
      /\ Rank(c.first.conf) <= Rank(c.second.conf) /\ Rank(c.second.conf) <= Rank(c.first.conf)
  BY <1>5 DEF Strongest
<1>7. c.first.conf \in Confidences /\ c.second.conf \in Confidences
  BY <1>2, <1>6 DEF Evidence
<1>8. \A a, b \in Confidences : Rank(a) <= Rank(b) /\ Rank(b) <= Rank(a) => a = b
  BY DEF Confidences, Rank
<1>9. QED
  BY <1>2, <1>3, <1>6, <1>7, <1>8

\* replace_for_source keeps rows well formed.
LEMMA ReplaceForSourceType ==
  ASSUME NEW ev \in SUBSET Evidence, NEW src \in Sources,
         NEW page \in SUBSET Suggestion, NEW run \in Nat
  PROVE  ReplaceForSource(ev, src, page, run) \in SUBSET Evidence
BY DEF ReplaceForSource, Obsolete, Evidence, Suggestion

\* After replace_conflicts the table holds exactly the reported keys,
\* whatever it held before.
LEMMA ReplaceConflictsKeys ==
  ASSUME NEW old, NEW new
  PROVE  {ConflictKey(c) : c \in ReplaceConflicts(old, new)} = {ConflictKey(c) : c \in new}
BY DEF ReplaceConflicts

\* replace_conflicts resolves nothing: what it keeps resolved was there.
LEMMA ReplaceConflictsResolved ==
  ASSUME NEW old, NEW new, \A c \in new : c.status = "unresolved"
  PROVE  \A c \in ReplaceConflicts(old, new) : c.status # "unresolved" => c \in old
BY DEF ReplaceConflicts

\* replace_conflicts keeps one record for a field, if each field was in
\* conflict at most once and is reported at most once.
LEMMA ReplaceConflictsUnique ==
  ASSUME NEW old, NEW new,
         \A c, d \in old : ConflictKey(c) = ConflictKey(d) => c = d,
         \A c, d \in new : c.field = d.field => c = d
  PROVE  \A c, d \in ReplaceConflicts(old, new) : c.field = d.field => c = d
<1> SUFFICES ASSUME NEW c \in ReplaceConflicts(old, new), NEW d \in ReplaceConflicts(old, new),
                    c.field = d.field
             PROVE  c = d
  OBVIOUS
<1>1. PICK p \in new : ConflictKey(c) = ConflictKey(p)
  BY DEF ReplaceConflicts
<1>2. PICK q \in new : ConflictKey(d) = ConflictKey(q)
  BY DEF ReplaceConflicts
<1>3. p.field = q.field
  BY <1>1, <1>2 DEF ConflictKey
<1>4. ConflictKey(c) = ConflictKey(d)
  BY <1>1, <1>2, <1>3
<1>5. QED
  BY <1>4 DEF ReplaceConflicts

\* A field is reported in conflict at most once.
LEMMA ConflictPairsUnique ==
  ASSUME NEW ev, NEW primary
  PROVE  \A c, d \in ConflictPairs(ev, primary) : c.field = d.field => c = d
<1>1. ASSUME NEW c \in ConflictPairs(ev, primary)
      PROVE  c = NewConflict(ev, primary, c.field)
  <2>1. PICK f \in Fields : c = NewConflict(ev, primary, f)
    BY DEF ConflictPairs
  <2>2. c.field = f
    BY <2>1 DEF NewConflict
  <2>3. QED
    BY <2>1, <2>2
<1>2. QED
  BY <1>1

(***************************************************************************)
(* What the evidence says, apart from when it was stored                   *)
(***************************************************************************)

\* The statements of evidence rows: which source gives a field which value, and
\* how firmly.
Stated(ev) == {<<e.src, e.field, e.val, e.conf>> : e \in ev}

\* d and e state the same.
Alike(d, e) == d.src = e.src /\ d.field = e.field /\ d.val = e.val /\ d.conf = e.conf

\* Rows that state the same have their like among each other.
LEMMA StatedAlike ==
  ASSUME NEW S, NEW T
  PROVE  Stated(S) = Stated(T) <=>
           (\A d \in S : \E e \in T : Alike(d, e)) /\ (\A e \in T : \E d \in S : Alike(d, e))
<1> DEFINE row(e) == <<e.src, e.field, e.val, e.conf>>
<1>1. \A d, e : row(d) = row(e) <=> Alike(d, e)
  BY DEF Alike
<1>2. \A X : Stated(X) = {row(e) : e \in X}
  BY DEF Stated
<1> HIDE DEF row
<1>3. ASSUME Stated(S) = Stated(T)
      PROVE  (\A d \in S : \E e \in T : Alike(d, e)) /\ (\A e \in T : \E d \in S : Alike(d, e))
  <2>1. {row(e) : e \in S} = {row(e) : e \in T}
    BY <1>2, <1>3
  <2>2. (\A d \in S : \E e \in T : row(d) = row(e)) /\ (\A e \in T : \E d \in S : row(d) = row(e))
    BY <2>1
  <2>3. QED
    BY <1>1, <2>2
<1>4. ASSUME \A d \in S : \E e \in T : Alike(d, e), \A e \in T : \E d \in S : Alike(d, e)
      PROVE  Stated(S) = Stated(T)
  <2>1. (\A d \in S : \E e \in T : row(d) = row(e)) /\ (\A e \in T : \E d \in S : row(d) = row(e))
    BY <1>1, <1>4
  <2>2. {row(e) : e \in S} = {row(e) : e \in T}
    BY <2>1
  <2>3. QED
    BY <1>2, <2>2
<1>5. QED
  BY <1>3, <1>4

\* The rows considered for a field, of evidence that states the same.
LEMMA ItemsStated ==
  ASSUME NEW S, NEW T, Stated(S) = Stated(T), NEW f, NEW primary
  PROVE  Stated(Items(S, f, primary)) = Stated(Items(T, f, primary))
<1> DEFINE all(ev) == {e \in ev : e.field = f}
           own(ev) == {e \in all(ev) : e.src = primary}
<1>1. /\ \A d \in S : \E e \in T : Alike(d, e)
      /\ \A e \in T : \E d \in S : Alike(d, e)
  BY StatedAlike
<1>2. /\ \A d \in all(S) : \E e \in all(T) : Alike(d, e)
      /\ \A e \in all(T) : \E d \in all(S) : Alike(d, e)
  BY <1>1 DEF Alike
<1>3. /\ \A d \in own(S) : \E e \in own(T) : Alike(d, e)
      /\ \A e \in own(T) : \E d \in own(S) : Alike(d, e)
  BY <1>2 DEF Alike
<1>4. \A ev : Items(ev, f, primary) = IF f = UrlField /\ own(ev) # {} THEN own(ev) ELSE all(ev)
  BY DEF Items
<1>5. own(S) # {} <=> own(T) # {}
  BY <1>3
<1> HIDE DEF all, own
<1>6. Stated(all(S)) = Stated(all(T)) /\ Stated(own(S)) = Stated(own(T))
  BY <1>2, <1>3, StatedAlike
<1>7. CASE f = UrlField /\ own(S) # {}
  <2>1. Items(S, f, primary) = own(S) /\ Items(T, f, primary) = own(T)
    BY <1>4, <1>5, <1>7
  <2>2. QED
    BY <1>6, <2>1
<1>8. CASE ~ (f = UrlField /\ own(S) # {})
  <2>1. Items(S, f, primary) = all(S) /\ Items(T, f, primary) = all(T)
    BY <1>4, <1>5, <1>8
  <2>2. QED
    BY <1>6, <2>1
<1>9. QED
  BY <1>7, <1>8

\* The strongest of them state the same, and agree if they do.
LEMMA StrongestStated ==
  ASSUME NEW S, NEW T, Stated(S) = Stated(T)
  PROVE  /\ Stated(Strongest(S)) = Stated(Strongest(T))
         /\ Agree(S) <=> Agree(T)
<1>1. /\ \A d \in S : \E e \in T : Alike(d, e)
      /\ \A e \in T : \E d \in S : Alike(d, e)
  BY StatedAlike
<1>2. \A d \in Strongest(S) : \E e \in Strongest(T) : Alike(d, e)
  BY <1>1 DEF Strongest, Alike
<1>3. \A e \in Strongest(T) : \E d \in Strongest(S) : Alike(d, e)
  BY <1>1 DEF Strongest, Alike
<1>4. Agree(S) <=> Agree(T)
  BY <1>1 DEF Agree, Alike
<1>5. QED
  BY <1>2, <1>3, <1>4, StatedAlike

\* Values, contested fields and warnings depend on what the rows state alone:
\* the clock (created_at, run and pos) chooses which two rows a conflict shows
\* and nothing else (_resolve_records).
THEOREM ClockDecidesNothing ==
  ASSUME NEW S \in SUBSET Evidence, NEW T \in SUBSET Evidence, Stated(S) = Stated(T), NEW primary
  PROVE  /\ Normalized(S, primary) = Normalized(T, primary)
         /\ ResolutionWarnings(S, primary) = ResolutionWarnings(T, primary)
         /\ {c.field : c \in ConflictPairs(S, primary)} = {c.field : c \in ConflictPairs(T, primary)}
<1>1. ASSUME NEW f \in Fields
      PROVE  /\ NormalizedValue(Items(S, f, primary)) = NormalizedValue(Items(T, f, primary))
             /\ Agree(Items(S, f, primary)) <=> Agree(Items(T, f, primary))
             /\ Agree(Strongest(Items(S, f, primary))) <=> Agree(Strongest(Items(T, f, primary)))
  <2> DEFINE A == Items(S, f, primary)
             B == Items(T, f, primary)
  <2>1. A \in SUBSET Evidence /\ B \in SUBSET Evidence /\ Stated(A) = Stated(B)
    BY ItemsOfField, ItemsStated
  <2> HIDE DEF A, B
  <2>2. Stated(Strongest(A)) = Stated(Strongest(B)) /\ (Agree(A) <=> Agree(B))
    BY <2>1, StrongestStated
  <2>3. Agree(Strongest(A)) <=> Agree(Strongest(B))
    BY <2>2, StrongestStated
  <2>4. /\ \A d \in Strongest(A) : \E e \in Strongest(B) : Alike(d, e)
        /\ \A e \in Strongest(B) : \E d \in Strongest(A) : Alike(d, e)
    BY <2>2, StatedAlike
  <2>5. ASSUME NEW v \in Values
        PROVE  NormalizedValue(A) = v <=> NormalizedValue(B) = v
    <3>1. /\ (\E e \in Strongest(A) : e.val = v /\ e.conf # "low")
               <=> (\E e \in Strongest(B) : e.val = v /\ e.conf # "low")
          /\ (\A e \in Strongest(A) : e.val = v) <=> (\A e \in Strongest(B) : e.val = v)
      BY <2>4 DEF Alike
    <3>2. QED
      BY <2>1, <3>1, NormalizedValueIsAgreed
  <2>6. NormalizedValue(A) = NormalizedValue(B)
    <3>1. NormalizedValue(A) \in Values \cup {None} /\ NormalizedValue(B) \in Values \cup {None}
      BY <2>1, NormalizedValueType
    <3>2. QED
      BY <2>5, <3>1
  <2>7. QED
    BY <2>2, <2>3, <2>6 DEF A, B
<1>2. Normalized(S, primary) = Normalized(T, primary)
  BY <1>1 DEF Normalized
<1>3. ResolutionWarnings(S, primary) = ResolutionWarnings(T, primary)
  BY <1>1 DEF ResolutionWarnings
<1>4. ASSUME NEW ev
      PROVE  {c.field : c \in ConflictPairs(ev, primary)}
               = {f \in Fields : Contested(Items(ev, f, primary))}
  <2>1. \A f : NewConflict(ev, primary, f).field = f
    BY DEF NewConflict
  <2>2. QED
    BY <2>1 DEF ConflictPairs
<1>5. QED
  BY <1>1, <1>2, <1>3, <1>4 DEF Contested

\* After an extraction of a source its rows state what its page says, no more
\* and no less; the rows of other sources are untouched (replace_for_source).
LEMMA SourceSpeaks ==
  ASSUME NEW ev, NEW src, NEW page, NEW run
  PROVE  /\ Stated({e \in ReplaceForSource(ev, src, page, run) : e.src = src})
              = {<<src, s.field, s.val, s.conf>> : s \in page}
         /\ {e \in ReplaceForSource(ev, src, page, run) : e.src # src}
              = {e \in ev : e.src # src}
<1> DEFINE after == ReplaceForSource(ev, src, page, run)
           row(s) == [src |-> src, run |-> run, pos |-> s.pos,
                      field |-> s.field, val |-> s.val, conf |-> s.conf]
<1>1. \A e : e \in after <=>
        \/ e \in ev /\ ~ (e.src = src /\ \A s \in page : ~ SameEvidence(e, s))
        \/ \E s \in page : /\ \A d \in ev : d.src = src => ~ SameEvidence(d, s)
                           /\ e = row(s)
  BY DEF ReplaceForSource, Obsolete
<1>2. \A s : /\ row(s).src = src /\ row(s).field = s.field
             /\ row(s).val = s.val /\ row(s).conf = s.conf
  OBVIOUS
<1> HIDE DEF after, row
<1>3. ASSUME NEW e \in after, e.src = src
      PROVE  \E s \in page : s.field = e.field /\ s.val = e.val /\ s.conf = e.conf
  BY <1>1, <1>2, <1>3 DEF SameEvidence
<1>4. ASSUME NEW s \in page
      PROVE  \E e \in after : e.src = src /\ s.field = e.field /\ s.val = e.val /\ s.conf = e.conf
  <2>1. CASE \A d \in ev : d.src = src => ~ SameEvidence(d, s)
    BY <1>1, <1>2, <2>1
  <2>2. CASE \E d \in ev : d.src = src /\ SameEvidence(d, s)
    BY <1>1, <2>2 DEF SameEvidence
  <2>3. QED
    BY <2>1, <2>2
<1>5. {e \in after : e.src # src} = {e \in ev : e.src # src}
  BY <1>1, <1>2
<1>6. Stated({e \in after : e.src = src}) = {<<src, s.field, s.val, s.conf>> : s \in page}
  BY <1>3, <1>4 DEF Stated
<1>7. QED
  BY <1>5, <1>6 DEF after

\* Two pages extracted in either order, at any times, give the second of the
\* two extractions the same values, the same contested fields and the same
\* resolution warnings: the order in which an operator adds supporting pages
\* does not matter to them.  (Which two rows a conflict shows may differ, and a
\* candidate also keeps the warnings of its earlier extractions.)
THEOREM ExtractionOrderImmaterial ==
  ASSUME NEW ev \in SUBSET Evidence, NEW primary,
         NEW s \in Sources, NEW p \in SUBSET Suggestion,
         NEW t \in Sources \ {s}, NEW q \in SUBSET Suggestion,
         NEW i \in Nat, NEW j \in Nat, NEW m \in Nat, NEW n \in Nat
  PROVE  LET S == ReplaceForSource(ReplaceForSource(ev, s, p, i), t, q, j)
             T == ReplaceForSource(ReplaceForSource(ev, t, q, m), s, p, n)
         IN  /\ Normalized(S, primary) = Normalized(T, primary)
             /\ ResolutionWarnings(S, primary) = ResolutionWarnings(T, primary)
             /\ {c.field : c \in ConflictPairs(S, primary)}
                  = {c.field : c \in ConflictPairs(T, primary)}
<1> DEFINE A == ReplaceForSource(ev, s, p, i)
           B == ReplaceForSource(ev, t, q, m)
           S == ReplaceForSource(A, t, q, j)
           T == ReplaceForSource(B, s, p, n)
           said(src, page) == {<<src, x.field, x.val, x.conf>> : x \in page}
           rest == {e \in ev : e.src # s /\ e.src # t}
<1>1. A \in SUBSET Evidence /\ B \in SUBSET Evidence
  BY ReplaceForSourceType
<1>2. S \in SUBSET Evidence /\ T \in SUBSET Evidence
  BY <1>1, ReplaceForSourceType
<1>3. /\ Stated({e \in A : e.src = s}) = said(s, p) /\ {e \in A : e.src # s} = {e \in ev : e.src # s}
      /\ Stated({e \in B : e.src = t}) = said(t, q) /\ {e \in B : e.src # t} = {e \in ev : e.src # t}
  BY SourceSpeaks
<1>4. /\ Stated({e \in S : e.src = t}) = said(t, q) /\ {e \in S : e.src # t} = {e \in A : e.src # t}
      /\ Stated({e \in T : e.src = s}) = said(s, p) /\ {e \in T : e.src # s} = {e \in B : e.src # s}
  BY SourceSpeaks
<1> HIDE DEF A, B, S, T, said
<1>5. ASSUME NEW X, NEW Y, NEW u, NEW v, u # v,
             {e \in X : e.src # v} = {e \in Y : e.src # v},
             {e \in Y : e.src # u} = {e \in ev : e.src # u}
      PROVE  {e \in X : e.src # v} = {e \in Y : e.src = u} \cup {e \in ev : e.src # u /\ e.src # v}
  BY <1>5
<1>6. {e \in S : e.src # t} = {e \in A : e.src = s} \cup rest
  BY <1>3, <1>4, <1>5
<1>7. {e \in T : e.src # s} = {e \in B : e.src = t} \cup rest
  BY <1>3, <1>4, <1>5
<1>8. \A X, Y : Stated(X \cup Y) = Stated(X) \cup Stated(Y)
  BY DEF Stated
<1> HIDE DEF rest
<1>9. Stated(S) = said(t, q) \cup said(s, p) \cup Stated(rest)
  <2>1. Stated(S) = Stated({e \in S : e.src = t}) \cup Stated({e \in S : e.src # t})
    BY DEF Stated
  <2>2. Stated({e \in S : e.src # t}) = Stated({e \in A : e.src = s}) \cup Stated(rest)
    BY <1>6, <1>8
  <2>3. QED
    BY <1>3, <1>4, <2>1, <2>2
<1>10. Stated(T) = said(s, p) \cup said(t, q) \cup Stated(rest)
  <2>1. Stated(T) = Stated({e \in T : e.src = s}) \cup Stated({e \in T : e.src # s})
    BY DEF Stated
  <2>2. Stated({e \in T : e.src # s}) = Stated({e \in B : e.src = t}) \cup Stated(rest)
    BY <1>7, <1>8
  <2>3. QED
    BY <1>3, <1>4, <2>1, <2>2
<1>11. Stated(S) = Stated(T)
  BY <1>9, <1>10
<1>12. /\ Normalized(S, primary) = Normalized(T, primary)
       /\ ResolutionWarnings(S, primary) = ResolutionWarnings(T, primary)
       /\ {c.field : c \in ConflictPairs(S, primary)} = {c.field : c \in ConflictPairs(T, primary)}
  BY <1>2, <1>11, ClockDecidesNothing
<1>13. QED
  BY <1>12 DEF A, B, S, T
=============================================================================
