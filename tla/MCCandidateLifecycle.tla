----------------------- MODULE MCCandidateLifecycle -----------------------
(***************************************************************************)
(* Instances of CandidateLifecycle for TLC.  Four fields stand for the     *)
(* fourteen: the page's address, a core field, the country and one         *)
(* optional field, the category.                                           *)
(***************************************************************************)
EXTENDS CandidateLifecycle, TLC

MCFields == {"source_url", "teaching_language", "country_code", "field_category"}
MCCore == {"source_url", "teaching_language"}
MCApprovalCore == MCCore \cup {"country_code"}

Row(pos, field, val, conf) ==
  [pos |-> pos, field |-> field, val |-> val, conf |-> conf]

NoOverride == [f \in MCFields |-> None]
Override(f, v) == [NoOverride EXCEPT ![f] = v]

(* Two sources: a primary page with two versions and a supporting page that *)
(* disagrees with the first about a core and about an optional field.  The  *)
(* second version states two categories itself, more firmly than the first, *)
(* so the contested pair moves on while the rows of the old pair stay.  The *)
(* first states France, against the operator's country; the second guesses  *)
(* at one; the supporting page has one the normaliser does not know.        *)

TwoContent ==
  "p_en" :> {Row(1, "source_url", "u1", "high"), Row(2, "teaching_language", "en", "high"),
             Row(3, "country_code", "FR", "high"), Row(4, "field_category", "eng", "medium")}
  @@
  "p_de" :> {Row(1, "source_url", "u1", "high"), Row(2, "teaching_language", "de", "high"),
             Row(3, "field_category", "eng", "medium"), Row(4, "field_category", "eng", "high"),
             Row(5, "field_category", "law", "high"), Row(6, "country_code", "DE", "low")}
  @@
  "q_de" :> {Row(1, "source_url", "u2", "high"), Row(2, "teaching_language", "de", "high"),
             Row(3, "field_category", "art", "medium"), Row(4, "country_code", "utopia", "medium")}

TwoPages == DOMAIN TwoContent
TwoPagesOf == "s1" :> {"p_en", "p_de"} @@ "s2" :> {"q_de"}
TwoNotes == [p \in TwoPages |-> IF p = "q_de" THEN {"ignored_jsonld"} ELSE {}]
TwoValues == {"u1", "u2", "en", "de", "eng", "art", "law", "DE", "FR", "utopia"}
TwoOverrides == {NoOverride, [Override("field_category", "eng") EXCEPT !["country_code"] = "FR"]}

(* A third source, for evidence that arrives after a conflict was resolved.  *)

ThirdContent ==
  "p_en" :> {Row(1, "source_url", "u1", "high"), Row(2, "teaching_language", "en", "high"),
             Row(3, "country_code", "DE", "high")}
  @@
  "q_de" :> {Row(1, "teaching_language", "de", "high")}
  @@
  "r_fr" :> {Row(1, "teaching_language", "fr", "high")}

ThirdPages == DOMAIN ThirdContent
ThirdPagesOf == "s1" :> {"p_en"} @@ "s2" :> {"q_de"} @@ "s3" :> {"r_fr"}
ThirdNotes == [p \in ThirdPages |-> {}]
ThirdValues == {"u1", "en", "de", "fr", "DE"}
=============================================================================
