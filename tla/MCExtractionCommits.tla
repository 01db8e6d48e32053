------------------------ MODULE MCExtractionCommits ------------------------
(***************************************************************************)
(* Instances of ExtractionCommits for TLC: a primary page with two         *)
(* versions and a supporting page that disagrees with one of them.  Both   *)
(* versions state two categories; the second states one of them and a      *)
(* third more firmly, so the contested pair moves on.                      *)
(***************************************************************************)
EXTENDS ExtractionCommits, TLC

MCFields == {"source_url", "teaching_language", "country_code", "field_category"}
MCCore == {"source_url", "teaching_language"}
MCApprovalCore == MCCore \cup {"country_code"}

Row(pos, field, val, conf) ==
  [pos |-> pos, field |-> field, val |-> val, conf |-> conf]

CommitContent ==
  "p_en" :> {Row(1, "source_url", "u1", "high"), Row(2, "teaching_language", "en", "high"),
             Row(3, "country_code", "DE", "high"),
             Row(4, "field_category", "eng", "medium"), Row(5, "field_category", "art", "medium")}
  @@
  "p_de" :> {Row(1, "source_url", "u1", "high"), Row(2, "teaching_language", "de", "high"),
             Row(3, "field_category", "eng", "medium"), Row(4, "field_category", "art", "medium"),
             Row(5, "field_category", "eng", "high"), Row(6, "field_category", "law", "high")}
  @@
  "q_de" :> {Row(1, "teaching_language", "de", "high"), Row(2, "country_code", "FR", "medium")}

CommitPages == DOMAIN CommitContent
CommitPagesOf == "s1" :> {"p_en", "p_de"} @@ "s2" :> {"q_de"}
CommitNotes == [p \in CommitPages |-> {}]
CommitValues == {"u1", "en", "de", "eng", "art", "law", "DE", "FR"}
(* The same with all the contested values in one field, for longer runs.     *)

OneFieldContent ==
  "p_en" :> {Row(1, "source_url", "u1", "high"), Row(2, "country_code", "DE", "high"),
             Row(3, "teaching_language", "en", "medium"), Row(4, "teaching_language", "de", "medium")}
  @@
  "p_de" :> {Row(1, "source_url", "u1", "high"),
             Row(2, "teaching_language", "en", "medium"), Row(3, "teaching_language", "de", "medium"),
             Row(4, "teaching_language", "de", "high"), Row(5, "teaching_language", "fr", "high")}
  @@
  "q_de" :> {Row(1, "teaching_language", "de", "high"), Row(2, "country_code", "FR", "medium")}

OneFieldValues == {"u1", "en", "de", "fr", "DE", "FR"}

CommitOverrides == {[f \in MCFields |-> None]}
=============================================================================
