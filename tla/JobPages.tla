------------------------------ MODULE JobPages ------------------------------
(***************************************************************************)
(* The source pages of one job as batch collection and discovery see them: *)
(* each row knows whether its page is there, where the fetch ended and for *)
(* which command it was made.  A fetch (PageFetch has it in detail) is one *)
(* step here: what the hosts answer is a free choice.  Addresses are       *)
(* canonical: two spellings that canonicalize_url makes equal are one.     *)
(***************************************************************************)
EXTENDS Naturals, Sequences, FiniteSets, FiniteSetsExt, Functions

CONSTANTS
  Urls,      \* canonical addresses
  None,
  Answers,   \* what a fetch of each address can come to
  FinalOf    \* the address a fetch ends at after its redirects

AnswerKinds == {"page", "blocked", "robots_failed", "error", "unresolved", "unrecorded"}

ASSUME JobPagesConstants ==
  /\ Answers \in [Urls -> SUBSET AnswerKinds]
  /\ FinalOf \in [Urls -> Urls]
  /\ None \notin Urls

VARIABLE pages   \* source_pages: address -> row or None

Row == [ok: BOOLEAN, final: Urls, type: {"discovery", "official_program"}]

ASSUME NoneIsNoRow == None \notin Row

PagesTypeOK == pages \in [Urls -> Row \cup {None}]

PagesInit == pages = [u \in Urls |-> None]

\* The status of the result is FETCHED or CACHE_HIT.
Served(answer) == answer \in {"page", "unrecorded"}

\* fetch_url: a cached page is served as it is, or the row is saved with what
\* the hosts answered.  A fetch whose address does not validate at first is
\* not recorded, even when the client's own check then lets it through.  A fetch
\* that fails records the address it had reached, before or after redirects.
FetchPage(u, type, answer) ==
  \/ /\ answer = "page"
     /\ pages[u] # None
     /\ pages[u].ok
     /\ UNCHANGED pages
  \/ /\ answer \in Answers[u]
     /\ \E reached \in {u, FinalOf[u]} :
          /\ answer = "page" => reached = FinalOf[u]
          /\ pages' = IF answer \in {"unresolved", "unrecorded"} THEN pages
                      ELSE [pages EXCEPT ![u] =
                              [ok |-> answer = "page", final |-> reached, type |-> type]]

\* The addresses of the job's pages: as asked for and as reached.
KnownUrls ==
  LET recorded == {u \in Urls : pages[u] # None}
  IN  recorded \cup {pages[u].final : u \in recorded}

-----------------------------------------------------------------------------
(***************************************************************************)
(* Rows of an input file, by their row number, first row first.            *)
(***************************************************************************)

\* Of rows with equal keys the first counts.
FirstRows(key) ==
  {n \in DOMAIN key : \A m \in DOMAIN key : m < n => key[m] # key[n]}

FirstRow(rows) == Min(DOMAIN rows)

OtherRows(rows) == Restrict(rows, DOMAIN rows \ {FirstRow(rows)})
=============================================================================
