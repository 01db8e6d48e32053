-------------------------- MODULE BatchCollection --------------------------
(***************************************************************************)
(* batch collect: every address of a file that the job does not have yet   *)
(* is fetched and then extracted, row by row.  What the job has is read    *)
(* once, before the first row; the report is written after the last.  One  *)
(* action is what one row does up to a commit.                             *)
(***************************************************************************)
EXTENDS JobPages

CONSTANTS
  BatchFiles,   \* input files: an address per row; None: the row is not valid
  Programmes,   \* addresses whose page the extractor takes for a programme
  MaxBatches    \* bound: batches started

ASSUME BatchConstants ==
  /\ BatchFiles \subseteq Seq(Urls \cup {None})
  /\ Programmes \subseteq Urls
  /\ MaxBatches \in Nat

VARIABLES
  bpc,          \* "idle", before a row, or before the extraction of its page
  rows,         \* row number -> address, of the rows still to do
  existing,     \* addresses of the job's pages when the batch began
  results,      \* row number -> the report's row, of the rows done
  candidates,   \* pages a candidate was made from
  batches       \* batches started

\* Not in the code: how often each address was given to the extractor, and
\* the addresses that a batch fetched but ended before extracting.
VARIABLES attempts, cutShort

batchLocals == <<bpc, rows, existing, results>>
batchVars == <<batchLocals, candidates, batches, attempts, cutShort>>

ResultStatuses == {"already_existing", "fetch_failed", "extraction_failed", "collected"}

BatchTypeOK ==
  /\ bpc \in {"idle", "row", "extract"}
  /\ DOMAIN rows \subseteq Nat /\ Range(rows) \subseteq Urls
  /\ existing \subseteq Urls
  /\ DOMAIN results \subseteq Nat
  /\ Range(results) \subseteq [url: Urls, status: ResultStatuses]
  /\ candidates \subseteq Urls
  /\ batches \in 0..MaxBatches
  /\ attempts \in [Urls -> Nat]
  /\ cutShort \subseteq Urls

BatchIdle ==
  /\ bpc = "idle" /\ rows = <<>> /\ existing = {} /\ results = <<>>

BatchInit ==
  /\ BatchIdle
  /\ candidates = {}
  /\ batches = 0
  /\ attempts = [u \in Urls |-> 0]
  /\ cutShort = {}

\* Mutant: equal addresses are kept.
UniqueRows_AllKept(file) == file

\* read_batch_csv: of equal addresses the first row counts.
UniqueRows(file) == Restrict(file, FirstRows(file))

MoreRows == DOMAIN rows # {}

Address == rows[FirstRow(rows)]

\* The current row is done.
Record(status) ==
  /\ results' = [n \in DOMAIN results \cup {FirstRow(rows)} |->
                   IF n = FirstRow(rows) THEN [url |-> Address, status |-> status]
                   ELSE results[n]]
  /\ rows' = OtherRows(rows)
  /\ bpc' = "row"

\* The command ends and forgets what it held in memory.
BatchEnds == bpc' = "idle" /\ rows' = <<>> /\ existing' = {} /\ results' = <<>>

-----------------------------------------------------------------------------
\* Mutant: invalid rows are noted and the file is taken all the same.
StartBatch_Unchecked(file) ==
  /\ bpc = "idle"
  /\ batches < MaxBatches
  /\ bpc' = "row"
  /\ rows' = UniqueRows(file)
  /\ existing' = KnownUrls
  /\ batches' = batches + 1
  /\ UNCHANGED <<results, candidates, attempts, cutShort>>

\* collect, up to the first row; one invalid row rejects the file.
StartBatch(file) ==
  /\ bpc = "idle"
  /\ batches < MaxBatches
  /\ None \notin Range(file)
  /\ bpc' = "row"
  /\ rows' = UniqueRows(file)
  /\ existing' = KnownUrls
  /\ batches' = batches + 1
  /\ UNCHANGED <<results, candidates, attempts, cutShort>>

ExistingRow ==
  /\ bpc = "row" /\ MoreRows
  /\ Address \in existing
  /\ Record("already_existing")
  /\ UNCHANGED <<existing, candidates, batches, attempts, cutShort>>

\* Mutant: a page that ended at an address of the job is taken for that one.
FetchRow_FinalKnown(answer) ==
  /\ bpc = "row" /\ MoreRows
  /\ Address \notin existing
  /\ FetchPage(Address, "official_program", answer)
  /\ IF answer = "page" /\ FinalOf[Address] \notin existing
     THEN bpc' = "extract" /\ UNCHANGED <<rows, results>>
     ELSE Record("fetch_failed")
  /\ UNCHANGED <<existing, candidates, batches, attempts, cutShort>>

\* Mutant: a row that fails is tried again.
FetchRow_Retried(answer) ==
  /\ bpc = "row" /\ MoreRows
  /\ Address \notin existing
  /\ FetchPage(Address, "official_program", answer)
  /\ IF answer = "page" THEN bpc' = "extract" /\ UNCHANGED <<rows, results>>
     ELSE bpc' = "row" /\ UNCHANGED <<rows, results>>
  /\ UNCHANGED <<existing, candidates, batches, attempts, cutShort>>

FetchRow(answer) ==
  /\ bpc = "row" /\ MoreRows
  /\ Address \notin existing
  /\ FetchPage(Address, "official_program", answer)
  /\ IF answer = "unrecorded"
     \* There is no source page to extract: a ValueError nobody catches.
     THEN BatchEnds
     ELSE /\ IF Served(answer) THEN bpc' = "extract" /\ UNCHANGED <<rows, results>>
             ELSE Record("fetch_failed")
          /\ UNCHANGED existing
  /\ UNCHANGED <<candidates, batches, attempts, cutShort>>

\* extract_source on the page just fetched.  The row may have changed since;
\* readable: its cache file is there and has the recorded hash.
ExtractRow(readable) ==
  /\ bpc = "extract"
  /\ attempts' = [attempts EXCEPT ![Address] = @ + 1]
  /\ IF pages[Address].ok /\ readable /\ Address \in Programmes
     THEN Record("collected") /\ candidates' = candidates \cup {Address}
     ELSE Record("extraction_failed") /\ UNCHANGED candidates
  /\ UNCHANGED <<existing, batches, cutShort>>

\* _write_reports.
FinishBatch ==
  /\ bpc = "row" /\ ~ MoreRows
  /\ BatchEnds
  /\ UNCHANGED <<candidates, batches, attempts, cutShort>>

\* The process dies, or an error escapes: what rows did stays, no report.
BatchDies ==
  /\ bpc # "idle"
  /\ BatchEnds
  /\ cutShort' = IF bpc = "extract" THEN cutShort \cup {Address} ELSE cutShort
  /\ UNCHANGED <<candidates, batches, attempts>>

BatchStep ==
  \/ \E answer \in AnswerKinds : FetchRow(answer)
  \/ /\ ExistingRow \/ (\E readable \in BOOLEAN : ExtractRow(readable)) \/ FinishBatch
     /\ UNCHANGED pages

(***************************************************************************)
(* Properties                                                              *)
(***************************************************************************)

\* BATCH_COLLECTION.md: reruns are idempotent.  Whatever files repeat an
\* address, whenever batches end early and whatever discovery fetches in
\* between, no address is given to the extractor twice, and a batch's report
\* has one row for an address.
CollectedOnce ==
  /\ \A u \in Urls : attempts[u] <= 1
  /\ \A m, n \in DOMAIN results : results[m].url = results[n].url => m = n

\* A page that a batch fetched went to the extractor, or is about to, or its
\* batch ended right between the two: later batches only find it existing.
PagesAreExtracted ==
  \A u \in Urls :
    pages[u] # None /\ pages[u].ok /\ pages[u].type = "official_program" =>
      attempts[u] > 0 \/ u \in cutShort \/ (bpc = "extract" /\ u = Address)
=============================================================================
