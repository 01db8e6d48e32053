# Verification of the Pathfinder data collector

TLA+ modules, TLC configurations and TLAPS proofs for
`src/src/pathfinder_collector`. The collector fetches official university
pages politely, extracts programme candidates with evidence, keeps
contradictions until a human settles them, lets a human approve, and exports
approved candidates as packages. What could go wrong is the bookkeeping
between those steps: several tables derived from one set of evidence, several
database commits per command, several commands (processes) on one database and
one file tree, and machines and servers that fail in between.

All paths below are relative to `src/src/pathfinder_collector` unless they
start with `docs/` (then `src/docs/`).

## 1. Inventory

### Components, state and operations

| Component | State | Operations that change it |
|---|---|---|
| Fetch service, page cache (`services/fetching.py`, `fetching/cache.py`) | `source_pages` rows (status, robots verdict, hash, path, redirects, expiry), files named by their SHA-256 | `fetch_url`: cache hit, or network fetch and save of the whole row |
| Safe HTTP client (`fetching/client.py`) | the running fetch: target, hop, attempt | redirects, retries, streaming with limits, errors as results |
| Robots rules (`fetching/robots.py`) | cached `robots.txt` files with an age limit | `check`, `sitemap_urls` |
| Host rate limiter (`fetching/policies.py`) | last request per host, a lock per host | `wait` |
| Field extraction (`extraction/`) | none | HTML to field suggestions |
| Candidate extraction (`services/extraction.py`) | candidate row, sources of the candidate, evidence, conflicts | `extract_source`, primary or supporting |
| Operator context (`services/context.py`) | context value with its `effective` flag, context conflicts | `apply_job_country`, `refresh_candidate` |
| Conflict resolution (`services/conflicts.py`) | resolution of a conflict, overrides, audit rows | `resolve` with five actions |
| Human review (`services/review.py`) | status, overrides, `approved_at`, audit rows | `review_candidate`: approve, reject, return |
| Export (`services/exporting.py`) | package directories, export runs and their candidates, status | `export_programs` |
| Blockers, reports, pilots | none | read tables, write reports |
| Batch collection (`services/batch.py`) | map of existing pages for one run | `collect`: fetch and extract each row, then a report |
| Discovery (`services/discovery.py`) | queues, checked and emitted addresses of one run | `discover`: sitemaps, then a bounded crawl per domain |
| Jobs, contract, configuration, migrations, command line | job rows, constants | create a job; the rest is set-up |

### How they interact

Every command of `cli.py` opens one session (`database.py:55`), calls one
service and ends. Services share nothing in memory; they meet in the SQLite
tables and in the cache and export directories. Fetching writes source pages,
which extraction reads with their cached file; extraction writes evidence and
everything derived from it, and ends by calling `refresh_candidate` of the
context; resolution and review change the candidate and add audit rows; export
reads candidates, writes a directory, then a run and the candidates' statuses.
Batch drives fetching and extraction, discovery drives fetching.

### What is hard

- `extract_source` writes in eight committed steps. Between two of them other
  commands run or the process dies.
- `CandidateRepository.save` writes every column from a record read earlier.
- Conflicts are kept across extractions by the identity of their evidence
  pair; resolutions must survive what is unchanged and lapse with what is not.
- Review and export read, decide, and write a row that may have changed.
- An export has effects in two places, the file system and the database, that
  no transaction covers.
- A fetch passes several hosts, each with its own robots rules, caches that
  expire, and answers that may be anything.
- A batch reads the job's pages once and then works for hours; other commands
  add pages meanwhile, a row's page may be replaced between its fetch and its
  extraction, and a batch that ends early has changed the database and reports
  nothing.
- Discovery walks sites that refer to themselves with two queues and four
  limits; the order of a queue decides what is within reach, and what it crawls
  becomes part of what the next run takes for known.

### What makes each part correct

- *Evidence*: values, warnings and conflicts are functions of the evidence;
  one source's extraction does not touch another's rows.
- *Resolution*: no conflict is settled except by a recorded human decision on a
  value official evidence holds; an unchanged rerun keeps it.
- *Review*: only a review approves; nothing is approved or exported over an
  open conflict, nor with an override that no human accepted among the values.
- *Context*: the operator's country is in force exactly while no official
  evidence contradicts it, and no contradicted country is exported.
- *Export*: a recorded run has its complete package, whatever failures leave on
  disk; no package holds a programme twice; exported means recorded.
- *Fetching*: no request without permission for that address, a bounded number
  of requests, rows that describe one fetch and name stored files, and an end.
- *Batch*: over all runs no address is extracted twice, a report has one row for
  an address, and what was fetched is extracted unless the batch died in
  between.
- *Discovery*: candidates are new to the job, unique, complete within the depth
  and no more than the target; a domain costs a bounded number of fetches.
- Both commands end, whatever the web looks like and whatever fails.

## 2. Modules

| Module | Models | Notes |
|---|---|---|
| `EvidenceResolution` | `_resolve_records`, `agreement_confidence`, `replace_for_source`, `replace_conflicts` | operators only |
| `CandidateLifecycle` | one candidate, every command one atomic step | EXTENDS `EvidenceResolution` |
| `ReviewGate` | what the review workflow promises: status, last decision, open conflict | abstract |
| `ExtractionCommits` | `extract_source` commit by commit, other commands between, crashes | EXTENDS `CandidateLifecycle`, and INSTANCEs it as the atomic specification it implements |
| `ExportPackages` | several candidates, several export runs: select, write, rename, commit, fail, crash | |
| `ExportLedger` | what an export promises: take a snapshot, publish exactly it or nothing | abstract |
| `PageFetch` | `fetch_url` with robots, redirects, retries, rows and files | |
| `JobPages` | the source pages of one job, a fetch as one step, rows of input files | |
| `ProgrammeDiscovery` | `discover`: seeds, sitemaps, crawl, candidates, report | EXTENDS `JobPages` |
| `BatchCollection` | `collect`: rows, fetch, extraction, report | EXTENDS `JobPages` |
| `DiscoverThenBatch` | both on one job, at the same time or in turn | EXTENDS the two |
| `AtomicExtractionProofs` | that `ExtractionCommits`, run alone, implements `CandidateLifecycle` | TLAPS |
| `CrawlProofs` | that a crawl overlooks nothing | TLAPS; EXTENDS `CollectionProofs` |
| other `...Proofs` | theorems of the module named before `Proofs` | TLAPS |
| `MC...` | instances for TLC | |

### State and actions against the code

**`EvidenceResolution`.** An evidence row is a record; it never changes after
insertion, so the record is its identity. `(run, pos)` is its place in creation
order, which is the order `evidence_for` sorts by. Values stand for casefold
classes: `_resolve_records` compares `casefold()`ed normalised values.
`_evidence_key` (repositories.py:496-504), by which a rerun recognises a stored
row, is finer: it compares the texts as they are and the locator too. The model
has neither, so a page that changes in case, wording or layout only keeps its
rows and the resolutions on them here, while the code replaces the rows and
reopens the conflict, as both do for a page with other values. `RawValues` are values of controlled fields the
normaliser did not know, kept as extracted text without a normalised value.

**`CandidateLifecycle`.** The variables are the columns and tables of one
candidate (`status`, `normalized`, `overrides`, `warnings`, `approvedAt`,
`roles`, `evidence`, `conflicts`, `context`, `contextConflicts`, `reviews`,
`resolutions`, `exports`) and the cached content of each source page
(`stored`). `Extract`, `ApplyJobCountry`, `Resolve`, `Approve`, `Reject`,
`ReturnToReview`, `Export`, `Fetch` and `LoseCache` are the commands.
`Approve` carries every guard of `_validate_approval`; `Export` those of
`_blocking_error`. `approvedAt` is the number of the review whose date the
column holds. `accepted` is a history variable: the effective values at the
last approval.

**`ExtractionCommits`.** `pc` names the next commit, `job` is what the Python
process holds: the record read at the start, the page, the role. `Load` reads;
`SaveCandidate`, `LinkPrimary`, `LinkSource`, `ReplaceEvidence`, `SaveValues`,
`StoreConflicts`, `SaveStatus` and `RefreshContext` are the commits in the order
of extraction.py:127-183. `WriteRow` writes every column from the record, as
`save` does. The primary link at the end of the second and third `save` is the
same idempotent write and is folded into them. All other commands are those of
`CandidateLifecycle`, allowed between commits when `OthersRun`; `MayCrash`
allows the process to end at any commit. `interrupted` and `before` are history
variables.

**`ExportPackages`.** `pc` of a run: selected and validated, files written to
the temporary directory, renamed, committed, failed or crashed. `marks` are the
rows whose status the session will write (those that differed from `exported`
when read); `rows` what the package holds; `directory` what is on disk, under its
temporary or its final name, complete or not. `Fail` removes the directory as
`rmtree(ignore_errors=True)` does (exporting.py:183,186): perhaps it stays, or
some of its files do. A run that dies removes nothing.
Reviews and extractions appear by their effect on a candidate: its status, its
key (country, university, programme, degree, which duplicates are judged by)
and whether something blocks it. `ExportLedger` has two steps where the code
has five: `Prepare` is the selection, `Publish` the commit, `Discard` a failure
or a crash; writing and renaming are invisible to it. It promises that what is
published is what was selected, not that it is still eligible: that is what
`rejected_shipped` refutes.

**`PageFetch`.** `page` are the rows, `file` the content-addressed files,
`robots` the cached rules, `pc` and `job` the running fetch. `Start` resolves
and validates the address (its verdict is free), `RobotsCached` and
`RobotsRequested` are `RobotsChecker.check`, `Retry`, `Redirect`,
`UnsafeRedirect`, `Fail`, `Receive` and `Escape` are the ways one request ends,
`Save` writes the row. `PageExpires`, `RobotsExpires`, `Damage` and `Crash` are
time, the disk and the machine. `requests` counts page requests of the running
fetch and is not in the code.

**`JobPages`.** `pages` are the `source_pages` rows of the job: there or not,
whether the page was fetched, where its redirects ended, and for which command.
`FetchPage` is `fetch_url` in one step: a usable row is served as it is, or the
row is written with one of the answers the instance allows (`PageFetch` shows
that a fetch has such an outcome). Two answers leave no row: an address that
does not resolve, and one that the service's own check could not resolve while
the client's could. `KnownUrls` is the map of addresses, requested and final,
that both commands read at their start. Rows of files are functions from row
numbers, which is how the code numbers them in its reports. A fetch that fails
records the address it had reached, the one asked for or the last of the redirects.

**`ProgrammeDiscovery`.** `dpc` names the loop of `_discover_seed` the run is in:
`BeginDomain`, `ReadDeclared` and `EndDeclared` build the sitemap queue (the
seed's, those of `robots.txt`, the conventional two); `SkipSitemap`,
`FetchSitemap`, `ReadLocation` and `EndLocations` are the loop over it;
`BeginCrawl`, `SkipPage`, `FetchCrawled`, `ReadLink`, `EndLinks` and `EndCrawl`
the crawl. `Consider`, `RecordFailure`, `Allowed`, `Score` and `StatusOf` are
`_consider`, `_record_failure`, `_url_allowed`, `classify_programme_url` and the
choice of a row's status. `Report` writes the files, `DiscoveryDies` is a crash
or an escaping error at any point. What the sites contain, links with their
texts, sitemaps, redirects, is constant; what the hosts answer is not.
`requests` and `opened` are history variables.

**`BatchCollection`.** `StartBatch` reads the file and the job's pages;
`ExistingRow`, `FetchRow` and `ExtractRow` are the turns of the loop of
`collect`, split where a commit separates fetch and extraction; `FinishBatch`
writes the report, `BatchDies` is a crash or an escaping error. `attempts` and
`cutShort` are history variables.

**`DiscoverThenBatch`.** The two commands interleave step by step. They share
`pages`; the last report of discovery is among the batch's input files.

### Abstractions that hold throughout

- A repository call, and every command other than the one a module splits, is
  one atomic step. One extraction runs at a time in `ExtractionCommits`, one
  fetch at a time in `PageFetch` (`_fetch_lock`, one command per process), one
  discovery and one batch at a time in `DiscoverThenBatch`.
- A page's content is a model value and its own hash; what the extractor
  suggests for it is a constant of the instance.
- Time is a nondeterministic expiry. Wording, reports, logging, and the layout
  of packages are left out.

## 3. Runs

| Run | Module, configuration | Question |
|---|---|---|
| `candidate_lifecycle` | `MCCandidateLifecycle`, `CandidateLifecycle` | Do derived tables, resolutions, overrides, context and status stay consistent while two sources disagree, the primary page changes, and evidence comes and goes? Does the lifecycle implement `ReviewGate`? |
| `commits_exclusive` | `MCExtractionCommits`, `CommitsExclusive` | Alone and uninterrupted, is the sequence of commits the atomic `Extract`? Does every disagreement reach the conflict table? |
| `commits_interleaved` | `MCExtractionCommits`, `CommitsInterleaved` | With other commands between commits and crashes at any commit, what still holds, and does the next complete extraction repair the rest? |
| `export_interleaved` | `MCExportPackages`, `ExportInterleaved` | With overlapping exports, reviews, extractions, failures and crashes, what is true of packages, records and statuses? Do exports implement the ledger? |
| `discover_then_batch` | `MCDiscoverThenBatch`, `DiscoverThenBatch` | Are candidates new, counted and found completely, fetches bounded, addresses extracted once, fetched pages extracted, and do both commands end? |
| `page_fetch` | `MCPageFetch`, `PageFetch` | Are robots rules obeyed at every hop, requests bounded, rows and files consistent, and does every fetch end? |

Six runs show that the code does not do what its documentation says; each
checks the documentation's sentence.

| Run | What TLC finds |
|---|---|
| `stale_approval` | Extract, approve, refresh the page, extract again: the status stays `approved` with other values. docs/REVIEW_WORKFLOW.md:31 says a human accepted the effective values. |
| `third_source` | Two values conflict and the conflict is resolved; a third equally strong value from a third source joins no conflict because the reported pair is unchanged. docs/REVIEW_WORKFLOW.md:50 says materially different evidence reopens it. |
| `lost_review` | A rejection committed while an extraction runs is overwritten by the record the extraction read before: approved again without a review. docs/REVIEW_WORKFLOW.md:3. |
| `cut_short` | An extraction that ends between evidence and conflicts leaves a contradiction that no conflict row records; the candidate can be approved. docs/REVIEW_WORKFLOW.md:35. |
| `rejected_shipped` | A candidate rejected after an export selected it is shipped and marked `exported`. docs/PATHFINDER_EXPORT.md:14-15. |
| `rerun_reproduces` | The first run crawls a page it reports as a candidate; the page then belongs to the job, and the second run, on a site that answers the same, reports it as already existing. docs/PROGRAMME_DISCOVERY.md:50-51 says reruns reproduce the candidates. |

Each property of a passing run has a mutant of the modelled code that breaks it,
defined next to the definition it mutates.

### Bounds, and why they are enough

- *Fields*: four stand for fourteen, one of each kind the code distinguishes:
  the page's address (judged on the primary source alone), an extraction core
  field, the country (approval core, the one context may supply) and an
  optional one that can be cleared. Fields meet only in the status conditions.
- *Sources*: a primary and a supporting page, the primary with two versions;
  three sources in `third_source`, where a third party to a dispute is the
  point. Contents are chosen so that values agree, disagree equally, disagree
  unequally, appear, disappear and reappear, that a contested pair moves on
  while its rows stay, and that low and unknown values occur.
- *Commands*: `candidate_lifecycle` has three extractions (first, refresh,
  supporting or repair), one review, two resolutions (settle, reopen) and one
  export; the larger numbers of reviews are in `commits_exclusive` (two, for an
  approval dated again) and in the proofs. `commits_interleaved` has no
  reviews, so that crashes and resolutions at every commit fit: reviews between
  commits are in `lost_review` and `cut_short`, which find them harmful.
- *Export*: two candidates are needed for a duplicate or for one skipped and
  one shipped; two runs for overlap and for an export repeated; three keys,
  one of which the contract rejects. Candidates and runs are interchangeable,
  so they are symmetric.
- *Fetch*: two addresses on two hosts, so that a redirect changes the rules
  that apply, two contents, three attempts (the code's number), one redirect
  (at the limit, one past it), two fetches so that the second meets the first's
  rows, files and rules. The proofs cover every number.

- *Web*: two domains, one the subdomain of the other; pages that link in
  cycles, a page reachable by two paths of different lengths (the order of the
  queue decides what is within the depth), a sitemap index that lists itself, a
  redirect, two programmes that differ in the query only, a trap, a link off the
  domain, hosts that answer with failures; limits so small that each of them is
  reached. One discovery and two batches, one of them over a file with a
  repeated address or over the discovery's report; two discoveries and no batch
  in `rerun_reproduces`, where every host answers. The proofs cover every web.

`MaxExtractions`, `MaxReviews`, `MaxResolutions`, `MaxExports`, `MaxFetches`,
`MaxDiscoveries` and `MaxBatches` are bounds of the models and not of the code
(`MaxSitemaps`, `MaxSitemapDepth`, `MaxPages`, `MaxDepth`, `MaxLinks` and
`Target` are the code's). Deadlock is checked in every run but `page_fetch`,
`discover_then_batch` and `rerun_reproduces`, where all that may happen stops
once the commands are used up.

### Fairness

Three liveness properties are stated. `ConflictsCatchUp` uses weak fairness
of an extraction that has started and is not interrupted: the function runs to
its end, nothing obliges a user to start one. `FetchEnds` uses weak fairness of
the running fetch's next step: each request ends by an answer or by the connect
and read timeouts `SafeHttpClient` sets (client.py:27-54). A server that sends
bytes slowly for ever is cut off by the size limit. `CommandsEnd` uses weak fairness
of the next step of a discovery or a batch that has started: each is a
sequential loop whose fetches end by `FetchEnds`. No fairness is assumed of
commands, expiry, damage or crashes.

## 4. Proofs

TLAPS proves the following for every value of the constants that satisfies the
modules' assumptions (`ResolutionConstants`, `LifecycleConstants`,
`ExportConstants`, `FetchConstants`, `JobPagesConstants`, `NoneIsNoRow`,
`DiscoveryConstants`, `BatchConstants`, `CommitsConstants`); TLC evaluates those on every run.

**`EvidenceResolutionProofs`**: lemmas on the operators: the first row of a
nonempty finite set in creation order, what the strongest rows are, that a
contested field has two different rows to report, that keys of reported
conflicts determine their field, that replacement of rows and conflicts keeps
their types and leaves exactly the keys reported now, and that a resolved row
after it was resolved before. `Stated` forgets when a row was stored and keeps
what it says; `SourceSpeaks` shows that after an extraction a source's rows
state exactly its page and that no other source's rows changed. Two theorems
follow. `ClockDecidesNothing`: sets that state the same have the same values,
contested fields and warnings, so `created_at` chooses only which two rows a
conflict shows. `ExtractionOrderImmaterial`: two sources may be extracted in
either order.

**`CandidateLifecycleProofs`**. The inductive invariant is `TypeOK`, that no
conflict exists without a candidate, that normalised values and conflicts are
current, that approval is human and that nothing is approved over an open
conflict. It is needed because approval looks at stored conflicts: that an
extraction leaves no approved candidate with an open conflict depends on the
table being rebuilt from all evidence, and that a conflict resolved before is
the one reported now depends on both being pairs of the same field.
Consequences: `TypeCorrect`, `ConflictsFollowEvidence`, `ValuesFollowEvidence`,
`ApprovalOnlyByReview`, `ApprovedWithoutConflict`, the action property
`OnlyReviewersResolve`, and `LifecycleImplementsReviewGate` (initial states map
to initial states, every command to a step of the gate or a stutter).

The rest of what the runs check of the lifecycle follows in the same module.
`SourceInv` adds to `OnePrimarySource` and `ContextCurrent` that the context
conflicts are the contradictions of the evidence, which is what export looks
at. `ResolvedInv` adds to `ResolvedFromOfficialValues` that unresolved conflicts
refer to stored evidence too: an extraction decides which rows survive by the
evidence they refer to, before it knows which were resolved.
`OverridesAudited` and `OverridesWereAccepted` are inductive as they stand: a
resolution changes an override and withdraws the approval in one step. The other
two action properties follow from these and the types; `UnchangedRerunsKeepResolutions` needs both tables to
be current, since only then are the keys reported now the keys stored before.

**`ExtractionCommitsProofs`**, with other commands and interruptions between any
two commits. The types gain the record and the page the process holds in memory
(`CommitsTyped`), which is what its three late writes of the row put back.
`ConflictsReferToEvidence` is inductive with them. `Attached` adds that the source
is linked when its evidence is about to be stored. `Repaired` says, for each
commit, which derived table is up to date already, and that no other command puts
it behind; `RerunRepairs` is its last line. None of these assumes fairness or
anything of the interruption. With them:

- `UninterruptedCurrent` (for `~ MayCrash`): whenever no extraction is under way
  all derived tables are current, although other commands ran between its
  commits. Only an interruption can leave them behind the evidence.
- `OneConflictEach`, `StoredConflictsAreReal`: a field has at most one conflict
  row, and its two rows are stored, of that field, equally firm and different;
  a settled one carries one of their values or an allowed blank. The first is
  inductive because `replace_conflicts` compares with pairs of which there is one
  for a field; the second because rows go together with what refers to them.
- `OnlyReviewersResolveMeanwhile`, `OverridesStayAudited`: two properties of the
  atomic lifecycle that survive interleaving.
- `ApprovalsHadTheirReview`: what is left of "only a review approves" when an
  old record is written over a new one. A status may be resurrected
  (`lost_review`), but only with the date of a review that did approve. `RowInv`
  carries it, and the audit of overrides, through the record the process holds:
  what it writes back is what humans once said, and histories only grow.
- `EvidenceHasItsPrimary`: the primary link is committed before any evidence, for
  every source that may be extracted first, and no other source becomes primary.
- `EvidenceIsOfOnePage`: a source's rows are all of one of its pages or none. It
  needs that the page in memory is one the source returned
  (`PagesAreTheSources`) and `SourceSpeaks`.

Some of these properties are checked by no listed run (`CurrentAtRest`,
`OneConflictPerField`, `ConflictsAreDisputes`, `ApprovalHadItsReview`,
`PrimaryLinkedFirst`, `RowsOfOnePage`); they are defined in the proof module.

**`AtomicExtractionProofs`**, with nothing between the commits (`~ OthersRun`).
`Underway` writes the database at every commit as a function of the state the
extraction started from, its page and its number; an interruption does not
disturb it (`AloneUnderway`). Without interruption (`~ MayCrash` too, as in
`commits_exclusive`) the commits before the last are stutters of the refinement,
which shows that first state until the end; the last is `Extract` with the
effect all of them had together; every other command is itself (`CommandsMap`).
The operators of the instance are first shown to be those of the module.
`AloneIsAtomic` is what carries the theorems of `CandidateLifecycle` over to the
code that commits piecewise. The others say what exactly it takes for the code
to break its documentation's promises:

| Theorem | Assumes that there is no | So the violation takes |
|---|---|---|
| `AloneApprovalIsHuman`, `AloneOnlyReviewApproves` | overlap (interruptions are harmless) | an overlap: `lost_review` |
| `AloneContestedBlock` | overlap, no interruption | one of them: `cut_short` has the interruption |
| `AloneSettled`, `AloneCountryUncontradicted` | overlap, no interruption | |

**`ExportPackagesProofs`**. The inductive invariant adds to the types what each
stage of a run knows: a run is recorded exactly when done, its directory is
what its stage says while it runs and when it is done (nothing is said of what a
failed or dead run leaves), rows on the way to a package have distinct keys, and
what a run will mark is among its rows. From it follow the three safety properties of
`export_interleaved`, with overlapping runs. `ExportsPublishSnapshots` maps a run
that is selected, written or renamed to a prepared snapshot and a recorded one
to a published package: selection is `Prepare`, the commit `Publish`, failure
and crash `Discard`, and every other step is a `Review` or a stutter. Nothing is
assumed about what runs between the steps of an export.

**`PageFetchProofs`**. The inductive invariant says what the running fetch has
established at each point: permission for its current target, the verdict its
status rests on, hops within the limit, requests at most the attempts of the
hops made, and files behind every path it or a row holds. From it follow
`EveryHopPermitted`, `RequestsAreBounded`, `RecordedFilesWereStored` and
`RowsDescribeOneFetch` for any number of addresses, hosts, redirects and
attempts up to three. `FetchesRunOut` is the part of `FetchEnds` that is a
safety property: `StepsLeft`, a natural number made of the redirects and attempts
still allowed, falls with every step of the fetch and rises with nothing else.

**`CollectionProofs`**, for any web, any files and any limits, with both commands
running at once and dying anywhere. `CollectionInv` has five parts. `Typed`: the
types, that a domain being worked on is one of the seeds, and that links are
read for an entry of a queue. `Bounded`: the requests of a domain are the
addresses checked and crawled, which are distinct, allowed and within their
limits; without that count nothing relates a number of fetches to sets of
addresses. `Emitting`: candidates are finite, new, as many as their rows, and
fewer than the target while a domain is worked on. `BatchInv`: addresses of
rows to do and rows done are all different, what was extracted has a page (so
that a later batch, which reads the pages first, knows it), and a row that was
not known has not been extracted. `PagesTypeOK` with what a fetch may do to the
rows: it removes none, and discovery writes none as a batch's. The five theorems
are `CollectionTypesCorrect`, `DiscoveryEmitsNew`, `DiscoveryIsBounded`,
`RerunsCollectOnce` and `FetchedPagesExtracted`. Row numbers are well ordered
(`LeastRow`, from the library's well-foundedness of the naturals), which is what
makes the first row of a file a row of it.

`CommandsHaveAnEnd` is the safety part of `CommandsEnd`. Each step of a batch
lowers `BatchStepsLeft`, two for a row. For discovery no single number is at hand:
reading a link lengthens a queue, and `robots.txt` may declare any number of
sitemaps. `Work` counts seeds, loops of the domain, fetches the loop may still
make, and turns without a fetch (an entry that waits, two for a link to be read);
every step lowers it in the lexicographic order, and neither the other command
nor a crash raises it. `FilesFinite` is the invariant it needs beside
`CollectionInv`. That the steps are also taken is fairness, and stays with TLC.

**`CrawlProofs`**. `CrawlOverlooksNothing` is `NothingOverlooked` for any web: a crawl
that ends because nothing waits has visited every page within `max_crawl_depth`
links of its start, and no programme link of a page it read is lost. The code
keeps no distances, so the invariant (`CrawlInv`) says that there are some: a
depth for each page crawled, no greater than that of anything that waits, with
the queue ordered by depth and spanning two levels at most; each link of a page
that was read is followed, that is, its page was visited or waits no more than
one level further. `WalkCrawled` then takes a walk and the first page of it not
visited in time (`LeastRow` again, in place of an induction). `FoundInv` is the
converse, that whatever waits was found by a walk of as many pages as its depth, and
gives `CrawlKeepsWithinDepth`: a crawl visits nothing beyond the depth.

Only model-checked: the liveness properties `ConflictsCatchUp`, `FetchEnds` and
`CommandsEnd` (liveness under fairness is out of the prover's reach; for the last
two the decreasing measures above are proved), and the six violations, which are
counterexamples. Every other property of the passing runs is a theorem.

## 5. Plan

Done: the candidate's core (`EvidenceResolution`, `CandidateLifecycle`,
`ReviewGate`), its extraction split at commits and the refinement back to one
step, overlapping exports with their ledger, page fetching, discovery and batch
collection and the two together; the proofs above. What is left:

1. A review split at its reads and its commit, and a second running extraction,
   in `ExtractionCommits`: the two interleavings the hazards list as not covered.
2. The report commands (`blockers`, `reports`), once a promise of theirs relates
   to more than the row they print.

## 6. Not modelled

- *HTML extraction, contract, configuration, pilots*: pure functions of text;
  the models take their result as a constant or a free choice.
- *Address safety*: string checks and name resolution, a free verdict here.
- *Row mapping, CSV and manifest*: the content of a package beyond the
  candidates and keys in it.
- *Host rate limiter*: each command is one process with one client whose
  fetches are serialised (`_fetch_lock`), so the lock per host is never
  contended; what is left is a subtraction of clock readings.
- *Inside a fetch and an extraction of a batch*: one step each in
  `BatchCollection`; `PageFetch` and `ExtractionCommits` have them in detail.
  Operator hints, counts and the columns of the reports are left out.
- *Classifier words, HTML and XML parsing* of discovery: constants of the
  instance, as are the sites.
- *Reports and blockers*: they change no state.
- *Command line*: argument parsing and printing around one service call.
- *Migrations and database set-up*: run once, before anything here.

Seen while reading, and carried by no run:

- docs/EXTRACTION_POLICY.md:22-23 says of a rerun "human statuses and unrelated
  candidates are not overwritten"; extraction.py:173 overwrites an approved,
  rejected or exported status whenever a conflict is open. The sentence, that no
  extraction changes a human status, is false of `CandidateLifecycle`: extract a
  page, reject the candidate, extract a supporting page that contradicts the
  first. `ImplementsReviewGate` depends on the code's rule, since reopening a
  conflict has to withdraw an approval.
- An override set by a resolution stays when its conflict is gone or reopened
  (conflicts.py:90). `OverridesWereAccepted` says that it is not shipped without an
  approval given on it, and holds when commands do not overlap.
- An export that dies after its rename, or fails and cannot remove its directory
  (exporting.py:183,186 ignore that), leaves a package in its final place that no
  run records, and perhaps an incomplete one. Nothing looks for it later; only
  `export show`, which asks the database, tells it from a package of a recorded run.
- A resolution stores its value as an override in the candidate's row; an
  extraction that read the row before writes the old overrides back, and the
  conflict stays resolved without them.
- blockers.py:84 calls a candidate eligible whose category was cleared or whose
  values the contract rejects; exporting.py:214-246 refuses it.
- client.py:64 says complete fetches are serialised; discovery's call of
  `sitemap_urls` requests `robots.txt` outside that lock.
- A protocol error of a server is not among the exceptions client.py:168-173
  catches; it leaves `fetch_url` and ends the command.
- A candidate that discovery crawls becomes a page of the job, so the batch run
  on the report finds it already existing and never extracts it (batch.py:212).
  Only candidates beyond the crawl's depth or page limit reach the extractor.
- `discovered_programmes.csv` has addresses without their queries
  (discovery.py:467): candidates that differ in the query are one row of a batch,
  and perhaps an address that is no programme.
- Links are joined with the address asked for and not with the one reached after
  redirects (discovery.py:342), and a page reached off the domain is read all the
  same. A malformed `href` raises in the same `urljoin`, outside the
  `try` that guards `canonicalize_url`, and ends the run without a report.
- A refetch by discovery of a page that a batch fetched overwrites its
  `source_type` and domain.
- The export ignores a lost cache file, which blocks approval and is reported by
  blockers.
- The interactive review (cli.py:687-738) shows values read in an earlier session
  and without the operator's context.
