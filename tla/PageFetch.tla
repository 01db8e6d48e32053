------------------------------ MODULE PageFetch ------------------------------
(***************************************************************************)
(* fetch_url and everything it calls: the source page rows of a job, the   *)
(* content-addressed cache files, robots.txt and its cache, redirects and  *)
(* bounded retries.  One fetch runs at a time (SafeHttpClient._fetch_lock, *)
(* one command per process).  What a host answers, when a cache entry      *)
(* expires or a file is damaged, and where the process dies, is left open. *)
(***************************************************************************)
EXTENDS Naturals

CONSTANTS
  Urls,          \* normalised page addresses
  Hosts,
  HostOf,        \* address -> host (and origin)
  Contents,      \* page contents; a content is its own SHA-256
  None,
  MaxAttempts,   \* max_attempts of SafeHttpClient
  MaxRedirects,  \* max_redirects
  MaxFetches     \* bound: fetches started

ASSUME FetchConstants ==
  /\ HostOf \in [Urls -> Hosts]
  /\ None \notin Contents \cup Urls \cup (Hosts \X Contents)
  /\ MaxAttempts \in 1..3
  /\ MaxRedirects \in Nat
  /\ MaxFetches \in Nat

VARIABLES
  page,     \* source_pages: address -> row or NoRow
  file,     \* cached pages: absent (never written), intact or bad
  robots,   \* cached robots.txt of each host, or None when absent or expired
  pc,       \* where the running fetch is, or "idle"
  job,      \* what the running fetch holds
  fetches   \* fetches started

\* Not in the code: page requests sent by the running fetch.
VARIABLE requests

vars == <<page, file, robots, pc, job, fetches, requests>>

Paths == Hosts \X Contents

FailureStatuses == {"http_error", "unsupported_content", "response_too_large",
                    "network_error"}
FetchStatuses == FailureStatuses \cup
  {"fetched", "cache_hit", "invalid_url", "robots_disallowed", "robots_unavailable"}
RobotsStatuses == {"allowed", "disallowed", "unavailable", "invalid"}

\* A row: path and hash are kept together, as the path holds the hash.
NoRow == [status |-> None]
Row == [status: FetchStatuses, robots: RobotsStatuses, path: Paths \cup {None},
        redirects: Nat, fresh: BOOLEAN]

NoJob == [url |-> None]
Job == [url: Urls, target: Urls, attempt: 0..2, redirects: Nat,
        robots: RobotsStatuses, judged: Urls \cup {None},
        status: FetchStatuses \cup {None}, path: Paths \cup {None},
        recorded: BOOLEAN]

TypeOK ==
  /\ page \in [Urls -> Row \cup {NoRow}]
  /\ file \in [Paths -> {"absent", "intact", "bad"}]
  /\ robots \in [Hosts -> (SUBSET Urls) \cup {None}]
  /\ pc \in {"idle", "robots", "page", "save"}
  /\ IF pc = "idle" THEN job = NoJob ELSE job \in Job
  /\ fetches \in 0..MaxFetches
  /\ requests \in Nat

Init ==
  /\ page = [u \in Urls |-> NoRow]
  /\ file = [p \in Paths |-> "absent"]
  /\ robots = [h \in Hosts |-> None]
  /\ pc = "idle"
  /\ job = NoJob
  /\ fetches = 0
  /\ requests = 0

-----------------------------------------------------------------------------
\* _cache_hit: a fresh entry of a successful fetch whose file has its hash.
CacheHit(u) ==
  /\ page[u] # NoRow
  /\ page[u].status \in {"fetched", "cache_hit"}
  /\ page[u].fresh
  /\ page[u].path # None
  /\ file[page[u].path] = "intact"

ServeFromCache(u) ==
  /\ pc = "idle"
  /\ fetches < MaxFetches
  /\ CacheHit(u)
  /\ page' = [page EXCEPT ![u].status = "cache_hit"]
  /\ fetches' = fetches + 1
  /\ UNCHANGED <<file, robots, pc, job, requests>>

\* The fetch ends with this status; the row is still to be saved.
Finish(status, path) ==
  /\ pc' = "save"
  /\ job' = [job EXCEPT !.status = status, !.path = path]

\* A fetch that goes to the network.  The name of the address is resolved and
\* validated twice, first by FetchService, then by SafeHttpClient: a fetch that
\* fails the first check skips the cache and will not be recorded, whatever
\* the second one says.
Start(u, force, recorded) ==
  /\ pc = "idle"
  /\ fetches < MaxFetches
  /\ recorded /\ ~ force => ~ CacheHit(u)
  /\ fetches' = fetches + 1
  /\ requests' = 0
  /\ LET new == [url |-> u, target |-> u, attempt |-> 0, redirects |-> 0,
                 robots |-> "invalid", judged |-> None,
                 status |-> None, path |-> None, recorded |-> recorded]
     IN  \/ pc' = "robots" /\ job' = new
         \/ pc' = "save" /\ job' = [new EXCEPT !.status = "invalid_url"]
  /\ UNCHANGED <<page, file, robots>>

-----------------------------------------------------------------------------
\* What robots.txt says of the target, and what check does with the answer.
Verdict(status) ==
  /\ job' = [job EXCEPT !.robots = status, !.judged = job.target, !.attempt = 0,
                        !.status = CASE status = "allowed" -> None
                                     [] status = "disallowed" -> "robots_disallowed"
                                     [] OTHER -> "robots_unavailable"]
  /\ pc' = IF status = "allowed" THEN "page" ELSE "save"

Judge(disallowed) ==
  Verdict(IF job.target \in disallowed THEN "disallowed" ELSE "allowed")

\* check with a robots.txt in the cache.
RobotsCached ==
  /\ pc = "robots"
  /\ robots[HostOf[job.target]] # None
  /\ Judge(robots[HostOf[job.target]])
  /\ UNCHANGED <<page, file, robots, fetches, requests>>

\* check with a request: a readable file is cached and obeyed, a missing one
\* (4xx) permits everything, 401 and 403 forbid, anything else is no permission.
RobotsRequested ==
  LET h == HostOf[job.target]
  IN  /\ pc = "robots"
      /\ robots[h] = None
      /\ \/ \E disallowed \in SUBSET {u \in Urls : HostOf[u] = h} :
              /\ robots' = [robots EXCEPT ![h] = disallowed]
              /\ Judge(disallowed)
         \/ /\ UNCHANGED robots
            /\ \E status \in RobotsStatuses : Verdict(status)
      /\ UNCHANGED <<page, file, fetches, requests>>

-----------------------------------------------------------------------------
\* Mutant: the attempts of one hop are never used up.
Retry_Forever ==
  /\ pc = "page"
  /\ job' = [job EXCEPT !.attempt = (job.attempt + 1) % MaxAttempts]
  /\ requests' = IF requests < MaxAttempts THEN requests + 1 ELSE requests
  /\ UNCHANGED <<page, file, robots, pc, fetches>>

\* Mutant: the last attempt is retried too.
Retry_OneMore ==
  /\ pc = "page"
  /\ job.attempt < MaxAttempts
  /\ job' = [job EXCEPT !.attempt = @ + 1]
  /\ requests' = requests + 1
  /\ UNCHANGED <<page, file, robots, pc, fetches>>

\* A timeout, a network error or a temporary status, with attempts left.
Retry ==
  /\ pc = "page"
  /\ job.attempt + 1 < MaxAttempts
  /\ job' = [job EXCEPT !.attempt = @ + 1]
  /\ requests' = requests + 1
  /\ UNCHANGED <<page, file, robots, pc, fetches>>

\* A protocol error of the server is none of the exceptions caught: it leaves
\* fetch_url, and nothing is saved.
Escape ==
  /\ pc = "page"
  /\ pc' = "idle"
  /\ job' = NoJob
  /\ requests' = requests + 1
  /\ UNCHANGED <<page, file, robots, fetches>>

\* Mutant: one redirect too many is followed.
Redirect_OneMore(v) ==
  /\ pc = "page"
  /\ job.redirects <= MaxRedirects
  /\ requests' = requests + 1
  /\ job' = [job EXCEPT !.target = v, !.redirects = @ + 1]
  /\ pc' = "robots"
  /\ UNCHANGED <<page, file, robots, fetches>>

\* Mutant: robots.txt is asked about the first address only.
Redirect_Unchecked(v) ==
  /\ pc = "page"
  /\ job.redirects < MaxRedirects
  /\ requests' = requests + 1
  /\ job' = [job EXCEPT !.target = v, !.redirects = @ + 1, !.attempt = 0]
  /\ pc' = "page"
  /\ UNCHANGED <<page, file, robots, fetches>>

\* A redirect that is followed, up to the check of robots.txt.
Redirect(v) ==
  /\ pc = "page"
  /\ job.redirects < MaxRedirects
  /\ requests' = requests + 1
  /\ job' = [job EXCEPT !.target = v, !.redirects = @ + 1]
  /\ pc' = "robots"
  /\ UNCHANGED <<page, file, robots, fetches>>

\* A redirect to an address that is not safe.
UnsafeRedirect ==
  /\ pc = "page"
  /\ job.redirects < MaxRedirects
  /\ requests' = requests + 1
  /\ job' = [job EXCEPT !.status = "invalid_url", !.redirects = @ + 1]
  /\ pc' = "save"
  /\ UNCHANGED <<page, file, robots, fetches>>

\* A redirect too many or to nowhere, an error status, a content type or size
\* that is not accepted, or the last attempt failed.
Fail(status) ==
  /\ pc = "page"
  /\ Finish(status, None)
  /\ requests' = requests + 1
  /\ UNCHANGED <<page, file, robots, fetches>>

\* Mutant: a page that could not be stored is reported all the same.
Receive_IgnoresWriteError(c) ==
  LET path == <<HostOf[job.target], c>>
  IN  /\ pc = "page"
      /\ \/ file' = [file EXCEPT ![path] = "intact"]
         \/ UNCHANGED file
      /\ Finish("fetched", path)
      /\ requests' = requests + 1
      /\ UNCHANGED <<page, robots, fetches>>

\* A page is received and written to the cache, or cannot be written.
Receive(c) ==
  LET path == <<HostOf[job.target], c>>
  IN  /\ pc = "page"
      /\ \/ /\ file' = [file EXCEPT ![path] = "intact"]
            /\ Finish("fetched", path)
         \/ /\ UNCHANGED file
            /\ Finish("network_error", None)
      /\ requests' = requests + 1
      /\ UNCHANGED <<page, robots, fetches>>

\* Mutant: a failed refresh keeps the metadata of the page it could not get.
Save_KeepsPath ==
  /\ pc = "save"
  /\ page' = [page EXCEPT ![job.url] =
       [status |-> job.status, robots |-> job.robots, redirects |-> job.redirects,
        path |-> IF job.path = None /\ @ # NoRow THEN @.path ELSE job.path,
        fresh |-> job.path # None]]
  /\ pc' = "idle"
  /\ job' = NoJob
  /\ UNCHANGED <<file, robots, fetches, requests>>

\* _to_page and save: every column is overwritten with what this fetch found.
Save ==
  /\ pc = "save"
  /\ page' = IF ~ job.recorded THEN page
             ELSE [page EXCEPT ![job.url] =
       [status |-> job.status, robots |-> job.robots, redirects |-> job.redirects,
        path |-> job.path, fresh |-> job.path # None]]
  /\ pc' = "idle"
  /\ job' = NoJob
  /\ UNCHANGED <<file, robots, fetches, requests>>

-----------------------------------------------------------------------------
\* Time passes, files are lost or damaged, the process dies.
PageExpires(u) ==
  /\ page[u] # NoRow
  /\ page[u].fresh
  /\ page' = [page EXCEPT ![u].fresh = FALSE]
  /\ UNCHANGED <<file, robots, pc, job, fetches, requests>>

RobotsExpires(h) ==
  /\ robots[h] # None
  /\ robots' = [robots EXCEPT ![h] = None]
  /\ UNCHANGED <<page, file, pc, job, fetches, requests>>

Damage(path) ==
  /\ file[path] = "intact"
  /\ file' = [file EXCEPT ![path] = "bad"]
  /\ UNCHANGED <<page, robots, pc, job, fetches, requests>>

Crash ==
  /\ pc # "idle"
  /\ pc' = "idle"
  /\ job' = NoJob
  /\ UNCHANGED <<page, file, robots, fetches, requests>>

-----------------------------------------------------------------------------
\* A step of the fetch that is running.
Continue ==
  \/ RobotsCached \/ RobotsRequested
  \/ Retry \/ Escape \/ UnsafeRedirect \/ Save
  \/ \E v \in Urls : Redirect(v)
  \/ \E status \in FailureStatuses : Fail(status)
  \/ \E c \in Contents : Receive(c)

Environment ==
  \/ \E u \in Urls : PageExpires(u)
  \/ \E h \in Hosts : RobotsExpires(h)
  \/ \E path \in Paths : Damage(path)
  \/ Crash

Next ==
  \/ \E u \in Urls : ServeFromCache(u)
  \/ \E u \in Urls, force, recorded \in BOOLEAN : Start(u, force, recorded)
  \/ Continue
  \/ Environment

\* Every request ends, by the connect and read timeouts at the latest.
Spec == Init /\ [][Next]_vars /\ WF_vars(Continue)

(***************************************************************************)
(* Properties                                                              *)
(***************************************************************************)

\* A page is requested only with permission for that very address: after every
\* redirect, through cached, missing and failing robots files (FETCHING_POLICY:
\* every redirect is checked against robots rules before it is requested).
RobotsObeyed == pc = "page" => job.robots = "allowed" /\ job.judged = job.target

\* However redirects and retries combine, a fetch sends at most MaxAttempts
\* page requests for each of MaxRedirects + 1 addresses, and no row records
\* more redirects than are allowed.
RequestsBounded ==
  /\ requests <= MaxAttempts * (MaxRedirects + 1)
  /\ \A u \in Urls : page[u] # NoRow => page[u].redirects <= MaxRedirects

\* Wherever a fetch fails or the process dies, a row with a cached file stands
\* for a page that was stored: extraction and approval find it unless it was
\* lost or damaged since.
RecordedWasStored ==
  \A u \in Urls : page[u] # NoRow /\ page[u].path # None => file[page[u].path] # "absent"

\* A row is the outcome of one fetch, never a mixture of two: it has a cached
\* page exactly if that fetch succeeded, and a refusal is recorded with the
\* verdict that caused it, also after redirects and after earlier successes.
RowsAreOneFetch ==
  \A u \in Urls : page[u] # NoRow =>
    LET row == page[u]
    IN  /\ row.path # None <=> row.status \in {"fetched", "cache_hit"}
        /\ row.robots = "disallowed" <=> row.status = "robots_disallowed"
        /\ row.status = "robots_unavailable" => row.robots \in {"unavailable", "invalid"}
        /\ row.status \in {"fetched", "cache_hit"} \cup FailureStatuses
             => row.robots = "allowed"

\* A fetch that has started ends, whatever the servers answer.
FetchEnds == pc # "idle" ~> pc = "idle"
=============================================================================
