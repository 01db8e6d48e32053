--------------------------- MODULE PageFetchProofs ---------------------------
(***************************************************************************)
(* Theorems about PageFetch, for any addresses, hosts, contents and        *)
(* bounds.                                                                 *)
(*                                                                         *)
(* A row says nothing its fetch did not establish, so the invariants of    *)
(* rows rest on what the running fetch has established so far: permission  *)
(* for its target while it asks for a page, a status, a verdict and a file *)
(* that fit when it is about to save, and the requests sent by hop and     *)
(* attempt.                                                                *)
(***************************************************************************)
EXTENDS PageFetch, TLAPS

\* Status, verdict and cached page of one fetch, consistent with each other.
Consistent(r) ==
  /\ r.path # None <=> r.status \in {"fetched", "cache_hit"}
  /\ r.robots = "disallowed" <=> r.status = "robots_disallowed"
  /\ r.status = "robots_unavailable" => r.robots \in {"unavailable", "invalid"}
  /\ r.status \in {"fetched", "cache_hit"} \cup FailureStatuses => r.robots = "allowed"

Permitted == pc = "page" => job.robots = "allowed" /\ job.judged = job.target

Established ==
  /\ pc \in {"robots", "page"} => job.status = None /\ job.path = None
  /\ pc = "save" =>
       /\ job.status \in FetchStatuses
       /\ Consistent(job)
       /\ job.path # None => file[job.path] # "absent"

HopsBounded ==
  pc # "idle" => job.redirects <= MaxRedirects /\ job.attempt < MaxAttempts

RequestsByHop ==
  /\ requests <= MaxAttempts * (MaxRedirects + 1)
  /\ pc = "robots" => requests <= MaxAttempts * job.redirects
  /\ pc = "page" => requests <= MaxAttempts * job.redirects + job.attempt

RowsConsistent == \A u \in Urls : page[u] # NoRow => Consistent(page[u])

RowRedirects == \A u \in Urls : page[u] # NoRow => page[u].redirects <= MaxRedirects

IInv ==
  /\ TypeOK
  /\ Permitted
  /\ Established
  /\ HopsBounded
  /\ RequestsByHop
  /\ RowsConsistent
  /\ RowRedirects
  /\ RecordedWasStored

-----------------------------------------------------------------------------
\* MaxAttempts is 1, 2 or 3, so the bound on requests is linear.
LEMMA Bounds ==
  ASSUME NEW n \in Nat, NEW m \in Nat, n <= m
  PROVE  /\ MaxAttempts * n \in Nat
         /\ MaxAttempts * (n + 1) = MaxAttempts * n + MaxAttempts
         /\ MaxAttempts * n <= MaxAttempts * m
<1>1. CASE MaxAttempts = 1
  BY <1>1
<1>2. CASE MaxAttempts = 2
  BY <1>2
<1>3. CASE MaxAttempts = 3
  BY <1>3
<1>4. QED
  BY <1>1, <1>2, <1>3, FetchConstants

LEMMA InitInv == Init => IInv
<1> SUFFICES ASSUME Init PROVE IInv
  OBVIOUS
<1>1. TypeOK
  <2>1. 0 \in 0..MaxFetches
    BY FetchConstants
  <2>2. QED
    BY <2>1 DEF Init, TypeOK
<1>2. 0 <= MaxAttempts * (MaxRedirects + 1)
  BY Bounds, FetchConstants
<1>3. QED
  BY <1>1, <1>2 DEF Init, IInv, Permitted, Established, HopsBounded, RequestsByHop,
                    RowsConsistent, RowRedirects, RecordedWasStored

LEMMA StartInv ==
  ASSUME IInv, NEW u \in Urls, NEW force \in BOOLEAN, NEW recorded \in BOOLEAN,
         Start(u, force, recorded)
  PROVE  IInv'
<1> DEFINE new == [url |-> u, target |-> u, attempt |-> 0, redirects |-> 0,
                   robots |-> "invalid", judged |-> None,
                   status |-> None, path |-> None, recorded |-> recorded]
<1> USE FetchConstants DEF IInv
<1>1. /\ requests' = 0 /\ fetches' = fetches + 1 /\ fetches < MaxFetches
      /\ UNCHANGED <<page, file, robots>>
      /\ \/ pc' = "robots" /\ job' = new
         \/ pc' = "save" /\ job' = [new EXCEPT !.status = "invalid_url"]
  BY DEF Start
<1>2. TypeOK'
  BY <1>1 DEF TypeOK, Job, FetchStatuses, RobotsStatuses
<1>3. Permitted' /\ Established' /\ HopsBounded'
  BY <1>1 DEF Permitted, Established, HopsBounded, Consistent, FetchStatuses, FailureStatuses
<1>4. RequestsByHop'
  <2>1. 0 <= MaxAttempts * (MaxRedirects + 1) /\ MaxAttempts * 0 = 0
    BY Bounds
  <2>2. QED
    BY <1>1, <2>1 DEF RequestsByHop
<1>5. RowsConsistent' /\ RowRedirects' /\ RecordedWasStored'
  BY <1>1 DEF RowsConsistent, RowRedirects, RecordedWasStored
<1>6. QED
  BY <1>2, <1>3, <1>4, <1>5

\* A verdict ends the fetch or permits the request for the target.
LEMMA VerdictInv ==
  ASSUME IInv, pc = "robots", NEW status \in RobotsStatuses, Verdict(status),
         TypeOK, robots' \in [Hosts -> (SUBSET Urls) \cup {None}],
         UNCHANGED <<page, file, fetches, requests>>
  PROVE  IInv'
<1> USE FetchConstants DEF IInv
<1>1. job \in Job /\ job.status = None /\ job.path = None
  BY DEF TypeOK, Established
<1>2. job' = [job EXCEPT !.robots = status, !.judged = job.target, !.attempt = 0,
                         !.status = CASE status = "allowed" -> None
                                      [] status = "disallowed" -> "robots_disallowed"
                                      [] OTHER -> "robots_unavailable"]
  BY DEF Verdict
<1>3. pc' = IF status = "allowed" THEN "page" ELSE "save"
  BY DEF Verdict
<1>4. job' \in Job
  <2> DEFINE outcome == CASE status = "allowed" -> None
                          [] status = "disallowed" -> "robots_disallowed"
                          [] OTHER -> "robots_unavailable"
  <2>1. outcome \in FetchStatuses \cup {None}
    BY DEF FetchStatuses
  <2>2. job' = [job EXCEPT !.robots = status, !.judged = job.target, !.attempt = 0,
                           !.status = outcome]
    BY <1>2
  <2> HIDE DEF outcome
  <2>3. QED
    <3>1. job.target \in Urls /\ 0 \in 0..2
      BY <1>1 DEF Job
    <3>2. QED
      BY <1>1, <2>1, <2>2, <3>1 DEF Job
<1>5. TypeOK'
  BY <1>3, <1>4 DEF TypeOK
<1>6. /\ job'.robots = status /\ job'.judged = job.target /\ job'.target = job.target
      /\ job'.attempt = 0 /\ job'.redirects = job.redirects /\ job'.path = None
  BY <1>1, <1>2 DEF Job
<1>7. /\ status = "allowed" => job'.status = None
      /\ status = "disallowed" => job'.status = "robots_disallowed"
      /\ status \in {"unavailable", "invalid"} => job'.status = "robots_unavailable"
  BY <1>1, <1>2 DEF Job
<1>8. Permitted' /\ HopsBounded'
  BY <1>3, <1>6 DEF Permitted, HopsBounded
<1>9. Established'
  BY <1>3, <1>6, <1>7 DEF Established, Consistent, RobotsStatuses, FetchStatuses, FailureStatuses
<1>10. RequestsByHop'
  <2>1. MaxAttempts * job.redirects \in Nat
    BY <1>1, Bounds DEF Job
  <2>2. QED
    BY <1>3, <1>6, <2>1 DEF RequestsByHop, TypeOK
<1>11. RowsConsistent' /\ RowRedirects' /\ RecordedWasStored'
  BY DEF RowsConsistent, RowRedirects, RecordedWasStored
<1>12. QED
  BY <1>5, <1>8, <1>9, <1>10, <1>11

LEMMA RobotsInv ==
  ASSUME IInv, RobotsCached \/ RobotsRequested
  PROVE  IInv'
<1>1. pc = "robots" /\ job \in Job /\ TypeOK
  BY DEF RobotsCached, RobotsRequested, IInv, TypeOK
<1>2. \E status \in RobotsStatuses : Verdict(status)
  BY DEF RobotsCached, RobotsRequested, Judge, RobotsStatuses
<1>3. robots' \in [Hosts -> (SUBSET Urls) \cup {None}]
  BY <1>1 DEF RobotsCached, RobotsRequested, TypeOK
<1>4. UNCHANGED <<page, file, fetches, requests>>
  BY DEF RobotsCached, RobotsRequested
<1>5. QED
  BY <1>1, <1>2, <1>3, <1>4, VerdictInv

\* One more request stays within what hop and attempt allow.
LEMMA OneMoreRequest ==
  ASSUME IInv, pc = "page"
  PROVE  /\ job \in Job
         /\ requests + 1 <= MaxAttempts * (job.redirects + 1)
         /\ requests + 1 <= MaxAttempts * (MaxRedirects + 1)
<1>1. /\ job \in Job /\ job.redirects \in Nat /\ job.attempt \in Nat
      /\ job.redirects <= MaxRedirects /\ job.attempt < MaxAttempts
      /\ requests <= MaxAttempts * job.redirects + job.attempt
      /\ requests \in Nat
  BY DEF IInv, TypeOK, Job, HopsBounded, RequestsByHop
<1>2. /\ MaxAttempts * (job.redirects + 1) = MaxAttempts * job.redirects + MaxAttempts
      /\ MaxAttempts * job.redirects \in Nat
  BY <1>1, Bounds
<1>3. /\ MaxAttempts * (job.redirects + 1) \in Nat
      /\ MaxAttempts * (job.redirects + 1) <= MaxAttempts * (MaxRedirects + 1)
      /\ MaxAttempts * (MaxRedirects + 1) \in Nat
  BY <1>1, Bounds, FetchConstants
<1>4. requests + 1 <= MaxAttempts * (job.redirects + 1)
  BY <1>1, <1>2, FetchConstants
<1>5. QED
  BY <1>1, <1>3, <1>4

LEMMA RetryInv ==
  ASSUME IInv, Retry
  PROVE  IInv'
<1> USE FetchConstants DEF IInv, Retry
<1>1. /\ job \in Job /\ job.attempt + 1 < MaxAttempts
      /\ job' = [job EXCEPT !.attempt = @ + 1]
      /\ requests + 1 <= MaxAttempts * (MaxRedirects + 1)
  BY OneMoreRequest
<1>2. job' \in Job /\ job'.attempt = job.attempt + 1 /\ job'.redirects = job.redirects
  BY <1>1 DEF Job
<1>3. TypeOK'
  BY <1>2 DEF TypeOK
<1>4. Permitted' /\ Established' /\ HopsBounded'
  BY <1>1, <1>2 DEF Permitted, Established, HopsBounded, Job
<1>5. RequestsByHop'
  <2>1. MaxAttempts * job.redirects \in Nat /\ job.attempt \in Nat /\ requests \in Nat
    BY <1>1, Bounds DEF Job, TypeOK
  <2>2. QED
    BY <1>1, <1>2, <2>1 DEF RequestsByHop
<1>6. RowsConsistent' /\ RowRedirects' /\ RecordedWasStored'
  BY DEF RowsConsistent, RowRedirects, RecordedWasStored
<1>7. QED
  BY <1>3, <1>4, <1>5, <1>6

LEMMA RedirectInv ==
  ASSUME IInv, NEW v \in Urls, Redirect(v)
  PROVE  IInv'
<1> USE FetchConstants DEF IInv, Redirect
<1>1. /\ job \in Job /\ job.redirects < MaxRedirects /\ pc' = "robots"
      /\ job' = [job EXCEPT !.target = v, !.redirects = @ + 1]
      /\ requests + 1 <= MaxAttempts * (MaxRedirects + 1)
      /\ requests + 1 <= MaxAttempts * (job.redirects + 1)
  BY OneMoreRequest
<1>2. /\ job' \in Job /\ job'.redirects = job.redirects + 1 /\ job'.attempt = job.attempt
      /\ job'.status = job.status /\ job'.path = job.path
  <2>1. job.redirects + 1 \in Nat
    BY <1>1 DEF Job
  <2> DEFINE hops == job.redirects + 1
  <2>2. job' = [job EXCEPT !.target = v, !.redirects = hops]
    BY <1>1
  <2> HIDE DEF hops
  <2>3. job' \in Job /\ job'.redirects = hops /\ job'.attempt = job.attempt
        /\ job'.status = job.status /\ job'.path = job.path
    BY <1>1, <2>1, <2>2 DEF Job, hops
  <2>4. QED
    BY <2>3 DEF hops
<1>3. TypeOK'
  BY <1>1, <1>2 DEF TypeOK
<1>4. Permitted' /\ Established' /\ HopsBounded'
  BY <1>1, <1>2 DEF Permitted, Established, HopsBounded, Job
<1>5. RequestsByHop'
  BY <1>1, <1>2 DEF RequestsByHop, TypeOK
<1>6. RowsConsistent' /\ RowRedirects' /\ RecordedWasStored'
  BY DEF RowsConsistent, RowRedirects, RecordedWasStored
<1>7. QED
  BY <1>3, <1>4, <1>5, <1>6

\* The requests that end a fetch, each with an outcome consistent in itself.
LEMMA EndInv ==
  ASSUME IInv, pc = "page", pc' = "save", job' \in Job,
         file' \in [Paths -> {"absent", "intact", "bad"}],
         \A path \in Paths : file'[path] = "absent" => file[path] = "absent",
         requests' = requests + 1, UNCHANGED <<page, robots, fetches>>,
         job'.redirects <= MaxRedirects, job'.attempt < MaxAttempts,
         job'.status \in FetchStatuses, Consistent(job)',
         job'.path # None => file'[job'.path] # "absent"
  PROVE  IInv'
<1> USE DEF IInv
<1>1. TypeOK'
  BY DEF TypeOK
<1>2. Permitted' /\ Established' /\ HopsBounded'
  BY DEF Permitted, Established, HopsBounded
<1>3. RequestsByHop'
  BY OneMoreRequest DEF RequestsByHop
<1>4. RowsConsistent' /\ RowRedirects'
  BY DEF RowsConsistent, RowRedirects
<1>5. RecordedWasStored'
  <2> SUFFICES ASSUME NEW u \in Urls, page[u] # NoRow, page[u].path # None
               PROVE  file'[page[u].path] # "absent"
    BY DEF RecordedWasStored
  <2>1. page[u].path \in Paths
    BY DEF TypeOK, Row
  <2>2. QED
    BY <2>1 DEF RecordedWasStored
<1>6. QED
  BY <1>1, <1>2, <1>3, <1>4, <1>5

LEMMA FailInv ==
  ASSUME IInv, NEW status \in FailureStatuses, Fail(status)
  PROVE  IInv'
<1> USE DEF Fail, Finish
<1>1. /\ job \in Job /\ job.robots = "allowed"
      /\ job.redirects <= MaxRedirects /\ job.attempt < MaxAttempts
  BY OneMoreRequest DEF IInv, Permitted, HopsBounded
<1>2. /\ job' \in Job /\ job'.status = status /\ job'.path = None
      /\ job'.robots = "allowed"
      /\ job'.redirects = job.redirects /\ job'.attempt = job.attempt
  BY <1>1 DEF Job, FetchStatuses
<1>3. Consistent(job)' /\ job'.status \in FetchStatuses
  BY <1>2 DEF Consistent, FailureStatuses, FetchStatuses
<1>4. QED
  BY <1>1, <1>2, <1>3, EndInv DEF IInv, TypeOK

LEMMA UnsafeRedirectInv ==
  ASSUME IInv, UnsafeRedirect
  PROVE  IInv'
<1> USE DEF UnsafeRedirect
<1>1. /\ job \in Job /\ job.robots = "allowed" /\ job.path = None
      /\ job.redirects < MaxRedirects /\ job.attempt < MaxAttempts
  BY OneMoreRequest DEF IInv, Permitted, HopsBounded, Established
<1>2. /\ job' \in Job /\ job'.status = "invalid_url" /\ job'.path = None
      /\ job'.robots = "allowed"
      /\ job'.redirects = job.redirects + 1 /\ job'.attempt = job.attempt
  <2>1. job.redirects + 1 \in Nat /\ "invalid_url" \in FetchStatuses
    BY <1>1 DEF Job, FetchStatuses
  <2>2. job' = [job EXCEPT !.status = "invalid_url", !.redirects = job.redirects + 1]
    OBVIOUS
  <2>3. QED
    BY <1>1, <2>1, <2>2 DEF Job
<1>3. Consistent(job)' /\ job'.status \in FetchStatuses
  BY <1>2 DEF Consistent, FailureStatuses, FetchStatuses
<1>4. job'.redirects <= MaxRedirects
  BY <1>1, <1>2, FetchConstants DEF Job
<1>5. QED
  BY <1>1, <1>2, <1>3, <1>4, EndInv DEF IInv, TypeOK

LEMMA ReceiveInv ==
  ASSUME IInv, NEW c \in Contents, Receive(c)
  PROVE  IInv'
<1> DEFINE path == <<HostOf[job.target], c>>
<1>1. /\ job \in Job /\ job.robots = "allowed"
      /\ job.redirects <= MaxRedirects /\ job.attempt < MaxAttempts
      /\ pc = "page" /\ pc' = "save"
      /\ requests' = requests + 1 /\ UNCHANGED <<page, robots, fetches>>
  BY OneMoreRequest DEF IInv, Permitted, HopsBounded, Receive, Finish
<1>2. path \in Paths /\ path # None
  BY <1>1, FetchConstants DEF Paths, Job
<1>3. CASE file' = [file EXCEPT ![path] = "intact"] /\ Finish("fetched", path)
  <2>1. /\ job' \in Job /\ job'.status = "fetched" /\ job'.path = path
        /\ job'.robots = "allowed"
        /\ job'.redirects = job.redirects /\ job'.attempt = job.attempt
    BY <1>1, <1>2, <1>3 DEF Job, FetchStatuses, Finish
  <2>2. Consistent(job)' /\ job'.status \in FetchStatuses
    BY <1>2, <2>1 DEF Consistent, FailureStatuses, FetchStatuses
  <2>3. /\ file' \in [Paths -> {"absent", "intact", "bad"}]
        /\ \A p \in Paths : file'[p] = "absent" => file[p] = "absent"
        /\ file'[path] = "intact"
    BY <1>2, <1>3 DEF IInv, TypeOK
  <2>4. QED
    BY <1>1, <2>1, <2>2, <2>3, EndInv
<1>4. CASE UNCHANGED file /\ Finish("network_error", None)
  <2>1. /\ job' \in Job /\ job'.status = "network_error" /\ job'.path = None
        /\ job'.robots = "allowed"
        /\ job'.redirects = job.redirects /\ job'.attempt = job.attempt
    BY <1>1, <1>4 DEF Job, FetchStatuses, FailureStatuses, Finish
  <2>2. Consistent(job)' /\ job'.status \in FetchStatuses
    BY <2>1 DEF Consistent, FailureStatuses, FetchStatuses
  <2>3. QED
    BY <1>1, <1>4, <2>1, <2>2, EndInv DEF IInv, TypeOK
<1>5. QED
  BY <1>3, <1>4 DEF Receive

LEMMA SaveInv ==
  ASSUME IInv, Save
  PROVE  IInv'
<1> DEFINE row == [status |-> job.status, robots |-> job.robots,
                   redirects |-> job.redirects, path |-> job.path,
                   fresh |-> job.path # None]
<1> USE DEF IInv
<1>1. /\ job \in Job /\ job.status \in FetchStatuses /\ Consistent(job)
      /\ job.path # None => file[job.path] # "absent"
      /\ job.redirects <= MaxRedirects
      /\ pc' = "idle" /\ job' = NoJob /\ UNCHANGED <<file, robots, fetches, requests>>
      /\ page' = page \/ page' = [page EXCEPT ![job.url] = row]
  BY DEF Save, TypeOK, Established, HopsBounded
<1>2. row \in Row /\ Consistent(row) /\ job.url \in Urls
  BY <1>1 DEF Job, Row, Consistent
<1>3. \A u \in Urls : page'[u] = page[u] \/ page'[u] = row
  BY <1>1 DEF TypeOK
<1>4. TypeOK'
  <2> HIDE DEF row
  <2> QED
    BY <1>1, <1>2 DEF TypeOK
<1>5. Permitted' /\ Established' /\ HopsBounded' /\ RequestsByHop'
  BY <1>1 DEF Permitted, Established, HopsBounded, RequestsByHop
<1>6. RowsConsistent'
  <2> HIDE DEF row
  <2> QED
    BY <1>2, <1>3 DEF RowsConsistent
<1>7. RowRedirects' /\ RecordedWasStored'
  BY <1>1, <1>3 DEF RowRedirects, RecordedWasStored
<1>8. QED
  BY <1>4, <1>5, <1>6, <1>7

\* Steps that end no fetch with a row: a cache hit, expiry, damage, a crash.
LEMMA RestInv ==
  ASSUME IInv,
         \/ \E u \in Urls : ServeFromCache(u) \/ PageExpires(u)
         \/ \E h \in Hosts : RobotsExpires(h)
         \/ \E path \in Paths : Damage(path)
         \/ Crash \/ Escape
  PROVE  IInv'
<1> USE DEF IInv
<1>1. ASSUME NEW u \in Urls, ServeFromCache(u) PROVE IInv'
  <2>1. /\ page[u] # NoRow /\ page[u] \in Row
        /\ page[u].status \in {"fetched", "cache_hit"}
        /\ page' = [page EXCEPT ![u].status = "cache_hit"]
        /\ pc = "idle" /\ fetches < MaxFetches /\ fetches' = fetches + 1
        /\ UNCHANGED <<file, robots, pc, job, requests>>
    BY <1>1 DEF ServeFromCache, CacheHit, TypeOK
  <2>2. /\ page'[u] \in Row /\ Consistent(page'[u])
        /\ page'[u].path = page[u].path /\ page'[u].redirects = page[u].redirects
        /\ \A w \in Urls \ {u} : page'[w] = page[w]
    BY <2>1 DEF TypeOK, Row, Consistent, RowsConsistent, FetchStatuses, FailureStatuses
  <2>3. TypeOK'
    <3>1. page' \in [Urls -> Row \cup {NoRow}]
      BY <2>1, <2>2 DEF TypeOK
    <3>2. fetches' \in 0..MaxFetches
      BY <2>1, FetchConstants DEF TypeOK
    <3>3. QED
      BY <2>1, <3>1, <3>2 DEF TypeOK
  <2>4. Permitted' /\ Established' /\ HopsBounded' /\ RequestsByHop'
    BY <2>1 DEF Permitted, Established, HopsBounded, RequestsByHop
  <2>5. RowsConsistent' /\ RowRedirects' /\ RecordedWasStored'
    BY <2>1, <2>2 DEF RowsConsistent, RowRedirects, RecordedWasStored
  <2>6. QED
    BY <2>3, <2>4, <2>5
<1>2. ASSUME NEW u \in Urls, PageExpires(u) PROVE IInv'
  <2>1. /\ page[u] # NoRow /\ page[u] \in Row
        /\ page' = [page EXCEPT ![u].fresh = FALSE]
        /\ UNCHANGED <<file, robots, pc, job, fetches, requests>>
    BY <1>2 DEF PageExpires, TypeOK
  <2>2. /\ page'[u] \in Row /\ Consistent(page'[u])
        /\ page'[u].path = page[u].path /\ page'[u].redirects = page[u].redirects
        /\ \A w \in Urls \ {u} : page'[w] = page[w]
    BY <2>1 DEF TypeOK, Row, Consistent, RowsConsistent
  <2>3. TypeOK'
    BY <2>1, <2>2 DEF TypeOK
  <2>4. Permitted' /\ Established' /\ HopsBounded' /\ RequestsByHop'
    BY <2>1 DEF Permitted, Established, Consistent, HopsBounded, RequestsByHop
  <2>5. RowsConsistent' /\ RowRedirects' /\ RecordedWasStored'
    BY <2>1, <2>2 DEF RowsConsistent, RowRedirects, RecordedWasStored
  <2>6. QED
    BY <2>3, <2>4, <2>5
<1>3. ASSUME NEW h \in Hosts, RobotsExpires(h) PROVE IInv'
  <2>1. TypeOK'
    BY <1>3 DEF RobotsExpires, TypeOK
  <2>2. QED
    BY <1>3, <2>1 DEF RobotsExpires, Permitted, Established, Consistent, HopsBounded,
                      RequestsByHop, RowsConsistent, RowRedirects, RecordedWasStored
<1>4. ASSUME NEW path \in Paths, Damage(path) PROVE IInv'
  <2>1. TypeOK'
    BY <1>4 DEF Damage, TypeOK
  <2>2. \A p \in Paths : file'[p] = "absent" <=> file[p] = "absent"
    BY <1>4 DEF Damage, TypeOK
  <2>3. Established'
    BY <1>4, <2>2 DEF Damage, Established, Consistent, TypeOK, Job
  <2>4. RecordedWasStored'
    BY <1>4, <2>2 DEF Damage, RecordedWasStored, TypeOK, Row
  <2>5. QED
    BY <1>4, <2>1, <2>3, <2>4 DEF Damage, Permitted, HopsBounded, RequestsByHop,
                      RowsConsistent, Consistent, RowRedirects
<1>5. CASE Crash
  <2>1. TypeOK'
    BY <1>5 DEF Crash, TypeOK
  <2>2. QED
    BY <1>5, <2>1 DEF Crash, Permitted, Established, HopsBounded,
                      RequestsByHop, RowsConsistent, Consistent, RowRedirects, RecordedWasStored
<1>6. CASE Escape
  <2>1. requests + 1 <= MaxAttempts * (MaxRedirects + 1)
    BY <1>6, OneMoreRequest DEF Escape
  <2>2. TypeOK'
    BY <1>6 DEF Escape, TypeOK
  <2>3. QED
    BY <1>6, <2>1, <2>2 DEF Escape, Permitted, Established, HopsBounded,
                      RequestsByHop, RowsConsistent, Consistent, RowRedirects, RecordedWasStored
<1>7. QED
  BY <1>1, <1>2, <1>3, <1>4, <1>5, <1>6

LEMMA NextInv == IInv /\ [Next]_vars => IInv'
<1> SUFFICES ASSUME IInv, [Next]_vars PROVE IInv'
  OBVIOUS
<1>1. CASE Continue
  BY <1>1, RobotsInv, RetryInv, RestInv, UnsafeRedirectInv, SaveInv, RedirectInv, FailInv,
     ReceiveInv DEF Continue
<1>2. CASE Environment
  BY <1>2, RestInv DEF Environment
<1>3. ASSUME NEW u \in Urls, ServeFromCache(u) PROVE IInv'
  BY <1>3, RestInv
<1>4. ASSUME NEW u \in Urls, NEW force \in BOOLEAN, NEW recorded \in BOOLEAN,
             Start(u, force, recorded)
      PROVE  IInv'
  BY <1>4, StartInv
<1>5. CASE UNCHANGED vars
  BY <1>5 DEF vars, IInv, TypeOK, Permitted, Established, HopsBounded, RequestsByHop,
              RowsConsistent, Consistent, RowRedirects, RecordedWasStored
<1>6. QED
  BY <1>1, <1>2, <1>3, <1>4, <1>5 DEF Next

-----------------------------------------------------------------------------
\* The inductive invariant holds in every reachable state.
THEOREM Invariance == Spec => []IInv
BY InitInv, NextInv, PTL DEF Spec

\* Every state is well typed, whatever the addresses, contents and bounds.
THEOREM TypeCorrect == Spec => []TypeOK
<1>1. IInv => TypeOK
  BY DEF IInv
<1>2. QED
  BY <1>1, Invariance, PTL

\* No page is requested without permission for that very address, however the
\* fetch came to it (_fetch_page checks robots rules at every redirect).
THEOREM EveryHopPermitted == Spec => []RobotsObeyed
<1>1. IInv => RobotsObeyed
  BY DEF IInv, Permitted, RobotsObeyed
<1>2. QED
  BY <1>1, Invariance, PTL

\* A fetch sends at most MaxAttempts requests for each of MaxRedirects + 1
\* addresses (_request_with_retries inside _fetch_page).
THEOREM RequestsAreBounded == Spec => []RequestsBounded
<1>1. IInv => RequestsBounded
  BY DEF IInv, RequestsByHop, RowRedirects, RequestsBounded
<1>2. QED
  BY <1>1, Invariance, PTL

\* A row with a cached page stands for a file that was written (_consume
\* writes the file before fetch_url saves the row).
THEOREM RecordedFilesWereStored == Spec => []RecordedWasStored
<1>1. IInv => RecordedWasStored
  BY DEF IInv
<1>2. QED
  BY <1>1, Invariance, PTL

\* Status, verdict and cached page of a row come from one fetch (_to_page).
THEOREM RowsDescribeOneFetch == Spec => []RowsAreOneFetch
<1>1. IInv => RowsAreOneFetch
  BY DEF IInv, RowsConsistent, Consistent, RowsAreOneFetch
<1>2. QED
  BY <1>1, Invariance, PTL

(***************************************************************************)
(* A fetch runs out of steps                                               *)
(***************************************************************************)

\* At most so many steps of its own a fetch still takes: for each redirect left
\* a robots check, its attempts and the next redirect; then to be saved.
StepsLeft ==
  CASE pc = "idle" -> 0
    [] pc = "save" -> 1
    [] pc = "page" -> (MaxAttempts + 3) * (MaxRedirects - job.redirects)
                        + (MaxAttempts - job.attempt) + 1
    [] pc = "robots" -> (MaxAttempts + 3) * (MaxRedirects - job.redirects) + MaxAttempts + 2

\* Every step of a running fetch brings its end nearer, and nothing that happens
\* around it - files lost, entries expired, a crash - puts it off again.
StepsRunOut ==
  /\ [](StepsLeft \in Nat)
  /\ [][/\ Continue => StepsLeft' < StepsLeft
        /\ pc # "idle" => StepsLeft' <= StepsLeft]_vars

\* MaxAttempts + 3 is 4, 5 or 6, so the steps left are linear in the redirects.
LEMMA StepsPerHop ==
  ASSUME NEW n \in Nat
  PROVE  /\ (MaxAttempts + 3) * n \in Nat
         /\ n # 0 => (MaxAttempts + 3) * (n - 1) = (MaxAttempts + 3) * n - (MaxAttempts + 3)
<1>1. CASE MaxAttempts = 1
  BY <1>1
<1>2. CASE MaxAttempts = 2
  BY <1>2
<1>3. CASE MaxAttempts = 3
  BY <1>3
<1>4. QED
  BY <1>1, <1>2, <1>3, FetchConstants

\* Some steps are left while a fetch runs.
LEMMA StepsLeftType ==
  ASSUME IInv
  PROVE  /\ StepsLeft \in Nat
         /\ pc = "page" => StepsLeft > 1
         /\ pc = "robots" => StepsLeft > 1
<1>1. pc # "idle" => /\ job.redirects \in 0..MaxRedirects /\ job.attempt \in 0..(MaxAttempts - 1)
                     /\ MaxRedirects - job.redirects \in Nat
  BY FetchConstants DEF IInv, TypeOK, Job, HopsBounded
<1>2. pc # "idle" => (MaxAttempts + 3) * (MaxRedirects - job.redirects) \in Nat
  BY <1>1, StepsPerHop
<1>3. MaxAttempts \in Nat /\ pc \in {"idle", "robots", "page", "save"}
  BY FetchConstants DEF IInv, TypeOK
<1> DEFINE hops == (MaxAttempts + 3) * (MaxRedirects - job.redirects)
<1>4. CASE pc = "idle"
  BY <1>4 DEF StepsLeft
<1>5. CASE pc = "save"
  BY <1>5 DEF StepsLeft
<1>6. CASE pc = "page"
  <2>1. StepsLeft = hops + (MaxAttempts - job.attempt) + 1
    BY <1>6 DEF StepsLeft
  <2>2. hops \in Nat /\ MaxAttempts - job.attempt \in Nat \ {0}
    BY <1>1, <1>2, <1>3, <1>6
  <2> HIDE DEF hops
  <2>3. QED
    BY <1>6, <2>1, <2>2
<1>7. CASE pc = "robots"
  <2>1. StepsLeft = hops + MaxAttempts + 2
    BY <1>7 DEF StepsLeft
  <2>2. hops \in Nat
    BY <1>2, <1>7
  <2> HIDE DEF hops
  <2>3. QED
    BY <1>3, <1>7, <2>1, <2>2
<1>8. QED
  BY <1>3, <1>4, <1>5, <1>6, <1>7

\* Each step of a fetch leaves fewer.
LEMMA ContinueBurns ==
  ASSUME IInv, Continue
  PROVE  StepsLeft' < StepsLeft
<1>1. MaxAttempts \in Nat /\ StepsLeft \in Nat
  BY FetchConstants, StepsLeftType
<1>2. CASE pc' = "idle"
  <2>1. pc # "idle" /\ StepsLeft # 0
    <3>1. pc \in {"page", "save"}
      BY <1>2 DEF Continue, RobotsCached, RobotsRequested, Judge, Verdict, Retry, Escape,
                  Redirect, UnsafeRedirect, Fail, Receive, Finish, Save
    <3>2. QED
      BY <3>1, StepsLeftType DEF StepsLeft
  <2>2. StepsLeft' = 0
    BY <1>2 DEF StepsLeft
  <2>3. QED
    BY <1>1, <2>1, <2>2
<1>3. CASE pc' = "save"
  <2>1. pc \in {"robots", "page"}
    BY <1>3 DEF Continue, RobotsCached, RobotsRequested, Judge, Verdict, Retry, Escape,
                Redirect, UnsafeRedirect, Fail, Receive, Finish, Save
  <2>2. StepsLeft' = 1
    BY <1>3 DEF StepsLeft
  <2>3. QED
    BY <2>1, <2>2, StepsLeftType
<1>4. CASE pc = "robots" /\ pc' = "page"
  <2>1. PICK status \in RobotsStatuses : Verdict(status)
    BY <1>4 DEF Continue, RobotsCached, RobotsRequested, Judge, RobotsStatuses, Retry, Escape,
                Redirect, UnsafeRedirect, Fail, Receive, Finish, Save
  <2>2. job'.redirects = job.redirects /\ job'.attempt = 0
    BY <1>4, <2>1 DEF Verdict, IInv, TypeOK, Job
  <2>3. job.redirects \in Nat /\ job.redirects <= MaxRedirects /\ MaxRedirects \in Nat
    BY <1>4, FetchConstants DEF IInv, TypeOK, Job, HopsBounded
  <2> DEFINE hops == (MaxAttempts + 3) * (MaxRedirects - job.redirects)
  <2>4. hops \in Nat
    BY <2>3, StepsPerHop
  <2>5. StepsLeft = hops + MaxAttempts + 2 /\ StepsLeft' = hops + (MaxAttempts - 0) + 1
    BY <1>4, <2>2 DEF StepsLeft
  <2> HIDE DEF hops
  <2>6. QED
    BY <1>1, <2>4, <2>5
<1>5. CASE pc = "page" /\ pc' = "page"
  <2>1. Retry
    BY <1>5 DEF Continue, RobotsCached, RobotsRequested, Judge, Verdict, Escape,
                Redirect, UnsafeRedirect, Fail, Receive, Finish, Save
  <2>2. job'.redirects = job.redirects /\ job'.attempt = job.attempt + 1
    BY <1>5, <2>1 DEF Retry, IInv, TypeOK, Job
  <2>3. /\ job.redirects \in Nat /\ job.redirects <= MaxRedirects /\ MaxRedirects \in Nat
        /\ job.attempt \in Nat
    BY <1>5, FetchConstants DEF IInv, TypeOK, Job, HopsBounded
  <2> DEFINE hops == (MaxAttempts + 3) * (MaxRedirects - job.redirects)
  <2>4. hops \in Nat
    BY <2>3, StepsPerHop
  <2>5. /\ StepsLeft = hops + (MaxAttempts - job.attempt) + 1
        /\ StepsLeft' = hops + (MaxAttempts - (job.attempt + 1)) + 1
    BY <1>5, <2>2 DEF StepsLeft
  <2> HIDE DEF hops
  <2>6. QED
    BY <1>1, <2>3, <2>4, <2>5
<1>6. CASE pc = "page" /\ pc' = "robots"
  <2>1. PICK v \in Urls : Redirect(v)
    BY <1>6 DEF Continue, RobotsCached, RobotsRequested, Judge, Verdict, Retry, Escape,
                UnsafeRedirect, Fail, Receive, Finish, Save
  <2>2. job'.redirects = job.redirects + 1 /\ job.redirects < MaxRedirects
    BY <1>6, <2>1 DEF Redirect, IInv, TypeOK, Job
  <2>3. /\ job.redirects \in Nat /\ MaxRedirects \in Nat
        /\ job.attempt \in Nat /\ job.attempt < MaxAttempts
    BY <1>6, FetchConstants DEF IInv, TypeOK, Job, HopsBounded
  <2> DEFINE n == MaxRedirects - job.redirects
             hops == (MaxAttempts + 3) * n
             fewer == (MaxAttempts + 3) * (n - 1)
  <2>4. n \in Nat /\ n # 0 /\ MaxRedirects - (job.redirects + 1) = n - 1
    BY <2>2, <2>3
  <2>5. hops \in Nat /\ fewer = hops - (MaxAttempts + 3)
    BY <2>4, StepsPerHop
  <2>6. /\ StepsLeft = hops + (MaxAttempts - job.attempt) + 1
        /\ StepsLeft' = fewer + MaxAttempts + 2
    BY <1>6, <2>2, <2>4 DEF StepsLeft
  <2> HIDE DEF n, hops, fewer
  <2>7. QED
    BY <1>1, <2>3, <2>5, <2>6
<1>7. \/ pc' \in {"idle", "save"}
      \/ pc = "robots" /\ pc' = "page"
      \/ pc = "page" /\ pc' \in {"page", "robots"}
  <2>1. CASE RobotsCached \/ RobotsRequested
    <3>1. pc = "robots" /\ \E status : Verdict(status)
      BY <2>1 DEF RobotsCached, RobotsRequested, Judge
    <3>2. QED
      BY <3>1 DEF Verdict
  <2>2. CASE Retry
    BY <2>2 DEF Retry
  <2>3. CASE Escape \/ UnsafeRedirect \/ Save
    BY <2>3 DEF Escape, UnsafeRedirect, Save
  <2>4. CASE \E v \in Urls : Redirect(v)
    BY <2>4 DEF Redirect
  <2>5. CASE \E status \in FailureStatuses : Fail(status)
    BY <2>5 DEF Fail, Finish
  <2>6. CASE \E c \in Contents : Receive(c)
    BY <2>6 DEF Receive, Finish
  <2>7. QED
    BY <2>1, <2>2, <2>3, <2>4, <2>5, <2>6 DEF Continue
<1>8. QED
  BY <1>2, <1>3, <1>4, <1>5, <1>6, <1>7

\* Redirects and retries together use up what a fetch may still do, whatever
\* servers answer; under weak fairness of Continue it ends.
THEOREM FetchesRunOut == Spec => StepsRunOut
<1>1. IInv => StepsLeft \in Nat
  BY StepsLeftType
<1>2. IInv' => (StepsLeft \in Nat)'
  BY <1>1, PTL
<1>3. IInv /\ [Next]_vars =>
        [/\ Continue => StepsLeft' < StepsLeft
         /\ pc # "idle" => StepsLeft' <= StepsLeft]_vars
  <2> SUFFICES ASSUME IInv, Next
               PROVE  /\ Continue => StepsLeft' < StepsLeft
                      /\ pc # "idle" => StepsLeft' <= StepsLeft
    OBVIOUS
  <2>1. IInv' /\ StepsLeft \in Nat
    BY NextInv, StepsLeftType
  <2>2. StepsLeft' \in Nat
    BY <2>1, <1>2
  <2>3. CASE Continue
    BY <2>1, <2>2, <2>3, ContinueBurns
  <2>4. CASE pc = "idle" /\ ~ Continue
    BY <2>4
  <2>5. CASE Environment /\ ~ Continue
    <3>1. pc' = "idle" \/ UNCHANGED <<pc, job>>
      BY <2>5 DEF Environment, PageExpires, RobotsExpires, Damage, Crash
    <3>2. StepsLeft' = 0 \/ StepsLeft' = StepsLeft
      BY <3>1 DEF StepsLeft
    <3>3. QED
      BY <2>1, <2>5, <3>2
  <2>6. QED
    BY <2>3, <2>4, <2>5 DEF Next, ServeFromCache, Start
<1>4. QED
  BY <1>1, <1>3, Invariance, PTL DEF Spec, StepsRunOut
=============================================================================
