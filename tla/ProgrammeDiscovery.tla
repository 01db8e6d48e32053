------------------------ MODULE ProgrammeDiscovery ------------------------
(***************************************************************************)
(* discover: for each official domain first its sitemaps, then a bounded   *)
(* crawl from its catalogue or its front page; every allowed link that     *)
(* scores as a programme is reported once as a candidate, up to a target.  *)
(* One action is one turn of a loop: a queue entry taken, a page fetched,  *)
(* a link read.  The site is a constant; what its hosts answer is not.     *)
(* The loops test the target at their heads too; as a candidate that       *)
(* reaches it returns at once, only the test before a domain can be true.  *)
(***************************************************************************)
EXTENDS JobPages

CONSTANTS
  Domains,
  SeedFiles,        \* seed files: rows of domain, catalogue, sitemap, valid
  Within,           \* domain -> addresses on it or a subdomain (_within_domain)
  Traps,            \* addresses _is_trap rejects
  TrapWorded,       \* addresses whose path has a trap word for the classifier
  PathScore,        \* 25 for each positive term in an address's path
  Bare,             \* an address without its query
  FrontPage,        \* domain -> https://domain/
  Conventional,     \* domain -> sitemap.xml and sitemap_index.xml
  Declared,         \* domain -> sitemaps robots.txt may declare; None: it fails
  Sitemap,          \* address -> what it is as a sitemap
  Html,             \* addresses that return HTML
  Links,            \* address -> the anchors of its page, in order
  Target,           \* --target
  MaxSitemaps, MaxSitemapDepth, MaxPages, MaxDepth, MaxLinks,  \* Settings
  MaxDiscoveries    \* bound: discoveries started

Link == [url: Urls, text: Nat, negative: BOOLEAN]

SeedRow == [domain: Domains, catalogue: Urls \cup {None},
            sitemap: Urls \cup {None}, valid: BOOLEAN]

ASSUME DiscoveryConstants ==
  /\ SeedFiles \subseteq Seq(SeedRow)
  /\ Within \in [Domains -> SUBSET Urls]
  /\ Traps \subseteq TrapWorded /\ TrapWorded \subseteq Urls
  /\ PathScore \in [Urls -> Nat]
  /\ Bare \in [Urls -> Urls]
  /\ FrontPage \in [Domains -> Urls]
  /\ Conventional \in [Domains -> Seq(Urls)]
  /\ \A d \in Domains : Declared[d] \subseteq Seq(Link) \cup {None}
  /\ Sitemap \in [Urls -> [kind: {"urlset", "index", "invalid"}, links: Seq(Link)]]
  /\ Html \subseteq Urls
  /\ Links \in [Urls -> Seq(Link)]
  /\ Target \in Nat \ {0}
  /\ {MaxSitemaps, MaxPages, MaxLinks} \subseteq Nat \ {0}
  /\ {MaxSitemapDepth, MaxDepth, MaxDiscoveries} \subseteq Nat

VARIABLES
  dpc,           \* the loop discovery is in, or "idle"
  seeds,         \* row number -> seed, of the seeds still to do
  known,         \* addresses of the job's pages when the run began
  emitted,       \* candidates of the run
  items,         \* result rows; the report's counts are counts of these
  sitemapQueue,  \* sitemaps to check, oldest first
  checked,       \* sitemaps checked, of the current domain
  queue,         \* pages to crawl, oldest first
  crawled,       \* pages crawled, of the current domain
  current,       \* the queue entry whose links are read
  links,         \* links still to be read
  reported,      \* row -> source_url in the last discovered_programmes.csv
  discoveries    \* discoveries started

\* Not in the code: fetches made for the current domain and its pages whose
\* links were read.
VARIABLES requests, opened

runVars == <<known, emitted, items>>
domainVars == <<sitemapQueue, checked, queue, crawled, requests, opened>>
linkVars == <<current, links>>
discoveryVars == <<dpc, seeds, runVars, domainVars, linkVars, reported, discoveries>>

Statuses == {"candidate", "duplicate", "already_existing"}
FailureStatuses == {"access_blocked", "robots_failed", "sitemap_failed",
                    "catalogue_failed", "crawl_seed_failed", "controlled_failure"}
Origins == {"explicit_sitemap", "robots_sitemap", "conventional_sitemap",
            "sitemap_index", "catalogue", "crawl", "robots_txt"}

Item == [domain: Domains, url: Urls, source: Origins, status: Statuses \cup FailureStatuses]
Entry == [url: Urls, depth: Nat, source: Origins]

NoEntry == [url |-> None]

DiscoveryTypeOK ==
  /\ dpc \in {"idle", "seed", "robots", "sitemaps", "locations", "crawl", "links"}
  /\ DOMAIN seeds \subseteq Nat /\ Range(seeds) \subseteq SeedRow
  /\ known \subseteq Urls
  /\ emitted \subseteq Urls
  /\ items \in Seq(Item)
  /\ sitemapQueue \in Seq(Entry)
  /\ checked \subseteq Urls
  /\ queue \in Seq(Entry)
  /\ crawled \subseteq Urls
  /\ current \in Entry \cup {NoEntry}
  /\ links \in Seq(Link)
  /\ DOMAIN reported \subseteq Nat /\ Range(reported) \subseteq Urls
  /\ discoveries \in 0..MaxDiscoveries
  /\ requests \in Nat
  /\ opened \subseteq Urls

DiscoveryInit ==
  /\ dpc = "idle"
  /\ seeds = <<>>
  /\ known = {} /\ emitted = {} /\ items = <<>>
  /\ sitemapQueue = <<>> /\ checked = {}
  /\ queue = <<>> /\ crawled = {}
  /\ current = NoEntry /\ links = <<>>
  /\ requests = 0 /\ opened = {}
  /\ reported = <<>>
  /\ discoveries = 0

-----------------------------------------------------------------------------
Seed == seeds[FirstRow(seeds)]

\* _url_allowed
Allowed(u) == u \in Within[Seed.domain] \ Traps

\* classify_programme_url
Score(link, catalogue) ==
  IF link.url \in TrapWorded \/ link.negative THEN 0
  ELSE PathScore[link.url] + link.text + (IF catalogue THEN 20 ELSE 0)

\* Mutant: what the job already has is not looked at.
StatusOf_IgnoresKnown(u) == IF u \in emitted THEN "duplicate" ELSE "candidate"

StatusOf(u) ==
  IF u \in emitted THEN "duplicate"
  ELSE IF u \in known THEN "already_existing" ELSE "candidate"

\* _consider
Consider(link, entry) ==
  IF Score(link, entry.source = "catalogue") < 20 THEN UNCHANGED <<emitted, items>>
  ELSE /\ emitted' = IF StatusOf(link.url) = "candidate" THEN emitted \cup {link.url}
                     ELSE emitted
       /\ items' = Append(items, [domain |-> Seed.domain, url |-> Bare[link.url],
                                  source |-> entry.source, status |-> StatusOf(link.url)])

\* _record_failure: equal failures are one row.
RecordFailure(u, source, status) ==
  LET item == [domain |-> Seed.domain, url |-> Bare[u], source |-> source, status |-> status]
  IN  items' = IF item \in Range(items) THEN items ELSE Append(items, item)

\* How _fetch reports an answer that is no page.
FailureStatus(answer, otherwise) ==
  CASE answer = "blocked" -> "access_blocked"
    [] answer = "robots_failed" -> "robots_failed"
    [] OTHER -> otherwise

Limited(s) == SubSeq(s, 1, IF Len(s) < MaxLinks THEN Len(s) ELSE MaxLinks)

\* read_seed_csv: one bad row rejects the file; of several rows for a domain
\* the first counts.
Readable(file) == \A i \in DOMAIN file : file[i].valid

UniqueSeeds(file) == Restrict(file, FirstRows([n \in DOMAIN file |-> file[n].domain]))

MoreSeeds == DOMAIN seeds # {}

TargetReached == Cardinality(emitted) >= Target

ForgetDomain ==
  /\ sitemapQueue' = <<>> /\ checked' = {}
  /\ queue' = <<>> /\ crawled' = {}
  /\ current' = NoEntry /\ links' = <<>>
  /\ requests' = 0 /\ opened' = {}

\* The domain is done, its queues are forgotten: on to the next seed.
EndDomain ==
  /\ dpc' = "seed"
  /\ seeds' = OtherRows(seeds)
  /\ ForgetDomain

\* The command ends and forgets what it held in memory.
DiscoveryEnds ==
  /\ dpc' = "idle"
  /\ seeds' = <<>>
  /\ known' = {} /\ emitted' = {} /\ items' = <<>>
  /\ ForgetDomain

-----------------------------------------------------------------------------
\* discover, up to the first seed.
StartDiscovery(file) ==
  /\ dpc = "idle"
  /\ discoveries < MaxDiscoveries
  /\ Readable(file)
  /\ dpc' = "seed"
  /\ seeds' = UniqueSeeds(file)
  /\ known' = KnownUrls
  /\ emitted' = {} /\ items' = <<>>
  /\ discoveries' = discoveries + 1
  /\ UNCHANGED <<domainVars, linkVars, reported>>

Start(u, source) == [url |-> u, depth |-> 0, source |-> source]

\* The sitemaps to look at: the seed's, then those robots.txt declares, if it
\* can be read.
BeginDomain ==
  /\ dpc = "seed"
  /\ MoreSeeds
  /\ ~ TargetReached
  /\ sitemapQueue' = IF Seed.sitemap = None THEN <<>>
                     ELSE <<Start(Seed.sitemap, "explicit_sitemap")>>
  /\ \E declared \in Declared[Seed.domain] :
       IF declared = None
       THEN /\ RecordFailure(FrontPage[Seed.domain], "robots_txt", "robots_failed")
            /\ UNCHANGED links
       ELSE links' = declared /\ UNCHANGED items
  /\ dpc' = "robots"
  /\ UNCHANGED <<seeds, known, emitted, checked, queue, crawled, requests, opened,
                 current, reported, discoveries>>

ReadDeclared ==
  /\ dpc = "robots" /\ links # <<>>
  /\ links' = Tail(links)
  /\ sitemapQueue' = IF Allowed(Head(links).url)
                     THEN Append(sitemapQueue, Start(Head(links).url, "robots_sitemap"))
                     ELSE sitemapQueue
  /\ UNCHANGED <<dpc, seeds, runVars, checked, queue, crawled, requests, opened,
                 current, reported, discoveries>>

\* Last the conventional ones.
EndDeclared ==
  LET urls == Conventional[Seed.domain]
  IN  /\ dpc = "robots" /\ links = <<>>
      /\ sitemapQueue' = sitemapQueue
           \o [i \in 1..Len(urls) |-> Start(urls[i], "conventional_sitemap")]
      /\ dpc' = "sitemaps"
      /\ UNCHANGED <<seeds, runVars, checked, queue, crawled, requests, opened,
                     linkVars, reported, discoveries>>

-----------------------------------------------------------------------------
MoreSitemaps == sitemapQueue # <<>> /\ Cardinality(checked) < MaxSitemaps

\* A sitemap that was checked before or does not belong to the domain.
SkipSitemap ==
  /\ dpc = "sitemaps" /\ MoreSitemaps
  /\ LET u == Head(sitemapQueue).url IN u \in checked \/ ~ Allowed(u)
  /\ sitemapQueue' = Tail(sitemapQueue)
  /\ UNCHANGED <<dpc, seeds, runVars, checked, queue, crawled, requests, opened,
                 linkVars, reported, discoveries>>

FetchSitemap(answer) ==
  LET entry == Head(sitemapQueue)
      found == Sitemap[entry.url]
  IN  /\ dpc = "sitemaps" /\ MoreSitemaps
      /\ entry.url \notin checked /\ Allowed(entry.url)
      /\ FetchPage(entry.url, "discovery", answer)
      /\ sitemapQueue' = Tail(sitemapQueue)
      /\ checked' = checked \cup {entry.url}
      /\ requests' = requests + 1
      /\ IF Served(answer) /\ found.kind # "invalid"
         THEN /\ dpc' = "locations"
              /\ current' = entry
              /\ links' = Limited(found.links)
              /\ UNCHANGED items
         ELSE /\ RecordFailure(entry.url, entry.source, FailureStatus(answer, "sitemap_failed"))
              /\ UNCHANGED <<dpc, linkVars>>
      /\ UNCHANGED <<seeds, known, emitted, queue, crawled, opened, reported, discoveries>>

\* One location of a sitemap: another sitemap, or a link to judge.
ReadLocation ==
  LET link == Head(links)
      nested == Sitemap[current.url].kind = "index"
  IN  /\ dpc = "locations" /\ links # <<>>
      /\ IF Allowed(link.url) /\ ~ nested THEN Consider(link, current)
         ELSE UNCHANGED <<emitted, items>>
      /\ IF Cardinality(emitted') >= Target THEN EndDomain
         ELSE /\ links' = Tail(links)
              /\ sitemapQueue' =
                   IF Allowed(link.url) /\ nested /\ current.depth < MaxSitemapDepth
                   THEN Append(sitemapQueue, [url |-> link.url, depth |-> current.depth + 1,
                                              source |-> "sitemap_index"])
                   ELSE sitemapQueue
              /\ UNCHANGED <<dpc, seeds, checked, queue, crawled, current, requests, opened>>
      /\ UNCHANGED <<known, reported, discoveries>>

EndLocations ==
  /\ dpc = "locations" /\ links = <<>>
  /\ dpc' = "sitemaps"
  /\ current' = NoEntry
  /\ UNCHANGED <<seeds, runVars, domainVars, links, reported, discoveries>>

\* The crawl starts at the catalogue, or at the front page.
BeginCrawl ==
  /\ dpc = "sitemaps" /\ ~ MoreSitemaps
  /\ dpc' = "crawl"
  /\ queue' = IF Seed.catalogue # None THEN <<Start(Seed.catalogue, "catalogue")>>
              ELSE <<Start(FrontPage[Seed.domain], "crawl")>>
  /\ UNCHANGED <<seeds, runVars, sitemapQueue, checked, crawled, requests, opened,
                 linkVars, reported, discoveries>>

-----------------------------------------------------------------------------
MorePages == queue # <<>> /\ Cardinality(crawled) < MaxPages

SkipPage ==
  /\ dpc = "crawl" /\ MorePages
  /\ LET u == Head(queue).url IN u \in crawled \/ ~ Allowed(u)
  /\ queue' = Tail(queue)
  /\ UNCHANGED <<dpc, seeds, runVars, sitemapQueue, checked, crawled, requests, opened,
                 linkVars, reported, discoveries>>

CrawlFailure(entry) ==
  CASE entry.source = "catalogue" -> "catalogue_failed"
    [] entry.source # "catalogue" /\ entry.depth = 0 -> "crawl_seed_failed"
    [] OTHER -> "controlled_failure"

\* Mutant: only a page that was served counts as crawled.
FetchCrawled_ServedOnly(answer) ==
  LET entry == Head(queue)
  IN  /\ dpc = "crawl" /\ MorePages
      /\ entry.url \notin crawled /\ Allowed(entry.url)
      /\ FetchPage(entry.url, "discovery", answer)
      /\ queue' = Tail(queue)
      /\ crawled' = IF Served(answer) THEN crawled \cup {entry.url} ELSE crawled
      /\ requests' = requests + 1
      /\ IF Served(answer) THEN UNCHANGED items
         ELSE RecordFailure(entry.url, entry.source, FailureStatus(answer, CrawlFailure(entry)))
      /\ IF Served(answer) /\ entry.url \in Html
         THEN /\ dpc' = "links"
              /\ current' = entry
              /\ links' = Limited(Links[entry.url])
              /\ opened' = opened \cup {entry.url}
         ELSE UNCHANGED <<dpc, linkVars, opened>>
      /\ UNCHANGED <<seeds, known, emitted, sitemapQueue, checked, reported, discoveries>>

FetchCrawled(answer) ==
  LET entry == Head(queue)
  IN  /\ dpc = "crawl" /\ MorePages
      /\ entry.url \notin crawled /\ Allowed(entry.url)
      /\ FetchPage(entry.url, "discovery", answer)
      /\ queue' = Tail(queue)
      /\ crawled' = crawled \cup {entry.url}
      /\ requests' = requests + 1
      /\ IF Served(answer) THEN UNCHANGED items
         ELSE RecordFailure(entry.url, entry.source, FailureStatus(answer, CrawlFailure(entry)))
      /\ IF Served(answer) /\ entry.url \in Html
         THEN /\ dpc' = "links"
              /\ current' = entry
              /\ links' = Limited(Links[entry.url])
              /\ opened' = opened \cup {entry.url}
         ELSE UNCHANGED <<dpc, linkVars, opened>>
      /\ UNCHANGED <<seeds, known, emitted, sitemapQueue, checked, reported, discoveries>>

\* Mutant: the page found last is crawled first.
ReadLink_LastFirst ==
  LET link == Head(links)
  IN  /\ dpc = "links" /\ links # <<>>
      /\ IF Allowed(link.url) THEN Consider(link, current) ELSE UNCHANGED <<emitted, items>>
      /\ IF Cardinality(emitted') >= Target THEN EndDomain
         ELSE /\ links' = Tail(links)
              /\ queue' = IF Allowed(link.url) /\ current.depth < MaxDepth
                          THEN <<[current EXCEPT !.url = link.url, !.depth = @ + 1]>> \o queue
                          ELSE queue
              /\ UNCHANGED <<dpc, seeds, sitemapQueue, checked, crawled, current, requests, opened>>
      /\ UNCHANGED <<known, reported, discoveries>>

\* One anchor of a page: judged, and followed unless the page was too deep.
ReadLink ==
  LET link == Head(links)
  IN  /\ dpc = "links" /\ links # <<>>
      /\ IF Allowed(link.url) THEN Consider(link, current) ELSE UNCHANGED <<emitted, items>>
      /\ IF Cardinality(emitted') >= Target THEN EndDomain
         ELSE /\ links' = Tail(links)
              /\ queue' = IF Allowed(link.url) /\ current.depth < MaxDepth
                          THEN Append(queue, [url |-> link.url, depth |-> current.depth + 1,
                                              source |-> current.source])
                          ELSE queue
              /\ UNCHANGED <<dpc, seeds, sitemapQueue, checked, crawled, current, requests, opened>>
      /\ UNCHANGED <<known, reported, discoveries>>

EndLinks ==
  /\ dpc = "links" /\ links = <<>>
  /\ dpc' = "crawl"
  /\ current' = NoEntry
  /\ UNCHANGED <<seeds, runVars, domainVars, links, reported, discoveries>>

EndCrawl ==
  /\ dpc = "crawl" /\ ~ MorePages
  /\ EndDomain
  /\ UNCHANGED <<runVars, reported, discoveries>>

-----------------------------------------------------------------------------
CandidateRows == {i \in DOMAIN items : items[i].status = "candidate"}

\* _write_reports: the candidates, without their queries, become batch input.
Report ==
  /\ dpc = "seed"
  /\ ~ MoreSeeds \/ TargetReached
  /\ reported' = [i \in CandidateRows |-> items[i].url]
  /\ DiscoveryEnds
  /\ UNCHANGED discoveries

\* The process dies, or an error escapes: rows stay, no report is written.
DiscoveryDies ==
  /\ dpc # "idle"
  /\ DiscoveryEnds
  /\ UNCHANGED <<reported, discoveries>>

DiscoveryStep ==
  \/ /\ \/ BeginDomain \/ ReadDeclared \/ EndDeclared \/ SkipSitemap \/ ReadLocation \/ EndLocations
        \/ BeginCrawl \/ SkipPage \/ ReadLink \/ EndLinks \/ EndCrawl \/ Report
     /\ UNCHANGED pages
  \/ \E answer \in AnswerKinds : FetchSitemap(answer) \/ FetchCrawled(answer)

DiscoveryNext ==
  \/ \E file \in SeedFiles : StartDiscovery(file) /\ UNCHANGED pages
  \/ DiscoveryStep
  \/ DiscoveryDies /\ UNCHANGED pages

(***************************************************************************)
(* Properties                                                              *)
(***************************************************************************)

\* Whatever sitemaps, pages and seeds repeat a link, a run reports it as a
\* candidate once and only if the job did not have it when the run began, and
\* never reports more than the target.
EmittedAreNew ==
  /\ emitted \cap known = {}
  /\ Cardinality(emitted) <= Target
  /\ Cardinality(CandidateRows) = Cardinality(emitted)

CrawlStart == IF Seed.catalogue # None THEN Seed.catalogue ELSE FrontPage[Seed.domain]

LinkedFrom(v) == {Links[v][i].url : i \in DOMAIN Limited(Links[v])}

\* Ways through pages the crawl could open, from where it began.
Walks ==
  {walk \in UNION {[1..n -> opened] : n \in 1..MaxDepth} :
     /\ walk[1] = CrawlStart
     /\ \A i \in 1..(Len(walk) - 1) : walk[i+1] \in LinkedFrom(walk[i])}

\* What a crawl of this domain can reach along at most MaxDepth links.
Reach ==
  {u \in Urls : /\ Allowed(u)
                /\ u = CrawlStart \/ \E walk \in Walks : u \in LinkedFrom(walk[Len(walk)])}

\* A crawl that ends for want of pages has visited every page within the depth,
\* by whichever way it was found first, and each link it could read that scores
\* as a programme is a candidate or was known.
NothingOverlooked ==
  dpc = "crawl" /\ queue = <<>> =>
    /\ Reach \subseteq crawled
    /\ \A v \in opened : \A i \in DOMAIN Limited(Links[v]) :
         LET link == Links[v][i]
         IN  Allowed(link.url) /\ Score(link, Seed.catalogue # None) >= 20
               => link.url \in emitted \cup known

\* However sites link to themselves, a domain costs at most so many fetches,
\* failed ones included, and each is of an allowed address of that domain.
FetchesBounded ==
  /\ requests <= MaxSitemaps + MaxPages
  /\ MoreSeeds => \A u \in checked \cup crawled : Allowed(u)

(***************************************************************************)
(* What the documents say and the code does not do                         *)
(***************************************************************************)

\* PROGRAMME_DISCOVERY.md: "Reruns safely reuse cached discovery pages and
\* reproduce unique candidates": a run that completes after another that reported
\* candidates reports the same.
RerunReproduces ==
  [][dpc = "seed" /\ dpc' = "idle" /\ DOMAIN reported # {}
       => Range(reported') = Range(reported)]_<<pages, discoveryVars>>
=============================================================================
