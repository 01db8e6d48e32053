--------------------------- MODULE CollectionProofs ---------------------------
(***************************************************************************)
(* Discovery and batch collection for any web, any seed and input files    *)
(* and any limits.  Each command has its invariant; the two meet only in   *)
(* the job's pages, which discovery never removes and never marks as a     *)
(* batch's, and in the addresses discovery reports.  The last section      *)
(* counts what each command still has to do.                               *)
(***************************************************************************)
EXTENDS DiscoverThenBatch, FiniteSetTheorems, SequenceTheorems, WellFoundedInduction, TLAPS

(***************************************************************************)
(* Rows of files                                                           *)
(***************************************************************************)

\* Every non-empty set of row numbers has a first one.
LEMMA LeastRow ==
  ASSUME NEW T \in SUBSET Nat, T # {}
  PROVE  \E n \in T : \A m \in T : n <= m
<1>1. PICK n \in T : \A m \in T : ~ (<<m, n>> \in OpToRel(<, Nat))
  BY WFMin, NatLessThanWellFounded
<1>2. ASSUME NEW m \in T
      PROVE  n <= m
  <2>1. m \in Nat /\ n \in Nat /\ ~ (m < n)
    BY <1>1 DEF OpToRel
  <2>2. QED
    BY <2>1
<1>3. QED
  BY <1>2

\* While rows are left the first of them is one of them, and what remains
\* after it are the others.
LEMMA RowsLeft ==
  ASSUME NEW rs, DOMAIN rs \subseteq Nat, NEW S, Range(rs) \subseteq S
  PROVE  /\ DOMAIN rs # {} => FirstRow(rs) \in DOMAIN rs /\ rs[FirstRow(rs)] \in S
         /\ DOMAIN OtherRows(rs) = DOMAIN rs \ {FirstRow(rs)}
         /\ \A n \in DOMAIN OtherRows(rs) : OtherRows(rs)[n] = rs[n]
         /\ Range(OtherRows(rs)) \subseteq S
<1>1. DOMAIN rs # {} => FirstRow(rs) \in DOMAIN rs
  BY LeastRow DEF FirstRow, Min
<1>2. QED
  BY <1>1 DEF OtherRows, Restrict, Range

\* The rows kept of a file are rows of it, and their keys differ.
LEMMA RowsKept ==
  ASSUME NEW S, NEW file \in Seq(S), NEW key, DOMAIN key = DOMAIN file
  PROVE  LET kept == Restrict(file, FirstRows(key))
         IN  /\ DOMAIN kept \subseteq Nat
             /\ DOMAIN kept = FirstRows(key)
             /\ Range(kept) \subseteq S
             /\ \A n \in DOMAIN kept : kept[n] = file[n]
<1>1. DOMAIN file \subseteq Nat /\ \A n \in DOMAIN file : file[n] \in S
  BY ElementOfSeq, LenProperties
<1>2. QED
  BY <1>1 DEF Restrict, FirstRows, Range

\* Of two rows with one key only the first is kept.
LEMMA KeysDiffer ==
  ASSUME NEW key, DOMAIN key \subseteq Nat
  PROVE  \A m, n \in FirstRows(key) : key[m] = key[n] => m = n
BY DEF FirstRows

(***************************************************************************)
(* Discovery: types                                                        *)
(***************************************************************************)
InDomain == {"robots", "sitemaps", "locations", "crawl", "links"}

\* The variables are typed, a domain being worked on is one of the seeds, and
\* links are read for an entry of a queue.
Typed ==
  /\ DiscoveryTypeOK
  /\ dpc \in InDomain => MoreSeeds
  /\ dpc \in {"locations", "links"} => current \in Entry

\* While a seed is worked on it is one of a seed file.
LEMMA SeedTyped ==
  ASSUME Typed, MoreSeeds
  PROVE  /\ Seed \in SeedRow
         /\ Seed.domain \in Domains
         /\ \A u : Allowed(u) => u \in Urls
<1>1. Seed \in SeedRow
  BY RowsLeft DEF Typed, DiscoveryTypeOK, MoreSeeds, Seed
<1>2. QED
  BY <1>1, DiscoveryConstants DEF SeedRow, Allowed

\* At most MaxLinks links are taken, and they are links.
LEMMA LimitedTyped ==
  ASSUME NEW s \in Seq(Link)
  PROVE  Limited(s) \in Seq(Link)
<1> DEFINE n == IF Len(s) < MaxLinks THEN Len(s) ELSE MaxLinks
<1>1. n \in Nat /\ n <= Len(s)
  BY LenProperties, DiscoveryConstants
<1>2. SubSeq(s, 1, n) \in Seq(Link)
  BY <1>1, SubSeqProperties
<1>3. QED
  BY <1>2 DEF Limited

\* _consider keeps the types.
LEMMA ConsiderTyped ==
  ASSUME emitted \subseteq Urls, items \in Seq(Item), Seed.domain \in Domains,
         NEW link \in Link, NEW entry \in Entry, Consider(link, entry)
  PROVE  emitted' \subseteq Urls /\ items' \in Seq(Item)
<1> DEFINE item == [domain |-> Seed.domain, url |-> Bare[link.url],
                    source |-> entry.source, status |-> StatusOf(link.url)]
<1>1. item \in Item
  BY DiscoveryConstants DEF Item, Link, Entry, StatusOf, Statuses
<1>2. Append(items, item) \in Seq(Item)
  BY <1>1, AppendProperties
<1>3. CASE Score(link, entry.source = "catalogue") < 20
  BY <1>3 DEF Consider
<1>4. CASE ~ (Score(link, entry.source = "catalogue") < 20)
  BY <1>2, <1>4 DEF Consider, Link
<1>5. QED
  BY <1>3, <1>4

\* _record_failure keeps the types.
LEMMA RecordFailureTyped ==
  ASSUME items \in Seq(Item), Seed.domain \in Domains, NEW u \in Urls,
         NEW source \in Origins, NEW status \in FailureStatuses,
         RecordFailure(u, source, status)
  PROVE  items' \in Seq(Item)
<1> DEFINE item == [domain |-> Seed.domain, url |-> Bare[u], source |-> source,
                    status |-> status]
<1>1. item \in Item
  BY DiscoveryConstants DEF Item
<1>2. Append(items, item) \in Seq(Item)
  BY <1>1, AppendProperties
<1>3. QED
  BY <1>2 DEF RecordFailure

\* What a queue starts with is an entry.
LEMMA StartTyped ==
  ASSUME NEW u \in Urls, NEW source \in Origins
  PROVE  Start(u, source) \in Entry
BY DEF Start, Entry

\* A domain's empty queues are typed.
LEMMA ForgottenTyped ==
  ASSUME ForgetDomain
  PROVE  /\ sitemapQueue' \in Seq(Entry) /\ checked' \subseteq Urls
         /\ queue' \in Seq(Entry) /\ crawled' \subseteq Urls
         /\ current' \in Entry \cup {NoEntry} /\ links' \in Seq(Link)
         /\ requests' \in Nat /\ opened' \subseteq Urls
BY DEF ForgetDomain

\* The end of a domain, whichever loop it comes from, keeps the types.
LEMMA DomainEndTyped ==
  ASSUME Typed, EndDomain, UNCHANGED <<known, reported, discoveries>>,
         emitted' \subseteq Urls, items' \in Seq(Item)
  PROVE  Typed'
<1>1. DOMAIN seeds' \subseteq Nat /\ Range(seeds') \subseteq SeedRow
  <2>1. DOMAIN seeds \subseteq Nat /\ Range(seeds) \subseteq SeedRow
    BY DEF Typed, DiscoveryTypeOK
  <2>2. /\ DOMAIN OtherRows(seeds) = DOMAIN seeds \ {FirstRow(seeds)}
        /\ Range(OtherRows(seeds)) \subseteq SeedRow
    BY <2>1, RowsLeft
  <2>3. seeds' = OtherRows(seeds)
    BY DEF EndDomain
  <2>4. QED
    BY <2>1, <2>2, <2>3
<1>2. dpc' = "seed"
  BY DEF EndDomain
<1>3. QED
  BY <1>1, <1>2, ForgottenTyped DEF EndDomain, Typed, DiscoveryTypeOK, InDomain

\* An idle command is typed.
LEMMA DiscoveryStartsTyped == DiscoveryInit => Typed
BY DiscoveryConstants DEF DiscoveryInit, Typed, DiscoveryTypeOK, InDomain, Range

\* Actions of discovery, one by one.
LEMMA StartDiscoveryTyped ==
  ASSUME Typed, NEW file \in SeedFiles, StartDiscovery(file), PagesTypeOK
  PROVE  Typed'
<1>1. file \in Seq(SeedRow)
  BY DiscoveryConstants
<1>2. DOMAIN seeds' \subseteq Nat /\ Range(seeds') \subseteq SeedRow
  <2>1. seeds' = UniqueSeeds(file)
    BY DEF StartDiscovery
  <2> DEFINE key == [n \in DOMAIN file |-> file[n].domain]
  <2>2. DOMAIN key = DOMAIN file
    OBVIOUS
  <2>3. QED
    BY <1>1, <2>1, <2>2, RowsKept DEF UniqueSeeds
<1>3. known' \subseteq Urls
  BY DEF StartDiscovery, KnownUrls, PagesTypeOK, Row
<1>4. discoveries' \in 0..MaxDiscoveries
  BY DiscoveryConstants DEF StartDiscovery, Typed, DiscoveryTypeOK
<1>5. emitted' = {} /\ items' = <<>> /\ dpc' = "seed"
  BY DEF StartDiscovery
<1>6. UNCHANGED <<sitemapQueue, checked, queue, crawled, requests, opened, current, links, reported>>
  BY DEF StartDiscovery, domainVars, linkVars
<1>7. QED
  BY <1>2, <1>3, <1>4, <1>5, <1>6 DEF Typed, DiscoveryTypeOK, InDomain

LEMMA BeginDomainTyped ==
  ASSUME Typed, BeginDomain
  PROVE  Typed'
<1>1. MoreSeeds /\ Seed \in SeedRow /\ Seed.domain \in Domains
  BY SeedTyped DEF BeginDomain
<1>2. sitemapQueue' \in Seq(Entry)
  <2>1. CASE Seed.sitemap = None
    BY <2>1 DEF BeginDomain
  <2>2. CASE Seed.sitemap # None
    <3>1. Start(Seed.sitemap, "explicit_sitemap") \in Entry
      BY <1>1, <2>2, StartTyped DEF SeedRow, Origins
    <3>2. QED
      BY <2>2, <3>1 DEF BeginDomain
  <2>3. QED
    BY <2>1, <2>2
<1>3. items' \in Seq(Item) /\ links' \in Seq(Link)
  <2>1. PICK declared \in Declared[Seed.domain] :
          IF declared = None
          THEN /\ RecordFailure(FrontPage[Seed.domain], "robots_txt", "robots_failed")
               /\ UNCHANGED links
          ELSE links' = declared /\ UNCHANGED items
    BY DEF BeginDomain
  <2>2. items \in Seq(Item) /\ links \in Seq(Link)
    BY DEF Typed, DiscoveryTypeOK
  <2>3. CASE declared = None
    <3>1. FrontPage[Seed.domain] \in Urls
      BY <1>1, DiscoveryConstants
    <3>2. "robots_txt" \in Origins /\ "robots_failed" \in FailureStatuses
      BY DEF Origins, FailureStatuses
    <3>3. RecordFailure(FrontPage[Seed.domain], "robots_txt", "robots_failed")
      BY <2>1, <2>3
    <3>4. items' \in Seq(Item)
      BY <1>1, <2>2, <3>1, <3>2, <3>3, RecordFailureTyped
    <3>5. QED
      BY <2>1, <2>2, <2>3, <3>4
  <2>4. CASE declared # None
    <3>1. declared \in Seq(Link)
      BY <1>1, <2>4, DiscoveryConstants
    <3>2. QED
      BY <2>1, <2>2, <2>4, <3>1
  <2>5. QED
    BY <2>3, <2>4
<1>4. /\ dpc' = "robots" /\ MoreSeeds
      /\ UNCHANGED <<seeds, known, emitted, checked, queue, crawled, requests, opened,
                     current, reported, discoveries>>
  BY DEF BeginDomain
<1>5. QED
  BY <1>2, <1>3, <1>4 DEF Typed, DiscoveryTypeOK, InDomain, MoreSeeds

LEMMA DeclaredTyped ==
  ASSUME Typed, ReadDeclared \/ EndDeclared
  PROVE  Typed'
<1>1. MoreSeeds /\ Seed.domain \in Domains /\ \A u : Allowed(u) => u \in Urls
  BY SeedTyped DEF ReadDeclared, EndDeclared, Typed, InDomain
<1>2. sitemapQueue \in Seq(Entry) /\ links \in Seq(Link)
  BY DEF Typed, DiscoveryTypeOK
<1>3. CASE ReadDeclared
  <2>1. links' \in Seq(Link)
    BY <1>2, <1>3, HeadTailProperties DEF ReadDeclared
  <2>2. sitemapQueue' \in Seq(Entry)
    <3>1. CASE Allowed(Head(links).url)
      <4>1. Start(Head(links).url, "robots_sitemap") \in Entry
        BY <1>1, <3>1, StartTyped DEF Origins
      <4>2. QED
        BY <1>2, <1>3, <3>1, <4>1, AppendProperties DEF ReadDeclared
    <3>2. CASE ~ Allowed(Head(links).url)
      BY <1>2, <1>3, <3>2 DEF ReadDeclared
    <3>3. QED
      BY <3>1, <3>2
  <2>3. UNCHANGED <<dpc, seeds, known, emitted, items, checked, queue, crawled, requests, opened,
                    current, reported, discoveries>>
    BY <1>3 DEF ReadDeclared, runVars
  <2>4. dpc' = "robots"
    BY <1>3, <2>3 DEF ReadDeclared
  <2>5. QED
    BY <1>1, <2>1, <2>2, <2>3, <2>4 DEF Typed, DiscoveryTypeOK, InDomain, MoreSeeds
<1>4. CASE EndDeclared
  <2> DEFINE urls == Conventional[Seed.domain]
             conv == [i \in 1..Len(urls) |-> Start(urls[i], "conventional_sitemap")]
  <2>1. urls \in Seq(Urls)
    BY <1>1, DiscoveryConstants
  <2>2. conv \in Seq(Entry)
    <3>1. Len(urls) \in Nat /\ \A i \in 1..Len(urls) : urls[i] \in Urls
      BY <2>1, LenProperties, ElementOfSeq
    <3>2. \A i \in 1..Len(urls) : Start(urls[i], "conventional_sitemap") \in Entry
      BY <3>1, StartTyped DEF Origins
    <3> HIDE DEF urls
    <3>3. QED
      BY <3>1, <3>2, IsASeq
  <2>3. sitemapQueue' = sitemapQueue \o conv
    BY <1>4 DEF EndDeclared
  <2>4. sitemapQueue' \in Seq(Entry)
    <3> HIDE DEF conv
    <3>1. QED
      BY <1>2, <2>2, <2>3, ConcatProperties
  <2>5. /\ dpc' = "sitemaps"
        /\ UNCHANGED <<seeds, known, emitted, items, checked, queue, crawled, requests, opened,
                       current, links, reported, discoveries>>
    BY <1>4 DEF EndDeclared, runVars, linkVars
  <2>6. QED
    BY <1>1, <2>4, <2>5 DEF Typed, DiscoveryTypeOK, InDomain, MoreSeeds
<1>5. QED
  BY <1>3, <1>4

\* A failure is reported with a status of failures.
LEMMA FailureStatusTyped ==
  ASSUME NEW answer, NEW otherwise \in FailureStatuses
  PROVE  FailureStatus(answer, otherwise) \in FailureStatuses
BY DEF FailureStatus, FailureStatuses

LEMMA SkipTyped ==
  ASSUME Typed, SkipSitemap \/ SkipPage \/ EndLocations \/ EndLinks
  PROVE  Typed'
<1>1. sitemapQueue \in Seq(Entry) /\ queue \in Seq(Entry)
  BY DEF Typed, DiscoveryTypeOK
<1>2. CASE SkipSitemap
  <2>1. sitemapQueue' \in Seq(Entry)
    BY <1>1, <1>2, HeadTailProperties DEF SkipSitemap, MoreSitemaps
  <2>2. UNCHANGED <<dpc, seeds, known, emitted, items, checked, queue, crawled, requests, opened,
                    current, links, reported, discoveries>>
    BY <1>2 DEF SkipSitemap, runVars, linkVars
  <2>3. QED
    BY <2>1, <2>2 DEF Typed, DiscoveryTypeOK, MoreSeeds
<1>3. CASE SkipPage
  <2>1. queue' \in Seq(Entry)
    BY <1>1, <1>3, HeadTailProperties DEF SkipPage, MorePages
  <2>2. UNCHANGED <<dpc, seeds, known, emitted, items, sitemapQueue, checked, crawled, requests,
                    opened, current, links, reported, discoveries>>
    BY <1>3 DEF SkipPage, runVars, linkVars
  <2>3. QED
    BY <2>1, <2>2 DEF Typed, DiscoveryTypeOK, MoreSeeds
<1>4. CASE EndLocations \/ EndLinks
  <2>1. /\ dpc' \in {"sitemaps", "crawl"} /\ current' = NoEntry /\ dpc \in {"locations", "links"}
        /\ UNCHANGED <<seeds, known, emitted, items, sitemapQueue, checked, queue, crawled, requests,
                       opened, links, reported, discoveries>>
    BY <1>4 DEF EndLocations, EndLinks, runVars, domainVars
  <2>2. QED
    BY <2>1 DEF Typed, DiscoveryTypeOK, MoreSeeds, InDomain
<1>5. QED
  BY <1>2, <1>3, <1>4

LEMMA FetchSitemapTyped ==
  ASSUME Typed, NEW answer, FetchSitemap(answer)
  PROVE  Typed'
<1> DEFINE entry == Head(sitemapQueue)
<1>1. MoreSeeds /\ Seed.domain \in Domains /\ \A u : Allowed(u) => u \in Urls
  BY SeedTyped DEF FetchSitemap, Typed, InDomain
<1>2. /\ sitemapQueue \in Seq(Entry) /\ sitemapQueue # <<>> /\ items \in Seq(Item)
      /\ checked \subseteq Urls /\ requests \in Nat /\ links \in Seq(Link)
  BY DEF Typed, DiscoveryTypeOK, FetchSitemap, MoreSitemaps
<1>3. entry \in Entry /\ entry.url \in Urls /\ sitemapQueue' \in Seq(Entry)
  BY <1>1, <1>2, HeadTailProperties DEF FetchSitemap
<1>4. checked' \subseteq Urls /\ requests' \in Nat
  BY <1>2, <1>3 DEF FetchSitemap
<1>5. /\ dpc' \in {"sitemaps", "locations"} /\ items' \in Seq(Item) /\ links' \in Seq(Link)
      /\ current' \in Entry \cup {NoEntry}
      /\ dpc' = "locations" => current' \in Entry
  <2>1. CASE Served(answer) /\ Sitemap[entry.url].kind # "invalid"
    <3>1. Sitemap[entry.url].links \in Seq(Link)
      BY <1>3, DiscoveryConstants
    <3>2. links' \in Seq(Link)
      BY <2>1, <3>1, LimitedTyped DEF FetchSitemap
    <3>3. dpc' = "locations" /\ current' = entry /\ items' = items
      BY <2>1 DEF FetchSitemap
    <3>4. QED
      BY <1>2, <1>3, <3>2, <3>3
  <2>2. CASE ~ (Served(answer) /\ Sitemap[entry.url].kind # "invalid")
    <3>1. FailureStatus(answer, "sitemap_failed") \in FailureStatuses
      BY FailureStatusTyped DEF FailureStatuses
    <3>2. RecordFailure(entry.url, entry.source, FailureStatus(answer, "sitemap_failed"))
      BY <2>2 DEF FetchSitemap
    <3>3. entry.source \in Origins
      BY <1>3 DEF Entry
    <3>4. items' \in Seq(Item)
      BY <1>1, <1>2, <1>3, <3>1, <3>2, <3>3, RecordFailureTyped
    <3>5. dpc' = "sitemaps" /\ current' = current /\ links' = links
      BY <2>2 DEF FetchSitemap, linkVars
    <3>6. QED
      BY <1>2, <3>4, <3>5 DEF Typed, DiscoveryTypeOK
  <2>3. QED
    BY <2>1, <2>2
<1>6. UNCHANGED <<seeds, known, emitted, queue, crawled, opened, reported, discoveries>>
  BY DEF FetchSitemap
<1>7. QED
  BY <1>1, <1>3, <1>4, <1>5, <1>6 DEF Typed, DiscoveryTypeOK, MoreSeeds, InDomain

LEMMA BeginCrawlTyped ==
  ASSUME Typed, BeginCrawl
  PROVE  Typed'
<1>1. MoreSeeds /\ Seed \in SeedRow /\ Seed.domain \in Domains
  BY SeedTyped DEF BeginCrawl, Typed, InDomain
<1>2. FrontPage[Seed.domain] \in Urls
  BY <1>1, DiscoveryConstants
<1>3. Start(FrontPage[Seed.domain], "crawl") \in Entry
  BY <1>2, StartTyped DEF Origins
<1>4. Seed.catalogue # None => Start(Seed.catalogue, "catalogue") \in Entry
  BY <1>1, StartTyped DEF Origins, SeedRow
<1>5. queue' \in Seq(Entry)
  BY <1>3, <1>4 DEF BeginCrawl
<1>6. /\ dpc' = "crawl"
      /\ UNCHANGED <<seeds, known, emitted, items, sitemapQueue, checked, crawled, requests, opened,
                     current, links, reported, discoveries>>
  BY DEF BeginCrawl, runVars, linkVars
<1>7. QED
  BY <1>1, <1>5, <1>6 DEF Typed, DiscoveryTypeOK, MoreSeeds, InDomain

LEMMA FetchCrawledTyped ==
  ASSUME Typed, NEW answer, FetchCrawled(answer)
  PROVE  Typed'
<1> DEFINE entry == Head(queue)
<1>1. MoreSeeds /\ Seed.domain \in Domains /\ \A u : Allowed(u) => u \in Urls
  BY SeedTyped DEF FetchCrawled, Typed, InDomain
<1>2. /\ queue \in Seq(Entry) /\ queue # <<>> /\ items \in Seq(Item)
      /\ crawled \subseteq Urls /\ requests \in Nat /\ links \in Seq(Link) /\ opened \subseteq Urls
  BY DEF Typed, DiscoveryTypeOK, FetchCrawled, MorePages
<1>3. entry \in Entry /\ entry.url \in Urls /\ queue' \in Seq(Entry)
  BY <1>1, <1>2, HeadTailProperties DEF FetchCrawled
<1>4. crawled' \subseteq Urls /\ requests' \in Nat
  BY <1>2, <1>3 DEF FetchCrawled
<1>5. items' \in Seq(Item)
  <2>1. CASE Served(answer)
    BY <1>2, <2>1 DEF FetchCrawled
  <2>2. CASE ~ Served(answer)
    <3>1. CrawlFailure(entry) \in FailureStatuses
      BY DEF CrawlFailure, FailureStatuses
    <3>2. FailureStatus(answer, CrawlFailure(entry)) \in FailureStatuses
      BY <3>1, FailureStatusTyped
    <3>3. RecordFailure(entry.url, entry.source, FailureStatus(answer, CrawlFailure(entry)))
      BY <2>2 DEF FetchCrawled
    <3>4. entry.source \in Origins
      BY <1>3 DEF Entry
    <3>5. QED
      BY <1>1, <1>2, <1>3, <3>2, <3>3, <3>4, RecordFailureTyped
  <2>3. QED
    BY <2>1, <2>2
<1>6. /\ dpc' \in {"crawl", "links"} /\ links' \in Seq(Link) /\ opened' \subseteq Urls
      /\ current' \in Entry \cup {NoEntry}
      /\ dpc' = "links" => current' \in Entry
  <2>1. CASE Served(answer) /\ entry.url \in Html
    <3>1. Links[entry.url] \in Seq(Link)
      BY <1>3, DiscoveryConstants
    <3>2. links' \in Seq(Link)
      BY <2>1, <3>1, LimitedTyped DEF FetchCrawled
    <3>3. dpc' = "links" /\ current' = entry /\ opened' = opened \cup {entry.url}
      BY <2>1 DEF FetchCrawled
    <3>4. QED
      BY <1>2, <1>3, <3>2, <3>3
  <2>2. CASE ~ (Served(answer) /\ entry.url \in Html)
    <3>1. dpc' = "crawl" /\ current' = current /\ links' = links /\ opened' = opened
      BY <2>2 DEF FetchCrawled, linkVars
    <3>2. QED
      BY <1>2, <3>1 DEF Typed, DiscoveryTypeOK
  <2>3. QED
    BY <2>1, <2>2
<1>7. UNCHANGED <<seeds, known, emitted, sitemapQueue, checked, reported, discoveries>>
  BY DEF FetchCrawled
<1>8. QED
  BY <1>1, <1>3, <1>4, <1>5, <1>6, <1>7 DEF Typed, DiscoveryTypeOK, MoreSeeds, InDomain

LEMMA ReadLocationTyped ==
  ASSUME Typed, ReadLocation
  PROVE  Typed'
<1> DEFINE link == Head(links)
           nested == Sitemap[current.url].kind = "index"
<1>1. MoreSeeds /\ Seed.domain \in Domains /\ \A u : Allowed(u) => u \in Urls
  BY SeedTyped DEF ReadLocation, Typed, InDomain
<1>2. /\ links \in Seq(Link) /\ links # <<>> /\ current \in Entry /\ current.depth \in Nat
      /\ emitted \subseteq Urls /\ items \in Seq(Item) /\ sitemapQueue \in Seq(Entry)
  BY DEF Typed, DiscoveryTypeOK, ReadLocation, Entry
<1>3. link \in Link /\ Tail(links) \in Seq(Link)
  BY <1>2, HeadTailProperties
<1>4. emitted' \subseteq Urls /\ items' \in Seq(Item)
  <2>1. CASE Allowed(link.url) /\ ~ nested
    <3>1. Consider(link, current)
      BY <2>1 DEF ReadLocation
    <3>2. QED
      BY <1>1, <1>2, <1>3, <3>1, ConsiderTyped
  <2>2. CASE ~ (Allowed(link.url) /\ ~ nested)
    BY <1>2, <2>2 DEF ReadLocation
  <2>3. QED
    BY <2>1, <2>2
<1>5. UNCHANGED <<known, reported, discoveries>>
  BY DEF ReadLocation
<1>6. CASE Cardinality(emitted') >= Target
  <2>1. EndDomain
    BY <1>6 DEF ReadLocation
  <2>2. QED
    BY <1>4, <1>5, <2>1, DomainEndTyped
<1>7. CASE ~ (Cardinality(emitted') >= Target)
  <2> DEFINE further == Allowed(link.url) /\ nested /\ current.depth < MaxSitemapDepth
             added == [url |-> link.url, depth |-> current.depth + 1, source |-> "sitemap_index"]
  <2>1. sitemapQueue' \in Seq(Entry)
    <3>1. CASE further
      <4>1. added \in Entry
        BY <1>1, <1>2, <3>1 DEF Entry, Origins
      <4>2. sitemapQueue' = Append(sitemapQueue, added)
        BY <1>7, <3>1 DEF ReadLocation
      <4> HIDE DEF added
      <4>3. QED
        BY <1>2, <4>1, <4>2, AppendProperties
    <3>2. CASE ~ further
      BY <1>2, <1>7, <3>2 DEF ReadLocation
    <3>3. QED
      BY <3>1, <3>2
  <2>2. /\ links' = Tail(links)
        /\ UNCHANGED <<dpc, seeds, checked, queue, crawled, current, requests, opened>>
    BY <1>7 DEF ReadLocation
  <2>3. QED
    BY <1>1, <1>3, <1>4, <1>5, <2>1, <2>2 DEF Typed, DiscoveryTypeOK, MoreSeeds
<1>8. QED
  BY <1>6, <1>7

LEMMA ReadLinkTyped ==
  ASSUME Typed, ReadLink
  PROVE  Typed'
<1> DEFINE link == Head(links)
<1>1. MoreSeeds /\ Seed.domain \in Domains /\ \A u : Allowed(u) => u \in Urls
  BY SeedTyped DEF ReadLink, Typed, InDomain
<1>2. /\ links \in Seq(Link) /\ links # <<>> /\ current \in Entry /\ current.depth \in Nat
      /\ emitted \subseteq Urls /\ items \in Seq(Item) /\ queue \in Seq(Entry)
  BY DEF Typed, DiscoveryTypeOK, ReadLink, Entry
<1>3. link \in Link /\ Tail(links) \in Seq(Link)
  BY <1>2, HeadTailProperties
<1>4. emitted' \subseteq Urls /\ items' \in Seq(Item)
  <2>1. CASE Allowed(link.url)
    <3>1. Consider(link, current)
      BY <2>1 DEF ReadLink
    <3>2. QED
      BY <1>1, <1>2, <1>3, <3>1, ConsiderTyped
  <2>2. CASE ~ Allowed(link.url)
    BY <1>2, <2>2 DEF ReadLink
  <2>3. QED
    BY <2>1, <2>2
<1>5. UNCHANGED <<known, reported, discoveries>>
  BY DEF ReadLink
<1>6. CASE Cardinality(emitted') >= Target
  <2>1. EndDomain
    BY <1>6 DEF ReadLink
  <2>2. QED
    BY <1>4, <1>5, <2>1, DomainEndTyped
<1>7. CASE ~ (Cardinality(emitted') >= Target)
  <2> DEFINE further == Allowed(link.url) /\ current.depth < MaxDepth
             added == [url |-> link.url, depth |-> current.depth + 1, source |-> current.source]
  <2>1. queue' \in Seq(Entry)
    <3>1. CASE further
      <4>1. link.url \in Urls /\ current.depth + 1 \in Nat /\ current.source \in Origins
        BY <1>1, <1>2, <3>1 DEF Entry
      <4>2. added \in Entry
        BY <4>1 DEF Entry
      <4>3. queue' = Append(queue, added)
        BY <1>7, <3>1 DEF ReadLink
      <4> HIDE DEF added
      <4>4. QED
        BY <1>2, <4>2, <4>3, AppendProperties
    <3>2. CASE ~ further
      BY <1>2, <1>7, <3>2 DEF ReadLink
    <3>3. QED
      BY <3>1, <3>2
  <2>2. /\ links' = Tail(links)
        /\ UNCHANGED <<dpc, seeds, sitemapQueue, checked, crawled, current, requests, opened>>
    BY <1>7 DEF ReadLink
  <2>3. QED
    BY <1>1, <1>3, <1>4, <1>5, <2>1, <2>2 DEF Typed, DiscoveryTypeOK, MoreSeeds
<1>8. QED
  BY <1>6, <1>7

LEMMA CommandEndTyped ==
  ASSUME Typed, Report \/ DiscoveryDies
  PROVE  Typed'
<1>1. DOMAIN reported' \subseteq Nat /\ Range(reported') \subseteq Urls
  <2>1. items \in Seq(Item) /\ DOMAIN reported \subseteq Nat /\ Range(reported) \subseteq Urls
    BY DEF Typed, DiscoveryTypeOK
  <2>2. CASE Report
    <3>1. /\ CandidateRows \subseteq Nat
          /\ \A i \in CandidateRows : items[i].url \in Urls
      <4>1. DOMAIN items = 1..Len(items) /\ Len(items) \in Nat
        BY <2>1, LenProperties
      <4>2. \A i \in 1..Len(items) : items[i] \in Item
        BY <2>1, ElementOfSeq
      <4>3. \A item \in Item : item.url \in Urls
        BY DEF Item
      <4>4. QED
        BY <4>1, <4>2, <4>3 DEF CandidateRows
    <3>2. reported' = [i \in CandidateRows |-> items[i].url]
      BY <2>2 DEF Report
    <3>3. QED
      BY <3>1, <3>2 DEF Range
  <2>3. CASE DiscoveryDies
    BY <2>1, <2>3 DEF DiscoveryDies
  <2>4. QED
    BY <2>2, <2>3
<1>2. DiscoveryEnds /\ UNCHANGED discoveries
  BY DEF Report, DiscoveryDies
<1>3. DOMAIN seeds' \subseteq Nat /\ Range(seeds') \subseteq SeedRow
  BY <1>2 DEF DiscoveryEnds, Range
<1>4. dpc' = "idle" /\ known' = {} /\ emitted' = {} /\ items' = <<>> /\ ForgetDomain
  BY <1>2 DEF DiscoveryEnds
<1>5. QED
  BY <1>1, <1>2, <1>3, <1>4, ForgottenTyped DEF Typed, DiscoveryTypeOK, InDomain

LEMMA EndCrawlTyped ==
  ASSUME Typed, EndCrawl
  PROVE  Typed'
<1>1. EndDomain /\ UNCHANGED <<known, emitted, items, reported, discoveries>>
  BY DEF EndCrawl, runVars
<1>2. emitted' \subseteq Urls /\ items' \in Seq(Item)
  BY <1>1 DEF Typed, DiscoveryTypeOK
<1>3. QED
  BY <1>1, <1>2, DomainEndTyped

\* Every step of discovery keeps the types.
LEMMA DiscoveryKeepsTypes ==
  ASSUME Typed, PagesTypeOK, DiscoveryNext
  PROVE  Typed'
<1>1. CASE \E file \in SeedFiles : StartDiscovery(file)
  BY <1>1, StartDiscoveryTyped
<1>2. CASE BeginDomain
  BY <1>2, BeginDomainTyped
<1>3. CASE ReadDeclared \/ EndDeclared
  BY <1>3, DeclaredTyped
<1>4. CASE SkipSitemap \/ SkipPage \/ EndLocations \/ EndLinks
  BY <1>4, SkipTyped
<1>5. CASE ReadLocation \/ ReadLink
  BY <1>5, ReadLocationTyped, ReadLinkTyped
<1>6. CASE BeginCrawl \/ EndCrawl
  BY <1>6, BeginCrawlTyped, EndCrawlTyped
<1>7. CASE \E answer \in AnswerKinds : FetchSitemap(answer) \/ FetchCrawled(answer)
  BY <1>7, FetchSitemapTyped, FetchCrawledTyped
<1>8. CASE Report \/ DiscoveryDies
  BY <1>8, CommandEndTyped
<1>9. QED
  BY <1>1, <1>2, <1>3, <1>4, <1>5, <1>6, <1>7, <1>8 DEF DiscoveryNext, DiscoveryStep

(***************************************************************************)
(* Discovery: bounds                                                       *)
(***************************************************************************)

\* Every fetch for a domain is of a sitemap checked or a page crawled, each
\* once; between domains there are none.
Bounded ==
  /\ IsFiniteSet(checked) /\ Cardinality(checked) <= MaxSitemaps
  /\ IsFiniteSet(crawled) /\ Cardinality(crawled) <= MaxPages
  /\ requests = Cardinality(checked) + Cardinality(crawled)
  /\ MoreSeeds => \A u \in checked \cup crawled : Allowed(u)
  /\ dpc \in {"idle", "seed"} => checked = {} /\ crawled = {}

\* Empty queues are within the bounds.
LEMMA ForgottenBounded ==
  ASSUME ForgetDomain
  PROVE  Bounded'
<1>1. checked' = {} /\ crawled' = {} /\ requests' = 0
  BY DEF ForgetDomain
<1>2. 0 <= MaxSitemaps /\ 0 <= MaxPages
  BY DiscoveryConstants
<1>3. QED
  BY <1>1, <1>2, FS_EmptySet DEF Bounded

\* Steps that fetch nothing keep the bounds.
LEMMA SameBounds ==
  ASSUME Bounded, UNCHANGED <<seeds, checked, crawled, requests>>,
         dpc' \in {"idle", "seed"} => dpc \in {"idle", "seed"}
  PROVE  Bounded'
BY DEF Bounded, MoreSeeds, Allowed, Seed

\* An idle command is within the bounds.
LEMMA StartBounded == DiscoveryInit => Bounded
BY FS_EmptySet, DiscoveryConstants DEF DiscoveryInit, Bounded

\* A fetch is counted with the address it was made for, which is new.
LEMMA FetchesCounted ==
  ASSUME Bounded, NEW answer, FetchSitemap(answer) \/ FetchCrawled(answer)
  PROVE  Bounded'
<1>0. /\ MaxSitemaps \in Nat /\ MaxPages \in Nat
      /\ Cardinality(checked) \in Nat /\ Cardinality(crawled) \in Nat
      /\ requests = Cardinality(checked) + Cardinality(crawled)
  BY FS_CardinalityType, DiscoveryConstants DEF Bounded
<1>1. CASE FetchSitemap(answer)
  <2> DEFINE u == Head(sitemapQueue).url
  <2>1. /\ u \notin checked /\ Allowed(u) /\ Cardinality(checked) < MaxSitemaps
        /\ checked' = checked \cup {u} /\ crawled' = crawled /\ requests' = requests + 1
        /\ dpc = "sitemaps" /\ dpc' \in {"sitemaps", "locations"} /\ seeds' = seeds
    BY <1>1 DEF FetchSitemap, MoreSitemaps
  <2> HIDE DEF u
  <2>2. IsFiniteSet(checked') /\ Cardinality(checked') = Cardinality(checked) + 1
    BY <2>1, FS_AddElement DEF Bounded
  <2>3. Cardinality(checked') <= MaxSitemaps /\ requests' = Cardinality(checked') + Cardinality(crawled')
    BY <1>0, <2>1, <2>2
  <2>4. MoreSeeds' => \A v \in checked' \cup crawled' : Allowed(v)'
    BY <2>1 DEF Bounded, MoreSeeds, Allowed, Seed
  <2>5. QED
    BY <2>1, <2>2, <2>3, <2>4 DEF Bounded
<1>2. CASE FetchCrawled(answer)
  <2> DEFINE u == Head(queue).url
  <2>1. /\ u \notin crawled /\ Allowed(u) /\ Cardinality(crawled) < MaxPages
        /\ crawled' = crawled \cup {u} /\ checked' = checked /\ requests' = requests + 1
        /\ dpc = "crawl" /\ dpc' \in {"crawl", "links"} /\ seeds' = seeds
    BY <1>2 DEF FetchCrawled, MorePages
  <2> HIDE DEF u
  <2>2. IsFiniteSet(crawled') /\ Cardinality(crawled') = Cardinality(crawled) + 1
    BY <2>1, FS_AddElement DEF Bounded
  <2>3. Cardinality(crawled') <= MaxPages /\ requests' = Cardinality(checked') + Cardinality(crawled')
    BY <1>0, <2>1, <2>2
  <2>4. MoreSeeds' => \A v \in checked' \cup crawled' : Allowed(v)'
    BY <2>1 DEF Bounded, MoreSeeds, Allowed, Seed
  <2>5. QED
    BY <2>1, <2>2, <2>3, <2>4 DEF Bounded
<1>3. QED
  BY <1>1, <1>2

\* Every step of discovery keeps the bounds.
LEMMA DiscoveryKeepsBounds ==
  ASSUME Bounded, DiscoveryNext
  PROVE  Bounded'
<1>1. CASE \E file \in SeedFiles : StartDiscovery(file)
  BY <1>1 DEF StartDiscovery, Bounded, domainVars
<1>2. CASE \/ BeginDomain \/ ReadDeclared \/ EndDeclared \/ SkipSitemap \/ SkipPage
           \/ EndLocations \/ EndLinks \/ BeginCrawl
  <2>1. UNCHANGED <<seeds, checked, crawled, requests>> /\ dpc' \notin {"idle", "seed"}
    BY <1>2 DEF BeginDomain, ReadDeclared, EndDeclared, SkipSitemap, SkipPage, EndLocations,
                EndLinks, BeginCrawl, domainVars
  <2>2. QED
    BY <2>1, SameBounds
<1>3. CASE ReadLocation \/ ReadLink
  <2>1. \/ EndDomain
        \/ UNCHANGED <<seeds, checked, crawled, requests>> /\ dpc' = dpc
    BY <1>3 DEF ReadLocation, ReadLink
  <2>2. QED
    BY <2>1, SameBounds, ForgottenBounded DEF EndDomain
<1>4. CASE \E answer \in AnswerKinds : FetchSitemap(answer) \/ FetchCrawled(answer)
  BY <1>4, FetchesCounted
<1>5. CASE EndCrawl \/ Report \/ DiscoveryDies
  BY <1>5, ForgottenBounded DEF EndCrawl, EndDomain, Report, DiscoveryDies, DiscoveryEnds
<1>6. QED
  BY <1>1, <1>2, <1>3, <1>4, <1>5 DEF DiscoveryNext, DiscoveryStep

\* Distinct addresses within the limits are requests within the limits.
LEMMA BoundsSuffice == Bounded => FetchesBounded
<1> SUFFICES ASSUME Bounded PROVE FetchesBounded
  OBVIOUS
<1>1. Cardinality(checked) \in Nat /\ Cardinality(crawled) \in Nat
  BY FS_CardinalityType DEF Bounded
<1>2. QED
  BY <1>1, DiscoveryConstants DEF Bounded, FetchesBounded

(***************************************************************************)
(* Discovery: what it emits                                                *)
(***************************************************************************)

\* The candidates are new to the job, no more than the target, and as many as
\* the report says.
Counted ==
  /\ IsFiniteSet(emitted)
  /\ emitted \cap known = {}
  /\ Cardinality(emitted) <= Target
  /\ IsFiniteSet(CandidateRows)
  /\ Cardinality(CandidateRows) = Cardinality(emitted)

\* While a domain is worked on the target is not reached.
Emitting == Counted /\ (dpc \in InDomain => Cardinality(emitted) < Target)

\* A result row adds one to the candidates, or nothing.
LEMMA RowAppended ==
  ASSUME items \in Seq(Item), NEW item \in Item, items' = Append(items, item),
         IsFiniteSet(CandidateRows)
  PROVE  /\ IsFiniteSet(CandidateRows')
         /\ Cardinality(CandidateRows') = Cardinality(CandidateRows)
                + (IF item.status = "candidate" THEN 1 ELSE 0)
<1> DEFINE n == Len(items) + 1
<1>1. /\ Len(items) \in Nat /\ DOMAIN items = 1..Len(items)
      /\ DOMAIN items' = 1..n /\ items'[n] = item
      /\ \A i \in 1..Len(items) : items'[i] = items[i]
  BY AppendProperties, LenProperties
<1>2. n \notin CandidateRows /\ Cardinality(CandidateRows) \in Nat
  BY <1>1, FS_CardinalityType DEF CandidateRows
<1>3. CASE item.status = "candidate"
  <2>1. CandidateRows' = CandidateRows \cup {n}
    BY <1>1, <1>3 DEF CandidateRows
  <2> HIDE DEF n
  <2>2. QED
    BY <1>2, <1>3, <2>1, FS_AddElement
<1>4. CASE item.status # "candidate"
  <2>1. CandidateRows' = CandidateRows
    BY <1>1, <1>4 DEF CandidateRows
  <2>2. QED
    BY <1>2, <1>4, <2>1
<1>5. QED
  BY <1>3, <1>4

\* _consider adds an address and its row together.
LEMMA ConsiderCounted ==
  ASSUME Typed, Seed.domain \in Domains, Counted, Cardinality(emitted) < Target,
         NEW link \in Link, NEW entry \in Entry, Consider(link, entry), known' = known
  PROVE  Counted'
<1> DEFINE item == [domain |-> Seed.domain, url |-> Bare[link.url],
                    source |-> entry.source, status |-> StatusOf(link.url)]
<1>1. CASE Score(link, entry.source = "catalogue") < 20
  BY <1>1 DEF Consider, Counted, CandidateRows
<1>2. CASE ~ (Score(link, entry.source = "catalogue") < 20)
  <2>1. items' = Append(items, item)
    BY <1>2 DEF Consider
  <2>2. item \in Item /\ item.status = StatusOf(link.url)
    BY DiscoveryConstants DEF Item, Link, Entry, StatusOf, Statuses
  <2>3. /\ IsFiniteSet(CandidateRows')
        /\ Cardinality(CandidateRows') = Cardinality(CandidateRows)
               + (IF StatusOf(link.url) = "candidate" THEN 1 ELSE 0)
    <3> HIDE DEF item
    <3>1. QED
      BY <2>1, <2>2, RowAppended DEF Typed, DiscoveryTypeOK, Counted
  <2>4. Cardinality(emitted) \in Nat /\ Target \in Nat
    BY FS_CardinalityType, DiscoveryConstants DEF Counted
  <2>5. CASE StatusOf(link.url) = "candidate"
    <3>1. link.url \notin emitted /\ link.url \notin known
      BY <2>5 DEF StatusOf
    <3>2. emitted' = emitted \cup {link.url}
      BY <1>2, <2>5 DEF Consider
    <3>3. IsFiniteSet(emitted') /\ Cardinality(emitted') = Cardinality(emitted) + 1
      BY <3>1, <3>2, FS_AddElement DEF Counted
    <3>4. QED
      BY <2>3, <2>4, <2>5, <3>1, <3>2, <3>3 DEF Counted
  <2>6. CASE StatusOf(link.url) # "candidate"
    <3>1. emitted' = emitted
      BY <1>2, <2>6 DEF Consider
    <3>2. QED
      BY <2>3, <2>4, <2>6, <3>1 DEF Counted
  <2>7. QED
    BY <2>5, <2>6
<1>3. QED
  BY <1>1, <1>2

\* A failure is no candidate.
LEMMA FailureCounted ==
  ASSUME Typed, Seed.domain \in Domains, Counted, UNCHANGED <<emitted, known>>,
         NEW u \in Urls, NEW source \in Origins, NEW status \in FailureStatuses,
         RecordFailure(u, source, status)
  PROVE  Counted'
<1> DEFINE item == [domain |-> Seed.domain, url |-> Bare[u], source |-> source,
                    status |-> status]
<1>1. item \in Item /\ item.status # "candidate"
  BY DiscoveryConstants DEF Item, FailureStatuses
<1>2. items' = items \/ items' = Append(items, item)
  BY DEF RecordFailure
<1>3. CASE items' = items
  BY <1>3 DEF Counted, CandidateRows
<1>4. CASE items' = Append(items, item)
  <2> HIDE DEF item
  <2>1. IsFiniteSet(CandidateRows') /\ Cardinality(CandidateRows') = Cardinality(CandidateRows) + 0
    BY <1>1, <1>4, RowAppended DEF Typed, DiscoveryTypeOK, Counted
  <2>2. Cardinality(CandidateRows) \in Nat
    BY FS_CardinalityType DEF Counted
  <2>3. QED
    BY <2>1, <2>2 DEF Counted
<1>5. QED
  BY <1>2, <1>3, <1>4

\* A run starts with nothing emitted.
LEMMA NothingCounted ==
  ASSUME emitted' = {}, items' = <<>>
  PROVE  Counted'
<1>1. CandidateRows' = {}
  BY DEF CandidateRows
<1>2. 0 <= Target
  BY DiscoveryConstants
<1>3. QED
  BY <1>1, <1>2, FS_EmptySet DEF Counted

\* Steps that emit nothing keep the count.
LEMMA SameCount ==
  ASSUME Counted, UNCHANGED <<emitted, known, items>>
  PROVE  Counted'
BY DEF Counted, CandidateRows

\* A fetch emits nothing, failures included.
LEMMA FetchCounted ==
  ASSUME Typed, Counted, NEW answer, FetchSitemap(answer) \/ FetchCrawled(answer)
  PROVE  Counted'
<1>1. Seed.domain \in Domains /\ \A u : Allowed(u) => u \in Urls
  BY SeedTyped DEF FetchSitemap, FetchCrawled, Typed, InDomain
<1>2. UNCHANGED <<emitted, known>>
  BY DEF FetchSitemap, FetchCrawled
<1>3. CASE items' = items
  BY <1>2, <1>3, SameCount
<1>4. CASE FetchSitemap(answer) /\ items' # items
  <2> DEFINE entry == Head(sitemapQueue)
  <2>1. RecordFailure(entry.url, entry.source, FailureStatus(answer, "sitemap_failed"))
    BY <1>4 DEF FetchSitemap
  <2>2. entry.url \in Urls
    BY <1>1, <1>4 DEF FetchSitemap
  <2>3. entry \in Entry
    BY <1>4, HeadTailProperties DEF FetchSitemap, MoreSitemaps, Typed, DiscoveryTypeOK
  <2>4. FailureStatus(answer, "sitemap_failed") \in FailureStatuses
    BY FailureStatusTyped DEF FailureStatuses
  <2>5. entry.source \in Origins
    BY <2>3 DEF Entry
  <2>6. QED
    BY <1>1, <1>2, <2>1, <2>2, <2>4, <2>5, FailureCounted
<1>5. CASE FetchCrawled(answer) /\ items' # items
  <2> DEFINE entry == Head(queue)
  <2>1. RecordFailure(entry.url, entry.source, FailureStatus(answer, CrawlFailure(entry)))
    BY <1>5 DEF FetchCrawled
  <2>2. entry.url \in Urls
    BY <1>1, <1>5 DEF FetchCrawled
  <2>3. entry \in Entry
    BY <1>5, HeadTailProperties DEF FetchCrawled, MorePages, Typed, DiscoveryTypeOK
  <2>4. CrawlFailure(entry) \in FailureStatuses
    BY DEF CrawlFailure, FailureStatuses
  <2>5. FailureStatus(answer, CrawlFailure(entry)) \in FailureStatuses
    BY <2>4, FailureStatusTyped
  <2>6. entry.source \in Origins
    BY <2>3 DEF Entry
  <2>7. QED
    BY <1>1, <1>2, <2>1, <2>2, <2>5, <2>6, FailureCounted
<1>6. QED
  BY <1>3, <1>4, <1>5

\* Reading a link emits at most that link.
LEMMA LinkCounted ==
  ASSUME Typed, Emitting, ReadLocation \/ ReadLink
  PROVE  Counted'
<1>1. /\ Seed.domain \in Domains /\ links \in Seq(Link) /\ links # <<>>
      /\ current \in Entry /\ dpc \in InDomain
  BY SeedTyped DEF ReadLocation, ReadLink, Typed, DiscoveryTypeOK, InDomain
<1>2. Head(links) \in Link
  BY <1>1, HeadTailProperties
<1>3. /\ known' = known
      /\ Consider(Head(links), current) \/ UNCHANGED <<emitted, items>>
  BY DEF ReadLocation, ReadLink
<1>4. QED
  BY <1>1, <1>2, <1>3, ConsiderCounted, SameCount DEF Emitting

\* Every step of discovery keeps what is emitted new, counted and in bounds.
LEMMA DiscoveryKeepsEmitting ==
  ASSUME Typed, Emitting, DiscoveryNext
  PROVE  Emitting'
<1>0. Target \in Nat /\ Cardinality(emitted) \in Nat /\ 0 < Target
  BY FS_CardinalityType, DiscoveryConstants DEF Emitting, Counted
<1>1. CASE \/ \E file \in SeedFiles : StartDiscovery(file)
           \/ Report \/ DiscoveryDies
  <2>1. emitted' = {} /\ items' = <<>> /\ dpc' \in {"idle", "seed"}
    BY <1>1 DEF StartDiscovery, Report, DiscoveryDies, DiscoveryEnds
  <2>2. QED
    BY <2>1, NothingCounted DEF Emitting, InDomain
<1>2. CASE BeginDomain
  <2>1. Seed.domain \in Domains
    BY <1>2, SeedTyped DEF BeginDomain
  <2>2. UNCHANGED <<emitted, known>> /\ Cardinality(emitted) < Target
    BY <1>0, <1>2 DEF BeginDomain, TargetReached
  <2>3. \/ RecordFailure(FrontPage[Seed.domain], "robots_txt", "robots_failed")
        \/ UNCHANGED items
    BY <1>2 DEF BeginDomain
  <2>4. /\ FrontPage[Seed.domain] \in Urls
        /\ "robots_txt" \in Origins /\ "robots_failed" \in FailureStatuses
    BY <2>1, DiscoveryConstants DEF Origins, FailureStatuses
  <2>5. Counted'
    BY <2>1, <2>2, <2>3, <2>4, FailureCounted, SameCount DEF Emitting
  <2>6. QED
    BY <2>2, <2>5 DEF Emitting
<1>3. CASE \/ ReadDeclared \/ EndDeclared \/ SkipSitemap \/ SkipPage \/ EndLocations
           \/ EndLinks \/ BeginCrawl \/ EndCrawl
  <2>1. UNCHANGED <<emitted, known, items>> /\ dpc \in InDomain
    BY <1>3 DEF ReadDeclared, EndDeclared, SkipSitemap, SkipPage, EndLocations, EndLinks,
                BeginCrawl, EndCrawl, runVars, InDomain
  <2>2. QED
    BY <2>1, SameCount DEF Emitting
<1>4. CASE \E answer \in AnswerKinds : FetchSitemap(answer) \/ FetchCrawled(answer)
  <2>1. UNCHANGED emitted /\ dpc \in InDomain
    BY <1>4 DEF FetchSitemap, FetchCrawled, InDomain
  <2>2. QED
    BY <1>4, <2>1, FetchCounted DEF Emitting
<1>5. CASE ReadLocation \/ ReadLink
  <2>1. Counted'
    BY <1>5, LinkCounted
  <2>2. dpc' = "seed" \/ ~ (Cardinality(emitted') >= Target)
    BY <1>5 DEF ReadLocation, ReadLink, EndDomain
  <2>3. Cardinality(emitted') \in Nat
    BY <2>1, FS_CardinalityType DEF Counted
  <2>4. QED
    BY <1>0, <2>1, <2>2, <2>3 DEF Emitting, InDomain
<1>6. QED
  BY <1>1, <1>2, <1>3, <1>4, <1>5 DEF DiscoveryNext, DiscoveryStep

(***************************************************************************)
(* Pages                                                                   *)
(***************************************************************************)

\* A fetch changes its own row at most, and never removes it; a row it writes
\* is of the command that fetched, and there if the fetch was recorded.
LEMMA FetchedPage ==
  ASSUME PagesTypeOK, NEW u \in Urls, NEW type \in {"discovery", "official_program"},
         NEW answer, FetchPage(u, type, answer)
  PROVE  /\ PagesTypeOK'
         /\ \A v \in Urls : pages[v] # None => pages'[v] # None
         /\ \A v \in Urls : \/ pages'[v] = pages[v]
                            \/ v = u /\ pages'[v] # None /\ pages'[v].type = type
                                /\ pages'[v].ok = (answer = "page")
         /\ answer = "page" => pages'[u] # None
<1>1. CASE pages' = pages /\ (answer = "page" => pages[u] # None)
  BY <1>1 DEF PagesTypeOK
<1>2. CASE \E reached \in {u, FinalOf[u]} :
             pages' = [pages EXCEPT ![u] =
                         [ok |-> answer = "page", final |-> reached, type |-> type]]
  <2>1. PICK reached \in {u, FinalOf[u]} :
          pages' = [pages EXCEPT ![u] =
                      [ok |-> answer = "page", final |-> reached, type |-> type]]
    BY <1>2
  <2> DEFINE row == [ok |-> answer = "page", final |-> reached, type |-> type]
  <2>2. row \in Row
    <3>1. reached \in Urls /\ (answer = "page") \in BOOLEAN
      BY JobPagesConstants
    <3>2. QED
      BY <3>1 DEF Row
  <2>3. row.type = type /\ row.ok = (answer = "page")
    OBVIOUS
  <2>4. pages' = [pages EXCEPT ![u] = row]
    BY <2>1
  <2> HIDE DEF row
  <2>5. row # None
    BY <2>2, NoneIsNoRow
  <2>6. \A v \in Urls : pages'[v] = IF v = u THEN row ELSE pages[v]
    BY <2>4 DEF PagesTypeOK
  <2>7. PagesTypeOK'
    BY <2>2, <2>4 DEF PagesTypeOK
  <2>8. QED
    BY <2>3, <2>5, <2>6, <2>7
<1>3. QED
  BY <1>1, <1>2 DEF FetchPage

\* Discovery removes no page and makes none that looks like a batch's.
LEMMA DiscoveryKeepsPages ==
  ASSUME Typed, PagesTypeOK, DiscoveryNext
  PROVE  /\ PagesTypeOK'
         /\ \A v \in Urls : pages[v] # None => pages'[v] # None
         /\ \A v \in Urls : \/ pages'[v] = pages[v]
                            \/ pages'[v] # None /\ pages'[v].type = "discovery"
<1>1. CASE UNCHANGED pages
  BY <1>1 DEF PagesTypeOK
<1>2. CASE \E answer \in AnswerKinds : FetchSitemap(answer)
  <2>1. \A u : Allowed(u) => u \in Urls
    BY <1>2, SeedTyped DEF FetchSitemap, Typed, InDomain
  <2>2. \E u \in Urls, answer \in AnswerKinds : FetchPage(u, "discovery", answer)
    BY <1>2, <2>1 DEF FetchSitemap
  <2>3. QED
    BY <2>2, FetchedPage
<1>3. CASE \E answer \in AnswerKinds : FetchCrawled(answer)
  <2>1. \A u : Allowed(u) => u \in Urls
    BY <1>3, SeedTyped DEF FetchCrawled, Typed, InDomain
  <2>2. \E u \in Urls, answer \in AnswerKinds : FetchPage(u, "discovery", answer)
    BY <1>3, <2>1 DEF FetchCrawled
  <2>3. QED
    BY <2>2, FetchedPage
<1>4. QED
  BY <1>1, <1>2, <1>3 DEF DiscoveryNext, DiscoveryStep

(***************************************************************************)
(* The batch                                                               *)
(***************************************************************************)

\* The variables are typed, an extraction is of a row, and an idle command
\* holds nothing.
RowsTyped ==
  /\ BatchTypeOK
  /\ bpc = "extract" => MoreRows
  /\ bpc = "idle" => DOMAIN rows = {} /\ DOMAIN results = {}

\* The addresses of the rows to do and of the rows done are all different.
RowsDiffer ==
  /\ \A m, n \in DOMAIN rows : rows[m] = rows[n] => m = n
  /\ \A m, n \in DOMAIN results : results[m].url = results[n].url => m = n
  /\ \A m \in DOMAIN rows, n \in DOMAIN results : rows[m] # results[n].url

\* What was extracted has a page, so later batches know it; a row to be done
\* that was not known when the batch began was never extracted.
ExtractedOnce ==
  /\ \A u \in Urls : attempts[u] <= 1
  /\ \A u \in Urls : attempts[u] > 0 => pages[u] # None
  /\ \A n \in DOMAIN rows : rows[n] \notin existing => attempts[rows[n]] = 0
  /\ bpc = "extract" => Address \notin existing /\ pages[Address] # None

\* The row being worked on has an address.
LEMMA CurrentRow ==
  ASSUME RowsTyped, MoreRows
  PROVE  FirstRow(rows) \in DOMAIN rows /\ Address \in Urls
BY RowsLeft DEF RowsTyped, BatchTypeOK, MoreRows, Address

\* Recording a row keeps the types.
LEMMA RecordTyped ==
  ASSUME RowsTyped, MoreRows, NEW status \in ResultStatuses, Record(status),
         UNCHANGED <<existing, batches>>, candidates' \subseteq Urls,
         attempts' \in [Urls -> Nat], cutShort' \subseteq Urls
  PROVE  RowsTyped'
<1> DEFINE new == [url |-> Address, status |-> status]
<1>1. FirstRow(rows) \in DOMAIN rows /\ new \in [url: Urls, status: ResultStatuses]
  BY CurrentRow
<1>2. /\ DOMAIN rows \subseteq Nat /\ Range(rows) \subseteq Urls
      /\ DOMAIN results \subseteq Nat /\ Range(results) \subseteq [url: Urls, status: ResultStatuses]
  BY DEF RowsTyped, BatchTypeOK
<1>3. DOMAIN rows' \subseteq Nat /\ Range(rows') \subseteq Urls
  <2>1. rows' = OtherRows(rows)
    BY DEF Record
  <2>2. DOMAIN OtherRows(rows) = DOMAIN rows \ {FirstRow(rows)} /\ Range(OtherRows(rows)) \subseteq Urls
    BY <1>2, RowsLeft
  <2>3. QED
    BY <1>2, <2>1, <2>2
<1>4. DOMAIN results' \subseteq Nat /\ Range(results') \subseteq [url: Urls, status: ResultStatuses]
  <2>1. results' = [n \in DOMAIN results \cup {FirstRow(rows)} |->
                     IF n = FirstRow(rows) THEN new ELSE results[n]]
    BY DEF Record
  <2> HIDE DEF new
  <2>2. QED
    BY <1>1, <1>2, <2>1 DEF Range
<1>5. bpc' = "row"
  BY DEF Record
<1>6. QED
  BY <1>3, <1>4, <1>5 DEF RowsTyped, BatchTypeOK

\* Recording a row moves its address from the rows to do to those done.
LEMMA RecordDiffers ==
  ASSUME RowsTyped, MoreRows, RowsDiffer, NEW status, Record(status)
  PROVE  RowsDiffer'
<1>1. FirstRow(rows) \in DOMAIN rows /\ Address = rows[FirstRow(rows)]
  BY CurrentRow DEF Address
<1>2. /\ DOMAIN rows' = DOMAIN rows \ {FirstRow(rows)}
      /\ \A n \in DOMAIN rows' : rows'[n] = rows[n]
  <2>1. DOMAIN rows \subseteq Nat /\ Range(rows) \subseteq Urls
    BY DEF RowsTyped, BatchTypeOK
  <2>2. QED
    BY <2>1, RowsLeft DEF Record
<1>3. /\ DOMAIN results' = DOMAIN results \cup {FirstRow(rows)}
      /\ \A n \in DOMAIN results' : results'[n].url =
            IF n = FirstRow(rows) THEN Address ELSE results[n].url
  BY DEF Record
<1>4. QED
  BY <1>1, <1>2, <1>3 DEF RowsDiffer

\* The rows that follow the current one.
LEMMA OthersLeft ==
  ASSUME RowsTyped
  PROVE  /\ DOMAIN OtherRows(rows) = DOMAIN rows \ {FirstRow(rows)}
         /\ \A n \in DOMAIN OtherRows(rows) : OtherRows(rows)[n] = rows[n]
<1>1. DOMAIN rows \subseteq Nat /\ Range(rows) \subseteq Urls
  BY DEF RowsTyped, BatchTypeOK
<1>2. QED
  BY <1>1, RowsLeft

\* A command that ends leaves no rows behind.
LEMMA EndTyped ==
  ASSUME RowsTyped, BatchEnds, UNCHANGED <<candidates, batches, attempts>>, cutShort' \subseteq Urls
  PROVE  RowsTyped' /\ RowsDiffer' /\ DOMAIN rows' = {} /\ bpc' = "idle"
<1>1. DOMAIN rows' = {} /\ Range(rows') = {} /\ DOMAIN results' = {} /\ Range(results') = {}
  BY DEF BatchEnds, Range
<1>2. QED
  BY <1>1 DEF RowsTyped, BatchTypeOK, RowsDiffer, BatchEnds

\* The rows of an input file, or of the report of a discovery, are addresses,
\* each of them once.
LEMMA FileTyped ==
  ASSUME Typed, NEW file \in BatchFiles \cup {reported}, None \notin Range(file)
  PROVE  /\ DOMAIN UniqueRows(file) \subseteq Nat /\ Range(UniqueRows(file)) \subseteq Urls
         /\ \A m, n \in DOMAIN UniqueRows(file) :
               UniqueRows(file)[m] = UniqueRows(file)[n] => m = n
<1>1. DOMAIN file \subseteq Nat /\ \A n \in DOMAIN file : file[n] \in Urls
  <2>1. CASE file = reported
    BY <2>1 DEF Typed, DiscoveryTypeOK, Range
  <2>2. CASE file \in BatchFiles
    <3>1. file \in Seq(Urls \cup {None})
      BY <2>2, BatchConstants
    <3>2. DOMAIN file \subseteq Nat /\ \A n \in DOMAIN file : file[n] \in Urls \cup {None}
      BY <3>1, ElementOfSeq, LenProperties
    <3>3. QED
      BY <3>2 DEF Range
  <2>3. QED
    BY <2>1, <2>2
<1>2. \A m, n \in FirstRows(file) : file[m] = file[n] => m = n
  BY <1>1, KeysDiffer
<1>3. FirstRows(file) \subseteq DOMAIN file
  BY DEF FirstRows
<1>4. QED
  BY <1>1, <1>2, <1>3 DEF UniqueRows, Restrict, Range

\* The types, the different rows, and what was extracted, together.
BatchInv == RowsTyped /\ RowsDiffer /\ ExtractedOnce /\ PagesAreExtracted

\* A batch starts with rows of its own, none extracted unless known.
LEMMA BatchStarts ==
  ASSUME PagesTypeOK, Typed, BatchInv, NEW file \in BatchFiles \cup {reported},
         StartBatch(file), UNCHANGED pages
  PROVE  BatchInv'
<1>1. /\ bpc = "idle" /\ bpc' = "row" /\ rows' = UniqueRows(file) /\ existing' = KnownUrls
      /\ batches < MaxBatches /\ batches' = batches + 1
      /\ UNCHANGED <<results, candidates, attempts, cutShort>>
  BY DEF StartBatch
<1>2. /\ DOMAIN rows' \subseteq Nat /\ Range(rows') \subseteq Urls
      /\ \A m, n \in DOMAIN rows' : rows'[m] = rows'[n] => m = n
  BY <1>1, FileTyped DEF StartBatch
<1>3. KnownUrls \subseteq Urls /\ \A u \in Urls : pages[u] # None => u \in KnownUrls
  BY DEF KnownUrls, PagesTypeOK, Row
<1>4. DOMAIN results = {}
  BY <1>1 DEF BatchInv, RowsTyped
<1>5. batches' \in 0..MaxBatches
  BY <1>1, BatchConstants DEF BatchInv, RowsTyped, BatchTypeOK
<1>6. RowsTyped'
  BY <1>1, <1>2, <1>3, <1>5 DEF BatchInv, RowsTyped, BatchTypeOK
<1>7. RowsDiffer'
  BY <1>1, <1>2, <1>4 DEF RowsDiffer
<1>8. \A n \in DOMAIN rows' : rows'[n] \in Urls
  BY <1>2 DEF Range
<1>9. ExtractedOnce'
  BY <1>1, <1>3, <1>8 DEF BatchInv, RowsTyped, BatchTypeOK, ExtractedOnce
<1>10. PagesAreExtracted'
  BY <1>1 DEF BatchInv, PagesAreExtracted
<1>11. QED
  BY <1>6, <1>7, <1>9, <1>10 DEF BatchInv

\* A row that is known is reported only.
LEMMA ExistingRowKept ==
  ASSUME BatchInv, ExistingRow, UNCHANGED pages
  PROVE  BatchInv'
<1>1. /\ MoreRows /\ Record("already_existing") /\ bpc = "row" /\ bpc' = "row"
      /\ UNCHANGED <<existing, candidates, batches, attempts, cutShort>>
  BY DEF ExistingRow, Record
<1>2. RowsTyped' /\ RowsDiffer'
  BY <1>1, RecordTyped, RecordDiffers DEF BatchInv, RowsTyped, BatchTypeOK, ResultStatuses
<1>3. /\ DOMAIN rows' \subseteq DOMAIN rows
      /\ \A n \in DOMAIN rows' : rows'[n] = rows[n]
  BY <1>1, OthersLeft DEF BatchInv, Record
<1>4. ExtractedOnce'
  BY <1>1, <1>3 DEF BatchInv, ExtractedOnce
<1>5. PagesAreExtracted'
  BY <1>1 DEF BatchInv, PagesAreExtracted
<1>6. QED
  BY <1>2, <1>4, <1>5 DEF BatchInv

\* A fetched page is about to be extracted, or is no page; unless its fetch
\* was not recorded, which leaves no page either.
LEMMA RowFetched ==
  ASSUME PagesTypeOK, BatchInv, NEW answer, FetchRow(answer)
  PROVE  PagesTypeOK' /\ BatchInv'
<1>1. /\ MoreRows /\ bpc = "row" /\ Address \notin existing
      /\ FetchPage(Address, "official_program", answer)
      /\ UNCHANGED <<candidates, batches, attempts, cutShort>>
  BY DEF FetchRow
<1>2. FirstRow(rows) \in DOMAIN rows /\ Address \in Urls /\ Address = rows[FirstRow(rows)]
  BY <1>1, CurrentRow DEF BatchInv, Address
<1>3. /\ PagesTypeOK'
      /\ \A v \in Urls : pages[v] # None => pages'[v] # None
      /\ \A v \in Urls : \/ pages'[v] = pages[v]
                         \/ v = Address /\ pages'[v] # None /\ pages'[v].ok = (answer = "page")
      /\ answer = "page" => pages'[Address] # None
  BY <1>1, <1>2, FetchedPage
<1>4. \A u \in Urls : attempts'[u] <= 1 /\ (attempts'[u] > 0 => pages'[u] # None)
  BY <1>1, <1>3 DEF BatchInv, ExtractedOnce
<1>5. CASE answer = "unrecorded"
  <2>1. BatchEnds
    BY <1>5 DEF FetchRow
  <2>2. ASSUME NEW u \in Urls, pages'[u] # None, pages'[u].ok, pages'[u].type = "official_program"
        PROVE  attempts'[u] > 0 \/ u \in cutShort'
    BY <1>1, <1>3, <1>5, <2>2 DEF BatchInv, PagesAreExtracted
  <2>3. RowsTyped' /\ RowsDiffer' /\ DOMAIN rows' = {} /\ bpc' = "idle"
    BY <1>1, <2>1, EndTyped DEF BatchInv, RowsTyped, BatchTypeOK
  <2>4. ExtractedOnce'
    BY <1>4, <2>3 DEF ExtractedOnce
  <2>5. PagesAreExtracted'
    BY <2>2 DEF PagesAreExtracted
  <2>6. QED
    BY <1>3, <2>3, <2>4, <2>5 DEF BatchInv
<1>6. CASE answer = "page"
  <2>1. bpc' = "extract" /\ UNCHANGED <<rows, results, existing>>
    BY <1>6 DEF FetchRow, Served
  <2>2. Address' = Address
    BY <2>1 DEF Address
  <2>3. RowsTyped' /\ RowsDiffer'
    BY <1>1, <2>1 DEF BatchInv, RowsTyped, BatchTypeOK, RowsDiffer, MoreRows
  <2>4. ExtractedOnce'
    BY <1>1, <1>3, <1>4, <1>6, <2>1, <2>2 DEF BatchInv, ExtractedOnce
  <2>5. PagesAreExtracted'
    BY <1>1, <1>3, <2>1, <2>2 DEF BatchInv, PagesAreExtracted
  <2>6. QED
    BY <1>3, <2>3, <2>4, <2>5 DEF BatchInv
<1>7. CASE answer \notin {"page", "unrecorded"}
  <2>1. Record("fetch_failed") /\ UNCHANGED existing /\ bpc' = "row"
    BY <1>7 DEF FetchRow, Served, Record
  <2>2. RowsTyped' /\ RowsDiffer'
    BY <1>1, <2>1, RecordTyped, RecordDiffers DEF BatchInv, RowsTyped, BatchTypeOK, ResultStatuses
  <2>3. /\ DOMAIN rows' \subseteq DOMAIN rows
        /\ \A n \in DOMAIN rows' : rows'[n] = rows[n]
    BY <2>1, OthersLeft DEF BatchInv, Record
  <2>4. ExtractedOnce'
    BY <1>1, <1>4, <2>1, <2>3 DEF BatchInv, ExtractedOnce
  <2>5. PagesAreExtracted'
    BY <1>1, <1>3, <1>7, <2>1 DEF BatchInv, PagesAreExtracted
  <2>6. QED
    BY <1>3, <2>2, <2>4, <2>5 DEF BatchInv
<1>8. QED
  BY <1>5, <1>6, <1>7

\* An extraction is the first of its address.
LEMMA RowExtracted ==
  ASSUME BatchInv, NEW readable, ExtractRow(readable), UNCHANGED pages
  PROVE  BatchInv'
<1>1. /\ bpc = "extract" /\ MoreRows /\ attempts' = [attempts EXCEPT ![Address] = @ + 1]
      /\ UNCHANGED <<existing, batches, cutShort>>
  BY DEF ExtractRow, BatchInv, RowsTyped
<1>2. PICK status \in ResultStatuses : Record(status)
  BY DEF ExtractRow, ResultStatuses
<1>3. FirstRow(rows) \in DOMAIN rows /\ Address \in Urls /\ Address = rows[FirstRow(rows)]
  BY <1>1, CurrentRow DEF BatchInv, Address
<1>4. attempts \in [Urls -> Nat] /\ attempts[Address] = 0
  BY <1>1, <1>3 DEF BatchInv, ExtractedOnce, RowsTyped, BatchTypeOK
<1>5. /\ attempts' \in [Urls -> Nat] /\ attempts'[Address] = 1
      /\ \A u \in Urls : u # Address => attempts'[u] = attempts[u]
  BY <1>1, <1>3, <1>4
<1>6. candidates' \subseteq Urls
  BY <1>3 DEF ExtractRow, BatchInv, RowsTyped, BatchTypeOK
<1>7. RowsTyped' /\ RowsDiffer'
  BY <1>1, <1>2, <1>5, <1>6, RecordTyped, RecordDiffers DEF BatchInv, RowsTyped, BatchTypeOK
<1>8. /\ DOMAIN rows' = DOMAIN rows \ {FirstRow(rows)}
      /\ \A n \in DOMAIN rows' : rows'[n] = rows[n]
  BY <1>1, <1>2, OthersLeft DEF BatchInv, Record
<1>9. \A n \in DOMAIN rows' : rows'[n] # Address /\ rows'[n] \in Urls
  BY <1>3, <1>8 DEF BatchInv, RowsDiffer, RowsTyped, BatchTypeOK, Range
<1>10. bpc' = "row"
  BY <1>2 DEF Record
<1>11. ExtractedOnce'
  BY <1>1, <1>3, <1>5, <1>8, <1>9, <1>10 DEF BatchInv, ExtractedOnce
<1>12. PagesAreExtracted'
  BY <1>1, <1>3, <1>5, <1>10 DEF BatchInv, PagesAreExtracted
<1>13. QED
  BY <1>7, <1>11, <1>12 DEF BatchInv

\* Between a page and its extraction only a death can come, and it is noted.
LEMMA BatchEndsKept ==
  ASSUME BatchInv, FinishBatch \/ BatchDies, UNCHANGED pages
  PROVE  BatchInv'
<1>1. /\ BatchEnds /\ UNCHANGED <<candidates, batches, attempts>>
      /\ cutShort \subseteq cutShort'
      /\ bpc = "extract" => Address \in cutShort'
  BY DEF FinishBatch, BatchDies
<1>2. cutShort' \subseteq Urls
  BY CurrentRow DEF FinishBatch, BatchDies, BatchInv, RowsTyped, BatchTypeOK
<1>3. RowsTyped' /\ RowsDiffer' /\ DOMAIN rows' = {} /\ bpc' = "idle"
  BY <1>1, <1>2, EndTyped DEF BatchInv
<1>4. ExtractedOnce'
  BY <1>1, <1>3 DEF BatchInv, ExtractedOnce
<1>5. PagesAreExtracted'
  BY <1>1 DEF BatchInv, PagesAreExtracted
<1>6. QED
  BY <1>3, <1>4, <1>5 DEF BatchInv

\* What discovery does to the pages is harmless to the batch.
LEMMA DiscoveryKeepsBatch ==
  ASSUME Typed, PagesTypeOK, BatchInv, DiscoveryNext, UNCHANGED batchVars
  PROVE  BatchInv'
<1>1. UNCHANGED <<bpc, rows, existing, results, candidates, batches, attempts, cutShort>>
  BY DEF batchVars, batchLocals
<1>2. /\ \A v \in Urls : pages[v] # None => pages'[v] # None
      /\ \A v \in Urls : \/ pages'[v] = pages[v]
                         \/ pages'[v] # None /\ pages'[v].type = "discovery"
  BY DiscoveryKeepsPages
<1>3. Address' = Address /\ (bpc = "extract" => Address \in Urls)
  BY <1>1, CurrentRow DEF BatchInv, RowsTyped, Address
<1>4. RowsTyped' /\ RowsDiffer'
  BY <1>1 DEF BatchInv, RowsTyped, BatchTypeOK, RowsDiffer, MoreRows
<1>5. ExtractedOnce'
  BY <1>1, <1>2, <1>3 DEF BatchInv, ExtractedOnce
<1>6. PagesAreExtracted'
  BY <1>1, <1>2, <1>3 DEF BatchInv, PagesAreExtracted
<1>7. QED
  BY <1>4, <1>5, <1>6 DEF BatchInv

(***************************************************************************)
(* Both                                                                    *)
(***************************************************************************)
CollectionInv == PagesTypeOK /\ Typed /\ Bounded /\ Emitting /\ BatchInv

\* Nothing has run.
LEMMA CollectionStarts == Init => CollectionInv
<1> SUFFICES ASSUME Init PROVE CollectionInv
  OBVIOUS
<1>1. PagesTypeOK /\ \A u \in Urls : pages[u] = None
  BY DEF Init, PagesInit, PagesTypeOK
<1>2. Typed /\ Bounded
  BY DiscoveryStartsTyped, StartBounded DEF Init
<1>3. Emitting
  <2>1. emitted = {} /\ CandidateRows = {} /\ dpc = "idle" /\ 0 <= Target
    BY DiscoveryConstants DEF Init, DiscoveryInit, CandidateRows
  <2>2. QED
    BY <2>1, FS_EmptySet DEF Emitting, Counted, InDomain
<1>4. /\ bpc = "idle" /\ DOMAIN rows = {} /\ DOMAIN results = {} /\ existing = {}
      /\ candidates = {} /\ batches = 0 /\ attempts = [u \in Urls |-> 0] /\ cutShort = {}
  BY DEF Init, BatchInit, BatchIdle
<1>5. RowsTyped
  BY <1>4, BatchConstants DEF RowsTyped, BatchTypeOK, Range
<1>6. RowsDiffer /\ ExtractedOnce
  BY <1>4 DEF RowsDiffer, ExtractedOnce
<1>7. PagesAreExtracted
  BY <1>1 DEF PagesAreExtracted
<1>8. QED
  BY <1>1, <1>2, <1>3, <1>5, <1>6, <1>7 DEF CollectionInv, BatchInv

\* A step of the batch does not disturb discovery.
LEMMA BatchKeepsInv ==
  ASSUME CollectionInv, BatchActs
  PROVE  CollectionInv'
<1>1. UNCHANGED <<dpc, seeds, known, emitted, items, sitemapQueue, checked, queue, crawled,
                  requests, opened, current, links, reported, discoveries>>
  BY DEF BatchActs, discoveryVars, runVars, domainVars, linkVars
<1>2. Typed' /\ Bounded' /\ Emitting'
  <2>1. Typed'
    BY <1>1 DEF CollectionInv, Typed, DiscoveryTypeOK, MoreSeeds
  <2>2. Bounded'
    BY <1>1 DEF CollectionInv, Bounded, MoreSeeds, Allowed, Seed
  <2>3. Emitting'
    BY <1>1 DEF CollectionInv, Emitting, Counted, CandidateRows
  <2>4. QED
    BY <2>1, <2>2, <2>3
<1>3. CASE \E file \in BatchFiles \cup {reported} : StartBatch(file) /\ UNCHANGED pages
  BY <1>2, <1>3, BatchStarts DEF CollectionInv, PagesTypeOK
<1>4. CASE \E answer \in AnswerKinds : FetchRow(answer)
  BY <1>2, <1>4, RowFetched DEF CollectionInv
<1>5. CASE ExistingRow /\ UNCHANGED pages
  BY <1>2, <1>5, ExistingRowKept DEF CollectionInv, PagesTypeOK
<1>6. CASE (\E readable \in BOOLEAN : ExtractRow(readable)) /\ UNCHANGED pages
  BY <1>2, <1>6, RowExtracted DEF CollectionInv, PagesTypeOK
<1>7. CASE (FinishBatch \/ BatchDies) /\ UNCHANGED pages
  BY <1>2, <1>7, BatchEndsKept DEF CollectionInv, PagesTypeOK
<1>8. QED
  BY <1>3, <1>4, <1>5, <1>6, <1>7 DEF BatchActs, BatchStep

\* A step of discovery does not disturb the batch.
LEMMA DiscoveryKeepsInv ==
  ASSUME CollectionInv, DiscoveryActs
  PROVE  CollectionInv'
<1>1. DiscoveryNext /\ UNCHANGED batchVars
  BY DEF DiscoveryActs
<1>2. Typed' /\ Bounded' /\ Emitting'
  BY <1>1, DiscoveryKeepsTypes, DiscoveryKeepsBounds, DiscoveryKeepsEmitting DEF CollectionInv
<1>3. PagesTypeOK'
  BY <1>1, DiscoveryKeepsPages DEF CollectionInv
<1>4. BatchInv'
  BY <1>1, DiscoveryKeepsBatch DEF CollectionInv
<1>5. QED
  BY <1>2, <1>3, <1>4 DEF CollectionInv

\* Nor does a step of neither.
LEMMA StutterKeepsInv ==
  ASSUME CollectionInv, UNCHANGED vars
  PROVE  CollectionInv'
<1>1. UNCHANGED <<dpc, seeds, known, emitted, items, sitemapQueue, checked, queue, crawled,
                  requests, opened, current, links, reported, discoveries>>
  BY DEF vars, discoveryVars, runVars, domainVars, linkVars
<1>2. UNCHANGED <<pages, bpc, rows, existing, results, candidates, batches, attempts, cutShort>>
  BY DEF vars, batchVars, batchLocals
<1>3. PagesTypeOK' /\ Typed'
  BY <1>1, <1>2 DEF CollectionInv, PagesTypeOK, Typed, DiscoveryTypeOK, MoreSeeds
<1>4. Bounded' /\ Emitting'
  BY <1>1 DEF CollectionInv, Bounded, MoreSeeds, Allowed, Seed, Emitting, Counted, CandidateRows
<1>5. RowsTyped' /\ RowsDiffer'
  BY <1>2 DEF CollectionInv, BatchInv, RowsTyped, BatchTypeOK, RowsDiffer, MoreRows
<1>6. ExtractedOnce' /\ PagesAreExtracted'
  BY <1>2 DEF CollectionInv, BatchInv, ExtractedOnce, PagesAreExtracted, Address
<1>7. QED
  BY <1>3, <1>4, <1>5, <1>6 DEF CollectionInv, BatchInv

\* What both commands rely on holds throughout, however they interleave, die
\* and are started again.
THEOREM CollectionInvariant == Spec => []CollectionInv
<1>1. CollectionInv /\ [Next]_vars => CollectionInv'
  BY DiscoveryKeepsInv, BatchKeepsInv, StutterKeepsInv DEF Next
<1>2. QED
  BY CollectionStarts, <1>1, PTL DEF Spec

\* The variables of both commands keep their types: queue entries are entries,
\* rows are addresses, report rows have a status of the code's.
THEOREM CollectionTypesCorrect == Spec => []CollectionTypeOK
<1>1. CollectionInv => CollectionTypeOK
  BY DEF CollectionInv, Typed, BatchInv, RowsTyped, CollectionTypeOK
<1>2. QED
  BY CollectionInvariant, <1>1, PTL

\* Discovery reports an address at most once per run, none that the job had,
\* and no more than the target, whatever the sites repeat (_consider and the
\* target tests of the loops).
THEOREM DiscoveryEmitsNew == Spec => []EmittedAreNew
<1>1. CollectionInv => EmittedAreNew
  BY DEF CollectionInv, Emitting, Counted, EmittedAreNew
<1>2. QED
  BY CollectionInvariant, <1>1, PTL

\* A domain costs discovery at most max_sitemaps + max_pages fetches, each of
\* an address allowed for the domain, however its pages link to each other.
THEOREM DiscoveryIsBounded == Spec => []FetchesBounded
<1>1. CollectionInv => FetchesBounded
  BY BoundsSuffice DEF CollectionInv
<1>2. QED
  BY CollectionInvariant, <1>1, PTL

\* No address is given to the extractor twice, over all batches, however they
\* end and whatever discovery fetches meanwhile; no report repeats an address.
THEOREM RerunsCollectOnce == Spec => []CollectedOnce
<1>1. CollectionInv => CollectedOnce
  BY DEF CollectionInv, BatchInv, ExtractedOnce, RowsDiffer, CollectedOnce
<1>2. QED
  BY CollectionInvariant, <1>1, PTL

\* A page a batch fetched was extracted, is about to be, or its batch died in
\* between; no other way leaves a batch's page without its extraction.
THEOREM FetchedPagesExtracted == Spec => []PagesAreExtracted
<1>1. CollectionInv => PagesAreExtracted
  BY DEF CollectionInv, BatchInv
<1>2. QED
  BY CollectionInvariant, <1>1, PTL

(***************************************************************************)
(* The commands run out of steps                                           *)
(***************************************************************************)

\* Each row is fetched and extracted at most once; then the report is written.
BatchStepsLeft ==
  CASE bpc = "idle" -> 0
    [] bpc = "row" -> 2 * Cardinality(DOMAIN rows) + 1
    [] bpc = "extract" -> 2 * Cardinality(DOMAIN rows)

\* The loops of a domain come one after the other.
Stage ==
  CASE dpc = "idle" -> 0
    [] dpc = "seed" -> 4
    [] dpc = "robots" -> 3
    [] dpc \in {"sitemaps", "locations"} -> 2
    [] dpc \in {"crawl", "links"} -> 1

\* Fetches the loop may still make.
FetchesLeft ==
  CASE dpc \in {"sitemaps", "locations"} -> MaxSitemaps - Cardinality(checked)
    [] dpc \in {"crawl", "links"} -> MaxPages - Cardinality(crawled)
    [] OTHER -> 0

\* Turns the loop takes without another fetch: an entry that waits may be
\* skipped, a link that is read may become an entry that waits.
TurnsLeft ==
  CASE dpc = "robots" -> Len(links)
    [] dpc = "sitemaps" -> Len(sitemapQueue)
    [] dpc = "locations" -> Len(sitemapQueue) + 2 * Len(links) + 1
    [] dpc = "crawl" -> Len(queue)
    [] dpc = "links" -> Len(queue) + 2 * Len(links) + 1
    [] OTHER -> 0

\* What discovery still has to do, the largest unit first.
Work == <<Cardinality(DOMAIN seeds), Stage, FetchesLeft, TurnsLeft>>

\* The lexicographic order.
Below(r, s) == \E i \in 1..4 : r[i] < s[i] /\ \A j \in 1..(i - 1) : r[j] = s[j]

\* Every step of either command brings its end nearer, and nothing that goes on
\* around it - the other command, a crash - puts it off.
CommandsRunOut ==
  /\ [](BatchStepsLeft \in Nat /\ Work \in Nat \X Nat \X Nat \X Nat)
  /\ [][/\ BatchStep => BatchStepsLeft' < BatchStepsLeft
        /\ DiscoveryStep => Below(Work', Work)
        /\ bpc # "idle" => BatchStepsLeft' <= BatchStepsLeft
        /\ dpc # "idle" => Below(Work', Work) \/ Work' = Work]_vars

\* Files are finite, and so is what is left of them.
FilesFinite ==
  /\ IsFiniteSet(DOMAIN rows)
  /\ IsFiniteSet(DOMAIN seeds)
  /\ IsFiniteSet(DOMAIN reported)

\* The rows of a sequence are finitely many.
LEMMA SeqFinite ==
  ASSUME NEW S, NEW s \in Seq(S)
  PROVE  IsFiniteSet(DOMAIN s)
<1>1. DOMAIN s = 1..Len(s) /\ Len(s) \in Nat
  BY LenProperties
<1>2. IsFiniteSet(1..Len(s))
  BY <1>1, FS_Interval
<1>3. QED
  BY <1>1, <1>2

\* Rows are only ever taken from a file, one after the other.
LEMMA NextFinite ==
  ASSUME CollectionInv, FilesFinite, [Next]_vars
  PROVE  FilesFinite'
<1>1. /\ DOMAIN OtherRows(seeds) \subseteq DOMAIN seeds
      /\ DOMAIN OtherRows(rows) \subseteq DOMAIN rows
  <2>1. DOMAIN seeds \subseteq Nat /\ Range(seeds) \subseteq SeedRow
    BY DEF CollectionInv, Typed, DiscoveryTypeOK
  <2>2. DOMAIN rows \subseteq Nat /\ Range(rows) \subseteq Urls
    BY DEF CollectionInv, BatchInv, RowsTyped, BatchTypeOK
  <2>3. QED
    BY <2>1, <2>2, RowsLeft
<1>2. \/ DOMAIN seeds' \subseteq DOMAIN seeds
      \/ \E file \in SeedFiles : StartDiscovery(file)
  <2>1. \/ seeds' \in {seeds, OtherRows(seeds), <<>>}
        \/ \E file \in SeedFiles : StartDiscovery(file)
    BY DEF Next, DiscoveryActs, BatchActs, DiscoveryNext, DiscoveryStep, BeginDomain,
           ReadDeclared, EndDeclared, SkipSitemap, FetchSitemap, ReadLocation, EndLocations,
           BeginCrawl, SkipPage, FetchCrawled, ReadLink, EndLinks, EndCrawl, EndDomain,
           Report, DiscoveryDies, DiscoveryEnds, vars, discoveryVars
  <2>2. QED
    BY <1>1, <2>1
<1>3. IsFiniteSet(DOMAIN seeds')
  <2>1. ASSUME NEW file \in SeedFiles, StartDiscovery(file)
        PROVE  IsFiniteSet(DOMAIN seeds')
    <3>1. file \in Seq(SeedRow) /\ seeds' = UniqueSeeds(file)
      BY <2>1, DiscoveryConstants DEF StartDiscovery
    <3>2. DOMAIN UniqueSeeds(file) \subseteq DOMAIN file
      BY DEF UniqueSeeds, Restrict, FirstRows
    <3>3. QED
      BY <3>1, <3>2, SeqFinite, FS_Subset
  <2>2. QED
    BY <1>2, <2>1, FS_Subset DEF FilesFinite
<1>4. IsFiniteSet(DOMAIN reported')
  <2>1. reported' = reported \/ Report
    BY DEF Next, DiscoveryActs, BatchActs, DiscoveryNext, DiscoveryStep, StartDiscovery,
           BeginDomain, ReadDeclared, EndDeclared, SkipSitemap, FetchSitemap, ReadLocation,
           EndLocations, BeginCrawl, SkipPage, FetchCrawled, ReadLink, EndLinks, EndCrawl,
           DiscoveryDies, vars, discoveryVars
  <2>2. CASE Report
    <3>1. DOMAIN reported' = CandidateRows /\ CandidateRows \subseteq DOMAIN items
      BY <2>2 DEF Report, CandidateRows
    <3>2. items \in Seq(Item)
      BY DEF CollectionInv, Typed, DiscoveryTypeOK
    <3>3. QED
      BY <3>1, <3>2, SeqFinite, FS_Subset
  <2>3. QED
    BY <2>1, <2>2 DEF FilesFinite
<1>5. IsFiniteSet(DOMAIN rows')
  <2>1. \/ rows' \in {rows, OtherRows(rows), <<>>}
        \/ \E file \in BatchFiles \cup {reported} : StartBatch(file)
    BY DEF Next, DiscoveryActs, BatchActs, BatchStep, FetchRow, ExistingRow, ExtractRow,
           FinishBatch, BatchDies, BatchEnds, Record, vars, batchVars, batchLocals
  <2>2. ASSUME NEW file \in BatchFiles \cup {reported}, StartBatch(file)
        PROVE  IsFiniteSet(DOMAIN rows')
    <3>1. IsFiniteSet(DOMAIN file)
      BY BatchConstants, SeqFinite DEF FilesFinite
    <3>2. DOMAIN UniqueRows(file) \subseteq DOMAIN file
      BY DEF UniqueRows, Restrict, FirstRows
    <3>3. rows' = UniqueRows(file)
      BY <2>2 DEF StartBatch
    <3>4. QED
      BY <3>1, <3>2, <3>3, FS_Subset
  <2>3. DOMAIN rows' \subseteq DOMAIN rows \/ \E file \in BatchFiles \cup {reported} : StartBatch(file)
    BY <1>1, <2>1
  <2>4. QED
    BY <2>2, <2>3, FS_Subset DEF FilesFinite
<1>6. QED
  BY <1>3, <1>4, <1>5 DEF FilesFinite

\* The invariant of both.
LEMMA FilesStayFinite == Spec => []FilesFinite
<1>1. Init => FilesFinite
  BY FS_EmptySet DEF Init, DiscoveryInit, BatchInit, BatchIdle, FilesFinite
<1>2. CollectionInv /\ FilesFinite /\ [Next]_vars => FilesFinite'
  BY NextFinite
<1>3. QED
  BY <1>1, <1>2, CollectionInvariant, PTL DEF Spec

\* One row fewer.
LEMMA RowTaken ==
  ASSUME NEW rs, DOMAIN rs \subseteq Nat, IsFiniteSet(DOMAIN rs), DOMAIN rs # {}
  PROVE  /\ Cardinality(DOMAIN rs) \in Nat \ {0}
         /\ Cardinality(DOMAIN OtherRows(rs)) = Cardinality(DOMAIN rs) - 1
<1>1. FirstRow(rs) \in DOMAIN rs /\ DOMAIN OtherRows(rs) = DOMAIN rs \ {FirstRow(rs)}
  BY RowsLeft
<1>2. QED
  BY <1>1, FS_RemoveElement, FS_CardinalityType, FS_EmptySet

\* A batch takes each row from what is left, or goes on from fetching it to
\* extracting it.
LEMMA BatchFalls ==
  ASSUME CollectionInv, FilesFinite
  PROVE  /\ BatchStepsLeft \in Nat
         /\ BatchStep => BatchStepsLeft' < BatchStepsLeft
<1>1. /\ bpc \in {"idle", "row", "extract"} /\ DOMAIN rows \subseteq Nat
      /\ bpc = "extract" => MoreRows
  BY DEF CollectionInv, BatchInv, RowsTyped, BatchTypeOK
<1> DEFINE n == Cardinality(DOMAIN rows)
<1>2. n \in Nat
  BY FS_CardinalityType DEF FilesFinite
<1>3. MoreRows => n # 0 /\ Cardinality(DOMAIN OtherRows(rows)) = n - 1
  BY <1>1, RowTaken DEF FilesFinite, MoreRows
<1>4. BatchStepsLeft \in Nat
  BY <1>1, <1>2 DEF BatchStepsLeft
<1>5. ASSUME BatchStep PROVE BatchStepsLeft' < BatchStepsLeft
  <2>1. \/ bpc = "row" /\ MoreRows /\ bpc' = "extract" /\ rows' = rows
        \/ bpc \in {"row", "extract"} /\ MoreRows /\ bpc' = "row" /\ rows' = OtherRows(rows)
        \/ bpc = "row" /\ bpc' = "idle"
    BY <1>1, <1>5 DEF BatchStep, FetchRow, ExistingRow, ExtractRow, FinishBatch, Record, BatchEnds
  <2>2. CASE bpc = "row" /\ MoreRows /\ bpc' = "extract" /\ rows' = rows
    <3>1. BatchStepsLeft = 2 * n + 1 /\ BatchStepsLeft' = 2 * n
      BY <2>2 DEF BatchStepsLeft
    <3> HIDE DEF n
    <3>2. QED
      BY <1>2, <3>1
  <2>3. CASE bpc \in {"row", "extract"} /\ MoreRows /\ bpc' = "row" /\ rows' = OtherRows(rows)
    <3>1. BatchStepsLeft \in {2 * n, 2 * n + 1} /\ BatchStepsLeft' = 2 * (n - 1) + 1
      BY <1>3, <2>3 DEF BatchStepsLeft
    <3>2. n # 0
      BY <1>3, <2>3
    <3> HIDE DEF n
    <3>3. QED
      BY <1>2, <3>1, <3>2
  <2>4. CASE bpc = "row" /\ bpc' = "idle"
    <3>1. BatchStepsLeft = 2 * n + 1 /\ BatchStepsLeft' = 0
      BY <2>4 DEF BatchStepsLeft
    <3> HIDE DEF n
    <3>2. QED
      BY <1>2, <3>1
  <2>5. QED
    BY <2>1, <2>2, <2>3, <2>4
<1>6. QED
  BY <1>4, <1>5

\* A tuple is below another by its first component that differs.
LEMMA BelowAt ==
  ASSUME NEW a1, NEW a2, NEW a3, NEW a4, NEW b1, NEW b2, NEW b3, NEW b4
  PROVE  LET r == <<a1, a2, a3, a4>>
             s == <<b1, b2, b3, b4>>
         IN  /\ a1 < b1 => Below(r, s)
             /\ a1 = b1 /\ a2 < b2 => Below(r, s)
             /\ a1 = b1 /\ a2 = b2 /\ a3 < b3 => Below(r, s)
             /\ a1 = b1 /\ a2 = b2 /\ a3 = b3 /\ a4 < b4 => Below(r, s)
<1> DEFINE r == <<a1, a2, a3, a4>>
           s == <<b1, b2, b3, b4>>
<1>1. /\ r[1] = a1 /\ r[2] = a2 /\ r[3] = a3 /\ r[4] = a4
      /\ s[1] = b1 /\ s[2] = b2 /\ s[3] = b3 /\ s[4] = b4
  OBVIOUS
<1> HIDE DEF r, s
<1>2. a1 < b1 => Below(r, s)
  <2> SUFFICES ASSUME a1 < b1 PROVE Below(r, s)
    OBVIOUS
  <2>1. 1 \in 1..4 /\ \A j \in 1..(1 - 1) : r[j] = s[j]
    OBVIOUS
  <2>2. QED
    BY <1>1, <2>1 DEF Below
<1>3. a1 = b1 /\ a2 < b2 => Below(r, s)
  <2> SUFFICES ASSUME a1 = b1, a2 < b2 PROVE Below(r, s)
    OBVIOUS
  <2>1. 2 \in 1..4 /\ \A j \in 1..(2 - 1) : r[j] = s[j]
    BY <1>1
  <2>2. QED
    BY <1>1, <2>1 DEF Below
<1>4. a1 = b1 /\ a2 = b2 /\ a3 < b3 => Below(r, s)
  <2> SUFFICES ASSUME a1 = b1, a2 = b2, a3 < b3 PROVE Below(r, s)
    OBVIOUS
  <2>1. 3 \in 1..4 /\ \A j \in 1..(3 - 1) : r[j] = s[j]
    BY <1>1
  <2>2. QED
    BY <1>1, <2>1 DEF Below
<1>5. a1 = b1 /\ a2 = b2 /\ a3 = b3 /\ a4 < b4 => Below(r, s)
  <2> SUFFICES ASSUME a1 = b1, a2 = b2, a3 = b3, a4 < b4 PROVE Below(r, s)
    OBVIOUS
  <2>1. 4 \in 1..4 /\ \A j \in 1..(4 - 1) : r[j] = s[j]
    BY <1>1
  <2>2. QED
    BY <1>1, <2>1 DEF Below
<1>6. QED
  BY <1>2, <1>3, <1>4, <1>5 DEF r, s

\* The work left is counted in natural numbers.
LEMMA WorkTyped ==
  ASSUME CollectionInv, FilesFinite
  PROVE  Work \in Nat \X Nat \X Nat \X Nat
<1>1. /\ dpc \in {"idle", "seed", "robots", "sitemaps", "locations", "crawl", "links"}
      /\ Len(links) \in Nat /\ Len(sitemapQueue) \in Nat /\ Len(queue) \in Nat
  BY LenProperties DEF CollectionInv, Typed, DiscoveryTypeOK
<1>2. MaxSitemaps - Cardinality(checked) \in Nat /\ MaxPages - Cardinality(crawled) \in Nat
  BY FS_CardinalityType, DiscoveryConstants DEF CollectionInv, Bounded
<1>3. Cardinality(DOMAIN seeds) \in Nat
  BY FS_CardinalityType DEF FilesFinite
<1>4. Stage \in Nat
  BY <1>1 DEF Stage
<1>5. FetchesLeft \in Nat
  BY <1>1, <1>2 DEF FetchesLeft
<1>6. TurnsLeft \in Nat
  BY <1>1 DEF TurnsLeft
<1>7. QED
  BY <1>3, <1>4, <1>5, <1>6 DEF Work

\* One component falls and those before it stay.
LEMMA WorkFalls ==
  ASSUME \/ Cardinality(DOMAIN seeds') < Cardinality(DOMAIN seeds)
         \/ seeds' = seeds /\ Stage' < Stage
         \/ seeds' = seeds /\ Stage' = Stage /\ FetchesLeft' < FetchesLeft
         \/ /\ seeds' = seeds /\ Stage' = Stage /\ FetchesLeft' = FetchesLeft
            /\ TurnsLeft' < TurnsLeft
  PROVE  Below(Work', Work)
<1>1. PICK a1, a2, a3, a4, b1, b2, b3, b4 :
        /\ a1 = Cardinality(DOMAIN seeds') /\ a2 = Stage' /\ a3 = FetchesLeft' /\ a4 = TurnsLeft'
        /\ b1 = Cardinality(DOMAIN seeds) /\ b2 = Stage /\ b3 = FetchesLeft /\ b4 = TurnsLeft
  OBVIOUS
<1>2. Work' = <<a1, a2, a3, a4>> /\ Work = <<b1, b2, b3, b4>>
  BY <1>1 DEF Work
<1>3. \/ a1 < b1
      \/ a1 = b1 /\ a2 < b2
      \/ a1 = b1 /\ a2 = b2 /\ a3 < b3
      \/ a1 = b1 /\ a2 = b2 /\ a3 = b3 /\ a4 < b4
  BY <1>1
<1>4. QED
  BY <1>2, <1>3, BelowAt

\* A domain that ends was one of the seeds left.
LEMMA EndDomainFalls ==
  ASSUME CollectionInv, FilesFinite, MoreSeeds, EndDomain
  PROVE  Below(Work', Work)
<1>1. DOMAIN seeds \subseteq Nat
  BY DEF CollectionInv, Typed, DiscoveryTypeOK
<1>2. Cardinality(DOMAIN seeds) \in Nat
      /\ Cardinality(DOMAIN OtherRows(seeds)) = Cardinality(DOMAIN seeds) - 1
  BY <1>1, RowTaken DEF FilesFinite, MoreSeeds
<1>3. seeds' = OtherRows(seeds)
  BY DEF EndDomain
<1>4. QED
  BY <1>2, <1>3, WorkFalls

\* A command that ends has nothing left to do.
LEMMA EndFalls ==
  ASSUME CollectionInv, FilesFinite, dpc # "idle", DiscoveryEnds
  PROVE  Below(Work', Work)
<1>1. dpc' = "idle" /\ seeds' = <<>>
  BY DEF DiscoveryEnds
<1>2. Stage' = 0
  BY <1>1 DEF Stage
<1>3. Stage \in {1, 2, 3, 4}
  BY DEF CollectionInv, Typed, DiscoveryTypeOK, Stage
<1>4. DOMAIN seeds' = {} /\ Cardinality(DOMAIN seeds') = 0
  BY <1>1, FS_EmptySet
<1>5. CASE DOMAIN seeds = {}
  <2>1. PICK a3, a4, b1, b2, b3, b4 :
          /\ a3 = FetchesLeft' /\ a4 = TurnsLeft'
          /\ b1 = Cardinality(DOMAIN seeds) /\ b2 = Stage /\ b3 = FetchesLeft /\ b4 = TurnsLeft
    OBVIOUS
  <2>2. Work' = <<0, 0, a3, a4>> /\ Work = <<b1, b2, b3, b4>> /\ b1 = 0 /\ 0 < b2
    BY <1>2, <1>3, <1>4, <1>5, <2>1 DEF Work
  <2>3. QED
    BY <2>2, BelowAt
<1>6. CASE DOMAIN seeds # {}
  <2>1. Cardinality(DOMAIN seeds) \in Nat \ {0}
    BY <1>6, FS_CardinalityType, FS_EmptySet DEF FilesFinite
  <2>2. QED
    BY <1>4, <2>1, WorkFalls
<1>7. QED
  BY <1>5, <1>6

\* The turns up to the sitemaps, and those between the loops.
LEMMA StagesFall ==
  ASSUME CollectionInv, BeginDomain \/ ReadDeclared \/ EndDeclared \/ BeginCrawl
  PROVE  Below(Work', Work)
<1>1. CASE BeginDomain \/ EndDeclared \/ BeginCrawl
  <2>1. seeds' = seeds /\ \/ dpc = "seed" /\ dpc' = "robots"
                          \/ dpc = "robots" /\ dpc' = "sitemaps"
                          \/ dpc = "sitemaps" /\ dpc' = "crawl"
    BY <1>1 DEF BeginDomain, EndDeclared, BeginCrawl
  <2>2. Stage' < Stage
    BY <2>1 DEF Stage
  <2>3. QED
    BY <2>1, <2>2, WorkFalls
<1>2. CASE ReadDeclared
  <2>1. /\ seeds' = seeds /\ dpc = "robots" /\ dpc' = dpc /\ links # <<>> /\ links' = Tail(links)
        /\ links \in Seq(Link)
    BY <1>2 DEF ReadDeclared, CollectionInv, Typed, DiscoveryTypeOK
  <2>2. Len(links) \in Nat /\ Len(Tail(links)) = Len(links) - 1
    BY <2>1, LenProperties, HeadTailProperties
  <2>3. Stage' = Stage /\ FetchesLeft' = FetchesLeft /\ TurnsLeft' < TurnsLeft
    BY <2>1, <2>2 DEF Stage, FetchesLeft, TurnsLeft
  <2>4. QED
    BY <2>1, <2>3, WorkFalls
<1>3. QED
  BY <1>1, <1>2

\* An entry taken without a fetch, and the end of the links of a page.
LEMMA SkipsFall ==
  ASSUME CollectionInv, SkipSitemap \/ SkipPage \/ EndLocations \/ EndLinks
  PROVE  Below(Work', Work)
<1>1. links \in Seq(Link) /\ sitemapQueue \in Seq(Entry) /\ queue \in Seq(Entry)
  BY DEF CollectionInv, Typed, DiscoveryTypeOK
<1>2. CASE SkipSitemap
  <2>1. /\ seeds' = seeds /\ dpc = "sitemaps" /\ dpc' = dpc /\ checked' = checked
        /\ sitemapQueue # <<>> /\ sitemapQueue' = Tail(sitemapQueue)
    BY <1>2 DEF SkipSitemap, MoreSitemaps
  <2>2. Len(sitemapQueue) \in Nat /\ Len(Tail(sitemapQueue)) = Len(sitemapQueue) - 1
    BY <1>1, <2>1, LenProperties, HeadTailProperties
  <2>3. Stage' = Stage /\ FetchesLeft' = FetchesLeft /\ TurnsLeft' < TurnsLeft
    BY <2>1, <2>2 DEF Stage, FetchesLeft, TurnsLeft
  <2>4. QED
    BY <2>1, <2>3, WorkFalls
<1>3. CASE SkipPage
  <2>1. /\ seeds' = seeds /\ dpc = "crawl" /\ dpc' = dpc /\ crawled' = crawled
        /\ queue # <<>> /\ queue' = Tail(queue)
    BY <1>3 DEF SkipPage, MorePages
  <2>2. Len(queue) \in Nat /\ Len(Tail(queue)) = Len(queue) - 1
    BY <1>1, <2>1, LenProperties, HeadTailProperties
  <2>3. Stage' = Stage /\ FetchesLeft' = FetchesLeft /\ TurnsLeft' < TurnsLeft
    BY <2>1, <2>2 DEF Stage, FetchesLeft, TurnsLeft
  <2>4. QED
    BY <2>1, <2>3, WorkFalls
<1>4. CASE EndLocations \/ EndLinks
  <2>1. /\ UNCHANGED <<seeds, checked, crawled, sitemapQueue, queue>>
        /\ \/ dpc = "locations" /\ dpc' = "sitemaps"
           \/ dpc = "links" /\ dpc' = "crawl"
    BY <1>4 DEF EndLocations, EndLinks, domainVars
  <2>2. Len(links) \in Nat /\ Len(sitemapQueue) \in Nat /\ Len(queue) \in Nat
    BY <1>1, LenProperties
  <2>3. Stage' = Stage /\ FetchesLeft' = FetchesLeft /\ TurnsLeft' < TurnsLeft
    BY <2>1, <2>2 DEF Stage, FetchesLeft, TurnsLeft
  <2>4. QED
    BY <2>1, <2>3, WorkFalls
<1>5. QED
  BY <1>2, <1>3, <1>4

\* A fetch is one of those left, whatever it adds to read.
LEMMA FetchesFall ==
  ASSUME CollectionInv, NEW answer, FetchSitemap(answer) \/ FetchCrawled(answer)
  PROVE  Below(Work', Work)
<1>1. /\ MaxSitemaps \in Nat /\ MaxPages \in Nat
      /\ Cardinality(checked) \in Nat /\ Cardinality(crawled) \in Nat
  BY FS_CardinalityType, DiscoveryConstants DEF CollectionInv, Bounded
<1>2. CASE FetchSitemap(answer)
  <2>1. PICK u : u \notin checked /\ checked' = checked \cup {u}
    BY <1>2 DEF FetchSitemap
  <2>2. Cardinality(checked') = Cardinality(checked) + 1
    BY <2>1, FS_AddElement DEF CollectionInv, Bounded
  <2>3. seeds' = seeds /\ dpc = "sitemaps" /\ dpc' \in {"sitemaps", "locations"}
    BY <1>2 DEF FetchSitemap
  <2>4. Stage' = Stage /\ FetchesLeft' < FetchesLeft
    BY <1>1, <2>2, <2>3 DEF Stage, FetchesLeft
  <2>5. QED
    BY <2>3, <2>4, WorkFalls
<1>3. CASE FetchCrawled(answer)
  <2>1. PICK u : u \notin crawled /\ crawled' = crawled \cup {u}
    BY <1>3 DEF FetchCrawled
  <2>2. Cardinality(crawled') = Cardinality(crawled) + 1
    BY <2>1, FS_AddElement DEF CollectionInv, Bounded
  <2>3. seeds' = seeds /\ dpc = "crawl" /\ dpc' \in {"crawl", "links"}
    BY <1>3 DEF FetchCrawled
  <2>4. Stage' = Stage /\ FetchesLeft' < FetchesLeft
    BY <1>1, <2>2, <2>3 DEF Stage, FetchesLeft
  <2>5. QED
    BY <2>3, <2>4, WorkFalls
<1>4. QED
  BY <1>2, <1>3

\* A link read is one fewer to read, and at most one more entry that waits.
LEMMA LinksFall ==
  ASSUME CollectionInv, FilesFinite, ReadLocation \/ ReadLink
  PROVE  Below(Work', Work)
<1>1. links \in Seq(Link) /\ sitemapQueue \in Seq(Entry) /\ queue \in Seq(Entry) /\ MoreSeeds
  BY DEF CollectionInv, Typed, DiscoveryTypeOK, InDomain, ReadLocation, ReadLink
<1>2. CASE EndDomain
  BY <1>1, <1>2, EndDomainFalls
<1>3. CASE ~ EndDomain
  <2>1. /\ UNCHANGED <<seeds, dpc, checked, crawled>>
        /\ links # <<>> /\ links' = Tail(links)
        /\ \/ /\ dpc = "locations"
              /\ sitemapQueue' = sitemapQueue \/ \E e : sitemapQueue' = Append(sitemapQueue, e)
           \/ /\ dpc = "links"
              /\ queue' = queue \/ \E e : queue' = Append(queue, e)
    BY <1>3 DEF ReadLocation, ReadLink
  <2>2. \A e : /\ Len(Append(sitemapQueue, e)) = Len(sitemapQueue) + 1
               /\ Len(Append(queue, e)) = Len(queue) + 1
    BY <1>1
  <2>3. /\ Len(links) \in Nat /\ Len(links') = Len(links) - 1
        /\ Len(sitemapQueue) \in Nat /\ Len(queue) \in Nat
    BY <1>1, <2>1, LenProperties, HeadTailProperties
  <2>4. \/ dpc = "locations" /\ Len(sitemapQueue') \in {Len(sitemapQueue), Len(sitemapQueue) + 1}
        \/ dpc = "links" /\ Len(queue') \in {Len(queue), Len(queue) + 1}
    BY <2>1, <2>2
  <2>5. Stage' = Stage /\ FetchesLeft' = FetchesLeft
    BY <2>1 DEF Stage, FetchesLeft
  <2>6. TurnsLeft' < TurnsLeft
    BY <2>1, <2>3, <2>4 DEF TurnsLeft
  <2>7. QED
    BY <2>1, <2>5, <2>6, WorkFalls
<1>4. QED
  BY <1>2, <1>3

\* Every step of discovery.
LEMMA DiscoveryFalls ==
  ASSUME CollectionInv, FilesFinite, DiscoveryStep
  PROVE  Below(Work', Work)
<1>1. CASE BeginDomain \/ ReadDeclared \/ EndDeclared \/ BeginCrawl
  BY <1>1, StagesFall
<1>2. CASE SkipSitemap \/ SkipPage \/ EndLocations \/ EndLinks
  BY <1>2, SkipsFall
<1>3. CASE ReadLocation \/ ReadLink
  BY <1>3, LinksFall
<1>4. CASE \E answer \in AnswerKinds : FetchSitemap(answer) \/ FetchCrawled(answer)
  BY <1>4, FetchesFall
<1>5. CASE EndCrawl
  <2>1. MoreSeeds /\ EndDomain
    BY <1>5 DEF EndCrawl, CollectionInv, Typed, InDomain
  <2>2. QED
    BY <2>1, EndDomainFalls
<1>6. CASE Report
  BY <1>6, EndFalls DEF Report
<1>7. QED
  BY <1>1, <1>2, <1>3, <1>4, <1>5, <1>6 DEF DiscoveryStep

\* However large the site, the sitemaps and the input file, both commands have
\* finitely many steps before them from the start of a domain or a row on, and
\* neither can add to the other's; under weak fairness of their steps they end.
THEOREM CommandsHaveAnEnd == Spec => CommandsRunOut
<1> DEFINE inv == CollectionInv /\ FilesFinite
<1>1. inv => BatchStepsLeft \in Nat /\ Work \in Nat \X Nat \X Nat \X Nat
  BY BatchFalls, WorkTyped
<1>2. inv /\ [Next]_vars => inv'
  BY NextFinite, DiscoveryKeepsInv, BatchKeepsInv, StutterKeepsInv DEF Next
<1>3. inv /\ [Next]_vars => (BatchStepsLeft \in Nat)'
  BY <1>1, <1>2, PTL
<1>4. inv /\ [Next]_vars =>
        [/\ BatchStep => BatchStepsLeft' < BatchStepsLeft
         /\ DiscoveryStep => Below(Work', Work)
         /\ bpc # "idle" => BatchStepsLeft' <= BatchStepsLeft
         /\ dpc # "idle" => Below(Work', Work) \/ Work' = Work]_vars
  <2> SUFFICES ASSUME inv, Next
               PROVE  /\ BatchStep => BatchStepsLeft' < BatchStepsLeft
                      /\ DiscoveryStep => Below(Work', Work)
                      /\ bpc # "idle" => BatchStepsLeft' <= BatchStepsLeft
                      /\ dpc # "idle" => Below(Work', Work) \/ Work' = Work
    OBVIOUS
  <2>1. BatchStepsLeft \in Nat /\ (BatchStep => BatchStepsLeft' < BatchStepsLeft)
    BY BatchFalls
  <2>2. DiscoveryStep => Below(Work', Work)
    BY DiscoveryFalls
  <2>3. UNCHANGED batchVars => BatchStepsLeft' = BatchStepsLeft
    BY DEF batchVars, batchLocals, BatchStepsLeft
  <2>4. UNCHANGED discoveryVars => Work' = Work
    BY DEF discoveryVars, domainVars, linkVars, Work, Stage, FetchesLeft, TurnsLeft
  <2>5. bpc # "idle" => BatchStepsLeft' <= BatchStepsLeft
    <3>1. bpc # "idle" => BatchStep \/ bpc' = "idle" \/ UNCHANGED batchVars
      BY DEF Next, BatchActs, DiscoveryActs, StartBatch, BatchDies, BatchEnds
    <3>2. bpc' = "idle" => BatchStepsLeft' = 0
      BY DEF BatchStepsLeft
    <3>3. BatchStepsLeft' \in Nat
      BY <1>3
    <3>4. QED
      BY <2>1, <2>3, <3>1, <3>2, <3>3
  <2>6. dpc # "idle" => Below(Work', Work) \/ Work' = Work
    <3>1. dpc # "idle" => DiscoveryStep \/ DiscoveryEnds \/ UNCHANGED discoveryVars
      BY DEF Next, BatchActs, DiscoveryActs, DiscoveryNext, StartDiscovery, DiscoveryDies
    <3>2. QED
      BY <2>2, <2>4, <3>1, EndFalls
  <2>7. QED
    BY <2>1, <2>2, <2>5, <2>6
<1>5. QED
  BY <1>1, <1>4, CollectionInvariant, FilesStayFinite, PTL DEF Spec, CommandsRunOut
=============================================================================
