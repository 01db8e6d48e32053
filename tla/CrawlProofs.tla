----------------------------- MODULE CrawlProofs -----------------------------
(***************************************************************************)
(* The crawl of a domain is a breadth-first search that ends early on two  *)
(* counts only: the target and max_pages.  The code keeps no distances: it *)
(* keeps a queue, and a set of pages that are not crawled again even when  *)
(* they are found again.  That nothing within the depth is lost by this    *)
(* rests on the order of the queue: the depth a page was crawled at is the *)
(* least it could have been found at later.                                *)
(***************************************************************************)
EXTENDS CollectionProofs

\* No page is crawled before the crawl of its domain begins.
NotYet == crawled = {} /\ opened = {}

\* u was crawled, at a depth of no more than k.
Visited(d, u, k) == u \in crawled /\ d[u] <= k

\* u is in the queue, at a depth of no more than k.
Waiting(u, k) == \E j \in DOMAIN queue : queue[j].url = u /\ queue[j].depth <= k

Covered(d, u, k) == Visited(d, u, k) \/ Waiting(u, k)

\* What is to become of a link of v, if it is allowed: its page is visited one
\* level below v, or sooner, and a link to a programme is known.
Followed(d, v, link) ==
  Allowed(link.url) =>
    /\ d[v] < MaxDepth => Covered(d, link.url, d[v] + 1)
    /\ Score(link, Seed.catalogue # None) >= 20 => link.url \in emitted \cup known

\* Pages wait by depth, and no two of them are more than a level apart.
QueueOrdered ==
  \A i, j \in DOMAIN queue :
    i <= j => queue[i].depth <= queue[j].depth /\ queue[j].depth <= queue[i].depth + 1

\* The source of an entry tells whether the crawl began at a catalogue.
SourceKept(entry) == entry.source = "catalogue" <=> Seed.catalogue # None

\* d is the depth each page was crawled at.
CrawledAt(d) ==
  /\ opened \subseteq crawled
  /\ QueueOrdered
  /\ \A u \in crawled : \A j \in DOMAIN queue : d[u] <= queue[j].depth
  /\ \A j \in DOMAIN queue : SourceKept(queue[j])
  /\ \A u : u = CrawlStart /\ Allowed(u) => Covered(d, u, 0)
  /\ \A v \in opened : \A i \in DOMAIN Limited(Links[v]) :
       \/ Followed(d, v, Links[v][i])
       \/ dpc = "links" /\ v = current.url /\ Links[v][i] \in Range(links)

\* The page whose links are read is of the level that is being crawled: what
\* waits is of this level or of the next.
Reading(d) ==
  /\ current.url \in opened
  /\ d[current.url] = current.depth
  /\ SourceKept(current)
  /\ \A u \in crawled : d[u] <= current.depth
  /\ \A j \in DOMAIN queue :
       current.depth <= queue[j].depth /\ queue[j].depth <= current.depth + 1

CrawlInv ==
  /\ dpc \notin {"crawl", "links"} => NotYet
  /\ dpc \in {"crawl", "links"} =>
       \E d \in [Urls -> Nat] : CrawledAt(d) /\ (dpc = "links" => Reading(d))

-----------------------------------------------------------------------------
(***************************************************************************)
(* Sequences of the crawl                                                  *)
(***************************************************************************)

\* The links that are taken of a page are its first ones.
LEMMA LimitedFirst ==
  ASSUME NEW s \in Seq(Link)
  PROVE  /\ \A i \in DOMAIN Limited(s) : i \in DOMAIN s /\ Limited(s)[i] = s[i]
         /\ \A i \in DOMAIN Limited(s) : s[i] \in Range(Limited(s)) /\ s[i] \in Link
<1> DEFINE n == IF Len(s) < MaxLinks THEN Len(s) ELSE MaxLinks
<1>1. n \in Nat /\ n <= Len(s) /\ DOMAIN s = 1..Len(s)
  BY LenProperties, DiscoveryConstants
<1> HIDE DEF n
<1>2. /\ Len(SubSeq(s, 1, n)) = n /\ SubSeq(s, 1, n) \in Seq(Link)
      /\ \A i \in 1..n : SubSeq(s, 1, n)[i] = s[i]
  BY <1>1, SubSeqProperties
<1>3. Limited(s) = SubSeq(s, 1, n)
  BY DEF Limited, n
<1>4. DOMAIN Limited(s) = 1..n
  BY <1>2, <1>3, LenProperties
<1>5. \A i \in DOMAIN Limited(s) : i \in DOMAIN s /\ Limited(s)[i] = s[i] /\ s[i] \in Link
  BY <1>1, <1>2, <1>3, <1>4, ElementOfSeq
<1>6. QED
  BY <1>5 DEF Range

\* What is left after the first element.
LEMMA AfterHead ==
  ASSUME NEW S, NEW s \in Seq(S), s # <<>>
  PROVE  /\ \A x \in Range(s) : x = Head(s) \/ x \in Range(Tail(s))
         /\ \A j \in DOMAIN Tail(s) : j + 1 \in DOMAIN s /\ Tail(s)[j] = s[j+1]
         /\ \A j \in DOMAIN s : j = 1 \/ (j - 1 \in DOMAIN Tail(s) /\ Tail(s)[j-1] = s[j])
         /\ 1 \in DOMAIN s /\ Head(s) = s[1] /\ DOMAIN s \subseteq Nat \ {0}
         /\ DOMAIN Tail(s) \subseteq Nat \ {0}
<1>1. /\ Len(s) \in Nat \ {0} /\ DOMAIN s = 1..Len(s)
      /\ Tail(s) \in Seq(S) /\ Len(Tail(s)) = Len(s) - 1 /\ Head(s) = s[1]
      /\ \A i \in 1..Len(Tail(s)) : Tail(s)[i] = s[i+1]
  BY HeadTailProperties, EmptySeq, LenProperties
<1>2. DOMAIN Tail(s) = 1..(Len(s) - 1)
  BY <1>1, LenProperties
<1>3. \A j \in DOMAIN s : j = 1 \/ (j - 1 \in DOMAIN Tail(s) /\ Tail(s)[j-1] = s[j])
  BY <1>1, <1>2
<1>4. \A x \in Range(s) : x = Head(s) \/ x \in Range(Tail(s))
  BY <1>1, <1>3 DEF Range
<1>5. QED
  BY <1>1, <1>2, <1>3, <1>4

\* What is there after something is added at the end.
LEMMA AtTheEnd ==
  ASSUME NEW S, NEW s \in Seq(S), NEW x \in S
  PROVE  /\ \A j \in DOMAIN s : j \in DOMAIN Append(s, x) /\ Append(s, x)[j] = s[j]
         /\ Len(s) + 1 \in DOMAIN Append(s, x) /\ Append(s, x)[Len(s) + 1] = x
         /\ \A j \in DOMAIN Append(s, x) :
              (j \in DOMAIN s /\ Append(s, x)[j] = s[j]) \/ (j = Len(s) + 1 /\ Append(s, x)[j] = x)
         /\ \A j \in DOMAIN s : j \in Nat /\ j < Len(s) + 1
<1>1. /\ Len(s) \in Nat /\ DOMAIN s = 1..Len(s)
      /\ Append(s, x) \in Seq(S) /\ Len(Append(s, x)) = Len(s) + 1
      /\ \A i \in 1..Len(s) : Append(s, x)[i] = s[i]
      /\ Append(s, x)[Len(s) + 1] = x
  BY AppendProperties, LenProperties
<1>2. DOMAIN Append(s, x) = 1..(Len(s) + 1)
  BY <1>1, LenProperties
<1>3. QED
  BY <1>1, <1>2

-----------------------------------------------------------------------------
(***************************************************************************)
(* The steps of a crawl                                                    *)
(***************************************************************************)

\* Taking the first entry leaves an ordered queue, of this level and the next,
\* in which everything else still waits.
LEMMA EntryTaken ==
  ASSUME queue \in Seq(Entry), queue # <<>>, QueueOrdered, queue' = Tail(queue)
  PROVE  /\ QueueOrdered'
         /\ \A j \in DOMAIN queue' : \E i \in DOMAIN queue : queue'[j] = queue[i]
         /\ \A j \in DOMAIN queue' : /\ Head(queue).depth <= queue'[j].depth
                                     /\ queue'[j].depth <= Head(queue).depth + 1
         /\ \A u : \A k : Waiting(u, k) =>
              \/ Waiting(u, k)'
              \/ u = Head(queue).url /\ Head(queue).depth <= k
<1>1. /\ \A j \in DOMAIN queue' : j + 1 \in DOMAIN queue /\ queue'[j] = queue[j+1]
      /\ \A j \in DOMAIN queue : j = 1 \/ (j - 1 \in DOMAIN queue' /\ queue'[j-1] = queue[j])
      /\ 1 \in DOMAIN queue /\ Head(queue) = queue[1]
      /\ DOMAIN queue \subseteq Nat \ {0} /\ DOMAIN queue' \subseteq Nat \ {0}
  BY AfterHead
<1>2. \A j \in DOMAIN queue' : j \in Nat /\ 1 <= j + 1
  BY <1>1
<1>3. QueueOrdered'
  <2> SUFFICES ASSUME NEW i \in DOMAIN queue', NEW j \in DOMAIN queue', i <= j
               PROVE  /\ queue'[i].depth <= queue'[j].depth
                      /\ queue'[j].depth <= queue'[i].depth + 1
    BY DEF QueueOrdered
  <2>1. i + 1 <= j + 1
    BY <1>2
  <2>2. QED
    BY <1>1, <2>1 DEF QueueOrdered
<1>4. \A j \in DOMAIN queue' : /\ Head(queue).depth <= queue'[j].depth
                               /\ queue'[j].depth <= Head(queue).depth + 1
  BY <1>1, <1>2 DEF QueueOrdered
<1>5. ASSUME NEW u, NEW k, Waiting(u, k)
      PROVE  Waiting(u, k)' \/ (u = Head(queue).url /\ Head(queue).depth <= k)
  BY <1>1, <1>5 DEF Waiting
<1>6. QED
  BY <1>1, <1>3, <1>4, <1>5

\* The crawl of a domain begins with nothing crawled and one page waiting.
LEMMA CrawlBegins ==
  ASSUME Typed, CrawlInv, BeginCrawl
  PROVE  CrawlInv'
<1> DEFINE source == IF Seed.catalogue # None THEN "catalogue" ELSE "crawl"
           entry == Start(CrawlStart, source)
           d == [u \in Urls |-> 0]
<1>1. /\ queue' = <<entry>> /\ dpc' = "crawl" /\ crawled' = {} /\ opened' = {}
      /\ seeds' = seeds
  BY DEF BeginCrawl, CrawlInv, NotYet, CrawlStart
<1>2. CrawlStart' = CrawlStart /\ Seed' = Seed
  BY <1>1 DEF CrawlStart, Seed
<1>3. entry.url = CrawlStart /\ entry.depth = 0 /\ SourceKept(entry)
  BY DEF Start, SourceKept
<1> HIDE DEF entry
<1>4. DOMAIN queue' = {1} /\ queue'[1] = entry
  BY <1>1
<1>5. QueueOrdered'
  BY <1>3, <1>4 DEF QueueOrdered
<1>6. \A u : u = CrawlStart' => Covered(d, u, 0)'
  BY <1>2, <1>3, <1>4 DEF Covered, Waiting
<1>7. CrawledAt(d)'
  <2>1. \A j \in DOMAIN queue' : SourceKept(queue[j])'
    BY <1>2, <1>3, <1>4 DEF SourceKept
  <2>2. QED
    BY <1>1, <1>5, <1>6, <2>1 DEF CrawledAt
<1>8. d \in [Urls -> Nat]
  OBVIOUS
<1> HIDE DEF d
<1>9. QED
  BY <1>1, <1>7, <1>8 DEF CrawlInv

\* What was to become of a link is so after a step that keeps what is covered.
LEMMA FollowedStill ==
  ASSUME NEW d, NEW e, NEW v, NEW link, Followed(d, v, link), seeds' = seeds, known' = known,
         emitted \subseteq emitted', e[v] = d[v],
         Allowed(link.url) => (Covered(d, link.url, d[v] + 1) => Covered(e, link.url, d[v] + 1)')
  PROVE  Followed(e, v, link)'
<1>1. /\ Allowed(link.url)' <=> Allowed(link.url)
      /\ Score(link, Seed.catalogue # None)' = Score(link, Seed.catalogue # None)
  BY DEF Allowed, Seed, Score
<1>2. ASSUME Allowed(link.url), d[v] < MaxDepth
      PROVE  Covered(e, link.url, d[v] + 1)'
  BY <1>2 DEF Followed
<1>3. QED
  BY <1>1, <1>2 DEF Followed

\* A page that was crawled before was crawled at a depth no greater than it is
\* found at again, and a page that is not allowed is owed nothing.
LEMMA PageSkipped ==
  ASSUME Typed, CrawlInv, SkipPage
  PROVE  CrawlInv'
<1>1. /\ dpc = "crawl" /\ dpc' = "crawl" /\ queue' = Tail(queue) /\ queue # <<>>
      /\ Head(queue).url \in crawled \/ ~ Allowed(Head(queue).url)
      /\ UNCHANGED <<seeds, known, emitted, crawled, opened>>
  BY DEF SkipPage, MorePages, runVars
<1>2. PICK d \in [Urls -> Nat] : CrawledAt(d)
  BY <1>1 DEF CrawlInv
<1>3. queue \in Seq(Entry) /\ 1 \in DOMAIN queue /\ Head(queue) = queue[1]
  BY <1>1, AfterHead DEF Typed, DiscoveryTypeOK
<1>4. /\ QueueOrdered'
      /\ \A j \in DOMAIN queue' : \E i \in DOMAIN queue : queue'[j] = queue[i]
      /\ \A u : \A k : Waiting(u, k) =>
           Waiting(u, k)' \/ (u = Head(queue).url /\ Head(queue).depth <= k)
  BY <1>1, <1>2, <1>3, EntryTaken DEF CrawledAt
<1>5. /\ \A u : Allowed(u)' <=> Allowed(u)
      /\ CrawlStart' = CrawlStart
  BY <1>1 DEF Allowed, CrawlStart, Seed
<1>6. ASSUME NEW u, Allowed(u), NEW k \in Nat, Covered(d, u, k)
      PROVE  Covered(d, u, k)'
  <2>1. CASE u \in crawled /\ d[u] <= k
    BY <1>1, <2>1 DEF Covered, Visited
  <2>2. CASE Waiting(u, k)'
    BY <2>2 DEF Covered
  <2>3. CASE u = Head(queue).url /\ Head(queue).depth <= k
    <3>1. u \in crawled /\ d[u] <= Head(queue).depth
      BY <1>1, <1>2, <1>3, <1>6, <2>3 DEF CrawledAt
    <3>2. u \in Urls /\ Head(queue).depth \in Nat
      <4>1. Head(queue) \in Entry
        BY <1>1, <1>3, HeadTailProperties
      <4>2. crawled \subseteq Urls
        BY DEF Typed, DiscoveryTypeOK
      <4>3. QED
        BY <3>1, <4>1, <4>2 DEF Entry
    <3>3. d[u] \in Nat
      BY <3>2
    <3>4. d[u] <= k
      BY <2>3, <3>1, <3>2, <3>3
    <3>5. QED
      BY <1>1, <3>1, <3>4 DEF Covered, Visited
  <2>4. QED
    BY <1>4, <1>6, <2>1, <2>2, <2>3 DEF Covered, Visited
<1>7. CrawledAt(d)'
  <2>1. \A v \in opened : d[v] + 1 \in Nat
    BY DEF Typed, DiscoveryTypeOK
  <2>2. ASSUME NEW v \in opened', NEW i \in DOMAIN Limited(Links[v])
        PROVE  Followed(d, v, Links[v][i])'
    <3>1. v \in opened /\ Followed(d, v, Links[v][i])
      BY <1>1, <1>2, <2>2 DEF CrawledAt
    <3>2. Allowed(Links[v][i].url) /\ Covered(d, Links[v][i].url, d[v] + 1)
            => Covered(d, Links[v][i].url, d[v] + 1)'
      BY <1>6, <2>1, <3>1
    <3>3. emitted \subseteq emitted' /\ seeds' = seeds /\ known' = known
      BY <1>1
    <3>4. QED
      BY <3>1, <3>2, <3>3, FollowedStill
  <2>3. \A u : u = CrawlStart' /\ Allowed(u)' => Covered(d, u, 0)'
    BY <1>2, <1>5, <1>6 DEF CrawledAt
  <2>4. \A u \in crawled' : \A j \in DOMAIN queue' : d[u] <= queue'[j].depth
    BY <1>1, <1>2, <1>4 DEF CrawledAt
  <2>5. \A j \in DOMAIN queue' : SourceKept(queue[j])'
    BY <1>1, <1>2, <1>4 DEF CrawledAt, SourceKept, Seed
  <2>6. opened' \subseteq crawled'
    BY <1>1, <1>2 DEF CrawledAt
  <2>7. QED
    BY <1>4, <2>2, <2>3, <2>4, <2>5, <2>6 DEF CrawledAt
<1>8. QED
  BY <1>1, <1>7 DEF CrawlInv

\* A page is crawled at the depth of its entry, the least of all that wait; its
\* links are read next, if it has any.
LEMMA PageCrawled ==
  ASSUME Typed, CrawlInv, NEW answer, FetchCrawled(answer)
  PROVE  CrawlInv'
<1> DEFINE entry == Head(queue)
<1>1. /\ dpc = "crawl" /\ queue' = Tail(queue) /\ queue # <<>>
      /\ entry.url \notin crawled /\ crawled' = crawled \cup {entry.url}
      /\ UNCHANGED <<seeds, known, emitted>>
      /\ \/ dpc' = "crawl" /\ opened' = opened
         \/ /\ dpc' = "links" /\ current' = entry /\ opened' = opened \cup {entry.url}
            /\ links' = Limited(Links[entry.url])
  BY DEF FetchCrawled, MorePages
<1>2. PICK c \in [Urls -> Nat] : CrawledAt(c)
  BY <1>1 DEF CrawlInv
<1>3. /\ queue \in Seq(Entry) /\ 1 \in DOMAIN queue /\ entry = queue[1]
      /\ entry \in Entry /\ entry.url \in Urls /\ entry.depth \in Nat
  <2>1. queue \in Seq(Entry)
    BY DEF Typed, DiscoveryTypeOK
  <2>2. 1 \in DOMAIN queue /\ entry = queue[1]
    BY <1>1, <2>1, AfterHead
  <2>3. entry \in Entry
    BY <1>1, <2>1, HeadTailProperties
  <2>4. QED
    BY <2>1, <2>2, <2>3 DEF Entry
<1>4. /\ QueueOrdered'
      /\ \A j \in DOMAIN queue' : \E i \in DOMAIN queue : queue'[j] = queue[i]
      /\ \A j \in DOMAIN queue' : /\ entry.depth <= queue'[j].depth
                                  /\ queue'[j].depth <= entry.depth + 1
      /\ \A u : \A k : Waiting(u, k) =>
           Waiting(u, k)' \/ (u = entry.url /\ entry.depth <= k)
  BY <1>1, <1>2, <1>3, EntryTaken DEF CrawledAt
<1>5. /\ \A u : Allowed(u)' <=> Allowed(u)
      /\ CrawlStart' = CrawlStart /\ Seed' = Seed
  BY <1>1 DEF Allowed, CrawlStart, Seed
<1> HIDE DEF entry
<1>6. PICK d \in [Urls -> Nat] : /\ d[entry.url] = entry.depth
                                /\ \A u \in crawled : d[u] = c[u]
  <2>1. crawled \subseteq Urls
    BY DEF Typed, DiscoveryTypeOK
  <2>2. [c EXCEPT ![entry.url] = entry.depth] \in [Urls -> Nat]
    BY <1>3
  <2>3. QED
    BY <1>1, <1>3, <2>1, <2>2
<1>7. ASSUME NEW u, NEW k, Covered(c, u, k)
      PROVE  Covered(d, u, k)'
  <2>1. CASE u \in crawled /\ c[u] <= k
    BY <1>1, <1>6, <2>1 DEF Covered, Visited
  <2>2. CASE Waiting(u, k)'
    BY <2>2 DEF Covered
  <2>3. CASE u = entry.url /\ entry.depth <= k
    BY <1>1, <1>6, <2>3 DEF Covered, Visited
  <2>4. QED
    BY <1>4, <1>7, <2>1, <2>2, <2>3 DEF Covered, Visited
<1>8. ASSUME NEW v \in opened, NEW i \in DOMAIN Limited(Links[v])
      PROVE  Followed(d, v, Links[v][i])'
  <2>1. Followed(c, v, Links[v][i])
    BY <1>1, <1>2 DEF CrawledAt
  <2>2. d[v] = c[v]
    BY <1>2, <1>6 DEF CrawledAt
  <2>3. Covered(c, Links[v][i].url, c[v] + 1) => Covered(d, Links[v][i].url, c[v] + 1)'
    BY <1>7
  <2>4. emitted \subseteq emitted' /\ seeds' = seeds /\ known' = known
    BY <1>1
  <2>5. QED
    BY <2>1, <2>2, <2>3, <2>4, FollowedStill
<1>9. ASSUME NEW v \in opened', v \notin opened, NEW i \in DOMAIN Limited(Links[v])
      PROVE  dpc' = "links" /\ v = current'.url /\ Links[v][i] \in Range(links')
  <2>1. /\ dpc' = "links" /\ current' = entry /\ v = entry.url
        /\ links' = Limited(Links[v])
    BY <1>1, <1>9
  <2>2. Links[v] \in Seq(Link)
    BY <1>3, <2>1, DiscoveryConstants
  <2>3. QED
    BY <1>9, <2>1, <2>2, LimitedFirst
<1>10. CrawledAt(d)'
  <2>1. opened' \subseteq crawled'
    BY <1>1, <1>2 DEF CrawledAt
  <2>2. \A u \in crawled' : \A j \in DOMAIN queue' : d[u] <= queue'[j].depth
    BY <1>1, <1>2, <1>4, <1>6 DEF CrawledAt
  <2>3. \A j \in DOMAIN queue' : SourceKept(queue[j])'
    BY <1>2, <1>4, <1>5 DEF CrawledAt, SourceKept
  <2>4. \A u : u = CrawlStart' /\ Allowed(u)' => Covered(d, u, 0)'
    BY <1>2, <1>5, <1>7 DEF CrawledAt
  <2>5. QED
    BY <1>4, <1>8, <1>9, <2>1, <2>2, <2>3, <2>4 DEF CrawledAt
<1>11. ASSUME dpc' = "links" PROVE Reading(d)'
  <2>1. current' = entry /\ entry.url \in opened'
    BY <1>1, <1>11
  <2>2. SourceKept(current)'
    BY <1>2, <1>3, <1>5, <2>1 DEF CrawledAt, SourceKept
  <2>3. \A u \in crawled' : d[u] <= entry.depth
    BY <1>1, <1>2, <1>3, <1>6 DEF CrawledAt
  <2>4. QED
    BY <1>4, <1>6, <2>1, <2>2, <2>3 DEF Reading
<1>12. QED
  BY <1>1, <1>6, <1>10, <1>11 DEF CrawlInv

\* A link that was considered and scores as a programme is known.
LEMMA Considered ==
  ASSUME NEW link, NEW entry, Consider(link, entry), known' = known
  PROVE  /\ emitted \subseteq emitted'
         /\ ~ (Score(link, entry.source = "catalogue") < 20)
              => link.url \in emitted' \cup known'
<1>1. CASE Score(link, entry.source = "catalogue") < 20
  BY <1>1 DEF Consider
<1>2. CASE ~ (Score(link, entry.source = "catalogue") < 20)
  BY <1>2 DEF Consider, StatusOf
<1>3. QED
  BY <1>1, <1>2

\* The scores are natural numbers.
LEMMA ScoreTyped ==
  ASSUME NEW link \in Link, NEW catalogue
  PROVE  Score(link, catalogue) \in Nat
<1>1. PathScore[link.url] \in Nat /\ link.text \in Nat
  BY DiscoveryConstants DEF Link
<1>2. QED
  BY <1>1 DEF Score

\* A link that is read is followed: it waits at the end of the queue, one level
\* down, and it is a candidate if it scores.
LEMMA LinkRead ==
  ASSUME Typed, CrawlInv, ReadLink
  PROVE  CrawlInv'
<1> DEFINE link == Head(links)
<1>1. CASE EndDomain
  BY <1>1 DEF EndDomain, ForgetDomain, CrawlInv, NotYet
<1>2. CASE ~ EndDomain
  <2>1. /\ dpc = "links" /\ dpc' = "links" /\ links # <<>> /\ links' = Tail(links)
        /\ IF Allowed(link.url) THEN Consider(link, current) ELSE UNCHANGED <<emitted, items>>
        /\ queue' = IF Allowed(link.url) /\ current.depth < MaxDepth
                    THEN Append(queue, [url |-> link.url, depth |-> current.depth + 1,
                                        source |-> current.source])
                    ELSE queue
        /\ UNCHANGED <<seeds, crawled, current, opened, known>>
    BY <1>2 DEF ReadLink
  <2>2. PICK d \in [Urls -> Nat] : CrawledAt(d) /\ Reading(d)
    BY <2>1 DEF CrawlInv
  <2>3. /\ links \in Seq(Link) /\ link \in Link /\ queue \in Seq(Entry)
        /\ current \in Entry /\ current.depth \in Nat /\ MoreSeeds
    BY <2>1, HeadTailProperties DEF Typed, DiscoveryTypeOK, Entry, InDomain
  <2>4. \A x \in Range(links) : x = link \/ x \in Range(links')
    BY <2>1, <2>3, AfterHead
  <2>5. /\ \A u : Allowed(u)' <=> Allowed(u)
        /\ CrawlStart' = CrawlStart /\ Seed' = Seed
    BY <2>1 DEF Allowed, CrawlStart, Seed
  <2> DEFINE added == [url |-> link.url, depth |-> current.depth + 1, source |-> current.source]
             further == Allowed(link.url) /\ current.depth < MaxDepth
  <2> HIDE DEF link
  <2>6. /\ added.url = link.url /\ added.depth = current.depth + 1
        /\ added.source = current.source
        /\ Allowed(link.url) => added \in Entry
    BY <2>3, SeedTyped DEF Entry
  <2>7. queue' = IF further THEN Append(queue, added) ELSE queue
    BY <2>1
  <2> HIDE DEF added
  <2>8. /\ \A j \in DOMAIN queue : j \in DOMAIN queue' /\ queue'[j] = queue[j]
        /\ \A j \in DOMAIN queue' : \/ j \in DOMAIN queue /\ queue'[j] = queue[j]
                                    \/ queue'[j] = added /\ \A i \in DOMAIN queue' : i <= j
        /\ further => \E j \in DOMAIN queue' : queue'[j] = added
        /\ DOMAIN queue' \subseteq Nat
    <3>1. CASE further
      <4>1. added \in Entry /\ queue' = Append(queue, added)
        BY <2>6, <2>7, <3>1
      <4>2. Len(queue) \in Nat
        BY <2>3, LenProperties
      <4>3. QED
        BY <2>3, <4>1, <4>2, AtTheEnd
    <3>2. CASE ~ further
      BY <2>3, <2>7, <3>2, LenProperties
    <3>3. QED
      BY <3>1, <3>2
  <2>9. \A j \in DOMAIN queue' :
          current.depth <= queue'[j].depth /\ queue'[j].depth <= current.depth + 1
    BY <2>2, <2>3, <2>6, <2>8 DEF Reading
  <2>10. QueueOrdered'
    <3> SUFFICES ASSUME NEW i \in DOMAIN queue', NEW j \in DOMAIN queue', i <= j
                 PROVE  /\ queue'[i].depth <= queue'[j].depth
                        /\ queue'[j].depth <= queue'[i].depth + 1
      BY DEF QueueOrdered
    <3>1. CASE queue'[j] = added
      <4>1. queue'[j].depth = current.depth + 1
        BY <2>6, <3>1
      <4>2. current.depth <= queue'[i].depth /\ queue'[i].depth <= current.depth + 1
        BY <2>9
      <4>3. queue'[i].depth \in Nat
        <5>1. \A m \in DOMAIN queue : queue[m].depth \in Nat
          <6>1. \A m \in DOMAIN queue : queue[m] \in Entry
            BY <2>3, ElementOfSeq, LenProperties
          <6>2. QED
            BY <6>1 DEF Entry
        <5>2. QED
          BY <2>3, <2>6, <2>8, <5>1
      <4>4. QED
        BY <2>3, <4>1, <4>2, <4>3
    <3>2. CASE j \in DOMAIN queue /\ queue'[j] = queue[j] /\ i \in DOMAIN queue /\ queue'[i] = queue[i]
      BY <2>2, <3>2 DEF CrawledAt, QueueOrdered
    <3>3. CASE \A m \in DOMAIN queue' : m <= i
      <4>1. i = j
        BY <2>8, <3>3
      <4>2. CASE queue'[j] = added
        BY <3>1, <4>2
      <4>3. CASE j \in DOMAIN queue /\ queue'[j] = queue[j]
        BY <3>2, <4>1, <4>3
      <4>4. QED
        BY <2>8, <4>2, <4>3
    <3>4. QED
      BY <2>8, <3>1, <3>2, <3>3
  <2>11. ASSUME NEW u, NEW k, Covered(d, u, k) PROVE Covered(d, u, k)'
    BY <2>1, <2>8, <2>11 DEF Covered, Visited, Waiting
  <2>12. emitted \subseteq emitted'
    BY <2>1, Considered
  <2>13. ASSUME NEW v \in opened, NEW i \in DOMAIN Limited(Links[v]),
                Followed(d, v, Links[v][i])
         PROVE  Followed(d, v, Links[v][i])'
    <3>1. Covered(d, Links[v][i].url, d[v] + 1) => Covered(d, Links[v][i].url, d[v] + 1)'
      BY <2>11
    <3>2. QED
      BY <2>1, <2>12, <2>13, <3>1, FollowedStill
  <2>14. ASSUME NEW v, v = current.url, NEW i, Links[v][i] = link
         PROVE  Followed(d, v, Links[v][i])'
    <3> SUFFICES ASSUME Allowed(link.url)
                 PROVE  /\ d[v] < MaxDepth => Covered(d, Links[v][i].url, d[v] + 1)'
                        /\ Score(Links[v][i], Seed.catalogue # None) >= 20
                             => Links[v][i].url \in emitted' \cup known'
      BY <2>5, <2>14 DEF Followed, Score
    <3>1. d[v] = current.depth
      BY <2>2, <2>14 DEF Reading
    <3>2. ASSUME d[v] < MaxDepth
          PROVE  Waiting(Links[v][i].url, d[v] + 1)'
      <4>1. PICK j \in DOMAIN queue' : queue'[j] = added
        BY <2>8, <3>1, <3>2
      <4>2. queue'[j].url = Links[v][i].url /\ queue'[j].depth <= d[v] + 1
        BY <2>3, <2>6, <2>14, <3>1, <4>1
      <4>3. QED
        BY <4>2 DEF Waiting
    <3>3. ASSUME Score(Links[v][i], Seed.catalogue # None) >= 20
          PROVE  Links[v][i].url \in emitted' \cup known'
      <4>1. (current.source = "catalogue") = (Seed.catalogue # None)
        BY <2>2 DEF Reading, SourceKept
      <4>2. Score(link, current.source = "catalogue") >= 20
        BY <2>14, <3>3, <4>1
      <4>3. Score(link, current.source = "catalogue") \in Nat
        BY <2>3, ScoreTyped
      <4>4. Consider(link, current)
        BY <2>1 DEF link
      <4>5. QED
        BY <2>1, <2>14, <4>2, <4>3, <4>4, Considered
    <3>4. QED
      BY <3>2, <3>3 DEF Covered
  <2>15. CrawledAt(d)'
    <3>1. opened' \subseteq crawled'
      BY <2>1, <2>2 DEF CrawledAt
    <3>2. \A u \in crawled' : \A j \in DOMAIN queue' : d[u] <= queue'[j].depth
      <4> SUFFICES ASSUME NEW u \in crawled, NEW j \in DOMAIN queue'
                   PROVE  d[u] <= queue'[j].depth
        BY <2>1
      <4>1. u \in Urls /\ d[u] <= current.depth
        BY <2>2 DEF Reading, Typed, DiscoveryTypeOK
      <4>2. CASE queue'[j] = added
        BY <2>3, <2>6, <4>1, <4>2
      <4>3. CASE j \in DOMAIN queue /\ queue'[j] = queue[j]
        BY <2>2, <4>3 DEF CrawledAt
      <4>4. QED
        BY <2>8, <4>2, <4>3
    <3>3. \A j \in DOMAIN queue' : SourceKept(queue[j])'
      BY <2>2, <2>5, <2>6, <2>8 DEF CrawledAt, Reading, SourceKept
    <3>4. \A u : u = CrawlStart' /\ Allowed(u)' => Covered(d, u, 0)'
      BY <2>2, <2>5, <2>11 DEF CrawledAt
    <3>5. ASSUME NEW v \in opened', NEW i \in DOMAIN Limited(Links[v])
          PROVE  \/ Followed(d, v, Links[v][i])'
                 \/ dpc' = "links" /\ v = current'.url /\ Links[v][i] \in Range(links')
      <4>1. v \in opened
        BY <2>1, <3>5
      <4>2. CASE Followed(d, v, Links[v][i])
        BY <2>13, <3>5, <4>1, <4>2
      <4>3. CASE v = current.url /\ Links[v][i] \in Range(links)
        BY <2>1, <2>4, <2>14, <4>3
      <4>4. QED
        BY <2>2, <3>5, <4>1, <4>2, <4>3 DEF CrawledAt
    <3>6. QED
      BY <2>10, <3>1, <3>2, <3>3, <3>4, <3>5 DEF CrawledAt
  <2>16. Reading(d)'
    <3>1. SourceKept(current)'
      BY <2>1, <2>2, <2>5 DEF Reading, SourceKept
    <3>2. QED
      BY <2>1, <2>2, <2>9, <3>1 DEF Reading
  <2>17. QED
    BY <2>1, <2>15, <2>16 DEF CrawlInv
<1>3. QED
  BY <1>1, <1>2

\* When the last link of a page is read, nothing of it is left to follow.
LEMMA PageRead ==
  ASSUME Typed, CrawlInv, EndLinks
  PROVE  CrawlInv'
<1>1. /\ dpc = "links" /\ dpc' = "crawl" /\ links = <<>>
      /\ UNCHANGED <<seeds, known, emitted, queue, crawled, opened>>
  BY DEF EndLinks, runVars, domainVars
<1>2. PICK d \in [Urls -> Nat] : CrawledAt(d)
  BY <1>1 DEF CrawlInv
<1>3. Range(links) = {}
  BY <1>1 DEF Range
<1>4. ASSUME NEW v \in opened, NEW i \in DOMAIN Limited(Links[v])
      PROVE  Followed(d, v, Links[v][i])'
  <2>1. Followed(d, v, Links[v][i])
    BY <1>2, <1>3, <1>4 DEF CrawledAt
  <2>2. Covered(d, Links[v][i].url, d[v] + 1) => Covered(d, Links[v][i].url, d[v] + 1)'
    BY <1>1 DEF Covered, Visited, Waiting
  <2>3. QED
    BY <1>1, <2>1, <2>2, FollowedStill
<1>5. CrawledAt(d)'
  <2>1. /\ QueueOrdered' /\ opened' \subseteq crawled'
        /\ \A u \in crawled' : \A j \in DOMAIN queue' : d[u] <= queue'[j].depth
    BY <1>1, <1>2 DEF CrawledAt, QueueOrdered
  <2>2. \A j \in DOMAIN queue' : SourceKept(queue[j])'
    BY <1>1, <1>2 DEF CrawledAt, SourceKept, Seed
  <2>3. \A u : u = CrawlStart' /\ Allowed(u)' => Covered(d, u, 0)'
    BY <1>1, <1>2 DEF CrawledAt, CrawlStart, Allowed, Seed, Covered, Visited, Waiting
  <2>4. QED
    BY <1>1, <1>4, <2>1, <2>2, <2>3 DEF CrawledAt
<1>6. QED
  BY <1>1, <1>5 DEF CrawlInv

\* Outside of a crawl nothing is crawled, and the end of a domain forgets all.
LEMMA NotYetStill ==
  ASSUME CrawlInv,
         \/ /\ dpc \notin {"crawl", "links"} /\ dpc' \notin {"crawl", "links"}
            /\ UNCHANGED <<crawled, opened>>
         \/ dpc' \notin {"crawl", "links"} /\ ForgetDomain
  PROVE  CrawlInv'
BY DEF CrawlInv, NotYet, ForgetDomain

\* Every step of discovery keeps the invariant of the crawl.
LEMMA DiscoveryKeepsCrawl ==
  ASSUME Typed, CrawlInv, DiscoveryNext
  PROVE  CrawlInv'
<1>1. CASE \/ \E file \in SeedFiles : StartDiscovery(file)
           \/ BeginDomain \/ ReadDeclared \/ EndDeclared \/ SkipSitemap \/ EndLocations
           \/ \E answer \in AnswerKinds : FetchSitemap(answer)
  <2>1. /\ dpc \notin {"crawl", "links"} /\ dpc' \notin {"crawl", "links"}
        /\ UNCHANGED <<crawled, opened>>
    BY <1>1 DEF StartDiscovery, BeginDomain, ReadDeclared, EndDeclared, SkipSitemap,
                EndLocations, FetchSitemap, domainVars
  <2>2. QED
    BY <2>1, NotYetStill
<1>2. CASE ReadLocation
  <2>1. \/ /\ dpc \notin {"crawl", "links"} /\ dpc' \notin {"crawl", "links"}
           /\ UNCHANGED <<crawled, opened>>
        \/ dpc' \notin {"crawl", "links"} /\ ForgetDomain
    BY <1>2 DEF ReadLocation, EndDomain
  <2>2. QED
    BY <2>1, NotYetStill
<1>3. CASE EndCrawl \/ Report \/ DiscoveryDies
  <2>1. dpc' \notin {"crawl", "links"} /\ ForgetDomain
    BY <1>3 DEF EndCrawl, EndDomain, Report, DiscoveryDies, DiscoveryEnds
  <2>2. QED
    BY <2>1, NotYetStill
<1>4. CASE BeginCrawl \/ SkipPage \/ ReadLink \/ EndLinks
  BY <1>4, CrawlBegins, PageSkipped, LinkRead, PageRead
<1>5. CASE \E answer \in AnswerKinds : FetchCrawled(answer)
  BY <1>5, PageCrawled
<1>6. QED
  BY <1>1, <1>2, <1>3, <1>4, <1>5 DEF DiscoveryNext, DiscoveryStep

\* Steps that leave discovery alone leave its crawl alone.
LEMMA CrawlLeftAlone ==
  ASSUME CrawlInv, UNCHANGED discoveryVars
  PROVE  CrawlInv'
<1>1. UNCHANGED <<dpc, seeds, known, emitted, queue, crawled, opened, current, links>>
  BY DEF discoveryVars, runVars, domainVars, linkVars
<1>2. ASSUME NEW d PROVE CrawledAt(d)' <=> CrawledAt(d)
  <2>1. Seed' = Seed /\ CrawlStart' = CrawlStart /\ (QueueOrdered' <=> QueueOrdered)
    BY <1>1 DEF Seed, CrawlStart, QueueOrdered
  <2>2. /\ \A u : Allowed(u)' <=> Allowed(u)
        /\ \A u : \A k : Covered(d, u, k)' <=> Covered(d, u, k)
    BY <1>1 DEF Allowed, Seed, Covered, Visited, Waiting
  <2>3. \A v : \A link : Followed(d, v, link)' <=> Followed(d, v, link)
    BY <1>1, <2>1, <2>2 DEF Followed, Score
  <2>4. QED
    BY <1>1, <2>1, <2>2, <2>3 DEF CrawledAt, SourceKept
<1>3. ASSUME NEW d PROVE Reading(d)' <=> Reading(d)
  BY <1>1 DEF Reading, SourceKept, Seed
<1>4. QED
  BY <1>1, <1>2, <1>3 DEF CrawlInv, NotYet

\* The invariant holds throughout, whatever the batch does meanwhile.
LEMMA CrawlInvariant == Spec => []CrawlInv
<1>1. Init => CrawlInv
  BY DEF Init, DiscoveryInit, CrawlInv, NotYet
<1>2. CollectionInv /\ CrawlInv /\ [Next]_vars => CrawlInv'
  <2>1. CollectionInv /\ CrawlInv /\ DiscoveryActs => CrawlInv'
    BY DiscoveryKeepsCrawl DEF DiscoveryActs, CollectionInv
  <2>2. CrawlInv /\ (BatchActs \/ UNCHANGED vars) => CrawlInv'
    BY CrawlLeftAlone DEF BatchActs, vars
  <2>3. QED
    BY <2>1, <2>2 DEF Next
<1>3. QED
  BY CollectionInvariant, <1>1, <1>2, PTL DEF Spec

-----------------------------------------------------------------------------
(***************************************************************************)
(* What a crawl has seen when nothing waits                                *)
(***************************************************************************)

\* Every page of a walk was crawled no deeper than the walk is long there: the
\* first page of a walk to break this would have been found by the one before.
LEMMA WalkCrawled ==
  ASSUME NEW d \in [Urls -> Nat], CrawledAt(d), dpc = "crawl", queue = <<>>,
         \A u \in crawled : Allowed(u), crawled \subseteq Urls,
         NEW walk \in Walks
  PROVE  \A i \in 1..Len(walk) : walk[i] \in opened /\ d[walk[i]] < i
<1>1. PICK n \in 1..MaxDepth : walk \in [1..n -> opened]
  BY DEF Walks
<1>2. n \in Nat /\ Len(walk) = n /\ n <= MaxDepth /\ MaxDepth \in Nat
  BY <1>1, DiscoveryConstants, LenProperties
<1>3. /\ walk[1] = CrawlStart
      /\ \A i \in 1..(n - 1) : walk[i+1] \in LinkedFrom(walk[i])
  BY <1>2 DEF Walks
<1>4. \A u : \A k : ~ Waiting(u, k)
  BY DEF Waiting
<1> DEFINE Late == {i \in 1..n : ~ (d[walk[i]] < i)}
<1>5. ASSUME Late # {} PROVE FALSE
  <2>1. PICK i \in Late : \A m \in Late : i <= m
    <3>1. Late \in SUBSET Nat
      BY <1>2
    <3> HIDE DEF Late
    <3>2. QED
      BY <1>5, <3>1, LeastRow
  <2>2. i \in 1..n /\ walk[i] \in opened /\ walk[i] \in crawled /\ Allowed(walk[i])
    BY <1>1 DEF CrawledAt
  <2>3. CASE i = 1
    <3>1. Visited(d, walk[i], 0)
      BY <1>3, <1>4, <2>2, <2>3 DEF CrawledAt, Covered
    <3>2. QED
      BY <2>1, <2>2, <2>3, <3>1 DEF Visited
  <2>4. CASE i # 1
    <3>1. i - 1 \in 1..(n - 1) /\ i - 1 \in 1..n /\ i = (i - 1) + 1 /\ ~ (i <= i - 1)
      BY <1>2, <2>2, <2>4
    <3>2. i - 1 \notin Late
      BY <2>1, <3>1
    <3> DEFINE v == walk[i-1]
    <3>3. v \in opened /\ d[v] < i - 1 /\ v \in Urls
      BY <1>1, <3>1, <3>2 DEF CrawledAt
    <3>4. PICK j \in DOMAIN Limited(Links[v]) : walk[i] = Links[v][j].url
      BY <1>3, <3>1 DEF LinkedFrom
    <3>5. Followed(d, v, Links[v][j])
      BY <3>3, <3>4 DEF CrawledAt
    <3>6. d[v] < MaxDepth /\ d[v] \in Nat
      BY <1>2, <2>2, <3>3
    <3>7. Visited(d, walk[i], d[v] + 1)
      BY <1>4, <2>2, <3>4, <3>5, <3>6 DEF Followed, Covered
    <3>8. d[walk[i]] <= d[v] + 1 /\ d[walk[i]] \in Nat
      BY <2>2, <3>7 DEF Visited
    <3>9. QED
      BY <2>1, <2>2, <3>3, <3>6, <3>8
  <2>5. QED
    BY <2>3, <2>4
<1>6. QED
  BY <1>1, <1>2, <1>5

\* So what can be reached was crawled.
LEMMA ReachedIsCrawled ==
  ASSUME NEW d \in [Urls -> Nat], CrawledAt(d), dpc = "crawl", queue = <<>>,
         \A u \in crawled : Allowed(u), crawled \subseteq Urls
  PROVE  Reach \subseteq crawled
<1> SUFFICES ASSUME NEW u \in Reach PROVE u \in crawled
  OBVIOUS
<1>1. \A w : \A k : ~ Waiting(w, k)
  BY DEF Waiting
<1>2. CASE u = CrawlStart
  BY <1>1, <1>2 DEF Reach, CrawledAt, Covered, Visited
<1>3. ASSUME NEW walk \in Walks, u \in LinkedFrom(walk[Len(walk)])
      PROVE  u \in crawled
  <2>1. PICK n \in 1..MaxDepth : walk \in [1..n -> opened]
    BY DEF Walks
  <2>2. n \in Nat /\ Len(walk) = n /\ n <= MaxDepth /\ MaxDepth \in Nat /\ n \in 1..n
    BY <2>1, DiscoveryConstants, LenProperties
  <2> DEFINE v == walk[n]
  <2>3. v \in opened /\ d[v] < n /\ v \in Urls
    BY <2>2, WalkCrawled DEF CrawledAt
  <2>4. PICK j \in DOMAIN Limited(Links[v]) : u = Links[v][j].url
    BY <1>3, <2>2 DEF LinkedFrom
  <2>5. Followed(d, v, Links[v][j])
    BY <2>3, <2>4 DEF CrawledAt
  <2>6. d[v] < MaxDepth
    BY <2>2, <2>3
  <2>7. QED
    BY <1>1, <2>4, <2>5, <2>6 DEF Followed, Covered, Visited, Reach
<1>4. QED
  BY <1>2, <1>3 DEF Reach

\* A crawl that ends because nothing waits any more (and not at the target or
\* at max_pages) has visited every page within max_crawl_depth of its start,
\* whatever the site's links are, and lost no programme link of a page it read:
\* pages found again are skipped, but never one that was due sooner.
THEOREM CrawlOverlooksNothing == Spec => []NothingOverlooked
<1>1. CollectionInv /\ CrawlInv => NothingOverlooked
  <2> SUFFICES ASSUME CollectionInv, CrawlInv, dpc = "crawl", queue = <<>>
               PROVE  /\ Reach \subseteq crawled
                      /\ \A v \in opened : \A i \in DOMAIN Limited(Links[v]) :
                           /\ Allowed(Links[v][i].url)
                           /\ Score(Links[v][i], Seed.catalogue # None) >= 20
                           => Links[v][i].url \in emitted \cup known
    BY DEF NothingOverlooked
  <2>1. PICK d \in [Urls -> Nat] : CrawledAt(d)
    BY DEF CrawlInv
  <2>2. crawled \subseteq Urls /\ \A u \in crawled : Allowed(u)
    BY DEF CollectionInv, Typed, DiscoveryTypeOK, Bounded, InDomain
  <2>3. Reach \subseteq crawled
    BY <2>1, <2>2, ReachedIsCrawled
  <2>4. QED
    BY <2>1, <2>3 DEF CrawledAt, Followed
<1>2. QED
  BY CollectionInvariant, CrawlInvariant, <1>1, PTL

-----------------------------------------------------------------------------
(***************************************************************************)
(* What a crawl does not go to                                             *)
(***************************************************************************)

\* u is the start, for k = 0, or it is linked from the end of a walk of k pages.
Found(u, k) ==
  \/ k = 0 /\ u = CrawlStart
  \/ /\ k \in 1..MaxDepth
     /\ \E walk \in [1..k -> opened] :
          /\ walk[1] = CrawlStart
          /\ \A i \in 1..(k - 1) : walk[i+1] \in LinkedFrom(walk[i])
          /\ u \in LinkedFrom(walk[k])

\* What waits was found at the depth it waits with, and what was crawled was
\* found within the depth.
FoundInv ==
  /\ dpc \notin {"crawl", "links"} => NotYet
  /\ dpc \in {"crawl", "links"} =>
       /\ \A j \in DOMAIN queue : Found(queue[j].url, queue[j].depth)
       /\ \A u \in crawled : Allowed(u) /\ \E k \in 0..MaxDepth : Found(u, k)
       /\ opened \subseteq crawled
  /\ dpc = "links" =>
       /\ current.url \in opened /\ Found(current.url, current.depth)
       /\ \A link \in Range(links) : link.url \in LinkedFrom(current.url)

\* What was found stays found while pages are opened.
LEMMA FoundStill ==
  ASSUME NEW u, NEW k, Found(u, k), seeds' = seeds, opened \subseteq opened'
  PROVE  Found(u, k)'
<1>1. CrawlStart' = CrawlStart
  BY DEF CrawlStart, Seed
<1>2. CASE k = 0 /\ u = CrawlStart
  BY <1>1, <1>2 DEF Found
<1>3. ASSUME k \in 1..MaxDepth, NEW walk \in [1..k -> opened],
             walk[1] = CrawlStart,
             \A i \in 1..(k - 1) : walk[i+1] \in LinkedFrom(walk[i]),
             u \in LinkedFrom(walk[k])
      PROVE  Found(u, k)'
  <2>1. walk \in [1..k -> opened']
    BY <1>3
  <2>2. QED
    BY <1>1, <1>3, <2>1 DEF Found
<1>4. QED
  BY <1>2, <1>3 DEF Found

\* A link of a page that was found and opened is found one level below it.
LEMMA FoundNext ==
  ASSUME NEW v \in opened, NEW k \in Nat, Found(v, k), k < MaxDepth, NEW u \in LinkedFrom(v)
  PROVE  Found(u, k + 1)
<1>0. MaxDepth \in Nat /\ k + 1 \in 1..MaxDepth
  BY DiscoveryConstants
<1>1. CASE k = 0 /\ v = CrawlStart
  <2>1. [i \in 1..1 |-> v] \in [1..(k+1) -> opened] /\ [i \in 1..1 |-> v][1] = CrawlStart
        /\ u \in LinkedFrom([i \in 1..1 |-> v][k+1])
    BY <1>1
  <2>2. 1..((k + 1) - 1) = {}
    BY <1>1
  <2>3. QED
    BY <1>0, <2>1, <2>2 DEF Found
<1>2. ASSUME k \in 1..MaxDepth, NEW walk \in [1..k -> opened],
             walk[1] = CrawlStart,
             \A i \in 1..(k - 1) : walk[i+1] \in LinkedFrom(walk[i]),
             v \in LinkedFrom(walk[k])
      PROVE  Found(u, k + 1)
  <2> DEFINE further == [i \in 1..(k+1) |-> IF i = k + 1 THEN v ELSE walk[i]]
  <2>1. further \in [1..(k+1) -> opened] /\ further[k+1] = v /\ further[1] = CrawlStart
    BY <1>2
  <2>2. \A i \in 1..k : further[i] = walk[i]
    BY <1>2
  <2> HIDE DEF further
  <2>3. ASSUME NEW i \in 1..((k + 1) - 1) PROVE further[i+1] \in LinkedFrom(further[i])
    <3>1. CASE i = k
      BY <1>2, <2>1, <2>2, <3>1
    <3>2. CASE i # k
      <4>1. i \in 1..(k - 1) /\ i \in 1..k /\ i + 1 \in 1..k
        BY <1>2, <3>2
      <4>2. QED
        BY <1>2, <2>2, <4>1
    <3>3. QED
      BY <3>1, <3>2
  <2>4. QED
    BY <1>0, <2>1, <2>3 DEF Found
<1>3. QED
  BY <1>1, <1>2 DEF Found

\* A crawl takes what was found.
LEMMA CrawlTakesFound ==
  ASSUME Typed, FoundInv, SkipPage \/ \E answer \in AnswerKinds : FetchCrawled(answer)
  PROVE  FoundInv'
<1> DEFINE entry == Head(queue)
<1>1. /\ dpc = "crawl" /\ queue' = Tail(queue) /\ queue # <<>> /\ seeds' = seeds
      /\ opened \subseteq opened'
      /\ \/ dpc' = "crawl" /\ crawled' = crawled /\ opened' = opened
         \/ Allowed(entry.url) /\ crawled' = crawled \cup {entry.url}
      /\ \/ dpc' = "crawl" /\ opened' = opened
         \/ /\ dpc' = "links" /\ current' = entry /\ opened' = opened \cup {entry.url}
            /\ crawled' = crawled \cup {entry.url}
            /\ links' = Limited(Links[entry.url])
  BY DEF SkipPage, FetchCrawled, MorePages
<1>2. queue \in Seq(Entry)
  BY DEF Typed, DiscoveryTypeOK
<1>3. /\ \A j \in DOMAIN queue' : \E i \in DOMAIN queue : queue'[j] = queue[i]
      /\ 1 \in DOMAIN queue /\ entry = queue[1]
  BY <1>1, <1>2, AfterHead
<1>4. entry \in Entry /\ entry.url \in Urls /\ entry.depth \in Nat
  <2>1. entry \in Entry
    BY <1>1, <1>2, HeadTailProperties
  <2>2. QED
    BY <2>1 DEF Entry
<1>5. Found(entry.url, entry.depth)
  BY <1>1, <1>3 DEF FoundInv
<1> HIDE DEF entry
<1>6. /\ \A u : Allowed(u)' <=> Allowed(u)
      /\ \A u : \A k : Found(u, k) => Found(u, k)'
  BY <1>1, FoundStill DEF Allowed, Seed
<1>7. entry.depth \in 0..MaxDepth
  BY <1>4, <1>5, DiscoveryConstants DEF Found
<1>8. \A j \in DOMAIN queue' : Found(queue[j].url, queue[j].depth)'
  <2> SUFFICES ASSUME NEW j \in DOMAIN queue' PROVE Found(queue[j].url, queue[j].depth)'
    OBVIOUS
  <2>1. PICK i \in DOMAIN queue : queue'[j] = queue[i]
    BY <1>3
  <2>2. PICK u, k : u = queue[i].url /\ k = queue[i].depth
    OBVIOUS
  <2>3. Found(u, k)'
    BY <1>1, <1>6, <2>2 DEF FoundInv
  <2>4. u = queue'[j].url /\ k = queue'[j].depth
    BY <2>1, <2>2
  <2>5. QED
    BY <2>3, <2>4
<1>9. \A u \in crawled' : Allowed(u)' /\ \E k \in 0..MaxDepth : Found(u, k)'
  BY <1>1, <1>5, <1>6, <1>7 DEF FoundInv
<1>10. ASSUME dpc' = "links"
       PROVE  /\ current'.url \in opened' /\ Found(current.url, current.depth)'
              /\ \A link \in Range(links') : link.url \in LinkedFrom(current'.url)
  <2>1. /\ current' = entry /\ entry.url \in opened' /\ links' = Limited(Links[entry.url])
    BY <1>1, <1>10
  <2>2. PICK u, k : u = entry.url /\ k = entry.depth
    OBVIOUS
  <2>3. Found(u, k)' /\ u = current'.url /\ k = current'.depth
    BY <1>5, <1>6, <2>1, <2>2
  <2>4. Found(current.url, current.depth)'
    BY <2>3
  <2>5. \A link \in Range(links') : link.url \in LinkedFrom(entry.url)
    <3>1. Links[entry.url] \in Seq(Link)
      BY <1>4, DiscoveryConstants
    <3>2. QED
      BY <2>1, <3>1, LimitedFirst DEF LinkedFrom, Range
  <2>6. QED
    BY <2>1, <2>4, <2>5
<1>11. opened' \subseteq crawled' /\ dpc' \in {"crawl", "links"}
  BY <1>1 DEF FoundInv
<1>12. QED
  BY <1>8, <1>9, <1>10, <1>11 DEF FoundInv

\* A link that is followed was found one level below its page, and not below
\* the depth.
LEMMA LinksAreFound ==
  ASSUME Typed, FoundInv, ReadLink \/ EndLinks
  PROVE  FoundInv'
<1> DEFINE link == Head(links)
<1>1. CASE dpc' \notin {"crawl", "links"}
  BY <1>1 DEF ReadLink, EndLinks, EndDomain, ForgetDomain, FoundInv, NotYet
<1>2. CASE dpc' \in {"crawl", "links"}
  <2>1. /\ dpc = "links"
        /\ UNCHANGED <<seeds, crawled, opened>>
        /\ \/ dpc' = "crawl" /\ queue' = queue
           \/ /\ dpc' = "links" /\ current' = current /\ links # <<>> /\ links' = Tail(links)
              /\ queue' = IF Allowed(link.url) /\ current.depth < MaxDepth
                          THEN Append(queue, [url |-> link.url, depth |-> current.depth + 1,
                                              source |-> current.source])
                          ELSE queue
    BY <1>2 DEF ReadLink, EndLinks, EndDomain, domainVars
  <2>2. /\ links \in Seq(Link) /\ queue \in Seq(Entry)
        /\ current \in Entry /\ current.depth \in Nat /\ MoreSeeds
    BY <2>1 DEF Typed, DiscoveryTypeOK, Entry, InDomain
  <2>3. /\ \A u : Allowed(u)' <=> Allowed(u)
        /\ \A u : \A k : Found(u, k) => Found(u, k)'
    BY <2>1, FoundStill DEF Allowed, Seed
  <2> DEFINE added == [url |-> link.url, depth |-> current.depth + 1, source |-> current.source]
  <2>4. \A j \in DOMAIN queue' :
          \/ j \in DOMAIN queue /\ queue'[j] = queue[j]
          \/ queue'[j] = added /\ current.depth < MaxDepth /\ links # <<>>
    <3>1. CASE queue' = queue
      BY <3>1
    <3>2. CASE queue' = Append(queue, added) /\ Allowed(link.url) /\ current.depth < MaxDepth
               /\ links # <<>>
      <4>1. added \in Entry
        BY <2>2, <3>2, SeedTyped DEF Entry
      <4> HIDE DEF added
      <4>2. QED
        BY <2>2, <3>2, <4>1, AtTheEnd
    <3>3. QED
      BY <2>1, <3>1, <3>2
  <2>5. links # <<>> => link \in Range(links)
    BY <2>2, AfterHead DEF Range
  <2>6. added.url = link.url /\ added.depth = current.depth + 1
    OBVIOUS
  <2> HIDE DEF added, link
  <2>7. \A j \in DOMAIN queue' : Found(queue[j].url, queue[j].depth)'
    <3> SUFFICES ASSUME NEW j \in DOMAIN queue' PROVE Found(queue[j].url, queue[j].depth)'
      OBVIOUS
    <3>1. PICK u, k : u = queue'[j].url /\ k = queue'[j].depth
      OBVIOUS
    <3>2. CASE j \in DOMAIN queue /\ queue'[j] = queue[j]
      <4>1. Found(u, k)
        BY <2>1, <3>1, <3>2 DEF FoundInv
      <4>2. QED
        BY <2>3, <3>1, <4>1
    <3>3. CASE queue'[j] = added /\ current.depth < MaxDepth /\ links # <<>>
      <4>1. PICK v, n : v = current.url /\ n = current.depth
        OBVIOUS
      <4>2. v \in opened /\ Found(v, n) /\ n \in Nat /\ n < MaxDepth
        BY <2>1, <2>2, <3>3, <4>1 DEF FoundInv
      <4>3. u \in LinkedFrom(v) /\ k = n + 1
        BY <2>1, <2>5, <2>6, <3>1, <3>3, <4>1 DEF FoundInv
      <4>4. Found(u, k)
        BY <4>2, <4>3, FoundNext
      <4>5. QED
        BY <2>3, <3>1, <4>4
    <3>4. QED
      BY <2>4, <3>2, <3>3
  <2>8. ASSUME dpc' = "links"
        PROVE  /\ current'.url \in opened' /\ Found(current.url, current.depth)'
               /\ \A l \in Range(links') : l.url \in LinkedFrom(current'.url)
    <3>1. current' = current /\ links' = Tail(links) /\ links # <<>> /\ opened' = opened
      BY <2>1, <2>8
    <3>2. PICK u, k : u = current.url /\ k = current.depth
      OBVIOUS
    <3>3. Found(u, k)' /\ u = current'.url /\ k = current'.depth
      BY <2>1, <2>3, <3>1, <3>2 DEF FoundInv
    <3>4. Found(current.url, current.depth)'
      BY <3>3
    <3>5. Range(links') \subseteq Range(links)
      BY <2>2, <3>1, AfterHead DEF Range
    <3>6. QED
      BY <2>1, <3>1, <3>4, <3>5 DEF FoundInv
  <2>9. /\ \A u \in crawled' : Allowed(u)' /\ \E k \in 0..MaxDepth : Found(u, k)'
        /\ opened' \subseteq crawled'
    BY <2>1, <2>3 DEF FoundInv
  <2>10. QED
    BY <1>2, <2>7, <2>8, <2>9 DEF FoundInv
<1>3. QED
  BY <1>1, <1>2

\* The start is found before anything is linked.
LEMMA CrawlStartsFound ==
  ASSUME FoundInv, BeginCrawl
  PROVE  FoundInv'
<1>1. /\ dpc' = "crawl" /\ crawled' = {} /\ opened' = {} /\ seeds' = seeds
      /\ DOMAIN queue' = {1} /\ queue'[1].url = CrawlStart /\ queue'[1].depth = 0
  BY DEF BeginCrawl, FoundInv, NotYet, CrawlStart, Start
<1>2. CrawlStart' = CrawlStart
  BY <1>1 DEF CrawlStart, Seed
<1>3. \A j \in DOMAIN queue' : Found(queue[j].url, queue[j].depth)'
  BY <1>1, <1>2 DEF Found
<1>4. QED
  BY <1>1, <1>3 DEF FoundInv

\* Every step of discovery keeps this.
LEMMA DiscoveryKeepsFound ==
  ASSUME Typed, FoundInv, DiscoveryNext
  PROVE  FoundInv'
<1>1. CASE \/ \E file \in SeedFiles : StartDiscovery(file)
           \/ BeginDomain \/ ReadDeclared \/ EndDeclared \/ SkipSitemap \/ EndLocations
           \/ ReadLocation \/ EndCrawl \/ Report \/ DiscoveryDies
           \/ \E answer \in AnswerKinds : FetchSitemap(answer)
  <2>1. /\ dpc' \notin {"crawl", "links"}
        /\ \/ dpc \notin {"crawl", "links"} /\ UNCHANGED <<crawled, opened>>
           \/ ForgetDomain
    <3>1. CASE \/ \E file \in SeedFiles : StartDiscovery(file)
               \/ BeginDomain \/ ReadDeclared \/ EndDeclared \/ SkipSitemap \/ EndLocations
               \/ \E answer \in AnswerKinds : FetchSitemap(answer)
      BY <3>1 DEF StartDiscovery, BeginDomain, ReadDeclared, EndDeclared, SkipSitemap,
                  EndLocations, FetchSitemap, domainVars
    <3>2. CASE ReadLocation \/ EndCrawl \/ Report \/ DiscoveryDies
      BY <3>2 DEF ReadLocation, EndCrawl, EndDomain, Report, DiscoveryDies, DiscoveryEnds
    <3>3. QED
      BY <1>1, <3>1, <3>2
  <2>2. QED
    BY <2>1 DEF FoundInv, NotYet, ForgetDomain
<1>2. CASE BeginCrawl
  BY <1>2, CrawlStartsFound
<1>3. CASE SkipPage \/ \E answer \in AnswerKinds : FetchCrawled(answer)
  BY <1>3, CrawlTakesFound
<1>4. CASE ReadLink \/ EndLinks
  BY <1>4, LinksAreFound
<1>5. QED
  BY <1>1, <1>2, <1>3, <1>4 DEF DiscoveryNext, DiscoveryStep

\* Nor does a step that leaves discovery alone disturb it.
LEMMA FoundLeftAlone ==
  ASSUME FoundInv, UNCHANGED discoveryVars
  PROVE  FoundInv'
<1>1. UNCHANGED <<dpc, seeds, queue, crawled, opened, current, links>>
  BY DEF discoveryVars, runVars, domainVars, linkVars
<1>2. /\ \A u : Allowed(u)' <=> Allowed(u)
      /\ CrawlStart' = CrawlStart
  BY <1>1 DEF Allowed, CrawlStart, Seed
<1>3. \A u : \A k : Found(u, k)' <=> Found(u, k)
  BY <1>1, <1>2 DEF Found
<1>4. QED
  BY <1>1, <1>2, <1>3 DEF FoundInv, NotYet

\* A crawl visits allowed pages within max_crawl_depth links of its start only,
\* links of pages it read itself.
CrawlStaysWithin == dpc \in {"crawl", "links"} => crawled \subseteq Reach

\* However deep a site is, and however its pages link back and forth, the crawl
\* stays within the depth: an entry carries the depth of the page it was linked
\* from, and the links of the deepest pages are judged but not followed.
THEOREM CrawlKeepsWithinDepth == Spec => []CrawlStaysWithin
<1>1. Init => FoundInv
  BY DEF Init, DiscoveryInit, FoundInv, NotYet
<1>2. CollectionInv /\ FoundInv /\ [Next]_vars => FoundInv'
  <2>1. CollectionInv /\ FoundInv /\ DiscoveryActs => FoundInv'
    BY DiscoveryKeepsFound DEF DiscoveryActs, CollectionInv
  <2>2. FoundInv /\ (BatchActs \/ UNCHANGED vars) => FoundInv'
    BY FoundLeftAlone DEF BatchActs, vars
  <2>3. QED
    BY <2>1, <2>2 DEF Next
<1>3. CollectionInv /\ FoundInv => CrawlStaysWithin
  <2> SUFFICES ASSUME CollectionInv, FoundInv, dpc \in {"crawl", "links"}, NEW u \in crawled
               PROVE  u \in Reach
    BY DEF CrawlStaysWithin
  <2>1. u \in Urls /\ Allowed(u)
    BY DEF CollectionInv, Typed, DiscoveryTypeOK, FoundInv
  <2>2. PICK k \in 0..MaxDepth : Found(u, k)
    BY DEF FoundInv
  <2>3. CASE u = CrawlStart
    BY <2>1, <2>3 DEF Reach
  <2>4. ASSUME k \in 1..MaxDepth, NEW walk \in [1..k -> opened],
               walk[1] = CrawlStart,
               \A i \in 1..(k - 1) : walk[i+1] \in LinkedFrom(walk[i]),
               u \in LinkedFrom(walk[k])
        PROVE  u \in Reach
    <3>1. Len(walk) = k
      BY <2>4, LenProperties
    <3>2. walk \in UNION {[1..n -> opened] : n \in 1..MaxDepth}
      BY <2>4
    <3>3. walk \in Walks
      BY <2>4, <3>1, <3>2 DEF Walks
    <3>4. QED
      BY <2>1, <2>4, <3>1, <3>3 DEF Reach
  <2>5. QED
    BY <2>2, <2>3, <2>4 DEF Found
<1>4. QED
  BY CollectionInvariant, <1>1, <1>2, <1>3, PTL DEF Spec
=============================================================================
