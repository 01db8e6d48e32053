------------------------ MODULE MCDiscoverThenBatch ------------------------
(***************************************************************************)
(* A small web for TLC.  The university's front page links to two pages,   *)
(* one of which links to the other, so that the order of the crawl decides *)
(* how deep it gets; its faculty is a subdomain and a seed of its own.  p1 *)
(* is linked from three pages, p1q differs from it in the query only, p2   *)
(* redirects to p2n, and each domain's sitemap index lists itself.         *)
(***************************************************************************)
EXTENDS DiscoverThenBatch, TLC

University == {"front", "map", "index", "a", "b", "c", "p1", "p1q", "news"}
Faculty == {"f_front", "f_map", "f_index", "p2", "p2n"}
MCUrls == University \cup Faculty \cup {"elsewhere"}

MCDomains == {"uni", "fac"}
MCWithin == "uni" :> University \cup Faculty @@ "fac" :> Faculty
MCFrontPage == "uni" :> "front" @@ "fac" :> "f_front"
MCConventional == "uni" :> <<"map", "index">> @@ "fac" :> <<"f_map", "f_index">>

MCFinalOf == [u \in MCUrls |-> IF u = "p2" THEN "p2n" ELSE u]
MCBare == [u \in MCUrls |-> IF u = "p1q" THEN "p1" ELSE u]
MCPathScore == [u \in MCUrls |-> IF u \in {"p1", "p1q", "p2"} THEN 25 ELSE 0]
MCTraps == {"news"}
MCTrapWorded == {"news", "a"}
MCProgrammes == {"p1", "p2", "p2n"}
MCHtml == {"front", "a", "b", "c", "p1", "p1q", "f_front", "p2", "p2n"}

Plain(u) == [url |-> u, text |-> 0, negative |-> FALSE]
Named(u) == [url |-> u, text |-> 15, negative |-> FALSE]
Mentioned(u) == [url |-> u, text |-> 15, negative |-> TRUE]

MCDeclared == "uni" :> {<<Plain("index"), Plain("elsewhere")>>} @@ "fac" :> {None}

MCLinks ==
  "front" :> <<Plain("b"), Mentioned("a"), Plain("p1q"), Plain("news")>>
  @@ "a" :> <<Plain("b"), Plain("p1"), Plain("p1q")>>
  @@ "b" :> <<Named("c"), Plain("p1"), Plain("elsewhere")>>
  @@ "c" :> <<Plain("news"), Plain("p1"), Plain("p1q")>>
  @@ "f_front" :> <<Mentioned("p2n"), Plain("p2"), Plain("f_front")>>
  @@ [u \in MCUrls |-> <<>>]

MCSitemap ==
  "map" :> [kind |-> "urlset", links |-> <<Plain("p1"), Plain("p1q"), Plain("p2")>>]
  @@ "index" :> [kind |-> "index", links |-> <<Plain("index"), Plain("f_map")>>]
  @@ "f_index" :> [kind |-> "index", links |-> <<Plain("f_index")>>]
  @@ [u \in MCUrls |-> [kind |-> "invalid", links |-> <<>>]]

MCAnswers ==
  "map" :> {"page", "error"} @@ "f_map" :> {"blocked"}
  @@ "f_front" :> {"page", "robots_failed"}
  @@ "p1" :> {"error"} @@ "p1q" :> {"error"}
  @@ "p2" :> {"page", "unresolved", "unrecorded"}
  @@ [u \in MCUrls |-> {"page"}]

\* A site that answers every time, and always the same.
SteadyAnswers == [u \in MCUrls |-> {"page"}]

SeedOf(domain, catalogue, sitemap) ==
  [domain |-> domain, catalogue |-> catalogue, sitemap |-> sitemap, valid |-> TRUE]

MCSeedFiles ==
  {<<SeedOf("uni", None, None), SeedOf("fac", "f_front", "f_index"), SeedOf("uni", "a", None)>>,
   <<[SeedOf("fac", "elsewhere", None) EXCEPT !.valid = FALSE]>>}

MCBatchFiles == {<<"p2n", "p1", "p2n">>, <<"p2", None>>}
=============================================================================
