----------------------------- MODULE ResearchWorker -----------------------------
(***************************************************************************)
(* The research worker (services/research_worker): planning and paging a   *)
(* search, ranking its results, fetching a page through pinned public      *)
(* addresses, and crawling one site breadth-first from a checkpoint that   *)
(* outlives the crawl.  What the sites answer is external.                 *)
(***************************************************************************)
EXTENDS Totals, SequencesExt

CONSTANTS
    Canonical,      \* url as written -> canonical url, or NoUrl
    Site,           \* canonical url -> what it answers
    LinkGraphs,     \* canonical url -> the urls the page links to, in order
    Seed, MaxDepth, MaxBodyBytes, MaxRedirects,
    CrawlBudgets,   \* [pages, bytes]
    Searches,       \* search requests, with the catalog they are asked of
    PageMaximum,    \* max_page_size of the provider
    BrokerCalls,    \* [url, allow]
    Questions,      \* [length, terms, markers]
    NoUrl, NoPage, MaxCrawls

ASSUME ResearchAssumption ==
    /\ MaxDepth \in Nat /\ MaxRedirects \in Nat /\ PageMaximum \in Nat
    /\ Seed \in DOMAIN Site /\ NoUrl \notin DOMAIN Site
    /\ \A u \in DOMAIN Site : Site[u].location \in DOMAIN Site \cup {NoUrl}
    /\ \A w \in DOMAIN Canonical : Canonical[w] \in DOMAIN Site \cup {NoUrl}
    /\ \A g \in LinkGraphs, u \in DOMAIN Site : g[u] \in Seq(DOMAIN Canonical)
    /\ \A r \in Searches : DOMAIN r.catalog = 1 .. Len(r.catalog) /\ Len(r.catalog) \in Nat

VARIABLES links, crawl, planned, search, brokered

researchVars == <<links, crawl, planned, search, brokered>>

-----------------------------------------------------------------------------
(* SafePinnedFetcher.                                                      *)

Failed == [ok |-> FALSE]

\* resolve_public: one public address is enough, and the connection is pinned to it.
ResolvedPublic(url) == Site[url].https /\ \E a \in Site[url].addresses : a = "public"

\* fetch: the response at the end of at most MaxRedirects redirects.
FetchWithin ==
    LET Within[hops \in 0 .. MaxRedirects] == [url \in DOMAIN Site |->
            LET site == Site[url] IN
            IF ~ResolvedPublic(url) \/ site.answer = "error" THEN Failed
            ELSE IF site.answer = "redirect"
                 THEN IF hops = 0 \/ site.location = NoUrl \/ ~Site[site.location].https THEN Failed
                      ELSE Within[hops - 1][site.location]
            ELSE IF site.bytes > MaxBodyBytes \/ ~site.readable THEN Failed
            ELSE [ok |-> TRUE, final |-> url, bytes |-> site.bytes]]
    IN Within

Fetched(url) == FetchWithin[MaxRedirects][url]

\* fetch_https of the broker for sandboxed workers: every address must be public, every
\* hop on the allowlist, and any status is an answer.
BrokerWithin(allow) ==
    LET Within[hops \in 0 .. MaxRedirects] == [url \in DOMAIN Site |->
            LET site == Site[url] IN
            IF ~site.https \/ site.credentials \/ (allow # {} /\ site.host \notin allow) \/ site.port # 443
               \/ site.addresses # {"public"} THEN Failed
            ELSE IF site.answer = "redirect"
                 THEN IF hops = 0 \/ site.location = NoUrl THEN Failed
                      ELSE Within[hops - 1][site.location]
            ELSE IF site.bytes > MaxBodyBytes THEN Failed
            ELSE [ok |-> TRUE, final |-> url, bytes |-> site.bytes]]
    IN Within

-----------------------------------------------------------------------------
(* The crawl.                                                              *)

\* The links of a fetched page, resolved where the redirects ended (ReadableExtractor).
LinksOf(page) == [i \in DOMAIN links[page.final] |-> Canonical[links[page.final][i]]]

SameHost(url) == Site[url].host = Site[Seed].host

\* dict.fromkeys keeps the first of equals.
Deduplicate(seq) == Kept(seq, {i \in DOMAIN seq : \A j \in 1 .. i - 1 : seq[j] # seq[i]})

\* The links of the page that lead to a url of the host which was not handled.
NewLinks(page, handled) ==
    LET found == LinksOf(page)
    IN Kept(found, {i \in DOMAIN found : found[i] # NoUrl /\ SameHost(found[i]) /\ found[i] \notin handled})

\* Mutant: the pages at the depth limit are followed too.
Extended_Deeper(frontier, page, depth, handled) ==
    IF depth > MaxDepth THEN frontier
    ELSE LET new == NewLinks(page, handled)
         IN Deduplicate(frontier \o [i \in DOMAIN new |-> <<new[i], depth + 1>>])

\* New urls go to the end.
Extended(frontier, page, depth, handled) ==
    IF depth >= MaxDepth THEN frontier
    ELSE LET new == NewLinks(page, handled)
         IN Deduplicate(frontier \o [i \in DOMAIN new |-> <<new[i], depth + 1>>])

\* Mutant: the newest url is taken first.
NextUrl_Newest(frontier) == Last(frontier)

NextUrl(frontier) == Head(frontier)

Rest(frontier) == Kept(frontier, {i \in DOMAIN frontier : frontier[i] # NextUrl(frontier)})

\* The urls that were lost before a checkpoint are known to the properties only.
NewCheckpoint == [frontier |-> <<<<Seed, 0>>>>, visited |-> {}, bytes |-> 0, lost |-> {}]

Saved(c) == [frontier |-> c.frontier, visited |-> c.visited, bytes |-> c.bytes, lost |-> c.lost]

Stopped(reason) ==
    crawl' = [crawl EXCEPT !.at = "idle", !.checkpoint = Saved(crawl), !.reason = reason]

OtherResearch == UNCHANGED <<links, planned, search, brokered>>

BeginCrawl(limits, checkpoint) ==
    /\ crawl.at = "idle" /\ crawl.crawls < MaxCrawls
    /\ crawl' = [crawl EXCEPT !.at = "running", !.crawls = @ + 1, !.limits = limits, !.reason = "none",
                              !.frontier = checkpoint.frontier, !.visited = checkpoint.visited,
                              !.handled = checkpoint.visited, !.bytes = checkpoint.bytes,
                              !.lost = checkpoint.lost]
    /\ OtherResearch

PageLimit == Cardinality(crawl.visited) >= crawl.limits.pages
ByteLimit == crawl.bytes >= crawl.limits.bytes

\* The limits are looked at before a url is taken; the time may be up at any of them.
CrawlStops ==
    /\ crawl.at = "running"
    /\ IF crawl.frontier = <<>> THEN Stopped("frontier_exhausted")
       ELSE IF PageLimit THEN Stopped("max_pages")
       ELSE IF ByteLimit THEN Stopped("max_bytes")
       ELSE Stopped("max_time")
    /\ OtherResearch

Taking ==
    /\ crawl.at = "running" /\ crawl.frontier # <<>>
    /\ ~PageLimit /\ ~ByteLimit

CrawlSkips ==
    /\ Taking
    /\ LET url == NextUrl(crawl.frontier)[1]
           depth == NextUrl(crawl.frontier)[2]
       IN /\ url \in crawl.handled \/ depth > MaxDepth \/ ~SameHost(url) \/ ~Site[url].allowed
          /\ crawl' = [crawl EXCEPT !.frontier = Rest(@),
                 !.handled = IF url \notin @ /\ depth <= MaxDepth /\ SameHost(url)
                             THEN @ \cup {url} ELSE @]
    /\ OtherResearch

Fetchable(url, depth) ==
    url \notin crawl.handled /\ depth <= MaxDepth /\ SameHost(url) /\ Site[url].allowed

\* A page that would exceed the byte budget has left the frontier and is not visited.
CrawlFetches ==
    /\ Taking
    /\ LET url == NextUrl(crawl.frontier)[1]
           depth == NextUrl(crawl.frontier)[2]
           page == Fetched(url)
           taken == [crawl EXCEPT !.frontier = Rest(@), !.bytes = @ + page.bytes]
           exceeded == [taken EXCEPT !.at = "idle", !.reason = "max_bytes", !.lost = @ \cup {url}]
       IN /\ Fetchable(url, depth) /\ page.ok
          /\ IF taken.bytes > crawl.limits.bytes
             THEN crawl' = [exceeded EXCEPT !.checkpoint = Saved(exceeded)]
             ELSE crawl' = [taken EXCEPT !.visited = @ \cup {url}, !.handled = @ \cup {url},
                                !.frontier = Extended(@, page, depth, crawl.handled \cup {url})]
    /\ OtherResearch

\* A fetch that fails, by what the site answers or on the way, ends the crawl without a
\* checkpoint: the caller has the one it began from.
CrawlRaises ==
    /\ Taking
    /\ Fetchable(NextUrl(crawl.frontier)[1], NextUrl(crawl.frontier)[2])
    /\ crawl' = [crawl EXCEPT !.at = "idle", !.reason = "raised"]
    /\ OtherResearch

-----------------------------------------------------------------------------
(* Search.                                                                 *)

\* QueryPlanner.plan: the primary query and its variants, at most 24 of them.
Queries(question) ==
    <<"primary", "precision">> \o (IF question.terms THEN <<"recall">> ELSE <<>>)
    \o <<"official", "official_site">>
    \o (IF "current" \in question.markers THEN <<"freshness">> ELSE <<>>)
    \o (IF "technical" \in question.markers THEN <<"reference", "changelog">> ELSE <<>>)
    \o (IF "local" \in question.markers THEN <<"official_local">> ELSE <<>>)
    \o (IF "compare" \in question.markers THEN <<"benchmark">> ELSE <<>>)

\* validate_freshness, validate_domains and _validate_supported_request.
SearchRejected(r) ==
    \/ r.limit \notin 1 .. 100
    \/ r.mode = "between" /\ r.after >= r.before
    \/ r.include \cap r.exclude # {}
    \/ r.limit > PageMaximum
    \/ r.language \notin {"any", "en"}
    \/ r.exclude # {} /\ ~r.excludes

TierRank(tier) == CASE tier = "strict" -> 0 [] tier = "moderate" -> 1 [] tier = "off" -> 2

\* _matches
Matches(entry, r) ==
    /\ r.language \in {"any", entry.language}
    /\ TierRank(entry.tier) <= TierRank(r.safe)
    /\ r.mode # "any" => entry.published # NoPage
    /\ r.mode \in {"after", "between"} => entry.published > r.after
    /\ r.mode \in {"before", "between"} => entry.published < r.before
    /\ r.include # {} => entry.host \in r.include
    /\ entry.host \notin r.exclude
    /\ r.query \in entry.words

Filtered(r) == Kept(r.catalog, {i \in DOMAIN r.catalog : Matches(r.catalog[i], r)})

Smaller(a, b) == IF a <= b THEN a ELSE b

\* _search: one page from the offset of the cursor, with a cursor when more is left.
ResultPage(r, offset) ==
    LET found == Filtered(r)
        size == Smaller(r.limit, PageMaximum)
    IN [results |-> SubSeq(found, offset + 1, Smaller(offset + size, Len(found))),
        more |-> offset + size < Len(found)]

\* rank_results: a url or text that an earlier result has is dropped, the others are
\* ordered by score; the more results of a provider come before, the less it adds.
Distinct(results) ==
    LET repeated(i) == \E j \in 1 .. i - 1 :
            results[j].url = results[i].url \/ results[j].text = results[i].text
    IN {i \in DOMAIN results : ~repeated(i)}

RankScore(results, i) ==
    LET before == {j \in Distinct(results) : j <= i /\ results[j].provider = results[i].provider}
    IN results[i].merit + 15 \div Cardinality(before)

RankedResults(results) ==
    SetToSortSeq(Distinct(results), LAMBDA i, j :
        \/ RankScore(results, i) > RankScore(results, j)
        \/ RankScore(results, i) = RankScore(results, j) /\ i < j)

PlanQueries(question) ==
    /\ planned = <<>>
    /\ planned' = IF question.length \in 3 .. 2048 THEN Queries(question) ELSE <<"research_query_invalid">>
    /\ UNCHANGED <<links, crawl, search, brokered>>

BeginSearch(r) ==
    /\ search.at = "idle"
    /\ search' = [at |-> IF SearchRejected(r) THEN "rejected" ELSE "paging", request |-> r, offset |-> 0,
                  results |-> <<>>, ranked |-> <<>>]
    /\ UNCHANGED <<links, crawl, planned, brokered>>

\* A cursor names its provider and its query; one that does not match is refused.
NextResults(matches) ==
    /\ search.at = "paging"
    /\ LET page == ResultPage(search.request, search.offset) IN
       search' = IF ~matches /\ search.offset > 0 THEN [search EXCEPT !.at = "rejected"]
                 ELSE [search EXCEPT !.results = @ \o page.results, !.offset = @ + Len(page.results),
                                     !.at = IF page.more THEN "paging" ELSE "paged"]
    /\ UNCHANGED <<links, crawl, planned, brokered>>

RankFound ==
    /\ search.at = "paged"
    /\ search' = [search EXCEPT !.at = "ranked", !.ranked = RankedResults(search.results)]
    /\ UNCHANGED <<links, crawl, planned, brokered>>

Broker(call) ==
    /\ brokered = NoPage
    /\ brokered' = BrokerWithin(call.allow)[MaxRedirects][call.url]
    /\ UNCHANGED <<links, crawl, planned, search>>

-----------------------------------------------------------------------------
ResearchInit ==
    /\ links \in LinkGraphs
    /\ crawl = [at |-> "idle", crawls |-> 0, limits |-> NoPage, frontier |-> <<>>, visited |-> {},
                handled |-> {}, bytes |-> 0, checkpoint |-> NewCheckpoint, reason |-> "none",
                lost |-> {}]
    /\ planned = <<>>
    /\ search = [at |-> "idle"]
    /\ brokered = NoPage

CrawlNext ==
    \/ \E limits \in CrawlBudgets, c \in {NewCheckpoint, crawl.checkpoint} : BeginCrawl(limits, c)
    \/ CrawlStops
    \/ CrawlSkips
    \/ CrawlFetches
    \/ CrawlRaises

SearchNext ==
    \/ \E r \in Searches : BeginSearch(r)
    \/ \E matches \in BOOLEAN : NextResults(matches)
    \/ RankFound

LookupNext ==
    \/ \E question \in Questions : PlanQueries(question)
    \/ \E call \in BrokerCalls : Broker(call)

ResearchNext == CrawlNext \/ SearchNext \/ LookupNext

ResearchSpec == ResearchInit /\ [][ResearchNext]_researchVars

-----------------------------------------------------------------------------
ResearchTypeOK ==
    /\ crawl.at \in {"idle", "running"}
    /\ crawl.visited \subseteq crawl.handled /\ crawl.handled \subseteq DOMAIN Site
    /\ \A i \in DOMAIN crawl.frontier : crawl.frontier[i][2] \in 0 .. MaxDepth
    /\ Len(planned) <= 24
    /\ search.at \in {"idle", "rejected", "paging", "paged", "ranked"}

\* The pages within `depth` links of the seed, through pages that are not lost.
WithinDepth ==
    LET Within[depth \in 0 .. MaxDepth] ==
            IF depth = 0 THEN {Seed}
            ELSE Within[depth - 1] \cup
                 UNION {ToSet(LinksOf(Fetched(p))) \ {NoUrl} : p \in {p \in Within[depth - 1] \ crawl.lost :
                            SameHost(p) /\ Site[p].allowed /\ Fetched(p).ok}}
    IN Within

Wanted == {p \in WithinDepth[MaxDepth] : SameHost(p) /\ Site[p].allowed /\ p \notin crawl.lost}

\* However often a crawl was stopped, cut short by an error and resumed from a
\* checkpoint, it reports an exhausted frontier only when every page of the seed's host
\* within the depth limit that robots.txt allows was visited, except those whose fetch
\* exceeded the byte budget; and a search paged to its end, with every cursor it was
\* given, returned each matching entry once and in order (ResearchCrawler.crawl,
\* DeterministicFixtureSearchProvider._search).
ResearchComplete ==
    /\ crawl.reason = "frontier_exhausted" => Wanted \subseteq crawl.visited
    /\ search.at \in {"paged", "ranked"} => search.results = Filtered(search.request)
=============================================================================
