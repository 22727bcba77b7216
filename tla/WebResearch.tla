----------------------------- MODULE WebResearch -----------------------------
(***************************************************************************)
(* web_research (runWebResearch in tools/web.ts): one Exa search, then     *)
(* parallel scrapes of those hits whose URL may be dialled, under what the *)
(* search has left of the caller's time budget, then one source per hit.   *)
(* Scrapes that the soft timer aborts leave their source without content.  *)
(***************************************************************************)
EXTENDS ToolCall, FiniteSetsExt, SequencesExt

CONSTANTS
    Markdown,          \* what pages contain
    NoContent,         \* undefined
    MaxHits,           \* bound: hits of a search
    Budgets,           \* the timeBudgetMs callers choose, below the hard cap
    ResearchTimeout    \* PER_ROUTE_TIMEOUTS_MS.research

ASSUME ResearchAssumption ==
    /\ NoContent \notin Markdown
    /\ MaxHits \in Nat \ {0} /\ ResearchTimeout \in Nat
    /\ Budgets \subseteq 1..ResearchTimeout - 1

VARIABLES
    budget,         \* timeBudgetMs
    researchStep,   \* "search", "scrapes" or "sources"
    hits,           \* the search's hits: whether the URL is safe, what its page holds
    scrapes,        \* one outcome per safe hit: "pending", a Markdown, or NoContent
    softAborted,    \* softController.signal.aborted
    searched        \* history: when the search answered

researchVars == <<budget, researchStep, hits, scrapes, softAborted, searched>>

ResearchInit ==
    /\ budget = 0
    /\ researchStep = "search"
    /\ hits = << >> /\ scrapes = << >>
    /\ softAborted = FALSE
    /\ searched = 0

BeginResearch ==
    /\ Begin("web_research", ResearchTimeout)
    /\ budget' \in Budgets
    /\ UNCHANGED <<researchStep, hits, scrapes, softAborted, searched>>

ResearchFailure(code) == [code |-> code, sources |-> << >>]

\* exa.search throws.
SearchFails ==
    /\ researchStep = "search"
    /\ Settle(ResearchFailure(UpstreamCode))
    /\ UNCHANGED researchVars

\* Hit i's place among the safe hits.
Place(found, i) == Cardinality({j \in 1..i : found[j].safe})

\* safeHits: the safe hits in the order of their places.
SafeCount(found) == Place(found, Len(found))
Safe(found) ==
    [k \in 1..SafeCount(found) |->
        found[CHOOSE i \in DOMAIN found : found[i].safe /\ Place(found, i) = k]]

\* remainingBudget
RemainingBudget(now) == Max({0, budget - now})

\* The search answers.  Without hits, budget or safe hits the sources follow at
\* once; otherwise all safe hits are scraped, under a timer of their own.
SearchAnswers ==
    /\ Running /\ ~aborted
    /\ researchStep = "search"
    /\ hits' \in SeqOf([safe : BOOLEAN, page : Markdown], MaxHits)
    /\ searched' = elapsed
    /\ IF RemainingBudget(elapsed) = 0 \/ SafeCount(hits') = 0
       THEN researchStep' = "sources" /\ UNCHANGED scrapes
       ELSE /\ researchStep' = "scrapes"
            /\ scrapes' = [i \in 1..SafeCount(hits') |-> "pending"]
    /\ UNCHANGED <<callVars, budget, softAborted>>

\* A scrape is fulfilled, its markdown possibly missing or empty.
ScrapeAnswers(i) ==
    /\ Running /\ ~softAborted
    /\ researchStep = "scrapes" /\ scrapes[i] = "pending"
    /\ scrapes' \in {[scrapes EXCEPT ![i] = Safe(hits)[i].page],
                     [scrapes EXCEPT ![i] = NoContent]}
    /\ UNCHANGED <<callVars, budget, researchStep, hits, softAborted, searched>>

\* A scrape is rejected, as every pending one is once the signal is aborted.
ScrapeFails(i) ==
    /\ Running
    /\ researchStep = "scrapes" /\ scrapes[i] = "pending"
    /\ scrapes' = [scrapes EXCEPT ![i] = NoContent]
    /\ UNCHANGED <<callVars, budget, researchStep, hits, softAborted, searched>>

SoftDue ==
    /\ researchStep = "scrapes" /\ ~softAborted
    /\ elapsed = searched + RemainingBudget(searched)

\* softTimer
SoftTimer ==
    /\ Running /\ SoftDue
    /\ softAborted' = TRUE
    /\ UNCHANGED <<callVars, budget, researchStep, hits, scrapes, searched>>

\* Promise.allSettled is through.
ScrapesSettled ==
    /\ Running
    /\ researchStep = "scrapes"
    /\ \A i \in DOMAIN scrapes : scrapes[i] # "pending"
    /\ researchStep' = "sources"
    /\ UNCHANGED <<callVars, budget, hits, scrapes, softAborted, searched>>

SameIndex(i) == i   \* mutant: no back-pointer

\* safeIndexByOriginal
SafeIndex(i) == Place(hits, i)

\* The map over hits in scrapeResearchSources and toResearchSource.
Sources ==
    [i \in DOMAIN hits |->
        IF hits[i].safe /\ SafeIndex(i) \in DOMAIN scrapes
        THEN scrapes[SafeIndex(i)] ELSE NoContent]

\* The result, unless the hard cap has struck meanwhile.
ReturnSources ==
    /\ researchStep = "sources"
    /\ Settle(IF aborted THEN ResearchFailure("TIMEOUT")
              ELSE [code |-> "OK", sources |-> Sources])
    /\ UNCHANGED researchVars

\* Aborted scrapes reject and the code after allSettled runs at once.
ResearchPasses ==
    /\ Pass(SoftDue \/ softAborted \/ researchStep = "sources")
    /\ UNCHANGED researchVars

\* The hard cap's abort reaches the scrapes through onOuterAbort.
ResearchTimer ==
    /\ researchStep # "sources"
    /\ FireTimer
    /\ softAborted' = (softAborted \/ researchStep = "scrapes")
    /\ UNCHANGED <<budget, researchStep, hits, scrapes, searched>>

ResearchNext ==
    \/ BeginResearch
    \/ SearchFails \/ SearchAnswers
    \/ \E i \in DOMAIN scrapes : ScrapeAnswers(i) \/ ScrapeFails(i)
    \/ SoftTimer \/ ScrapesSettled \/ ReturnSources
    \/ ResearchPasses \/ ResearchTimer

\* Clock, timers and continuations run, and an aborted request rejects.
ResearchFairness ==
    LET v == <<callVars, researchVars>> IN
    /\ WF_v(tool = "web_research" /\ (\/ ResearchPasses \/ ResearchTimer \/ SoftTimer
                                      \/ ScrapesSettled \/ ReturnSources))
    /\ WF_v(tool = "web_research" /\ aborted /\ SearchFails)
    /\ WF_v(tool = "web_research" /\ softAborted /\ \E i \in DOMAIN scrapes : ScrapeFails(i))

-----------------------------------------------------------------------------
(* Properties *)

\* A source never carries another hit's page, and a hit that may not be dialled
\* carries none, wherever the unsafe hits stand in the list and whichever scrapes
\* fail or are cut off (partitionSafeHits and its back-pointers).
ContentMatchesHit ==
    call = "answered" /\ tool = "web_research" =>
        \A i \in DOMAIN answer.sources :
            answer.sources[i] # NoContent =>
                hits[i].safe /\ answer.sources[i] = hits[i].page

\* The scrapes end with the caller's time budget: a result comes within the budget,
\* or at the search's answer if that took longer (budgetMs, softTimer).
WithinBudget ==
    call = "answered" /\ tool = "web_research" /\ answer.code = "OK" =>
        elapsed <= Max({budget, searched})
=============================================================================
