------------------------------ MODULE WebCrawl ------------------------------
(***************************************************************************)
(* web_crawl and the single-request Firecrawl tools: runWebCrawl           *)
(* (tools/web.ts), FirecrawlClient.crawl (services/firecrawl.ts) and the   *)
(* polling loop (services/firecrawl-parsers.ts).                           *)
(*                                                                         *)
(* A crawl starts a job, then polls it with a growing pause until it has   *)
(* ended or the soft cap is reached; one last poll then fetches a snapshot *)
(* to resume from.  The clock's unit is any that makes the caps and pauses *)
(* whole numbers; in the code the least pause is 100 ms.                   *)
(***************************************************************************)
EXTENDS ToolCall, FiniteSetsExt

CONSTANTS
    SoftCap,           \* CRAWL_SYNC_SOFT_CAP_MS
    HardCap,           \* PER_ROUTE_TIMEOUTS_MS.crawl
    FirstPause,        \* INITIAL_POLL_INTERVAL_MS
    MaxPause,          \* MAX_POLL_INTERVAL_MS
    MinPause,          \* the 100 ms a pause is not cut below
    SingleTimeouts     \* the one-request tools' PER_ROUTE_TIMEOUTS_MS

SingleTools == {"web_search", "web_scrape", "web_map", "web_extract",
                "web_crawl_start", "web_crawl_status"}

CrawlTools == SingleTools \cup {"web_crawl"}

ASSUME CrawlAssumption ==
    /\ SoftCap \in Nat \ {0} /\ HardCap \in Nat /\ SoftCap < HardCap
    /\ DOMAIN SingleTimeouts = SingleTools
    /\ \A t \in SingleTools : SingleTimeouts[t] \in Nat \ {0}
    /\ FirstPause \in Nat \ {0} /\ MaxPause \in Nat /\ FirstPause <= MaxPause
    /\ MinPause \in Nat \ {0}

VARIABLES
    crawlStep,   \* what the call awaits: "job", "pause", "poll", "snapshot",
                 \* or "single"
    pause,       \* intervalMs
    rest,        \* what is left of the current pause
    waited,      \* history: how long the request under way has been
    slowest      \* history: how long the slowest request of the call was

crawlVars == <<crawlStep, pause, rest, waited, slowest>>

JobStatus == {"scraping", "completed", "failed", "cancelled"}

CrawlInit ==
    /\ crawlStep = "job"
    /\ pause = FirstPause
    /\ rest = 0 /\ waited = 0 /\ slowest = 0

CrawlFailure(code) == [code |-> code, resumable |-> FALSE]

\* crawl(): a snapshot names the job, whatever has become of it.
Snapshot(status) ==
    [code |-> IF status = "completed" THEN "completed" ELSE "in_progress",
     resumable |-> TRUE]

\* startCrawl's request goes out.
BeginCrawl ==
    /\ Begin("web_crawl", HardCap)
    /\ UNCHANGED crawlVars

\* web_search, web_scrape, web_map, web_extract, web_crawl_start and
\* web_crawl_status make one request each, under limits of their own.
BeginSingle(name) ==
    /\ Begin(name, SingleTimeouts[name])
    /\ crawlStep' = "single"
    /\ UNCHANGED <<pause, rest, waited, slowest>>

SingleAnswers ==
    /\ ~aborted
    /\ crawlStep = "single"
    /\ Settle([code |-> "OK", resumable |-> FALSE])
    /\ UNCHANGED crawlVars

InRequest == crawlStep # "pause"

ScheduleIgnoringBudget ==   \* mutant: sleepMs = intervalMs
    IF elapsed >= SoftCap
    THEN crawlStep' = "snapshot" /\ UNCHANGED rest
    ELSE crawlStep' = "pause" /\ rest' = pause'

\* The top of pollCrawlStatus' loop: pause, within the remaining budget or for the
\* least pause, or fetch the snapshot when no budget is left.
Schedule ==
    IF elapsed >= SoftCap
    THEN crawlStep' = "snapshot" /\ UNCHANGED rest
    ELSE /\ crawlStep' = "pause"
         /\ rest' = Min({pause', Max({SoftCap - elapsed, MinPause})})

\* The job is started, its id extracted, and polling begins.
JobStarted ==
    /\ Running /\ ~aborted
    /\ crawlStep = "job"
    /\ pause' = FirstPause
    /\ Schedule
    /\ waited' = 0
    /\ UNCHANGED <<callVars, slowest>>

PauseEnds ==
    /\ Running /\ ~aborted
    /\ crawlStep = "pause" /\ rest = 0
    /\ crawlStep' = "poll"
    /\ UNCHANGED <<callVars, pause, rest, waited, slowest>>

\* getCrawlStatus answers "scraping", or a value parseCrawlStatus takes for it.
StillScraping ==
    /\ Running /\ ~aborted
    /\ crawlStep = "poll"
    /\ pause' = Min({2 * pause, MaxPause})
    /\ Schedule
    /\ waited' = 0
    /\ UNCHANGED <<callVars, slowest>>

JobEnded(status) ==
    /\ ~aborted
    /\ crawlStep = "poll" /\ status # "scraping"
    /\ Settle(Snapshot(status))
    /\ UNCHANGED crawlVars

SnapshotArrives(status) ==
    /\ ~aborted
    /\ crawlStep = "snapshot"
    /\ Settle(Snapshot(status))
    /\ UNCHANGED crawlVars

\* firecrawlRequest throws: transport, status other than 2xx, a body that is no
\* JSON, no job id, or the aborted signal, which delay() obeys as well.
CrawlFails ==
    /\ InRequest \/ aborted
    /\ Settle(CrawlFailure(UpstreamCode))
    /\ UNCHANGED crawlVars

\* The histories are held at the time between the two caps.
CrawlPasses ==
    /\ Pass(crawlStep = "pause" /\ rest = 0)
    /\ IF InRequest
       THEN waited' = Min({waited + 1, HardCap - SoftCap}) /\ UNCHANGED rest
       ELSE rest' = rest - 1 /\ UNCHANGED waited
    /\ slowest' = Max({slowest, waited'})
    /\ UNCHANGED <<crawlStep, pause>>

CrawlTimer == FireTimer /\ UNCHANGED crawlVars

CrawlNext ==
    \/ BeginCrawl
    \/ \E name \in SingleTools : BeginSingle(name)
    \/ SingleAnswers
    \/ JobStarted \/ PauseEnds \/ StillScraping
    \/ \E status \in JobStatus : JobEnded(status) \/ SnapshotArrives(status)
    \/ CrawlFails
    \/ CrawlPasses \/ CrawlTimer

\* Timers and clock run, and an aborted request rejects; Firecrawl owes nothing.
CrawlFairness ==
    LET v == <<callVars, crawlVars>> IN
    /\ WF_v(tool \in CrawlTools /\ (CrawlPasses \/ CrawlTimer \/ PauseEnds))
    /\ WF_v(tool \in CrawlTools /\ aborted /\ CrawlFails)

-----------------------------------------------------------------------------
(* Properties *)

\* A crawl is lost to the hard cap, its job id with it, only if one of its requests
\* had taken more than half of the time between the two caps less one least pause:
\* pauses use up no more of what the last poll and the snapshot need, although the
\* last one may outlast the soft cap (pollCrawlStatus).
ResumableUnlessSlow ==
    call = "answered" /\ tool = "web_crawl" /\ answer.code = "TIMEOUT" =>
        2 * slowest > HardCap - SoftCap - MinPause
=============================================================================
