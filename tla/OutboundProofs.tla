---------------------------- MODULE OutboundProofs ----------------------------
(***************************************************************************)
(* Theorems about the outbound tools and the metadata flight, for every    *)
(* cap, limit and number of redirects, hits and overlapping lookups, and   *)
(* whatever servers answer and however they cut it into chunks.            *)
(*                                                                         *)
(* Each tool has an invariant of its own, which holds while one of its     *)
(* calls runs or has been answered; OutboundInv puts them together.        *)
(***************************************************************************)
EXTENDS Outbound, FiniteSetTheorems, TLAPS

LEMMA MaxOfTwo ==
    ASSUME NEW a \in Int, NEW b \in Int
    PROVE  Max({a, b}) = IF a >= b THEN a ELSE b
  BY DEF Max

LEMMA MinOfTwo ==
    ASSUME NEW a \in Int, NEW b \in Int
    PROVE  Min({a, b}) = IF a <= b THEN a ELSE b
  BY DEF Min

-----------------------------------------------------------------------------
(* web_fetch, web_get and the GraphQL tools *)

\* While the body is read nothing has been withheld, and the one open response is
\* that of the present hop; an answer that refuses a redirect leaves it open.
FetchInv ==
    /\ call \in {"running", "answered"}
    /\ fetchArgs.format \in {"auto", "json", "text", "binary"}
    /\ awaiting \in {"fetch", "body"}
    /\ offered \in Nat /\ total \in Nat /\ total <= MaxBodyBytes
    /\ call = "running" => /\ total = offered
                           /\ openStreams = IF awaiting = "body" THEN {hop} ELSE {}
    /\ call = "answered" =>
         openStreams = IF answer.reason = "redirect" THEN {hop} ELSE {}
    /\ TruncationTold

LEMMA FetchBegins ==
    ASSUME CallInit, FetchInit, FetchNext
    PROVE  FetchInv' /\ tool' \in FetchTools
<1>1. call = "idle" /\ BeginFetch
  BY DEF CallInit, FetchNext, FetchRejects, LastResponse, FollowRedirect, DiscardFails,
         RefuseRedirect, Arrives, ReadChunk, EndOfBody, Truncate, CutChunk, CancelFails,
         BodyLost, Drained, BodyFails, FetchClock, Pass, FireTimer, Settle, Running
<1>2. PICK name \in FetchTools : /\ Begin(name, FetchTimeout)
                                 /\ fetchArgs' \in Options(name)
  BY <1>1 DEF BeginFetch, Calls, FetchTools
<1>3. fetchArgs'.format \in {"auto", "json", "text", "binary"}
  BY <1>2 DEF Options
<1>4. /\ call' = "running" /\ tool' \in FetchTools
      /\ awaiting' = "fetch" /\ total' = 0 /\ offered' = 0 /\ openStreams' = {}
  BY <1>1, <1>2 DEF BeginFetch, FetchInit, Begin
<1>5. QED
  BY <1>3, <1>4, FetchAssumption DEF FetchInv, TruncationTold

LEMMA FetchWaits ==
    ASSUME FetchInv, Running,
           LastResponse \/ FollowRedirect \/ ReadChunk \/ FetchClock
    PROVE  FetchInv' /\ tool' = tool
<1>1. call = "running" /\ call' = "running" /\ tool' = tool /\ fetchArgs' = fetchArgs
  BY DEF Running, LastResponse, FollowRedirect, ReadChunk, FetchClock, Pass, FireTimer,
         callVars, fetchVars
<1>2. TruncationTold'
  BY <1>1 DEF TruncationTold
<1>3. CASE LastResponse
  <2>1. /\ awaiting' = "body" /\ hop' = hop /\ openStreams' = openStreams \cup {hop}
        /\ UNCHANGED <<total, offered>> /\ awaiting = "fetch"
    BY <1>3 DEF LastResponse, Arrives
  <2>2. QED
    BY <1>1, <1>2, <2>1 DEF FetchInv
<1>4. CASE FollowRedirect
  <2>1. /\ awaiting = "fetch" /\ awaiting' = "fetch" /\ UNCHANGED <<total, offered>>
        /\ openStreams' = (openStreams \cup {hop}) \ {hop}
    BY <1>4 DEF FollowRedirect, Arrives, StreamsCancelled
  <2>2. QED
    BY <1>1, <1>2, <2>1 DEF FetchInv
<1>5. CASE ReadChunk
  <2>1. PICK chunk \in 1..MaxChunk : /\ chunk <= MaxBodyBytes - total
                                     /\ total' = total + chunk /\ offered' = offered + chunk
    BY <1>5 DEF ReadChunk, ChunkFits
  <2>2. awaiting = "body" /\ UNCHANGED <<awaiting, hop, openStreams>>
    BY <1>5 DEF ReadChunk
  <2>3. total' \in Nat /\ offered' \in Nat /\ total' <= MaxBodyBytes /\ total' = offered'
    BY <1>1, <2>1, FetchAssumption DEF FetchInv
  <2>4. QED
    BY <1>1, <1>2, <2>2, <2>3 DEF FetchInv
<1>6. CASE FetchClock
  BY <1>1, <1>2, <1>6 DEF FetchClock, FetchInv, fetchVars
<1>7. QED
  BY <1>1, <1>3, <1>4, <1>5, <1>6

\* A chunk that does not fit fills up the cap, and more was sent.
LEMMA CutFillsUp ==
    ASSUME FetchInv, Running, CutChunk
    PROVE  /\ total' \in Nat /\ offered' \in Nat
           /\ total' = MaxBodyBytes /\ offered' > MaxBodyBytes
<1>1. /\ total \in Nat /\ offered \in Nat /\ total = offered /\ total <= MaxBodyBytes
      /\ MaxBodyBytes \in Nat
  BY FetchAssumption DEF FetchInv, Running
<1>2. MaxBodyBytes - total \in Nat
  BY <1>1
<1>3. Max({MaxBodyBytes - total, 0}) = MaxBodyBytes - total
  BY <1>2, MaxOfTwo
<1>4. total' = MaxBodyBytes
  BY <1>1, <1>3 DEF CutChunk
<1>5. PICK chunk \in 1..MaxChunk :
          ~(chunk <= MaxBodyBytes - total) /\ offered' = offered + chunk
  BY DEF CutChunk, ChunkFits
<1>6. offered' \in Nat /\ offered' > MaxBodyBytes
  BY <1>1, <1>5, FetchAssumption
<1>7. QED
  BY <1>1, <1>4, <1>6

\* A call that ends before or without a whole body.
LEMMA FetchFails ==
    ASSUME FetchInv, Running,
           FetchRejects \/ DiscardFails \/ RefuseRedirect \/ CancelFails \/ BodyFails
    PROVE  FetchInv' /\ tool' = tool
<1>1. /\ call = "running" /\ call' = "answered" /\ tool' = tool
      /\ UNCHANGED <<fetchArgs, awaiting, hop>>
      /\ answer'.code # "OK"
  BY DEF Running, FetchRejects, DiscardFails, RefuseRedirect, CancelFails, BodyFails, BodyLost,
         Settle, Failure, FailedFor, UpstreamCode, fetchVars
<1>2. TruncationTold'
  BY <1>1 DEF TruncationTold
<1>3. openStreams' = IF answer'.reason = "redirect" THEN {hop} ELSE {}
  BY <1>1 DEF FetchInv, FetchRejects, DiscardFails, RefuseRedirect, CancelFails, CutChunk,
              BodyFails, BodyLost, Settle, Failure, FailedFor, Arrives, fetchVars
<1>4. offered' \in Nat /\ total' \in Nat /\ total' <= MaxBodyBytes
  <2>1. CASE CancelFails
    BY <2>1, CutFillsUp DEF CancelFails
  <2>2. CASE FetchRejects \/ DiscardFails \/ RefuseRedirect \/ BodyFails
    <3>1. UNCHANGED <<total, offered>>
      BY <2>2 DEF FetchRejects, DiscardFails, RefuseRedirect, BodyFails, fetchVars
    <3>2. QED
      BY <3>1 DEF FetchInv
  <2>3. QED
    BY <2>1, <2>2
<1>5. QED
  BY <1>1, <1>2, <1>3, <1>4 DEF FetchInv

\* What decodeResponseBody and toGraphqlResult make of a body.
LEMMA DecodedHonest ==
    ASSUME FetchInv, NEW truncated \in BOOLEAN, NEW content \in Content
    PROVE  /\ Answer(Decoded(truncated, content), content).reason = "none"
           /\ Answer(Decoded(truncated, content), content).code = "OK" =>
                /\ Answer(Decoded(truncated, content), content).truncated = truncated
                /\ Answer(Decoded(truncated, content), content).format = "json" => ~truncated
<1>1. fetchArgs.format \in {"auto", "json", "text", "binary"}
  BY DEF FetchInv
<1> DEFINE d == Decoded(truncated, content)
<1>2. /\ d.reason = "none"
      /\ d.code = "OK" => d.truncated = truncated
      /\ d.format = "json" => d.code = "OK" /\ ~truncated
  BY <1>1 DEF Decoded, Failure, FailedFor, Result
<1>3. d \in [code : {"OK", "BAD_REQUEST"}, format : {"none", "json", "text", "binary"},
             truncated : BOOLEAN, reason : {"none"}]
  BY <1>1 DEF Decoded, Failure, FailedFor, Result
<1> HIDE DEF d
<1>4. CASE Answer(d, content) = d
  BY <1>2, <1>4 DEF d
<1>5. CASE Answer(d, content) = [d EXCEPT !.code = "NOT_JSON"]
  <2>1. Answer(d, content).code = "NOT_JSON" /\ Answer(d, content).reason = d.reason
    BY <1>3, <1>5
  <2>2. QED
    BY <1>2, <2>1 DEF d
<1>6. QED
  BY <1>4, <1>5 DEF Answer

LEMMA FetchReads ==
    ASSUME FetchInv, Running, EndOfBody \/ Truncate
    PROVE  FetchInv' /\ tool' = tool
<1>1. PICK truncated \in BOOLEAN, content \in Content :
          /\ answer' = Answer(Decoded(truncated, content), content)
          /\ \/ ~truncated /\ UNCHANGED <<total, offered>>
             \/ truncated /\ CutChunk
  BY DEF EndOfBody, Truncate, Drained, Settle
<1>2. /\ call = "running" /\ call' = "answered" /\ tool' = tool
      /\ awaiting = "body" /\ UNCHANGED <<fetchArgs, awaiting, hop>>
      /\ openStreams' = openStreams \ {hop}
  BY DEF Running, EndOfBody, Truncate, CutChunk, Drained, Settle
<1>3. /\ total \in Nat /\ offered \in Nat /\ total = offered /\ total <= MaxBodyBytes
      /\ openStreams = {hop} /\ MaxBodyBytes \in Nat
  BY <1>2, FetchAssumption DEF FetchInv
<1>4. /\ total' \in Nat /\ offered' \in Nat /\ total' <= MaxBodyBytes
      /\ truncated <=> offered' > total'
      /\ total' = IF offered' <= MaxBodyBytes THEN offered' ELSE MaxBodyBytes
  <2>1. CASE ~truncated
    BY <1>1, <1>3, <2>1
  <2>2. CASE truncated
    BY <1>1, <1>3, <2>2, CutFillsUp
  <2>3. QED
    BY <2>1, <2>2
<1>5. total' = Min({offered', MaxBodyBytes})
  BY <1>3, <1>4, MinOfTwo
<1>6. /\ answer'.reason = "none"
      /\ answer'.code = "OK" => /\ answer'.truncated = truncated
                                /\ answer'.format = "json" => ~truncated
  BY <1>1, DecodedHonest
<1>7. answer'.code = "OK" => /\ answer'.truncated <=> offered' > total'
                             /\ answer'.format = "json" => offered' = total'
  <2>1. ~truncated => offered' = total'
    BY <1>1, <1>3
  <2>2. QED
    BY <1>4, <1>6, <2>1
<1>8. TruncationTold'
  BY <1>5, <1>7 DEF TruncationTold
<1>9. openStreams' = IF answer'.reason = "redirect" THEN {hop} ELSE {}
  BY <1>2, <1>3, <1>6
<1>10. QED
  BY <1>2, <1>4, <1>8, <1>9 DEF FetchInv

LEMMA FetchStep ==
    ASSUME FetchInv, FetchNext
    PROVE  FetchInv' /\ tool' = tool
<1>1. ~BeginFetch
  BY DEF BeginFetch, Begin, FetchInv
<1>2. Running
  BY <1>1 DEF FetchNext, FetchRejects, LastResponse, FollowRedirect, DiscardFails,
         RefuseRedirect, Arrives, ReadChunk, EndOfBody, Truncate, CutChunk, CancelFails,
         BodyLost, Drained, BodyFails, FetchClock, Pass, FireTimer, Settle, Running
<1>3. QED
  BY <1>1, <1>2, FetchWaits, FetchFails, FetchReads DEF FetchNext

LEMMA FetchSafe ==
    ASSUME FetchInv
    PROVE  TruncationTold /\ OnlyRefusedStaysOpen
<1>1. openStreams = {} \/ openStreams = {hop}
  BY DEF FetchInv
<1>2. Cardinality({}) = 0 /\ Cardinality({hop}) = 1
  BY FS_EmptySet, FS_Singleton
<1>3. Cardinality(openStreams) <= 1
  BY <1>1, <1>2
<1>4. QED
  BY <1>3 DEF FetchInv, OnlyRefusedStaysOpen

-----------------------------------------------------------------------------
(* The metadata flight *)

\* A request is left open by an answer only if the deadline overtook it, and the limit
\* an accepted document is measured against is the flight's own.
FlightInv ==
    /\ call \in {"running", "answered"}
    /\ limit = CimdTimeout /\ elapsed \in Nat
    /\ call = "answered" /\ socket = "open" =>
         elapsed = limit /\ ~aborted /\ flightStep = "lookup"
    /\ FreshnessBounded

LEMMA FlightBegins ==
    ASSUME CallInit, MetadataInit, MetadataNext
    PROVE  FlightInv' /\ tool' = "cimd"
<1>1. BeginFlight
  BY DEF CallInit, MetadataNext, AddressPinned, DeadlineOvertakes, PeerConfirmed,
         ResponseBegins, Data, NextHop, DocumentAccepted, AbortRejects, FlightRefused,
         FlightFails, CloseAborts, FlightPasses, FlightTimer, Active, NotAborted, Pass,
         FireTimer, Settle, Running
<1>2. call' = "running" /\ limit' = CimdTimeout /\ elapsed' = 0 /\ tool' = "cimd"
  BY <1>1 DEF BeginFlight, Begin, CallInit
<1>3. QED
  BY <1>2 DEF FlightInv, FreshnessBounded

\* A lifetime is within the maximum, and one taken from Expires within Expires.
LEMMA TtlBounds ==
    ASSUME NEW h \in Freshness, Ttl(h) > 0
    PROVE  /\ Ttl(h) \in Nat /\ Ttl(h) <= MaxPositiveTtl
           /\ h.maxAge = Absent => Ttl(h) <= h.expires /\ h.expires \in Int
<1>1. /\ h.forbidden \in BOOLEAN /\ h.maxAge \in Int /\ h.expires \in Int
      /\ h.maxAge # Absent => h.maxAge \in Nat
  BY MetadataAssumption DEF Freshness, Absent
<1>2. MaxPositiveTtl \in Nat
  BY MetadataAssumption
<1>3. Ttl(h) # 0
  OBVIOUS
<1>4. ~h.forbidden
  BY <1>3 DEF Ttl
<1>5. CASE h.maxAge # Absent
  <2>1. Ttl(h) = Min({h.maxAge, MaxPositiveTtl})
    BY <1>4, <1>5 DEF Ttl
  <2>2. QED
    BY <1>1, <1>2, <1>5, <2>1, MinOfTwo
<1>6. CASE h.maxAge = Absent
  <2> DEFINE e == Max({h.expires, 0})
  <2>1. Ttl(h) = Min({e, MaxPositiveTtl})
    BY <1>4, <1>6 DEF Ttl
  <2>2. e \in Int /\ e = IF h.expires >= 0 THEN h.expires ELSE 0
    BY <1>1, MaxOfTwo
  <2> HIDE DEF e
  <2>3. Ttl(h) \in Int /\ Ttl(h) <= e /\ Ttl(h) <= MaxPositiveTtl
    BY <1>2, <2>1, <2>2, MinOfTwo
  <2>4. QED
    BY <1>1, <2>2, <2>3
<1>7. QED
  BY <1>5, <1>6

LEMMA AcceptedIsFresh ==
    ASSUME FlightInv, DocumentAccepted
    PROVE  FlightInv' /\ tool' = tool
<1>1. PICK h \in Freshness :
          /\ Ttl(h) > 0
          /\ answer' = [code |-> "DOCUMENT", until |-> elapsed + Ttl(h)]
          /\ expires' = IF h.maxAge = Absent THEN h.expires ELSE Absent
  BY DEF DocumentAccepted, Settle
<1>2. /\ call' = "answered" /\ socket' = "ended" /\ UNCHANGED <<tool, limit, elapsed>>
      /\ elapsed < limit
  BY DEF DocumentAccepted, Settle, Active
<1>3. elapsed \in Nat /\ limit = CimdTimeout /\ CimdTimeout \in Nat
  BY MetadataAssumption DEF FlightInv
<1>4. /\ Ttl(h) \in Nat /\ Ttl(h) <= MaxPositiveTtl
      /\ h.maxAge = Absent => Ttl(h) <= h.expires /\ h.expires \in Int
  BY <1>1, TtlBounds
<1>5. answer'.until = elapsed + Ttl(h)
  BY <1>1
<1>6. answer'.until <= elapsed + MaxPositiveTtl
  BY <1>3, <1>4, <1>5, MetadataAssumption
<1>7. expires' # Absent => answer'.until < expires' + CimdTimeout
  BY <1>1, <1>2, <1>3, <1>4, <1>5
<1>8. FreshnessBounded'
  BY <1>2, <1>6, <1>7 DEF FreshnessBounded
<1>9. QED
  BY <1>2, <1>8 DEF FlightInv

LEMMA FlightStep ==
    ASSUME FlightInv, MetadataNext
    PROVE  FlightInv' /\ tool' = tool
<1>1. ~BeginFlight
  BY DEF BeginFlight, Begin, FlightInv
<1>2. ASSUME FlightFails PROVE FlightInv' /\ tool' = tool
  <2>1. /\ call' = "answered" /\ answer' = Refused /\ socket' # "open"
        /\ UNCHANGED <<tool, limit, elapsed>>
    BY <1>2 DEF FlightFails, Settle, Destroyed
  <2>2. FreshnessBounded'
    BY <2>1 DEF FreshnessBounded, Refused
  <2>3. QED
    BY <2>1, <2>2 DEF FlightInv
<1>3. ASSUME AddressPinned \/ PeerConfirmed \/ ResponseBegins \/ Data \/ NextHop
             \/ CloseAborts \/ FlightPasses \/ FlightTimer
      PROVE  FlightInv' /\ tool' = tool
  <2>1. call = "running" /\ call' = "running" /\ UNCHANGED <<tool, limit>>
    BY <1>3 DEF AddressPinned, PeerConfirmed, ResponseBegins, Data, NextHop, CloseAborts,
                FlightPasses, FlightTimer, Active, NotAborted, Pass, FireTimer, Running,
                callVars
  <2>2. elapsed' \in Nat
    BY <1>3 DEF AddressPinned, PeerConfirmed, ResponseBegins, Data, NextHop, CloseAborts,
                FlightPasses, FlightTimer, Pass, FireTimer, callVars, FlightInv
  <2>3. QED
    BY <2>1, <2>2 DEF FlightInv, FreshnessBounded
<1>4. ASSUME DeadlineOvertakes PROVE FlightInv' /\ tool' = tool
  <2>1. /\ call' = "answered" /\ answer' = Refused /\ elapsed' = limit
        /\ ~aborted /\ flightStep = "lookup"
        /\ UNCHANGED <<tool, limit, aborted, flightStep>>
    BY <1>4 DEF DeadlineOvertakes, Active
  <2>2. FreshnessBounded'
    BY <2>1 DEF FreshnessBounded, Refused
  <2>3. CimdTimeout \in Nat
    BY MetadataAssumption
  <2>4. QED
    BY <2>1, <2>2, <2>3 DEF FlightInv
<1>5. QED
  BY <1>1, <1>2, <1>3, <1>4, AcceptedIsFresh DEF MetadataNext, AbortRejects, FlightRefused

-----------------------------------------------------------------------------
(* web_crawl *)

\* How long the requests of a crawl have been, measured against the time since the
\* soft cap: a pause ends less than one least pause after it, so a poll under way then
\* has had nearly all of the time since, and the snapshot and the poll before it have
\* had it together.
Caps == HardCap - SoftCap
LastStart == SoftCap + MinPause

CrawlInv ==
    /\ call \in {"running", "answered"}
    /\ tool \in CrawlTools
    /\ ResumableUnlessSlow
    /\ call = "running" /\ tool = "web_crawl" =>
         /\ limit = HardCap /\ elapsed \in Nat /\ (aborted => elapsed = HardCap)
         /\ pause \in Nat
         /\ waited \in 0..Caps /\ slowest \in 0..Caps /\ waited <= slowest
         /\ \/ crawlStep = "job" /\ (waited = Caps \/ waited >= elapsed)
            \/ /\ crawlStep = "pause" /\ rest \in Nat /\ elapsed + rest < LastStart
               /\ waited = 0
            \/ crawlStep = "poll" /\ (waited = Caps \/ waited + LastStart > elapsed)
            \/ /\ crawlStep = "snapshot"
               /\ slowest = Caps \/ waited + slowest + LastStart > elapsed

LEMMA CrawlBegins ==
    ASSUME CallInit, CrawlInit, CrawlNext
    PROVE  CrawlInv' /\ tool' \in CrawlTools
<1>1. BeginCrawl \/ \E name \in SingleTools : BeginSingle(name)
  BY DEF CallInit, CrawlNext, SingleAnswers, JobStarted, PauseEnds, StillScraping, JobEnded,
         SnapshotArrives, CrawlFails, CrawlPasses, CrawlTimer, Pass, FireTimer, Settle, Running
<1>2. call' = "running" /\ tool' \in CrawlTools /\ ResumableUnlessSlow'
  BY <1>1 DEF BeginCrawl, BeginSingle, Begin, CrawlTools, ResumableUnlessSlow
<1>3. CASE BeginCrawl
  <2>1. /\ limit' = HardCap /\ elapsed' = 0 /\ aborted' = FALSE
        /\ crawlStep' = "job" /\ pause' = FirstPause /\ waited' = 0 /\ slowest' = 0
    BY <1>3 DEF BeginCrawl, Begin, CallInit, CrawlInit, crawlVars
  <2>2. Caps \in Nat /\ FirstPause \in Nat
    BY CrawlAssumption DEF Caps
  <2>3. QED
    BY <1>2, <2>1, <2>2 DEF CrawlInv
<1>4. CASE \E name \in SingleTools : BeginSingle(name)
  <2>1. tool' # "web_crawl"
    BY <1>4 DEF BeginSingle, Begin, SingleTools
  <2>2. QED
    BY <1>2, <2>1 DEF CrawlInv
<1>5. QED
  BY <1>1, <1>3, <1>4

\* A call that is answered TIMEOUT has met the hard cap, and some request of it was slow.
LEMMA CrawlEnds ==
    ASSUME CrawlInv, SingleAnswers \/ CrawlFails
                     \/ \E job \in JobStatus : JobEnded(job) \/ SnapshotArrives(job)
    PROVE  CrawlInv' /\ tool' = tool
<1>1. /\ call = "running" /\ call' = "answered" /\ UNCHANGED <<tool, slowest>>
      /\ answer'.code = "TIMEOUT" => aborted
  BY DEF SingleAnswers, CrawlFails, JobEnded, SnapshotArrives, Settle, Running, CrawlFailure,
         UpstreamCode, Snapshot, crawlVars
<1>2. ASSUME tool = "web_crawl", aborted
      PROVE  2 * slowest > Caps - MinPause
  <2>1. /\ elapsed = HardCap /\ HardCap \in Nat /\ SoftCap \in Nat /\ SoftCap < HardCap
        /\ Caps = HardCap - SoftCap
        /\ MinPause \in Nat \ {0} /\ LastStart = SoftCap + MinPause
    BY <1>1, <1>2, CrawlAssumption DEF CrawlInv, Caps, LastStart
  <2>2. waited \in 0..Caps /\ slowest \in 0..Caps /\ waited <= slowest
    BY <1>1, <1>2 DEF CrawlInv
  <2>3. CASE crawlStep = "job" /\ (waited = Caps \/ waited >= elapsed)
    BY <2>1, <2>2, <2>3
  <2>4. CASE crawlStep = "pause" /\ rest \in Nat /\ elapsed + rest < LastStart
    BY <2>1, <2>2, <2>4
  <2>5. CASE crawlStep = "poll" /\ (waited = Caps \/ waited + LastStart > elapsed)
    BY <2>1, <2>2, <2>5
  <2>6. CASE crawlStep = "snapshot" /\ (slowest = Caps \/ waited + slowest + LastStart > elapsed)
    BY <2>1, <2>2, <2>6
  <2>7. QED
    BY <1>1, <1>2, <2>3, <2>4, <2>5, <2>6 DEF CrawlInv
<1>3. ResumableUnlessSlow'
  BY <1>1, <1>2 DEF ResumableUnlessSlow, Caps
<1>4. QED
  BY <1>1, <1>3 DEF CrawlInv

\* The next request or pause begins.
LEMMA ScheduleKeeps ==
    ASSUME CrawlInv, tool = "web_crawl", JobStarted \/ StillScraping
    PROVE  CrawlInv'
<1>1. /\ call = "running" /\ crawlStep \in {"job", "poll"} /\ waited' = 0 /\ Schedule
      /\ UNCHANGED <<callVars, slowest>>
      /\ pause' \in {FirstPause, Min({2 * pause, MaxPause})}
  BY DEF JobStarted, StillScraping, Running
<1>2. UNCHANGED <<tool, call, limit, elapsed, aborted, answer>>
  BY <1>1 DEF callVars
<1>3. /\ limit = HardCap /\ elapsed \in Nat /\ (aborted => elapsed = HardCap)
      /\ pause \in Nat /\ waited \in 0..Caps /\ slowest \in 0..Caps /\ waited <= slowest
      /\ waited = Caps \/ waited + LastStart > elapsed
  BY <1>1, CrawlAssumption DEF CrawlInv, LastStart
<1>4. /\ SoftCap \in Nat /\ HardCap \in Nat /\ MaxPause \in Nat /\ FirstPause \in Nat
      /\ Caps \in Nat /\ MinPause \in Nat \ {0} /\ LastStart = SoftCap + MinPause
  BY CrawlAssumption DEF Caps, LastStart
<1>5. pause' \in Nat
  <2>1. 2 * pause \in Int
    BY <1>3
  <2>2. Min({2 * pause, MaxPause}) \in Nat
    BY <1>3, <1>4, <2>1, MinOfTwo
  <2>3. QED
    BY <1>1, <1>4, <2>2
<1>6. CASE elapsed >= SoftCap
  <2>1. crawlStep' = "snapshot"
    BY <1>1, <1>6 DEF Schedule
  <2>2. slowest = Caps \/ 0 + slowest + LastStart > elapsed
    BY <1>3, <1>4
  <2>3. QED
    BY <1>1, <1>2, <1>3, <1>4, <1>5, <2>1, <2>2 DEF CrawlInv, ResumableUnlessSlow
<1>7. CASE ~(elapsed >= SoftCap)
  <2> DEFINE longest == Max({SoftCap - elapsed, MinPause})
  <2>1. crawlStep' = "pause" /\ rest' = Min({pause', longest})
    BY <1>1, <1>7 DEF Schedule
  <2>2. longest \in Nat /\ elapsed + longest < LastStart
    <3>1. SoftCap - elapsed \in Nat /\ SoftCap - elapsed # 0
      BY <1>3, <1>4, <1>7
    <3>2. longest = IF SoftCap - elapsed >= MinPause THEN SoftCap - elapsed ELSE MinPause
      BY <1>4, <3>1, MaxOfTwo
    <3> HIDE DEF longest
    <3>3. QED
      BY <1>3, <1>4, <1>7, <3>1, <3>2
  <2> HIDE DEF longest
  <2>3. rest' \in Nat /\ elapsed + rest' < LastStart
    BY <1>3, <1>4, <1>5, <2>1, <2>2, MinOfTwo
  <2>4. QED
    BY <1>1, <1>2, <1>3, <1>4, <1>5, <2>1, <2>3 DEF CrawlInv, ResumableUnlessSlow
<1>8. QED
  BY <1>6, <1>7

LEMMA PauseEndsKeeps ==
    ASSUME CrawlInv, tool = "web_crawl", PauseEnds
    PROVE  CrawlInv'
<1>1. /\ call = "running" /\ crawlStep = "pause" /\ crawlStep' = "poll"
      /\ UNCHANGED <<tool, call, limit, elapsed, aborted, answer, pause, rest, waited, slowest>>
  BY DEF PauseEnds, Running, callVars
<1>2. waited = 0 /\ elapsed \in Nat /\ rest \in Nat /\ elapsed + rest < LastStart
  BY <1>1 DEF CrawlInv
<1>3. waited + LastStart > elapsed
  BY <1>2, CrawlAssumption DEF LastStart
<1>4. QED
  BY <1>1, <1>3 DEF CrawlInv, ResumableUnlessSlow

LEMMA CrawlPassesKeeps ==
    ASSUME CrawlInv, tool = "web_crawl", CrawlPasses
    PROVE  CrawlInv'
<1>1. /\ call = "running" /\ call' = "running" /\ elapsed < limit /\ elapsed' = elapsed + 1
      /\ ~(crawlStep = "pause" /\ rest = 0)
      /\ UNCHANGED <<tool, limit, aborted, answer, crawlStep, pause>>
      /\ slowest' = Max({slowest, waited'})
  BY DEF CrawlPasses, Pass, Running
<1>2. /\ limit = HardCap /\ elapsed \in Nat /\ (aborted => elapsed = HardCap)
      /\ pause \in Nat /\ waited \in 0..Caps /\ slowest \in 0..Caps /\ waited <= slowest
  BY <1>1 DEF CrawlInv
<1>3. /\ SoftCap \in Nat /\ HardCap \in Nat /\ Caps \in Nat /\ Caps = HardCap - SoftCap
      /\ LastStart \in Nat
  BY CrawlAssumption DEF Caps, LastStart
<1>4. ~aborted /\ elapsed' \in Nat
  BY <1>1, <1>2, <1>3
<1>5. ResumableUnlessSlow'
  BY <1>1 DEF ResumableUnlessSlow
<1>6. waited' \in 0..Caps => /\ slowest' \in 0..Caps /\ waited' <= slowest'
                             /\ slowest <= slowest'
  BY <1>1, <1>2, <1>3, MaxOfTwo
<1>7. CASE crawlStep = "pause"
  <2>1. waited' = waited /\ rest' = rest - 1
    BY <1>7 DEF CrawlPasses, InRequest
  <2>2. rest \in Nat /\ rest # 0 /\ elapsed + rest < LastStart /\ waited = 0
    BY <1>1, <1>7 DEF CrawlInv
  <2>3. rest' \in Nat /\ elapsed' + rest' < LastStart /\ waited' = 0
    BY <1>1, <1>2, <1>3, <2>1, <2>2
  <2>4. waited' \in 0..Caps
    BY <1>3, <2>3
  <2>5. QED
    BY <1>1, <1>2, <1>4, <1>5, <1>6, <1>7, <2>3, <2>4 DEF CrawlInv
<1>8. CASE crawlStep # "pause"
  <2>1. waited' = Min({waited + 1, Caps})
    BY <1>8 DEF CrawlPasses, InRequest, Caps
  <2>2. waited + 1 \in Int
    BY <1>2, <1>3
  <2>3. waited' = IF waited + 1 <= Caps THEN waited + 1 ELSE Caps
    BY <1>3, <2>1, <2>2, MinOfTwo
  <2>4. waited' \in 0..Caps /\ (waited' = Caps \/ waited' = waited + 1)
    BY <1>2, <1>3, <2>3
  <2>5. slowest' \in 0..Caps /\ waited' <= slowest' /\ slowest <= slowest'
    BY <1>6, <2>4
  <2>6. CASE crawlStep = "job"
    <3>1. waited = Caps \/ waited >= elapsed
      BY <1>1, <2>6 DEF CrawlInv
    <3>2. waited' = Caps \/ waited' >= elapsed'
      BY <1>1, <1>2, <1>3, <2>3, <2>4, <3>1
    <3>3. QED
      BY <1>1, <1>2, <1>4, <1>5, <2>4, <2>5, <2>6, <3>2 DEF CrawlInv
  <2>7. CASE crawlStep = "poll"
    <3>1. waited = Caps \/ waited + LastStart > elapsed
      BY <1>1, <2>7 DEF CrawlInv
    <3>2. waited' = Caps \/ waited' + LastStart > elapsed'
      BY <1>1, <1>2, <1>3, <2>3, <2>4, <3>1
    <3>3. QED
      BY <1>1, <1>2, <1>4, <1>5, <2>4, <2>5, <2>7, <3>2 DEF CrawlInv
  <2>8. CASE crawlStep = "snapshot"
    <3>1. slowest = Caps \/ waited + slowest + LastStart > elapsed
      BY <1>1, <2>8 DEF CrawlInv
    <3>2. slowest' = Caps \/ waited' + slowest' + LastStart > elapsed'
      BY <1>1, <1>2, <1>3, <2>4, <2>5, <3>1
    <3>3. QED
      BY <1>1, <1>2, <1>4, <1>5, <2>4, <2>5, <2>8, <3>2 DEF CrawlInv
  <2>9. QED
    BY <1>1, <1>8, <2>6, <2>7, <2>8 DEF CrawlInv
<1>9. QED
  BY <1>7, <1>8

LEMMA CrawlTimerKeeps ==
    ASSUME CrawlInv, tool = "web_crawl", CrawlTimer
    PROVE  CrawlInv'
<1>1. /\ call = "running" /\ elapsed = limit /\ UNCHANGED <<tool, call, limit, elapsed, answer>>
      /\ UNCHANGED <<crawlStep, pause, rest, waited, slowest>>
  BY DEF CrawlTimer, FireTimer, Running, crawlVars
<1>2. QED
  BY <1>1 DEF CrawlInv, ResumableUnlessSlow

LEMMA CrawlStep ==
    ASSUME CrawlInv, CrawlNext
    PROVE  CrawlInv' /\ tool' = tool
<1>1. ~BeginCrawl /\ \A name \in SingleTools : ~BeginSingle(name)
  BY DEF BeginCrawl, BeginSingle, Begin, CrawlInv
<1>2. ASSUME JobStarted \/ PauseEnds \/ StillScraping \/ CrawlPasses \/ CrawlTimer
      PROVE  CrawlInv' /\ tool' = tool
  <2>1. call = "running" /\ call' = "running" /\ tool' = tool
    BY <1>2 DEF JobStarted, PauseEnds, StillScraping, CrawlPasses, CrawlTimer, Pass, FireTimer,
                Running, callVars
  <2>2. CASE tool = "web_crawl"
    BY <1>2, <2>1, <2>2, ScheduleKeeps, PauseEndsKeeps, CrawlPassesKeeps, CrawlTimerKeeps
  <2>3. CASE tool # "web_crawl"
    BY <2>1, <2>3 DEF CrawlInv, ResumableUnlessSlow
  <2>4. QED
    BY <2>2, <2>3
<1>3. QED
  BY <1>1, <1>2, CrawlEnds DEF CrawlNext

-----------------------------------------------------------------------------
(* web_research *)

Hit == [safe : BOOLEAN, page : Markdown]

\* A safe hit is found at its place: no two of them share one.
LEMMA SafeAtPlace ==
    ASSUME NEW found \in Seq(Hit), NEW i \in 1..Len(found), found[i].safe
    PROVE  /\ Place(found, i) \in 1..SafeCount(found)
           /\ Safe(found)[Place(found, i)] = found[i]
<1> DEFINE U(k) == {j \in 1..k : found[j].safe}
<1>1. Len(found) \in Nat /\ DOMAIN found = 1..Len(found)
  OBVIOUS
<1>2. ASSUME NEW k \in 1..Len(found)
      PROVE  /\ IsFiniteSet(U(k)) /\ Cardinality(U(k)) \in Nat
             /\ U(k) \in SUBSET U(Len(found))
             /\ Place(found, k) = Cardinality(U(k))
  <2>1. IsFiniteSet(1..k) /\ U(k) \in SUBSET (1..k)
    BY FS_Interval
  <2>2. IsFiniteSet(U(k))
    BY <2>1, FS_Subset
  <2>3. Cardinality(U(k)) \in Nat
    BY <2>2, FS_CardinalityType
  <2>4. QED
    BY <1>1, <2>2, <2>3 DEF Place
<1>3. SafeCount(found) = Cardinality(U(Len(found))) /\ Len(found) \in 1..Len(found)
  BY <1>1 DEF SafeCount, Place
<1>4. Place(found, i) \in 1..SafeCount(found)
  <2>1. IsFiniteSet(U(Len(found))) /\ U(i) \in SUBSET U(Len(found))
    BY <1>2, <1>3
  <2>2. Cardinality(U(i)) <= Cardinality(U(Len(found)))
    BY <2>1, FS_Subset
  <2>3. i \in U(i)
    BY <1>1
  <2>4. Cardinality(U(i)) # 0
    BY <1>2, <2>3, FS_EmptySet
  <2>5. /\ Cardinality(U(i)) \in Nat /\ Cardinality(U(Len(found))) \in Nat
        /\ Place(found, i) = Cardinality(U(i))
    BY <1>2, <1>3
  <2> HIDE DEF U
  <2>6. QED
    BY <1>3, <2>2, <2>4, <2>5
<1>5. ASSUME NEW j \in 1..Len(found), NEW k \in 1..Len(found), j < k, found[k].safe
      PROVE  Place(found, j) # Place(found, k)
  <2>1. U(j) \in SUBSET U(k) /\ k \in U(k) /\ k \notin U(j)
    BY <1>1, <1>5
  <2>2. IsFiniteSet(U(k)) /\ U(j) # U(k)
    BY <1>2, <2>1
  <2>3. Cardinality(U(j)) # Cardinality(U(k))
    BY <2>1, <2>2, FS_Subset
  <2>4. QED
    BY <1>2, <2>3
<1>6. \A j \in DOMAIN found : found[j].safe /\ Place(found, j) = Place(found, i) => j = i
  BY <1>1, <1>5
<1>7. (CHOOSE j \in DOMAIN found : found[j].safe /\ Place(found, j) = Place(found, i)) = i
  BY <1>1, <1>6
<1>8. QED
  BY <1>4, <1>7 DEF Safe

\* What a scrape holds belongs to the safe hit at its place, and the clock stands
\* still once the soft timer is due or nothing is awaited any more.
ResearchInv ==
    /\ call \in {"running", "answered"} /\ tool = "web_research"
    /\ hits \in Seq(Hit)
    /\ ContentMatchesHit
    /\ WithinBudget
    /\ call = "running" =>
         /\ elapsed \in Nat /\ searched \in Nat /\ budget \in Nat
         /\ \A k \in DOMAIN scrapes :
              scrapes[k] \in {"pending", NoContent, Safe(hits)[k].page}
         /\ \/ researchStep = "search" /\ scrapes = << >>
            \/ researchStep = "scrapes" /\ searched <= elapsed /\ elapsed <= budget
            \/ /\ researchStep = "sources" /\ elapsed <= Max({budget, searched})
               /\ \A k \in DOMAIN scrapes : scrapes[k] # "pending"

LEMMA ResearchBegins ==
    ASSUME CallInit, ResearchInit, ResearchNext
    PROVE  ResearchInv'
<1>1. BeginResearch
  BY DEF CallInit, ResearchNext, SearchFails, SearchAnswers, ScrapeAnswers, ScrapeFails,
         SoftTimer, ScrapesSettled, ReturnSources, ResearchPasses, ResearchTimer, Pass,
         FireTimer, Settle, Running
<1>2. /\ call' = "running" /\ tool' = "web_research" /\ elapsed' = 0 /\ searched' = 0
      /\ budget' \in Budgets /\ researchStep' = "search" /\ hits' = << >> /\ scrapes' = << >>
  BY <1>1 DEF BeginResearch, Begin, CallInit, ResearchInit
<1>3. budget' \in Nat
  BY <1>2, ResearchAssumption
<1>4. ContentMatchesHit' /\ WithinBudget'
  BY <1>2 DEF ContentMatchesHit, WithinBudget
<1>5. QED
  BY <1>2, <1>3, <1>4 DEF ResearchInv

LEMMA SearchAnswersKeeps ==
    ASSUME ResearchInv, SearchAnswers
    PROVE  ResearchInv' /\ tool' = tool
<1>1. /\ call = "running" /\ researchStep = "search"
      /\ hits' \in SeqOf([safe : BOOLEAN, page : Markdown], MaxHits)
      /\ searched' = elapsed
      /\ UNCHANGED <<callVars, budget, softAborted>>
  BY DEF SearchAnswers, Running
<1>2. UNCHANGED <<tool, call, limit, elapsed, aborted, answer>>
  BY <1>1 DEF callVars
<1>3. hits' \in Seq(Hit)
  <2>1. PICK n \in 0..MaxHits : hits' \in [1..n -> Hit]
    BY <1>1 DEF SeqOf, Hit
  <2>2. n \in Nat
    BY ResearchAssumption
  <2>3. QED
    BY <2>1, <2>2
<1>4. elapsed \in Nat /\ budget \in Nat /\ scrapes = << >>
  BY <1>1 DEF ResearchInv
<1>5. ContentMatchesHit' /\ WithinBudget'
  BY <1>1, <1>2 DEF ContentMatchesHit, WithinBudget
<1>6. CASE RemainingBudget(elapsed) = 0 \/ SafeCount(hits') = 0
  <2>1. researchStep' = "sources" /\ scrapes' = scrapes
    BY <1>6 DEF SearchAnswers
  <2>2. elapsed' <= Max({budget', searched'})
    BY <1>1, <1>2, <1>4, MaxOfTwo
  <2>3. QED
    BY <1>1, <1>2, <1>3, <1>4, <1>5, <2>1, <2>2 DEF ResearchInv
<1>7. CASE ~(RemainingBudget(elapsed) = 0 \/ SafeCount(hits') = 0)
  <2>1. /\ researchStep' = "scrapes"
        /\ scrapes' = [i \in 1..SafeCount(hits') |-> "pending"]
    BY <1>7 DEF SearchAnswers
  <2>2. budget - elapsed \in Int
    BY <1>4
  <2>3. budget - elapsed > 0
    BY <1>7, <2>2, MaxOfTwo DEF RemainingBudget
  <2>4. elapsed' <= budget' /\ searched' <= elapsed'
    BY <1>1, <1>2, <1>4, <2>3
  <2>5. \A k \in DOMAIN scrapes' : scrapes'[k] = "pending"
    BY <2>1
  <2>6. QED
    BY <1>1, <1>2, <1>3, <1>4, <1>5, <2>1, <2>4, <2>5 DEF ResearchInv
<1>8. QED
  BY <1>6, <1>7

LEMMA ScrapeKeeps ==
    ASSUME ResearchInv, NEW i \in DOMAIN scrapes, ScrapeAnswers(i) \/ ScrapeFails(i)
    PROVE  ResearchInv' /\ tool' = tool
<1>1. /\ call = "running" /\ researchStep = "scrapes"
      /\ UNCHANGED <<callVars, budget, researchStep, hits, searched>>
  BY DEF ScrapeAnswers, ScrapeFails, Running
<1>2. UNCHANGED <<tool, call, limit, elapsed, aborted, answer>>
  BY <1>1 DEF callVars
<1>3. PICK v \in {NoContent, Safe(hits)[i].page} : scrapes' = [scrapes EXCEPT ![i] = v]
  BY DEF ScrapeAnswers, ScrapeFails
<1>4. \A k \in DOMAIN scrapes : scrapes[k] \in {"pending", NoContent, Safe(hits)[k].page}
  BY <1>1 DEF ResearchInv
<1>5. \A k \in DOMAIN scrapes' : scrapes'[k] \in {"pending", NoContent, Safe(hits')[k].page}
  BY <1>1, <1>3, <1>4
<1>6. ContentMatchesHit' /\ WithinBudget'
  BY <1>1, <1>2 DEF ContentMatchesHit, WithinBudget
<1>7. QED
  BY <1>1, <1>2, <1>5, <1>6 DEF ResearchInv

\* The result pairs each hit with the scrape of its own page.
LEMMA SourcesMatch ==
    ASSUME hits \in Seq(Hit),
           \A k \in DOMAIN scrapes : /\ scrapes[k] \in {"pending", NoContent, Safe(hits)[k].page}
                                     /\ scrapes[k] # "pending",
           NEW i \in DOMAIN Sources, Sources[i] # NoContent
    PROVE  hits[i].safe /\ Sources[i] = hits[i].page
<1>1. i \in DOMAIN hits /\ DOMAIN hits = 1..Len(hits)
  BY DEF Sources
<1>2. Sources[i] = IF hits[i].safe /\ SafeIndex(i) \in DOMAIN scrapes
                   THEN scrapes[SafeIndex(i)] ELSE NoContent
  BY <1>1 DEF Sources
<1>3. hits[i].safe /\ SafeIndex(i) \in DOMAIN scrapes /\ Sources[i] = scrapes[SafeIndex(i)]
  BY <1>2
<1>4. Safe(hits)[SafeIndex(i)] = hits[i]
  BY <1>1, <1>3, SafeAtPlace DEF SafeIndex
<1>5. QED
  BY <1>3, <1>4

LEMMA ResearchEnds ==
    ASSUME ResearchInv, SearchFails \/ ReturnSources
    PROVE  ResearchInv' /\ tool' = tool
<1>1. /\ call = "running" /\ call' = "answered"
      /\ UNCHANGED <<tool, limit, elapsed, aborted, researchVars>>
  BY DEF SearchFails, ReturnSources, Settle, Running
<1>2. UNCHANGED <<budget, researchStep, hits, scrapes, searched>>
  BY <1>1 DEF researchVars
<1>3. CASE answer' = [code |-> "OK", sources |-> Sources] /\ researchStep = "sources"
  <2>1. /\ \A k \in DOMAIN scrapes : /\ scrapes[k] \in {"pending", NoContent, Safe(hits)[k].page}
                                     /\ scrapes[k] # "pending"
        /\ hits \in Seq(Hit) /\ elapsed <= Max({budget, searched})
    BY <1>1, <1>3 DEF ResearchInv
  <2>2. answer'.sources = Sources
    BY <1>3
  <2>3. ContentMatchesHit'
    BY <1>2, <2>1, <2>2, SourcesMatch DEF ContentMatchesHit
  <2>4. WithinBudget'
    BY <1>1, <1>2, <2>1 DEF WithinBudget
  <2>5. QED
    BY <1>1, <1>2, <2>3, <2>4 DEF ResearchInv
<1>4. CASE \E code \in {"TIMEOUT", "UPSTREAM_ERROR"} : answer' = ResearchFailure(code)
  <2>1. answer'.sources = << >> /\ answer'.code # "OK"
    BY <1>4 DEF ResearchFailure
  <2>2. ContentMatchesHit' /\ WithinBudget'
    BY <2>1 DEF ContentMatchesHit, WithinBudget
  <2>3. QED
    BY <1>1, <1>2, <2>2 DEF ResearchInv
<1>5. QED
  BY <1>3, <1>4 DEF SearchFails, ReturnSources, Settle, UpstreamCode

LEMMA ResearchWaits ==
    ASSUME ResearchInv, SoftTimer \/ ScrapesSettled \/ ResearchPasses \/ ResearchTimer
    PROVE  ResearchInv' /\ tool' = tool
<1>1. /\ call = "running" /\ UNCHANGED <<tool, call, limit, answer>>
      /\ UNCHANGED <<budget, hits, scrapes, searched>>
  BY DEF SoftTimer, ScrapesSettled, ResearchPasses, ResearchTimer, Pass, FireTimer, Running,
         callVars, researchVars
<1>2. ContentMatchesHit' /\ WithinBudget'
  BY <1>1 DEF ContentMatchesHit, WithinBudget
<1>3. /\ elapsed \in Nat /\ searched \in Nat /\ budget \in Nat
      /\ \A k \in DOMAIN scrapes : scrapes[k] \in {"pending", NoContent, Safe(hits)[k].page}
  BY <1>1 DEF ResearchInv
<1>4. CASE SoftTimer \/ ResearchTimer
  <2>1. UNCHANGED <<elapsed, researchStep>>
    BY <1>4 DEF SoftTimer, ResearchTimer, FireTimer, callVars
  <2>2. QED
    BY <1>1, <1>2, <2>1 DEF ResearchInv
<1>5. CASE ScrapesSettled
  <2>1. /\ researchStep = "scrapes" /\ researchStep' = "sources" /\ elapsed' = elapsed
        /\ \A k \in DOMAIN scrapes : scrapes[k] # "pending"
    BY <1>5 DEF ScrapesSettled, callVars
  <2>2. elapsed <= budget
    BY <1>1, <2>1 DEF ResearchInv
  <2>3. elapsed <= Max({budget, searched})
    BY <1>3, <2>2, MaxOfTwo
  <2>4. QED
    BY <1>1, <1>2, <1>3, <2>1, <2>3 DEF ResearchInv
<1>6. CASE ResearchPasses
  <2>1. /\ elapsed' = elapsed + 1 /\ researchStep' = researchStep
        /\ ~SoftDue /\ ~softAborted /\ researchStep # "sources"
    BY <1>6 DEF ResearchPasses, Pass, researchVars
  <2>2. CASE researchStep = "scrapes"
    <3>1. searched <= elapsed /\ elapsed <= budget
      BY <1>1, <2>2 DEF ResearchInv
    <3>2. elapsed # searched + RemainingBudget(searched)
      BY <2>1, <2>2 DEF SoftDue
    <3>3. budget - searched \in Nat
      BY <1>3, <3>1
    <3>4. RemainingBudget(searched) = budget - searched
      BY <3>3, MaxOfTwo DEF RemainingBudget
    <3>5. searched <= elapsed' /\ elapsed' <= budget /\ elapsed' \in Nat
      BY <1>3, <2>1, <3>1, <3>2, <3>4
    <3>6. QED
      BY <1>1, <1>2, <1>3, <2>1, <2>2, <3>5 DEF ResearchInv
  <2>3. CASE researchStep = "search"
    BY <1>1, <1>2, <1>3, <2>1, <2>3 DEF ResearchInv
  <2>4. QED
    BY <1>1, <2>1, <2>2, <2>3 DEF ResearchInv
<1>7. QED
  BY <1>4, <1>5, <1>6

LEMMA ResearchStep ==
    ASSUME ResearchInv, ResearchNext
    PROVE  ResearchInv' /\ tool' = tool
<1>1. ~BeginResearch
  BY DEF BeginResearch, Begin, ResearchInv
<1>2. QED
  BY <1>1, SearchAnswersKeeps, ScrapeKeeps, ResearchEnds, ResearchWaits DEF ResearchNext

-----------------------------------------------------------------------------
(* Redirects *)

\* Before the call begins nothing has been rewritten: BeginFetch keeps the flag.
PayloadInv == PayloadFollowsMethod /\ (call = "idle" => ~rewritten)

\* A 301, 302 or 303 turns a request that follows the method into one that follows
\* it after the rewriting; a 307 or 308 repeats it.
LEMMA RedirectFollows ==
  ASSUME PayloadFollowsMethod, NEW code
  PROVE  LET after == rewritten \/ code \in RewriteToGet IN
         IF after
         THEN Redirected(code) = [method |-> "GET", body |-> FALSE,
                                    headers |-> original.headers \ {"content-type"}]
         ELSE Redirected(code) = original
  <1>1. CASE code \in RewriteToGet
    <2>1. request.headers \ {"content-type"} = original.headers \ {"content-type"}
      <3>1. CASE rewritten
        <4>1. request.headers = original.headers \ {"content-type"}
          BY <3>1 DEF PayloadFollowsMethod
        <4> QED
          BY <4>1
      <3>2. CASE ~rewritten
        BY <3>2 DEF PayloadFollowsMethod
      <3> QED
        BY <3>1, <3>2
    <2> QED
      BY <1>1, <2>1 DEF Redirected
  <1>2. CASE code \notin RewriteToGet
    BY <1>2 DEF Redirected, PayloadFollowsMethod
  <1> QED
    BY <1>1, <1>2

LEMMA PayloadInit == CallInit /\ FetchInit => PayloadInv
  BY DEF CallInit, FetchInit, PayloadInv, PayloadFollowsMethod

LEMMA PayloadStep == PayloadInv /\ [FetchNext]_<<callVars, fetchVars>> => PayloadInv'
  <1> SUFFICES ASSUME PayloadInv, [FetchNext]_<<callVars, fetchVars>>
               PROVE  PayloadInv'
    OBVIOUS
  <1> USE DEF PayloadInv
  <1>1. CASE BeginFetch
    BY <1>1 DEF BeginFetch, Begin, PayloadFollowsMethod
  <1>2. CASE FollowRedirect
    <2>1. PICK code \in Redirects :
            /\ Arrives(code)
            /\ request' = Redirected(code)
            /\ rewritten' = (rewritten \/ code \in RewriteToGet)
      BY <1>2 DEF FollowRedirect
    <2>2. original' = original /\ call' = call
      BY <1>2 DEF FollowRedirect, callVars
    <2>3. call # "idle"
      BY <2>1 DEF Arrives, Running
    <2>4. PayloadFollowsMethod'
      BY <2>1, <2>2, RedirectFollows DEF PayloadFollowsMethod
    <2> QED
      BY <2>2, <2>3, <2>4
  \* No other step touches the request, and none makes the call idle.
  <1>3. ASSUME UNCHANGED <<request, original, rewritten>>, call' = "idle" => call = "idle"
        PROVE  PayloadInv'
    BY <1>3 DEF PayloadFollowsMethod
  <1>4. CASE FetchRejects \/ DiscardFails
    BY <1>3, <1>4 DEF FetchRejects, DiscardFails, Settle, fetchVars
  <1>5. CASE LastResponse \/ ReadChunk
    BY <1>3, <1>5 DEF LastResponse, ReadChunk, callVars
  <1>6. CASE RefuseRedirect \/ CancelFails \/ BodyFails
    BY <1>3, <1>6 DEF RefuseRedirect, CancelFails, BodyFails, BodyLost, Settle
  <1>7. CASE EndOfBody \/ Truncate
    BY <1>3, <1>7 DEF EndOfBody, Truncate, Drained, Settle
  <1>8. CASE FetchClock
    BY <1>3, <1>8 DEF FetchClock, Pass, FireTimer, fetchVars
  <1>9. CASE UNCHANGED <<callVars, fetchVars>>
    BY <1>3, <1>9 DEF callVars, fetchVars
  <1> QED
    BY <1>1, <1>2, <1>4, <1>5, <1>6, <1>7, <1>8, <1>9 DEF FetchNext

-----------------------------------------------------------------------------
(* All tools *)

AllTools == FetchTools \cup CrawlTools \cup {"web_research", "cimd"}

\* While one tool runs the variables of the others stand still.
OutboundInv ==
    /\ call = "idle" => ToolInit
    /\ call # "idle" => tool \in AllTools
    /\ PayloadFollowsMethod
    /\ IF tool \in FetchTools THEN FetchInv ELSE FetchInit
    /\ tool \in CrawlTools => CrawlInv
    /\ tool = "web_research" => ResearchInv
    /\ IF tool = "cimd" THEN FlightInv ELSE MetadataInit

LEMMA ToolsDiffer ==
    /\ FetchTools \cap (CrawlTools \cup {"web_research", "cimd"}) = {}
    /\ CrawlTools \cap {"web_research", "cimd"} = {}
    /\ "none" \notin AllTools
  BY DEF FetchTools, CrawlTools, SingleTools, AllTools

\* A call that runs goes on as a call of the same tool.
LEMMA CallGoesOn ==
    ASSUME FetchNext \/ CrawlNext \/ ResearchNext \/ MetadataNext, call # "idle"
    PROVE  tool' = tool /\ call' # "idle"
<1>1. CASE FetchNext
  BY <1>1 DEF FetchNext, BeginFetch, Begin, FetchRejects, LastResponse, FollowRedirect,
         DiscardFails, RefuseRedirect, Arrives, ReadChunk, EndOfBody, Truncate, CutChunk,
         CancelFails, BodyLost, Drained, BodyFails, FetchClock, Pass, FireTimer, Settle,
         callVars
<1>2. CASE CrawlNext
  BY <1>2 DEF CrawlNext, BeginCrawl, BeginSingle, Begin, SingleAnswers, JobStarted, PauseEnds,
         StillScraping, JobEnded, SnapshotArrives, CrawlFails, CrawlPasses, CrawlTimer, Pass,
         FireTimer, Settle, callVars
<1>3. CASE ResearchNext
  BY <1>3 DEF ResearchNext, BeginResearch, Begin, SearchFails, SearchAnswers, ScrapeAnswers,
         ScrapeFails, SoftTimer, ScrapesSettled, ReturnSources, ResearchPasses, ResearchTimer,
         Pass, FireTimer, Settle, callVars
<1>4. CASE MetadataNext
  BY <1>4 DEF MetadataNext, BeginFlight, Begin, AddressPinned, DeadlineOvertakes,
         PeerConfirmed, ResponseBegins, Data, NextHop, DocumentAccepted, AbortRejects,
         FlightRefused, FlightFails, CloseAborts, FlightPasses, FlightTimer, Pass, FireTimer,
         Settle, callVars
<1>5. QED
  BY <1>1, <1>2, <1>3, <1>4

LEMMA OthersStandStill ==
    /\ UNCHANGED fetchVars /\ FetchInit => FetchInit'
    /\ UNCHANGED metadataVars /\ MetadataInit => MetadataInit'
    /\ UNCHANGED fetchVars /\ PayloadFollowsMethod => PayloadFollowsMethod'
<1>1. UNCHANGED fetchVars /\ FetchInit => FetchInit'
  BY DEF fetchVars, FetchInit, Built, Sanitized
<1>2. UNCHANGED metadataVars /\ MetadataInit => MetadataInit'
  BY DEF metadataVars, MetadataInit
<1>3. UNCHANGED fetchVars /\ PayloadFollowsMethod => PayloadFollowsMethod'
  BY DEF fetchVars, PayloadFollowsMethod
<1>4. QED
  BY <1>1, <1>2, <1>3

LEMMA FetchToolStep ==
    ASSUME OutboundInv, FetchNext, tool' \in FetchTools, UNCHANGED metadataVars
    PROVE  OutboundInv'
<1>1. FetchInv' /\ MetadataInit'
  <2>1. CASE call = "idle"
    BY <2>1, FetchBegins, OthersStandStill DEF OutboundInv, ToolInit
  <2>2. CASE call # "idle"
    BY <2>2, CallGoesOn, FetchStep, OthersStandStill, ToolsDiffer DEF OutboundInv
  <2>3. QED
    BY <2>1, <2>2
<1>2. PayloadInv
  BY DEF OutboundInv, PayloadInv, ToolInit, FetchInit
<1>3. PayloadFollowsMethod'
  BY <1>2, PayloadStep DEF PayloadInv
<1>4. call' # "idle"
  BY <1>1 DEF FetchInv
<1>5. QED
  BY <1>1, <1>3, <1>4, ToolsDiffer DEF OutboundInv, AllTools

LEMMA CrawlToolStep ==
    ASSUME OutboundInv, CrawlNext, tool' \in CrawlTools, UNCHANGED <<fetchVars, metadataVars>>
    PROVE  OutboundInv'
<1>1. CrawlInv' /\ FetchInit' /\ MetadataInit'
  <2>1. CASE call = "idle"
    BY <2>1, CrawlBegins, OthersStandStill DEF OutboundInv, ToolInit
  <2>2. CASE call # "idle"
    BY <2>2, CallGoesOn, CrawlStep, OthersStandStill, ToolsDiffer DEF OutboundInv
  <2>3. QED
    BY <2>1, <2>2
<1>2. call' # "idle" /\ PayloadFollowsMethod'
  BY <1>1, OthersStandStill DEF CrawlInv, OutboundInv
<1>3. QED
  BY <1>1, <1>2, ToolsDiffer DEF OutboundInv, AllTools

LEMMA ResearchToolStep ==
    ASSUME OutboundInv, ResearchNext, tool' = "web_research",
           UNCHANGED <<fetchVars, metadataVars>>
    PROVE  OutboundInv'
<1>1. ResearchInv' /\ FetchInit' /\ MetadataInit'
  <2>1. CASE call = "idle"
    BY <2>1, ResearchBegins, OthersStandStill DEF OutboundInv, ToolInit
  <2>2. CASE call # "idle"
    BY <2>2, CallGoesOn, ResearchStep, OthersStandStill, ToolsDiffer DEF OutboundInv
  <2>3. QED
    BY <2>1, <2>2
<1>2. call' # "idle" /\ PayloadFollowsMethod'
  BY <1>1, OthersStandStill DEF ResearchInv, OutboundInv
<1>3. QED
  BY <1>1, <1>2, ToolsDiffer DEF OutboundInv, AllTools

LEMMA FlightToolStep ==
    ASSUME OutboundInv, MetadataNext, tool' = "cimd", UNCHANGED fetchVars
    PROVE  OutboundInv'
<1>1. FlightInv' /\ FetchInit'
  <2>1. CASE call = "idle"
    BY <2>1, FlightBegins, OthersStandStill DEF OutboundInv, ToolInit
  <2>2. CASE call # "idle"
    BY <2>2, CallGoesOn, FlightStep, OthersStandStill, ToolsDiffer DEF OutboundInv
  <2>3. QED
    BY <2>1, <2>2
<1>2. call' # "idle" /\ PayloadFollowsMethod'
  BY <1>1, OthersStandStill DEF FlightInv, OutboundInv
<1>3. QED
  BY <1>1, <1>2, ToolsDiffer DEF OutboundInv, AllTools

LEMMA ToolsAtRest == OutboundInv /\ UNCHANGED toolVars => OutboundInv'
<1> SUFFICES ASSUME OutboundInv, UNCHANGED toolVars PROVE OutboundInv'
  OBVIOUS
<1>1. UNCHANGED <<fetchVars, crawlVars, researchVars, metadataVars>>
      /\ UNCHANGED <<tool, call, limit, elapsed, aborted, answer>>
  BY DEF toolVars, callVars
<1>2. FetchInv => FetchInv'
  BY <1>1 DEF fetchVars, FetchInv, TruncationTold
<1>3. CrawlInv => CrawlInv'
  BY <1>1 DEF crawlVars, CrawlInv, ResumableUnlessSlow
<1>4. ResearchInv => ResearchInv'
  BY <1>1 DEF researchVars, ResearchInv, ContentMatchesHit, WithinBudget
<1>5. FlightInv => FlightInv'
  BY <1>1 DEF metadataVars, FlightInv, FreshnessBounded
<1>6. ToolInit => ToolInit'
  BY <1>1, OthersStandStill DEF ToolInit, CallInit, CrawlInit, ResearchInit, crawlVars,
                                researchVars
<1>7. QED
  BY <1>1, <1>2, <1>3, <1>4, <1>5, <1>6, OthersStandStill DEF OutboundInv

LEMMA OutboundStart == OutboundInit => OutboundInv
<1> SUFFICES ASSUME OutboundInit PROVE OutboundInv
  OBVIOUS
<1>1. ToolInit /\ tool = "none" /\ call = "idle"
  BY DEF OutboundInit, ToolInit, CallInit
<1>2. PayloadFollowsMethod
  BY <1>1 DEF ToolInit, FetchInit, PayloadFollowsMethod
<1>3. QED
  BY <1>1, <1>2, ToolsDiffer DEF OutboundInv, ToolInit, AllTools

LEMMA OutboundStep == OutboundInv /\ [OutboundNext]_outboundVars => OutboundInv'
  BY FetchToolStep, CrawlToolStep, ResearchToolStep, FlightToolStep, ToolsAtRest
     DEF OutboundNext, ToolNext, outboundVars

LEMMA OutboundInvariant == OutboundSpec => []OutboundInv
  BY OutboundStart, OutboundStep, PTL DEF OutboundSpec

\* Along a chain of redirects of any length the payload is the caller's until the
\* first rewriting of the method and gone ever after (resolveRedirect).
THEOREM PayloadGone == OutboundSpec => []PayloadFollowsMethod
<1>1. OutboundInv => PayloadFollowsMethod
  BY DEF OutboundInv
<1>2. QED
  BY <1>1, OutboundInvariant, PTL

\* For every cap and every way to cut a body into chunks, a result says truncated
\* exactly when something was withheld (readBodyWithCap, decodeResponseBody).
THEOREM TruncationIsTold == OutboundSpec => []TruncationTold
<1>1. OutboundInv => TruncationTold
  BY FetchSafe DEF OutboundInv, FetchInit, TruncationTold
<1>2. QED
  BY <1>1, OutboundInvariant, PTL

\* However a tool call or a metadata flight ends, after any number of redirects: what
\* stays open behind it is the response of a redirect that the call ended by refusing,
\* or a request that the deadline overtook while it was sent, and nothing else
\* (performWithRedirects, drainReader, createSettlementGuard).
THEOREM OnlyTwoLeftOpen == OutboundSpec => []OnlyTwoStayOpen
<1>1. OutboundInv => OnlyRefusedStaysOpen
  <2>1. FetchInit /\ tool \notin FetchTools => OnlyRefusedStaysOpen
    BY FS_EmptySet DEF FetchInit, OnlyRefusedStaysOpen
  <2>2. QED
    BY <2>1, FetchSafe DEF OutboundInv
<1>2. OutboundInv => OnlyOvertakenStaysOpen
  BY DEF OutboundInv, FlightInv, OnlyOvertakenStaysOpen
<1>3. QED
  BY <1>1, <1>2, OutboundInvariant, PTL DEF OnlyTwoStayOpen

\* For all caps and pauses, the least one that may outlast the soft cap included, a
\* crawl meets the hard cap only if one of its requests took more than half of the time
\* between the caps less that pause (pollCrawlStatus).
THEOREM CrawlsAreResumable == OutboundSpec => []ResumableUnlessSlow
<1>1. OutboundInv => ResumableUnlessSlow
  <2>1. "web_crawl" \in CrawlTools
    BY DEF CrawlTools
  <2>2. QED
    BY <2>1 DEF OutboundInv, CrawlInv, ResumableUnlessSlow
<1>2. QED
  BY <1>1, OutboundInvariant, PTL

\* However many hits, and wherever the unsafe ones stand among them, a source carries
\* its own hit's page or none, and the result keeps to the budget (partitionSafeHits).
THEOREM ResearchIsSound == OutboundSpec => []ResearchSound
<1>1. OutboundInv => ResearchSound
  BY DEF OutboundInv, ResearchInv, ResearchSound, ContentMatchesHit, WithinBudget
<1>2. QED
  BY <1>1, OutboundInvariant, PTL

\* For every timeout, maximum and header a server may send, a document is cached no
\* longer than allowed (computePositiveTtl, cacheSuccess).
THEOREM FreshnessIsBounded == OutboundSpec => []FreshnessBounded
<1>1. OutboundInv => FreshnessBounded
  BY DEF OutboundInv, FlightInv, FreshnessBounded
<1>2. QED
  BY <1>1, OutboundInvariant, PTL

-----------------------------------------------------------------------------
(* domain_availability: what its caches may not do to a lookup, for any number of *)
(* overlapping lookups and any lifetimes of the caches                            *)

Waiting == {"bootstrap", "rdap", "discover", "whois"}
CallRecord == [step : Waiting \cup {"idle", "answered"}, tld : Tld, captured : BOOLEAN]
VerdictStatuses == {"none", "VALIDATION_ERROR", "unsupported_tld", "registered", "available",
             "indeterminate"}
VerdictRecord == [status : VerdictStatuses, source : {"none", "rdap", "whois"}]

Told(q) == verdicts[q].status = "unsupported_tld"

\* Who is not waiting is not aborted, and who is not answered has been told nothing.
CallsInv ==
    /\ lookups \in [Lookup -> CallRecord]
    /\ verdicts \in [Lookup -> VerdictRecord]
    /\ \A q \in Lookup : At(q, "idle") \/ At(q, "answered") => q \notin signals
    /\ \A q \in Lookup : ~At(q, "answered") => ~Told(q)

\* A negative entry is no younger than IANA's silence it stands for.
NegativeHonest(t) ==
    discovery[t].age # None /\ ~discovery[t].host =>
        silence[t] # None /\ silence[t] <= discovery[t].age

CachesInv ==
    /\ discovery \in [Tld -> [age : Nat \cup {None}, host : BOOLEAN]]
    /\ silence \in [Tld -> 0..NegativeTtl \cup {None}]
    /\ \A t \in Tld : NegativeHonest(t)

LookupInv == CallsInv /\ CachesInv

\* Why call q may be told that its TLD is not supported.
Excused(q, tld) == q \in signals \/ silence[tld] \in 0..NegativeTtl - 1

\* In this step nobody but q is told so, and q only with an excuse.
OnlyExcused(q, tld) ==
    \A p \in Lookup :
        ~At(p, "answered") /\ Told(p)' =>
            p = q /\ lookups'[p].tld = tld /\ Excused(q, tld)

NobodyTold == \A p \in Lookup : ~At(p, "answered") => ~Told(p)'

LEMMA AwaitKeeps ==
  ASSUME CallsInv, NEW q \in Lookup, NEW l \in CallRecord, NEW step \in Waiting,
         ~At(q, "answered"), Await(q, l, step)
  PROVE  CallsInv' /\ NobodyTold
  <1>1. [l EXCEPT !.step = step] \in CallRecord /\ [l EXCEPT !.step = step].step = step
    BY DEF CallRecord
  <1>2. /\ lookups' = [lookups EXCEPT ![q] = [l EXCEPT !.step = step]]
        /\ verdicts' = verdicts /\ signals' = signals
    BY DEF Await
  <1>3. lookups' \in [Lookup -> CallRecord]
    BY <1>1, <1>2 DEF CallsInv
  <1>4. step # "idle" /\ step # "answered"
    BY DEF Waiting
  <1>5. \A p \in Lookup : lookups'[p].step = IF p = q THEN step ELSE lookups[p].step
    BY <1>1, <1>2 DEF CallsInv
  <1> QED
    BY <1>2, <1>3, <1>4, <1>5 DEF CallsInv, At, Told, NobodyTold

LEMMA ReturnKeeps ==
  ASSUME CallsInv, NEW q \in Lookup, NEW l \in CallRecord, NEW verdict \in VerdictRecord,
         Return(q, l, verdict)
  PROVE  /\ CallsInv' /\ lookups'[q].tld = l.tld /\ verdicts'[q] = verdict
         /\ \A p \in Lookup \ {q} : ~At(p, "answered") => ~Told(p)'
  <1> DEFINE done == [l EXCEPT !.step = "answered", !.captured = FALSE]
  <1>1. done \in CallRecord /\ done.step = "answered" /\ done.tld = l.tld
    BY DEF CallRecord
  <1>2. /\ lookups' = [lookups EXCEPT ![q] = done]
        /\ verdicts' = [verdicts EXCEPT ![q] = verdict]
        /\ signals' = signals \ {q}
    BY DEF Return
  <1> HIDE DEF done
  <1>3. lookups' \in [Lookup -> CallRecord] /\ verdicts' \in [Lookup -> VerdictRecord]
    BY <1>1, <1>2 DEF CallsInv
  <1>4. lookups'[q].step = "answered" /\ lookups'[q].tld = l.tld /\ verdicts'[q] = verdict
    BY <1>1, <1>2 DEF CallsInv
  <1>5. \A p \in Lookup \ {q} : lookups'[p] = lookups[p] /\ verdicts'[p] = verdicts[p]
    BY <1>2 DEF CallsInv
  <1>6. \A p \in Lookup : At(p, "idle")' \/ At(p, "answered")' => p \notin signals'
    BY <1>2, <1>4, <1>5 DEF CallsInv, At
  <1>7. \A p \in Lookup \ {q} : ~At(p, "answered") => ~Told(p)'
    BY <1>5 DEF CallsInv, Told
  <1>8. \A p \in Lookup : ~At(p, "answered")' => ~Told(p)'
    BY <1>4, <1>5 DEF CallsInv, At, Told
  <1> QED
    BY <1>3, <1>4, <1>6, <1>7, <1>8 DEF CallsInv

LEMMA UnsupportedRecord == Unsupported \in VerdictRecord
  BY DEF Unsupported, Verdict, VerdictRecord, VerdictStatuses

\* resolveWhoisServer refuses an aborted call or on a fresh negative entry only.
LEMMA ResolveKeeps ==
  ASSUME LookupInv, NEW q \in Lookup, NEW l \in CallRecord, ~At(q, "answered"),
         ResolveWhois(q, l)
  PROVE  CallsInv' /\ OnlyExcused(q, l.tld)
  <1> DEFINE entry == discovery[l.tld]
  <1>1. l.tld \in Tld
    BY DEF CallRecord
  <1>2. ASSUME NEW step \in Waiting, Await(q, l, step)
        PROVE  CallsInv' /\ OnlyExcused(q, l.tld)
    BY <1>2, AwaitKeeps DEF LookupInv, NobodyTold, OnlyExcused
  <1>3. CASE Return(q, l, Unsupported) /\ Excused(q, l.tld)
    BY <1>3, ReturnKeeps, UnsupportedRecord DEF LookupInv, OnlyExcused
  <1>4. ASSUME Fresh(entry), ~entry.host PROVE Excused(q, l.tld)
    <2>1. /\ entry.age # None /\ entry.age < NegativeTtl
          /\ silence[l.tld] # None /\ silence[l.tld] <= entry.age
      BY <1>1, <1>4 DEF Fresh, LookupInv, CachesInv, NegativeHonest
    <2>2. entry.age \in Nat /\ silence[l.tld] \in 0..NegativeTtl
      BY <1>1, <2>1 DEF LookupInv, CachesInv
    <2> QED
      BY <2>1, <2>2, LookupAssumption DEF Excused
  <1>5. \/ Await(q, l, "whois") \/ Await(q, l, "discover")
        \/ Return(q, l, Unsupported) /\ (q \in signals \/ (Fresh(entry) /\ ~entry.host))
    BY DEF ResolveWhois
  <1> QED
    BY <1>2, <1>3, <1>4, <1>5 DEF Waiting, Excused

LEMMA SnapshotKeeps ==
  ASSUME LookupInv, NEW q \in Lookup, NEW l \in CallRecord, ~At(q, "answered"),
         NEW snapshot, WithSnapshot(q, l, snapshot)
  PROVE  CallsInv' /\ OnlyExcused(q, l.tld)
  <1>1. CASE Await(q, l, "rdap")
    BY <1>1, AwaitKeeps DEF LookupInv, NobodyTold, OnlyExcused, Waiting
  <1>2. CASE ResolveWhois(q, l)
    BY <1>2, ResolveKeeps
  <1> QED
    BY <1>1, <1>2 DEF WithSnapshot
-----------------------------------------------------------------------------
(* The steps *)

\* What SupportedTldsServed says of one step.
StepServes ==
    \A q \in Lookup :
        ~At(q, "answered") /\ Told(q)' =>
            q \in failures' \/ silence'[lookups'[q].tld] \in 0..NegativeTtl - 1

LEMMA CachesKept ==
  ASSUME CachesInv, UNCHANGED <<discovery, silence>>
  PROVE  CachesInv'
  BY DEF CachesInv, NegativeHonest

\* A step after which a call that is not aborted, or that failed, is told.
LEMMA ExcuseServes ==
  ASSUME NEW q, NEW tld, OnlyExcused(q, tld), silence' = silence,
         q \notin signals \/ q \in failures'
  PROVE  StepServes
  BY DEF OnlyExcused, StepServes, Excused

LEMMA NobodyServes == NobodyTold => StepServes
  BY DEF NobodyTold, StepServes

LEMMA CallOf ==
  ASSUME CallsInv, NEW q \in Lookup
  PROVE  lookups[q] \in CallRecord /\ lookups[q].tld \in Tld
  BY DEF CallsInv, CallRecord

\* A verdict other than unsupported
LEMMA AnswerKeeps ==
  ASSUME CallsInv, NEW q \in Lookup, NEW verdict \in VerdictRecord,
         verdict.status # "unsupported_tld", Return(q, lookups[q], verdict)
  PROVE  CallsInv' /\ NobodyTold
  BY CallOf, ReturnKeeps DEF NobodyTold, Told

LEMMA RefusalServes ==
  ASSUME LookupInv, NEW q \in Lookup, NEW domain \in Domain, RefuseDomain(q, domain)
  PROVE  LookupInv' /\ StepServes
  <1> DEFINE refusal == Verdict("VALIDATION_ERROR", "none")
  <1>1. refusal \in VerdictRecord /\ refusal.status # "unsupported_tld"
    BY DEF Verdict, VerdictRecord, VerdictStatuses
  <1>2. Return(q, lookups[q], refusal) /\ UNCHANGED <<discovery, silence>>
    BY DEF RefuseDomain, caches
  <1> HIDE DEF refusal
  <1> QED
    BY <1>1, <1>2, AnswerKeeps, CachesKept, NobodyServes DEF LookupInv

LEMMA BeginServes ==
  ASSUME LookupInv, NEW q \in Lookup, NEW domain \in Domain, NEW tld \in Tld,
         BeginLookup(q, domain, tld)
  PROVE  LookupInv' /\ StepServes
  <1> DEFINE l == [step |-> "idle", tld |-> tld,
                   captured |-> tld # "override" /\ listed]
  <1>1. l \in CallRecord /\ l.tld = tld
    BY DEF CallRecord
  <1>2. At(q, "idle") /\ UNCHANGED <<discovery, silence>>
    BY DEF BeginLookup, caches
  <1>3. ~At(q, "answered") /\ q \notin signals
    BY <1>2 DEF At, LookupInv, CallsInv
  <1>4. \/ Await(q, l, "rdap") \/ Await(q, l, "bootstrap")
        \/ WithSnapshot(q, l, listed)
    BY DEF BeginLookup
  <1> HIDE DEF l
  <1>5. CASE Await(q, l, "rdap") \/ Await(q, l, "bootstrap")
    BY <1>1, <1>2, <1>3, <1>5, AwaitKeeps, CachesKept, NobodyServes DEF LookupInv, Waiting
  <1>6. CASE WithSnapshot(q, l, listed)
    BY <1>1, <1>2, <1>3, <1>6, SnapshotKeeps, CachesKept, ExcuseServes DEF LookupInv
  <1> QED
    BY <1>4, <1>5, <1>6

\* After a refresh the call goes by its own document, after a failure by the old one.
LEMMA RefreshHolds ==
  ASSUME CallsInv, NEW q \in Lookup, SnapshotRefreshed(q) \/ RefreshFails(q)
  PROVE  \E l \in CallRecord, snapshot \in BOOLEAN :
            /\ l.tld = lookups[q].tld /\ l.captured = snapshot
            /\ \/ q \in failures' /\ snapshot = lookups[q].captured
               \/ failures' = failures /\ snapshot = listed'
            /\ WithSnapshot(q, l, snapshot)
  <1>1. lookups[q] \in CallRecord /\ lookups[q].captured \in BOOLEAN
    BY CallOf DEF CallRecord
  <1>2. CASE SnapshotRefreshed(q)
    <2> DEFINE l == [lookups[q] EXCEPT !.captured = listed']
    <2>1. listed' \in BOOLEAN /\ failures' = failures /\ WithSnapshot(q, l, listed')
      BY <1>2 DEF SnapshotRefreshed
    <2>2. l \in CallRecord /\ l.tld = lookups[q].tld /\ l.captured = listed'
      BY <1>1, <2>1 DEF CallRecord
    <2> HIDE DEF l
    <2> QED
      BY <2>1, <2>2
  <1>3. CASE RefreshFails(q)
    BY <1>1, <1>3 DEF RefreshFails, Captured
  <1> QED
    BY <1>2, <1>3

LEMMA BootstrapServes ==
  ASSUME LookupInv, NEW q \in Lookup, SnapshotRefreshed(q) \/ RefreshFails(q)
  PROVE  LookupInv' /\ StepServes
  <1>1. ~At(q, "answered")
    BY DEF At, SnapshotRefreshed, RefreshFails
  <1>2. UNCHANGED <<discovery, silence>>
    BY DEF SnapshotRefreshed, RefreshFails, caches
  <1>3. q \notin signals \/ q \in failures'
    BY DEF SnapshotRefreshed, RefreshFails
  <1>4. PICK l \in CallRecord, snapshot \in BOOLEAN : WithSnapshot(q, l, snapshot)
    BY RefreshHolds DEF LookupInv
  <1> QED
    BY <1>1, <1>2, <1>3, <1>4, SnapshotKeeps, CachesKept, ExcuseServes DEF LookupInv

LEMMA DiscoveryServes ==
  ASSUME LookupInv, NEW q \in Lookup, DiscoveryAnswers(q)
  PROVE  LookupInv' /\ StepServes
  <1> DEFINE l == lookups[q]
  <1>1. l \in CallRecord /\ l.tld \in Tld
    BY CallOf DEF LookupInv
  <1>2. ~At(q, "answered")
    BY DEF At, DiscoveryAnswers
  <1>3. CASE /\ discovery' = [discovery EXCEPT ![l.tld] = [age |-> 0, host |-> TRUE]]
             /\ UNCHANGED silence
             /\ Await(q, l, "whois")
    <2>1. CachesInv'
      <3>1. discovery' \in [Tld -> [age : Nat \cup {None}, host : BOOLEAN]]
        BY <1>3 DEF LookupInv, CachesInv
      <3>2. ASSUME NEW t \in Tld PROVE NegativeHonest(t)'
        BY <1>3, <3>2 DEF LookupInv, CachesInv, NegativeHonest
      <3> QED
        BY <1>3, <3>1, <3>2 DEF LookupInv, CachesInv
    <2> QED
      BY <1>1, <1>2, <1>3, <2>1, AwaitKeeps, NobodyServes DEF LookupInv, Waiting
  <1>4. CASE /\ discovery' = [discovery EXCEPT ![l.tld] = [age |-> 0, host |-> FALSE]]
             /\ silence' = [silence EXCEPT ![l.tld] = 0]
             /\ Return(q, l, Unsupported)
    <2>1. silence' \in [Tld -> 0..NegativeTtl \cup {None}] /\ silence'[l.tld] = 0
      BY <1>1, <1>4, LookupAssumption DEF LookupInv, CachesInv
    <2>2. CachesInv'
      <3>1. discovery' \in [Tld -> [age : Nat \cup {None}, host : BOOLEAN]]
        BY <1>4 DEF LookupInv, CachesInv
      <3>2. ASSUME NEW t \in Tld PROVE NegativeHonest(t)'
        <4>1. CASE t = l.tld
          BY <1>1, <1>4, <2>1, <4>1 DEF LookupInv, CachesInv, NegativeHonest, None
        <4>2. CASE t # l.tld
          BY <1>4, <4>2 DEF LookupInv, CachesInv, NegativeHonest
        <4> QED
          BY <4>1, <4>2
      <3> QED
        BY <2>1, <3>1, <3>2 DEF CachesInv
    <2>3. CallsInv' /\ lookups'[q].tld = l.tld
          /\ \A p \in Lookup \ {q} : ~At(p, "answered") => ~Told(p)'
      BY <1>1, <1>4, ReturnKeeps, UnsupportedRecord DEF LookupInv
    <2>4. StepServes
      BY <2>1, <2>3, LookupAssumption DEF StepServes
    <2> QED
      BY <2>2, <2>3, <2>4 DEF LookupInv
  <1> QED
    BY <1>3, <1>4 DEF DiscoveryAnswers

LEMMA DiscoveryFailureServes ==
  ASSUME LookupInv, NEW q \in Lookup, DiscoveryFails(q)
  PROVE  LookupInv' /\ StepServes
  <1>1. /\ Return(q, lookups[q], Unsupported) /\ q \in failures'
        /\ UNCHANGED <<discovery, silence>>
    BY DEF DiscoveryFails, AfterFailure
  <1>2. CallsInv' /\ \A p \in Lookup \ {q} : ~At(p, "answered") => ~Told(p)'
    BY <1>1, CallOf, ReturnKeeps, UnsupportedRecord DEF LookupInv
  <1> QED
    BY <1>1, <1>2, CachesKept DEF LookupInv, StepServes

\* Neither a reply of RDAP or WHOIS nor an error on the way calls a TLD unsupported.
LEMMA LookupEnds ==
  ASSUME NEW q \in Lookup, LookupAnswers(q) \/ LookupErrs(q)
  PROVE  \E verdict \in VerdictRecord :
            verdict.status # "unsupported_tld" /\ Return(q, lookups[q], verdict)
  <1>1. ASSUME NEW code PROVE RdapVerdict(code) \in VerdictRecord
                                /\ RdapVerdict(code).status # "unsupported_tld"
    BY DEF RdapVerdict, Verdict, VerdictRecord, VerdictStatuses
  <1>2. ASSUME NEW patterns PROVE WhoisVerdict(patterns) \in VerdictRecord
                                  /\ WhoisVerdict(patterns).status # "unsupported_tld"
    BY DEF WhoisVerdict, Verdict, VerdictRecord, VerdictStatuses
  <1>3. ASSUME NEW s \in {"rdap", "whois"}
        PROVE  Verdict("indeterminate", s) \in VerdictRecord
               /\ Verdict("indeterminate", s).status # "unsupported_tld"
    BY DEF Verdict, VerdictRecord, VerdictStatuses
  <1>4. \/ \E code : Return(q, lookups[q], RdapVerdict(code))
        \/ \E patterns : Return(q, lookups[q], WhoisVerdict(patterns))
        \/ \E s \in {"rdap", "whois"} : Return(q, lookups[q], Verdict("indeterminate", s))
    BY DEF LookupAnswers, LookupErrs
  <1> QED
    BY <1>1, <1>2, <1>3, <1>4

LEMMA LookupServes ==
  ASSUME LookupInv, NEW q \in Lookup, LookupAnswers(q) \/ LookupErrs(q)
  PROVE  LookupInv' /\ StepServes
  <1>1. UNCHANGED <<discovery, silence>>
    BY DEF LookupAnswers, LookupErrs, caches
  <1>2. PICK verdict \in VerdictRecord :
          verdict.status # "unsupported_tld" /\ Return(q, lookups[q], verdict)
    BY LookupEnds
  <1> QED
    BY <1>1, <1>2, AnswerKeeps, CachesKept, NobodyServes DEF LookupInv

\* The timer, the next use of a place, and the ageing of the caches tell nobody.
LEMMA TimerServes ==
  ASSUME LookupInv, NEW q \in Lookup, LookupTimer(q)
  PROVE  LookupInv' /\ StepServes
  <1>1. /\ lookups[q].step # "idle" /\ lookups[q].step # "answered"
        /\ signals' = signals \cup {q}
        /\ UNCHANGED <<discovery, silence, lookups, verdicts>>
    BY DEF LookupTimer, caches
  <1>2. CallsInv'
    BY <1>1 DEF LookupInv, CallsInv, At, Told
  <1>3. NobodyTold
    BY <1>1 DEF LookupInv, CallsInv, Told, NobodyTold
  <1> QED
    BY <1>1, <1>2, <1>3, CachesKept, NobodyServes DEF LookupInv

LEMMA NextCallServes ==
  ASSUME LookupInv, NEW q \in Lookup, NextLookup(q)
  PROVE  LookupInv' /\ StepServes
  <1>1. /\ At(q, "answered")
        /\ lookups' = [lookups EXCEPT ![q] = Idle]
        /\ verdicts' = [verdicts EXCEPT ![q] = NoVerdict]
        /\ UNCHANGED <<discovery, silence, signals>>
    BY DEF NextLookup, caches
  <1>2. Idle \in CallRecord /\ Idle.step = "idle"
    BY DEF Idle, CallRecord, Tld
  <1>3. NoVerdict \in VerdictRecord /\ NoVerdict.status # "unsupported_tld"
    BY DEF NoVerdict, VerdictRecord, VerdictStatuses
  <1>4. /\ lookups' \in [Lookup -> CallRecord] /\ verdicts' \in [Lookup -> VerdictRecord]
        /\ lookups'[q].step = "idle" /\ ~Told(q)'
        /\ \A p \in Lookup \ {q} : lookups'[p] = lookups[p] /\ verdicts'[p] = verdicts[p]
    BY <1>1, <1>2, <1>3 DEF LookupInv, CallsInv, Told
  <1>5. \A p \in Lookup : At(p, "idle")' \/ At(p, "answered")' => p \notin signals'
    BY <1>1, <1>4 DEF LookupInv, CallsInv, At
  <1>6. \A p \in Lookup : ~At(p, "answered")' => ~Told(p)'
    BY <1>4 DEF LookupInv, CallsInv, At, Told
  <1>7. NobodyTold
    BY <1>1, <1>4 DEF LookupInv, CallsInv, At, Told, NobodyTold
  <1> QED
    BY <1>1, <1>4, <1>5, <1>6, <1>7, CachesKept, NobodyServes DEF LookupInv, CallsInv

LEMMA AgeingServes ==
  ASSUME LookupInv, CachesAge
  PROVE  LookupInv' /\ StepServes
  <1>1. /\ discovery' = [t \in Tld |-> [discovery[t] EXCEPT !.age = Older(@, PositiveTtl)]]
        /\ silence' = [t \in Tld |-> Older(silence[t], NegativeTtl)]
        /\ UNCHANGED <<lookups, signals, verdicts>>
    BY DEF CachesAge
  <1>2. ASSUME NEW t \in Tld
        PROVE  /\ discovery'[t] \in [age : Nat \cup {None}, host : BOOLEAN]
               /\ silence'[t] \in 0..NegativeTtl \cup {None}
               /\ NegativeHonest(t)'
    <2>1. /\ discovery[t] \in [age : Nat \cup {None}, host : BOOLEAN]
          /\ silence[t] \in 0..NegativeTtl \cup {None}
          /\ NegativeHonest(t)
      BY DEF LookupInv, CachesInv
    <2>2. /\ discovery'[t].age = Older(discovery[t].age, PositiveTtl)
          /\ discovery'[t].host = discovery[t].host
          /\ silence'[t] = Older(silence[t], NegativeTtl)
          /\ discovery'[t] = [discovery[t] EXCEPT !.age = Older(discovery[t].age, PositiveTtl)]
      BY <1>1, <2>1
    <2>3. Older(discovery[t].age, PositiveTtl) \in Nat \cup {None}
      BY <2>1, LookupAssumption DEF Older, None
    <2>4. Older(silence[t], NegativeTtl) \in 0..NegativeTtl \cup {None}
      BY <2>1, LookupAssumption DEF Older, None
    <2>5. NegativeHonest(t)'
      BY <2>1, <2>2, LookupAssumption DEF NegativeHonest, Older, None
    <2> QED
      BY <2>1, <2>2, <2>3, <2>4, <2>5
  <1>3. CachesInv'
    BY <1>1, <1>2 DEF CachesInv
  <1>4. CallsInv' /\ NobodyTold
    BY <1>1 DEF LookupInv, CallsInv, At, Told, NobodyTold
  <1> QED
    BY <1>3, <1>4, NobodyServes DEF LookupInv

LEMMA StepKeeps == LookupInv /\ LookupNext => LookupInv' /\ StepServes
  BY RefusalServes, BeginServes, BootstrapServes, DiscoveryServes, DiscoveryFailureServes,
     LookupServes, TimerServes, NextCallServes, AgeingServes DEF LookupNext

LEMMA LookupStart == LookupInit => LookupInv
  <1> SUFFICES ASSUME LookupInit PROVE LookupInv
    OBVIOUS
  <1>1. Idle \in CallRecord /\ Idle.step = "idle"
    BY DEF Idle, CallRecord, Tld
  <1>2. NoVerdict \in VerdictRecord /\ NoVerdict.status # "unsupported_tld"
    BY DEF NoVerdict, VerdictRecord, VerdictStatuses
  <1>3. CallsInv
    BY <1>1, <1>2 DEF LookupInit, CallsInv, At, Told
  <1>4. CachesInv
    BY DEF LookupInit, CachesInv, NegativeHonest, NoEntry
  <1> QED
    BY <1>3, <1>4 DEF LookupInv

LEMMA StutterKeeps == LookupInv /\ UNCHANGED lookupVars => LookupInv'
  BY DEF lookupVars, LookupInv, CallsInv, CachesInv, NegativeHonest, At, Told

\* A TLD is called unsupported only for a failure of the call's own or a recent reply
\* of IANA, for any number of overlapping lookups (discoverWhoisServer).
THEOREM SupportedServed == LookupSpec => SupportedTldsServed
  <1>1. LookupInv /\ [LookupNext]_lookupVars => LookupInv'
    BY StepKeeps, StutterKeeps
  <1>2. LookupInv /\ [LookupNext]_lookupVars =>
          [\A q \in Lookup :
             ~At(q, "answered") /\ verdicts'[q].status = "unsupported_tld"
             => \/ q \in failures'
                \/ silence'[lookups'[q].tld] \in 0..NegativeTtl - 1]_lookupVars
    BY StepKeeps DEF StepServes, Told
  <1> QED
    BY LookupStart, <1>1, <1>2, PTL DEF LookupSpec, SupportedTldsServed
-----------------------------------------------------------------------------
(* The snapshot captured before a refresh *)

Holds(q) == lookups[q].captured /\ lookups[q].tld = "other"

\* A call with a snapshot of its TLD waits for the refresh or for RDAP.
HoldersInv == \A q \in Lookup : Holds(q) => lookups[q].step \in {"bootstrap", "rdap"}

\* The refresh is the first query of a call.
NoneFailedInv == \A q \in Lookup : At(q, "idle") \/ At(q, "bootstrap") => q \notin failures

\* The call's own refresh has brought a document that does not list the TLD.
Unlisted(q) == q \notin failures' /\ ~listed'

\* What SnapshotOutlivesOutage says of one step.
StepAsks ==
    \A q \in Lookup :
        Holds(q) => \/ lookups'[q].step \notin {"discover", "whois"} /\ ~Told(q)'
                    \/ Unlisted(q)

LEMMA AwaitAsks ==
  ASSUME CallsInv, HoldersInv, NEW q \in Lookup, NEW l \in CallRecord, NEW step \in Waiting,
         Await(q, l, step), Holds(q) => Unlisted(q) \/ (l.captured /\ l.tld = "other"),
         l.captured /\ l.tld = "other" => step \in {"bootstrap", "rdap"}
  PROVE  HoldersInv' /\ StepAsks
  <1> DEFINE next == [l EXCEPT !.step = step]
  <1>1. next \in CallRecord /\ next.step = step /\ next.captured = l.captured /\ next.tld = l.tld
    BY DEF CallRecord
  <1>2. lookups' = [lookups EXCEPT ![q] = next] /\ verdicts' = verdicts
    BY DEF Await
  <1> HIDE DEF next
  <1>3. lookups'[q] = next /\ \A p \in Lookup \ {q} : lookups'[p] = lookups[p]
    BY <1>2 DEF CallsInv
  <1>4. HoldersInv'
    BY <1>1, <1>3 DEF HoldersInv, Holds
  <1>5. \A p \in Lookup : Holds(p) => Unlisted(p) \/ lookups'[p].step \notin {"discover", "whois"}
    BY <1>1, <1>3 DEF HoldersInv, Holds
  <1>6. \A p \in Lookup : Holds(p) => ~Told(p)'
    BY <1>2 DEF HoldersInv, CallsInv, Told, At
  <1> QED
    BY <1>4, <1>5, <1>6 DEF StepAsks

LEMMA ReturnAsks ==
  ASSUME CallsInv, HoldersInv, NEW q \in Lookup, NEW l \in CallRecord,
         NEW verdict \in VerdictRecord, Return(q, l, verdict),
         Holds(q) => Unlisted(q) \/ verdict.status # "unsupported_tld"
  PROVE  HoldersInv' /\ StepAsks
  <1> DEFINE done == [l EXCEPT !.step = "answered", !.captured = FALSE]
  <1>1. done.step = "answered" /\ done.captured = FALSE
    BY DEF CallRecord
  <1>2. lookups' = [lookups EXCEPT ![q] = done] /\ verdicts' = [verdicts EXCEPT ![q] = verdict]
    BY DEF Return
  <1> HIDE DEF done
  <1>3. /\ lookups'[q] = done /\ verdicts'[q] = verdict
        /\ \A p \in Lookup \ {q} : lookups'[p] = lookups[p] /\ verdicts'[p] = verdicts[p]
    BY <1>2 DEF CallsInv
  <1>4. HoldersInv'
    BY <1>1, <1>3 DEF HoldersInv, Holds
  <1>5. \A p \in Lookup : Holds(p) => lookups'[p].step \notin {"discover", "whois"}
    BY <1>1, <1>3 DEF HoldersInv, Holds
  <1>6. \A p \in Lookup : Holds(p) => Unlisted(p) \/ ~Told(p)'
    BY <1>3 DEF HoldersInv, CallsInv, Told, At
  <1> QED
    BY <1>4, <1>5, <1>6 DEF StepAsks

LEMMA ResolveAsks ==
  ASSUME CallsInv, HoldersInv, NEW q \in Lookup, NEW l \in CallRecord,
         ResolveWhois(q, l), Holds(q) => Unlisted(q), ~(l.captured /\ l.tld = "other")
  PROVE  HoldersInv' /\ StepAsks
  <1>1. Await(q, l, "whois") \/ Await(q, l, "discover") \/ Return(q, l, Unsupported)
    BY DEF ResolveWhois
  <1> QED
    BY <1>1, AwaitAsks, ReturnAsks, UnsupportedRecord DEF Waiting

LEMMA BeginAsks ==
  ASSUME CallsInv, HoldersInv, NEW q \in Lookup, NEW domain \in Domain, NEW tld \in Tld,
         listed \in BOOLEAN, BeginLookup(q, domain, tld)
  PROVE  HoldersInv' /\ StepAsks
  <1> DEFINE l == [step |-> "idle", tld |-> tld,
                   captured |-> tld # "override" /\ listed]
  <1>1. l \in CallRecord /\ l.tld = tld /\ (tld = "other" => l.captured = listed)
    BY DEF CallRecord
  <1>2. ~Holds(q)
    BY DEF BeginLookup, At, HoldersInv
  <1>3. \/ Await(q, l, "rdap") \/ Await(q, l, "bootstrap")
        \/ WithSnapshot(q, l, listed)
    BY DEF BeginLookup
  <1> HIDE DEF l
  <1>4. CASE Await(q, l, "rdap") \/ Await(q, l, "bootstrap")
    BY <1>1, <1>2, <1>4, AwaitAsks DEF Waiting
  <1>5. CASE WithSnapshot(q, l, listed)
    <2>1. CASE tld = "other" /\ listed
      BY <1>1, <1>2, <1>5, <2>1, AwaitAsks DEF WithSnapshot, Waiting
    <2>2. CASE ~(tld = "other" /\ listed)
      BY <1>1, <1>2, <1>5, <2>2, ResolveAsks DEF WithSnapshot
    <2> QED
      BY <2>1, <2>2
  <1> QED
    BY <1>3, <1>4, <1>5

LEMMA BootstrapAsks ==
  ASSUME CallsInv, HoldersInv, NoneFailedInv, NEW q \in Lookup,
         SnapshotRefreshed(q) \/ RefreshFails(q)
  PROVE  HoldersInv' /\ StepAsks
  <1>1. q \notin failures
    BY DEF NoneFailedInv, SnapshotRefreshed, RefreshFails
  <1>2. PICK l \in CallRecord, snapshot \in BOOLEAN :
            /\ l.tld = lookups[q].tld /\ l.captured = snapshot
            /\ \/ q \in failures' /\ snapshot = lookups[q].captured
               \/ failures' = failures /\ snapshot = listed'
            /\ WithSnapshot(q, l, snapshot)
    BY RefreshHolds
  <1>3. Holds(q) => Unlisted(q) \/ (l.captured /\ l.tld = "other")
    BY <1>1, <1>2 DEF Holds, Unlisted
  <1>4. CASE snapshot /\ l.tld = "other"
    <2>1. Await(q, l, "rdap")
      BY <1>2, <1>4 DEF WithSnapshot
    <2> QED
      BY <1>3, <2>1, AwaitAsks DEF Waiting
  <1>5. CASE ~(snapshot /\ l.tld = "other")
    <2>1. ResolveWhois(q, l) /\ ~(l.captured /\ l.tld = "other")
      BY <1>2, <1>5 DEF WithSnapshot
    <2> QED
      BY <1>3, <2>1, ResolveAsks
  <1> QED
    BY <1>4, <1>5

LEMMA StepKeepsHolders ==
  ASSUME CallsInv, HoldersInv, NoneFailedInv, listed \in BOOLEAN, LookupNext
  PROVE  HoldersInv' /\ StepAsks
  <1>1. ASSUME NEW q \in Lookup, NEW domain \in Domain, RefuseDomain(q, domain)
        PROVE  HoldersInv' /\ StepAsks
    <2>1. Verdict("VALIDATION_ERROR", "none") \in VerdictRecord
      BY DEF Verdict, VerdictRecord, VerdictStatuses
    <2>2. ~Holds(q) /\ Return(q, lookups[q], Verdict("VALIDATION_ERROR", "none"))
      BY <1>1 DEF RefuseDomain, At, HoldersInv
    <2> QED
      BY <2>1, <2>2, CallOf, ReturnAsks
  <1>2. ASSUME NEW q \in Lookup, DiscoveryAnswers(q) \/ DiscoveryFails(q)
        PROVE  HoldersInv' /\ StepAsks
    <2>1. ~Holds(q)
      BY <1>2 DEF DiscoveryAnswers, DiscoveryFails, At, HoldersInv
    <2>2. Await(q, lookups[q], "whois") \/ Return(q, lookups[q], Unsupported)
      BY <1>2 DEF DiscoveryAnswers, DiscoveryFails
    <2> QED
      BY <2>1, <2>2, CallOf, AwaitAsks, ReturnAsks, UnsupportedRecord DEF Holds, Waiting
  <1>3. ASSUME NEW q \in Lookup, LookupAnswers(q) \/ LookupErrs(q)
        PROVE  HoldersInv' /\ StepAsks
    BY <1>3, LookupEnds, CallOf, ReturnAsks
  <1>4. ASSUME UNCHANGED <<lookups, verdicts>> PROVE HoldersInv' /\ StepAsks
    BY <1>4 DEF HoldersInv, Holds, StepAsks, CallsInv, Told, At
  <1>5. ASSUME NEW q \in Lookup, NextLookup(q) PROVE HoldersInv' /\ StepAsks
    <2>1. ~Holds(q) /\ ~Idle.captured
      BY <1>5 DEF NextLookup, At, HoldersInv, Idle
    <2>2. /\ lookups'[q] = Idle
          /\ \A p \in Lookup \ {q} : lookups'[p] = lookups[p] /\ verdicts'[p] = verdicts[p]
      BY <1>5 DEF NextLookup, CallsInv
    <2> QED
      BY <2>1, <2>2 DEF HoldersInv, Holds, StepAsks, CallsInv, Told, At
  <1> QED
    BY <1>1, <1>2, <1>3, <1>4, <1>5, BeginAsks, BootstrapAsks
       DEF LookupNext, LookupTimer, CachesAge

\* A query has failed only behind the first stage, and a place is used again with none.
LEMMA NoneFailedKept ==
  ASSUME CallsInv, NoneFailedInv, LookupNext
  PROVE  NoneFailedInv'
  <1>1. ASSUME NEW q \in Lookup, NEW l \in CallRecord, NEW step \in Waiting, Await(q, l, step)
        PROVE  /\ lookups'[q].step = step
               /\ \A p \in Lookup \ {q} : lookups'[p] = lookups[p]
    BY <1>1 DEF Await, CallsInv, CallRecord
  <1>2. ASSUME NEW q \in Lookup, NEW l \in CallRecord, NEW verdict, Return(q, l, verdict)
        PROVE  /\ lookups'[q].step = "answered"
               /\ \A p \in Lookup \ {q} : lookups'[p] = lookups[p]
    BY <1>2 DEF Return, CallsInv, CallRecord
  <1>3. ASSUME NEW q \in Lookup, NEW l \in CallRecord, ResolveWhois(q, l)
        PROVE  /\ lookups'[q].step \notin {"idle", "bootstrap"}
               /\ \A p \in Lookup \ {q} : lookups'[p] = lookups[p]
    <2>1. Await(q, l, "whois") \/ Await(q, l, "discover") \/ Return(q, l, Unsupported)
      BY <1>3 DEF ResolveWhois
    <2> QED
      BY <1>1, <1>2, <2>1 DEF Waiting
  <1>4. ASSUME NEW q \in Lookup, NEW l \in CallRecord, NEW snapshot, WithSnapshot(q, l, snapshot)
        PROVE  /\ lookups'[q].step \notin {"idle", "bootstrap"}
               /\ \A p \in Lookup \ {q} : lookups'[p] = lookups[p]
    BY <1>1, <1>3, <1>4 DEF WithSnapshot, Waiting
  <1>5. ASSUME NEW q \in Lookup, NEW domain \in Domain, NEW tld \in Tld,
               BeginLookup(q, domain, tld)
        PROVE  NoneFailedInv'
    <2> DEFINE l == [step |-> "idle", tld |-> tld,
                     captured |-> tld # "override" /\ listed]
    <2>1. l \in CallRecord
      BY DEF CallRecord
    <2>2. /\ Await(q, l, "rdap") \/ Await(q, l, "bootstrap") \/ WithSnapshot(q, l, listed)
          /\ At(q, "idle") /\ failures' = failures
      BY <1>5 DEF BeginLookup
    <2> HIDE DEF l
    <2>3. \A p \in Lookup \ {q} : lookups'[p] = lookups[p]
      BY <1>1, <1>4, <2>1, <2>2 DEF Waiting
    <2> QED
      BY <2>2, <2>3 DEF NoneFailedInv, At
  <1>6. ASSUME NEW q \in Lookup,
               /\ lookups'[q].step \notin {"idle", "bootstrap"}
               /\ \A p \in Lookup \ {q} : lookups'[p] = lookups[p],
               failures' \in {failures, failures \cup {q}}
        PROVE  NoneFailedInv'
    BY <1>6 DEF NoneFailedInv, At
  <1>7. ASSUME NEW q \in Lookup, SnapshotRefreshed(q) \/ RefreshFails(q)
        PROVE  NoneFailedInv'
    <2>1. PICK l \in CallRecord, snapshot \in BOOLEAN : WithSnapshot(q, l, snapshot)
      BY <1>7, RefreshHolds
    <2>2. failures' \in {failures, failures \cup {q}}
      BY <1>7 DEF SnapshotRefreshed, RefreshFails
    <2> QED
      BY <1>4, <1>6, <2>1, <2>2
  <1>8. ASSUME NEW q \in Lookup, DiscoveryAnswers(q) \/ DiscoveryFails(q)
        PROVE  NoneFailedInv'
    <2>1. Await(q, lookups[q], "whois") \/ Return(q, lookups[q], Unsupported)
      BY <1>8 DEF DiscoveryAnswers, DiscoveryFails
    <2>2. failures' \in {failures, failures \cup {q}}
      BY <1>8 DEF DiscoveryAnswers, DiscoveryFails
    <2>3. /\ lookups'[q].step \notin {"idle", "bootstrap"}
          /\ \A p \in Lookup \ {q} : lookups'[p] = lookups[p]
      BY <1>1, <1>2, <2>1, CallOf DEF Waiting
    <2> QED
      BY <1>6, <2>2, <2>3
  <1>9. ASSUME NEW q \in Lookup,
               \/ \E domain \in Domain : RefuseDomain(q, domain)
               \/ LookupAnswers(q) \/ LookupErrs(q)
        PROVE  NoneFailedInv'
    <2>1. failures' = failures
      BY <1>9 DEF RefuseDomain, LookupAnswers, LookupErrs
    <2>2. \E verdict : Return(q, lookups[q], verdict)
      BY <1>9 DEF RefuseDomain, LookupAnswers, LookupErrs
    <2>3. /\ lookups'[q].step = "answered"
          /\ \A p \in Lookup \ {q} : lookups'[p] = lookups[p]
      BY <1>2, <2>2, CallOf
    <2> QED
      BY <1>6, <2>1, <2>3
  <1>10. ASSUME NEW q \in Lookup, LookupTimer(q) \/ NextLookup(q)
         PROVE  NoneFailedInv'
    BY <1>10 DEF LookupTimer, NextLookup, NoneFailedInv, CallsInv, At
  <1>11. CASE CachesAge
    BY <1>11 DEF CachesAge, NoneFailedInv, At
  <1> QED
    BY <1>5, <1>7, <1>8, <1>9, <1>10, <1>11 DEF LookupNext

LEMMA ListedType == listed \in BOOLEAN /\ [LookupNext]_lookupVars => listed' \in BOOLEAN
  BY DEF LookupNext, RefuseDomain, BeginLookup, SnapshotRefreshed, RefreshFails,
         DiscoveryAnswers, DiscoveryFails, LookupAnswers, LookupErrs, LookupTimer,
         NextLookup, CachesAge, caches, lookupVars

\* A call that began with a snapshot asks RDAP even if the refresh fails
\* (getBootstrapSnapshot).
THEOREM OutageHarmless == LookupSpec => SnapshotOutlivesOutage
  <1> DEFINE Inv == HoldersInv /\ NoneFailedInv /\ listed \in BOOLEAN
  <1>1. LookupInit => Inv
    <2>1. Idle.captured = FALSE
      BY DEF Idle
    <2> SUFFICES ASSUME LookupInit PROVE Inv
      OBVIOUS
    <2>2. listed = FALSE /\ failures = {} /\ \A q \in Lookup : lookups[q] = Idle
      BY DEF LookupInit
    <2> QED
      BY <2>1, <2>2 DEF HoldersInv, NoneFailedInv, Holds
  <1>2. CallsInv /\ Inv /\ [LookupNext]_lookupVars => Inv'
    <2> SUFFICES ASSUME Inv, UNCHANGED lookupVars PROVE HoldersInv' /\ NoneFailedInv'
      BY StepKeepsHolders, NoneFailedKept, ListedType
    <2> QED
      BY DEF lookupVars, HoldersInv, NoneFailedInv, Holds, At
  <1>3. CallsInv /\ Inv /\ [LookupNext]_lookupVars =>
          [\A q \in Lookup :
             lookups[q].tld = "other" /\ lookups[q].captured =>
                \/ /\ lookups'[q].step \notin {"discover", "whois"}
                   /\ verdicts'[q].status # "unsupported_tld"
                \/ q \notin failures' /\ ~listed']_lookupVars
    BY StepKeepsHolders DEF StepAsks, Holds, Told, Unlisted
  <1>4. LookupSpec => []CallsInv
    <2>1. LookupInv /\ [LookupNext]_lookupVars => LookupInv'
      BY StepKeeps, StutterKeeps
    <2>2. LookupInv => CallsInv
      BY DEF LookupInv
    <2> QED
      BY LookupStart, <2>1, <2>2, PTL DEF LookupSpec
  <1> HIDE DEF Inv
  <1> QED
    BY <1>1, <1>2, <1>3, <1>4, PTL DEF LookupSpec, SnapshotOutlivesOutage

\* For any number of overlapping lookups and any lifetimes of the caches: a TLD is
\* called unsupported only to a call one of whose own queries failed, or within the
\* negative lifetime of a reply in which IANA named no server; and a call that began
\* with a snapshot of the bootstrap registry is not sent past RDAP by an outage of it
\* (discoverWhoisServer, getBootstrapSnapshot).
THEOREM RegistriesHonest == LookupSpec => RegistriesServed
  BY SupportedServed, OutageHarmless DEF RegistriesServed
=============================================================================
