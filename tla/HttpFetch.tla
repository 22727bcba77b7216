------------------------------ MODULE HttpFetch ------------------------------
(***************************************************************************)
(* web_fetch, web_get and the two GraphQL tools: services/http-fetch.ts    *)
(* follows redirects by hand, http-fetch-body.ts drains the last response  *)
(* under a cap, tools/web-fetch.ts wraps both.                             *)
(*                                                                         *)
(* What servers answer is free: any status, any Location, a body cut into  *)
(* any chunks, an end, an error or silence at any point.  A body is the    *)
(* number of its units; MaxBodyBytes of them are kept.                     *)
(***************************************************************************)
EXTENDS ToolCall, FiniteSets, FiniteSetsExt

CONSTANTS
    MaxBodyBytes,    \* MAX_BODY_BYTES in units of a body
    MaxChunk,        \* bound: the largest chunk a read yields
    RedirectBound,   \* bound: the largest maxRedirects asked for
    FetchTimeout     \* PER_ROUTE_TIMEOUTS_MS.fetch, .get, .graphql, .graphqlQuery

ASSUME FetchAssumption ==
    /\ MaxBodyBytes \in Nat \ {0} /\ MaxChunk \in Nat \ {0}
    /\ RedirectBound \in Nat /\ FetchTimeout \in Nat \ {0}

VARIABLES
    fetchArgs,     \* responseFormat, followRedirects, maxRedirects
    request,       \* InternalRequest of the current hop
    hop,
    awaiting,      \* "fetch" or "body"
    response,      \* status and type of the response being read
    total,         \* DrainState.total
    openStreams,   \* hops whose response body is neither drained nor cancelled
    original,      \* history: the first request
    rewritten,     \* history: a redirect has turned the request into a GET
    offered        \* history: units of body the server has sent

fetchVars == <<fetchArgs, request, hop, awaiting, response, total,
               openStreams, original, rewritten, offered>>

Redirects == {301, 302, 303, 307, 308}         \* REDIRECT_STATUS_CODES
RewriteToGet == {301, 302, 303}                \* REDIRECT_METHOD_REWRITES
Statuses == {200, 500} \cup Redirects

HeaderClass == {"content-type", "blocked"}

\* sanitizeRequestHeaders
Sanitized(headers) == headers \ {"blocked"}

\* buildInternalRequest: encodeRequestBody supplies a missing content type,
\* except for base64.
Built(method, body, headers) ==
    [method  |-> method,
     body    |-> body # "none",
     headers |-> Sanitized(headers) \cup
                 (IF body \in {"json", "text", "form"} THEN {"content-type"} ELSE {})]

\* The calls the request schemas admit.
Calls ==
    [tool : {"web_fetch"}, method : {"POST", "DELETE"},
     body : {"none", "json", "base64"}, query : {TRUE}]
    \cup [tool : {"web_fetch", "web_get"}, method : {"GET", "HEAD"},
          body : {"none"}, query : {TRUE}]
    \cup [tool : {"web_graphql", "web_graphql_query"}, method : {"POST"},
          body : {"json"}, query : BOOLEAN]

FetchTools == {"web_fetch", "web_get", "web_graphql", "web_graphql_query"}
Graphql(name) == name \in {"web_graphql", "web_graphql_query"}

\* What the callers may choose: the GraphQL tools fix it.
Options(name) ==
    IF Graphql(name)
    THEN [format : {"auto"}, follow : {TRUE}, max : {RedirectBound}]
    ELSE [format : {"auto", "json", "text", "binary"}, follow : BOOLEAN,
          max : 0..RedirectBound]

FetchInit ==
    /\ fetchArgs = [format |-> "auto", follow |-> FALSE, max |-> 0]
    /\ request = Built("GET", "none", {}) /\ original = Built("GET", "none", {})
    /\ hop = 0 /\ awaiting = "fetch"
    /\ response = [status |-> 200, json |-> FALSE]
    /\ total = 0 /\ offered = 0
    /\ openStreams = {} /\ rewritten = FALSE

\* assertQueryOnly lets the call through, and it is dispatched.
BeginFetch ==
    /\ \E c \in Calls, headers \in SUBSET HeaderClass :
         /\ Begin(c.tool, FetchTimeout)
         /\ c.tool = "web_graphql_query" => c.query
         /\ fetchArgs' \in Options(c.tool)
         /\ request' = Built(c.method, c.body, headers)
         /\ original' = request'
    /\ UNCHANGED <<hop, awaiting, response, total, openStreams, rewritten, offered>>

\* reason is that of the error's details, or "none".
Result(format, truncated) ==
    [code |-> "OK", format |-> format, truncated |-> truncated, reason |-> "none"]
FailedFor(code, reason) ==
    [code |-> code, format |-> "none", truncated |-> FALSE, reason |-> reason]
Failure(code) == FailedFor(code, "none")

\* fetch() rejects: the network fails, or the signal is aborted.
FetchRejects ==
    /\ awaiting = "fetch"
    /\ Settle(Failure(UpstreamCode))
    /\ UNCHANGED fetchVars

-----------------------------------------------------------------------------
(* performWithRedirects: one turn of the loop *)

Final(status) ==
    \/ ~fetchArgs.follow
    \/ status \notin Redirects
    \/ hop = fetchArgs.max

\* A pending fetch() of an aborted call rejects; it no longer resolves.
Arrives(status) ==
    /\ Running /\ ~aborted
    /\ awaiting = "fetch"
    /\ status \in Statuses

\* The response to return: its body is drained next.
LastResponse ==
    /\ \E status \in Statuses, json \in BOOLEAN :
         /\ Arrives(status) /\ Final(status)
         /\ response' = [status |-> status, json |-> json]
    /\ awaiting' = "body"
    /\ openStreams' = openStreams \cup {hop}
    /\ UNCHANGED <<callVars, fetchArgs, request, hop, total, original, rewritten, offered>>

FromInitial(status) ==   \* mutant: 307 and 308 repeat the first request
    IF status \in RewriteToGet
    THEN [method |-> "GET", body |-> FALSE, headers |-> request.headers \ {"content-type"}]
    ELSE original

\* resolveRedirect: the request of the next hop.
Redirected(status) ==
    IF status \in RewriteToGet
    THEN [method |-> "GET", body |-> FALSE, headers |-> request.headers \ {"content-type"}]
    ELSE request

\* response.body.cancel() of a response that is left behind.
StreamsCancelled(streams) == streams \ {hop}

FollowRedirect ==
    /\ \E status \in Redirects :
         /\ Arrives(status) /\ ~Final(status)
         /\ request' = Redirected(status)
         /\ rewritten' = (rewritten \/ status \in RewriteToGet)
    /\ openStreams' = StreamsCancelled(openStreams \cup {hop})
    /\ hop' = hop + 1
    /\ UNCHANGED <<callVars, fetchArgs, awaiting, response, total, original, offered>>

\* That cancel() rejects, because the body has failed meanwhile.
DiscardFails ==
    /\ \E status \in Redirects : Arrives(status) /\ ~Final(status)
    /\ Settle(Failure("UPSTREAM_ERROR"))
    /\ UNCHANGED fetchVars

\* resolveRedirectUrl throws: no Location, none that parses, or a refused one.
\* The response stays as it is, its body neither drained nor cancelled.
RefuseRedirect ==
    /\ \E status \in Redirects : Arrives(status) /\ ~Final(status)
    /\ openStreams' = openStreams \cup {hop}
    /\ Settle(FailedFor("UPSTREAM_ERROR", "redirect"))
    /\ UNCHANGED <<fetchArgs, request, hop, awaiting, response, total,
                   original, rewritten, offered>>

-----------------------------------------------------------------------------
(* drainReader and decodeResponseBody *)

Fits(chunk) == chunk < MaxBodyBytes - total    \* mutant: < for <=

\* appendChunkOrTruncate
ChunkFits(chunk) == chunk <= MaxBodyBytes - total

ReadChunk ==
    /\ Running /\ awaiting = "body" /\ ~aborted
    /\ \E chunk \in 1..MaxChunk :
         /\ ChunkFits(chunk)
         /\ total' = total + chunk
         /\ offered' = offered + chunk
    /\ UNCHANGED <<callVars, fetchArgs, request, hop, awaiting, response,
                   openStreams, original, rewritten>>

\* What the whole of a body is: a JSON object, another JSON value, or no JSON.
Content == {"object", "value", "text"}

\* decodeResponseBody: truncated JSON is never parsed.
Decoded(truncated, content) ==
    CASE fetchArgs.format \in {"binary", "text"} -> Result(fetchArgs.format, truncated)
      [] fetchArgs.format = "json" ->
            IF truncated \/ content = "text" THEN Failure("BAD_REQUEST") ELSE Result("json", FALSE)
      [] fetchArgs.format = "auto" ->
            IF ~truncated /\ response.json /\ content # "text"
            THEN Result("json", FALSE) ELSE Result("text", truncated)

\* toGraphqlResult: what is no JSON object becomes a synthetic error.
Answer(decoded, content) ==
    IF Graphql(tool) /\ ~(decoded.format = "json" /\ content = "object")
    THEN [decoded EXCEPT !.code = "NOT_JSON"]
    ELSE decoded

Drained(truncated) ==
    /\ openStreams' = openStreams \ {hop}
    /\ \E content \in Content : Settle(Answer(Decoded(truncated, content), content))
    /\ UNCHANGED <<fetchArgs, request, hop, awaiting, response, original, rewritten>>

EndOfBody ==
    /\ awaiting = "body" /\ ~aborted
    /\ Drained(FALSE)
    /\ UNCHANGED <<total, offered>>

\* A chunk that does not fit is cut.
CutChunk ==
    /\ awaiting = "body" /\ ~aborted
    /\ \E chunk \in 1..MaxChunk :
         /\ ~ChunkFits(chunk)
         /\ offered' = offered + chunk
    /\ total' = total + Max({MaxBodyBytes - total, 0})

\* The reader is then cancelled.
Truncate == CutChunk /\ Drained(TRUE)

BodyLost ==
    /\ openStreams' = openStreams \ {hop}
    /\ Settle(Failure(UpstreamCode))
    /\ UNCHANGED <<fetchArgs, request, hop, awaiting, response, original, rewritten>>

\* That cancel() rejects, because the body has failed meanwhile.
CancelFails == CutChunk /\ BodyLost

\* read() rejects, or the abort wins the race: the reader is cancelled.
BodyFails ==
    /\ awaiting = "body"
    /\ BodyLost
    /\ UNCHANGED <<total, offered>>

FetchClock == (Pass(FALSE) \/ FireTimer) /\ UNCHANGED fetchVars

FetchNext ==
    \/ BeginFetch \/ FetchRejects
    \/ LastResponse \/ FollowRedirect \/ DiscardFails \/ RefuseRedirect
    \/ ReadChunk \/ EndOfBody \/ Truncate \/ CancelFails \/ BodyFails
    \/ FetchClock

FetchSpec == CallInit /\ FetchInit /\ [][FetchNext]_<<callVars, fetchVars>>

\* An aborted fetch or read rejects, and the clock runs; servers owe nothing.
FetchFairness ==
    LET v == <<callVars, fetchVars>> IN
    /\ WF_v(tool \in FetchTools /\ FetchClock)
    /\ WF_v(tool \in FetchTools /\ aborted /\ (FetchRejects \/ BodyFails))

-----------------------------------------------------------------------------
(* Properties *)

\* Along any chain of redirects a request is the caller's own until the first
\* 301, 302 or 303, and a GET without payload and content type ever after: a later
\* 307 or 308 does not bring the payload back (resolveRedirect).
PayloadFollowsMethod ==
    IF rewritten
    THEN request = [method |-> "GET", body |-> FALSE,
                    headers |-> original.headers \ {"content-type"}]
    ELSE request = original

\* However the body was cut into chunks, a result says truncated exactly when the
\* server had sent more than was kept, all of the cap was used then, and JSON is
\* delivered only whole (readBodyWithCap, decodeResponseBody).
TruncationTold ==
    call = "answered" /\ awaiting = "body" /\ answer.code = "OK" =>
        /\ answer.truncated <=> offered > total
        /\ total = Min({offered, MaxBodyBytes})
        /\ answer.format = "json" => offered = total

\* Never are two response bodies open at once; and behind an answer one is open
\* exactly if the call ended by refusing a redirect, whose response it then leaves
\* as it came: all others have been drained or cancelled (the cancel() of
\* performWithRedirects, which comes after the refusal, and drainReader).
OnlyRefusedStaysOpen ==
    /\ Cardinality(openStreams) <= 1
    /\ call = "answered" /\ tool \in FetchTools =>
         openStreams = IF answer.reason = "redirect" THEN {hop} ELSE {}
=============================================================================
