---------------------------- MODULE MetadataFetch ----------------------------
(***************************************************************************)
(* One flight of the client resolver: the pinned HTTPS transport           *)
(* (oauth/client-metadata-transport.ts) and the redirect, validation and   *)
(* freshness policy (oauth/client-metadata-document.ts).  ClientResolver   *)
(* sees such a flight as one answer, one failure or silence until its      *)
(* signal is aborted; here are the steps behind it.                        *)
(*                                                                         *)
(* Unlike the tools, a flight has a deadline beside its timer, because the *)
(* timer may run late; and shutdown aborts it at any time.  The deadline   *)
(* is read anew at every step and twice where a request is sent; between   *)
(* those two readings it may pass.                                         *)
(***************************************************************************)
EXTENDS ToolCall, FiniteSetsExt

CONSTANTS
    CimdTimeout,         \* CIMD_TIMEOUT_MS
    MaxResponseBytes,    \* MAX_RESPONSE_BYTES, in units of a body
    MaxRedirects,        \* MAX_REDIRECTS
    MaxPositiveTtl,      \* MAX_POSITIVE_TTL_MS
    HeaderBound          \* bound: the largest max-age and Expires a server sends

ASSUME MetadataAssumption ==
    /\ CimdTimeout \in Nat \ {0} /\ MaxResponseBytes \in Nat
    /\ MaxRedirects \in Nat /\ MaxPositiveTtl \in Nat \ {0} /\ HeaderBound \in Nat

VARIABLES
    flightStep,   \* "lookup", "connect", "headers" or "body"
    redirects,
    status,       \* statusCode of the response being collected
    size,         \* bytes of it collected
    socket,       \* the request of this hop: "none", "open" or "ended"
    expires       \* history: the Expires of an accepted document without max-age

metadataVars == <<flightStep, redirects, status, size, socket, expires>>

Moved == {301, 302, 303, 307, 308}   \* isRedirect
Absent == -1

\* Cache-Control and Expires of a response: max-age 0 also stands for a malformed
\* one, Expires is relative to the flight's nowMs, its start.
Freshness == [forbidden : BOOLEAN, maxAge : Absent..HeaderBound,
              expires : Absent..HeaderBound]

MetadataInit ==
    /\ flightStep = "lookup"
    /\ redirects = 0 /\ status = 200 /\ size = 0
    /\ socket = "none"
    /\ expires = Absent

\* startFlight and the first hop: its DNS lookup is under way.
BeginFlight ==
    /\ Begin("cimd", CimdTimeout)
    /\ UNCHANGED metadataVars

NotAborted == Running /\ ~aborted   \* mutant: the deadline is not read

\* assertOperationActive, and the same test when an awaited result arrives.
Active == Running /\ ~aborted /\ elapsed < limit

DestroyNothing == socket   \* mutant: request.destroy() is forgotten

\* guard.fail destroys the request.
Destroyed == IF socket = "open" THEN "ended" ELSE socket

Refused == [code |-> "FAILED", until |-> 0]

FlightFails ==
    /\ Settle(Refused)
    /\ socket' = Destroyed
    /\ UNCHANGED <<flightStep, redirects, status, size, expires>>

AbortUnheard == aborted /\ flightStep = "lookup" /\ FlightFails   \* mutant: requestPinned does not listen

\* Abort listeners of waitForCimdOperation and requestPinned.
AbortRejects == aborted /\ FlightFails

\* A lookup or request fails by itself, an address is not public or not the pinned
\* one, the document is too large, refused, late, or without freshness.
FlightRefused == ~aborted /\ FlightFails

\* Every address is public; the first is pinned and the request goes out.
AddressPinned ==
    /\ Active
    /\ flightStep = "lookup"
    /\ flightStep' = "connect"
    /\ socket' = "open"
    /\ UNCHANGED <<callVars, redirects, status, size, expires>>

\* The deadline passes between that test and the one waitForCimdOperation makes once
\* the request is out: the flight ends and leaves the request to itself, the timer
\* that would abort it being cleared.
DeadlineOvertakes ==
    /\ Active /\ elapsed + 1 = limit
    /\ flightStep = "lookup"
    /\ call' = "answered" /\ answer' = Refused /\ elapsed' = limit
    /\ socket' = "open"
    /\ UNCHANGED <<tool, limit, aborted, flightStep, redirects, status, size, expires>>

\* secureConnect: the peer is the pinned address.
PeerConfirmed ==
    /\ NotAborted
    /\ flightStep = "connect"
    /\ flightStep' = "headers"
    /\ UNCHANGED <<callVars, redirects, status, size, socket, expires>>

ResponseBegins ==
    /\ NotAborted
    /\ flightStep = "headers"
    /\ status' \in {200, 404} \cup Moved
    /\ size' = 0
    /\ flightStep' = "body"
    /\ UNCHANGED <<callVars, redirects, socket, expires>>

Data ==
    /\ NotAborted
    /\ flightStep = "body" /\ size < MaxResponseBytes
    /\ size' = size + 1
    /\ UNCHANGED <<callVars, flightStep, redirects, status, socket, expires>>

\* The response ends in time and is a redirect within its origin: the next hop.
NextHop ==
    /\ Active
    /\ flightStep = "body" /\ status \in Moved
    /\ redirects < MaxRedirects
    /\ redirects' = redirects + 1
    /\ flightStep' = "lookup"
    /\ socket' = "ended"
    /\ UNCHANGED <<callVars, status, size, expires>>

\* computePositiveTtl: a max-age decides alone, otherwise Expires against nowMs;
\* 0 when the code throws.
Ttl(h) ==
    CASE h.forbidden -> 0
      [] ~h.forbidden /\ h.maxAge # Absent -> Min({h.maxAge, MaxPositiveTtl})
      [] ~h.forbidden /\ h.maxAge = Absent -> Min({Max({h.expires, 0}), MaxPositiveTtl})

\* The final response is a valid, self-bound document with a lifetime; cacheSuccess
\* counts that lifetime from the present, not from nowMs.
DocumentAccepted ==
    /\ Active
    /\ flightStep = "body" /\ status = 200
    /\ \E h \in Freshness :
         /\ Ttl(h) > 0
         /\ Settle([code |-> "DOCUMENT", until |-> elapsed + Ttl(h)])
         /\ expires' = IF h.maxAge = Absent THEN h.expires ELSE Absent
    /\ socket' = "ended"
    /\ UNCHANGED <<flightStep, redirects, status, size>>

\* closeResolver aborts the controllers of all flights.
CloseAborts ==
    /\ NotAborted
    /\ aborted' = TRUE
    /\ UNCHANGED <<tool, call, limit, elapsed, answer, metadataVars>>

FlightPasses == Pass(FALSE) /\ UNCHANGED metadataVars
FlightTimer == FireTimer /\ UNCHANGED metadataVars

MetadataNext ==
    \/ BeginFlight
    \/ AddressPinned \/ DeadlineOvertakes \/ PeerConfirmed \/ ResponseBegins \/ Data
    \/ NextHop \/ DocumentAccepted
    \/ AbortRejects \/ FlightRefused \/ CloseAborts
    \/ FlightPasses \/ FlightTimer

\* Clock and timer run and an aborted wait rejects; servers and DNS owe nothing.
MetadataFairness ==
    /\ WF_<<callVars, metadataVars>>(tool = "cimd" /\ (FlightPasses \/ FlightTimer))
    /\ WF_<<callVars, metadataVars>>(tool = "cimd" /\ AbortRejects)

-----------------------------------------------------------------------------
(* Properties *)

\* A document is cached for at most the maximum, and one that declares its end with
\* Expires outlives it by less than one flight's timeout, although its lifetime is
\* computed from the flight's start and counted from its end, and although the
\* timer may be late (computePositiveTtl, cacheSuccess, the deadline checks).
FreshnessBounded ==
    call = "answered" /\ tool = "cimd" /\ answer.code = "DOCUMENT" =>
        /\ answer.until <= elapsed + MaxPositiveTtl
        /\ expires # Absent => answer.until < expires + CimdTimeout

\* However a flight ends, in whatever order abort, errors, data and the end of the
\* response arrive, its request has ended, unless the deadline passed before the
\* timer ran and before that request was connected (createSettlementGuard,
\* fetchPinned).
OnlyOvertakenStaysOpen ==
    call = "answered" /\ tool = "cimd" /\ socket = "open" =>
        elapsed = limit /\ ~aborted /\ flightStep = "lookup"
=============================================================================
