----------------------------- MODULE DomainLookup -----------------------------
(***************************************************************************)
(* domain_availability (tools/domain.ts) over its resolver chain: a static *)
(* RDAP map, the IANA bootstrap registry and its cached snapshot           *)
(* (services/rdap.ts), a static WHOIS map, WHOIS discovery and its cache   *)
(* per TLD (services/whois.ts).  Lookups overlap and share both caches.    *)
(*                                                                         *)
(* A TLD stands for what the program's own maps say of it.  Of any other,  *)
(* each document of the bootstrap registry may list it or not, and each    *)
(* reply of IANA may name a server for it or not.                          *)
(* The clock of the caches is far slower than a lookup; its ages are held  *)
(* at the lifetime they are compared with.                                 *)
(***************************************************************************)
EXTENDS Integers, FiniteSets

CONSTANTS
    Lookup,          \* calls that may overlap
    BootstrapTtl,    \* BOOTSTRAP_TTL_MS
    PositiveTtl,     \* WHOIS_DISCOVERY_TTL_MS
    NegativeTtl      \* WHOIS_DISCOVERY_NEGATIVE_TTL_MS

ASSUME LookupAssumption ==
    /\ BootstrapTtl \in Nat \ {0} /\ NegativeTtl \in Nat \ {0}
    /\ PositiveTtl \in Nat /\ NegativeTtl <= PositiveTtl

VARIABLES
    snapshotAge,   \* age of bootstrapCache, or None
    listed,        \* bootstrapCache lists the other TLD
    discovery,     \* discoveryCache: age and host known, or no entry
    lookups,       \* each call's step, TLD and whether the snapshot it holds lists it
    signals,       \* calls whose signal is aborted
    verdicts,      \* what each call returned
    failures,      \* history: calls one of whose resolving queries failed
    silence        \* history: age of IANA's last reply on a TLD that named no server

caches == <<snapshotAge, listed, discovery, silence>>
lookupVars == <<snapshotAge, listed, discovery, lookups, signals, verdicts, failures, silence>>

\* A TLD with an RDAP override, with a static WHOIS server, or with neither.
Tld == {"override", "static", "other"}

None == -1
NoEntry == [age |-> None, host |-> FALSE]
Idle == [step |-> "idle", tld |-> "override", captured |-> FALSE]
NoVerdict == [status |-> "none", source |-> "none"]

LookupInit ==
    /\ snapshotAge = None /\ listed = FALSE
    /\ discovery = [t \in Tld |-> NoEntry]
    /\ lookups = [q \in Lookup |-> Idle]
    /\ signals = {}
    /\ failures = {}
    /\ verdicts = [q \in Lookup |-> NoVerdict]
    /\ silence = [t \in Tld |-> None]

Verdict(status, source) == [status |-> status, source |-> source]
Unsupported == Verdict("unsupported_tld", "none")

At(q, step) == lookups[q].step = step

\* Call q, known by the record l, awaits the next reply.
Await(q, l, step) ==
    /\ lookups' = [lookups EXCEPT ![q] = [l EXCEPT !.step = step]]
    /\ UNCHANGED <<verdicts, signals>>

\* finalise; withTimeout then clears the timer.
Return(q, l, verdict) ==
    /\ lookups' = [lookups EXCEPT ![q] = [l EXCEPT !.step = "answered", !.captured = FALSE]]
    /\ signals' = signals \ {q}
    /\ verdicts' = [verdicts EXCEPT ![q] = verdict]

-----------------------------------------------------------------------------
(* The resolver chain; each runs to its next await in one step *)

Fresh(entry) ==
    /\ entry.age # None
    /\ entry.age < (IF entry.host THEN PositiveTtl ELSE NegativeTtl)

\* resolveWhoisServer: the static map, the cache, or discovery, which an aborted
\* signal refuses at once.
ResolveWhois(q, l) ==
    LET entry == discovery[l.tld] IN
    IF l.tld = "static" \/ (Fresh(entry) /\ entry.host)
    THEN Await(q, l, "whois")
    ELSE IF Fresh(entry) \/ q \in signals
         THEN Return(q, l, Unsupported)
         ELSE Await(q, l, "discover")

\* resolveRdapBaseUrl has its snapshot, if any.
WithSnapshot(q, l, snapshot) ==
    IF snapshot /\ l.tld = "other" THEN Await(q, l, "rdap") ELSE ResolveWhois(q, l)

\* assertStructurallyValid: 2 to MAX_DOMAIN_LABELS labels, each well formed
Structured(domain) == domain.labels \in 2..10 /\ domain.valid

Domain == [labels : {0, 1, 2, 10, 11}, valid : BOOLEAN]

\* normaliseDomain throws before the timer of the call is set.
RefuseDomain(q, domain) ==
    /\ At(q, "idle") /\ ~Structured(domain)
    /\ Return(q, lookups[q], Verdict("VALIDATION_ERROR", "none"))
    /\ UNCHANGED <<caches, failures>>

\* Override, fresh snapshot, or a refresh of the one captured here (beforeRefresh)
BeginLookup(q, domain, tld) ==
    /\ At(q, "idle") /\ Structured(domain)
    /\ LET l == [step |-> "idle", tld |-> tld, captured |-> tld # "override" /\ listed] IN
       CASE tld = "override" -> Await(q, l, "rdap")
         [] tld # "override" /\ snapshotAge \in 0..BootstrapTtl - 1 -> WithSnapshot(q, l, listed)
         [] OTHER -> Await(q, l, "bootstrap")
    /\ UNCHANGED <<caches, failures>>

\* fetchBootstrap delivers a document: last write wins, and this call holds its own.
SnapshotRefreshed(q) ==
    /\ At(q, "bootstrap") /\ q \notin signals
    /\ snapshotAge' = 0
    /\ listed' \in BOOLEAN
    /\ WithSnapshot(q, [lookups[q] EXCEPT !.captured = listed'], listed')
    /\ UNCHANGED <<discovery, silence, failures>>

\* beforeRefresh
Captured(q) == lookups[q].captured

\* It fails or is aborted: the snapshot captured at the start serves on.
RefreshFails(q) ==
    /\ At(q, "bootstrap")
    /\ failures' = failures \cup {q}
    /\ WithSnapshot(q, lookups[q], Captured(q))
    /\ UNCHANGED caches

\* parseIanaWhoisField: the reply names the TLD's server, or none; a refusal of IANA
\* to answer is a reply that names none.
DiscoveryAnswers(q) ==
    LET l == lookups[q] IN
    /\ At(q, "discover") /\ q \notin signals
    /\ \/ /\ discovery' = [discovery EXCEPT ![l.tld] = [age |-> 0, host |-> TRUE]]
          /\ UNCHANGED silence
          /\ Await(q, l, "whois")
       \/ /\ discovery' = [discovery EXCEPT ![l.tld] = [age |-> 0, host |-> FALSE]]
          /\ silence' = [silence EXCEPT ![l.tld] = 0]
          /\ Return(q, l, Unsupported)
    /\ UNCHANGED <<snapshotAge, listed, failures>>

FailureCached(tld) ==   \* mutant: a failure is remembered as "no server"
    [discovery EXCEPT ![tld] = [age |-> 0, host |-> FALSE]]

\* The catch of discoverWhoisServer remembers nothing.
AfterFailure(tld) == discovery

DiscoveryFails(q) ==
    /\ At(q, "discover")
    /\ failures' = failures \cup {q}
    /\ discovery' = AfterFailure(lookups[q].tld)
    /\ Return(q, lookups[q], Unsupported)
    /\ UNCHANGED <<snapshotAge, listed, silence>>

-----------------------------------------------------------------------------
(* The lookups *)

\* lookupRdap by HTTP status
RdapVerdict(status) ==
    Verdict(CASE status = 200 -> "registered" [] status = 404 -> "available"
              [] OTHER -> "indeterminate", "rdap")

\* classifyWhoisResponse by the patterns a reply contains; a refusal may quote a hint.
WhoisVerdict(patterns) ==
    Verdict(CASE "available" \in patterns -> "available"
              [] patterns = {"registered"} -> "registered"
              [] OTHER -> "indeterminate", "whois")

LookupAnswers(q) ==
    /\ q \notin signals
    /\ \/ /\ At(q, "rdap")
          /\ \E status \in {200, 404, 429} : Return(q, lookups[q], RdapVerdict(status))
       \/ /\ At(q, "whois")
          /\ \E patterns \in SUBSET {"available", "denied", "registered"} :
               Return(q, lookups[q], WhoisVerdict(patterns))
    /\ UNCHANGED <<caches, failures>>

\* Errors and aborts end in a structured verdict too.
LookupErrs(q) ==
    /\ \E source \in {"rdap", "whois"} :
         At(q, source) /\ Return(q, lookups[q], Verdict("indeterminate", source))
    /\ UNCHANGED <<caches, failures>>

\* The timer of withTimeout
LookupTimer(q) ==
    /\ lookups[q].step \notin {"idle", "answered"} /\ q \notin signals
    /\ signals' = signals \cup {q}
    /\ UNCHANGED <<caches, lookups, failures, verdicts>>

\* The place of an answered call is used again.
NextLookup(q) ==
    /\ At(q, "answered")
    /\ lookups' = [lookups EXCEPT ![q] = Idle]
    /\ failures' = failures \ {q}
    /\ verdicts' = [verdicts EXCEPT ![q] = NoVerdict]
    /\ UNCHANGED <<caches, signals>>

Older(age, ttl) == IF age = None \/ age >= ttl THEN age ELSE age + 1

CachesAge ==
    /\ snapshotAge' = Older(snapshotAge, BootstrapTtl)
    /\ discovery' = [t \in Tld |->
                       [discovery[t] EXCEPT !.age = Older(@, PositiveTtl)]]
    /\ silence' = [t \in Tld |-> Older(silence[t], NegativeTtl)]
    /\ UNCHANGED <<listed, lookups, signals, failures, verdicts>>

LookupNext ==
    \/ \E q \in Lookup :
         \/ \E domain \in Domain : \/ RefuseDomain(q, domain)
                                  \/ \E tld \in Tld : BeginLookup(q, domain, tld)
         \/ SnapshotRefreshed(q) \/ RefreshFails(q)
         \/ DiscoveryAnswers(q) \/ DiscoveryFails(q)
         \/ LookupAnswers(q) \/ LookupErrs(q)
         \/ LookupTimer(q) \/ NextLookup(q)
    \/ CachesAge

LookupSpec == LookupInit /\ [][LookupNext]_lookupVars

\* The timer runs and an aborted query rejects; registries owe nothing.
LookupFairness ==
    \A q \in Lookup :
        /\ WF_lookupVars(LookupTimer(q))
        /\ WF_lookupVars(q \in signals /\ (RefreshFails(q) \/ DiscoveryFails(q) \/ LookupErrs(q)))

-----------------------------------------------------------------------------
(* Properties *)

\* A TLD that some registry serves is called unsupported only if one of the call's
\* own queries failed, or IANA named no server for it within the negative lifetime:
\* neither another call's failure nor an old or racing entry of a cache makes it so
\* (discoverWhoisServer, isDiscoveryEntryExpired).
SupportedTldsServed ==
    [][\A q \in Lookup :
         ~At(q, "answered") /\ verdicts'[q].status = "unsupported_tld"
         => \/ q \in failures'
            \/ silence'[lookups'[q].tld] \in 0..NegativeTtl - 1
      ]_lookupVars

\* A call that began with a snapshot of the bootstrap registry, however old, asks
\* RDAP for a TLD that is in it, whatever becomes of the refresh, unless the call's
\* own refresh brings a document that does not list the TLD any more
\* (getBootstrapSnapshot: "freshness is preferred but never required").
SnapshotOutlivesOutage ==
    [][\A q \in Lookup :
         lookups[q].tld = "other" /\ lookups[q].captured =>
            \/ /\ lookups'[q].step \notin {"discover", "whois"}
               /\ verdicts'[q].status # "unsupported_tld"
            \/ q \notin failures' /\ ~listed'
      ]_lookupVars

\* A TLD is called unsupported only for a failed query of the call's own or a recent
\* reply of IANA, and an outage of the bootstrap registry takes nothing away from a
\* call that began with a snapshot (discoverWhoisServer, getBootstrapSnapshot).
RegistriesServed == SupportedTldsServed /\ SnapshotOutlivesOutage

\* Every lookup that has set its timer is answered, by a verdict even when its time
\* is up: no abort is lost between the stages of the chain (withTimeout, queryWhois'
\* test of the signal).
LookupsAnswered ==
    \A q \in Lookup : lookups[q].step \notin {"idle", "answered"} ~> At(q, "answered")
=============================================================================
