------------------------------- MODULE Outbound -------------------------------
(***************************************************************************)
(* One call of any outbound tool, or overlapping lookups of domains.  The  *)
(* tools share no state but the call itself, so their state spaces are     *)
(* added, not multiplied: while one of them runs, the others' variables    *)
(* stand still.                                                            *)
(***************************************************************************)
EXTENDS HttpFetch, WebCrawl, WebResearch, MetadataFetch, DomainLookup

toolVars == <<callVars, fetchVars, crawlVars, researchVars, metadataVars>>
outboundVars == <<toolVars, lookupVars>>

ToolInit == CallInit /\ FetchInit /\ CrawlInit /\ ResearchInit /\ MetadataInit
OutboundInit == ToolInit /\ LookupInit

\* A module's steps are those of its own tools.
ToolNext ==
    \/ FetchNext /\ tool' \in FetchTools
       /\ UNCHANGED <<crawlVars, researchVars, metadataVars>>
    \/ CrawlNext /\ tool' \in CrawlTools
       /\ UNCHANGED <<fetchVars, researchVars, metadataVars>>
    \/ ResearchNext /\ tool' = "web_research"
       /\ UNCHANGED <<fetchVars, crawlVars, metadataVars>>
    \/ MetadataNext /\ tool' = "cimd"
       /\ UNCHANGED <<fetchVars, crawlVars, researchVars>>

OutboundNext ==
    \/ LookupInit /\ ToolNext /\ UNCHANGED lookupVars
    \/ call = "idle" /\ LookupNext /\ UNCHANGED toolVars

OutboundSpec ==
    /\ OutboundInit /\ [][OutboundNext]_outboundVars
    /\ FetchFairness /\ CrawlFairness /\ ResearchFairness /\ MetadataFairness
    /\ LookupFairness

\* Every call is answered, by a result, an upstream's failure or the timeout,
\* whatever servers do and however long they stay silent: each thing a call may
\* await rejects once its signal is aborted (withTimeout and the callees that
\* take its signal), and a domain lookup goes on to a verdict.
CallAnswered == (call = "running" ~> call = "answered") /\ LookupsAnswered

\* Two things stay open behind an answer and no others: the response of a redirect
\* that was refused, and a metadata request that the deadline overtook while it was
\* sent.  Every other body and request is released, on every path of errors, aborts
\* and truncation (performWithRedirects, drainReader, createSettlementGuard).
OnlyTwoStayOpen == OnlyRefusedStaysOpen /\ OnlyOvertakenStaysOpen

\* A research result pairs each hit with its own page and comes within the budget
\* (partitionSafeHits, budgetMs).
ResearchSound == ContentMatchesHit /\ WithinBudget
=============================================================================
