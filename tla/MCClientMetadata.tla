--------------------------- MODULE MCClientMetadata ---------------------------
(***************************************************************************)
(* The resolver of client metadata and the limiter of its sources, for     *)
(* TLC.  The two share no state, so their state spaces are added, not      *)
(* multiplied: while one runs, the other stands still.                     *)
(***************************************************************************)
EXTENDS ClientResolver, SourceRateLimiter

MetadataInit == ResolverInit /\ LimiterInit

MetadataNext ==
    \/ LimiterInit /\ ResolverNext /\ UNCHANGED limiterVars
    \/ ResolverInit /\ LimiterNext /\ UNCHANGED resolverVars

MetadataSpec ==
    /\ MetadataInit /\ [][MetadataNext]_<<resolverVars, limiterVars>>
    /\ ResolverFairness
=============================================================================
