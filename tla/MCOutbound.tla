------------------------------ MODULE MCOutbound ------------------------------
(***************************************************************************)
(* Outbound for TLC.                                                       *)
(***************************************************************************)
EXTENDS Outbound

CONSTANTS m1, m2   \* pages

\* PER_ROUTE_TIMEOUTS_MS of the one-request tools, in units of five seconds
MCSingleTimeouts ==
    [web_search |-> 2, web_scrape |-> 6, web_map |-> 12, web_extract |-> 18,
     web_crawl_start |-> 2, web_crawl_status |-> 3]
=============================================================================
