---------------------------- MODULE LimitPromises -----------------------------
(***************************************************************************)
(* What the repository's documentation says of the rate limiting, for the  *)
(* statements the code does not keep.                                      *)
(***************************************************************************)
EXTENDS RateLimiting

\* "It employs a sliding-window rate-limiting mechanism" (README.md): what is
\* counted against the limit is what was fetched within the window.
SlidingWindow == IsRateLimited => Cardinality(DOMAIN InWindow(usage)) >= RequestLimit

\* "Once rate-limiting of the target service is reached", requests "do not begin
\* to fail with e.g. an 429 status" (README.md): no more fetches than the limit
\* are published within the window.
LimitRespected == Cardinality(DOMAIN calls) <= RequestLimit

\* "... such that when a requests is eventually fulfilled, the consumer system is
\* notified" (README.md): a fetch that waits is published in the end, under the load
\* "higher than the 10K / day limit" that README.md assumes.
EventuallyPublished == \A s \in SubqueryId : s \in Held ~> s \in published

=============================================================================
