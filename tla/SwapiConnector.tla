--------------------------- MODULE SwapiConnector ---------------------------
(***************************************************************************)
(* The SWAPI connector: on a "fetch" event it reads the cache, and only    *)
(* when the resource is not cached does it call SWAPI and publish the      *)
(* result.  When the resource is cached it publishes nothing.              *)
(***************************************************************************)
EXTENDS CacheManager

CONSTANTS
    SwapiResults,    \* truthiness of the bodies SWAPI may answer with
    SwapiMayFail     \* whether SWAPI may answer with an error status

ASSUME SwapiAssumption ==
    /\ SwapiResults \subseteq Result
    /\ SwapiMayFail \in BOOLEAN

VARIABLES
    fetching,    \* subqueries whose fetchDataAsync awaits SWAPI
    swapiLog     \* history: the calls SWAPI answered

connectorVars == <<fetching, swapiLog>>

ConnectorTypeOK ==
    /\ fetching \subseteq SubqueryId
    /\ swapiLog \subseteq [id : SubqueryId, result : Result]

ConnectorInit ==
    /\ fetching = {}
    /\ swapiLog = {}

SwapiConnectorCrash ==
    /\ Crash("swapi-connector")
    /\ fetching' = {}
    /\ UNCHANGED swapiLog

\* fetchDataAsync when the cache read finds the resource: it ends silently.
FetchDataCached(m) ==
    /\ Arrives(m, "swapi-connector", "fetch")
    /\ CacheAnswers
    /\ CacheRead(PathOf(m.id)) = "data"
    /\ net' = net \ {m}
    /\ UNCHANGED <<up, connectorVars>>

\* ... and when it does not: the HTTP GET is sent.
FetchDataMissing(m) ==
    /\ Arrives(m, "swapi-connector", "fetch")
    /\ CacheAnswers
    /\ CacheRead(PathOf(m.id)) = "null"
    /\ net' = net \ {m}
    /\ fetching' = fetching \cup {m.id}
    /\ UNCHANGED <<up, swapiLog>>

\* CACHE_READ fails: the RpcException is not caught.
FetchDataCacheDown(m) ==
    /\ Arrives(m, "swapi-connector", "fetch")
    /\ CacheReadFails
    /\ SwapiConnectorCrash

\* SWAPI answers 2xx: the result is published to whoever subscribes.
SwapiAnswers(s, result) ==
    /\ s \in fetching
    /\ fetching' = fetching \ {s}
    /\ swapiLog' = swapiLog \cup {[id |-> s, result |-> result]}
    /\ net' = net \cup Emitted("receive", {s}, result)
    /\ UNCHANGED up

\* axios rejects on any other status (404, 429, ...) and nobody catches it.
SwapiFails(s) ==
    /\ SwapiMayFail
    /\ s \in fetching
    /\ SwapiConnectorCrash

ConnectorNext ==
    \/ \E m \in net : \/ FetchDataCached(m)
                      \/ FetchDataMissing(m)
                      \/ FetchDataCacheDown(m)
    \/ \E s \in fetching : \/ \E r \in SwapiResults : SwapiAnswers(s, r)
                           \/ SwapiFails(s)

-----------------------------------------------------------------------------

\* The paths whose resource SWAPI has really served.
Downloaded == {PathOf(l.id) : l \in {a \in swapiLog : a.result = "data"}}

=============================================================================
