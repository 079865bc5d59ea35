-------------------------- MODULE TrafficController --------------------------
(***************************************************************************)
(* The traffic controller: a Redis sorted set with one entry per fetch it  *)
(* heard of, scored by time, which RATE_LIMIT_USAGE_READ compares with the *)
(* limit.  Time is a count of ticks, Window of them to the day; an entry   *)
(* is represented by its age, Window standing for "a day or more".         *)
(***************************************************************************)
EXTENDS Nats, FiniteSets

CONSTANTS
    RequestLimit,    \* REQUEST_LIMIT
    Window,          \* ticks in oneDayInSeconds
    RedisMayFail     \* whether the Redis connection may be lost

ASSUME TrafficAssumption ==
    /\ RequestLimit \in Nat
    /\ Window \in Nat \ {0}
    /\ RedisMayFail \in BOOLEAN

VARIABLES
    usage,    \* system:usage_log, the age of each entry by its id
    ttl       \* ticks until the key expires, 0 when there is no key

trafficVars == <<usage, ttl>>

NoEntries == [i \in {} |-> 0]

\* Ages of a finite number of entries.
AgesTypeOK(entries, oldest) ==
    /\ DOMAIN entries \subseteq Nat
    /\ IsFiniteSet(DOMAIN entries)
    /\ entries \in [DOMAIN entries -> 0 .. oldest]

TrafficTypeOK ==
    /\ AgesTypeOK(usage, Window)
    /\ ttl \in 0 .. Window

TrafficInit ==
    /\ usage = NoEntries
    /\ ttl = 0

\* getUsageCount: zcard counts every entry, those that left the window included.
UsageCount == Cardinality(DOMAIN usage)

\* Mutant of IsRateLimited: one fetch too many.
IsOverLimit == UsageCount > RequestLimit

\* getIsRateLimitedAsync
IsRateLimited == UsageCount >= RequestLimit

\* An id that none of the entries has.
NewId(entries) == CHOOSE i \in 1 .. Cardinality(DOMAIN entries) + 1 : i \notin DOMAIN entries

\* The entries with one of now.
WithNew(entries) ==
    [i \in DOMAIN entries \cup {NewId(entries)} |-> IF i \in DOMAIN entries THEN entries[i] ELSE 0]

InWindow(entries) == [i \in {j \in DOMAIN entries : entries[j] < Window} |-> entries[i]]

\* Mutant of LogUsage: expire is set when the key is created only.
LogUsageExpiringOnce(m) ==
    /\ Arrives(m, "traffic-controller", "fetch")
    /\ net' = net \ {m}
    /\ usage' = WithNew(InWindow(usage))
    /\ ttl' = IF ttl = 0 THEN Window ELSE ttl
    /\ UNCHANGED up

\* logUsage: zremrangebyscore, zadd and expire in one MULTI.
LogUsage(m) ==
    /\ Arrives(m, "traffic-controller", "fetch")
    /\ net' = net \ {m}
    /\ usage' = WithNew(InWindow(usage))
    /\ ttl' = Window
    /\ UNCHANGED up

\* The error listener of the Redis client throws, which ends the process; the
\* sorted set is Redis's and stays.
RedisConnectionLost ==
    /\ RedisMayFail
    /\ "traffic-controller" \in up
    /\ Crash("traffic-controller")
    /\ UNCHANGED trafficVars

Older(entries) == [i \in DOMAIN entries |-> IF entries[i] < Window THEN entries[i] + 1 ELSE Window]

\* Mutant of UsageAges: the key never expires.
UsageAgesForever ==
    /\ ttl' = ttl
    /\ usage' = Older(usage)

\* A tick passes for Redis: the entries age, and the key may expire.
UsageAges ==
    /\ ttl' = IF ttl > 0 THEN ttl - 1 ELSE 0
    /\ usage' = IF ttl' = 0 THEN NoEntries ELSE Older(usage)

=============================================================================
