-------------------------------- MODULE Nats --------------------------------
(***************************************************************************)
(* The NATS broker between the microservices, as core NATS delivers: an    *)
(* event is copied to every service subscribed to its subject that is      *)
(* running when it is published, and is lost for the others.  The          *)
(* deliveries in flight form a set: handlers are started without being     *)
(* awaited and suspend on pooled database connections at once, so the      *)
(* order of arrival does not order their effects.                          *)
(*                                                                         *)
(* A request/reply message (CACHE_READ, ...) is not a delivery: it is one  *)
(* atomic read, taken when the responder queries its database.             *)
(***************************************************************************)
EXTENDS Entities

CONSTANTS
    Services,       \* the services of the composition at hand
    Restartable     \* those that somebody starts again after their process ended

ASSUME RestartAssumption == Restartable \subseteq Services

VARIABLES
    net,    \* deliveries in flight
    up,     \* services whose process is running
    died    \* history: services whose process has ever ended

Subject == {"schedule-fetch", "fetch", "receive"}

\* The @EventPattern subscriptions.
Subscriptions ==
    {<<"request-scheduler", "schedule-fetch">>,
     <<"swapi-connector", "fetch">>, <<"traffic-controller", "fetch">>,
     <<"query-manager", "receive">>, <<"cache-manager", "receive">>}

Subscribers(subject) == {svc \in Services : <<svc, subject>> \in Subscriptions}

Delivery ==
    {m \in [to : Services, subject : Subject, id : SubqueryId, result : Result] :
        m.to \in Subscribers(m.subject)}

\* client.emit(subject, dto) for each subquery id in ids.
Emitted(subject, ids, result) ==
    {[to |-> svc, subject |-> subject, id |-> s, result |-> result] :
        svc \in Subscribers(subject) \cap up, s \in ids}

\* m is a delivery of subject that svc can take.
Arrives(m, svc, subject) ==
    /\ svc \in up
    /\ m \in net
    /\ m.to = svc
    /\ m.subject = subject

\* An unhandled promise rejection ends the Node process of svc: what was being
\* delivered to it is gone, and the repository has nothing that restarts it.
Crash(svc) ==
    /\ up' = up \ {svc}
    /\ net' = {m \in net : m.to # svc}

\* bootstrap: somebody starts the process again, and it subscribes; what was
\* published in the meantime stays lost.
Start(svc) ==
    /\ svc \in Restartable \ up
    /\ up' = up \cup {svc}

NatsTypeOK ==
    /\ net \subseteq Delivery
    /\ up \subseteq Services
    /\ died \subseteq Services

NatsInit ==
    /\ net = {}
    /\ up = Services
    /\ died = {}

\* Conjoined to every step: who was running and no longer is has died.
RecordDeaths == died' = died \cup (up \ up')

AllUp == up = Services

=============================================================================
