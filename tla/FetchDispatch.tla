---------------------------- MODULE FetchDispatch ----------------------------
(***************************************************************************)
(* What the rest of the system expects of the request scheduler: a fetch   *)
(* that is scheduled is published later, once.  The death of a process     *)
(* costs it no more than the fetches whose check that death left           *)
(* unanswered, unless it is the scheduler's own: then fetches may be       *)
(* forgotten, and be published again.                                      *)
(***************************************************************************)

CONSTANT Fetch

VARIABLES
    pending,      \* scheduled, still to be published
    published,    \* published
    stranded,     \* with a check that was not answered
    lossy,        \* whether a process has died
    repeating     \* whether the scheduler has

dispatchVars == <<pending, published, stranded, lossy, repeating>>

DispatchInit ==
    /\ pending = {}
    /\ published = {}
    /\ stranded = {}
    /\ lossy = FALSE
    /\ repeating = FALSE

ScheduleSome(fetches) ==
    /\ fetches \cap (pending \cup published) = {}
    /\ pending' = pending \cup fetches
    /\ UNCHANGED <<published, stranded, lossy, repeating>>

PublishOne(f) ==
    /\ f \in pending
    /\ \/ pending' = pending \ {f}
       \/ repeating /\ pending' = pending
    /\ published' = published \cup {f}
    /\ UNCHANGED <<stranded, lossy, repeating>>

\* Only what is pending can be stranded, and only what is stranded be forgotten.
Forget ==
    /\ lossy'
    /\ pending' \subseteq pending
    /\ stranded \subseteq stranded'
    /\ ~repeating' =>
        /\ stranded' \subseteq stranded \cup pending
        /\ pending \subseteq pending' \cup stranded'
    /\ UNCHANGED published

Repeat ==
    /\ lossy' /\ repeating'
    /\ pending' \subseteq pending \cup published
    /\ stranded \subseteq stranded'
    /\ UNCHANGED published

\* Fetches that are not pending any more make room for others.
Retire(fetches) ==
    /\ fetches \cap pending = {}
    /\ published' = published \ fetches
    /\ stranded' = stranded \ fetches
    /\ UNCHANGED <<pending, lossy, repeating>>

DispatchNext ==
    \/ \E fetches \in SUBSET Fetch : ScheduleSome(fetches) \/ Retire(fetches)
    \/ \E f \in Fetch : PublishOne(f)
    \/ Forget
    \/ Repeat

DispatchSpec == DispatchInit /\ [][DispatchNext]_dispatchVars

=============================================================================
