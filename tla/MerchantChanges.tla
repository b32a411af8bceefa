--------------------------- MODULE MerchantChanges ---------------------------
(***************************************************************************)
(* Staged changes of the merchant backend: how a change is staged, put in  *)
(* front of the operator, approved or dismissed by a click, written to the *)
(* commerce platform product by product, and recorded in the ledger.       *)
(*                                                                         *)
(* Requests are clicks (the portal's buttons and its overview page) and    *)
(* chat turns (the model calling the same tools).  Each loads the session, *)
(* runs one tool through the executor, and saves the session.  Every await *)
(* of apply_change is a step of its own; in the process's own ledger the   *)
(* check and the mark are one step, in the Custom Object ledger, shared by *)
(* serverless instances, they are two.                                     *)
(*                                                                         *)
(* Data is abstract: every change touches the products 1 .. Products, and  *)
(* writes counts how often a change took effect on a product.  The alerts  *)
(* are the inventory alerts one process has cached; with the Custom Object *)
(* ledger an apply may run in another process, whose cache it drops.       *)
(***************************************************************************)
EXTENDS Naturals, FiniteSets

CONSTANTS
    Changes,       \* the changes ever staged (bound)
    Clicks,        \* the portal's requests (bound)
    Turns,         \* the chat turns (bound)
    Products,      \* how many products a change touches
    Delistable,    \* the products somebody may delete meanwhile, a subset of Items
    Void,          \* the products a change asks nothing of: a restock by none
    Ledgers        \* the ledgers a deployment may run, a subset of AllLedgers

AllLedgers == {"process", "custom object"}

ASSUME RequestsAssumption == Clicks \cap Turns = {}
ASSUME ClicksAssumption == IsFiniteSet(Clicks)
ASSUME ProductsAssumption == Products \in Nat \ {0}
ASSUME DelistableAssumption == Delistable \subseteq 1 .. Products
ASSUME VoidAssumption == Void \subseteq 1 .. Products
ASSUME LedgersAssumption == Ledgers \subseteq AllLedgers

VARIABLES
    store,         \* the ledger this deployment runs
    ledger,        \* the status of each change
    listed,        \* the products the platform still has
    version,       \* the platform's version of each product
    writes,        \* how often each change took effect on each product
    session,       \* the stored session: changes seen, approval marks
    pc,            \* where each request is
    job,           \* the tool a request runs and the change it names
    rec,           \* each request's copy of the session
    at,            \* the next product to write, and the version read for it
    alerts,        \* the cached inventory alerts
    loading,       \* the load of them in flight
    disturbed,     \* history: changes whose apply failed or died half-way
    overlapped,    \* history: changes two requests acted on at once
    raced          \* history: was the cache invalidated during a load?

platformVars == <<listed, version, writes>>
requestVars == <<pc, job, rec, at>>
cacheVars == <<alerts, loading, raced>>
vars == <<store, ledger, platformVars, session, requestVars, cacheVars, disturbed, overlapped>>

Requests == Clicks \cup Turns
Items == 1 .. Products
Status == {"absent", "staged", "applied", "discarded"}
Session == [seen : SUBSET Changes, approved : SUBSET Changes]
Job == [action : {"none", "stage", "apply", "discard", "overview"}, change : Changes]

InFlight == {"gate", "checking", "reading", "posting", "requiring", "marking", "finishing"}
Finished == {"done", "failed", "conflict", "crashed"}

\* The tools a request may run: the portal's routes, or the model's tools.
Actions(r) == IF r \in Clicks THEN {"apply", "discard", "overview"} ELSE {"stage", "apply", "discard"}

Acting(r, c) == pc[r] \in InFlight /\ job[r].change = c /\ job[r].action \in {"apply", "discard"}

Pending == {c \in Changes : ledger[c] = "staged"}

-----------------------------------------------------------------------------
\* A session has just been started; the queue may hold changes staged in earlier ones.
Init ==
    /\ store \in Ledgers
    /\ ledger \in [Changes -> {"absent", "staged"}]
    /\ listed = Items
    /\ version = [i \in Items |-> 0]
    /\ writes = [c \in Changes |-> [i \in Items |-> 0]]
    /\ session = [seen |-> {}, approved |-> {}]
    /\ pc = [r \in Requests |-> "idle"]
    /\ job \in [Requests -> [action : {"none"}, change : Changes]]
    /\ rec = [r \in Requests |-> [seen |-> {}, approved |-> {}]]
    /\ at = [r \in Requests |-> [item |-> 1, version |-> 0]]
    /\ alerts = "none"
    /\ loading = "idle"
    /\ disturbed = {}
    /\ overlapped = {}
    /\ raced = FALSE

\* A request loads the session and builds its executor; the Approve button marks the
\* change approved on the record, for this call.
Begin(r) ==
    /\ pc[r] = "idle"
    /\ \E a \in Actions(r), c \in Changes :
          /\ job' = [job EXCEPT ![r] = [action |-> a, change |-> c]]
          /\ rec' = [rec EXCEPT ![r] =
                       [seen |-> session.seen,
                        approved |-> IF r \in Clicks /\ a = "apply"
                                     THEN session.approved \cup {c} ELSE session.approved]]
          /\ overlapped' = IF a \in {"apply", "discard"} /\ \E q \in Requests : Acting(q, c)
                           THEN overlapped \cup {c} ELSE overlapped
    /\ pc' = [pc EXCEPT ![r] = "gate"]
    /\ UNCHANGED <<store, ledger, platformVars, session, at, cacheVars, disturbed>>

\* The model stages a change: it is written to the ledger under a fresh id and becomes
\* seen, or it is refused (a guardrail, an unknown listing, a field that is not editable).
Stage(r) ==
    /\ pc[r] = "gate" /\ job[r].action = "stage"
    /\ \/ /\ ledger[job[r].change] = "absent"
          /\ ledger' = [ledger EXCEPT ![job[r].change] = "staged"]
          /\ rec' = [rec EXCEPT ![r].seen = @ \cup {job[r].change}]
       \/ UNCHANGED <<ledger, rec>>
    /\ pc' = [pc EXCEPT ![r] = "finishing"]
    /\ UNCHANGED <<store, platformVars, session, job, at, cacheVars, disturbed, overlapped>>

\* The overview shows the whole queue, which makes all of it seen in this session.
Overview(r) ==
    /\ pc[r] = "gate" /\ job[r].action = "overview"
    /\ rec' = [rec EXCEPT ![r].seen = @ \cup Pending]
    /\ pc' = [pc EXCEPT ![r] = "finishing"]
    /\ UNCHANGED <<store, ledger, platformVars, session, job, at, cacheVars, disturbed, overlapped>>

\* The executor's gate: the change must have been seen in this session, and to be applied
\* it must be marked approved.  A blocked tool call is an answer, not an error.
GatePasses(r) ==
    /\ job[r].change \in rec[r].seen
    /\ job[r].action = "apply" => job[r].change \in rec[r].approved

Gate(r) ==
    /\ pc[r] = "gate" /\ job[r].action \in {"apply", "discard"}
    /\ pc' = [pc EXCEPT ![r] = CASE ~GatePasses(r) -> "finishing"
                                 [] GatePasses(r) /\ job[r].action = "apply" -> "checking"
                                 [] GatePasses(r) /\ job[r].action = "discard" -> "requiring"]
    /\ UNCHANGED <<store, ledger, platformVars, session, job, rec, at, cacheVars, disturbed, overlapped>>

\* An apply that fails or dies once its writes may have begun leaves its change disturbed.
Disturb(r) == disturbed' = IF job[r].action = "apply"
                           THEN disturbed \cup {job[r].change} ELSE disturbed

\* A tool that raises: a click answers with an error and its record is not saved, a turn
\* hands the error to the model and goes on.
Fail(r, how) == pc' = [pc EXCEPT ![r] = IF r \in Clicks THEN how ELSE "finishing"]

\* Mutant: the status is left to the ledger, which looks at it after the write.
CheckNothing(r) ==
    /\ pc[r] = "checking"
    /\ pc' = [pc EXCEPT ![r] = "reading"]
    /\ UNCHANGED <<store, ledger, platformVars, session, job, rec, at, cacheVars, disturbed, overlapped>>

\* apply_change, before the write: only a change the ledger holds as staged goes on, and
\* the guardrails, which may have tightened since it was staged, may refuse it.
CheckStaged(r) ==
    /\ pc[r] = "checking"
    /\ \/ /\ ledger[job[r].change] = "staged"
          /\ pc' = [pc EXCEPT ![r] = "reading"]
       \/ Fail(r, "failed")
    /\ UNCHANGED <<store, ledger, platformVars, session, job, rec, at, cacheVars, disturbed, overlapped>>

\* The platform write of one product: its version is read ...
ReadProduct(r) ==
    /\ pc[r] = "reading"
    /\ at[r].item \in listed \ Void
    /\ at' = [at EXCEPT ![r].version = version[at[r].item]]
    /\ pc' = [pc EXCEPT ![r] = "posting"]
    /\ UNCHANGED <<store, ledger, platformVars, session, job, rec, cacheVars, disturbed, overlapped>>

\* ... unless the change adds nothing to it: then the write passes on to the next product.
SkipProduct(r) ==
    /\ pc[r] = "reading"
    /\ at[r].item \in listed \cap Void
    /\ at' = [at EXCEPT ![r].item = @ + 1]
    /\ pc' = [pc EXCEPT ![r] = IF at[r].item = Products THEN "requiring" ELSE "reading"]
    /\ UNCHANGED <<store, ledger, platformVars, session, job, rec, cacheVars, disturbed, overlapped>>

\* What the platform does with an update that carries the current version.
Effect(r) ==
    /\ at[r].item \in listed
    /\ version[at[r].item] = at[r].version
    /\ version' = [version EXCEPT ![at[r].item] = @ + 1]
    /\ writes' = [writes EXCEPT ![job[r].change][at[r].item] = @ + 1]
    /\ alerts' = IF alerts = "current" THEN "stale" ELSE alerts
    /\ loading' = IF loading = "current" THEN "stale" ELSE loading

\* Mutant: the rest of a change's products is forgotten.
PostFirstUpdate(r) ==
    /\ pc[r] = "posting"
    /\ Effect(r)
    /\ at' = [at EXCEPT ![r].item = @ + 1]
    /\ pc' = [pc EXCEPT ![r] = "requiring"]
    /\ UNCHANGED <<store, listed, ledger, session, job, rec, raced, disturbed, overlapped>>

\* ... and the update is posted with it; after the last product the ledger is asked again.
PostUpdate(r) ==
    /\ pc[r] = "posting"
    /\ Effect(r)
    /\ at' = [at EXCEPT ![r].item = @ + 1]
    /\ pc' = [pc EXCEPT ![r] = IF at[r].item = Products THEN "requiring" ELSE "reading"]
    /\ UNCHANGED <<store, listed, ledger, session, job, rec, raced, disturbed, overlapped>>

\* An update of a product that was deleted after its version was read: the platform answers
\* 404, which the client turns into an empty answer, and the write goes on.
PostVanishes(r) ==
    /\ pc[r] = "posting"
    /\ at[r].item \notin listed
    /\ at' = [at EXCEPT ![r].item = @ + 1]
    /\ pc' = [pc EXCEPT ![r] = IF at[r].item = Products THEN "requiring" ELSE "reading"]
    /\ UNCHANGED <<store, ledger, platformVars, session, job, rec, cacheVars, disturbed, overlapped>>

\* The platform refuses a version that is behind, with a 409: the click's route answers it
\* as a bad request, like every change that cannot be applied.
PostConflicts(r) ==
    /\ pc[r] = "posting"
    /\ at[r].item \in listed
    /\ version[at[r].item] # at[r].version
    /\ Fail(r, "conflict")
    /\ Disturb(r)
    /\ UNCHANGED <<store, ledger, platformVars, session, job, rec, at, cacheVars, overlapped>>

\* Mutant: a call that failed is simply made again.
PostFailsAndRetries(r) ==
    /\ pc[r] = "posting"
    /\ \/ Effect(r)
       \/ UNCHANGED <<version, writes, alerts, loading>>
    /\ pc' = [pc EXCEPT ![r] = "reading"]
    /\ UNCHANGED <<store, listed, ledger, session, job, rec, at, raced, disturbed, overlapped>>

\* A call fails: a read (or the record it asks for is gone), or an update, before the
\* platform saw it or after it took effect (a lost answer).
PostFails(r) ==
    /\ pc[r] \in {"reading", "posting"}
    /\ \/ pc[r] = "posting" /\ Effect(r)
       \/ UNCHANGED <<version, writes, alerts, loading>>
    /\ Fail(r, "failed")
    /\ Disturb(r)
    /\ UNCHANGED <<store, listed, ledger, session, job, rec, at, raced, overlapped>>

\* Mutant: the ledger records the tool's name for the status.
OutcomeNamed(r) == job[r].action

\* What the ledger records for a request's tool.
Outcome(r) == IF job[r].action = "apply" THEN "applied" ELSE "discarded"

\* Mutant: an apply leaves the cache alone.
InvalidateNothing(r) == UNCHANGED cacheVars

\* The cache is dropped once the platform write has run, whatever the ledger says next;
\* with several processes it is perhaps another process's cache.
Invalidate(r) ==
    \/ /\ job[r].action = "apply"
       /\ alerts' = "none"
       /\ raced' = (raced \/ loading # "idle")
       /\ UNCHANGED loading
    \/ /\ job[r].action = "discard" \/ store = "custom object"
       /\ UNCHANGED cacheVars

\* Mutant: the ledger's own check is skipped, it was made before the write.
MarkUnchecked(r) ==
    /\ pc[r] = "requiring"
    /\ Invalidate(r)
    /\ ledger' = [ledger EXCEPT ![job[r].change] = Outcome(r)]
    /\ pc' = [pc EXCEPT ![r] = "finishing"]
    /\ UNCHANGED <<store, platformVars, session, job, rec, at, disturbed, overlapped>>

\* The ledger's own check, then its mark: one step in the process, two over the platform.
RequireStaged(r) ==
    /\ pc[r] = "requiring"
    /\ Invalidate(r)
    /\ \/ /\ ledger[job[r].change] # "staged"
          /\ Fail(r, "failed")
          /\ Disturb(r)
          /\ UNCHANGED ledger
       \/ /\ ledger[job[r].change] = "staged" /\ store = "process"
          /\ ledger' = [ledger EXCEPT ![job[r].change] = Outcome(r)]
          /\ pc' = [pc EXCEPT ![r] = "finishing"]
          /\ UNCHANGED disturbed
       \/ /\ ledger[job[r].change] = "staged" /\ store = "custom object"
          /\ pc' = [pc EXCEPT ![r] = "marking"]
          /\ UNCHANGED <<ledger, disturbed>>
    /\ UNCHANGED <<store, platformVars, session, job, rec, at, overlapped>>

MarkChange(r) ==
    /\ pc[r] = "marking"
    /\ ledger' = [ledger EXCEPT ![job[r].change] = Outcome(r)]
    /\ pc' = [pc EXCEPT ![r] = "finishing"]
    /\ UNCHANGED <<store, platformVars, session, job, rec, at, cacheVars, disturbed, overlapped>>

\* A call to the Custom Object ledger fails: a read, or the write of the mark, before it
\* took effect or after.
LedgerFails(r) ==
    /\ store = "custom object"
    /\ pc[r] \in {"checking", "requiring", "marking"}
    /\ \/ pc[r] = "marking" /\ ledger' = [ledger EXCEPT ![job[r].change] = Outcome(r)]
       \/ UNCHANGED ledger
    /\ IF pc[r] = "requiring" THEN Invalidate(r) ELSE UNCHANGED cacheVars
    /\ Fail(r, "failed")
    /\ IF pc[r] = "checking" THEN UNCHANGED disturbed ELSE Disturb(r)
    /\ UNCHANGED <<store, platformVars, session, job, rec, at, overlapped>>

\* Mutant: the mark is left on the record.
FinishKeepingMark(r) ==
    /\ pc[r] = "finishing"
    /\ session' \in {session, rec[r]}
    /\ pc' = [pc EXCEPT ![r] = "done"]
    /\ UNCHANGED <<store, ledger, platformVars, job, rec, at, cacheVars, disturbed, overlapped>>

\* The click's mark is taken back, whatever happened, and the record is saved, or refused
\* because another request saved first.
Finish(r) ==
    /\ pc[r] = "finishing"
    /\ LET kept == IF r \in Clicks THEN [rec[r] EXCEPT !.approved = @ \ {job[r].change}] ELSE rec[r]
       IN /\ rec' = [rec EXCEPT ![r] = kept]
          /\ session' \in {session, kept}
    /\ pc' = [pc EXCEPT ![r] = "done"]
    /\ UNCHANGED <<store, ledger, platformVars, job, at, cacheVars, disturbed, overlapped>>

\* The process dies between two steps of a request.
Crash(r) ==
    /\ pc[r] \in InFlight
    /\ pc' = [pc EXCEPT ![r] = "crashed"]
    /\ IF pc[r] \in {"reading", "posting", "requiring", "marking"}
       THEN Disturb(r) ELSE UNCHANGED disturbed
    /\ UNCHANGED <<store, ledger, platformVars, session, job, rec, at, cacheVars, overlapped>>

\* The portal reads the inventory alerts: served from the cache, or loaded under its lock.
StartLoad ==
    /\ alerts = "none" /\ loading = "idle"
    /\ loading' = "current"
    /\ UNCHANGED <<store, ledger, platformVars, session, requestVars, alerts, raced, disturbed, overlapped>>

\* The load ends, and the cache holds what it read, or it fails.
FinishLoad ==
    /\ loading # "idle"
    /\ alerts' \in {loading, alerts}
    /\ loading' = "idle"
    /\ UNCHANGED <<store, ledger, platformVars, session, requestVars, raced, disturbed, overlapped>>

\* The cached alerts reach their time to live.
Expire ==
    /\ alerts # "none"
    /\ alerts' = "none"
    /\ UNCHANGED <<store, ledger, platformVars, session, requestVars, loading, raced, disturbed, overlapped>>

\* Somebody deletes a product, in the platform's own tools.
Delist(i) ==
    /\ i \in listed \cap Delistable
    /\ listed' = listed \ {i}
    /\ UNCHANGED <<store, ledger, version, writes, session, requestVars, cacheVars, disturbed, overlapped>>

Step(r) ==
    \/ Begin(r) \/ Stage(r) \/ Overview(r) \/ Gate(r) \/ CheckStaged(r) \/ ReadProduct(r)
    \/ SkipProduct(r) \/ PostUpdate(r) \/ PostVanishes(r) \/ PostConflicts(r) \/ PostFails(r)
    \/ RequireStaged(r) \/ MarkChange(r) \/ LedgerFails(r) \/ Finish(r) \/ Crash(r)

Next == (\E r \in Requests : Step(r)) \/ (\E i \in Items : Delist(i)) \/ StartLoad \/ FinishLoad \/ Expire

Spec == Init /\ [][Next]_vars

-----------------------------------------------------------------------------
\* Every variable keeps its shape: the ledger holds one of the four statuses for every
\* change, a request's position stays within the products its change touches.
TypeOK ==
    /\ store \in Ledgers
    /\ ledger \in [Changes -> Status]
    /\ listed \in SUBSET Items
    /\ version \in [Items -> Nat]
    /\ writes \in [Changes -> [Items -> Nat]]
    /\ session \in Session
    /\ pc \in [Requests -> {"idle"} \cup InFlight \cup Finished]
    /\ job \in [Requests -> Job]
    /\ rec \in [Requests -> Session]
    /\ at \in [Requests -> [item : 1 .. Products + 1, version : Nat]]
    /\ alerts \in {"none", "current", "stale"}
    /\ loading \in {"idle", "current", "stale"}
    /\ disturbed \in SUBSET Changes
    /\ overlapped \in SUBSET Changes
    /\ raced \in BOOLEAN

\* Nothing typed in chat applies a change: no turn's apply ever passes the gate, whatever
\* clicks came before it and however they ended ("a later chat turn cannot spend a leftover
\* approval").
ModelNeverApplies ==
    \A t \in Turns :
        job[t].action = "apply" =>
            pc[t] \notin {"checking", "reading", "posting", "requiring", "marking"}

\* The platform is never written more often than the operator approved.
NeverMoreThanApproved ==
    \A c \in Changes, i \in Items :
        writes[c][i] <= Cardinality({r \in Clicks : job[r] = [action |-> "apply", change |-> c]})

\* A change the ledger records as applied took effect on every product the platform still
\* has and it asks something of, though its write may have been cut off half-way before.
AppliedIsComplete ==
    \A c \in Changes : ledger[c] = "applied" => \A i \in listed \ Void : writes[c][i] >= 1

\* While no two requests acted on a change at once and none of its applies failed or died
\* half-way, its status tells the truth: applied is every product left it asks
\* something of, exactly once, anything else with nobody at work on it is not at all.
UndisturbedIsExact ==
    \A c \in Changes \ (disturbed \cup overlapped) :
        /\ ledger[c] = "applied" => \A i \in listed : writes[c][i] = IF i \in Void THEN 0 ELSE 1
        /\ (ledger[c] # "applied" /\ ~\E r \in Requests : Acting(r, c)) =>
              \A i \in Items : writes[c][i] = 0

\* In the process's ledger a resolved change stays as it was resolved.
ResolvedIsFinal ==
    [][ store = "process" =>
          \A c \in Changes : ledger[c] \in {"applied", "discarded"} => ledger'[c] = ledger[c] ]_vars

\* In the one-process deployment the cached alerts lag behind the platform only while an
\* apply is under way, or after one was disturbed, or after a load was in flight when the
\* cache was dropped.
AlertsFollowWrites ==
    store = "process" /\ alerts = "stale" =>
        \/ raced
        \/ disturbed # {}
        \/ \E r \in Requests : pc[r] \in {"reading", "posting", "requiring"}

-----------------------------------------------------------------------------
\* What the repository says of the store, and the store does not do.

\* Checking the status before the write is meant to keep a change from being written twice
\* ("They used to run after, so applying twice wrote twice").
WrittenAtMostOnce == \A c \in Changes, i \in Items : writes[c][i] <= 1
=============================================================================
