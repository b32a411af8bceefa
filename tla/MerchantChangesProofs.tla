------------------------ MODULE MerchantChangesProofs ------------------------
(***************************************************************************)
(* Proofs about MerchantChanges, for any number of changes, clicks, turns  *)
(* and products and either ledger: type correctness, that no chat turn     *)
(* ever applies a change, that a change recorded as applied is in the      *)
(* store in full, that a resolved change stays resolved, that alerts       *)
(* follow the writes, that no change is written more often than approved,  *)
(* and that an undisturbed one is exactly as its status says.              *)
(***************************************************************************)
EXTENDS MerchantChanges, FiniteSetTheorems, TLAPS

USE DEF platformVars

\* The products a request's change touches are written in order: it stands at the first
\* before its write begins, and within them while it runs; a product it asks nothing of is
\* never posted.
Positions ==
    \A r \in Requests :
        /\ pc[r] \in {"idle", "gate", "checking"} => at[r].item = 1
        /\ pc[r] \in {"reading", "posting"} => at[r].item \in Items
        /\ pc[r] = "posting" => at[r].item \notin Void

Position == [item : 1 .. Products + 1, version : Nat]

\* An update that takes effect keeps the types of what it changes.
LEMMA EffectType ==
    ASSUME TypeOK, NEW r \in Requests, at[r].item \in Items, Effect(r)
    PROVE  /\ version' \in [Items -> Nat]
           /\ writes' \in [Changes -> [Items -> Nat]]
           /\ alerts' \in {"none", "current", "stale"}
           /\ loading' \in {"idle", "current", "stale"}
<1>1. job[r].change \in Changes
  BY DEF TypeOK, Job
<1>2. version' \in [Items -> Nat]
  BY DEF TypeOK, Effect
<1>3. writes' \in [Changes -> [Items -> Nat]]
  BY <1>1 DEF TypeOK, Effect
<1>4. alerts' \in {"none", "current", "stale"} /\ loading' \in {"idle", "current", "stale"}
  BY DEF TypeOK, Effect
<1>. QED
  BY <1>2, <1>3, <1>4

LEMMA InvalidateType ==
    ASSUME TypeOK, NEW r \in Requests, Invalidate(r)
    PROVE  /\ alerts' \in {"none", "current", "stale"}
           /\ loading' \in {"idle", "current", "stale"}
           /\ raced' \in BOOLEAN
<1>1. alerts' \in {"none", "current", "stale"} /\ loading' \in {"idle", "current", "stale"}
  BY DEF TypeOK, Invalidate, cacheVars
<1>2. raced' \in BOOLEAN
  BY Zenon DEF TypeOK, Invalidate, cacheVars
<1>. QED
  BY <1>1, <1>2

LEMMA FailType ==
    ASSUME TypeOK, NEW r \in Requests, NEW how \in {"failed", "conflict"}, Fail(r, how)
    PROVE  /\ pc' \in [Requests -> {"idle"} \cup InFlight \cup Finished]
           /\ \A q \in Requests \ {r} : pc'[q] = pc[q]
           /\ pc'[r] \in {"failed", "conflict", "finishing"}
  BY DEF TypeOK, Fail, InFlight, Finished

LEMMA DisturbType ==
    ASSUME TypeOK, NEW r \in Requests, Disturb(r)
    PROVE  disturbed' \in SUBSET Changes
  BY DEF TypeOK, Disturb, Job

LEMMA OutcomeType == \A r \in Requests : Outcome(r) \in {"applied", "discarded"}
  BY DEF Outcome

-----------------------------------------------------------------------------
\* One step of one request keeps every type and every position.
LEMMA StepType ==
    ASSUME TypeOK, Positions, NEW r \in Requests, Step(r)
    PROVE  TypeOK' /\ Positions'
<1>. USE DEF InFlight, Finished, cacheVars
<1>0. /\ Products \in Nat \ {0} /\ Items = 1 .. Products
      /\ job[r] \in Job /\ rec[r] \in Session /\ at[r] \in Position
  BY ProductsAssumption DEF TypeOK, Items, Position
<1>1. CASE Begin(r)
  <2>1. PICK a \in Actions(r), c \in Changes :
          /\ job' = [job EXCEPT ![r] = [action |-> a, change |-> c]]
          /\ rec' = [rec EXCEPT ![r] =
                       [seen |-> session.seen,
                        approved |-> IF r \in Clicks /\ a = "apply"
                                     THEN session.approved \cup {c} ELSE session.approved]]
          /\ overlapped' = IF a \in {"apply", "discard"} /\ \E q \in Requests : Acting(q, c)
                           THEN overlapped \cup {c} ELSE overlapped
    BY <1>1 DEF Begin
  <2>2. job' \in [Requests -> Job]
    BY <2>1 DEF TypeOK, Job, Actions
  <2>3. rec' \in [Requests -> Session]
    BY <2>1 DEF TypeOK, Session
  <2>4. overlapped' \in SUBSET Changes
    BY <2>1 DEF TypeOK
  <2>5. pc' \in [Requests -> {"idle"} \cup InFlight \cup Finished]
    BY <1>1 DEF TypeOK, Begin
  <2>6. Positions'
    BY <1>1 DEF TypeOK, Positions, Begin
  <2>. QED
    BY <1>1, <2>2, <2>3, <2>4, <2>5, <2>6 DEF TypeOK, Begin
<1>2. CASE Stage(r)
  <2>1. ledger' \in [Changes -> Status]
    <3>1. ledger' = ledger \/ ledger' = [ledger EXCEPT ![job[r].change] = "staged"]
      BY <1>2 DEF Stage
    <3>2. ledger \in [Changes -> Status] /\ "staged" \in Status
      BY DEF TypeOK, Status
    <3>. QED
      BY <3>1, <3>2
  <2>2. rec' \in [Requests -> Session]
    <3>1. [rec[r] EXCEPT !.seen = @ \cup {job[r].change}] \in Session
      BY <1>0 DEF Session, Job
    <3>2. rec' \in {rec, [rec EXCEPT ![r] = [rec[r] EXCEPT !.seen = @ \cup {job[r].change}]]}
      BY <1>2 DEF Stage
    <3>. QED
      BY <3>1, <3>2 DEF TypeOK
  <2>3. Positions'
    BY <1>2 DEF TypeOK, Positions, Stage
  <2>. QED
    BY <1>2, <2>1, <2>2, <2>3 DEF TypeOK, Stage
<1>3. CASE Overview(r)
  <2>1. rec' \in [Requests -> Session]
    BY <1>0, <1>3 DEF TypeOK, Overview, Session, Pending
  <2>2. Positions'
    BY <1>3 DEF TypeOK, Positions, Overview
  <2>. QED
    BY <1>3, <2>1, <2>2 DEF TypeOK, Overview
<1>4. CASE Gate(r)
  <2>1. pc' \in [Requests -> {"idle"} \cup InFlight \cup Finished]
    BY <1>4 DEF TypeOK, Gate
  <2>2. Positions'
    BY <1>4 DEF TypeOK, Positions, Gate
  <2>. QED
    BY <1>4, <2>1, <2>2 DEF TypeOK, Gate
<1>5. CASE CheckStaged(r)
  <2>1. pc' \in [Requests -> {"idle"} \cup InFlight \cup Finished]
    BY <1>5 DEF TypeOK, CheckStaged, Fail
  <2>2. Positions'
    BY <1>0, <1>5 DEF TypeOK, Positions, CheckStaged, Fail
  <2>. QED
    BY <1>5, <2>1, <2>2 DEF TypeOK, CheckStaged
<1>6. CASE ReadProduct(r)
  <2>1. at' \in [Requests -> Position]
    BY <1>0, <1>6 DEF TypeOK, Positions, ReadProduct, Position
  <2>2. Positions'
    BY <1>0, <1>6 DEF TypeOK, Positions, ReadProduct
  <2>. QED
    BY <1>6, <2>1, <2>2 DEF TypeOK, ReadProduct, Position
<1>7. CASE PostUpdate(r)
  <2>0. at[r].item \in Items
    BY <1>7 DEF Positions, PostUpdate
  <2>1. at' \in [Requests -> Position]
    <3>1. [at[r] EXCEPT !.item = @ + 1] \in Position
      BY <1>0, <2>0 DEF Position
    <3>2. at' = [at EXCEPT ![r] = [at[r] EXCEPT !.item = @ + 1]]
      BY <1>7 DEF PostUpdate
    <3>. QED
      BY <3>1, <3>2 DEF TypeOK, Position
  <2>2. Positions'
    BY <1>0, <1>7, <2>0 DEF TypeOK, Positions, PostUpdate
  <2>3. pc' \in [Requests -> {"idle"} \cup InFlight \cup Finished]
    BY <1>7 DEF TypeOK, PostUpdate
  <2>. QED
    BY <1>7, <2>0, <2>1, <2>2, <2>3, EffectType DEF TypeOK, PostUpdate, Position
<1>15. CASE PostVanishes(r)
  <2>0. at[r].item \in Items
    BY <1>15 DEF Positions, PostVanishes
  <2>1. at' \in [Requests -> Position]
    <3>1. [at[r] EXCEPT !.item = @ + 1] \in Position
      BY <1>0, <2>0 DEF Position
    <3>2. at' = [at EXCEPT ![r] = [at[r] EXCEPT !.item = @ + 1]]
      BY <1>15 DEF PostVanishes
    <3>. QED
      BY <3>1, <3>2 DEF TypeOK, Position
  <2>2. Positions'
    BY <1>0, <1>15, <2>0 DEF TypeOK, Positions, PostVanishes
  <2>3. pc' \in [Requests -> {"idle"} \cup InFlight \cup Finished]
    BY <1>15 DEF TypeOK, PostVanishes
  <2>. QED
    BY <1>15, <2>1, <2>2, <2>3 DEF TypeOK, PostVanishes, Position
<1>16. CASE SkipProduct(r)
  <2>0. at[r].item \in Items
    BY <1>16 DEF Positions, SkipProduct
  <2>1. at' \in [Requests -> Position]
    <3>1. [at[r] EXCEPT !.item = @ + 1] \in Position
      BY <1>0, <2>0 DEF Position
    <3>2. at' = [at EXCEPT ![r] = [at[r] EXCEPT !.item = @ + 1]]
      BY <1>16 DEF SkipProduct
    <3>. QED
      BY <3>1, <3>2 DEF TypeOK, Position
  <2>2. Positions'
    BY <1>0, <1>16, <2>0 DEF TypeOK, Positions, SkipProduct
  <2>3. pc' \in [Requests -> {"idle"} \cup InFlight \cup Finished]
    BY <1>16 DEF TypeOK, SkipProduct
  <2>. QED
    BY <1>16, <2>1, <2>2, <2>3 DEF TypeOK, SkipProduct, Position
<1>8. CASE PostConflicts(r)
  <2>1. Positions'
    BY <1>8, FailType DEF Positions, PostConflicts
  <2>. QED
    BY <1>8, <2>1, FailType, DisturbType DEF TypeOK, PostConflicts
<1>9. CASE PostFails(r)
  <2>0. at[r].item \in Items
    BY <1>9 DEF Positions, PostFails
  <2>1. Positions'
    BY <1>9, FailType DEF Positions, PostFails
  <2>. QED
    BY <1>9, <2>0, <2>1, EffectType, FailType, DisturbType DEF TypeOK, PostFails
<1>10. CASE RequireStaged(r)
  <2>1. ledger' \in [Changes -> Status]
    BY <1>10, OutcomeType DEF TypeOK, RequireStaged, Status
  <2>2. pc' \in [Requests -> {"idle"} \cup InFlight \cup Finished]
    BY <1>10 DEF TypeOK, RequireStaged, Fail
  <2>3. disturbed' \in SUBSET Changes
    BY <1>10, DisturbType DEF TypeOK, RequireStaged
  <2>4. Positions'
    BY <1>10 DEF TypeOK, Positions, RequireStaged, Fail
  <2>. QED
    BY <1>10, <2>1, <2>2, <2>3, <2>4, InvalidateType DEF TypeOK, RequireStaged
<1>11. CASE MarkChange(r)
  <2>1. ledger' \in [Changes -> Status]
    BY <1>11, OutcomeType DEF TypeOK, MarkChange, Status
  <2>2. Positions'
    BY <1>11 DEF TypeOK, Positions, MarkChange
  <2>. QED
    BY <1>11, <2>1, <2>2 DEF TypeOK, MarkChange
<1>12. CASE LedgerFails(r)
  <2>1. ledger' \in [Changes -> Status]
    BY <1>12, OutcomeType DEF TypeOK, LedgerFails, Status
  <2>2. disturbed' \in SUBSET Changes
    BY <1>12, DisturbType DEF TypeOK, LedgerFails
  <2>3. Positions'
    BY <1>12, FailType DEF Positions, LedgerFails
  <2>4. /\ alerts' \in {"none", "current", "stale"}
        /\ loading' \in {"idle", "current", "stale"}
        /\ raced' \in BOOLEAN
    <3>1. CASE pc[r] = "requiring"
      BY <1>12, <3>1, InvalidateType DEF LedgerFails
    <3>2. CASE pc[r] # "requiring"
      <4>1. UNCHANGED <<alerts, loading, raced>>
        BY <1>12, <3>2 DEF LedgerFails
      <4>. QED
        BY <4>1, Zenon DEF TypeOK
    <3>. QED
      BY <3>1, <3>2
  <2>. QED
    BY <1>12, <2>1, <2>2, <2>3, <2>4, FailType DEF TypeOK, LedgerFails
<1>13. CASE Finish(r)
  <2>1. rec' \in [Requests -> Session] /\ session' \in Session
    <3>. DEFINE kept == IF r \in Clicks
                        THEN [rec[r] EXCEPT !.approved = @ \ {job[r].change}] ELSE rec[r]
    <3>1. kept \in Session
      BY <1>0 DEF Session
    <3>2. rec' = [rec EXCEPT ![r] = kept] /\ session' \in {session, kept}
      BY <1>13 DEF Finish
    <3>. HIDE DEF kept
    <3>. QED
      BY <3>1, <3>2 DEF TypeOK
  <2>2. Positions'
    BY <1>13 DEF TypeOK, Positions, Finish
  <2>. QED
    BY <1>13, <2>1, <2>2 DEF TypeOK, Finish
<1>14. CASE Crash(r)
  <2>1. disturbed' \in SUBSET Changes
    BY <1>14, DisturbType DEF TypeOK, Crash
  <2>2. Positions'
    BY <1>14 DEF TypeOK, Positions, Crash
  <2>. QED
    BY <1>14, <2>1, <2>2 DEF TypeOK, Crash
<1>. QED
  BY <1>1, <1>2, <1>3, <1>4, <1>5, <1>6, <1>7, <1>8, <1>9, <1>10, <1>11, <1>12, <1>13, <1>14, <1>15,
     <1>16 DEF Step

\* The reads of the alerts touch nothing but the cache, and a deletion only the catalog.
OtherStep == StartLoad \/ FinishLoad \/ Expire \/ \E i \in Items : Delist(i)

LEMMA OtherStepType ==
    ASSUME TypeOK, OtherStep
    PROVE  TypeOK'
  BY DEF TypeOK, OtherStep, StartLoad, FinishLoad, Expire, Delist, requestVars, cacheVars

LEMMA InitType == Init => TypeOK /\ Positions
<1>. SUFFICES ASSUME Init PROVE TypeOK /\ Positions
  OBVIOUS
<1>. USE ProductsAssumption DEF Init
<1>1. TypeOK
  <2>1. ledger \in [Changes -> Status]
    BY DEF Status
  <2>2. job \in [Requests -> Job]
    BY DEF Job
  <2>3. version \in [Items -> Nat] /\ writes \in [Changes -> [Items -> Nat]]
    OBVIOUS
  <2>4. session \in Session /\ rec \in [Requests -> Session]
    BY DEF Session
  <2>5. at \in [Requests -> [item : 1 .. Products + 1, version : Nat]]
    OBVIOUS
  <2>6. pc \in [Requests -> {"idle"} \cup InFlight \cup Finished]
    OBVIOUS
  <2>7. raced \in BOOLEAN
    BY Zenon
  <2>. QED
    BY <2>1, <2>2, <2>3, <2>4, <2>5, <2>6, <2>7 DEF TypeOK
<1>2. Positions
  BY DEF Positions
<1>. QED
  BY <1>1, <1>2

LEMMA TypesStep == TypeOK /\ Positions /\ [Next]_vars => TypeOK' /\ Positions'
<1>. SUFFICES ASSUME TypeOK, Positions, [Next]_vars PROVE TypeOK' /\ Positions'
  OBVIOUS
<1>1. CASE \E r \in Requests : Step(r)
  BY <1>1, StepType
<1>2. CASE OtherStep
  <2>1. UNCHANGED <<pc, at>>
    BY <1>2 DEF OtherStep, StartLoad, FinishLoad, Expire, Delist, requestVars, cacheVars
  <2>. QED
    BY <1>2, <2>1, OtherStepType DEF Positions
<1>3. CASE UNCHANGED vars
  BY <1>3 DEF vars, requestVars, cacheVars, TypeOK, Positions
<1>. QED
  BY <1>1, <1>2, <1>3 DEF Next, OtherStep

\* Type correctness: no interleaving of clicks, turns, failures and cache loads takes a
\* variable out of its shape.
THEOREM ChangeTypes == Spec => []TypeOK
<1>. QED
  BY InitType, TypesStep, PTL DEF Spec

-----------------------------------------------------------------------------
\* A request's step leaves every other request where it is, and the deployment as it is.
LEMMA OthersStay ==
    ASSUME TypeOK, NEW r \in Requests, Step(r)
    PROVE  /\ store' = store
           /\ listed' = listed
           /\ \A q \in Requests \ {r} :
                 pc'[q] = pc[q] /\ job'[q] = job[q] /\ rec'[q] = rec[q] /\ at'[q] = at[q]
<1>. USE DEF Fail, cacheVars
<1>1. CASE Begin(r)
  BY <1>1 DEF TypeOK, Begin
<1>2. CASE Stage(r) \/ Overview(r) \/ Gate(r) \/ CheckStaged(r)
  BY <1>2 DEF TypeOK, Stage, Overview, Gate, CheckStaged
<1>3. CASE \/ ReadProduct(r) \/ SkipProduct(r) \/ PostUpdate(r) \/ PostVanishes(r)
           \/ PostConflicts(r) \/ PostFails(r)
  BY <1>3 DEF TypeOK, ReadProduct,
     SkipProduct, PostUpdate, PostVanishes, PostConflicts, PostFails
<1>4. CASE RequireStaged(r) \/ MarkChange(r) \/ LedgerFails(r)
  BY <1>4 DEF TypeOK, RequireStaged, MarkChange, LedgerFails
<1>5. CASE Finish(r) \/ Crash(r)
  BY <1>5 DEF TypeOK, Finish, Crash
<1>. QED
  BY <1>1, <1>2, <1>3, <1>4, <1>5 DEF Step

\* Those leave everything else as it is, and no deleted product comes back.
LEMMA RequestsStay ==
    ASSUME OtherStep
    PROVE  /\ UNCHANGED <<store, ledger, version, writes, session, requestVars, disturbed>>
           /\ listed' \subseteq listed
  BY DEF OtherStep, StartLoad, FinishLoad, Expire, Delist, requestVars, cacheVars

-----------------------------------------------------------------------------
\* An approval is only ever held by the click that gave it, while it runs: it is never in
\* the stored session, so no request loads one.
ApprovalsHeld ==
    /\ session.approved = {}
    /\ \A r \in Requests :
          rec[r].approved \subseteq IF r \in Clicks /\ job[r].action = "apply"
                                    THEN {job[r].change} ELSE {}

LEMMA StepApprovals ==
    ASSUME TypeOK, ApprovalsHeld, NEW r \in Requests, Step(r)
    PROVE  ApprovalsHeld'
<1>. DEFINE Held(q) == rec[q].approved \subseteq IF q \in Clicks /\ job[q].action = "apply"
                                                 THEN {job[q].change} ELSE {}
<1>0. /\ Held(r) /\ session.approved = {}
      /\ rec[r] \in Session /\ session \in Session /\ job[r] \in Job
  BY DEF ApprovalsHeld, TypeOK
<1>1. SUFFICES Held(r)' /\ session'.approved = {}
  BY OthersStay DEF ApprovalsHeld
<1>2. CASE Begin(r)
  <2>1. PICK a \in Actions(r), c \in Changes :
          /\ job' = [job EXCEPT ![r] = [action |-> a, change |-> c]]
          /\ rec' = [rec EXCEPT ![r] =
                       [seen |-> session.seen,
                        approved |-> IF r \in Clicks /\ a = "apply"
                                     THEN session.approved \cup {c} ELSE session.approved]]
    BY <1>2 DEF Begin
  <2>2. Held(r)'
    BY <1>0, <2>1 DEF TypeOK
  <2>. QED
    BY <1>0, <1>2, <2>2 DEF Begin
<1>3. CASE Stage(r)
  <2>1. rec' \in {rec, [rec EXCEPT ![r] = [rec[r] EXCEPT !.seen = @ \cup {job[r].change}]]}
    BY <1>3 DEF Stage
  <2>2. rec'[r].approved = rec[r].approved
    BY <1>0, <2>1 DEF TypeOK, Session
  <2>. QED
    BY <1>0, <1>3, <2>2 DEF Stage
<1>4. CASE Overview(r)
  <2>1. rec'[r].approved = rec[r].approved
    BY <1>0, <1>4 DEF TypeOK, Session, Overview
  <2>. QED
    BY <1>0, <1>4, <2>1 DEF Overview
<1>5. CASE Finish(r)
  <2>. DEFINE kept == IF r \in Clicks
                      THEN [rec[r] EXCEPT !.approved = @ \ {job[r].change}] ELSE rec[r]
  <2>1. rec' = [rec EXCEPT ![r] = kept] /\ session' \in {session, kept} /\ job' = job
    BY <1>5 DEF Finish
  <2>2. kept.approved = {}
    BY <1>0 DEF Session
  <2>. HIDE DEF kept
  <2>. QED
    BY <1>0, <2>1, <2>2 DEF TypeOK
<1>6. CASE \/ Gate(r) \/ CheckStaged(r) \/ ReadProduct(r) \/ SkipProduct(r) \/ PostUpdate(r)
           \/ PostVanishes(r) \/ PostConflicts(r) \/ PostFails(r) \/ RequireStaged(r) \/ MarkChange(r)
           \/ LedgerFails(r) \/ Crash(r)
  <2>1. rec' = rec /\ job' = job /\ session' = session
    BY <1>6 DEF Gate, CheckStaged, ReadProduct,
       SkipProduct, PostUpdate, PostVanishes, PostConflicts, PostFails,
                RequireStaged, MarkChange, LedgerFails, Crash
  <2>. QED
    BY <1>0, <2>1
<1>. QED
  BY <1>2, <1>3, <1>4, <1>5, <1>6 DEF Step

\* A turn's apply goes from the gate to its answer: it never holds the approval.
LEMMA StepModel ==
    ASSUME TypeOK, ApprovalsHeld, ModelNeverApplies, NEW r \in Requests, Step(r)
    PROVE  ModelNeverApplies'
<1>1. SUFFICES ASSUME r \in Turns, job'[r].action = "apply"
               PROVE  pc'[r] \notin {"checking", "reading", "posting", "requiring", "marking"}
  BY OthersStay DEF ModelNeverApplies, Requests
<1>2. r \notin Clicks
  BY <1>1, RequestsAssumption
<1>3. CASE Begin(r)
  BY <1>3 DEF TypeOK, Begin
<1>. USE DEF TypeOK
<1>4. ~Begin(r) => job'[r] = job[r]
  BY DEF Step, Stage, Overview, Gate, CheckStaged, ReadProduct,
     SkipProduct, PostUpdate, PostVanishes, PostConflicts,
         PostFails, RequireStaged, MarkChange, LedgerFails, Finish, Crash
<1>5. CASE Gate(r)
  <2>1. job[r].action = "apply"
    BY <1>1, <1>5 DEF Gate
  <2>2. job[r].change \notin rec[r].approved
    BY <1>2 DEF ApprovalsHeld
  <2>. QED
    BY <1>5, <2>1, <2>2 DEF Gate, GatePasses
<1>6. CASE Stage(r) \/ Overview(r) \/ Finish(r) \/ Crash(r)
  BY <1>6 DEF Stage, Overview, Finish, Crash
<1>7. CASE \/ CheckStaged(r) \/ ReadProduct(r) \/ SkipProduct(r) \/ PostUpdate(r) \/ PostVanishes(r)
           \/ PostConflicts(r) \/ PostFails(r) \/ RequireStaged(r) \/ MarkChange(r) \/ LedgerFails(r)
  <2>1. job'[r] = job[r] /\ pc[r] \in {"checking", "reading", "posting", "requiring", "marking"}
    BY <1>7 DEF CheckStaged, ReadProduct,
       SkipProduct, PostUpdate, PostVanishes, PostConflicts, PostFails,
                RequireStaged, MarkChange, LedgerFails
  <2>. QED
    BY <1>1, <2>1 DEF ModelNeverApplies
<1>. QED
  BY <1>3, <1>5, <1>6, <1>7 DEF Step

\* Nothing typed in chat applies a change, whatever clicks came before, failed or died:
\* chat turns hold no approvals, because the marks never reach the stored session.
THEOREM ModelCannotApply == Spec => []ModelNeverApplies
<1>. DEFINE IInv == TypeOK /\ Positions /\ ApprovalsHeld /\ ModelNeverApplies
<1>1. Init => IInv
  <2>1. Init => ApprovalsHeld /\ ModelNeverApplies
    BY DEF Init, ApprovalsHeld, ModelNeverApplies, Requests
  <2>. QED
    BY <2>1, InitType
<1>2. IInv /\ [Next]_vars => IInv'
  <2>. SUFFICES ASSUME IInv, [Next]_vars PROVE ApprovalsHeld' /\ ModelNeverApplies'
    BY TypesStep
  <2>1. CASE \E r \in Requests : Step(r)
    BY <2>1, StepApprovals, StepModel
  <2>2. CASE OtherStep
    BY <2>2, RequestsStay DEF ApprovalsHeld, ModelNeverApplies, requestVars
  <2>3. CASE UNCHANGED vars
    BY <2>3 DEF vars, requestVars, ApprovalsHeld, ModelNeverApplies
  <2>. QED
    BY <2>1, <2>2, <2>3 DEF Next, OtherStep
<1>. QED
  BY <1>1, <1>2, PTL DEF Spec

-----------------------------------------------------------------------------
\* Writes only ever grow.
LEMMA WritesGrow ==
    ASSUME TypeOK, Positions, NEW r \in Requests, Step(r)
    PROVE  \A c \in Changes, i \in Items : writes[c][i] >= 1 => writes'[c][i] >= 1
<1>1. CASE Effect(r)
  <2>1. writes' = [writes EXCEPT ![job[r].change][at[r].item] = @ + 1]
    BY <1>1 DEF Effect
  <2>2. writes \in [Changes -> [Items -> Nat]]
    BY DEF TypeOK
  <2>. QED
    BY <2>1, <2>2
<1>2. CASE UNCHANGED writes
  BY <1>2
<1>3. Effect(r) \/ UNCHANGED writes
  BY DEF Step, Begin, Stage, Overview, Gate, CheckStaged, ReadProduct,
     SkipProduct, PostUpdate, PostVanishes,
         PostConflicts, PostFails, RequireStaged, MarkChange, LedgerFails, Finish, Crash
<1>. QED
  BY <1>1, <1>2, <1>3

\* Only an apply comes to the platform write; what it has passed is written, deleted or asked
\* for nothing, and it comes to the ledger past everything.
WrittenSoFar ==
    \A r \in Requests :
        /\ pc[r] \in {"checking", "reading", "posting"} => job[r].action = "apply"
        /\ job[r].action = "apply" =>
              /\ pc[r] \in {"requiring", "marking"} => at[r].item = Products + 1
              /\ \A i \in listed \ Void : i < at[r].item => writes[job[r].change][i] >= 1

LEMMA StepWritten ==
    ASSUME TypeOK, Positions, WrittenSoFar, NEW r \in Requests, Step(r)
    PROVE  WrittenSoFar'
<1>. DEFINE Apply(q) == pc[q] \in {"checking", "reading", "posting"} => job[q].action = "apply"
            At(q) == job[q].action = "apply" /\ pc[q] \in {"requiring", "marking"} =>
                        at[q].item = Products + 1
            Passed(q) == job[q].action = "apply" =>
                            \A i \in listed \ Void : i < at[q].item => writes[job[q].change][i] >= 1
<1>0. /\ Products \in Nat \ {0} /\ Items = 1 .. Products
      /\ job[r] \in Job /\ at[r] \in Position
      /\ Apply(r) /\ At(r) /\ Passed(r)
      /\ listed' = listed /\ listed \subseteq Items
  BY OthersStay, ProductsAssumption DEF TypeOK, Items, Position, WrittenSoFar
<1>1. SUFFICES Apply(r)' /\ At(r)' /\ Passed(r)'
  <2>1. \A q \in Requests \ {r} : Apply(q)' /\ At(q)' /\ Passed(q)'
    <3>. SUFFICES ASSUME NEW q \in Requests \ {r} PROVE Apply(q)' /\ At(q)' /\ Passed(q)'
      OBVIOUS
    <3>1. pc'[q] = pc[q] /\ job'[q] = job[q] /\ at'[q] = at[q]
      BY OthersStay
    <3>2. job[q].change \in Changes
      BY DEF TypeOK, Job
    <3>3. Apply(q) /\ At(q) /\ Passed(q)
      BY DEF WrittenSoFar
    <3>. QED
      BY <1>0, <3>1, <3>2, <3>3, WritesGrow
  <2>. QED
    BY <1>1, <2>1 DEF WrittenSoFar
<1>. USE DEF Fail
<1>2. CASE Begin(r)
  <2>1. at' = at /\ at[r].item = 1 /\ pc'[r] = "gate"
    BY <1>2 DEF Begin, Positions, TypeOK
  <2>. QED
    BY <1>0, <2>1
<1>3. CASE \/ Stage(r) \/ Overview(r) \/ Gate(r) \/ CheckStaged(r) \/ RequireStaged(r)
           \/ MarkChange(r) \/ LedgerFails(r) \/ Finish(r) \/ Crash(r)
  <2>1. writes' = writes /\ job' = job /\ at' = at
    BY <1>3 DEF Stage, Overview, Gate, CheckStaged, RequireStaged, MarkChange, LedgerFails,
                Finish, Crash
  <2>2. CASE Gate(r)
    BY <1>0, <2>1, <2>2 DEF TypeOK, Gate
  <2>3. CASE Stage(r) \/ Overview(r) \/ CheckStaged(r) \/ Finish(r) \/ Crash(r)
    BY <1>0, <2>1, <2>3 DEF TypeOK, Stage, Overview, CheckStaged, Finish, Crash
  <2>4. CASE RequireStaged(r) \/ MarkChange(r) \/ LedgerFails(r)
    BY <1>0, <2>1, <2>4 DEF TypeOK, RequireStaged, MarkChange, LedgerFails
  <2>. QED
    BY <1>3, <2>2, <2>3, <2>4
<1>4. CASE ReadProduct(r)
  <2>1. at'[r].item = at[r].item
    BY <1>0, <1>4 DEF TypeOK, ReadProduct, Position
  <2>. QED
    BY <1>0, <1>4, <2>1 DEF TypeOK, ReadProduct
<1>5. CASE PostUpdate(r)
  <2>1. at'[r].item = at[r].item + 1
    BY <1>0, <1>5 DEF TypeOK, PostUpdate, Position
  <2>2. at[r].item \in Items /\ job[r].change \in Changes /\ job' = job
    BY <1>0, <1>5 DEF Positions, PostUpdate, Job
  <2>3. writes'[job[r].change][at[r].item] >= 1
    <3>1. writes' = [writes EXCEPT ![job[r].change][at[r].item] = @ + 1]
      BY <1>5 DEF PostUpdate, Effect
    <3>2. writes[job[r].change][at[r].item] \in Nat
      BY <2>2 DEF TypeOK
    <3>. QED
      BY <2>2, <3>1, <3>2 DEF TypeOK
  <2>4. Passed(r)'
    <3>. SUFFICES ASSUME job[r].action = "apply", NEW i \in listed \ Void, i < at[r].item + 1
                  PROVE  writes'[job[r].change][i] >= 1
      BY <1>0, <2>1, <2>2
    <3>1. CASE i = at[r].item
      BY <2>3, <3>1
    <3>2. CASE i < at[r].item
      BY <1>0, <2>2, <3>2, WritesGrow
    <3>. QED
      BY <1>0, <2>2, <3>1, <3>2
  <2>5. Apply(r)' /\ At(r)'
    BY <1>0, <1>5, <2>1, <2>2 DEF TypeOK, PostUpdate
  <2>. QED
    BY <2>4, <2>5
<1>7. CASE PostVanishes(r) \/ SkipProduct(r)
  <2>1. at'[r].item = at[r].item + 1 /\ at[r].item \notin listed \ Void
    BY <1>0, <1>7 DEF TypeOK, PostVanishes, SkipProduct, Position
  <2>2. at[r].item \in Items /\ job' = job /\ writes' = writes
    BY <1>7 DEF Positions, PostVanishes, SkipProduct
  <2>3. Passed(r)'
    BY <1>0, <2>1, <2>2
  <2>4. Apply(r)' /\ At(r)'
    BY <1>0, <1>7, <2>1, <2>2 DEF TypeOK, PostVanishes, SkipProduct
  <2>. QED
    BY <2>3, <2>4
<1>6. CASE PostConflicts(r) \/ PostFails(r)
  <2>1. at' = at /\ job' = job /\ job[r].change \in Changes
    BY <1>0, <1>6 DEF PostConflicts, PostFails, Job
  <2>2. pc'[r] \in {"failed", "conflict", "finishing"}
    BY <1>6 DEF TypeOK, PostConflicts, PostFails
  <2>. QED
    BY <1>0, <2>1, <2>2, WritesGrow
<1>. QED
  BY <1>2, <1>3, <1>4, <1>5, <1>6, <1>7 DEF Step

\* A change the ledger comes to call applied was called so by an apply that passed the
\* last product.
LEMMA StepComplete ==
    ASSUME TypeOK, Positions, WrittenSoFar, AppliedIsComplete, NEW r \in Requests, Step(r)
    PROVE  AppliedIsComplete'
<1>. SUFFICES ASSUME NEW c \in Changes, ledger'[c] = "applied", NEW i \in listed \ Void
              PROVE  writes'[c][i] >= 1
  BY OthersStay DEF AppliedIsComplete
<1>0. i \in Items
  BY DEF TypeOK
<1>1. CASE ledger[c] = "applied"
  BY <1>0, <1>1, WritesGrow DEF AppliedIsComplete
<1>2. CASE ledger[c] # "applied"
  <2>1. Products \in Nat \ {0} /\ Items = 1 .. Products
    BY ProductsAssumption DEF Items
  <2>2. /\ pc[r] \in {"requiring", "marking"}
        /\ ledger' = [ledger EXCEPT ![job[r].change] = Outcome(r)]
    BY <1>2 DEF TypeOK, Step, Begin, Stage, Overview, Gate, CheckStaged, ReadProduct,
                SkipProduct, PostUpdate, PostVanishes, PostConflicts, PostFails, RequireStaged,
                MarkChange, LedgerFails, Finish, Crash
  <2>3. job[r].change = c /\ Outcome(r) = "applied"
    BY <1>2, <2>2 DEF TypeOK
  <2>4. job[r].action = "apply"
    BY <2>3 DEF Outcome
  <2>5. at[r].item = Products + 1
    BY <2>2, <2>4 DEF WrittenSoFar
  <2>6. writes[c][i] >= 1
    BY <1>0, <2>1, <2>3, <2>4, <2>5 DEF WrittenSoFar
  <2>. QED
    BY <1>0, <2>6, WritesGrow
<1>. QED
  BY <1>1, <1>2

\* What the operator is told was applied is in the store, every product of it, however
\* many failed attempts and rivals came before.
THEOREM AppliedComplete == Spec => []AppliedIsComplete
<1>. DEFINE IInv == TypeOK /\ Positions /\ WrittenSoFar /\ AppliedIsComplete
<1>1. Init => IInv
  <2>1. Init => WrittenSoFar /\ AppliedIsComplete
    BY ProductsAssumption DEF Init, WrittenSoFar, AppliedIsComplete, Items
  <2>. QED
    BY <2>1, InitType
<1>2. IInv /\ [Next]_vars => IInv'
  <2>. SUFFICES ASSUME IInv, [Next]_vars PROVE WrittenSoFar' /\ AppliedIsComplete'
    BY TypesStep
  <2>1. CASE \E r \in Requests : Step(r)
    BY <2>1, StepWritten, StepComplete
  <2>2. CASE OtherStep
    BY <2>2, RequestsStay DEF WrittenSoFar, AppliedIsComplete, requestVars
  <2>3. CASE UNCHANGED vars
    BY <2>3 DEF vars, requestVars, WrittenSoFar, AppliedIsComplete
  <2>. QED
    BY <2>1, <2>2, <2>3 DEF Next, OtherStep
<1>. QED
  BY <1>1, <1>2, PTL DEF Spec

-----------------------------------------------------------------------------
\* In the process's ledger the check and the mark are one step: nothing is ever between.
NeverBetween == store = "process" => \A r \in Requests : pc[r] # "marking"

LEMMA StepNeverBetween ==
    ASSUME TypeOK, NeverBetween, NEW r \in Requests, Step(r)
    PROVE  NeverBetween'
<1>1. SUFFICES ASSUME store = "process" PROVE pc'[r] # "marking"
  BY OthersStay DEF NeverBetween
<1>2. pc[r] # "marking"
  BY <1>1 DEF NeverBetween
<1>. QED
  BY <1>1, <1>2 DEF TypeOK, Fail, Step, Begin, Stage, Overview, Gate, CheckStaged,
     ReadProduct, SkipProduct, PostUpdate, PostVanishes, PostConflicts, PostFails, RequireStaged, MarkChange,
     LedgerFails, Finish, Crash

\* One step moves a change on from staged, or leaves a resolved one alone.
LEMMA StepResolved ==
    ASSUME TypeOK, NeverBetween, store = "process", NEW r \in Requests, Step(r),
           NEW c \in Changes, ledger[c] \in {"applied", "discarded"}
    PROVE  ledger'[c] = ledger[c]
<1>1. CASE Stage(r)
  BY <1>1 DEF TypeOK, Stage
<1>2. CASE RequireStaged(r)
  BY <1>2 DEF TypeOK, RequireStaged
<1>3. CASE ~Stage(r) /\ ~RequireStaged(r)
  BY <1>3 DEF NeverBetween, Step, Begin, Overview, Gate, CheckStaged, ReadProduct,
     SkipProduct, PostUpdate, PostVanishes, PostConflicts, PostFails, MarkChange, LedgerFails, Finish, Crash
<1>. QED
  BY <1>1, <1>2, <1>3

\* An applied change cannot be dismissed and a dismissed one cannot be applied, in the
\* ledger of a single process: the ledger's own check makes the first answer final.
THEOREM ResolvedStays == Spec => ResolvedIsFinal
<1>. DEFINE Final == store = "process" =>
               \A c \in Changes : ledger[c] \in {"applied", "discarded"} => ledger'[c] = ledger[c]
<1>1. Init => NeverBetween
  BY DEF Init, NeverBetween
<1>2. TypeOK /\ Positions /\ NeverBetween /\ [Next]_vars => NeverBetween' /\ [Final]_vars
  <2>. SUFFICES ASSUME TypeOK, NeverBetween, [Next]_vars PROVE NeverBetween' /\ [Final]_vars
    OBVIOUS
  <2>1. CASE \E r \in Requests : Step(r)
    BY <2>1, StepNeverBetween, StepResolved
  <2>2. CASE OtherStep
    BY <2>2, RequestsStay DEF NeverBetween, requestVars
  <2>3. CASE UNCHANGED vars
    BY <2>3 DEF vars, requestVars, NeverBetween
  <2>. QED
    BY <2>1, <2>2, <2>3 DEF Next, OtherStep
<1>3. Init /\ [][Next]_vars => [][Final]_vars
  BY <1>1, <1>2, InitType, TypesStep, PTL
<1>. QED
  BY <1>3 DEF Spec, ResolvedIsFinal

-----------------------------------------------------------------------------
\* What the cache holds, or what a load will put there, lags behind only for a reason: an
\* apply that has written and has yet to drop the cache, or one of the accepted causes.
Writing == \E r \in Requests : pc[r] \in {"reading", "posting", "requiring"} /\ job[r].action = "apply"
LagsForAReason ==
    store = "process" /\ (alerts = "stale" \/ loading = "stale") =>
        raced \/ disturbed # {} \/ Writing

LEMMA StepLags ==
    ASSUME TypeOK, WrittenSoFar, LagsForAReason, NEW r \in Requests, Step(r)
    PROVE  LagsForAReason'
<1>. SUFFICES ASSUME store = "process", alerts' = "stale" \/ loading' = "stale"
              PROVE  raced' \/ disturbed' # {} \/ Writing'
  BY OthersStay DEF LagsForAReason
<1>. DEFINE Writes(q) == pc[q] \in {"reading", "posting", "requiring"} /\ job[q].action = "apply"
<1>0. \A q \in Requests \ {r} : Writes(q) => Writes(q)'
  BY OthersStay
<1>. USE DEF cacheVars
<1>1. CASE \/ Begin(r) \/ Stage(r) \/ Overview(r) \/ Gate(r) \/ CheckStaged(r)
           \/ ReadProduct(r) \/ Finish(r) \/ Crash(r) \/ MarkChange(r)
  <2>1. alerts' = alerts /\ loading' = loading /\ raced' = raced /\ disturbed \subseteq disturbed'
    BY <1>1 DEF Begin, Stage, Overview, Gate, CheckStaged, ReadProduct, Finish, Crash,
                MarkChange, Disturb
  <2>2. Writes(r) => Writes(r)' \/ disturbed' # {}
    BY <1>1 DEF TypeOK, Begin, Stage, Overview, Gate, CheckStaged, ReadProduct, Finish,
                Crash, MarkChange, Disturb
  <2>. QED
    BY <1>0, <2>1, <2>2, Zenon DEF LagsForAReason, Writing
<1>2. CASE SkipProduct(r) \/ PostUpdate(r) \/ PostVanishes(r)
  BY <1>2 DEF TypeOK, SkipProduct, PostUpdate, PostVanishes, WrittenSoFar, Writing
<1>3. CASE PostConflicts(r) \/ PostFails(r)
  BY <1>3 DEF TypeOK, PostConflicts, PostFails, Disturb, WrittenSoFar
<1>4. CASE RequireStaged(r)
  <2>1. CASE job[r].action = "apply"
    BY <1>4, <2>1 DEF TypeOK, RequireStaged, Invalidate
  <2>2. CASE job[r].action # "apply"
    <3>1. alerts' = alerts /\ loading' = loading /\ raced' = raced /\ disturbed' = disturbed
      BY <1>4, <2>2 DEF RequireStaged, Invalidate, Disturb
    <3>. QED
      BY <1>0, <2>2, <3>1, Zenon DEF LagsForAReason, Writing
  <2>. QED
    BY <2>1, <2>2
<1>5. CASE LedgerFails(r)
  BY <1>5 DEF LedgerFails
<1>. QED
  BY <1>1, <1>2, <1>3, <1>4, <1>5 DEF Step

\* In the one-process deployment the operator's alerts are out of date only while an apply
\* runs, after one was disturbed, or after a load was in flight when the cache was dropped.
THEOREM AlertsCurrent == Spec => []AlertsFollowWrites
<1>. DEFINE IInv == TypeOK /\ Positions /\ WrittenSoFar /\ LagsForAReason
<1>1. Init => IInv
  <2>1. Init => WrittenSoFar /\ LagsForAReason
    BY ProductsAssumption DEF Init, WrittenSoFar, LagsForAReason, Items
  <2>. QED
    BY <2>1, InitType
<1>2. IInv /\ [Next]_vars => IInv'
  <2>. SUFFICES ASSUME IInv, [Next]_vars PROVE WrittenSoFar' /\ LagsForAReason'
    BY TypesStep
  <2>1. CASE \E r \in Requests : Step(r)
    BY <2>1, StepWritten, StepLags
  <2>2. CASE OtherStep
    <3>1. UNCHANGED <<store, pc, job, at, writes, disturbed, raced>> /\ listed' \subseteq listed
      BY <2>2 DEF OtherStep, StartLoad, FinishLoad, Expire, Delist, requestVars, cacheVars
    <3>2. alerts' = "stale" \/ loading' = "stale" => alerts = "stale" \/ loading = "stale"
      BY <2>2 DEF OtherStep, StartLoad, FinishLoad, Expire, Delist, cacheVars
    <3>3. WrittenSoFar'
      BY <3>1 DEF WrittenSoFar
    <3>4. LagsForAReason'
      BY <3>1, <3>2 DEF LagsForAReason, Writing
    <3>. QED
      BY <3>3, <3>4
  <2>3. CASE UNCHANGED vars
    BY <2>3 DEF vars, requestVars, cacheVars, WrittenSoFar, LagsForAReason, Writing
  <2>. QED
    BY <2>1, <2>2, <2>3 DEF Next, OtherStep
<1>3. IInv => AlertsFollowWrites
  BY DEF LagsForAReason, AlertsFollowWrites, Writing
<1>. QED
  BY <1>1, <1>2, <1>3, PTL DEF Spec

-----------------------------------------------------------------------------
\* The clicks that may have written product i for change c: their apply is past it.
Spent(c, i) ==
    {r \in Clicks : /\ job[r] = [action |-> "apply", change |-> c]
                    /\ \/ at[r].item > i
                       \/ /\ at[r].item = i
                          /\ pc[r] \notin {"idle", "gate", "checking", "reading", "posting"}}

\* Every write has a click of its own that made it.
WithinBudget == \A c \in Changes, i \in Items : writes[c][i] <= Cardinality(Spent(c, i))

LEMMA SpentIsFinite ==
    ASSUME NEW c, NEW i
    PROVE  IsFiniteSet(Spent(c, i)) /\ Cardinality(Spent(c, i)) \in Nat
<1>1. Spent(c, i) \in SUBSET Clicks
  BY DEF Spent
<1>2. IsFiniteSet(Spent(c, i))
  BY <1>1, ClicksAssumption, FS_Subset
<1>. QED
  BY <1>2, FS_CardinalityType

\* A request keeps its product, or moves to the next from the update of this one; and it
\* never comes back to the write from what follows it.
LEMMA Forward ==
    ASSUME TypeOK, Positions, NEW r \in Requests, Step(r)
    PROVE  /\ Begin(r) \/ job' = job
           /\ at'[r].item \in {at[r].item, at[r].item + 1}
           /\ pc[r] \notin {"idle", "gate", "checking", "reading", "posting"} =>
                /\ at'[r].item = at[r].item
                /\ pc'[r] \notin {"idle", "gate", "checking", "reading", "posting"}
<1>. USE DEF TypeOK, Fail
<1>1. CASE Begin(r) \/ Stage(r) \/ Overview(r) \/ Gate(r) \/ CheckStaged(r)
  BY <1>1 DEF Begin, Stage, Overview, Gate, CheckStaged
<1>2. CASE ReadProduct(r) \/ SkipProduct(r) \/ PostUpdate(r) \/ PostVanishes(r)
  BY <1>2 DEF ReadProduct, SkipProduct, PostUpdate, PostVanishes
<1>3. CASE PostConflicts(r) \/ PostFails(r)
  BY <1>3 DEF PostConflicts, PostFails
<1>4. CASE RequireStaged(r) \/ MarkChange(r) \/ LedgerFails(r) \/ Finish(r) \/ Crash(r)
  BY <1>4 DEF RequireStaged, MarkChange, LedgerFails, Finish, Crash
<1>. QED
  BY <1>1, <1>2, <1>3, <1>4 DEF Step

\* A click that is past a product stays past it.
LEMMA SpentGrows ==
    ASSUME TypeOK, Positions, NEW r \in Requests, Step(r), NEW c \in Changes, NEW i \in Items
    PROVE  Spent(c, i) \subseteq Spent(c, i)'
<1>0. i \in Nat /\ i >= 1 /\ \A q \in Requests : at[q].item \in Nat
  BY ProductsAssumption DEF Items, TypeOK
<1>1. SUFFICES ASSUME NEW q \in Spent(c, i) PROVE q \in Spent(c, i)'
  OBVIOUS
<1>2. q \in Clicks /\ q \in Requests
  BY <1>1 DEF Spent, Requests
<1>3. CASE q # r
  BY <1>1, <1>2, <1>3, OthersStay DEF Spent
<1>4. CASE q = r
  <2>1. ~Begin(r)
    BY <1>0, <1>1, <1>4 DEF Spent, Begin, Positions
  <2>. QED
    BY <1>0, <1>1, <1>2, <1>4, <2>1, Forward DEF Spent
<1>. QED
  BY <1>3, <1>4

LEMMA StepBudget ==
    ASSUME TypeOK, Positions, WrittenSoFar, ModelNeverApplies, WithinBudget,
           NEW r \in Requests, Step(r)
    PROVE  WithinBudget'
<1>. SUFFICES ASSUME NEW c \in Changes, NEW i \in Items
              PROVE  writes'[c][i] <= Cardinality(Spent(c, i)')
  BY DEF WithinBudget
<1>0. /\ writes[c][i] \in Nat /\ writes[c][i] <= Cardinality(Spent(c, i))
      /\ Spent(c, i) \subseteq Spent(c, i)'
      /\ Cardinality(Spent(c, i)) \in Nat /\ IsFiniteSet(Spent(c, i))
  BY SpentGrows, SpentIsFinite DEF WithinBudget, TypeOK
<1>1. IsFiniteSet(Spent(c, i)') /\ Cardinality(Spent(c, i)') \in Nat
  <2>1. Spent(c, i)' \in SUBSET Clicks
    BY DEF Spent
  <2>2. IsFiniteSet(Spent(c, i)')
    BY <2>1, ClicksAssumption, FS_Subset
  <2>. QED
    BY <2>2, FS_CardinalityType
<1>2. Cardinality(Spent(c, i)) <= Cardinality(Spent(c, i)')
  BY <1>0, <1>1, FS_Subset
<1>3. CASE writes'[c][i] = writes[c][i]
  BY <1>0, <1>1, <1>2, <1>3
<1>4. CASE writes'[c][i] # writes[c][i]
  <2>1. Effect(r) /\ (PostUpdate(r) \/ PostFails(r)) /\ pc[r] = "posting"
    BY <1>4 DEF Step, Begin, Stage, Overview, Gate, CheckStaged, ReadProduct,
       SkipProduct, PostUpdate, PostVanishes,
       PostConflicts, PostFails, RequireStaged, MarkChange, LedgerFails, Finish, Crash
  <2>2. writes' = [writes EXCEPT ![job[r].change][at[r].item] = @ + 1]
    BY <2>1 DEF Effect
  <2>3. job[r].change = c /\ at[r].item = i /\ writes'[c][i] = writes[c][i] + 1
    BY <1>4, <2>2 DEF TypeOK
  <2>4. job[r] = [action |-> "apply", change |-> c] /\ r \in Clicks
    <3>1. job[r].action = "apply" /\ job[r] \in Job
      BY <2>1 DEF WrittenSoFar, TypeOK
    <3>2. r \notin Turns
      BY <2>1, <3>1 DEF ModelNeverApplies
    <3>. QED
      BY <2>3, <3>1, <3>2 DEF Job, Requests
  <2>5. r \notin Spent(c, i)
    BY <2>1, <2>3, ProductsAssumption DEF Spent, Items
  <2>6. r \in Spent(c, i)'
    <3>1. job' = job
      BY <2>1 DEF PostUpdate, PostFails
    <3>2. CASE PostUpdate(r)
      <4>1. at'[r].item = i + 1
        BY <2>3, <3>2 DEF PostUpdate, TypeOK
      <4>2. i + 1 > i
        BY ProductsAssumption DEF Items
      <4>. QED
        BY <2>4, <3>1, <4>1, <4>2 DEF Spent
    <3>3. CASE PostFails(r)
      <4>1. at' = at /\ pc'[r] \in {"failed", "finishing"}
        BY <3>3 DEF PostFails, Fail, TypeOK
      <4>. QED
        BY <2>3, <2>4, <3>1, <4>1 DEF Spent
    <3>. QED
      BY <2>1, <3>2, <3>3
  <2>7. /\ IsFiniteSet(Spent(c, i) \cup {r})
        /\ Cardinality(Spent(c, i) \cup {r}) = Cardinality(Spent(c, i)) + 1
    BY <1>0, <2>5, FS_AddElement
  <2>8. Spent(c, i) \cup {r} \in SUBSET (Spent(c, i)')
    BY <1>0, <2>6
  <2>9. Cardinality(Spent(c, i) \cup {r}) <= Cardinality(Spent(c, i)')
    BY <1>1, <2>8, FS_Subset
  <2>. QED
    BY <1>0, <1>1, <2>3, <2>7, <2>9
<1>. QED
  BY <1>3, <1>4

\* The platform is written at most once for each press of Approve on a change, whatever
\* fails, dies or is tried again.
THEOREM WrittenAsApproved == Spec => []NeverMoreThanApproved
<1>. DEFINE IInv == /\ TypeOK /\ Positions /\ ApprovalsHeld /\ ModelNeverApplies
                    /\ WrittenSoFar /\ WithinBudget
<1>1. Init => IInv
  <2>1. Init => ApprovalsHeld /\ ModelNeverApplies
    BY DEF Init, ApprovalsHeld, ModelNeverApplies, Requests
  <2>2. Init => WrittenSoFar
    BY ProductsAssumption DEF Init, WrittenSoFar, Items
  <2>3. Init => WithinBudget
    BY SpentIsFinite DEF Init, WithinBudget
  <2>. QED
    BY <2>1, <2>2, <2>3, InitType
<1>2. IInv /\ [Next]_vars => IInv'
  <2>. SUFFICES ASSUME IInv, [Next]_vars
                PROVE  ApprovalsHeld' /\ ModelNeverApplies' /\ WrittenSoFar' /\ WithinBudget'
    BY TypesStep
  <2>1. CASE \E r \in Requests : Step(r)
    BY <2>1, StepApprovals, StepModel, StepWritten, StepBudget
  <2>2. CASE OtherStep \/ UNCHANGED vars
    <3>1. UNCHANGED <<pc, job, rec, at, session, writes>> /\ listed' \subseteq listed
      BY <2>2, RequestsStay DEF vars, requestVars
    <3>2. ApprovalsHeld' /\ ModelNeverApplies' /\ WrittenSoFar'
      BY <3>1 DEF ApprovalsHeld, ModelNeverApplies, WrittenSoFar
    <3>3. WithinBudget'
      BY <3>1 DEF WithinBudget, Spent
    <3>. QED
      BY <3>2, <3>3
  <2>. QED
    BY <2>1, <2>2 DEF Next, OtherStep
<1>3. IInv => NeverMoreThanApproved
  <2>. SUFFICES ASSUME WithinBudget, TypeOK, NEW c \in Changes, NEW i \in Items
                PROVE  writes[c][i] <=
                         Cardinality({r \in Clicks : job[r] = [action |-> "apply", change |-> c]})
    BY DEF NeverMoreThanApproved
  <2>. DEFINE Approved == {r \in Clicks : job[r] = [action |-> "apply", change |-> c]}
  <2>1. IsFiniteSet(Approved) /\ Cardinality(Approved) \in Nat
    <3>1. IsFiniteSet(Approved)
      BY ClicksAssumption, FS_Subset
    <3>. QED
      BY <3>1, FS_CardinalityType
  <2>2. Spent(c, i) \in SUBSET Approved
    BY DEF Spent
  <2>3. Cardinality(Spent(c, i)) <= Cardinality(Approved)
    BY <2>1, <2>2, FS_Subset
  <2>4. writes[c][i] \in Nat /\ writes[c][i] <= Cardinality(Spent(c, i))
    BY DEF WithinBudget, TypeOK
  <2>. QED
    BY <2>1, <2>3, <2>4, SpentIsFinite
<1>. QED
  BY <1>1, <1>2, <1>3, PTL DEF Spec

-----------------------------------------------------------------------------
\* Only an apply or a dismissal comes to the ledger.
ActsOnly == \A r \in Requests :
    pc[r] \in {"checking", "reading", "posting", "requiring", "marking"} =>
        job[r].action \in {"apply", "discard"}

\* An apply that the ledger let through, and that has yet to mark its change.
UnderWay(r, c) ==
    /\ job[r] = [action |-> "apply", change |-> c]
    /\ pc[r] \in {"reading", "posting", "requiring", "marking"}

Sole(c) == \A q, r \in Requests : Acting(q, c) /\ Acting(r, c) => q = r

\* The apply under way has written what it passed, once, and nothing beyond, nor anything it
\* asks nothing of.
UpToHere(c) == \A r \in Requests : UnderWay(r, c) =>
    /\ ledger[c] = "staged"
    /\ \A i \in Items : writes[c][i] <= 1 /\ (i >= at[r].item \/ i \in Void => writes[c][i] = 0)

\* A dismissal about to be marked is of a staged change.
Dismissing(c) == \A r \in Requests :
    job[r] = [action |-> "discard", change |-> c] /\ pc[r] = "marking" => ledger[c] = "staged"

\* With no apply under way the status tells the truth.
Settled(c) ==
    IF ledger[c] = "applied" THEN \A i \in listed : writes[c][i] = IF i \in Void THEN 0 ELSE 1
                             ELSE \A i \in Items : writes[c][i] = 0

Exact(c) ==
    /\ Sole(c)
    /\ UpToHere(c)
    /\ Dismissing(c)
    /\ (\A r \in Requests : ~UnderWay(r, c)) => Settled(c)

ExactInv == \A c \in Changes \ (disturbed \cup overlapped) : Exact(c)

LEMMA StepActs ==
    ASSUME TypeOK, ActsOnly, NEW r \in Requests, Step(r)
    PROVE  ActsOnly'
<1>1. SUFFICES ASSUME pc'[r] \in {"checking", "reading", "posting", "requiring", "marking"}
               PROVE  job'[r].action \in {"apply", "discard"}
  BY OthersStay DEF ActsOnly
<1>. USE DEF TypeOK, Fail
<1>2. job' = job /\ (pc[r] = "gate" => job[r].action \in {"apply", "discard"})
  BY <1>1 DEF Step, Begin, Stage, Overview, Gate, CheckStaged, ReadProduct,
     SkipProduct, PostUpdate, PostVanishes,
     PostConflicts, PostFails, RequireStaged, MarkChange, LedgerFails, Finish, Crash
<1>3. pc[r] \in {"gate", "checking", "reading", "posting", "requiring", "marking"}
  BY <1>1 DEF Step, Begin, Stage, Overview, Gate, CheckStaged, ReadProduct,
     SkipProduct, PostUpdate, PostVanishes,
     PostConflicts, PostFails, RequireStaged, MarkChange, LedgerFails, Finish, Crash
<1>. QED
  BY <1>2, <1>3 DEF ActsOnly

\* What a request does touches the ledger and the products for the change it names only.
LEMMA OtherChanges ==
    ASSUME TypeOK, NEW r \in Requests, Step(r), NEW c \in Changes, job[r].change # c
    PROVE  ledger'[c] = ledger[c] /\ writes'[c] = writes[c]
<1>1. ledger'[c] = ledger[c]
  BY DEF TypeOK, Step, Begin, Stage, Overview, Gate, CheckStaged, ReadProduct,
     SkipProduct, PostUpdate, PostVanishes,
     PostConflicts, PostFails, RequireStaged, MarkChange, LedgerFails, Finish, Crash
<1>2. CASE Effect(r)
  BY <1>1, <1>2 DEF TypeOK, Effect
<1>3. Effect(r) \/ UNCHANGED writes
  BY DEF Step, Begin, Stage, Overview, Gate, CheckStaged, ReadProduct,
     SkipProduct, PostUpdate, PostVanishes,
         PostConflicts, PostFails, RequireStaged, MarkChange, LedgerFails, Finish, Crash
<1>. QED
  BY <1>1, <1>2, <1>3

\* Nothing is ever taken back from the histories.
LEMMA HistoriesGrow ==
    ASSUME NEW r \in Requests, Step(r)
    PROVE  disturbed \subseteq disturbed' /\ overlapped \subseteq overlapped'
<1>1. disturbed \subseteq disturbed'
  BY DEF Disturb, Step, Begin, Stage, Overview, Gate, CheckStaged, ReadProduct,
     SkipProduct, PostUpdate, PostVanishes,
     PostConflicts, PostFails, RequireStaged, MarkChange, LedgerFails, Finish, Crash
<1>2. overlapped \subseteq overlapped'
  BY DEF Step, Begin, Stage, Overview, Gate, CheckStaged, ReadProduct,
     SkipProduct, PostUpdate, PostVanishes,
     PostConflicts, PostFails, RequireStaged, MarkChange, LedgerFails, Finish, Crash
<1>. QED
  BY <1>1, <1>2

\* A request that comes to act on a change nobody acts on is its only one.
LEMMA StepSole ==
    ASSUME TypeOK, NEW r \in Requests, Step(r), NEW c \in Changes, Sole(c), c \notin overlapped'
    PROVE  Sole(c)'
<1>. USE DEF InFlight
<1>1. \A q \in Requests \ {r} : Acting(q, c)' = Acting(q, c)
  BY OthersStay DEF Acting
<1>2. SUFFICES ASSUME Acting(r, c)', ~Acting(r, c) PROVE \A q \in Requests : ~Acting(q, c)
  BY <1>1 DEF Sole
<1>3. CASE Begin(r)
  BY <1>2, <1>3 DEF TypeOK, Begin, Acting
<1>4. CASE ~Begin(r)
  <2>1. job' = job /\ pc[r] \in InFlight
    BY <1>4 DEF Step, Stage, Overview, Gate, CheckStaged, ReadProduct,
       SkipProduct, PostUpdate, PostVanishes,
       PostConflicts, PostFails, RequireStaged, MarkChange, LedgerFails, Finish, Crash
  <2>. QED
    BY <1>2, <2>1 DEF Acting
<1>. QED
  BY <1>3, <1>4

LEMMA StepExact ==
    ASSUME TypeOK, Positions, ActsOnly, WrittenSoFar, NEW r \in Requests, Step(r),
           NEW c \in Changes, Exact(c), c \notin disturbed', c \notin overlapped'
    PROVE  Exact(c)'
<1>. DEFINE Mine == job[r] = [action |-> "apply", change |-> c]
            Rest == \A q \in Requests \ {r} : ~UnderWay(q, c)
<1>0. /\ Products \in Nat \ {0} /\ Items = 1 .. Products /\ listed \subseteq Items
      /\ job[r] \in Job /\ at[r].item \in Nat
      /\ writes[c] \in [Items -> Nat] /\ listed' = listed
  BY ProductsAssumption, OthersStay DEF TypeOK, Items
<1>1. Sole(c)'
  BY StepSole DEF Exact
\* The others stand where they stood; what they rely on is what has to hold.
<1>2. \A q \in Requests \ {r} : /\ UnderWay(q, c)' = UnderWay(q, c)
                                /\ at'[q] = at[q] /\ pc'[q] = pc[q] /\ job'[q] = job[q]
  BY OthersStay DEF UnderWay
<1>3. CASE Begin(r)
  <2>1. /\ ledger' = ledger /\ writes' = writes /\ at' = at
        /\ pc[r] = "idle" /\ pc'[r] = "gate"
    BY <1>3 DEF Begin, TypeOK
  <2>2. ~UnderWay(r, c) /\ ~UnderWay(r, c)'
    BY <2>1 DEF UnderWay
  <2>. QED
    BY <1>0, <1>1, <1>2, <2>1, <2>2 DEF Exact, UpToHere, Dismissing, Settled
<1>4. CASE job[r].change # c /\ ~Begin(r)
  <2>1. job' = job /\ ledger'[c] = ledger[c] /\ writes'[c] = writes[c]
    BY <1>4, OtherChanges, Forward
  <2>2. ~UnderWay(r, c) /\ ~UnderWay(r, c)'
    BY <1>4, <2>1 DEF UnderWay
  <2>3. job'[r] # [action |-> "discard", change |-> c]
    BY <1>4, <2>1
  <2>. QED
    BY <1>0, <1>1, <1>2, <2>1, <2>2, <2>3 DEF Exact, UpToHere, Dismissing, Settled
\* From here on the request is at work on this change.
<1>5. CASE job[r].change = c /\ ~Begin(r)
  <2>. USE <1>5
  <2>0. job' = job /\ pc[r] \in InFlight
    BY Forward DEF InFlight, Step, Stage, Overview, Gate, CheckStaged, ReadProduct,
       SkipProduct, PostUpdate, PostVanishes,
       PostConflicts, PostFails, RequireStaged, MarkChange, LedgerFails, Finish, Crash
  \* One that applies or dismisses is the only one.
  <2>1. ASSUME job[r].action \in {"apply", "discard"}
        PROVE  \A q \in Requests \ {r} : ~Acting(q, c)
    BY <2>0, <2>1 DEF Exact, Sole, Acting
  <2>2. \A q \in Requests : UnderWay(q, c) => Acting(q, c)
    BY DEF UnderWay, Acting, InFlight
  <2>3. \A q \in Requests : job[q] = [action |-> "discard", change |-> c] /\ pc[q] = "marking"
                               => Acting(q, c)
    BY DEF Acting, InFlight
  <2>. DEFINE Alone == \A q \in Requests \ {r} :
                          /\ ~UnderWay(q, c)'
                          /\ ~(job'[q] = [action |-> "discard", change |-> c] /\ pc'[q] = "marking")
  <2>4. job[r].action \in {"apply", "discard"} => Alone
    BY <1>2, <2>1, <2>2, <2>3
  <2>5. job[r].action = "apply" => Mine
    BY <1>0 DEF Job
  <2>6. CASE Stage(r)
    <3>1. /\ writes' = writes /\ at' = at /\ job[r].action = "stage"
          /\ \/ ledger' = ledger
             \/ ledger[c] = "absent" /\ ledger'[c] = "staged"
      BY <2>6 DEF Stage, TypeOK
    <3>2. ~UnderWay(r, c) /\ ~UnderWay(r, c)' /\ job'[r] # [action |-> "discard", change |-> c]
      BY <2>0, <3>1 DEF UnderWay
    <3>. QED
      BY <1>0, <1>1, <1>2, <3>1, <3>2 DEF Exact, UpToHere, Dismissing, Settled
  <2>7. CASE Overview(r) \/ Gate(r) \/ Finish(r)
    <3>1. /\ ledger' = ledger /\ writes' = writes /\ at' = at
          /\ pc[r] \in {"gate", "finishing"}
          /\ pc'[r] \in {"finishing", "checking", "requiring", "done"}
          /\ pc'[r] = "requiring" => job[r].action = "discard"
      BY <2>7 DEF Overview, Gate, Finish, TypeOK
    <3>2. ~UnderWay(r, c) /\ ~UnderWay(r, c)'
      BY <2>0, <3>1 DEF UnderWay
    <3>. QED
      BY <1>0, <1>1, <1>2, <3>1, <3>2 DEF Exact, UpToHere, Dismissing, Settled
  <2>8. CASE CheckStaged(r)
    <3>1. /\ ledger' = ledger /\ writes' = writes /\ at' = at /\ pc[r] = "checking"
          /\ \/ ledger[c] = "staged" /\ pc'[r] = "reading"
             \/ pc'[r] \in {"failed", "finishing"}
      BY <2>8 DEF CheckStaged, Fail, TypeOK
    <3>2. Mine /\ Alone /\ at[r].item = 1
      BY <2>4, <2>5, <3>1 DEF WrittenSoFar, Positions
    <3>3. Settled(c)
      BY <1>2, <3>1, <3>2 DEF Exact, UnderWay
    <3>. QED
      BY <1>0, <1>1, <2>0, <3>1, <3>2, <3>3 DEF Exact, UpToHere, Dismissing, Settled, UnderWay
  <2>9. CASE ReadProduct(r)
    <3>1. /\ ledger' = ledger /\ writes' = writes /\ at'[r].item = at[r].item
          /\ pc[r] = "reading" /\ pc'[r] = "posting"
      BY <2>9 DEF ReadProduct, TypeOK
    <3>2. Mine /\ Alone
      BY <2>4, <2>5, <3>1 DEF WrittenSoFar
    <3>. QED
      BY <1>1, <2>0, <3>1, <3>2 DEF Exact, UpToHere, Dismissing, UnderWay
  <2>10. CASE SkipProduct(r) \/ PostUpdate(r) \/ PostVanishes(r)
    <3>1. /\ ledger' = ledger /\ at'[r].item = at[r].item + 1
          /\ pc[r] \in {"reading", "posting"} /\ pc'[r] \in {"requiring", "reading"}
      BY <2>10 DEF SkipProduct, PostUpdate, PostVanishes, TypeOK
    <3>2. Mine /\ Alone
      BY <2>4, <2>5, <3>1 DEF WrittenSoFar
    <3>3. at[r].item \in Items /\ UnderWay(r, c) /\ UnderWay(r, c)'
      BY <2>0, <3>1, <3>2 DEF Positions, UnderWay
    <3>4. \/ writes' = writes
          \/ at[r].item \notin Void /\ writes' = [writes EXCEPT ![c][at[r].item] = @ + 1]
      BY <2>10 DEF Positions, SkipProduct, PostUpdate, PostVanishes, Effect
    <3>5. \A i \in Items : writes'[c][i] <= 1 /\ (i >= at[r].item + 1 \/ i \in Void => writes'[c][i] = 0)
      <4>1. SUFFICES ASSUME NEW i \in Items
                     PROVE  writes'[c][i] <= 1 /\ (i >= at[r].item + 1 \/ i \in Void => writes'[c][i] = 0)
        OBVIOUS
      <4>2. writes[c][i] <= 1 /\ (i >= at[r].item \/ i \in Void => writes[c][i] = 0)
        BY <3>3 DEF Exact, UpToHere
      <4>3. writes'[c][i] = writes[c][i] \/ (i = at[r].item /\ i \notin Void /\ writes'[c][i] = writes[c][i] + 1)
        BY <3>3, <3>4 DEF TypeOK
      <4>. QED
        BY <1>0, <4>2, <4>3
    <3>. QED
      BY <1>1, <2>0, <3>1, <3>2, <3>3, <3>5 DEF Exact, UpToHere, Dismissing
  \* An apply that fails is disturbed.
  <2>11. CASE PostConflicts(r) \/ PostFails(r)
    <3>1. pc[r] \in {"reading", "posting"} /\ Disturb(r)
      BY <2>11 DEF PostConflicts, PostFails
    <3>2. job[r].action = "apply"
      BY <3>1 DEF WrittenSoFar
    <3>. QED
      BY <3>1, <3>2 DEF Disturb
  <2>12. CASE RequireStaged(r) \/ MarkChange(r) \/ LedgerFails(r) \/ Crash(r)
    <3>1. writes' = writes /\ at' = at
      BY <2>12 DEF RequireStaged, MarkChange, LedgerFails, Crash
    <3>2. CASE job[r].action = "apply"
      \* It stays under way, marks its change in full, or has not begun.
      <4>1. \/ /\ ledger' = ledger /\ pc[r] \notin {"reading", "posting", "requiring", "marking"}
               /\ pc'[r] \notin {"reading", "posting", "requiring", "marking"}
            \/ /\ ledger' = ledger /\ pc[r] = "requiring" /\ pc'[r] = "marking"
            \/ /\ ledger' = [ledger EXCEPT ![c] = "applied"] /\ pc[r] \in {"requiring", "marking"}
               /\ pc'[r] = "finishing"
        <5>1. CASE RequireStaged(r) \/ MarkChange(r)
          BY <3>2, <5>1 DEF RequireStaged, MarkChange, Outcome, Disturb, TypeOK
        <5>2. CASE LedgerFails(r) \/ Crash(r)
          BY <3>2, <5>2 DEF LedgerFails, Crash, Disturb, Fail, TypeOK
        <5>. QED
          BY <2>12, <5>1, <5>2
      <4>2. Mine /\ Alone
        BY <2>4, <2>5, <3>2
      <4>3. CASE pc'[r] = "marking"
        <5>1. UnderWay(r, c) /\ UnderWay(r, c)' /\ ledger' = ledger
          BY <2>0, <4>1, <4>2, <4>3 DEF UnderWay
        <5>. QED
          BY <1>1, <2>0, <3>1, <4>2, <5>1 DEF Exact, UpToHere, Dismissing
      <4>4. CASE ledger' = ledger /\ pc'[r] # "marking"
        <5>1. ~UnderWay(r, c)' /\ (~UnderWay(r, c) \/ ledger[c] = "applied")
          BY <4>1, <4>4 DEF UnderWay, TypeOK
        <5>2. ~UnderWay(r, c)
          BY <5>1 DEF Exact, UpToHere
        <5>3. Settled(c)
          BY <1>2, <4>2, <5>2 DEF Exact
        <5>. QED
          BY <1>0, <1>1, <2>0, <3>1, <4>2, <4>4, <5>1, <5>3 DEF Exact, UpToHere, Dismissing, Settled
      <4>5. CASE ledger' = [ledger EXCEPT ![c] = "applied"] /\ pc[r] \in {"requiring", "marking"}
                 /\ pc'[r] = "finishing"
        <5>1. UnderWay(r, c) /\ ~UnderWay(r, c)' /\ ledger'[c] = "applied"
          BY <4>2, <4>5 DEF UnderWay, TypeOK
        <5>2. \A i \in listed \ Void : i < at[r].item /\ writes[c][i] >= 1
          BY <1>0, <3>2, <4>5 DEF WrittenSoFar
        <5>3. \A i \in listed : /\ writes[c][i] \in Nat /\ writes[c][i] <= 1
                                /\ i \in Void => writes[c][i] = 0
          BY <1>0, <5>1 DEF Exact, UpToHere
        <5>4. \A i \in listed : writes[c][i] = IF i \in Void THEN 0 ELSE 1
          BY <5>2, <5>3
        <5>. QED
          BY <1>0, <1>1, <3>1, <4>2, <4>5, <5>1, <5>4 DEF Exact, UpToHere, Dismissing, Settled
      <4>. QED
        BY <4>1, <4>3, <4>4, <4>5
    <3>3. CASE job[r].action = "discard"
      <4>1. Alone /\ ~UnderWay(r, c) /\ ~UnderWay(r, c)'
        BY <2>0, <2>4, <3>3 DEF UnderWay
      <4>2. \/ ledger' = ledger /\ (pc'[r] = "marking" => ledger[c] = "staged")
            \/ ledger[c] = "staged" /\ ledger'[c] = "discarded" /\ pc'[r] # "marking"
        <5>1. pc[r] = "marking" => ledger[c] = "staged"
          BY <1>0, <3>3 DEF Exact, Dismissing, Job
        <5>2. CASE RequireStaged(r) \/ MarkChange(r)
          BY <3>3, <5>1, <5>2 DEF RequireStaged, MarkChange, Outcome, Fail, TypeOK
        <5>3. CASE LedgerFails(r) \/ Crash(r)
          BY <3>3, <5>1, <5>3 DEF LedgerFails, Crash, Outcome, Fail, TypeOK
        <5>. QED
          BY <2>12, <5>2, <5>3
      <4>3. Settled(c)
        BY <1>2, <4>1 DEF Exact
      <4>4. Settled(c)'
        BY <1>0, <3>1, <4>2, <4>3 DEF Settled
      <4>5. UpToHere(c)'
        BY <4>1 DEF UpToHere
      <4>6. Dismissing(c)'
        BY <4>1, <4>2 DEF Dismissing
      <4>. QED
        BY <1>1, <4>4, <4>5, <4>6 DEF Exact
    <3>4. CASE job[r].action \notin {"apply", "discard"}
      <4>1. ~UnderWay(r, c) /\ ~UnderWay(r, c)' /\ job'[r] # [action |-> "discard", change |-> c]
        BY <2>0, <3>4 DEF UnderWay
      <4>2. Crash(r)
        BY <2>12, <3>4 DEF ActsOnly, RequireStaged, MarkChange, LedgerFails
      <4>3. ledger' = ledger
        BY <4>2 DEF Crash
      <4>. QED
        BY <1>0, <1>1, <1>2, <3>1, <4>1, <4>3 DEF Exact, UpToHere, Dismissing, Settled
    <3>. QED
      BY <3>2, <3>3, <3>4
  <2>. QED
    BY <2>6, <2>7, <2>8, <2>9, <2>10, <2>11, <2>12 DEF Step
<1>. QED
  BY <1>3, <1>4, <1>5

\* An undisturbed change's status tells what the platform holds of it, exactly: the answer
\* the operator reads of apply_change or discard_change is the state of the store.
THEOREM UndisturbedExact == Spec => []UndisturbedIsExact
<1>. DEFINE IInv == TypeOK /\ Positions /\ ActsOnly /\ WrittenSoFar /\ ExactInv
<1>1. Init => IInv
  <2>1. Init => WrittenSoFar /\ ActsOnly
    BY ProductsAssumption DEF Init, WrittenSoFar, ActsOnly, Items
  <2>2. Init => ExactInv
    <3>. SUFFICES ASSUME Init, NEW c \in Changes PROVE Exact(c)
      BY DEF ExactInv
    <3>1. \A r \in Requests : pc[r] = "idle" /\ ~Acting(r, c) /\ ~UnderWay(r, c)
      BY DEF Init, Acting, UnderWay, InFlight
    <3>2. ledger[c] # "applied" /\ \A i \in Items : writes[c][i] = 0
      BY DEF Init
    <3>. QED
      BY <3>1, <3>2 DEF Exact, Sole, UpToHere, Dismissing, Settled
  <2>. QED
    BY <2>1, <2>2, InitType
<1>2. IInv /\ [Next]_vars => IInv'
  <2>. SUFFICES ASSUME IInv, [Next]_vars PROVE ActsOnly' /\ WrittenSoFar' /\ ExactInv'
    BY TypesStep
  <2>1. ASSUME NEW r \in Requests, Step(r) PROVE ActsOnly' /\ WrittenSoFar' /\ ExactInv'
    <3>1. ExactInv'
      BY <2>1, StepExact, HistoriesGrow DEF ExactInv
    <3>. QED
      BY <2>1, <3>1, StepActs, StepWritten
  <2>2. CASE OtherStep \/ UNCHANGED vars
    <3>1. /\ UNCHANGED <<pc, job, at, writes, ledger, disturbed, overlapped>>
          /\ listed' \subseteq listed
      BY <2>2 DEF OtherStep, StartLoad, FinishLoad, Expire, Delist, requestVars, cacheVars, vars
    <3>2. ActsOnly' /\ WrittenSoFar'
      BY <3>1 DEF ActsOnly, WrittenSoFar
    <3>3. ExactInv'
      BY <3>1 DEF ExactInv, Exact, Sole, UpToHere, Dismissing, Settled, Acting, UnderWay
    <3>. QED
      BY <3>2, <3>3
  <2>. QED
    BY <2>1, <2>2 DEF Next, OtherStep
<1>3. IInv => UndisturbedIsExact
  <2>. SUFFICES ASSUME IInv, NEW c \in Changes \ (disturbed \cup overlapped)
       PROVE /\ ledger[c] = "applied" => \A i \in listed : writes[c][i] = IF i \in Void THEN 0 ELSE 1
             /\ (ledger[c] # "applied" /\ ~\E r \in Requests : Acting(r, c)) =>
                   \A i \in Items : writes[c][i] = 0
    BY DEF UndisturbedIsExact
  <2>1. Exact(c)
    BY DEF ExactInv
  <2>2. CASE \E r \in Requests : UnderWay(r, c)
    BY <2>1, <2>2 DEF Exact, UpToHere, UnderWay, Acting, InFlight
  <2>3. CASE \A r \in Requests : ~UnderWay(r, c)
    BY <2>1, <2>3 DEF Exact, Settled
  <2>. QED
    BY <2>2, <2>3
<1>. QED
  BY <1>1, <1>2, <1>3, PTL DEF Spec
=============================================================================
