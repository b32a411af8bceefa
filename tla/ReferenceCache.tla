--------------------------- MODULE ReferenceCache ---------------------------
(***************************************************************************)
(* The time-to-live cache the storefront and the merchant backend hold     *)
(* their reference data in, for one key: callers that race for it, the     *)
(* per-key lock with its queue, the load under the lock, invalidation      *)
(* after a merchant write, and expiry.                                     *)
(*                                                                         *)
(* Everything runs on one event loop, so a step is what happens between    *)
(* two awaits.  A value is known by the version of the source it was read  *)
(* from; an expired entry is as good as none.                              *)
(***************************************************************************)
EXTENDS Naturals, Sequences

CONSTANTS
    Callers,       \* the tasks that read this key, again and again
    MaxWrites,     \* how often the source changes (bound)
    Nil            \* no value, or nobody

ASSUME NilAssumption == Nil \notin Callers \cup Nat
ASSUME WritesAssumption == MaxWrites \in Nat

VARIABLES
    source,        \* the version of the data on the platform
    entry,         \* the cached version, or Nil
    lock,          \* the task that holds the key's lock, or Nil
    queue,         \* the tasks waiting for it, first come first
    at,            \* where each task is in get
    got,           \* what a task's load has read
    fills,         \* history: loads that filled the cache since it was last dropped
    floor,         \* history: the source's version when the key was last invalidated
    crossed,       \* history: was the load in flight when the key was invalidated?
    tainted,       \* history: does the entry come from such a load?
    newest         \* history: the newest version any get has answered

cacheVars == <<source, entry, lock, queue, at, got, fills, floor, crossed, tainted, newest>>
histories == <<floor, crossed, tainted>>

Version == 0 .. MaxWrites
Larger(a, b) == IF a < b THEN b ELSE a

\* A get that ends with the value v.
GetAnswer(c, v) ==
    /\ at' = [at EXCEPT ![c] = "idle"]
    /\ newest' = Larger(newest, v)

-----------------------------------------------------------------------------
CacheInit ==
    /\ source = 0
    /\ entry = Nil
    /\ lock = Nil
    /\ queue = <<>>
    /\ at = [c \in Callers |-> "idle"]
    /\ got = [c \in Callers |-> 0]
    /\ fills = 0
    /\ floor = 0
    /\ crossed = FALSE
    /\ tainted = FALSE
    /\ newest = 0

\* get, the fast path: the entry is there and has not expired.
Hit(c) ==
    /\ at[c] = "idle"
    /\ entry # Nil
    /\ GetAnswer(c, entry)
    /\ UNCHANGED <<source, entry, lock, queue, got, fills, histories>>

\* Mutant: the load begins without the lock.
BeginUnlocked(c) ==
    /\ at[c] = "idle"
    /\ entry = Nil
    /\ lock' = c
    /\ crossed' = FALSE
    /\ at' = [at EXCEPT ![c] = "loading"]
    /\ UNCHANGED <<source, entry, queue, got, fills, floor, tainted, newest>>

\* get, without an entry: the lock is free and nobody waits for it, so it is taken and,
\* with no await in between, the load begins ...
Begin(c) ==
    /\ at[c] = "idle"
    /\ entry = Nil
    /\ lock = Nil /\ queue = <<>>
    /\ lock' = c
    /\ crossed' = FALSE
    /\ at' = [at EXCEPT ![c] = "loading"]
    /\ UNCHANGED <<source, entry, queue, got, fills, floor, tainted, newest>>

\* ... or the task waits its turn.
Wait(c) ==
    /\ at[c] = "idle"
    /\ entry = Nil
    /\ lock # Nil \/ queue # <<>>
    /\ queue' = Append(queue, c)
    /\ at' = [at EXCEPT ![c] = "waiting"]
    /\ UNCHANGED <<source, entry, lock, got, fills, histories, newest>>

\* The lock comes to the first task in the queue, which looks again: an entry that came
\* meanwhile is its answer, and otherwise it loads.
AcquireHit(c) ==
    /\ at[c] = "waiting"
    /\ lock = Nil /\ queue # <<>> /\ c = Head(queue)
    /\ entry # Nil
    /\ queue' = Tail(queue)
    /\ GetAnswer(c, entry)
    /\ UNCHANGED <<source, entry, lock, got, fills, histories>>

\* Mutant: the entry is not looked at again under the lock.
AcquireAndLoad(c) ==
    /\ at[c] = "waiting"
    /\ lock = Nil /\ queue # <<>> /\ c = Head(queue)
    /\ queue' = Tail(queue)
    /\ lock' = c
    /\ crossed' = FALSE
    /\ at' = [at EXCEPT ![c] = "loading"]
    /\ UNCHANGED <<source, entry, got, fills, floor, tainted, newest>>

AcquireLoad(c) ==
    /\ at[c] = "waiting"
    /\ lock = Nil /\ queue # <<>> /\ c = Head(queue)
    /\ entry = Nil
    /\ queue' = Tail(queue)
    /\ lock' = c
    /\ crossed' = FALSE
    /\ at' = [at EXCEPT ![c] = "loading"]
    /\ UNCHANGED <<source, entry, got, fills, floor, tainted, newest>>

\* The load reads the platform ...
Read(c) ==
    /\ at[c] = "loading"
    /\ got' = [got EXCEPT ![c] = source]
    /\ at' = [at EXCEPT ![c] = "read"]
    /\ UNCHANGED <<source, entry, lock, queue, fills, histories, newest>>

\* ... and what it read becomes the entry and the answer, as the lock is released.
Fill(c) ==
    /\ at[c] = "read"
    /\ entry' = got[c]
    /\ tainted' = crossed
    /\ fills' = fills + 1
    /\ lock' = Nil
    /\ GetAnswer(c, got[c])
    /\ UNCHANGED <<source, queue, got, floor, crossed>>

\* Mutant: a load that raises keeps the lock.
LoadEndsLocked(c) ==
    /\ at[c] \in {"loading", "read"}
    /\ at' = [at EXCEPT ![c] = "idle"]
    /\ UNCHANGED <<source, entry, lock, queue, got, fills, histories, newest>>

\* The load raises, or its task is cancelled: the lock is released, the cache left alone.
LoadEnds(c) ==
    /\ at[c] \in {"loading", "read"}
    /\ lock' = Nil
    /\ at' = [at EXCEPT ![c] = "idle"]
    /\ UNCHANGED <<source, entry, queue, got, fills, histories, newest>>

\* Mutant: a cancelled task never asks again.
CancelForGood(c) ==
    /\ at[c] = "waiting"
    /\ \E i \in DOMAIN queue :
          /\ queue[i] = c
          /\ queue' = SubSeq(queue, 1, i - 1) \o SubSeq(queue, i + 1, Len(queue))
    /\ at' = [at EXCEPT ![c] = "cancelled"]
    /\ UNCHANGED <<source, entry, lock, got, fills, histories, newest>>

\* A waiting task is cancelled (its client went away).
CancelWait(c) ==
    /\ at[c] = "waiting"
    /\ \E i \in DOMAIN queue :
          /\ queue[i] = c
          /\ queue' = SubSeq(queue, 1, i - 1) \o SubSeq(queue, i + 1, Len(queue))
    /\ at' = [at EXCEPT ![c] = "idle"]
    /\ UNCHANGED <<source, entry, lock, got, fills, histories, newest>>

\* The data changes on the platform, by a merchant write or from outside.
Change ==
    /\ source < MaxWrites
    /\ source' = source + 1
    /\ UNCHANGED <<entry, lock, queue, at, got, fills, histories, newest>>

\* Mutant: the entry is kept until it expires.
InvalidateNothing ==
    /\ floor' = source
    /\ crossed' = (crossed \/ lock # Nil)
    /\ UNCHANGED <<source, entry, fills, lock, queue, at, got, tainted, newest>>

\* A merchant write has been applied: the entry is dropped, a load in flight goes on.
Invalidate ==
    /\ entry' = Nil
    /\ fills' = 0
    /\ floor' = source
    /\ crossed' = (crossed \/ lock # Nil)
    /\ UNCHANGED <<source, lock, queue, at, got, tainted, newest>>

\* The entry reaches its time to live.
Expire ==
    /\ entry # Nil
    /\ entry' = Nil
    /\ fills' = 0
    /\ UNCHANGED <<source, lock, queue, at, got, histories, newest>>

GetStep(c) ==
    \/ Hit(c) \/ Begin(c) \/ Wait(c) \/ AcquireHit(c) \/ AcquireLoad(c)
    \/ Read(c) \/ Fill(c) \/ LoadEnds(c) \/ CancelWait(c)

CacheNext == (\E c \in Callers : GetStep(c)) \/ Change \/ Invalidate \/ Expire

\* The event loop resumes a task whose await is over, and every load is over some time,
\* with an answer or, by the client's timeout, without.
Fairness ==
    \A c \in Callers :
        /\ WF_cacheVars(AcquireHit(c) \/ AcquireLoad(c))
        /\ WF_cacheVars(Read(c))
        /\ WF_cacheVars(Fill(c) \/ LoadEnds(c))

CacheSpec == CacheInit /\ [][CacheNext]_cacheVars /\ Fairness

-----------------------------------------------------------------------------
\* Every variable keeps its shape.
CacheTypeOK ==
    /\ source \in Version
    /\ entry \in Version \cup {Nil}
    /\ lock \in Callers \cup {Nil}
    /\ queue \in Seq(Callers)
    /\ at \in [Callers -> {"idle", "waiting", "loading", "read"}]
    /\ got \in [Callers -> Version]
    /\ fills \in Nat
    /\ floor \in Version
    /\ crossed \in BOOLEAN
    /\ tainted \in BOOLEAN
    /\ newest \in Version

\* However many tasks race for the key, it is loaded into the cache at most once between
\* one drop of it and the next ("loading it once even when several turns race for it").
LoadedOnce == fills <= 1

\* Answers never go back in time: once any task was told a version, none is told an older
\* one, although entries expire and loads fail, are cancelled and cross invalidations.
NeverBackwards ==
    [][ \A c \in Callers :
          /\ Hit(c) \/ AcquireHit(c) => entry >= newest
          /\ Fill(c) => got[c] >= newest ]_cacheVars

\* What is cached is at least as new as the last invalidation, unless the load it comes
\* from was already in flight then.
StaleOnlyByRace == entry # Nil /\ entry < floor => tainted

\* A task that waits for the key gets its turn.
WaitEnds == \A c \in Callers : at[c] = "waiting" ~> at[c] # "waiting"
=============================================================================
