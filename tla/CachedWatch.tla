---------------------------- MODULE CachedWatch ----------------------------
(***************************************************************************)
(* arion-lib/src/clusters/cached_watch.rs: a value behind an RwLock with   *)
(* an atomic version, and one cached copy of it per worker thread.         *)
(*                                                                         *)
(* A writer holds the lock for a whole `update`: it changes the value,     *)
(* bumps the version, and releases the lock.  `phase` says how far it got, *)
(* because readers see the version (an atomic) but not the value while the *)
(* lock is held.  A reader never waits: when the version differs from the  *)
(* one of its copy it tries the read lock, and keeps its old copy when     *)
(* the lock is taken.  Atomics are taken to be sequentially consistent.    *)
(***************************************************************************)
EXTENDS Naturals

CONSTANTS
    Threads,      \* the worker threads, each with its thread-local copy
    Values,       \* the values the watch may hold
    InitValue,    \* the value it is created with
    MaxVersion    \* bound: number of updates explored

ASSUME WatchAssumption == InitValue \in Values /\ MaxVersion \in Nat

VARIABLES
    value,        \* CachedWatch.value, what the lock protects
    version,      \* CachedWatch.version
    phase,        \* "free": lock not held; "written": held, value changed;
                  \* "bumped": held, version increased too
    local,        \* local[t]: CachedWatcher.local of thread t
    seen          \* seen[t]: CachedWatcher.version of thread t

watchVars == <<value, version, phase, local, seen>>

Phases == {"free", "written", "bumped"}

WatchTypeOK ==
    /\ value \in Values
    /\ version \in 0..MaxVersion
    /\ phase \in Phases
    /\ local \in [Threads -> Values]
    /\ seen \in [Threads -> 0..MaxVersion]

----------------------------------------------------------------------------

\* `new`, and one `watcher()` per thread taken from it.
WatchInit ==
    /\ value = InitValue
    /\ version = 0
    /\ phase = "free"
    /\ local = [t \in Threads |-> InitValue]
    /\ seen = [t \in Threads |-> 0]

\* `update`, first half: take the write lock and run the closure.
WriteValue(new) ==
    /\ phase = "free"
    /\ version < MaxVersion
    /\ value' = new
    /\ phase' = "written"
    /\ UNCHANGED <<version, local, seen>>

\* Mutant: `update` returns without telling the watchers.
BumpForgotten ==
    /\ phase = "written"
    /\ phase' = "bumped"
    /\ UNCHANGED <<value, version, local, seen>>

\* `update`, second half: the version grows while the lock is still held.
BumpVersion ==
    /\ phase = "written"
    /\ version' = version + 1
    /\ phase' = "bumped"
    /\ UNCHANGED <<value, local, seen>>

\* Mutant: the version is bumped after the lock was released.
ReleaseWriteLockThenBump ==
    /\ phase = "bumped"
    /\ phase' = "free"
    /\ version' = version + 1
    /\ UNCHANGED <<value, local, seen>>

\* The write guard goes out of scope.
ReleaseWriteLock ==
    /\ phase = "bumped"
    /\ phase' = "free"
    /\ UNCHANGED <<value, version, local, seen>>

\* Mutant: the copy is taken without the read lock.
ReadUnlocked == TRUE

\* `try_read` succeeds only while no writer holds the lock.
TryRead == phase = "free"

\* Mutant: the copy is replaced but the watcher's version is left alone.
CachedOrLatestKeepsVersion(t) ==
    IF version # seen[t] /\ TryRead
    THEN local' = [local EXCEPT ![t] = value] /\ UNCHANGED seen
    ELSE UNCHANGED <<local, seen>>

\* Mutant: the early return taken when there is something new.
CachedOrLatestNeverReads(t) == UNCHANGED <<local, seen>>

\* `cached_or_latest`: after it, local'[t] is the copy the caller works on.
CachedOrLatest(t) ==
    IF version # seen[t] /\ TryRead
    THEN /\ local' = [local EXCEPT ![t] = value]
         /\ seen' = [seen EXCEPT ![t] = version]
    ELSE UNCHANGED <<local, seen>>

Read(t) ==
    /\ CachedOrLatest(t)
    /\ UNCHANGED <<value, version, phase>>

WatchNext ==
    \/ \E new \in Values : WriteValue(new)
    \/ BumpVersion
    \/ ReleaseWriteLock
    \/ \E t \in Threads : Read(t)

WatchSpec == WatchInit /\ [][WatchNext]_watchVars

\* An update runs to its end, and every thread keeps serving requests.
WatchFairness ==
    /\ WF_watchVars(BumpVersion)
    /\ WF_watchVars(ReleaseWriteLock)
    /\ \A t \in Threads : WF_watchVars(Read(t))

FairWatchSpec == WatchSpec /\ WatchFairness

----------------------------------------------------------------------------

(* A thread whose version equals the shared one may skip the lock: when no *)
(* writer is active its copy is the current value. `cached_or_latest`      *)
(* relies on it when it returns the copy without looking at the lock.      *)
CurrentVersionMeansCurrentValue ==
    phase = "free" => \A t \in Threads : seen[t] = version => local[t] = value

(* Two threads that report the same version hold the same value: a version *)
(* names one published value, so an update is never seen half done.        *)
OneValuePerVersion ==
    \A t, u \in Threads : seen[t] = seen[u] => local[t] = local[u]

(* What the readers of the clusters map rely on: a copy with the current   *)
(* version is the current map, and a version names one map, so no thread   *)
(* works on a torn or an outdated copy that it takes for the latest.       *)
CopiesCoherent == CurrentVersionMeansCurrentValue /\ OneValuePerVersion

(* A thread's copy never goes back to an older version, and changes only   *)
(* together with its version.                                              *)
NeverBackwards ==
    [][\A t \in Threads : /\ seen'[t] >= seen[t]
                          /\ local'[t] # local[t] => seen'[t] > seen[t]]_watchVars

(* Once the updates stop, every thread ends up with the last value, though *)
(* a reader that meets the lock keeps its stale copy for that call.        *)
EventuallyFresh ==
    \A t \in Threads :
        [](version = MaxVersion => <>(seen[t] = version /\ local[t] = value))

=============================================================================
