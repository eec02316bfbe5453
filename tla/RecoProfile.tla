----------------------------- MODULE RecoProfile -----------------------------
(***************************************************************************)
(* The recommendation profile of one user.  Consumers take user events     *)
(* from RabbitMQ, save them and ask for a rebuild of the user's vector      *)
(* (BookPersonalRecoForUserUC); taskiq workers rebuild it, debounced by a   *)
(* pending flag, a version counter and a lock in Redis                      *)
(* (UserPersonalBooksRecoProfile.build); feed requests read the profile     *)
(* through the cache (get).  One Redis command, PostgreSQL transaction or   *)
(* Qdrant call is one action.                                               *)
(*                                                                         *)
(* A profile, and a vector made from it, is the set of events it reflects:  *)
(* scores, decay, weights and embeddings are left out.                      *)
(***************************************************************************)
EXTENDS Naturals, FiniteSets

CONSTANTS
    Events,        \* user events, each published once
    Views,         \* those of type VIEW
    Books,
    BookOf,        \* [Events -> Books]
    Consumers,     \* messages handled at the same time (prefetch_count = 10)
    Workers,       \* taskiq workers
    Readers,       \* feed requests
    MaxRuns,       \* max_retries = 3: runs of one rebuild task
    Prompt,        \* a build's last Redis calls are over before the 30 s
                   \* delay of a task scheduled meanwhile
    MaxInFlight,   \* bound: processes at work at the same time
    MaxCrashes,    \* bound: processes killed
    MaxFailures,   \* bound: exceptions of a save or of a build
    MaxOutages,    \* bound: exceptions of Redis or RabbitMQ in a consumer
    MaxLapses,     \* bound: pending flags and locks that reach their TTL
    None           \* no event, no cached value

Proc == Consumers \cup Workers \cup Readers

ASSUME RecoAssumption ==
    /\ Views \subseteq Events
    /\ BookOf \in [Events -> Books]
    /\ IsFiniteSet(Workers)
    /\ Consumers \cap Workers = {} /\ Consumers \cap Readers = {}
    /\ Workers \cap Readers = {}
    /\ MaxRuns \in Nat \ {0}
    /\ Prompt \in BOOLEAN
    /\ {MaxInFlight, MaxCrashes, MaxFailures, MaxOutages, MaxLapses} \subseteq Nat
    /\ None \notin Events

VARIABLES
    \* RabbitMQ and PostgreSQL
    msg,           \* the message of an event
    rows,          \* user_events rows of an event
    tasks,         \* rebuild tasks in the queue, by the number of the run
    \* Redis
    dedup,         \* books with a live event_dedup key
    version, pending, lock,
    profile,       \* user_reco_profile: events reflected, or None
    vector,        \* user_reco_vector
    \* Qdrant
    point,         \* the user's point
    \* processes
    pc,
    at,            \* the event of a consumer
    got,           \* profile in hand
    old,           \* vector read from Qdrant, on its way into the cache
    start, seenEnd,\* start_version, end_version
    run,           \* number of the task's run
    \* history: gets on their way to set a profile older than an invalidation, and
    \* whether the cached profile was set by one of them
    overtaken, spoiled,
    \* bounds
    crashes, failures, outages, lapses

queues == <<msg, rows, tasks>>
redis == <<dedup, version, pending, lock, profile, vector>>
local == <<at, got, old, start, seenEnd, run>>
bounds == <<crashes, failures, outages, lapses>>
stale == <<overtaken, spoiled>>
vars == <<queues, redis, point, pc, local, bounds, stale>>

ConsumerPC == {"dedup", "save", "invalidate", "incr", "flag", "schedule"}
GetPC == {"getProfile", "readEvents", "setProfile", "getVector", "readPoint", "warm"}
\* The worker has taken the lock and not given it back.
BuildPC == GetPC \cup {"hasPending", "startVersion", "embed", "setVector", "savePoint",
                       "endVersion", "removePending", "rebuild", "reschedule",
                       "release", "giveUp"}
PC == ConsumerPC \cup BuildPC \cup {"idle", "retry"}

Reflected == (SUBSET Events) \cup {None}

TypeOK ==
    /\ msg \in [Events -> {"unsent", "queued", "taken", "done", "dead"}]
    /\ rows \in [Events -> Nat]
    /\ tasks \in [1..MaxRuns -> Nat]
    /\ dedup \subseteq Books
    /\ version \in Nat
    /\ pending \in BOOLEAN /\ lock \in BOOLEAN
    /\ profile \in Reflected /\ vector \in Reflected /\ point \in Reflected
    /\ pc \in [Proc -> PC]
    /\ at \in [Consumers -> Events \cup {None}]
    /\ got \in [Proc -> Reflected] /\ old \in [Proc -> Reflected]
    /\ start \in [Workers -> Nat] /\ seenEnd \in [Workers -> Nat]
    /\ run \in [Workers -> 1..MaxRuns]
    /\ crashes \in Nat /\ failures \in Nat /\ outages \in Nat /\ lapses \in Nat
    /\ \A c \in Consumers : /\ pc[c] \in ConsumerPC \cup {"idle"}
                            /\ pc[c] # "idle" <=> at[c] # None
                            /\ at[c] # None => msg[at[c]] = "taken"
    /\ \A w \in Workers : pc[w] \in BuildPC \cup {"idle", "retry"}

Init ==
    /\ msg = [e \in Events |-> "unsent"]
    /\ rows = [e \in Events |-> 0]
    /\ tasks = [r \in 1..MaxRuns |-> 0]
    /\ dedup = {}
    /\ version = 0
    /\ pending = FALSE /\ lock = FALSE
    /\ profile = None /\ vector = None /\ point = None
    /\ pc = [p \in Proc |-> "idle"]
    /\ at = [c \in Consumers |-> None]
    /\ got = [p \in Proc |-> None] /\ old = [p \in Proc |-> None]
    /\ start = [w \in Workers |-> 0] /\ seenEnd = [w \in Workers |-> 0]
    /\ run = [w \in Workers |-> 1]
    /\ crashes = 0 /\ failures = 0 /\ outages = 0 /\ lapses = 0
    /\ overtaken = {} /\ spoiled = FALSE

-----------------------------------------------------------------------------
Goto(p, label) == pc' = [pc EXCEPT ![p] = label]
MayStart(p) ==
    pc[p] = "idle" /\ Cardinality({q \in Proc : pc[q] # "idle"}) < MaxInFlight

Saved == {e \in Events : rows[e] > 0}

Enqueue(r) == tasks' = [tasks EXCEPT ![r] = @ + 1]

\* message.process: the message leaves the queue, acknowledged or rejected.
Settle(c, outcome) ==
    /\ msg' = [msg EXCEPT ![at[c]] = outcome]
    /\ at' = [at EXCEPT ![c] = None]
    /\ Goto(c, "idle")

-----------------------------------------------------------------------------
\* BookPersonalRecoForUserUC.generate

\* Wrong on purpose: the message is acknowledged when it is delivered.
TakeAutoAck(c, e) ==
    /\ MayStart(c)
    /\ msg[e] = "queued"
    /\ msg' = [msg EXCEPT ![e] = "done"]
    /\ at' = [at EXCEPT ![c] = e]
    /\ Goto(c, "dedup")
    /\ UNCHANGED <<rows, tasks, redis, point, got, old, start, seenEnd, run, bounds, stale>>

Take(c, e) ==
    /\ MayStart(c)
    /\ msg[e] = "queued"
    /\ msg' = [msg EXCEPT ![e] = "taken"]
    /\ at' = [at EXCEPT ![c] = e]
    /\ Goto(c, "dedup")
    /\ UNCHANGED <<rows, tasks, redis, point, got, old, start, seenEnd, run, bounds, stale>>

\* Wrong on purpose: every event on the book counts as a view of it.
DedupAnyType(c) ==
    /\ pc[c] = "dedup"
    /\ IF BookOf[at[c]] \in dedup
       THEN Settle(c, "done") /\ UNCHANGED dedup
       ELSE /\ dedup' = dedup \cup {BookOf[at[c]]}
            /\ Goto(c, "save")
            /\ UNCHANGED <<msg, at>>
    /\ UNCHANGED <<rows, tasks, version, pending, lock, profile, vector, point,
                   got, old, start, seenEnd, run, bounds, stale>>

\* _is_duplicate_view: SET NX of the key, for a VIEW only.
Dedup(c) ==
    /\ pc[c] = "dedup"
    /\ IF at[c] \in Views /\ BookOf[at[c]] \in dedup
       THEN Settle(c, "done") /\ UNCHANGED dedup
       ELSE /\ dedup' = IF at[c] \in Views THEN dedup \cup {BookOf[at[c]]} ELSE dedup
            /\ Goto(c, "save")
            /\ UNCHANGED <<msg, at>>
    /\ UNCHANGED <<rows, tasks, version, pending, lock, profile, vector, point,
                   got, old, start, seenEnd, run, bounds, stale>>

Save(c) ==
    /\ pc[c] = "save"
    /\ rows' = [rows EXCEPT ![at[c]] = @ + 1]
    /\ Goto(c, "invalidate")
    /\ UNCHANGED <<msg, tasks, redis, point, local, bounds, stale>>

\* The transaction fails: reject without requeue, the message is dead-lettered.
SaveFails(c) ==
    /\ pc[c] = "save"
    /\ failures < MaxFailures
    /\ failures' = failures + 1
    /\ Settle(c, "dead")
    /\ UNCHANGED <<rows, tasks, redis, point, got, old, start, seenEnd, run,
                   crashes, outages, lapses, stale>>

\* Wrong on purpose: the cached profile is kept.
InvalidateVectorOnly(c) ==
    /\ pc[c] = "invalidate"
    /\ vector' = None
    /\ Goto(c, "incr")
    /\ UNCHANGED <<queues, dedup, version, pending, lock, profile, point, local, bounds, stale>>

Invalidate(c) ==
    /\ pc[c] = "invalidate"
    /\ profile' = None /\ vector' = None
    /\ Goto(c, "incr")
    /\ overtaken' = overtaken \cup {p \in Proc : pc[p] = "setProfile" /\ at[c] \notin got[p]}
    /\ spoiled' = FALSE
    /\ UNCHANGED <<queues, dedup, version, pending, lock, point, local, bounds>>

\* _update_user_reco_profile
IncrementVersion(c) ==
    /\ pc[c] = "incr"
    /\ version' = version + 1
    /\ Goto(c, "flag")
    /\ UNCHANGED <<queues, dedup, pending, lock, profile, vector, point, local, bounds, stale>>

\* SET NX of the pending flag; a flag that exists has its TTL extended.
SetFlag(c) ==
    /\ pc[c] = "flag"
    /\ IF pending
       THEN Settle(c, "done")
       ELSE Goto(c, "schedule") /\ UNCHANGED <<msg, at>>
    /\ pending' = TRUE
    /\ UNCHANGED <<rows, tasks, dedup, version, lock, profile, vector, point,
                   got, old, start, seenEnd, run, bounds, stale>>

Schedule(c) ==
    /\ pc[c] = "schedule"
    /\ Enqueue(1)
    /\ Settle(c, "done")
    /\ UNCHANGED <<rows, redis, point, got, old, start, seenEnd, run, bounds, stale>>

\* Redis or the broker raises: before the save the message is rejected, after
\* it the exception is logged and swallowed.
Outage(c) ==
    /\ outages < MaxOutages
    /\ outages' = outages + 1
    /\ \/ pc[c] = "dedup" /\ Settle(c, "dead")
       \/ pc[c] = "invalidate" /\ Goto(c, "incr") /\ UNCHANGED <<msg, at>>
       \/ pc[c] \in {"incr", "flag", "schedule"} /\ Settle(c, "done")
    /\ UNCHANGED <<rows, tasks, redis, point, got, old, start, seenEnd, run,
                   crashes, failures, lapses, stale>>

Consume(c) ==
    \/ Dedup(c) \/ Save(c) \/ SaveFails(c) \/ Invalidate(c)
    \/ IncrementVersion(c) \/ SetFlag(c) \/ Schedule(c) \/ Outage(c)

-----------------------------------------------------------------------------
\* UserPersonalBooksRecoProfile.get, for a feed request and for a build.

StartRead(r) ==
    /\ r \in Readers
    /\ MayStart(r)
    /\ Goto(r, "getProfile")
    /\ UNCHANGED <<queues, redis, point, local, bounds, stale>>

GetProfile(p) ==
    /\ pc[p] = "getProfile"
    /\ IF profile # None
       THEN got' = [got EXCEPT ![p] = profile] /\ Goto(p, "getVector")
       ELSE Goto(p, "readEvents") /\ UNCHANGED got
    /\ UNCHANGED <<queues, redis, point, at, old, start, seenEnd, run, bounds, stale>>

ReadEvents(p) ==
    /\ pc[p] = "readEvents"
    /\ got' = [got EXCEPT ![p] = Saved]
    /\ Goto(p, "setProfile")
    /\ overtaken' = overtaken \ {p}
    /\ UNCHANGED <<queues, redis, point, at, old, start, seenEnd, run, bounds, spoiled>>

SetProfile(p) ==
    /\ pc[p] = "setProfile"
    /\ profile' = got[p]
    /\ Goto(p, "getVector")
    /\ spoiled' = (p \in overtaken)
    /\ UNCHANGED <<queues, dedup, version, pending, lock, vector, point, local, bounds,
                   overtaken>>

\* What follows get: a build goes on unless no book was interacted with, a feed
\* request has its answer.
AfterGet(p) ==
    IF p \in Readers
    THEN Goto(p, "idle") /\ got' = [got EXCEPT ![p] = None]
    ELSE Goto(p, IF got[p] = {} THEN "endVersion" ELSE "embed") /\ UNCHANGED got

GetVector(p) ==
    /\ pc[p] = "getVector"
    /\ IF vector # None THEN AfterGet(p) ELSE Goto(p, "readPoint") /\ UNCHANGED got
    /\ UNCHANGED <<queues, redis, point, at, old, start, seenEnd, run, bounds, stale>>

ReadPoint(p) ==
    /\ pc[p] = "readPoint"
    /\ IF point = None
       THEN AfterGet(p) /\ UNCHANGED old
       ELSE old' = [old EXCEPT ![p] = point] /\ Goto(p, "warm") /\ UNCHANGED got
    /\ UNCHANGED <<queues, redis, point, at, start, seenEnd, run, bounds, stale>>

WarmVector(p) ==
    /\ pc[p] = "warm"
    /\ vector' = old[p]
    /\ old' = [old EXCEPT ![p] = None]
    /\ AfterGet(p)
    /\ UNCHANGED <<queues, dedup, version, pending, lock, profile, point,
                   at, start, seenEnd, run, bounds, stale>>

Get(p) ==
    \/ GetProfile(p) \/ ReadEvents(p) \/ SetProfile(p)
    \/ GetVector(p) \/ ReadPoint(p) \/ WarmVector(p)

-----------------------------------------------------------------------------
\* UserPersonalBooksRecoProfile.build

\* With Prompt, a task that was scheduled while a build is in its last calls is
\* not due before they are over.
Due(r) ==
    /\ tasks[r] > 0
    /\ Prompt => \A w \in Workers : pc[w] \notin {"rebuild", "reschedule", "release"}

\* Wrong on purpose: the lock is set without NX.
StartBuildAnyway(w, r) ==
    /\ MayStart(w)
    /\ Due(r)
    /\ tasks' = [tasks EXCEPT ![r] = @ - 1]
    /\ lock' = TRUE
    /\ run' = [run EXCEPT ![w] = r]
    /\ Goto(w, "hasPending")
    /\ UNCHANGED <<msg, rows, dedup, version, pending, profile, vector, point,
                   at, got, old, start, seenEnd, bounds, stale>>

\* acquire_lock: SET NX.  A task that finds the lock taken ends.
StartBuild(w, r) ==
    /\ MayStart(w)
    /\ Due(r)
    /\ tasks' = [tasks EXCEPT ![r] = @ - 1]
    /\ IF lock
       THEN UNCHANGED <<run, pc>>
       ELSE run' = [run EXCEPT ![w] = r] /\ Goto(w, "hasPending")
    /\ lock' = TRUE
    /\ UNCHANGED <<msg, rows, dedup, version, pending, profile, vector, point,
                   at, got, old, start, seenEnd, bounds, stale>>

HasPending(w) ==
    /\ pc[w] = "hasPending"
    /\ Goto(w, IF pending THEN "startVersion" ELSE "release")
    /\ UNCHANGED <<queues, redis, point, local, bounds, stale>>

StartVersion(w) ==
    /\ pc[w] = "startVersion"
    /\ start' = [start EXCEPT ![w] = version]
    /\ Goto(w, "getProfile")
    /\ UNCHANGED <<queues, redis, point, at, got, old, seenEnd, run, bounds, stale>>

\* The books' vectors, weights, names and the text embedding.
Embed(w) ==
    /\ pc[w] = "embed"
    /\ Goto(w, "setVector")
    /\ UNCHANGED <<queues, redis, point, local, bounds, stale>>

\* PostgreSQL, Qdrant, Redis, the embedder or the broker raises.
BuildFails(w) ==
    /\ pc[w] \in BuildPC \ {"release", "giveUp"}
    /\ failures < MaxFailures
    /\ failures' = failures + 1
    /\ Goto(w, "giveUp")
    /\ UNCHANGED <<queues, redis, point, local, crashes, outages, lapses, stale>>

SetVector(w) ==
    /\ pc[w] = "setVector"
    /\ vector' = got[w]
    /\ Goto(w, "savePoint")
    /\ UNCHANGED <<queues, dedup, version, pending, lock, profile, point, local, bounds, stale>>

SavePoint(w) ==
    /\ pc[w] = "savePoint"
    /\ point' = got[w]
    /\ Goto(w, "endVersion")
    /\ UNCHANGED <<queues, redis, local, bounds, stale>>

EndVersion(w) ==
    /\ pc[w] = "endVersion"
    /\ seenEnd' = [seenEnd EXCEPT ![w] = version]
    /\ got' = [got EXCEPT ![w] = None]
    /\ Goto(w, "removePending")
    /\ UNCHANGED <<queues, redis, point, at, old, start, run, bounds, stale>>

RemovePending(w) ==
    /\ pc[w] = "removePending"
    /\ pending' = FALSE
    /\ Goto(w, IF seenEnd[w] = start[w] THEN "release" ELSE "rebuild")
    /\ UNCHANGED <<queues, dedup, version, lock, profile, vector, point, local, bounds, stale>>

\* Wrong on purpose: the flag is set and nothing is scheduled.
RebuildFlagOnly(w) ==
    /\ pc[w] = "rebuild"
    /\ pending' = TRUE
    /\ Goto(w, "release")
    /\ UNCHANGED <<queues, dedup, version, lock, profile, vector, point, local, bounds, stale>>

\* _rebuild: create_pending, and schedule if the flag is new.
Rebuild(w) ==
    /\ pc[w] = "rebuild"
    /\ pending' = TRUE
    /\ Goto(w, IF pending THEN "release" ELSE "reschedule")
    /\ UNCHANGED <<queues, dedup, version, lock, profile, vector, point, local, bounds, stale>>

Reschedule(w) ==
    /\ pc[w] = "reschedule"
    /\ Enqueue(1)
    /\ Goto(w, "release")
    /\ UNCHANGED <<msg, rows, redis, point, local, bounds, stale>>

ResetWorker(w) ==
    /\ got' = [got EXCEPT ![w] = None]
    /\ old' = [old EXCEPT ![w] = None]
    /\ start' = [start EXCEPT ![w] = 0]
    /\ seenEnd' = [seenEnd EXCEPT ![w] = 0]

\* finally: the lock key is deleted, whoever set it.
ReleaseLock(w) ==
    /\ pc[w] \in {"release", "giveUp"}
    /\ lock' = FALSE
    /\ Goto(w, IF pc[w] = "release" THEN "idle" ELSE "retry")
    /\ ResetWorker(w)
    /\ UNCHANGED <<queues, dedup, version, pending, profile, vector, point, at, run, bounds, stale>>

\* Wrong on purpose: the task has no retry_on_error label.
RetryNever(w) ==
    /\ pc[w] = "retry"
    /\ Goto(w, "idle")
    /\ UNCHANGED <<queues, redis, point, local, bounds, stale>>

\* SimpleRetryMiddleware.on_error, with the task's labels (the delay too).
Retry(w) ==
    /\ pc[w] = "retry"
    /\ IF run[w] < MaxRuns THEN Enqueue(run[w] + 1) ELSE UNCHANGED tasks
    /\ Goto(w, "idle")
    /\ UNCHANGED <<msg, rows, redis, point, local, bounds, stale>>

Build(w) ==
    \/ HasPending(w) \/ StartVersion(w) \/ Embed(w) \/ BuildFails(w)
    \/ SetVector(w) \/ SavePoint(w) \/ EndVersion(w) \/ RemovePending(w)
    \/ Rebuild(w) \/ Reschedule(w) \/ ReleaseLock(w) \/ Retry(w)

-----------------------------------------------------------------------------
\* The environment

\* A router publishes the event.
Publish(e) ==
    /\ msg[e] = "unsent"
    /\ msg' = [msg EXCEPT ![e] = "queued"]
    /\ UNCHANGED <<rows, tasks, redis, point, pc, local, bounds, stale>>

\* VECTOR_FLAG_TTL and VECTOR_LOCK_TTL run out.
ExpireFlag ==
    /\ pending
    /\ lapses < MaxLapses
    /\ lapses' = lapses + 1
    /\ pending' = FALSE
    /\ UNCHANGED <<queues, dedup, version, lock, profile, vector, point, pc, local,
                   crashes, failures, outages, stale>>

ExpireLock ==
    /\ lock
    /\ lapses < MaxLapses
    /\ lapses' = lapses + 1
    /\ lock' = FALSE
    /\ UNCHANGED <<queues, dedup, version, pending, profile, vector, point, pc, local,
                   crashes, failures, outages, stale>>

\* 60 seconds after a view; PROFILE_TTL.
ExpireKeys ==
    /\ \/ \E b \in dedup : dedup' = dedup \ {b} /\ UNCHANGED <<profile, vector, spoiled>>
       \/ /\ profile # None /\ profile' = None /\ spoiled' = FALSE
          /\ UNCHANGED <<dedup, vector>>
       \/ vector # None /\ vector' = None /\ UNCHANGED <<dedup, profile, spoiled>>
    /\ UNCHANGED <<queues, version, pending, lock, point, pc, local, bounds, overtaken>>

\* The process dies.  RabbitMQ delivers what was not acknowledged again: the
\* event, or the rebuild task (acknowledged when its result is saved).
Crash(p) ==
    /\ pc[p] # "idle"
    /\ crashes < MaxCrashes
    /\ crashes' = crashes + 1
    /\ \/ /\ p \in Consumers
          /\ Settle(p, "queued")
          /\ UNCHANGED <<tasks, got, old, start, seenEnd>>
       \/ /\ p \in Workers
          /\ Enqueue(run[p])
          /\ Goto(p, "idle")
          /\ ResetWorker(p)
          /\ UNCHANGED <<msg, at>>
       \/ /\ p \in Readers
          /\ Goto(p, "idle")
          /\ got' = [got EXCEPT ![p] = None] /\ old' = [old EXCEPT ![p] = None]
          /\ UNCHANGED <<msg, at, tasks, start, seenEnd>>
    /\ UNCHANGED <<rows, redis, point, run, failures, outages, lapses, stale>>

-----------------------------------------------------------------------------
Start ==
    \/ \E c \in Consumers, e \in Events : Take(c, e)
    \/ \E w \in Workers, r \in 1..MaxRuns : StartBuild(w, r)
    \/ \E r \in Readers : StartRead(r)

Step(p) == (p \in Consumers /\ Consume(p)) \/ Get(p) \/ (p \in Workers /\ Build(p))

Environment ==
    \/ \E e \in Events : Publish(e)
    \/ ExpireFlag \/ ExpireLock \/ ExpireKeys
    \/ \E p \in Proc : Crash(p)

Next == Start \/ (\E p \in Proc : Step(p)) \/ Environment

Spec == Init /\ [][Next]_vars

\* A handler that was started goes on unless its process dies; RabbitMQ hands
\* its messages out.  No event has to be published, no feed to be read.
Fairness ==
    /\ \A p \in Proc : WF_vars(Step(p))
    /\ \A e \in Events : SF_vars(\E c \in Consumers : Take(c, e))
    /\ \A r \in 1..MaxRuns : SF_vars(\E w \in Workers : StartBuild(w, r))

FairSpec == Spec /\ Fairness

-----------------------------------------------------------------------------
\* No message is handled by two consumers at once.
OneConsumer ==
    \A c, d \in Consumers : at[c] = at[d] /\ at[c] # None => c = d

Building == {w \in Workers : pc[w] \in BuildPC}

\* The lock with a TTL lets two builds of one user's vector overlap only after
\* it has run out, one more for each time: although every build deletes the key
\* without looking whose it is, the deletions do not multiply.
BuildersBounded == Cardinality(Building) <= lapses + (IF lock THEN 1 ELSE 0)

\* A pending flag nobody will act on blocks all later events (they only extend
\* its TTL): while it is up, a task is queued, about to be, or a build that will
\* take the flag down is at work.
PendingHasTask ==
    pending /\ outages + crashes = 0 =>
        \/ \E r \in 1..MaxRuns : tasks[r] > 0
        \/ \E c \in Consumers : pc[c] = "schedule"
        \/ \E w \in Workers : pc[w] \in (BuildPC \ {"rebuild", "release"}) \cup {"retry"}

\* No event gets lost between the queue and the database: one that is done has
\* its row, unless it is a view and another view of the book stands for it.
DoneIsSaved ==
    \A e \in Events : msg[e] = "done" /\ rows[e] = 0 /\ crashes = 0 =>
        /\ e \in Views
        /\ \E f \in Views \ {e} : BookOf[f] = BookOf[e] /\ msg[f] \in {"taken", "done", "dead"}

\* "Invalidates the user's profile cache, so that the next profile request rebuilds
\* it from the database with the new event": the cached profile is never older than
\* the events whose handling is over.
CacheIsFresh ==
    profile # None => \A e \in Saved : msg[e] = "done" => e \in profile

\* What the invalidation does achieve with any number of consumers, builds and
\* requests at work: an event is missing from the cached profile while its consumer
\* has still to delete it, and after that only if the profile was written by a get
\* that had read the events before one was saved and was still on its way to the
\* cache when that one's consumer deleted the profile.
StaleOnlyIfOvertaken ==
    profile # None /\ ~spoiled /\ outages + crashes = 0 =>
        \A e \in Saved \ profile : \E c \in Consumers : at[c] = e /\ pc[c] = "invalidate"

\* The pending flag is taken down without a rebuild only when no event has asked
\* for one since the build began.
FlagDropIsCovered ==
    [][\A w \in Workers : pc[w] = "removePending" /\ pc'[w] = "release"
                              => version = start[w]]_vars

\* Every saved event finds its way into the user's vector in Qdrant, through the
\* debounce, the version check and the retries of a failing build.
SavedIsReflected ==
    \A e \in Events : rows[e] > 0 ~> (point # None /\ e \in point)
=============================================================================
