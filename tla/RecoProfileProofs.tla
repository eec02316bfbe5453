-------------------------- MODULE RecoProfileProofs --------------------------
(***************************************************************************)
(* What RecoProfile promises for any events, processes and bounds: types,   *)
(* one consumer per message, how far builds of one vector can overlap, that *)
(* a pending flag is acted on, that no event is lost, and how a cached       *)
(* profile can miss an event that was saved.                                *)
(*                                                                         *)
(* BuildersBounded is not inductive alone: that a step of a build starts no *)
(* other build needs the labels of TypeOK, and TypeOK's claim that a message *)
(* in hand is "taken" survives the settling of another one only because no   *)
(* two consumers hold the same (OneConsumer).  The other three properties    *)
(* are strengthened apart, each on top of IInv: FlagInv, SaveInv, AgeInv.   *)
(***************************************************************************)
EXTENDS RecoProfile, TLAPS, FiniteSetTheorems

IInv == TypeOK /\ OneConsumer /\ BuildersBounded

\* The two halves of TypeOK: values, and where each process stands.
DataOK ==
    /\ rows \in [Events -> Nat]
    /\ tasks \in [1..MaxRuns -> Nat]
    /\ dedup \subseteq Books
    /\ version \in Nat
    /\ pending \in BOOLEAN /\ lock \in BOOLEAN
    /\ profile \in Reflected /\ vector \in Reflected /\ point \in Reflected
    /\ got \in [Proc -> Reflected] /\ old \in [Proc -> Reflected]
    /\ start \in [Workers -> Nat] /\ seenEnd \in [Workers -> Nat]
    /\ run \in [Workers -> 1..MaxRuns]
    /\ crashes \in Nat /\ failures \in Nat /\ outages \in Nat /\ lapses \in Nat

PlaceOK ==
    /\ msg \in [Events -> {"unsent", "queued", "taken", "done", "dead"}]
    /\ pc \in [Proc -> PC]
    /\ at \in [Consumers -> Events \cup {None}]
    /\ \A c \in Consumers : /\ pc[c] \in ConsumerPC \cup {"idle"}
                            /\ pc[c] # "idle" <=> at[c] # None
                            /\ at[c] # None => msg[at[c]] = "taken"
    /\ \A w \in Workers : pc[w] \in BuildPC \cup {"idle", "retry"}

LEMMA TypeParts == TypeOK <=> DataOK /\ PlaceOK
BY DEF TypeOK, DataOK, PlaceOK

\* The labels of a consumer, of a read and of a build.
LEMMA Labels ==
    /\ GetPC \subseteq BuildPC /\ BuildPC \subseteq PC /\ ConsumerPC \subseteq PC
    /\ {"idle", "retry"} \subseteq PC
    /\ "idle" \notin ConsumerPC \cup BuildPC /\ "retry" \notin ConsumerPC \cup BuildPC
    /\ ConsumerPC \cap BuildPC = {}
    /\ {"dedup", "save", "invalidate", "incr", "flag", "schedule"} \subseteq ConsumerPC
    /\ {"getProfile", "readEvents", "setProfile", "getVector", "readPoint", "warm"}
          \subseteq GetPC
    /\ {"hasPending", "startVersion", "embed", "setVector", "savePoint", "endVersion",
        "removePending", "rebuild", "reschedule", "release", "giveUp"} \subseteq BuildPC
<1>1. ConsumerPC \cap BuildPC = {}
  BY DEF ConsumerPC, BuildPC, GetPC
<1>2. "idle" \notin ConsumerPC \cup BuildPC /\ "retry" \notin ConsumerPC \cup BuildPC
  BY DEF ConsumerPC, BuildPC, GetPC
<1>3. /\ GetPC \subseteq BuildPC /\ BuildPC \subseteq PC /\ ConsumerPC \subseteq PC
      /\ {"idle", "retry"} \subseteq PC
  BY DEF BuildPC, PC
<1> QED BY <1>1, <1>2, <1>3 DEF ConsumerPC, BuildPC, GetPC

-----------------------------------------------------------------------------
\* A set of builds that does not grow stays bounded.
LEMMA Shrinks ==
    ASSUME TypeOK, BuildersBounded, Building' \subseteq Building,
           lapses' \in Nat, lapses' + (IF lock' THEN 1 ELSE 0) >= lapses + (IF lock THEN 1 ELSE 0)
    PROVE  BuildersBounded'
<1>1. IsFiniteSet(Building)
  <2>1. Building \subseteq Workers BY DEF Building
  <2>2. IsFiniteSet(Workers) BY RecoAssumption DEF RecoAssumption
  <2> QED BY <2>1, <2>2, FS_Subset
<1>2. /\ IsFiniteSet(Building') /\ Cardinality(Building') <= Cardinality(Building)
  BY <1>1, FS_Subset
<1>3. Cardinality(Building) \in Nat /\ Cardinality(Building') \in Nat
  BY <1>1, <1>2, FS_CardinalityType
<1>4. lapses \in Nat BY DEF TypeOK
<1>5. \A n, m, k, j, a, b \in Nat : n <= a + k /\ m <= n /\ b + j >= a + k => m <= b + j
  OBVIOUS
<1>6. (IF lock THEN 1 ELSE 0) \in Nat /\ (IF lock' THEN 1 ELSE 0) \in Nat
  OBVIOUS
<1>7. Cardinality(Building') <= lapses' + (IF lock' THEN 1 ELSE 0)
  BY <1>2, <1>3, <1>4, <1>5, <1>6 DEF BuildersBounded
<1> QED BY <1>7 DEF BuildersBounded

\* A process moves on and keeps its message.
LEMMA Move ==
    ASSUME PlaceOK, NEW p \in Proc, NEW l \in PC, Goto(p, l), UNCHANGED <<msg, at>>,
           p \in Consumers => l \in ConsumerPC /\ pc[p] # "idle",
           p \in Workers => l \in BuildPC \cup {"idle", "retry"}
    PROVE  PlaceOK'
<1>1. pc' \in [Proc -> PC] BY DEF PlaceOK, Goto
<1>2. ASSUME NEW c \in Consumers
      PROVE  /\ pc'[c] \in ConsumerPC \cup {"idle"}
             /\ pc'[c] # "idle" <=> at[c] # None
             /\ at[c] # None => msg[at[c]] = "taken"
  BY <1>2, Labels DEF PlaceOK, Goto, Proc
<1>3. ASSUME NEW w \in Workers
      PROVE  pc'[w] \in BuildPC \cup {"idle", "retry"}
  BY <1>3 DEF PlaceOK, Goto, Proc
<1> QED BY <1>1, <1>2, <1>3 DEF PlaceOK

\* Only a worker that moves to a label of the build can enlarge Building.
LEMMA MoveShrinks ==
    ASSUME PlaceOK, NEW p \in Proc, NEW l \in PC, Goto(p, l),
           p \in Workers /\ l \in BuildPC => pc[p] \in BuildPC
    PROVE  Building' \subseteq Building
BY DEF PlaceOK, Goto, Building, Proc

\* A consumer settles its message.
LEMMA SettleKeeps ==
    ASSUME PlaceOK, OneConsumer, NEW c \in Consumers, pc[c] # "idle",
           NEW o \in {"queued", "done", "dead"}, Settle(c, o)
    PROVE  PlaceOK' /\ OneConsumer' /\ Building' \subseteq Building
<1>1. at[c] \in Events BY DEF PlaceOK
<1>2. None \notin Events BY RecoAssumption DEF RecoAssumption
<1>3. c \in Proc BY DEF Proc
<1>4. pc' = [pc EXCEPT ![c] = "idle"] /\ at' = [at EXCEPT ![c] = None]
      /\ msg' = [msg EXCEPT ![at[c]] = o]
  BY DEF Settle, Goto
<1>5. pc' \in [Proc -> PC] /\ at' \in [Consumers -> Events \cup {None}]
      /\ msg' \in [Events -> {"unsent", "queued", "taken", "done", "dead"}]
  BY <1>1, <1>3, <1>4, Labels DEF PlaceOK
<1>6. ASSUME NEW d \in Consumers
      PROVE  /\ pc'[d] \in ConsumerPC \cup {"idle"}
             /\ pc'[d] # "idle" <=> at'[d] # None
             /\ at'[d] # None => msg'[at'[d]] = "taken"
  <2>1. CASE d = c BY <2>1, <1>3, <1>4 DEF PlaceOK
  <2>2. CASE d # c
    <3>1. pc'[d] = pc[d] /\ at'[d] = at[d] BY <2>2, <1>4, <1>3 DEF PlaceOK, Proc
    <3>2. at[d] # None => at[d] # at[c] /\ at[d] \in Events
      BY <2>2, <1>1, <1>2 DEF PlaceOK, OneConsumer
    <3>3. at[d] # None => msg'[at[d]] = msg[at[d]] BY <3>2, <1>1, <1>4 DEF PlaceOK
    <3> QED BY <3>1, <3>3 DEF PlaceOK
  <2> QED BY <2>1, <2>2
<1>7. ASSUME NEW w \in Workers
      PROVE  pc'[w] \in BuildPC \cup {"idle", "retry"} /\ pc'[w] = pc[w]
  BY <1>4, RecoAssumption DEF PlaceOK, RecoAssumption, Proc
<1>8. Building' \subseteq Building BY <1>7 DEF Building
<1>9. OneConsumer' BY <1>4 DEF OneConsumer, PlaceOK
<1> QED BY <1>5, <1>6, <1>7, <1>8, <1>9 DEF PlaceOK

-----------------------------------------------------------------------------
\* The actions, by who takes them.  Each step has three things to show: the
\* values it writes, the place of its process, and the builds under way.

LEMMA MaxRunsNat == MaxRuns \in Nat \ {0}
BY RecoAssumption DEF RecoAssumption

\* A move of a process that leaves the messages and the lock alone.
LEMMA QuietMove ==
    ASSUME IInv, NEW p \in Proc, NEW l \in PC, Goto(p, l),
           UNCHANGED <<msg, at, lock, lapses>>, DataOK',
           p \in Consumers => l \in ConsumerPC /\ pc[p] # "idle",
           p \in Workers => l \in BuildPC \cup {"idle", "retry"},
           p \in Workers /\ l \in BuildPC => pc[p] \in BuildPC
    PROVE  IInv'
<1>1. TypeOK /\ PlaceOK /\ DataOK BY TypeParts DEF IInv
<1>2. PlaceOK' BY <1>1, Move
<1>3. Building' \subseteq Building BY <1>1, MoveShrinks
<1>4. lapses \in Nat BY <1>1 DEF DataOK
<1>5. lapses' + (IF lock' THEN 1 ELSE 0) >= lapses + (IF lock THEN 1 ELSE 0)
  BY <1>4
<1>6. BuildersBounded' BY <1>1, <1>3, <1>4, <1>5, Shrinks DEF IInv
<1>7. OneConsumer' BY DEF OneConsumer, IInv
<1>8. TypeOK' BY <1>2, TypeParts DEF TypeOK, DataOK, PlaceOK
<1> QED BY <1>6, <1>7, <1>8 DEF IInv

\* A consumer that is done with its message.
LEMMA SettleStep ==
    ASSUME IInv, NEW c \in Consumers, pc[c] # "idle",
           NEW o \in {"queued", "done", "dead"}, Settle(c, o),
           UNCHANGED <<lock, lapses>>, DataOK'
    PROVE  IInv'
<1>1. TypeOK /\ PlaceOK /\ DataOK BY TypeParts DEF IInv
<1>2. PlaceOK' /\ OneConsumer' /\ Building' \subseteq Building
  BY <1>1, SettleKeeps DEF IInv
<1>3. lapses \in Nat BY <1>1 DEF DataOK
<1>4. lapses' + (IF lock' THEN 1 ELSE 0) >= lapses + (IF lock THEN 1 ELSE 0)
  BY <1>3
<1>5. BuildersBounded' BY <1>1, <1>2, <1>3, <1>4, Shrinks DEF IInv
<1>6. TypeOK' BY <1>2, TypeParts DEF TypeOK, DataOK, PlaceOK
<1> QED BY <1>2, <1>5, <1>6 DEF IInv
LEMMA ConsumeStep ==
    ASSUME IInv, NEW c \in Consumers, Consume(c)
    PROVE  IInv'
<1> USE DEF queues, redis, local, bounds
<1>1. TypeOK /\ PlaceOK /\ DataOK BY TypeParts DEF IInv
<1>2. c \in Proc /\ c \notin Workers
  BY RecoAssumption DEF Proc, RecoAssumption
<1>3. /\ at[c] \in Events \cup {None}
      /\ pc[c] # "idle" => at[c] \in Events
  BY <1>1 DEF PlaceOK
<1>4. BookOf \in [Events -> Books] BY RecoAssumption DEF RecoAssumption
<1>5. CASE Dedup(c)
  <2>1. DataOK' BY <1>1, <1>3, <1>4, <1>5 DEF DataOK, Dedup
  <2>2. CASE Settle(c, "done")
    BY <1>5, <2>1, <2>2, SettleStep DEF Dedup
  <2>3. CASE Goto(c, "save") /\ UNCHANGED <<msg, at>>
    BY <1>2, <1>5, <2>1, <2>3, QuietMove, Labels DEF Dedup
  <2> QED BY <1>5, <2>2, <2>3 DEF Dedup
<1>6. CASE Save(c)
  <2>1. rows' \in [Events -> Nat] BY <1>1, <1>3, <1>6 DEF DataOK, Save
  <2>2. DataOK' BY <1>1, <1>6, <2>1 DEF DataOK, Save
  <2> QED BY <1>2, <1>6, <2>2, QuietMove, Labels DEF Save
<1>7. CASE SaveFails(c)
  <2>1. DataOK' BY <1>1, <1>7 DEF DataOK, SaveFails
  <2> QED BY <1>7, <2>1, SettleStep DEF SaveFails
<1>8. CASE Invalidate(c)
  <2>1. None \in Reflected BY DEF Reflected
  <2>2. DataOK' BY <1>1, <1>8, <2>1 DEF DataOK, Invalidate
  <2> QED BY <1>2, <1>8, <2>2, QuietMove, Labels DEF Invalidate
<1>9. CASE IncrementVersion(c)
  <2>1. DataOK' BY <1>1, <1>9 DEF DataOK, IncrementVersion
  <2> QED BY <1>2, <1>9, <2>1, QuietMove, Labels DEF IncrementVersion
<1>10. CASE SetFlag(c)
  <2>1. DataOK' BY <1>1, <1>10 DEF DataOK, SetFlag
  <2>2. CASE Settle(c, "done")
    BY <1>10, <2>1, <2>2, SettleStep DEF SetFlag
  <2>3. CASE Goto(c, "schedule") /\ UNCHANGED <<msg, at>>
    BY <1>2, <1>10, <2>1, <2>3, QuietMove, Labels DEF SetFlag
  <2> QED BY <1>10, <2>2, <2>3 DEF SetFlag
<1>11. CASE Schedule(c)
  <2>1. tasks' \in [1..MaxRuns -> Nat]
    BY <1>1, <1>11, MaxRunsNat DEF DataOK, Schedule, Enqueue
  <2>2. DataOK' BY <1>1, <1>11, <2>1 DEF DataOK, Schedule
  <2> QED BY <1>11, <2>2, SettleStep DEF Schedule
<1>12. CASE Outage(c)
  <2>1. DataOK' BY <1>1, <1>12 DEF DataOK, Outage
  <2>2. CASE pc[c] = "dedup" /\ Settle(c, "dead")
    BY <1>12, <2>1, <2>2, SettleStep DEF Outage
  <2>3. CASE pc[c] = "invalidate" /\ Goto(c, "incr") /\ UNCHANGED <<msg, at>>
    BY <1>2, <1>12, <2>1, <2>3, QuietMove, Labels DEF Outage
  <2>4. CASE pc[c] \in {"incr", "flag", "schedule"} /\ Settle(c, "done")
    BY <1>12, <2>1, <2>4, SettleStep DEF Outage
  <2> QED BY <1>12, <2>2, <2>3, <2>4 DEF Outage
<1> QED BY <1>5, <1>6, <1>7, <1>8, <1>9, <1>10, <1>11, <1>12 DEF Consume

LEMMA GetStep ==
    ASSUME IInv, NEW p \in Proc, Get(p)
    PROVE  IInv'
<1> USE DEF queues, redis, local, bounds
<1>1. TypeOK /\ PlaceOK /\ DataOK BY TypeParts DEF IInv
<1>2. pc[p] \in GetPC
  BY Labels DEF Get, GetProfile, ReadEvents, SetProfile, GetVector, ReadPoint, WarmVector
<1>3. p \notin Consumers
  BY <1>1, <1>2, Labels DEF PlaceOK
<1>4. /\ got[p] \in Reflected /\ old[p] \in Reflected /\ None \in Reflected
      /\ Saved \in Reflected
  <2>1. Saved \subseteq Events BY DEF Saved
  <2>2. None \in Reflected /\ Saved \in Reflected BY <2>1 DEF Reflected
  <2> QED BY <1>1, <2>2 DEF DataOK
<1>5. ASSUME AfterGet(p), UNCHANGED <<msg, at, lock, lapses>>,
             got' \in [Proc -> Reflected] => DataOK'
      PROVE  IInv'
  <2>1. got' \in [Proc -> Reflected] BY <1>1, <1>4, <1>5 DEF AfterGet, DataOK
  <2>2. CASE p \in Readers
    <3>1. p \notin Workers BY <2>2, RecoAssumption DEF RecoAssumption
    <3> QED BY <1>2, <1>3, <1>5, <2>1, <2>2, <3>1, QuietMove, Labels DEF AfterGet
  <2>3. CASE p \notin Readers
    <3>1. \E l \in {"endVersion", "embed"} : Goto(p, l)
      BY <1>5, <2>3 DEF AfterGet
    <3> QED BY <1>2, <1>3, <1>5, <2>1, <3>1, QuietMove, Labels
  <2> QED BY <2>2, <2>3
<1>6. CASE GetProfile(p)
  <2>1. DataOK' BY <1>1, <1>6 DEF DataOK, GetProfile
  <2>2. \E l \in {"getVector", "readEvents"} : Goto(p, l)
    BY <1>6 DEF GetProfile
  <2> QED BY <1>2, <1>3, <1>6, <2>1, <2>2, QuietMove, Labels DEF GetProfile
<1>7. CASE ReadEvents(p)
  <2>1. DataOK' BY <1>1, <1>4, <1>7 DEF DataOK, ReadEvents
  <2> QED BY <1>2, <1>3, <1>7, <2>1, QuietMove, Labels DEF ReadEvents
<1>8. CASE SetProfile(p)
  <2>1. DataOK' BY <1>1, <1>4, <1>8 DEF DataOK, SetProfile
  <2> QED BY <1>2, <1>3, <1>8, <2>1, QuietMove, Labels DEF SetProfile
<1>9. CASE GetVector(p)
  <2>1. CASE AfterGet(p)
    <3>1. got' \in [Proc -> Reflected] => DataOK' BY <1>1, <1>9 DEF DataOK, GetVector
    <3> QED BY <1>5, <1>9, <2>1, <3>1 DEF GetVector
  <2>2. CASE Goto(p, "readPoint") /\ UNCHANGED got
    <3>1. DataOK' BY <1>1, <1>9, <2>2 DEF DataOK, GetVector
    <3> QED BY <1>2, <1>3, <1>9, <2>2, <3>1, QuietMove, Labels DEF GetVector
  <2> QED BY <1>9, <2>1, <2>2 DEF GetVector
<1>10. CASE ReadPoint(p)
  <2>1. CASE AfterGet(p) /\ UNCHANGED old
    <3>1. got' \in [Proc -> Reflected] => DataOK'
      BY <1>1, <1>10, <2>1 DEF DataOK, ReadPoint
    <3> QED BY <1>5, <1>10, <2>1, <3>1 DEF ReadPoint
  <2>2. CASE old' = [old EXCEPT ![p] = point] /\ Goto(p, "warm") /\ UNCHANGED got
    <3>1. DataOK' BY <1>1, <1>10, <2>2 DEF DataOK, ReadPoint
    <3> QED BY <1>2, <1>3, <1>10, <2>2, <3>1, QuietMove, Labels DEF ReadPoint
  <2> QED BY <1>10, <2>1, <2>2 DEF ReadPoint
<1>11. CASE WarmVector(p)
  <2>1. got' \in [Proc -> Reflected] => DataOK'
    BY <1>1, <1>4, <1>11 DEF DataOK, WarmVector
  <2> QED BY <1>5, <1>11, <2>1 DEF WarmVector
<1> QED BY <1>6, <1>7, <1>8, <1>9, <1>10, <1>11 DEF Get
LEMMA BuildStep ==
    ASSUME IInv, NEW w \in Workers, Build(w)
    PROVE  IInv'
<1> USE DEF queues, redis, local, bounds
<1>1. TypeOK /\ PlaceOK /\ DataOK BY TypeParts DEF IInv
<1>2. w \in Proc /\ w \notin Consumers
  BY RecoAssumption DEF Proc, RecoAssumption
<1>3. None \in Reflected /\ got[w] \in Reflected
  <2>1. None \in Reflected BY DEF Reflected
  <2> QED BY <1>1, <1>2, <2>1 DEF DataOK
\* Most steps move the worker inside the build and leave the lock alone.
<1>4. ASSUME NEW l \in BuildPC, Goto(w, l), pc[w] \in BuildPC,
             UNCHANGED <<msg, at, lock, lapses>>, DataOK'
      PROVE  IInv'
  BY <1>2, <1>4, QuietMove, Labels
<1>5. CASE HasPending(w)
  <2>1. DataOK' BY <1>1, <1>5 DEF DataOK, HasPending
  <2>2. \E l \in {"startVersion", "release"} : Goto(w, l) BY <1>5 DEF HasPending
  <2> QED BY <1>4, <1>5, <2>1, <2>2, Labels DEF HasPending
<1>6. CASE StartVersion(w)
  <2>1. DataOK' BY <1>1, <1>6 DEF DataOK, StartVersion
  <2> QED BY <1>4, <1>6, <2>1, Labels DEF StartVersion
<1>7. CASE Embed(w)
  <2>1. DataOK' BY <1>1, <1>7 DEF DataOK, Embed
  <2> QED BY <1>4, <1>7, <2>1, Labels DEF Embed
<1>8. CASE BuildFails(w)
  <2>1. DataOK' BY <1>1, <1>8 DEF DataOK, BuildFails
  <2> QED BY <1>4, <1>8, <2>1, Labels DEF BuildFails
<1>9. CASE SetVector(w)
  <2>1. DataOK' BY <1>1, <1>3, <1>9 DEF DataOK, SetVector
  <2> QED BY <1>4, <1>9, <2>1, Labels DEF SetVector
<1>10. CASE SavePoint(w)
  <2>1. DataOK' BY <1>1, <1>3, <1>10 DEF DataOK, SavePoint
  <2> QED BY <1>4, <1>10, <2>1, Labels DEF SavePoint
<1>11. CASE EndVersion(w)
  <2>1. DataOK' BY <1>1, <1>3, <1>11 DEF DataOK, EndVersion
  <2> QED BY <1>4, <1>11, <2>1, Labels DEF EndVersion
<1>12. CASE RemovePending(w)
  <2>1. DataOK' BY <1>1, <1>12 DEF DataOK, RemovePending
  <2>2. \E l \in {"release", "rebuild"} : Goto(w, l) BY <1>12 DEF RemovePending
  <2> QED BY <1>4, <1>12, <2>1, <2>2, Labels DEF RemovePending
<1>13. CASE Rebuild(w)
  <2>1. DataOK' BY <1>1, <1>13 DEF DataOK, Rebuild
  <2>2. \E l \in {"release", "reschedule"} : Goto(w, l) BY <1>13 DEF Rebuild
  <2> QED BY <1>4, <1>13, <2>1, <2>2, Labels DEF Rebuild
<1>14. CASE Reschedule(w)
  <2>1. tasks' \in [1..MaxRuns -> Nat]
    BY <1>1, <1>14, MaxRunsNat DEF DataOK, Reschedule, Enqueue
  <2>2. DataOK' BY <1>1, <1>14, <2>1 DEF DataOK, Reschedule
  <2> QED BY <1>4, <1>14, <2>2, Labels DEF Reschedule
<1>15. CASE ReleaseLock(w)
  <2> DEFINE l == IF pc[w] = "release" THEN "idle" ELSE "retry"
  <2>1. DataOK' BY <1>1, <1>3, <1>15 DEF DataOK, ReleaseLock, ResetWorker
  <2>2. PlaceOK'
    BY <1>1, <1>2, <1>15, Move, Labels DEF ReleaseLock
  <2>3. w \in Building /\ Building' = Building \ {w}
    BY <1>1, <1>2, <1>15, Labels DEF ReleaseLock, Goto, Building, PlaceOK, Proc
  <2>4. BuildersBounded'
    <3>1. IsFiniteSet(Building)
      <4>1. Building \subseteq Workers BY DEF Building
      <4>2. IsFiniteSet(Workers) BY RecoAssumption DEF RecoAssumption
      <4> QED BY <4>1, <4>2, FS_Subset
    <3>2. Cardinality(Building') = Cardinality(Building) - 1
      BY <2>3, <3>1, FS_RemoveElement
    <3>3. Cardinality(Building) \in Nat BY <3>1, FS_CardinalityType
    <3>4. lapses \in Nat /\ lock \in BOOLEAN /\ lapses' = lapses /\ lock' = FALSE
      BY <1>1, <1>15 DEF DataOK, ReleaseLock
    <3>5. Cardinality(Building) <= lapses + (IF lock THEN 1 ELSE 0)
      BY DEF IInv, BuildersBounded
    <3>6. Cardinality(Building) <= lapses + 1 BY <3>3, <3>4, <3>5
    <3>7. Cardinality(Building') <= lapses BY <3>2, <3>3, <3>4, <3>6
    <3> QED BY <3>4, <3>7 DEF BuildersBounded
  <2>5. OneConsumer' BY <1>15 DEF ReleaseLock, OneConsumer, IInv
  <2> QED BY <2>1, <2>2, <2>4, <2>5 DEF IInv, TypeOK, DataOK, PlaceOK
<1>16. CASE Retry(w)
  <2>1. tasks' \in [1..MaxRuns -> Nat]
    <3>1. run[w] \in 1..MaxRuns BY <1>1 DEF DataOK
    <3>2. CASE run[w] < MaxRuns
      <4>1. run[w] + 1 \in 1..MaxRuns BY <3>1, <3>2, MaxRunsNat
      <4>2. tasks' = [tasks EXCEPT ![run[w] + 1] = @ + 1]
        BY <1>16, <3>2 DEF Retry, Enqueue
      <4> QED BY <1>1, <4>1, <4>2 DEF DataOK
    <3>3. CASE ~ (run[w] < MaxRuns)
      BY <1>1, <1>16, <3>3 DEF DataOK, Retry
    <3> QED BY <3>2, <3>3
  <2>2. DataOK' BY <1>1, <1>16, <2>1 DEF DataOK, Retry
  <2> QED BY <1>2, <1>16, <2>2, QuietMove, Labels DEF Retry
<1> QED BY <1>5, <1>6, <1>7, <1>8, <1>9, <1>10, <1>11, <1>12, <1>13, <1>14, <1>15, <1>16
        DEF Build

LEMMA StartStep ==
    ASSUME IInv, Start
    PROVE  IInv'
<1> USE DEF queues, redis, local, bounds
<1>1. TypeOK /\ PlaceOK /\ DataOK BY TypeParts DEF IInv
<1>2. CASE \E c \in Consumers, e \in Events : Take(c, e)
  <2>1. PICK c \in Consumers, e \in Events : Take(c, e) BY <1>2
  <2>2. DataOK' BY <1>1, <2>1 DEF DataOK, Take
  <2>3. c \in Proc /\ c \notin Workers
    BY RecoAssumption DEF Proc, RecoAssumption
  <2>4. /\ pc[c] = "idle" /\ at[c] = None /\ msg[e] = "queued"
        /\ pc' = [pc EXCEPT ![c] = "dedup"] /\ at' = [at EXCEPT ![c] = e]
        /\ msg' = [msg EXCEPT ![e] = "taken"]
    BY <1>1, <2>1 DEF Take, MayStart, Goto, PlaceOK
  <2>5. \A d \in Consumers : at[d] # e BY <1>1, <2>4, RecoAssumption DEF PlaceOK, RecoAssumption
  <2>6. PlaceOK'
    <3>1. pc' \in [Proc -> PC] /\ at' \in [Consumers -> Events \cup {None}]
          /\ msg' \in [Events -> {"unsent", "queued", "taken", "done", "dead"}]
      BY <1>1, <2>3, <2>4, Labels DEF PlaceOK
    <3>2. ASSUME NEW d \in Consumers
          PROVE  /\ pc'[d] \in ConsumerPC \cup {"idle"}
                 /\ pc'[d] # "idle" <=> at'[d] # None
                 /\ at'[d] # None => msg'[at'[d]] = "taken"
      <4>1. CASE d = c
        <5>1. e # None BY RecoAssumption DEF RecoAssumption
        <5> QED BY <1>1, <2>3, <2>4, <4>1, <5>1, Labels DEF PlaceOK
      <4>2. CASE d # c
        <5>1. pc'[d] = pc[d] /\ at'[d] = at[d]
          BY <1>1, <2>4, <4>2 DEF PlaceOK, Proc
        <5>2. at[d] # None => at[d] \in Events BY <1>1 DEF PlaceOK
        <5> QED BY <1>1, <2>4, <2>5, <5>1, <5>2 DEF PlaceOK
      <4> QED BY <4>1, <4>2
    <3>3. \A w \in Workers : pc'[w] = pc[w]
      BY <1>1, <2>3, <2>4 DEF PlaceOK, Proc
    <3> QED BY <1>1, <3>1, <3>2, <3>3 DEF PlaceOK
  <2>7. OneConsumer' BY <1>1, <2>4, <2>5 DEF OneConsumer, IInv, PlaceOK
  <2>8. Building' \subseteq Building BY <1>1, <2>3, <2>4 DEF Building, PlaceOK, Proc
  <2>9. BuildersBounded'
    <3>1. lapses \in Nat /\ UNCHANGED <<lapses, lock>> BY <1>1, <2>1 DEF DataOK, Take
    <3>2. lapses' + (IF lock' THEN 1 ELSE 0) >= lapses + (IF lock THEN 1 ELSE 0)
      BY <3>1
    <3> QED BY <1>1, <2>8, <3>1, <3>2, Shrinks DEF IInv
  <2> QED BY <2>2, <2>6, <2>7, <2>9 DEF IInv, TypeOK, DataOK, PlaceOK
<1>3. CASE \E w \in Workers, r \in 1..MaxRuns : StartBuild(w, r)
  <2>1. PICK w \in Workers, r \in 1..MaxRuns : StartBuild(w, r) BY <1>3
  <2>2. w \in Proc /\ w \notin Consumers
    BY RecoAssumption DEF Proc, RecoAssumption
  <2>3. tasks' \in [1..MaxRuns -> Nat]
    <3>1. tasks[r] \in Nat /\ tasks[r] > 0 BY <1>1, <2>1 DEF DataOK, StartBuild, Due
    <3>2. tasks[r] - 1 \in Nat BY <3>1
    <3>3. tasks' = [tasks EXCEPT ![r] = tasks[r] - 1] BY <2>1 DEF StartBuild
    <3> QED BY <1>1, <3>2, <3>3 DEF DataOK
  <2>4. CASE lock
    <3>1. UNCHANGED <<msg, rows, dedup, version, pending, lock, profile, vector, point, pc,
                      at, got, old, start, seenEnd, run, crashes, failures, outages, lapses>>
      BY <1>1, <2>1, <2>4 DEF StartBuild, DataOK
    <3>2. TypeOK' BY <1>1, <2>3, <3>1 DEF TypeOK
    <3> QED BY <3>1, <3>2 DEF IInv, OneConsumer, BuildersBounded, Building
  <2>5. CASE ~ lock
    <3>1. /\ run' = [run EXCEPT ![w] = r] /\ Goto(w, "hasPending") /\ lock' = TRUE
          /\ UNCHANGED <<msg, rows, dedup, version, pending, profile, vector, point,
                         at, got, old, start, seenEnd, crashes, failures, outages, lapses>>
      BY <2>1, <2>5 DEF StartBuild
    <3>2. DataOK' BY <1>1, <2>3, <3>1 DEF DataOK
    <3>3. PlaceOK' BY <1>1, <2>2, <3>1, Move, Labels
    <3>4. Building' \subseteq Building \cup {w}
      BY <1>1, <3>1 DEF Building, Goto, PlaceOK, Proc
    <3>5. BuildersBounded'
      <4>1. IsFiniteSet(Building)
        <5>1. Building \subseteq Workers BY DEF Building
        <5>2. IsFiniteSet(Workers) BY RecoAssumption DEF RecoAssumption
        <5> QED BY <5>1, <5>2, FS_Subset
      <4>2. /\ IsFiniteSet(Building \cup {w})
            /\ Cardinality(Building \cup {w}) <= Cardinality(Building) + 1
        <5>1. Cardinality(Building) \in Nat BY <4>1, FS_CardinalityType
        <5>2. /\ IsFiniteSet(Building \cup {w})
              /\ \/ Cardinality(Building \cup {w}) = Cardinality(Building)
                 \/ Cardinality(Building \cup {w}) = Cardinality(Building) + 1
          BY <4>1, FS_AddElement
        <5> QED BY <5>1, <5>2
      <4>3. IsFiniteSet(Building') /\ Cardinality(Building') <= Cardinality(Building \cup {w})
        BY <3>4, <4>2, FS_Subset
      <4>4. /\ Cardinality(Building) \in Nat /\ Cardinality(Building') \in Nat
            /\ Cardinality(Building \cup {w}) \in Nat
        BY <4>1, <4>2, <4>3, FS_CardinalityType
      <4>5. lapses \in Nat /\ Cardinality(Building) <= lapses
        BY <1>1, <2>5 DEF DataOK, IInv, BuildersBounded
      <4>6. Cardinality(Building') <= lapses + 1 BY <4>2, <4>3, <4>4, <4>5
      <4> QED BY <3>1, <4>6 DEF BuildersBounded
    <3>6. OneConsumer' BY <3>1 DEF OneConsumer, IInv
    <3> QED BY <3>2, <3>3, <3>5, <3>6 DEF IInv, TypeOK, DataOK, PlaceOK
  <2> QED BY <2>4, <2>5
<1>4. CASE \E r \in Readers : StartRead(r)
  <2>1. PICK r \in Readers : StartRead(r) BY <1>4
  <2>2. r \in Proc /\ r \notin Consumers /\ r \notin Workers
    BY RecoAssumption DEF Proc, RecoAssumption
  <2>3. DataOK' BY <1>1, <2>1 DEF DataOK, StartRead
  <2> QED BY <2>1, <2>2, <2>3, QuietMove, Labels DEF StartRead
<1> QED BY <1>2, <1>3, <1>4 DEF Start

LEMMA EnvironmentStep ==
    ASSUME IInv, Environment
    PROVE  IInv'
<1> USE DEF queues, redis, local, bounds
<1>1. TypeOK /\ PlaceOK /\ DataOK BY TypeParts DEF IInv
<1>2. CASE \E e \in Events : Publish(e)
  <2>1. PICK e \in Events : Publish(e) BY <1>2
  <2>2. DataOK' BY <1>1, <2>1 DEF DataOK, Publish
  <2>3. PlaceOK'
    <3>1. msg[e] = "unsent" /\ msg' = [msg EXCEPT ![e] = "queued"] /\ UNCHANGED <<pc, at>>
      BY <2>1 DEF Publish
    <3>2. ASSUME NEW c \in Consumers, at[c] # None
          PROVE  msg'[at[c]] = "taken"
      BY <1>1, <3>1, <3>2 DEF PlaceOK
    <3> QED BY <1>1, <3>1, <3>2 DEF PlaceOK
  <2>4. OneConsumer' /\ BuildersBounded'
    BY <2>1 DEF IInv, OneConsumer, BuildersBounded, Building, Publish
  <2> QED BY <2>2, <2>3, <2>4 DEF IInv, TypeOK, DataOK, PlaceOK
<1>3. ASSUME DataOK', UNCHANGED <<msg, pc, at>>,
             lapses' + (IF lock' THEN 1 ELSE 0) >= lapses + (IF lock THEN 1 ELSE 0)
      PROVE  IInv'
  <2>1. PlaceOK' /\ OneConsumer' BY <1>1, <1>3 DEF PlaceOK, OneConsumer, IInv
  <2>2. Building' \subseteq Building BY <1>3 DEF Building
  <2>3. lapses' \in Nat BY <1>3 DEF DataOK
  <2>4. BuildersBounded' BY <1>1, <1>3, <2>2, <2>3, Shrinks DEF IInv
  <2> QED BY <1>3, <2>1, <2>4 DEF IInv, TypeOK, DataOK, PlaceOK
<1>4. lapses \in Nat /\ lock \in BOOLEAN BY <1>1 DEF DataOK
<1>5. CASE ExpireFlag
  <2>1. DataOK'
    <3>1. lapses' \in Nat BY <1>4, <1>5 DEF ExpireFlag
    <3>2. pending' \in BOOLEAN BY <1>5 DEF ExpireFlag
    <3> QED BY <1>1, <1>5, <3>1, <3>2 DEF DataOK, ExpireFlag
  <2>2. lapses' + (IF lock' THEN 1 ELSE 0) >= lapses + (IF lock THEN 1 ELSE 0)
    BY <1>4, <1>5 DEF ExpireFlag
  <2> QED BY <1>3, <1>5, <2>1, <2>2 DEF ExpireFlag
<1>6. CASE ExpireLock
  <2>1. DataOK'
    <3>1. lapses' \in Nat BY <1>4, <1>6 DEF ExpireLock
    <3>2. lock' \in BOOLEAN BY <1>6 DEF ExpireLock
    <3> QED BY <1>1, <1>6, <3>1, <3>2 DEF DataOK, ExpireLock
  <2>2. lapses' + (IF lock' THEN 1 ELSE 0) >= lapses + (IF lock THEN 1 ELSE 0)
    BY <1>4, <1>6 DEF ExpireLock
  <2> QED BY <1>3, <1>6, <2>1, <2>2 DEF ExpireLock
<1>7. CASE ExpireKeys
  <2>1. None \in Reflected BY DEF Reflected
  <2>2. DataOK' BY <1>1, <1>7, <2>1 DEF DataOK, ExpireKeys
  <2>3. lapses' + (IF lock' THEN 1 ELSE 0) >= lapses + (IF lock THEN 1 ELSE 0)
    BY <1>4, <1>7 DEF ExpireKeys
  <2> QED BY <1>3, <1>7, <2>2, <2>3 DEF ExpireKeys
<1>8. CASE \E p \in Proc : Crash(p)
  <2>1. PICK p \in Proc : Crash(p) BY <1>8
  <2>2. None \in Reflected BY DEF Reflected
  <2>3. CASE p \in Consumers /\ Settle(p, "queued") /\ UNCHANGED <<tasks, got, old, start, seenEnd>>
    <3>1. DataOK' BY <1>1, <2>1, <2>3 DEF DataOK, Crash
    <3> QED BY <2>1, <2>3, <3>1, SettleStep DEF Crash
  <2>4. CASE p \in Workers /\ Enqueue(run[p]) /\ Goto(p, "idle") /\ ResetWorker(p)
             /\ UNCHANGED <<msg, at>>
    <3>1. tasks' \in [1..MaxRuns -> Nat]
      <4>1. run[p] \in 1..MaxRuns BY <1>1, <2>4 DEF DataOK
      <4> QED BY <1>1, <2>4, <4>1 DEF DataOK, Enqueue
    <3>2. DataOK' BY <1>1, <2>1, <2>2, <2>4, <3>1 DEF DataOK, Crash, ResetWorker
    <3>3. p \notin Consumers BY <2>4, RecoAssumption DEF RecoAssumption
    <3> QED BY <2>1, <2>4, <3>2, <3>3, QuietMove, Labels DEF Crash
  <2>5. CASE p \in Readers /\ Goto(p, "idle") /\ got' = [got EXCEPT ![p] = None]
             /\ old' = [old EXCEPT ![p] = None] /\ UNCHANGED <<msg, at, tasks, start, seenEnd>>
    <3>1. DataOK' BY <1>1, <2>1, <2>2, <2>5 DEF DataOK, Crash
    <3>2. p \notin Consumers /\ p \notin Workers
      BY <2>5, RecoAssumption DEF RecoAssumption
    <3> QED BY <2>1, <2>5, <3>1, <3>2, QuietMove, Labels DEF Crash
  <2> QED BY <2>1, <2>3, <2>4, <2>5 DEF Crash
<1> QED BY <1>2, <1>5, <1>6, <1>7, <1>8 DEF Environment

-----------------------------------------------------------------------------
\* IInv holds in every state the profile's processes can reach, for any number of
\* events, consumers, workers, readers, crashes and expirations.
THEOREM Invariance == Spec => []IInv
<1> USE DEF queues, redis, local, bounds
<1>1. Init => IInv
  <2> SUFFICES ASSUME Init PROVE IInv OBVIOUS
  <2>1. None \in Reflected BY DEF Reflected
  <2>2. DataOK
    <3>1. tasks \in [1..MaxRuns -> Nat] /\ run \in [Workers -> 1..MaxRuns]
      BY MaxRunsNat DEF Init
    <3>2. pending \in BOOLEAN /\ lock \in BOOLEAN BY DEF Init
    <3> QED BY <2>1, <3>1, <3>2 DEF Init, DataOK
  <2>3. PlaceOK BY Labels DEF Init, PlaceOK, Proc
  <2>4. OneConsumer BY DEF Init, OneConsumer
  <2>5. BuildersBounded
    <3>1. Building = {} BY Labels DEF Init, Building, Proc
    <3> QED BY <3>1, FS_EmptySet DEF Init, BuildersBounded
  <2> QED BY <2>2, <2>3, <2>4, <2>5, TypeParts DEF IInv
<1>2. IInv /\ [Next]_vars => IInv'
  <2> SUFFICES ASSUME IInv, [Next]_vars PROVE IInv' OBVIOUS
  <2>1. CASE Start BY <2>1, StartStep
  <2>2. CASE \E p \in Proc : Step(p)
    <3>1. PICK p \in Proc : Step(p) BY <2>2
    <3> QED BY <3>1, ConsumeStep, GetStep, BuildStep DEF Step
  <2>3. CASE Environment BY <2>3, EnvironmentStep
  <2>4. CASE UNCHANGED vars
    BY <2>4 DEF vars, IInv, TypeOK, OneConsumer, BuildersBounded, Building
  <2> QED BY <2>1, <2>2, <2>3, <2>4 DEF Next
<1> QED BY <1>1, <1>2, PTL DEF Spec

\* Every value keeps its type and every process a place in its own program; a
\* message in a consumer's hands is never acknowledged by another one.
THEOREM TypeCorrect == Spec => []TypeOK
<1>1. IInv => TypeOK BY DEF IInv
<1> QED BY <1>1, Invariance, PTL

\* No RabbitMQ message is handled by two consumers at once, redeliveries after a
\* crash included.
THEOREM OneConsumerAtATime == Spec => []OneConsumer
<1>1. IInv => OneConsumer BY DEF IInv
<1> QED BY <1>1, Invariance, PTL

\* Builds of one user's vector (acquire_lock to release_lock) overlap at most as
\* often as the lock has run out, for any number of workers, tasks and retries,
\* although release_lock deletes the key without checking its owner.
THEOREM OverlapIsBounded == Spec => []BuildersBounded
<1>1. IInv => BuildersBounded BY DEF IInv
<1> QED BY <1>1, Invariance, PTL

-----------------------------------------------------------------------------
\* The pending flag.  That it is acted on needs two more facts.  A task that finds
\* the lock taken ends, so the lock must be a sign of a build at work (LockHeld);
\* and the last retry of a build that failed leaves no task, so the number of a
\* run must tell how many builds failed before it (RunsCounted).

\* Places of a worker that will take the flag down, or see to a retry.
Acting == (BuildPC \ {"rebuild", "release"}) \cup {"retry"}

\* A lock that is set belongs to a build at work, until a worker dies.
LockHeld == crashes = 0 /\ lock => Building # {}

\* A task is in its r-th run, or given up, only after that many failures.
RunsCounted ==
    /\ \A r \in 1..MaxRuns : tasks[r] > 0 => r <= failures + 1
    /\ \A w \in Workers : /\ pc[w] # "idle" => run[w] <= failures + 1
                          /\ pc[w] \in {"giveUp", "retry"} => run[w] <= failures

FlagHasTask == Prompt /\ failures < MaxRuns => PendingHasTask

FlagInv == LockHeld /\ RunsCounted /\ FlagHasTask

LEMMA Grows ==
    /\ \A i, j, k \in Nat : i <= j + 1 /\ j <= k => i <= k + 1
    /\ \A i, j \in Nat : i + j = 0 => i = 0 /\ j = 0
OBVIOUS

\* A process moves; nobody who would act on the flag is lost.
LEMMA FlagMove ==
    ASSUME TypeOK, FlagInv, TypeOK', NEW p \in Proc, NEW l \in PC, Goto(p, l),
           pending' => pending, UNCHANGED <<tasks, lock, run>>,
           failures' >= failures, crashes' >= crashes, outages' >= outages,
           p \in Consumers /\ pc[p] = "schedule" => outages' > 0 \/ crashes' > 0,
           p \in Workers => /\ pc[p] \in BuildPC => l \in BuildPC
                            /\ pc[p] \in Acting => l \in Acting \/ ~pending'
                            /\ l # "idle" => pc[p] # "idle"
                            /\ l \in {"giveUp", "retry"} => run[p] <= failures'
    PROVE  FlagInv'
<1>1. /\ pc' \in [Proc -> PC] /\ pc'[p] = l
      /\ \A q \in Proc : q # p => pc'[q] = pc[q]
      /\ Workers \subseteq Proc /\ Consumers \subseteq Proc
  BY DEF TypeOK, Goto, Proc
<1>2. /\ failures \in Nat /\ failures' \in Nat /\ crashes \in Nat /\ crashes' \in Nat
      /\ outages \in Nat /\ outages' \in Nat /\ run \in [Workers -> 1..MaxRuns]
      /\ MaxRuns \in Nat
  BY MaxRunsNat DEF TypeOK
<1>3. LockHeld'
  <2> SUFFICES ASSUME crashes' = 0, lock' PROVE Building' # {} BY DEF LockHeld
  <2>1. PICK w \in Workers : pc[w] \in BuildPC BY <1>2 DEF FlagInv, LockHeld, Building
  <2>2. pc'[w] \in BuildPC BY <1>1, <2>1
  <2> QED BY <2>2 DEF Building
<1>4. RunsCounted'
  <2>1. ASSUME NEW r \in 1..MaxRuns, tasks'[r] > 0 PROVE r <= failures' + 1
    <3>1. tasks[r] > 0 BY <2>1
    <3>2. r <= failures + 1 BY <3>1 DEF FlagInv, RunsCounted
    <3>3. r \in Nat BY <1>2
    <3>4. failures <= failures' BY <1>2
    <3> QED BY <1>2, <3>2, <3>3, <3>4, Grows
  <2>2. ASSUME NEW w \in Workers
        PROVE  /\ pc'[w] # "idle" => run'[w] <= failures' + 1
               /\ pc'[w] \in {"giveUp", "retry"} => run'[w] <= failures'
    BY <1>1, <1>2, <2>2 DEF FlagInv, RunsCounted
  <2> QED BY <2>1, <2>2 DEF RunsCounted
<1>5. FlagHasTask'
  <2> SUFFICES ASSUME Prompt, failures' < MaxRuns, pending', outages' + crashes' = 0
               PROVE  \/ \E r \in 1..MaxRuns : tasks'[r] > 0
                      \/ \E c \in Consumers : pc'[c] = "schedule"
                      \/ \E w \in Workers : pc'[w] \in Acting
    BY DEF FlagHasTask, PendingHasTask, Acting
  <2>1. /\ outages' = 0 /\ crashes' = 0
        /\ outages + crashes = 0 /\ failures < MaxRuns
    <3>1. outages' = 0 /\ crashes' = 0 BY <1>2, Grows
    <3>2. outages = 0 /\ crashes = 0 /\ failures < MaxRuns BY <1>2, <3>1
    <3> QED BY <3>1, <3>2
  <2>2. \/ \E r \in 1..MaxRuns : tasks[r] > 0
        \/ \E c \in Consumers : pc[c] = "schedule"
        \/ \E w \in Workers : pc[w] \in Acting
    BY <2>1 DEF FlagInv, FlagHasTask, PendingHasTask, Acting
  <2> QED BY <1>1, <2>1, <2>2
<1> QED BY <1>3, <1>4, <1>5 DEF FlagInv

\* A task is queued, or a worker begins to act on the flag.
LEMMA FlagCovered ==
    ASSUME TypeOK', LockHeld', RunsCounted',
           \/ \E r \in 1..MaxRuns : tasks'[r] > 0
           \/ \E c \in Consumers : pc'[c] = "schedule"
           \/ \E w \in Workers : pc'[w] \in Acting
    PROVE  FlagInv'
BY DEF FlagInv, FlagHasTask, PendingHasTask, Acting

\* Whoever moves leaves the lock and the counts of runs as they have to be.
LEMMA LockKept ==
    ASSUME TypeOK, FlagInv, TypeOK', NEW p \in Proc, NEW l \in PC, Goto(p, l),
           lock' => lock, crashes' >= crashes, l \notin {"idle", "giveUp", "retry"},
           UNCHANGED run, failures' = failures, p \in Workers => pc[p] # "idle",
           p \in Workers => l \in BuildPC,
           \A r \in 1..MaxRuns : tasks'[r] > 0 => tasks[r] > 0 \/ r = 1
    PROVE  LockHeld' /\ RunsCounted'
<1>1. /\ pc' \in [Proc -> PC] /\ pc'[p] = l
      /\ \A q \in Proc : q # p => pc'[q] = pc[q]
      /\ Workers \subseteq Proc /\ Consumers \subseteq Proc
  BY DEF TypeOK, Goto, Proc
<1>2. crashes \in Nat /\ crashes' \in Nat /\ failures \in Nat BY DEF TypeOK
<1>3. LockHeld'
  <2> SUFFICES ASSUME crashes' = 0, lock' PROVE Building' # {} BY DEF LockHeld
  <2>1. PICK w \in Workers : pc[w] \in BuildPC BY <1>2 DEF FlagInv, LockHeld, Building
  <2>2. pc'[w] \in BuildPC BY <1>1, <2>1
  <2> QED BY <2>2 DEF Building
<1>4. RunsCounted'
  <2>1. ASSUME NEW r \in 1..MaxRuns, tasks'[r] > 0 PROVE r <= failures' + 1
    <3>1. CASE tasks[r] > 0 BY <3>1 DEF FlagInv, RunsCounted
    <3>2. CASE r = 1 BY <1>2, <3>2
    <3> QED BY <2>1, <3>1, <3>2
  <2>2. ASSUME NEW w \in Workers
        PROVE  /\ pc'[w] # "idle" => run'[w] <= failures' + 1
               /\ pc'[w] \in {"giveUp", "retry"} => run'[w] <= failures'
    BY <1>1, <1>2, <2>2 DEF FlagInv, RunsCounted
  <2> QED BY <2>1, <2>2 DEF RunsCounted
<1> QED BY <1>3, <1>4

LEMMA ConsumeFlag ==
    ASSUME TypeOK, TypeOK', FlagInv, NEW c \in Consumers, Consume(c)
    PROVE  FlagInv'
<1> USE DEF queues, redis, local, bounds
<1>1. c \in Proc /\ c \notin Workers
  BY RecoAssumption DEF Proc, RecoAssumption
<1>2. /\ failures \in Nat /\ crashes \in Nat /\ outages \in Nat
      /\ failures + 1 >= failures /\ outages + 1 >= outages
      /\ failures >= failures /\ crashes >= crashes /\ outages >= outages
  BY DEF TypeOK
<1>3. ASSUME NEW l \in {"save", "invalidate", "incr", "flag", "idle"}, Goto(c, l),
             pending' => pending, UNCHANGED <<tasks, lock, run>>,
             failures' >= failures, crashes' >= crashes, outages' >= outages,
             pc[c] = "schedule" => outages' > 0
      PROVE  FlagInv'
  BY <1>1, <1>3, FlagMove, Labels
<1>4. ASSUME NEW o, Settle(c, o) PROVE Goto(c, "idle") BY <1>4 DEF Settle
<1>5. CASE Dedup(c) BY <1>2, <1>3, <1>4, <1>5 DEF Dedup
<1>6. CASE Save(c) BY <1>2, <1>3, <1>6 DEF Save
<1>7. CASE SaveFails(c) BY <1>2, <1>3, <1>4, <1>7 DEF SaveFails
<1>8. CASE Invalidate(c) BY <1>2, <1>3, <1>8 DEF Invalidate
<1>9. CASE IncrementVersion(c) BY <1>2, <1>3, <1>9 DEF IncrementVersion
<1>10. CASE SetFlag(c)
  <2>1. CASE pending BY <1>2, <1>3, <1>4, <1>10, <2>1 DEF SetFlag
  <2>2. CASE ~pending
    <3>1. Goto(c, "schedule") /\ UNCHANGED <<tasks, lock, run, failures, crashes>>
      BY <1>10, <2>2 DEF SetFlag
    <3>2. LockHeld' /\ RunsCounted' BY <1>1, <1>2, <3>1, LockKept, Labels
    <3>3. pc'[c] = "schedule" BY <1>1, <3>1 DEF Goto, TypeOK
    <3> QED BY <3>2, <3>3, FlagCovered
  <2> QED BY <2>1, <2>2
<1>11. CASE Schedule(c)
  <2>1. Goto(c, "idle") /\ UNCHANGED <<lock, run, failures, crashes>>
        /\ tasks' = [tasks EXCEPT ![1] = @ + 1]
    BY <1>11 DEF Schedule, Settle, Enqueue
  <2>2. 1 \in 1..MaxRuns /\ tasks \in [1..MaxRuns -> Nat] BY MaxRunsNat DEF TypeOK
  <2>3. tasks'[1] > 0 /\ \A r \in 1..MaxRuns : r # 1 => tasks'[r] = tasks[r]
    BY <2>1, <2>2
  <2>4. \A w \in Workers : pc'[w] = pc[w] BY <1>1, <2>1 DEF Goto, TypeOK, Proc
  <2>5. LockHeld' BY <2>1, <2>4 DEF LockHeld, FlagInv, Building
  <2>6. RunsCounted' BY <1>2, <2>1, <2>3, <2>4 DEF RunsCounted, FlagInv
  <2> QED BY <2>2, <2>3, <2>5, <2>6, FlagCovered
<1>12. CASE Outage(c)
  <2>1. outages' > 0 BY <1>2, <1>12 DEF Outage
  <2> QED BY <1>2, <1>3, <1>4, <1>12, <2>1 DEF Outage
<1> QED BY <1>5, <1>6, <1>7, <1>8, <1>9, <1>10, <1>11, <1>12 DEF Consume

LEMMA GetFlag ==
    ASSUME TypeOK, TypeOK', FlagInv, NEW p \in Proc, Get(p)
    PROVE  FlagInv'
<1> USE DEF queues, redis, local, bounds
<1>1. pc[p] \in GetPC
  BY Labels DEF Get, GetProfile, ReadEvents, SetProfile, GetVector, ReadPoint, WarmVector
<1>2. p \notin Consumers BY <1>1, Labels DEF TypeOK
<1>3. UNCHANGED <<tasks, lock, run, pending, failures, crashes, outages>>
  BY DEF Get, GetProfile, ReadEvents, SetProfile, GetVector, ReadPoint, WarmVector
<1>4. \E l \in PC : /\ Goto(p, l)
                    /\ p \in Workers => l \in GetPC \cup {"endVersion", "embed"}
  <2>1. AfterGet(p) => \E l \in PC : /\ Goto(p, l)
                                     /\ p \in Workers => l \in {"endVersion", "embed"}
    BY RecoAssumption, Labels DEF AfterGet, RecoAssumption
  <2>2. {"getVector", "readEvents", "setProfile", "readPoint", "warm"} \subseteq GetPC \cap PC
    BY Labels DEF GetPC
  <2>3. CASE GetProfile(p) BY <2>2, <2>3 DEF GetProfile
  <2>4. CASE ReadEvents(p) BY <2>2, <2>4 DEF ReadEvents
  <2>5. CASE SetProfile(p) BY <2>2, <2>5 DEF SetProfile
  <2>6. CASE GetVector(p) BY <2>1, <2>2, <2>6 DEF GetVector
  <2>7. CASE ReadPoint(p) BY <2>1, <2>2, <2>7 DEF ReadPoint
  <2>8. CASE WarmVector(p) BY <2>1, <2>8 DEF WarmVector
  <2> QED BY <2>3, <2>4, <2>5, <2>6, <2>7, <2>8 DEF Get
<1>5. failures \in Nat /\ crashes \in Nat /\ outages \in Nat BY DEF TypeOK
<1>6. GetPC \cup {"endVersion", "embed"} \subseteq Acting \cap BuildPC
  BY Labels DEF Acting, GetPC
<1>7. \A l \in GetPC \cup {"endVersion", "embed"} : l \notin {"giveUp", "retry"}
  BY DEF GetPC
<1>8. failures' >= failures /\ crashes' >= crashes /\ outages' >= outages
  BY <1>3, <1>5
<1>9. pc[p] # "idle" BY <1>1, Labels
<1>10. PICK l \in PC : /\ Goto(p, l)
                       /\ p \in Workers => l \in GetPC \cup {"endVersion", "embed"}
  BY <1>4
<1>11. p \in Workers => l \in Acting /\ l \in BuildPC /\ l \notin {"giveUp", "retry"}
  BY <1>6, <1>7, <1>10
<1> QED BY <1>2, <1>3, <1>8, <1>9, <1>10, <1>11, FlagMove

LEMMA BuildFlag ==
    ASSUME TypeOK, TypeOK', FlagInv, NEW w \in Workers, Build(w)
    PROVE  FlagInv'
<1> USE DEF queues, redis, local, bounds
<1>1. w \in Proc /\ w \notin Consumers
  BY RecoAssumption DEF Proc, RecoAssumption
<1>2. /\ failures \in Nat /\ crashes \in Nat /\ outages \in Nat /\ run[w] \in 1..MaxRuns
      /\ failures + 1 >= failures /\ MaxRuns \in Nat \ {0}
      /\ failures >= failures /\ crashes >= crashes /\ outages >= outages
  BY MaxRunsNat DEF TypeOK
\* Most steps stay among those that act on the flag.
<1>3. ASSUME NEW l \in BuildPC \ {"giveUp"}, Goto(w, l), pc[w] \in BuildPC,
             pending' => pending, l \in Acting \/ ~pending' \/ pc[w] = "rebuild",
             UNCHANGED <<tasks, lock, run, failures, crashes, outages>>
      PROVE  FlagInv'
  <2>1. l \notin {"idle", "giveUp", "retry"} BY <1>3, Labels
  <2>2. pc[w] = "rebuild" => pc[w] \notin Acting BY DEF Acting
  <2>3. pc[w] # "idle" BY <1>3, Labels
  <2> QED BY <1>1, <1>2, <1>3, <2>1, <2>2, <2>3, FlagMove, Labels
<1>4. {"startVersion", "getProfile", "setVector", "savePoint", "endVersion",
       "removePending", "reschedule"} \subseteq Acting \ {"giveUp"}
  BY Labels DEF Acting
<1>5. CASE HasPending(w) BY <1>3, <1>4, <1>5, Labels DEF HasPending
<1>6. CASE StartVersion(w) BY <1>3, <1>4, <1>6, Labels DEF StartVersion
<1>7. CASE Embed(w) BY <1>3, <1>4, <1>7, Labels DEF Embed
<1>8. CASE BuildFails(w)
  <2>1. run[w] <= failures'
    <3>1. pc[w] # "idle" BY <1>8, Labels DEF BuildFails
    <3> QED BY <3>1, <1>8 DEF FlagInv, RunsCounted, BuildFails
  <2>2. "giveUp" \in Acting /\ pc[w] # "idle" BY <1>8, Labels DEF Acting, BuildFails
  <2> QED BY <1>1, <1>2, <1>8, <2>1, <2>2, FlagMove, Labels DEF BuildFails
<1>9. CASE SetVector(w) BY <1>3, <1>4, <1>9, Labels DEF SetVector
<1>10. CASE SavePoint(w) BY <1>3, <1>4, <1>10, Labels DEF SavePoint
<1>11. CASE EndVersion(w) BY <1>3, <1>4, <1>11, Labels DEF EndVersion
<1>12. CASE RemovePending(w) BY <1>3, <1>12, Labels DEF RemovePending
<1>13. CASE Rebuild(w)
  <2>1. CASE pending BY <1>3, <1>13, <2>1, Labels DEF Rebuild
  <2>2. CASE ~pending
    <3>1. Goto(w, "reschedule") /\ pc[w] = "rebuild"
          /\ UNCHANGED <<tasks, lock, run, failures, crashes>>
      BY <1>13, <2>2 DEF Rebuild
    <3>2. LockHeld' /\ RunsCounted' BY <1>1, <1>2, <3>1, LockKept, Labels
    <3>3. pc'[w] \in Acting BY <1>1, <1>4, <3>1 DEF Goto, TypeOK
    <3> QED BY <3>2, <3>3, FlagCovered
  <2> QED BY <2>1, <2>2
<1>14. CASE Reschedule(w)
  <2>1. /\ Goto(w, "release") /\ pc[w] = "reschedule"
        /\ UNCHANGED <<lock, run, failures, crashes>>
        /\ tasks' = [tasks EXCEPT ![1] = @ + 1]
    BY <1>14 DEF Reschedule, Enqueue
  <2>2. 1 \in 1..MaxRuns /\ tasks \in [1..MaxRuns -> Nat]
    <3>1. 1 \in 1..MaxRuns BY MaxRunsNat
    <3>2. tasks \in [1..MaxRuns -> Nat] BY DEF TypeOK
    <3> QED BY <3>1, <3>2
  <2>3. tasks'[1] > 0 /\ \A r \in 1..MaxRuns : r # 1 => tasks'[r] = tasks[r]
    BY <2>1, <2>2
  <2>4. LockHeld' /\ RunsCounted' BY <1>1, <1>2, <2>1, <2>3, LockKept, Labels
  <2> QED BY <2>2, <2>3, <2>4, FlagCovered
<1>15. CASE ReleaseLock(w)
  <2>1. /\ pc[w] \in {"release", "giveUp"} /\ lock' = FALSE
        /\ Goto(w, IF pc[w] = "release" THEN "idle" ELSE "retry")
        /\ UNCHANGED <<tasks, run, pending, failures, crashes, outages>>
    BY <1>15 DEF ReleaseLock
  <2>2. /\ \A q \in Proc : q # w => pc'[q] = pc[q]
        /\ pc'[w] = IF pc[w] = "release" THEN "idle" ELSE "retry"
        /\ Workers \subseteq Proc /\ Consumers \subseteq Proc
    BY <1>1, <2>1 DEF Goto, TypeOK, Proc
  <2>3. LockHeld' BY <2>1 DEF LockHeld
  <2>4. RunsCounted' BY <2>1, <2>2 DEF RunsCounted, FlagInv
  <2>5. ASSUME FlagHasTask, Prompt, failures < MaxRuns, pending, outages + crashes = 0
        PROVE  \/ \E r \in 1..MaxRuns : tasks'[r] > 0
               \/ \E c \in Consumers : pc'[c] = "schedule"
               \/ \E v \in Workers : pc'[v] \in Acting
    <3>1. \/ \E r \in 1..MaxRuns : tasks[r] > 0
          \/ \E c \in Consumers : pc[c] = "schedule"
          \/ \E v \in Workers : pc[v] \in Acting
      BY <2>5 DEF FlagHasTask, PendingHasTask, Acting
    <3>2. pc[w] \in Acting => pc'[w] \in Acting BY <2>1, <2>2 DEF Acting
    <3> QED BY <1>1, <2>1, <2>2, <3>1, <3>2
  <2>6. FlagHasTask' BY <2>1, <2>5 DEF FlagHasTask, PendingHasTask, FlagInv, Acting
  <2> QED BY <2>3, <2>4, <2>6 DEF FlagInv
<1>16. CASE Retry(w)
  <2>1. /\ pc[w] = "retry" /\ Goto(w, "idle") /\ run[w] <= failures
        /\ UNCHANGED <<lock, run, pending, failures, crashes, outages>>
    BY <1>16 DEF Retry, FlagInv, RunsCounted
  <2>2. CASE run[w] < MaxRuns
    <3>1. tasks' = [tasks EXCEPT ![run[w] + 1] = @ + 1] BY <1>16, <2>2 DEF Retry, Enqueue
    <3>2. run[w] + 1 \in 1..MaxRuns BY <1>2, <2>2
    <3>3. /\ tasks'[run[w] + 1] > 0
          /\ \A r \in 1..MaxRuns : r # run[w] + 1 => tasks'[r] = tasks[r]
      BY <3>1, <3>2 DEF TypeOK
    <3>4. /\ \A q \in Proc : q # w => pc'[q] = pc[q]
          /\ pc'[w] = "idle" /\ Workers \subseteq Proc
      BY <1>1, <2>1 DEF Goto, TypeOK, Proc
    <3>5. \A v \in Workers : pc[v] \in BuildPC => pc'[v] = pc[v]
      BY <2>1, <3>4, Labels
    <3>6. LockHeld' BY <2>1, <3>5 DEF LockHeld, FlagInv, Building
    <3>7. run[w] + 1 <= failures + 1 BY <1>2, <2>1
    <3>8. RunsCounted' BY <2>1, <3>3, <3>4, <3>7 DEF RunsCounted, FlagInv
    <3> QED BY <3>2, <3>3, <3>6, <3>8, FlagCovered
  <2>3. CASE ~ (run[w] < MaxRuns)
    <3>1. UNCHANGED tasks BY <1>16, <2>3 DEF Retry
    <3>2. ~ (failures < MaxRuns) BY <1>2, <2>1, <2>3
    <3>3. /\ \A q \in Proc : q # w => pc'[q] = pc[q]
          /\ pc'[w] = "idle" /\ Workers \subseteq Proc
      BY <1>1, <2>1 DEF Goto, TypeOK, Proc
    <3>4. \A v \in Workers : pc[v] \in BuildPC => pc'[v] = pc[v]
      BY <2>1, <3>3, Labels
    <3>5. LockHeld' BY <2>1, <3>4 DEF LockHeld, FlagInv, Building
    <3>6. RunsCounted' BY <2>1, <3>1, <3>3 DEF RunsCounted, FlagInv
    <3> QED BY <2>1, <3>2, <3>5, <3>6 DEF FlagInv, FlagHasTask
  <2> QED BY <2>2, <2>3
<1> QED BY <1>5, <1>6, <1>7, <1>8, <1>9, <1>10, <1>11, <1>12, <1>13, <1>14, <1>15, <1>16
        DEF Build

LEMMA StartFlag ==
    ASSUME TypeOK, TypeOK', FlagInv, Start
    PROVE  FlagInv'
<1> USE DEF queues, redis, local, bounds
<1>1. /\ failures \in Nat /\ crashes \in Nat /\ outages \in Nat
      /\ failures >= failures /\ crashes >= crashes /\ outages >= outages
  BY DEF TypeOK
<1>2. CASE \E c \in Consumers, e \in Events : Take(c, e)
  <2>1. PICK c \in Consumers, e \in Events : Take(c, e) BY <1>2
  <2>2. c \in Proc /\ c \notin Workers
    BY RecoAssumption DEF Proc, RecoAssumption
  <2>3. Goto(c, "dedup") /\ pc[c] = "idle"
        /\ UNCHANGED <<pending, tasks, lock, run, failures, crashes, outages>>
    BY <2>1 DEF Take, MayStart
  <2> QED BY <1>1, <2>2, <2>3, FlagMove, Labels
<1>3. CASE \E w \in Workers, r \in 1..MaxRuns : StartBuild(w, r)
  <2>1. PICK w \in Workers, r \in 1..MaxRuns : StartBuild(w, r) BY <1>3
  <2>2. /\ pc[w] = "idle" /\ tasks[r] > 0 /\ lock'
        /\ tasks' = [tasks EXCEPT ![r] = @ - 1]
        /\ UNCHANGED <<pending, failures, crashes, outages>>
    BY <2>1 DEF StartBuild, MayStart, Due
  <2>3. \A s \in 1..MaxRuns : tasks'[s] > 0 => tasks[s] > 0
    BY <2>2 DEF TypeOK
  <2>4. CASE lock
    <3>1. UNCHANGED <<run, pc>> BY <2>1, <2>4 DEF StartBuild
    <3>2. LockHeld' BY <2>2, <2>4, <3>1 DEF LockHeld, FlagInv, Building
    <3>3. RunsCounted' BY <2>2, <2>3, <3>1 DEF RunsCounted, FlagInv
    <3>4. ASSUME Prompt, crashes = 0
          PROVE  \E v \in Workers : pc'[v] \in Acting
      <4>1. PICK v \in Workers : pc[v] \in BuildPC
        BY <2>4, <3>4 DEF LockHeld, FlagInv, Building
      <4>2. pc[v] \notin {"rebuild", "release"} BY <2>1, <3>4 DEF StartBuild, Due
      <4> QED BY <3>1, <4>1, <4>2 DEF Acting
    <3>5. outages + crashes = 0 => crashes = 0 BY <1>1, Grows
    <3>6. FlagHasTask' BY <2>2, <3>4, <3>5 DEF FlagHasTask, PendingHasTask, Acting
    <3> QED BY <3>2, <3>3, <3>6 DEF FlagInv
  <2>5. CASE ~lock
    <3>1. run' = [run EXCEPT ![w] = r] /\ Goto(w, "hasPending")
      BY <2>1, <2>5 DEF StartBuild
    <3>2. /\ \A v \in Workers : v # w => pc'[v] = pc[v] /\ run'[v] = run[v]
          /\ pc'[w] = "hasPending" /\ run'[w] = r
      BY <3>1 DEF Goto, TypeOK, Proc
    <3>3. r <= failures + 1 BY <2>2 DEF FlagInv, RunsCounted
    <3>4. pc'[w] \in BuildPC \cap Acting BY <3>2, Labels DEF Acting
    <3>5. LockHeld' BY <3>4 DEF LockHeld, Building
    <3>6. RunsCounted' BY <2>2, <2>3, <3>2, <3>3 DEF RunsCounted, FlagInv
    <3> QED BY <3>4, <3>5, <3>6, FlagCovered
  <2> QED BY <2>4, <2>5
<1>4. CASE \E r \in Readers : StartRead(r)
  <2>1. PICK r \in Readers : StartRead(r) BY <1>4
  <2>2. r \in Proc /\ r \notin Consumers /\ r \notin Workers
    BY RecoAssumption DEF Proc, RecoAssumption
  <2>3. Goto(r, "getProfile")
        /\ UNCHANGED <<pending, tasks, lock, run, failures, crashes, outages>>
    BY <2>1 DEF StartRead
  <2> QED BY <1>1, <2>2, <2>3, FlagMove, Labels
<1> QED BY <1>2, <1>3, <1>4 DEF Start

LEMMA EnvironmentFlag ==
    ASSUME TypeOK, TypeOK', FlagInv, Environment
    PROVE  FlagInv'
<1> USE DEF queues, redis, local, bounds
<1>1. ASSUME UNCHANGED <<pc, tasks, run, failures, crashes, outages>>,
             pending' => pending, lock' => lock
      PROVE  FlagInv'
  <2>1. LockHeld' BY <1>1 DEF LockHeld, FlagInv, Building
  <2>2. RunsCounted' BY <1>1 DEF RunsCounted, FlagInv
  <2>3. FlagHasTask' BY <1>1 DEF FlagHasTask, FlagInv, PendingHasTask
  <2> QED BY <2>1, <2>2, <2>3 DEF FlagInv
<1>2. CASE \E e \in Events : Publish(e) BY <1>1, <1>2 DEF Publish
<1>3. CASE ExpireFlag BY <1>1, <1>3 DEF ExpireFlag
<1>4. CASE ExpireLock BY <1>1, <1>4 DEF ExpireLock
<1>5. CASE ExpireKeys BY <1>1, <1>5 DEF ExpireKeys
<1>6. CASE \E p \in Proc : Crash(p)
  <2>1. PICK p \in Proc : Crash(p) BY <1>6
  <2>2. crashes' \in Nat /\ crashes' > 0 /\ outages' \in Nat
        /\ UNCHANGED <<run, failures>> /\ failures \in Nat
    BY <2>1 DEF Crash, TypeOK
  <2>3. crashes' # 0 BY <2>2
  <2>4. LockHeld' /\ FlagHasTask'
    <3>1. ~ (outages' + crashes' = 0) BY <2>2, <2>3, Grows
    <3>2. LockHeld' BY <2>3 DEF LockHeld
    <3>3. FlagHasTask' BY <3>1 DEF FlagHasTask, PendingHasTask
    <3> QED BY <3>2, <3>3
  <2>5. Goto(p, "idle") /\ pc[p] # "idle" BY <2>1 DEF Crash, Settle
  <2>6. \A w \in Workers : pc'[w] = "idle" \/ pc'[w] = pc[w]
    BY <2>5 DEF Goto, TypeOK, Proc
  <2>7. \A r \in 1..MaxRuns : tasks'[r] > 0 => tasks[r] > 0 \/ (p \in Workers /\ r = run[p])
    <3>1. CASE UNCHANGED tasks BY <3>1
    <3>2. CASE Enqueue(run[p]) /\ p \in Workers
      <4>1. run[p] \in 1..MaxRuns /\ tasks \in [1..MaxRuns -> Nat] BY <3>2 DEF TypeOK
      <4> QED BY <3>2, <4>1 DEF Enqueue
    <3> QED BY <2>1, <3>1, <3>2 DEF Crash
  <2>8. p \in Workers => run[p] <= failures + 1 BY <2>5 DEF FlagInv, RunsCounted
  <2>9. RunsCounted' BY <2>2, <2>6, <2>7, <2>8 DEF RunsCounted, FlagInv
  <2> QED BY <2>4, <2>9 DEF FlagInv
<1> QED BY <1>2, <1>3, <1>4, <1>5, <1>6 DEF Environment

\* A pending flag is acted on, whatever builds fail, locks run out and workers
\* take the task twice, as long as the calls of a build that is about to end are
\* quicker than the delay of the next task, and fewer builds failed than a task
\* has runs.
THEOREM TheFlagIsActedOn ==
    Spec => [](Prompt /\ failures < MaxRuns => PendingHasTask)
<1>1. Init => FlagInv
  <2> SUFFICES ASSUME Init PROVE FlagInv OBVIOUS
  <2>1. LockHeld /\ FlagHasTask
    BY DEF Init, LockHeld, FlagHasTask, PendingHasTask
  <2>2. RunsCounted
    <3>1. \A r \in 1..MaxRuns : tasks[r] = 0 BY DEF Init
    <3>2. \A w \in Workers : pc[w] = "idle" BY DEF Init, Proc
    <3> QED BY <3>1, <3>2 DEF RunsCounted
  <2> QED BY <2>1, <2>2 DEF FlagInv
<1>2. TypeOK /\ TypeOK' /\ FlagInv /\ [Next]_vars => FlagInv'
  <2> SUFFICES ASSUME TypeOK, TypeOK', FlagInv, [Next]_vars PROVE FlagInv' OBVIOUS
  <2>1. CASE Start BY <2>1, StartFlag
  <2>2. CASE \E p \in Proc : Step(p)
    <3>1. PICK p \in Proc : Step(p) BY <2>2
    <3> QED BY <3>1, ConsumeFlag, GetFlag, BuildFlag DEF Step
  <2>3. CASE Environment BY <2>3, EnvironmentFlag
  <2>4. CASE UNCHANGED vars
    BY <2>4 DEF vars, queues, redis, local, bounds, FlagInv, LockHeld, RunsCounted,
                FlagHasTask, PendingHasTask, Building
  <2> QED BY <2>1, <2>2, <2>3, <2>4 DEF Next
<1>3. FlagInv => (Prompt /\ failures < MaxRuns => PendingHasTask)
  BY DEF FlagInv, FlagHasTask
<1> QED BY <1>1, <1>2, <1>3, TypeCorrect, PTL DEF Spec

-----------------------------------------------------------------------------
\* The events.  A view is dropped because of the key of its book alone: the key
\* must stand for a view that was taken (DedupHasView); and what is settled past
\* the save must have its row (RowsFirst).

\* A consumer past the save has the row of its event.
After == {"invalidate", "incr", "flag", "schedule"}

RowsFirst == \A c \in Consumers : pc[c] \in After => rows[at[c]] > 0

\* A view stands for the book of event e, and will be or has been settled.
Stands(f, b) ==
    /\ BookOf[f] = b
    /\ \/ msg[f] \in {"done", "dead"}
       \/ \E c \in Consumers : at[c] = f /\ pc[c] # "dedup"

DedupHasView == crashes = 0 => \A b \in dedup : \E f \in Views : Stands(f, b)

SaveInv == RowsFirst /\ DedupHasView /\ DoneIsSaved

Seen == {"taken", "done", "dead"}

\* Rows and outcomes stay, and whatever is new has its reason.
LEMMA Forward ==
    ASSUME TypeOK, SaveInv, crashes' = crashes,
           \A e \in Events : /\ rows[e] > 0 => rows'[e] > 0
                             /\ rows'[e] = 0 => rows[e] = 0
                             /\ msg[e] \in Seen => msg'[e] \in Seen
                             /\ msg[e] \in {"done", "dead"} => msg'[e] = msg[e]
                             /\ msg'[e] = "done" => \/ msg[e] = "done" \/ rows[e] > 0
                                                    \/ crashes # 0
                                                    \/ e \in Views /\ \E f \in Views \ {e} :
                                                         BookOf[f] = BookOf[e] /\ msg'[f] \in Seen,
           \A c \in Consumers :
               /\ pc'[c] \in After => rows'[at'[c]] > 0
               /\ at[c] # None /\ pc[c] # "dedup" =>
                      \/ at'[c] = at[c] /\ pc'[c] # "dedup"
                      \/ msg'[at[c]] \in {"done", "dead"},
           \A b \in dedup' : \/ b \in dedup
                             \/ \E f \in Views, c \in Consumers :
                                  BookOf[f] = b /\ at'[c] = f /\ pc'[c] # "dedup"
    PROVE  SaveInv'
<1>1. RowsFirst' BY DEF RowsFirst
<1>2. Views \subseteq Events /\ None \notin Events
  BY RecoAssumption DEF RecoAssumption
<1>3. DedupHasView'
  <2> SUFFICES ASSUME crashes' = 0, NEW b \in dedup' PROVE \E f \in Views : Stands(f, b)'
    BY DEF DedupHasView
  <2>1. CASE b \in dedup
    <3>1. PICK f \in Views : Stands(f, b) BY <2>1 DEF SaveInv, DedupHasView
    <3>2. Stands(f, b)'
      <4>1. CASE msg[f] \in {"done", "dead"} BY <1>2, <3>1, <4>1 DEF Stands
      <4>2. CASE \E c \in Consumers : at[c] = f /\ pc[c] # "dedup"
        BY <1>2, <3>1, <4>2 DEF Stands
      <4> QED BY <3>1, <4>1, <4>2 DEF Stands
    <3> QED BY <3>2
  <2>2. CASE \E f \in Views, c \in Consumers :
                BookOf[f] = b /\ at'[c] = f /\ pc'[c] # "dedup"
    BY <2>2 DEF Stands
  <2> QED BY <2>1, <2>2
<1>4. DoneIsSaved'
  <2> SUFFICES ASSUME NEW e \in Events, msg'[e] = "done", rows'[e] = 0, crashes' = 0
               PROVE  e \in Views /\ \E f \in Views \ {e} : BookOf[f] = BookOf[e] /\ msg'[f] \in Seen
    BY DEF DoneIsSaved, Seen
  <2>1. CASE msg[e] = "done"
    <3>1. e \in Views /\ \E f \in Views \ {e} : BookOf[f] = BookOf[e] /\ msg[f] \in Seen
      BY <2>1 DEF SaveInv, DoneIsSaved, Seen
    <3> QED BY <1>2, <3>1
  <2>2. ~ (rows[e] > 0) BY DEF TypeOK
  <2> QED BY <2>1, <2>2
<1> QED BY <1>1, <1>3, <1>4 DEF SaveInv

\* A process moves on and keeps its message.
LEMMA SaveMove ==
    ASSUME TypeOK, SaveInv, NEW p \in Proc, NEW l \in PC \ {"dedup"}, Goto(p, l),
           UNCHANGED <<msg, at, rows, crashes>>, dedup' \subseteq dedup,
           p \in Consumers /\ l \in After => pc[p] \in After
    PROVE  SaveInv'
<1>1. /\ pc'[p] = l /\ \A q \in Proc : q # p => pc'[q] = pc[q]
      /\ Consumers \subseteq Proc
  BY DEF TypeOK, Goto, Proc
<1>2. \A c \in Consumers : /\ pc'[c] \in After => rows'[at'[c]] > 0
                           /\ pc[c] # "dedup" => pc'[c] # "dedup"
  BY <1>1 DEF SaveInv, RowsFirst
<1> QED BY <1>2, Forward

\* A consumer settles its message, done only if its row is there.
LEMMA SaveSettle ==
    ASSUME TypeOK, OneConsumer, SaveInv, NEW c \in Consumers, pc[c] # "idle",
           NEW o \in {"done", "dead"}, Settle(c, o), UNCHANGED <<rows, dedup, crashes>>,
           o = "done" => \/ rows[at[c]] > 0 \/ crashes # 0
                         \/ at[c] \in Views /\ \E f \in Views \ {at[c]} :
                              BookOf[f] = BookOf[at[c]] /\ msg[f] \in Seen
    PROVE  SaveInv'
<1>1. /\ at[c] \in Events /\ msg[at[c]] = "taken" /\ c \in Proc
      /\ Views \subseteq Events /\ None \notin Events
  BY RecoAssumption DEF TypeOK, RecoAssumption, Proc
<1>2. /\ msg'[at[c]] = o /\ \A e \in Events : e # at[c] => msg'[e] = msg[e]
      /\ pc'[c] = "idle" /\ at'[c] = None
      /\ \A d \in Consumers : d # c => pc'[d] = pc[d] /\ at'[d] = at[d]
  BY <1>1 DEF Settle, Goto, TypeOK, Proc
<1>3. \A e \in Events : /\ msg[e] \in Seen => msg'[e] \in Seen
                        /\ msg[e] \in {"done", "dead"} => msg'[e] = msg[e]
  BY <1>1, <1>2 DEF Seen
<1>4. \A e \in Events : msg'[e] = "done" => \/ msg[e] = "done" \/ rows[e] > 0
                                            \/ crashes # 0
                                            \/ e \in Views /\ \E f \in Views \ {e} :
                                                 BookOf[f] = BookOf[e] /\ msg'[f] \in Seen
  <2> TAKE e \in Events
  <2>1. CASE e # at[c] BY <1>2, <2>1
  <2>2. CASE e = at[c] BY <1>1, <1>2, <1>3, <2>2
  <2> QED BY <2>1, <2>2
<1>5. \A d \in Consumers : pc'[d] \in After => rows'[at'[d]] > 0
  BY <1>2 DEF SaveInv, RowsFirst, After
<1>6. \A d \in Consumers : at[d] # None /\ pc[d] # "dedup" =>
                      \/ at'[d] = at[d] /\ pc'[d] # "dedup"
                      \/ msg'[at[d]] \in {"done", "dead"}
  BY <1>2
<1> QED BY <1>3, <1>4, <1>5, <1>6, Forward

LEMMA ConsumeSaves ==
    ASSUME TypeOK, OneConsumer, SaveInv, NEW c \in Consumers, Consume(c)
    PROVE  SaveInv'
<1> USE DEF queues, redis, local, bounds
<1>1. /\ c \in Proc /\ Views \subseteq Events /\ None \notin Events
      /\ BookOf \in [Events -> Books]
  BY RecoAssumption DEF RecoAssumption, Proc
<1>2. pc[c] \in ConsumerPC =>
          at[c] \in Events /\ msg[at[c]] = "taken" /\ pc[c] # "idle"
  BY Labels DEF TypeOK
<1>3. pc[c] \in After => rows[at[c]] > 0 BY DEF SaveInv, RowsFirst
<1>4. "idle" \notin After /\ {"save", "incr", "flag", "schedule", "idle", "invalidate"} \subseteq PC \ {"dedup"}
  BY Labels DEF After
<1>5. CASE Dedup(c)
  <2>0. pc[c] = "dedup" /\ at[c] \in Events /\ msg[at[c]] = "taken" BY <1>2, <1>5, Labels DEF Dedup
  <2>1. CASE at[c] \in Views /\ BookOf[at[c]] \in dedup
    <3>1. crashes = 0 => \E f \in Views \ {at[c]} :
                            BookOf[f] = BookOf[at[c]] /\ msg[f] \in Seen
      <4> SUFFICES ASSUME crashes = 0
                   PROVE  \E f \in Views \ {at[c]} : BookOf[f] = BookOf[at[c]] /\ msg[f] \in Seen
        OBVIOUS
      <4>1. PICK f \in Views : Stands(f, BookOf[at[c]]) BY <2>1 DEF SaveInv, DedupHasView
      <4>2. CASE msg[f] \in {"done", "dead"} BY <2>0, <4>1, <4>2 DEF Stands, Seen
      <4>3. CASE \E d \in Consumers : at[d] = f /\ pc[d] # "dedup"
        <5>1. PICK d \in Consumers : at[d] = f /\ pc[d] # "dedup" BY <4>3
        <5>2. f # None BY <1>1
        <5>3. msg[f] = "taken" /\ d # c BY <2>0, <5>1, <5>2 DEF TypeOK
        <5>4. f # at[c] BY <1>1, <2>0, <5>1, <5>3 DEF OneConsumer
        <5> QED BY <4>1, <5>3, <5>4 DEF Stands, Seen
      <4> QED BY <4>1, <4>2, <4>3 DEF Stands
    <3>2. Settle(c, "done") /\ UNCHANGED <<rows, dedup, crashes>>
      BY <1>5, <2>1 DEF Dedup
    <3> QED BY <2>0, <2>1, <3>1, <3>2, SaveSettle
  <2>2. CASE ~ (at[c] \in Views /\ BookOf[at[c]] \in dedup)
    <3>1. /\ dedup' = IF at[c] \in Views THEN dedup \cup {BookOf[at[c]]} ELSE dedup
          /\ Goto(c, "save") /\ UNCHANGED <<msg, at, rows, crashes>>
      BY <1>5, <2>2 DEF Dedup
    <3>2. pc'[c] = "save" /\ \A d \in Consumers : d # c => pc'[d] = pc[d]
      BY <1>1, <3>1 DEF Goto, TypeOK, Proc
    <3>3. \A d \in Consumers : /\ pc'[d] \in After => rows'[at'[d]] > 0
                               /\ pc[d] # "dedup" => pc'[d] # "dedup"
      BY <3>1, <3>2 DEF SaveInv, RowsFirst, After
    <3>4. \A b \in dedup' : \/ b \in dedup
                            \/ \E f \in Views, d \in Consumers :
                                  BookOf[f] = b /\ at'[d] = f /\ pc'[d] # "dedup"
      BY <3>1, <3>2
    <3> QED BY <3>1, <3>3, <3>4, Forward
  <2> QED BY <2>1, <2>2
<1>6. CASE Save(c)
  <2>1. /\ pc[c] = "save" /\ rows' = [rows EXCEPT ![at[c]] = @ + 1]
        /\ Goto(c, "invalidate") /\ UNCHANGED <<msg, at, dedup, crashes>>
    BY <1>6 DEF Save
  <2>2. at[c] \in Events /\ rows \in [Events -> Nat] BY <1>2, <2>1, Labels DEF TypeOK
  <2>3. \A e \in Events : rows'[e] \in Nat /\ rows[e] \in Nat /\ rows'[e] >= rows[e]
    BY <2>1, <2>2
  <2>4. rows'[at[c]] > 0 BY <2>1, <2>2
  <2>5. pc'[c] = "invalidate" /\ \A d \in Consumers : d # c => pc'[d] = pc[d]
    BY <1>1, <2>1 DEF Goto, TypeOK, Proc
  <2>6. \A e \in Events : (rows[e] > 0 => rows'[e] > 0) /\ (rows'[e] = 0 => rows[e] = 0)
    BY <2>3
  <2>7. ASSUME NEW d \in Consumers
        PROVE  /\ pc'[d] \in After => rows'[at'[d]] > 0
               /\ pc[d] # "dedup" => pc'[d] # "dedup"
    <3>1. CASE d = c BY <2>1, <2>4, <2>5, <3>1
    <3>2. CASE d # c
      <4>1. pc[d] \in After => at[d] \in Events BY Labels DEF TypeOK, After
      <4> QED BY <2>1, <2>5, <2>6, <3>2, <4>1 DEF SaveInv, RowsFirst
    <3> QED BY <3>1, <3>2
  <2> QED BY <2>1, <2>6, <2>7, Forward
<1>7. CASE SaveFails(c)
  BY <1>2, <1>7, SaveSettle, Labels DEF SaveFails
<1>8. CASE Invalidate(c)
  BY <1>1, <1>4, <1>8, SaveMove, Labels DEF Invalidate, After
<1>9. CASE IncrementVersion(c)
  BY <1>1, <1>4, <1>9, SaveMove, Labels DEF IncrementVersion, After
<1>10. CASE SetFlag(c)
  <2>1. pc[c] = "flag" /\ pc[c] # "idle" /\ pc[c] \in After /\ UNCHANGED <<rows, dedup, crashes>>
    BY <1>10 DEF SetFlag, After
  <2>2. CASE pending BY <1>3, <1>10, <2>1, <2>2, SaveSettle DEF SetFlag
  <2>3. CASE ~pending BY <1>1, <1>4, <1>10, <2>1, <2>3, SaveMove DEF SetFlag
  <2> QED BY <2>2, <2>3
<1>11. CASE Schedule(c)
  <2>1. pc[c] = "schedule" /\ pc[c] # "idle" /\ pc[c] \in After /\ UNCHANGED <<rows, dedup, crashes>>
    BY <1>11 DEF Schedule, After
  <2> QED BY <1>3, <1>11, <2>1, SaveSettle DEF Schedule
<1>12. CASE Outage(c)
  <2>0. UNCHANGED <<rows, dedup, crashes>> BY <1>12 DEF Outage
  <2>1. CASE pc[c] = "dedup" /\ Settle(c, "dead") BY <2>0, <2>1, SaveSettle
  <2>2. CASE pc[c] = "invalidate" /\ Goto(c, "incr") /\ UNCHANGED <<msg, at>>
    BY <1>1, <1>4, <2>0, <2>2, SaveMove DEF After
  <2>3. CASE pc[c] \in {"incr", "flag", "schedule"} /\ Settle(c, "done")
    <3>1. pc[c] \in After /\ pc[c] # "idle" BY <2>3 DEF After
    <3> QED BY <1>3, <2>0, <2>3, <3>1, SaveSettle
  <2> QED BY <1>12, <2>1, <2>2, <2>3 DEF Outage
<1> QED BY <1>5, <1>6, <1>7, <1>8, <1>9, <1>10, <1>11, <1>12 DEF Consume

LEMMA GetSaves ==
    ASSUME TypeOK, SaveInv, NEW p \in Proc, Get(p)
    PROVE  SaveInv'
<1> USE DEF queues, redis, local, bounds
<1>1. pc[p] \in GetPC
  BY Labels DEF Get, GetProfile, ReadEvents, SetProfile, GetVector, ReadPoint, WarmVector
<1>2. p \notin Consumers BY <1>1, Labels DEF TypeOK
<1>3. UNCHANGED <<msg, at, rows, crashes, dedup>>
  BY DEF Get, GetProfile, ReadEvents, SetProfile, GetVector, ReadPoint, WarmVector
<1>4. /\ {"getVector", "readEvents", "setProfile", "readPoint", "warm", "idle",
          "endVersion", "embed"} \subseteq PC \ {"dedup"}
  BY Labels
<1>5. AfterGet(p) => \E l \in PC \ {"dedup"} : Goto(p, l) BY <1>4 DEF AfterGet
<1>6. \E l \in PC \ {"dedup"} : Goto(p, l)
  <2>1. CASE GetProfile(p) BY <1>4, <2>1 DEF GetProfile
  <2>2. CASE ReadEvents(p) BY <1>4, <2>2 DEF ReadEvents
  <2>3. CASE SetProfile(p) BY <1>4, <2>3 DEF SetProfile
  <2>4. CASE GetVector(p) BY <1>4, <1>5, <2>4 DEF GetVector
  <2>5. CASE ReadPoint(p) BY <1>4, <1>5, <2>5 DEF ReadPoint
  <2>6. CASE WarmVector(p) BY <1>5, <2>6 DEF WarmVector
  <2> QED BY <2>1, <2>2, <2>3, <2>4, <2>5, <2>6 DEF Get
<1> QED BY <1>2, <1>3, <1>6, SaveMove

LEMMA BuildSaves ==
    ASSUME TypeOK, SaveInv, NEW w \in Workers, Build(w)
    PROVE  SaveInv'
<1> USE DEF queues, redis, local, bounds
<1>1. w \in Proc /\ w \notin Consumers
  BY RecoAssumption DEF Proc, RecoAssumption
<1>2. UNCHANGED <<msg, at, rows, crashes, dedup>>
  BY DEF Build, HasPending, StartVersion, Embed, BuildFails, SetVector, SavePoint, EndVersion,
         RemovePending, Rebuild, Reschedule, ReleaseLock, ResetWorker, Retry
<1>3. {"startVersion", "release", "getProfile", "setVector", "giveUp", "savePoint",
       "endVersion", "removePending", "rebuild", "reschedule", "idle", "retry"}
         \subseteq PC \ {"dedup"}
  BY Labels
<1>4. \E l \in PC \ {"dedup"} : Goto(w, l)
  <2>1. CASE HasPending(w) BY <1>3, <2>1 DEF HasPending
  <2>2. CASE StartVersion(w) BY <1>3, <2>2 DEF StartVersion
  <2>3. CASE Embed(w) BY <1>3, <2>3 DEF Embed
  <2>4. CASE BuildFails(w) BY <1>3, <2>4 DEF BuildFails
  <2>5. CASE SetVector(w) BY <1>3, <2>5 DEF SetVector
  <2>6. CASE SavePoint(w) BY <1>3, <2>6 DEF SavePoint
  <2>7. CASE EndVersion(w) BY <1>3, <2>7 DEF EndVersion
  <2>8. CASE RemovePending(w) BY <1>3, <2>8 DEF RemovePending
  <2>9. CASE Rebuild(w) BY <1>3, <2>9 DEF Rebuild
  <2>10. CASE Reschedule(w) BY <1>3, <2>10 DEF Reschedule
  <2>11. CASE ReleaseLock(w) BY <1>3, <2>11 DEF ReleaseLock
  <2>12. CASE Retry(w) BY <1>3, <2>12 DEF Retry
  <2> QED BY <2>1, <2>2, <2>3, <2>4, <2>5, <2>6, <2>7, <2>8, <2>9, <2>10, <2>11, <2>12 DEF Build
<1> QED BY <1>1, <1>2, <1>4, SaveMove

LEMMA StartSaves ==
    ASSUME TypeOK, SaveInv, Start
    PROVE  SaveInv'
<1> USE DEF queues, redis, local, bounds
<1>0. {"getProfile", "hasPending"} \subseteq PC \ {"dedup"} BY Labels
<1>1. CASE \E c \in Consumers, e \in Events : Take(c, e)
  <2>1. PICK c \in Consumers, e \in Events : Take(c, e) BY <1>1
  <2>2. /\ pc[c] = "idle" /\ msg[e] = "queued" /\ Goto(c, "dedup")
        /\ msg' = [msg EXCEPT ![e] = "taken"] /\ at' = [at EXCEPT ![c] = e]
        /\ UNCHANGED <<rows, dedup, crashes>>
    BY <2>1 DEF Take, MayStart
  <2>3. at[c] = None BY <2>2 DEF TypeOK
  <2>4. /\ pc'[c] = "dedup" /\ \A d \in Consumers : d # c => pc'[d] = pc[d] /\ at'[d] = at[d]
        /\ msg'[e] = "taken" /\ \A f \in Events : f # e => msg'[f] = msg[f]
    BY <2>2 DEF Goto, TypeOK, Proc
  <2>5. \A f \in Events : /\ msg[f] \in Seen => msg'[f] \in Seen
                          /\ msg[f] \in {"done", "dead"} => msg'[f] = msg[f]
                          /\ msg'[f] = "done" => msg[f] = "done"
    BY <2>2, <2>4 DEF Seen
  <2>6. \A d \in Consumers : /\ pc'[d] \in After => rows'[at'[d]] > 0
                             /\ at[d] # None /\ pc[d] # "dedup" =>
                                    at'[d] = at[d] /\ pc'[d] # "dedup"
    BY <2>2, <2>3, <2>4 DEF SaveInv, RowsFirst, After
  <2> QED BY <2>2, <2>5, <2>6, Forward
<1>2. CASE \E w \in Workers, r \in 1..MaxRuns : StartBuild(w, r)
  <2>1. PICK w \in Workers, r \in 1..MaxRuns : StartBuild(w, r) BY <1>2
  <2>2. w \in Proc /\ w \notin Consumers BY RecoAssumption DEF Proc, RecoAssumption
  <2>3. UNCHANGED <<msg, at, rows, crashes, dedup>> BY <2>1 DEF StartBuild
  <2>4. CASE lock BY <2>1, <2>3, <2>4
                  DEF StartBuild, SaveInv, RowsFirst, DedupHasView, Stands, DoneIsSaved
  <2>5. CASE ~lock
    <3>1. Goto(w, "hasPending") BY <2>1, <2>5 DEF StartBuild
    <3> QED BY <1>0, <2>2, <2>3, <3>1, SaveMove
  <2> QED BY <2>4, <2>5
<1>3. CASE \E r \in Readers : StartRead(r)
  <2>1. PICK r \in Readers : StartRead(r) BY <1>3
  <2>2. r \in Proc /\ r \notin Consumers BY RecoAssumption DEF Proc, RecoAssumption
  <2> QED BY <1>0, <2>1, <2>2, SaveMove DEF StartRead
<1> QED BY <1>1, <1>2, <1>3 DEF Start

LEMMA EnvironmentSaves ==
    ASSUME TypeOK, SaveInv, Environment
    PROVE  SaveInv'
<1> USE DEF queues, redis, local, bounds
<1>1. ASSUME UNCHANGED <<msg, rows, pc, at, crashes>>, dedup' \subseteq dedup
      PROVE  SaveInv'
  BY <1>1 DEF SaveInv, RowsFirst, DedupHasView, Stands, DoneIsSaved
<1>2. CASE \E e \in Events : Publish(e)
  <2>1. PICK e \in Events : Publish(e) BY <1>2
  <2>2. /\ msg[e] = "unsent" /\ msg'[e] = "queued" /\ \A f \in Events : f # e => msg'[f] = msg[f]
        /\ UNCHANGED <<rows, dedup, pc, at, crashes>>
    BY <2>1 DEF Publish, TypeOK
  <2>3. \A f \in Events : /\ msg[f] \in Seen => msg'[f] \in Seen
                          /\ msg[f] \in {"done", "dead"} => msg'[f] = msg[f]
                          /\ msg'[f] = "done" => msg[f] = "done"
    BY <2>2 DEF Seen
  <2>4. \A d \in Consumers : pc'[d] \in After => rows'[at'[d]] > 0
    BY <2>2 DEF SaveInv, RowsFirst
  <2> QED BY <2>2, <2>3, <2>4, Forward
<1>3. CASE ExpireFlag BY <1>1, <1>3 DEF ExpireFlag
<1>4. CASE ExpireLock BY <1>1, <1>4 DEF ExpireLock
<1>5. CASE ExpireKeys BY <1>1, <1>5 DEF ExpireKeys
<1>6. CASE \E p \in Proc : Crash(p)
  <2>1. PICK p \in Proc : Crash(p) BY <1>6
  <2>2. crashes' # 0 /\ UNCHANGED rows BY <2>1 DEF Crash, TypeOK
  <2>3. DedupHasView' /\ DoneIsSaved' BY <2>2 DEF DedupHasView, DoneIsSaved
  <2>4. ASSUME NEW c \in Consumers
        PROVE  pc'[c] = "idle" \/ (pc'[c] = pc[c] /\ at'[c] = at[c])
    <3>1. c \in Proc BY DEF Proc
    <3>2. CASE p \in Consumers /\ Settle(p, "queued")
      BY <3>1, <3>2 DEF Settle, Goto, TypeOK
    <3>3. CASE Goto(p, "idle") /\ UNCHANGED at BY <3>1, <3>3 DEF Goto, TypeOK
    <3> QED BY <2>1, <3>2, <3>3 DEF Crash
  <2>5. RowsFirst' BY <2>2, <2>4 DEF RowsFirst, SaveInv, After
  <2> QED BY <2>3, <2>5 DEF SaveInv
<1> QED BY <1>2, <1>3, <1>4, <1>5, <1>6 DEF Environment

\* No event gets lost between the queue and the database: while no process was
\* killed, an event that is done without a row is a view that another view of
\* the book, taken before, stands for.
THEOREM NoEventIsLost == Spec => []DoneIsSaved
<1>1. Init => SaveInv
  <2> SUFFICES ASSUME Init PROVE SaveInv OBVIOUS
  <2>1. \A c \in Consumers : pc[c] = "idle" BY DEF Init, Proc
  <2>2. \A e \in Events : msg[e] = "unsent" BY DEF Init
  <2> QED BY <2>1, <2>2 DEF Init, SaveInv, RowsFirst, After, DedupHasView, DoneIsSaved
<1>2. TypeOK /\ OneConsumer /\ SaveInv /\ [Next]_vars => SaveInv'
  <2> SUFFICES ASSUME TypeOK, OneConsumer, SaveInv, [Next]_vars PROVE SaveInv' OBVIOUS
  <2>1. CASE Start BY <2>1, StartSaves
  <2>2. CASE \E p \in Proc : Step(p)
    <3>1. PICK p \in Proc : Step(p) BY <2>2
    <3> QED BY <3>1, ConsumeSaves, GetSaves, BuildSaves DEF Step
  <2>3. CASE Environment BY <2>3, EnvironmentSaves
  <2>4. CASE UNCHANGED vars
    BY <2>4 DEF vars, queues, redis, local, bounds, SaveInv, RowsFirst, DedupHasView,
                Stands, DoneIsSaved
  <2> QED BY <2>1, <2>2, <2>3, <2>4 DEF Next
<1>3. SaveInv => DoneIsSaved BY DEF SaveInv
<1> QED BY <1>1, <1>2, <1>3, TypeCorrect, OneConsumerAtATime, PTL DEF Spec

-----------------------------------------------------------------------------
\* What is missing from a profile is still to be invalidated.
Covered(s) == \A e \in Saved \ s : \E c \in Consumers : at[c] = e /\ pc[c] = "invalidate"

\* The profile in the cache, and those on their way to it.
AgeInv ==
    outages + crashes = 0 =>
        /\ profile # None /\ ~spoiled => Covered(profile)
        /\ \A p \in Proc \ overtaken : pc[p] = "setProfile" => Covered(got[p])

LEMMA NoMishap ==
    \A i, j, k, l \in Nat : i <= k /\ j <= l /\ k + l = 0 => i + j = 0
OBVIOUS

\* A step that neither saves nor invalidates.
LEMMA AgeKept ==
    ASSUME TypeOK, TypeOK', AgeInv,
           UNCHANGED rows, outages <= outages', crashes <= crashes',
           \A c \in Consumers : pc[c] = "invalidate" => pc'[c] = "invalidate" /\ at'[c] = at[c],
           profile' # None /\ ~spoiled' =>
               \/ profile' = profile /\ ~spoiled
               \/ \E p \in Proc \ overtaken : pc[p] = "setProfile" /\ profile' = got[p],
           \A p \in Proc \ overtaken' : pc'[p] = "setProfile" =>
               \/ pc[p] = "setProfile" /\ p \notin overtaken /\ got'[p] = got[p]
               \/ got'[p] = Saved
    PROVE  AgeInv'
<1> SUFFICES ASSUME (outages + crashes = 0)'
             PROVE  /\ (profile # None /\ ~spoiled => Covered(profile))'
                    /\ (\A p \in Proc \ overtaken : pc[p] = "setProfile" => Covered(got[p]))'
  BY DEF AgeInv
<1>1. outages + crashes = 0
  <2>1. outages \in Nat /\ crashes \in Nat /\ outages' \in Nat /\ crashes' \in Nat
    BY DEF TypeOK
  <2> QED BY <2>1, NoMishap
<1>2. Saved' = Saved BY DEF Saved
<1>3. ASSUME NEW s, Covered(s), NEW e \in Saved \ s
      PROVE  \E c \in Consumers : at'[c] = e /\ pc'[c] = "invalidate"
  BY <1>3 DEF Covered
<1>4. ASSUME profile' # None, ~spoiled', NEW e \in Saved \ profile'
      PROVE  \E c \in Consumers : at'[c] = e /\ pc'[c] = "invalidate"
  <2>1. Covered(profile') BY <1>1, <1>4 DEF AgeInv
  <2> QED BY <1>3, <1>4, <2>1
<1>5. ASSUME NEW p \in Proc \ overtaken', pc'[p] = "setProfile", NEW e \in Saved \ got'[p]
      PROVE  \E c \in Consumers : at'[c] = e /\ pc'[c] = "invalidate"
  <2>1. Covered(got'[p]) BY <1>1, <1>5 DEF AgeInv
  <2> QED BY <1>3, <1>5, <2>1
<1> QED BY <1>2, <1>4, <1>5 DEF Covered

\* The same when one process moves and writes no profile.
LEMMA AgeMoves ==
    ASSUME TypeOK, TypeOK', AgeInv, NEW p \in Proc, NEW l \in PC, Goto(p, l),
           pc[p] # "invalidate", l # "setProfile",
           UNCHANGED <<rows, outages, crashes, stale>>, profile' \in {profile, None},
           \A q \in Proc : q # p => got'[q] = got[q],
           \A c \in Consumers : c # p => at'[c] = at[c]
    PROVE  AgeInv'
<1>1. pc'[p] = l /\ \A q \in Proc : q # p => pc'[q] = pc[q] BY DEF TypeOK, Goto
<1>2. outages <= outages' /\ crashes <= crashes' BY DEF TypeOK
<1>3. \A c \in Consumers : pc[c] = "invalidate" => pc'[c] = "invalidate" /\ at'[c] = at[c]
  BY <1>1 DEF Proc
<1>4. \A q \in Proc \ overtaken' : pc'[q] = "setProfile" =>
          pc[q] = "setProfile" /\ q \notin overtaken /\ got'[q] = got[q]
  BY <1>1 DEF stale
<1>5. profile' # None /\ ~spoiled' => profile' = profile /\ ~spoiled BY DEF stale
<1> QED BY <1>2, <1>3, <1>4, <1>5, AgeKept

LEMMA ConsumeAges ==
    ASSUME TypeOK, TypeOK', AgeInv, NEW c \in Consumers, Consume(c)
    PROVE  AgeInv'
<1> USE DEF queues, redis, local, bounds
<1>0. c \in Proc /\ \A l \in ConsumerPC \cup {"idle"} : l \in PC /\ l # "setProfile"
  BY Labels DEF Proc
<1>1. ASSUME pc[c] # "invalidate", UNCHANGED <<rows, outages, crashes, stale, profile, got>>,
             \/ \E o \in {"done", "dead"} : Settle(c, o)
             \/ \E l \in ConsumerPC : Goto(c, l) /\ UNCHANGED at
      PROVE  AgeInv'
  <2>1. \E l \in ConsumerPC \cup {"idle"} : Goto(c, l) BY <1>1 DEF Settle
  <2>2. \A d \in Consumers : d # c => at'[d] = at[d] BY <1>1 DEF Settle, TypeOK
  <2> QED BY <1>0, <1>1, <2>1, <2>2, AgeMoves
<1>2. CASE Dedup(c) BY <1>1, <1>2, Labels DEF Dedup
<1>3. CASE Save(c)
  <2>1. /\ UNCHANGED <<at, profile, got, stale, outages, crashes>>
        /\ \A e \in Events : e # at[c] => rows'[e] = rows[e]
    BY <1>3 DEF Save, TypeOK
  <2>2. pc'[c] = "invalidate" /\ \A q \in Proc : q # c => pc'[q] = pc[q]
    BY <1>0, <1>3 DEF Save, Goto, TypeOK
  <2>3. ASSUME NEW s, Covered(s), NEW e \in Saved' \ s
        PROVE  \E d \in Consumers : at'[d] = e /\ pc'[d] = "invalidate"
    <3>1. CASE e = at[c] BY <2>1, <2>2, <3>1
    <3>2. CASE e # at[c]
      <4>1. e \in Saved \ s BY <2>1, <2>3, <3>2 DEF Saved
      <4>2. PICK d \in Consumers : at[d] = e /\ pc[d] = "invalidate"
        BY <2>3, <4>1 DEF Covered
      <4> QED BY <2>1, <2>2, <4>2 DEF Proc
    <3> QED BY <3>1, <3>2
  <2> QED BY <2>1, <2>2, <2>3 DEF AgeInv, Covered, stale
<1>4. CASE SaveFails(c) BY <1>1, <1>4 DEF SaveFails
<1>5. CASE Invalidate(c)
  <2>1. /\ profile' = None /\ UNCHANGED <<rows, at, got, outages, crashes>>
        /\ overtaken' = overtaken \cup {p \in Proc : pc[p] = "setProfile" /\ at[c] \notin got[p]}
    BY <1>5 DEF Invalidate
  <2>2. pc'[c] = "incr" /\ \A q \in Proc : q # c => pc'[q] = pc[q]
    BY <1>0, <1>5 DEF Invalidate, Goto, TypeOK
  <2>3. ASSUME outages + crashes = 0, NEW p \in Proc \ overtaken', pc'[p] = "setProfile",
               NEW e \in Saved \ got[p]
        PROVE  \E d \in Consumers : at'[d] = e /\ pc'[d] = "invalidate"
    <3>1. pc[p] = "setProfile" /\ p \in Proc \ overtaken /\ at[c] \in got[p]
      BY <2>1, <2>2, <2>3
    <3>2. PICK d \in Consumers : at[d] = e /\ pc[d] = "invalidate"
      BY <2>3, <3>1 DEF AgeInv, Covered
    <3> QED BY <2>1, <2>2, <2>3, <3>1, <3>2 DEF Proc
  <2>4. Saved' = Saved BY <2>1 DEF Saved
  <2> QED BY <2>1, <2>3, <2>4 DEF AgeInv, Covered
<1>6. CASE IncrementVersion(c) BY <1>1, <1>6, Labels DEF IncrementVersion
<1>7. CASE SetFlag(c) BY <1>1, <1>7, Labels DEF SetFlag
<1>8. CASE Schedule(c) BY <1>1, <1>8 DEF Schedule
<1>9. CASE Outage(c)
  <2>1. outages \in Nat /\ crashes \in Nat BY DEF TypeOK
  <2>2. outages' + crashes' # 0 BY <1>9, <2>1 DEF Outage
  <2> QED BY <2>2 DEF AgeInv
<1> QED BY <1>2, <1>3, <1>4, <1>5, <1>6, <1>7, <1>8, <1>9 DEF Consume

LEMMA GetAges ==
    ASSUME TypeOK, TypeOK', AgeInv, NEW p \in Proc, Get(p)
    PROVE  AgeInv'
<1> USE DEF queues, redis, local, bounds
<1>1. /\ {"getVector", "readEvents", "setProfile", "readPoint", "warm", "idle",
          "endVersion", "embed"} \subseteq PC
  BY Labels
<1>2. UNCHANGED <<rows, at, outages, crashes>>
  BY DEF Get, GetProfile, ReadEvents, SetProfile, GetVector, ReadPoint, WarmVector
<1>3. outages <= outages' /\ crashes <= crashes' BY <1>2 DEF TypeOK
<1>4. AfterGet(p) => /\ \E l \in PC : Goto(p, l) /\ l # "setProfile"
                     /\ \A q \in Proc : q # p => got'[q] = got[q]
  BY <1>1 DEF AfterGet, TypeOK
<1>5. CASE GetProfile(p)
  <2>1. /\ \E l \in PC : Goto(p, l) /\ l # "setProfile"
        /\ \A q \in Proc : q # p => got'[q] = got[q]
        /\ pc[p] # "invalidate" /\ UNCHANGED <<profile, stale>>
    BY <1>1, <1>5 DEF GetProfile, TypeOK
  <2> QED BY <1>2, <2>1, AgeMoves
<1>6. CASE ReadEvents(p)
  <2>1. /\ got'[p] = Saved /\ pc[p] # "invalidate" /\ UNCHANGED <<profile, spoiled>>
        /\ overtaken' = overtaken \ {p}
        /\ \A q \in Proc : q # p => got'[q] = got[q] /\ pc'[q] = pc[q]
    BY <1>6 DEF ReadEvents, Goto, TypeOK
  <2>2. \A c \in Consumers : pc[c] = "invalidate" => pc'[c] = "invalidate" /\ at'[c] = at[c]
    BY <1>2, <2>1 DEF Proc
  <2>3. \A q \in Proc \ overtaken' : pc'[q] = "setProfile" =>
               \/ pc[q] = "setProfile" /\ q \notin overtaken /\ got'[q] = got[q]
               \/ got'[q] = Saved
    BY <2>1
  <2> QED BY <1>2, <1>3, <2>1, <2>2, <2>3, AgeKept
<1>7. CASE SetProfile(p)
  <2>1. /\ pc[p] = "setProfile" /\ pc'[p] = "getVector" /\ profile' = got[p]
        /\ UNCHANGED <<got, overtaken>> /\ spoiled' = (p \in overtaken)
        /\ \A q \in Proc : q # p => pc'[q] = pc[q]
    BY <1>7 DEF SetProfile, Goto, TypeOK
  <2>2. \A c \in Consumers : pc[c] = "invalidate" => pc'[c] = "invalidate" /\ at'[c] = at[c]
    BY <1>2, <2>1 DEF Proc
  <2>3. profile' # None /\ ~spoiled' =>
            \E q \in Proc \ overtaken : pc[q] = "setProfile" /\ profile' = got[q]
    BY <2>1
  <2>4. \A q \in Proc \ overtaken' : pc'[q] = "setProfile" =>
               pc[q] = "setProfile" /\ q \notin overtaken /\ got'[q] = got[q]
    BY <2>1
  <2> QED BY <1>2, <1>3, <2>2, <2>3, <2>4, AgeKept
<1>8. CASE GetVector(p)
  <2>1. pc[p] # "invalidate" /\ UNCHANGED <<profile, stale>> BY <1>8 DEF GetVector
  <2>2. /\ \E l \in PC : Goto(p, l) /\ l # "setProfile"
        /\ \A q \in Proc : q # p => got'[q] = got[q]
    BY <1>1, <1>4, <1>8 DEF GetVector
  <2> QED BY <1>2, <2>1, <2>2, AgeMoves
<1>9. CASE ReadPoint(p)
  <2>1. pc[p] # "invalidate" /\ UNCHANGED <<profile, stale>> BY <1>9 DEF ReadPoint
  <2>2. /\ \E l \in PC : Goto(p, l) /\ l # "setProfile"
        /\ \A q \in Proc : q # p => got'[q] = got[q]
    BY <1>1, <1>4, <1>9 DEF ReadPoint
  <2> QED BY <1>2, <2>1, <2>2, AgeMoves
<1>10. CASE WarmVector(p)
  <2>1. pc[p] # "invalidate" /\ UNCHANGED <<profile, stale>> BY <1>10 DEF WarmVector
  <2>2. /\ \E l \in PC : Goto(p, l) /\ l # "setProfile"
        /\ \A q \in Proc : q # p => got'[q] = got[q]
    BY <1>4, <1>10 DEF WarmVector
  <2> QED BY <1>2, <2>1, <2>2, AgeMoves
<1> QED BY <1>5, <1>6, <1>7, <1>8, <1>9, <1>10 DEF Get

LEMMA BuildAges ==
    ASSUME TypeOK, TypeOK', AgeInv, NEW w \in Workers, Build(w)
    PROVE  AgeInv'
<1> USE DEF queues, redis, local, bounds
<1>1. w \in Proc BY DEF Proc
<1>2. /\ UNCHANGED <<at, rows, outages, crashes, profile, stale>>
      /\ pc[w] # "invalidate"
      /\ \A q \in Proc : q # w => got'[q] = got[q]
  <2>1. pc[w] # "invalidate" /\ UNCHANGED <<at, rows, outages, crashes, profile, stale>>
    BY Labels DEF Build, HasPending, StartVersion, Embed, BuildFails, SetVector, SavePoint,
           EndVersion, RemovePending, Rebuild, Reschedule, ReleaseLock, Retry
  <2>2. \A q \in Proc : q # w => got'[q] = got[q]
    BY DEF Build, HasPending, StartVersion, Embed, BuildFails, SetVector, SavePoint,
           EndVersion, RemovePending, Rebuild, Reschedule, ReleaseLock, ResetWorker, Retry, TypeOK
  <2> QED BY <2>1, <2>2
<1>3. {"startVersion", "release", "getProfile", "setVector", "giveUp", "savePoint",
       "endVersion", "removePending", "rebuild", "reschedule", "idle", "retry"}
         \subseteq PC \ {"setProfile"}
  BY Labels
<1>4. \E l \in PC \ {"setProfile"} : Goto(w, l)
  <2>1. CASE HasPending(w) BY <1>3, <2>1 DEF HasPending
  <2>2. CASE StartVersion(w) BY <1>3, <2>2 DEF StartVersion
  <2>3. CASE Embed(w) BY <1>3, <2>3 DEF Embed
  <2>4. CASE BuildFails(w) BY <1>3, <2>4 DEF BuildFails
  <2>5. CASE SetVector(w) BY <1>3, <2>5 DEF SetVector
  <2>6. CASE SavePoint(w) BY <1>3, <2>6 DEF SavePoint
  <2>7. CASE EndVersion(w) BY <1>3, <2>7 DEF EndVersion
  <2>8. CASE RemovePending(w) BY <1>3, <2>8 DEF RemovePending
  <2>9. CASE Rebuild(w) BY <1>3, <2>9 DEF Rebuild
  <2>10. CASE Reschedule(w) BY <1>3, <2>10 DEF Reschedule
  <2>11. CASE ReleaseLock(w) BY <1>3, <2>11 DEF ReleaseLock
  <2>12. CASE Retry(w) BY <1>3, <2>12 DEF Retry
  <2> QED BY <2>1, <2>2, <2>3, <2>4, <2>5, <2>6, <2>7, <2>8, <2>9, <2>10, <2>11, <2>12 DEF Build
<1> QED BY <1>1, <1>2, <1>4, AgeMoves

LEMMA StartAges ==
    ASSUME TypeOK, TypeOK', AgeInv, Start
    PROVE  AgeInv'
<1> USE DEF queues, redis, local, bounds
<1>0. {"getProfile", "hasPending", "dedup"} \subseteq PC \ {"setProfile"} BY Labels
<1>1. CASE \E c \in Consumers, e \in Events : Take(c, e)
  <2>1. PICK c \in Consumers, e \in Events : Take(c, e) BY <1>1
  <2>2. /\ c \in Proc /\ Goto(c, "dedup") /\ pc[c] # "invalidate"
        /\ UNCHANGED <<rows, profile, got, outages, crashes, stale>>
        /\ \A d \in Consumers : d # c => at'[d] = at[d]
    BY <2>1 DEF Take, MayStart, Proc, TypeOK
  <2> QED BY <1>0, <2>2, AgeMoves
<1>2. CASE \E w \in Workers, r \in 1..MaxRuns : StartBuild(w, r)
  <2>1. PICK w \in Workers, r \in 1..MaxRuns : StartBuild(w, r) BY <1>2
  <2>2. w \in Proc /\ pc[w] # "invalidate" /\ UNCHANGED <<at, rows, outages, crashes, profile, got, stale>>
    BY <2>1 DEF StartBuild, MayStart, Proc
  <2>3. CASE lock
    <3>1. UNCHANGED pc BY <2>1, <2>3 DEF StartBuild
    <3> QED BY <2>2, <3>1 DEF AgeInv, Covered, Saved, stale
  <2>4. CASE ~lock
    <3>1. Goto(w, "hasPending") BY <2>1, <2>4 DEF StartBuild
    <3> QED BY <1>0, <2>2, <3>1, AgeMoves
  <2> QED BY <2>3, <2>4
<1>3. CASE \E r \in Readers : StartRead(r)
  <2>1. PICK r \in Readers : StartRead(r) BY <1>3
  <2>2. r \in Proc /\ pc[r] # "invalidate" BY <2>1 DEF Proc, StartRead, MayStart
  <2> QED BY <1>0, <2>1, <2>2, AgeMoves DEF StartRead
<1> QED BY <1>1, <1>2, <1>3 DEF Start

LEMMA EnvironmentAges ==
    ASSUME TypeOK, TypeOK', AgeInv, Environment
    PROVE  AgeInv'
<1> USE DEF queues, redis, local, bounds
<1>1. CASE \E e \in Events : Publish(e)
  BY <1>1 DEF Publish, AgeInv, Covered, Saved, stale
<1>2. CASE ExpireFlag BY <1>2 DEF ExpireFlag, AgeInv, Covered, Saved, stale
<1>3. CASE ExpireLock BY <1>3 DEF ExpireLock, AgeInv, Covered, Saved, stale
<1>4. CASE ExpireKeys
  <2>1. UNCHANGED <<rows, pc, at, got, outages, crashes, overtaken>> BY <1>4 DEF ExpireKeys
  <2>2. profile' = None \/ UNCHANGED <<profile, spoiled>> BY <1>4 DEF ExpireKeys
  <2> QED BY <2>1, <2>2 DEF AgeInv, Covered, Saved
<1>5. CASE \E p \in Proc : Crash(p)
  <2>1. PICK p \in Proc : Crash(p) BY <1>5
  <2>2. outages \in Nat /\ crashes \in Nat BY DEF TypeOK
  <2>3. outages' + crashes' # 0 BY <2>1, <2>2 DEF Crash
  <2> QED BY <2>3 DEF AgeInv
<1> QED BY <1>1, <1>2, <1>3, <1>4, <1>5 DEF Environment

\* What the invalidation of the cached profile achieves, with any number of
\* consumers, builds and feed requests at work: while Redis has not failed a
\* consumer and no process was killed, a saved event that the cached profile lacks
\* has its deletion still ahead of it, or the profile was set by a get that had
\* read the events before such a deletion.
THEOREM OnlyOvertakenGetsAreStale == Spec => []StaleOnlyIfOvertaken
<1>1. Init => AgeInv
  <2> SUFFICES ASSUME Init PROVE AgeInv OBVIOUS
  <2>1. \A p \in Proc : pc[p] = "idle" BY DEF Init
  <2> QED BY <2>1 DEF Init, AgeInv
<1>2. TypeOK /\ TypeOK' /\ AgeInv /\ [Next]_vars => AgeInv'
  <2> SUFFICES ASSUME TypeOK, TypeOK', AgeInv, [Next]_vars PROVE AgeInv' OBVIOUS
  <2>1. CASE Start BY <2>1, StartAges
  <2>2. CASE \E p \in Proc : Step(p)
    <3>1. PICK p \in Proc : Step(p) BY <2>2
    <3> QED BY <3>1, ConsumeAges, GetAges, BuildAges DEF Step
  <2>3. CASE Environment BY <2>3, EnvironmentAges
  <2>4. CASE UNCHANGED vars
    BY <2>4 DEF vars, stale, queues, redis, local, bounds, AgeInv, Covered, Saved
  <2> QED BY <2>1, <2>2, <2>3, <2>4 DEF Next
<1>3. AgeInv => StaleOnlyIfOvertaken BY DEF AgeInv, Covered, StaleOnlyIfOvertaken
<1> QED BY <1>1, <1>2, <1>3, TypeCorrect, PTL DEF Spec
==============================================================================
