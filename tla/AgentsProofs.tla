----------------------------- MODULE AgentsProofs -----------------------------
(***************************************************************************)
(* The assistant's turns for any users, requests, books, windows and       *)
(* bounds: how far turns of one user can overlap, that no rate window      *)
(* lasts for ever, that no exchange is lost from the dialog while its key  *)
(* lives, and that semantic searches hand no work out twice while theirs   *)
(* does.                                                                   *)
(*                                                                         *)
(* The overlap is inductive with the labels of the turns: a turn that      *)
(* releases a lock that is not its own takes itself out of the count.  The *)
(* memory is inductive with what a turn holds of it: a turn that has its   *)
(* user to itself extends the history that is in Redis or has run out      *)
(* since, and a search that runs alone excludes what the list has.         *)
(***************************************************************************)
EXTENDS Agents, DataLemmas

PCs == {"off", "limit", "expire", "acquire", "load", "lookup", "route", "think", "filter", "search",
        "answer", "remember", "append", "share", "release"}

Fields == {"pc", "user", "msg", "window", "node", "rounds", "steps", "carries", "asks", "calls", "old"}

\* A turn is a record of these fields, whatever they hold.
Shape(x) == x = [f \in Fields |-> x[f]]

TurnsOK ==
    /\ turn = [t \in Turns |-> turn[t]]
    /\ \A t \in Turns :
          /\ Shape(turn[t])
          /\ turn[t].pc \in PCs
          /\ turn[t].pc # "off" => turn[t].user \in Users
          /\ turn[t].window \in 1..Len(Windows)
          /\ turn[t].msg \in Messages

LocksOK ==
    /\ turnLock \in [Users -> Turns \cup {Nobody}]
    /\ slack \in [Users -> Nat]

WindowsOK ==
    windows \in [Users -> [1..Len(Windows) -> [n : Nat, ttl : BOOLEAN]]]

AgentsInv ==
    /\ TurnsOK /\ LocksOK /\ WindowsOK
    /\ TurnsOverlapOnlyBySlack /\ WindowsEnd
-----------------------------------------------------------------------------
(* What a step does to a turn *)

\* Step of t alone: the other turns are as they were.
Only(t) ==
    /\ turn' = [s \in Turns |-> turn'[s]]
    /\ \A s \in Turns \ {t} : turn'[s] = turn[s]
    /\ Shape(turn'[t])

LEMMA Becomes ==
    ASSUME TurnsOK, NEW t \in Turns, NEW x, Shape(x), turn' = [turn EXCEPT ![t] = x]
    PROVE  Only(t) /\ turn'[t] = x
<1>1. turn' = [s \in Turns |-> IF s = t THEN x ELSE turn[s]]
  BY DEF TurnsOK
<1>2. turn'[t] = x /\ \A s \in Turns \ {t} : turn'[s] = turn[s]
  BY <1>1
<1>3. turn' = [s \in Turns |-> turn'[s]]
  BY <1>1
<1> QED BY <1>2, <1>3 DEF Only

\* A turn that sleeps has nothing left but its user.
LEMMA AsleepShape ==
    /\ Shape(Asleep) /\ Asleep.pc = "off" /\ Asleep.msg \in Messages
    /\ Asleep.window = 1
<1>1. Asleep.msg = "hello" BY DEF Asleep
<1>2. "hello" \in Messages BY DEF Messages
<1>3. Shape(Asleep) BY DEF Shape, Fields, Asleep
<1> QED BY <1>1, <1>2, <1>3 DEF Asleep

\* Another label, and nothing else.
LEMMA Relabelled ==
    ASSUME NEW r, Shape(r), NEW l
    PROVE  LET x == [r EXCEPT !.pc = l] IN
           /\ Shape(x) /\ x.pc = l /\ x.user = r.user /\ x.msg = r.msg
           /\ x.window = r.window
BY DEF Shape, Fields

\* The record that Leave leaves.
LEMMA Leaving ==
    ASSUME NEW u
    PROVE  LET x == [Asleep EXCEPT !.pc = "release", !.user = u] IN
           /\ Shape(x) /\ x.pc = "release" /\ x.msg \in Messages /\ x.user = u
           /\ x.window = 1
<1> DEFINE x == [Asleep EXCEPT !.pc = "release", !.user = u]
<1>1. /\ Shape(x) /\ x.pc = "release" /\ x.user = u /\ x.msg = Asleep.msg
      /\ x.window = Asleep.window
  BY AsleepShape DEF Shape, Fields
<1> QED BY <1>1, AsleepShape

\* The first window is one of the windows.
LEMMA FirstWindow == Len(Windows) \in Nat \ {0} /\ 1 \in 1..Len(Windows)
BY AgentsAssumption DEF AgentsAssumption

-----------------------------------------------------------------------------
(* Counting the turns without the lock *)

LEMMA Finite ==
    ASSUME NEW u, NEW S \in SUBSET Running(u)
    PROVE  IsFiniteSet(S) /\ Cardinality(S) \in Nat
<1>1. S \in SUBSET Turns BY DEF Running
<1> QED BY <1>1, AgentsAssumption, FS_Subset, FS_CardinalityType DEF AgentsAssumption

\* No more turns without the lock than before.
LEMMA Fewer ==
    ASSUME LocksOK, TurnsOverlapOnlyBySlack, NEW u \in Users,
           NEW T \in SUBSET (Running(u) \ {turnLock[u]})
    PROVE  Cardinality(T) <= slack[u] /\ Cardinality(T) \in Nat
<1> DEFINE S == Running(u) \ {turnLock[u]}
<1>1. IsFiniteSet(S) /\ Cardinality(S) \in Nat BY Finite
<1>2. Cardinality(T) <= Cardinality(S) /\ Cardinality(T) \in Nat
  BY <1>1, FS_Subset, FS_CardinalityType
<1>3. Cardinality(S) <= slack[u] /\ slack[u] \in Nat
  BY DEF TurnsOverlapOnlyBySlack, LocksOK
<1> QED BY <1>1, <1>2, <1>3

LEMMA OneMore ==
    ASSUME NEW S, IsFiniteSet(S), NEW n \in Nat, Cardinality(S) <= n, NEW t,
           NEW T \in SUBSET (S \cup {t})
    PROVE  Cardinality(T) <= n + 1
<1>1. Cardinality(S) \in Nat BY FS_CardinalityType
<1>2. /\ IsFiniteSet(S \cup {t})
      /\ Cardinality(S \cup {t}) = Cardinality(S) \/ Cardinality(S \cup {t}) = Cardinality(S) + 1
  BY FS_AddElement
<1>3. Cardinality(T) <= Cardinality(S \cup {t}) /\ Cardinality(T) \in Nat
  BY <1>2, FS_Subset, FS_CardinalityType
<1> QED BY <1>1, <1>2, <1>3

\* No turn begins, no lock changes hands.
LEMMA NoneBegins ==
    ASSUME LocksOK, TurnsOverlapOnlyBySlack, UNCHANGED <<turnLock, slack>>,
           \A u \in Users : Running(u)' \subseteq Running(u)
    PROVE  TurnsOverlapOnlyBySlack'
<1> SUFFICES ASSUME NEW u \in Users
             PROVE  Cardinality(Running(u)' \ {turnLock[u]}) <= slack[u]
  BY DEF TurnsOverlapOnlyBySlack
<1>1. Running(u)' \ {turnLock[u]} \in SUBSET (Running(u) \ {turnLock[u]}) OBVIOUS
<1> QED BY <1>1, Fewer

-----------------------------------------------------------------------------
(* Steps within a turn *)

\* The label and the user of a turn that has become x.
Proper(t, x) ==
    /\ Shape(x) /\ x.pc \in PCs
    /\ x.pc # "off" => x.user = turn[t].user
    /\ x.window \in 1..Len(Windows) /\ x.msg \in Messages

\* A step of one turn that is admitted already, or not yet.
LEMMA Moves ==
    ASSUME AgentsInv, NEW t \in Turns, NEW x, turn' = [turn EXCEPT ![t] = x], Proper(t, x),
           UNCHANGED <<windows, turnLock, slack, stuck>>,
           turn[t].pc \notin {"off", "expire"},
           turn[t].pc \in {"limit", "acquire"} => x.pc \in {"limit", "acquire", "off"}
    PROVE  AgentsInv'
<1>1. TurnsOK BY DEF AgentsInv
<1>2. Only(t) /\ turn'[t] = x BY <1>1, Becomes DEF Proper
<1>3. TurnsOK' BY <1>1, <1>2 DEF TurnsOK, Only, Proper
<1>4. LocksOK' /\ WindowsOK' BY DEF AgentsInv, LocksOK, WindowsOK
<1>6. \A u \in Users : Running(u)' \subseteq Running(u)
  BY <1>2 DEF Running, Only, Proper
<1>7. TurnsOverlapOnlyBySlack' BY <1>6, NoneBegins DEF AgentsInv
<1>8. WindowsEnd' BY <1>2 DEF AgentsInv, WindowsEnd, Only
<1> QED BY <1>3, <1>4, <1>7, <1>8 DEF AgentsInv

\* The turn goes to the label l.
LEMMA Goes ==
    ASSUME AgentsInv, NEW t \in Turns, NEW l \in PCs \ {"off"}, To(t, l),
           UNCHANGED <<windows, turnLock, slack, stuck>>,
           turn[t].pc \notin {"off", "expire"},
           turn[t].pc \in {"limit", "acquire"} => l \in {"limit", "acquire"}
    PROVE  AgentsInv'
<1> DEFINE x == [turn[t] EXCEPT !.pc = l]
<1>1. Shape(turn[t]) BY DEF AgentsInv, TurnsOK
<1>2. /\ Shape(x) /\ x.pc = l /\ x.user = turn[t].user /\ x.msg = turn[t].msg
      /\ x.window = turn[t].window
  BY <1>1, Relabelled
<1>3. turn' = [turn EXCEPT ![t] = x] BY DEF To
<1> HIDE DEF x
<1>4. Proper(t, x) BY <1>2 DEF Proper, AgentsInv, TurnsOK
<1> QED BY <1>2, <1>3, <1>4, Moves

\* The turn is refused or over.
LEMMA Ends ==
    ASSUME AgentsInv, NEW t \in Turns, turn' = [turn EXCEPT ![t] = Asleep],
           UNCHANGED <<windows, turnLock, slack, stuck>>,
           turn[t].pc \notin {"off", "expire"}
    PROVE  AgentsInv'
<1>1. Proper(t, Asleep) BY AsleepShape, FirstWindow DEF Proper, PCs
<1> QED BY <1>1, AsleepShape, Moves

\* The turn has only its lock to release.
LEMMA Leaves ==
    ASSUME AgentsInv, NEW t \in Turns, Leave(t),
           UNCHANGED <<windows, turnLock, slack, stuck>>,
           turn[t].pc \notin {"off", "expire", "limit", "acquire"}
    PROVE  AgentsInv'
<1> DEFINE x == [Asleep EXCEPT !.pc = "release", !.user = turn[t].user]
<1>1. /\ Shape(x) /\ x.pc = "release" /\ x.msg \in Messages /\ x.user = turn[t].user
      /\ x.window = 1
  BY Leaving
<1>2. turn' = [turn EXCEPT ![t] = x] BY DEF Leave
<1> HIDE DEF x
<1>3. Proper(t, x) BY <1>1, FirstWindow DEF Proper, PCs
<1> QED BY <1>1, <1>2, <1>3, Moves

\* A step of one of the turn's searches.
LEMMA Searches ==
    ASSUME AgentsInv, NEW t \in Turns, NEW i, NEW y, turn' = [turn EXCEPT ![t].calls[i] = y],
           UNCHANGED <<windows, turnLock, slack, stuck>>,
           turn[t].pc = "search"
    PROVE  AgentsInv'
<1> DEFINE x == [turn[t] EXCEPT !.calls = [turn[t].calls EXCEPT ![i] = y]]
<1>1. Shape(turn[t]) BY DEF AgentsInv, TurnsOK
<1>2. /\ Shape(x) /\ x.pc = "search" /\ x.user = turn[t].user /\ x.msg = turn[t].msg
      /\ x.window = turn[t].window
  BY <1>1 DEF Shape, Fields
<1>3. turn' = [turn EXCEPT ![t] = x] OBVIOUS
<1> HIDE DEF x
<1>4. Proper(t, x) BY <1>2 DEF Proper, AgentsInv, TurnsOK, PCs
<1> QED BY <1>2, <1>3, <1>4, Moves

-----------------------------------------------------------------------------
(* The steps of a turn *)

\* The turn goes to the label l, and its answer may carry c.
LEMMA GoesWith ==
    ASSUME AgentsInv, NEW t \in Turns, NEW l \in {"lookup", "remember"}, NEW c,
           turn' = [turn EXCEPT ![t] = [turn[t] EXCEPT !.pc = l, !.carries = c]],
           UNCHANGED <<windows, turnLock, slack, stuck>>,
           turn[t].pc \in {"load", "lookup"}
    PROVE  AgentsInv'
<1> DEFINE x == [turn[t] EXCEPT !.pc = l, !.carries = c]
<1>1. Shape(turn[t]) BY DEF AgentsInv, TurnsOK
<1>2. /\ Shape(x) /\ x.pc = l /\ x.user = turn[t].user /\ x.msg = turn[t].msg
      /\ x.window = turn[t].window
  BY <1>1 DEF Shape, Fields
<1>3. turn' = [turn EXCEPT ![t] = x] OBVIOUS
<1> HIDE DEF x
<1>4. Proper(t, x) BY <1>2 DEF Proper, AgentsInv, TurnsOK, PCs
<1> QED BY <1>2, <1>3, <1>4, Moves

LEMMA LoadHistoryInv ==
    ASSUME AgentsInv, NEW t \in Turns, LoadHistory(t)
    PROVE  AgentsInv'
<1>1. turn[t].pc = "load" /\ UNCHANGED <<windows, turnLock, slack, stuck>>
  BY DEF LoadHistory
<1>2. CASE To(t, "remember") BY <1>1, <1>2, Goes DEF PCs
<1>3. ASSUME NEW c, turn' = [turn EXCEPT ![t] = [turn[t] EXCEPT !.pc = "lookup", !.carries = c]]
      PROVE  AgentsInv'
  BY <1>1, <1>3, GoesWith
<1> QED BY <1>2, <1>3 DEF LoadHistory, To

LEMMA LookUpAnswerInv ==
    ASSUME AgentsInv, NEW t \in Turns, LookUpAnswer(t)
    PROVE  AgentsInv'
<1>1. turn[t].pc = "lookup" /\ UNCHANGED <<windows, turnLock, slack, stuck>>
  BY DEF LookUpAnswer
<1>2. CASE To(t, "route") BY <1>1, <1>2, Goes DEF PCs
<1>3. ASSUME NEW c, turn' = [turn EXCEPT ![t] = [turn[t] EXCEPT !.pc = "remember", !.carries = c]]
      PROVE  AgentsInv'
  BY <1>1, <1>3, GoesWith
<1> QED BY <1>2, <1>3 DEF LookUpAnswer, To

LEMMA RouteInv ==
    ASSUME AgentsInv, NEW t \in Turns, Route(t)
    PROVE  AgentsInv'
<1>1. turn[t].pc = "route" /\ UNCHANGED <<windows, turnLock, slack, stuck>>
  BY DEF Route
<1>2. PICK n, l :
           l \in {"think", "answer"} \land
           turn' = [turn EXCEPT ![t] = [turn[t] EXCEPT !.node = n, !.rounds = 0, !.steps = 1, !.pc = l]]
  BY DEF Route
<1> DEFINE x == [turn[t] EXCEPT !.node = n, !.rounds = 0, !.steps = 1, !.pc = l]
<1>3. Shape(turn[t]) BY DEF AgentsInv, TurnsOK
<1>4. /\ Shape(x) /\ x.pc = l /\ x.user = turn[t].user /\ x.msg = turn[t].msg
      /\ x.window = turn[t].window
  BY <1>3 DEF Shape, Fields
<1> HIDE DEF x
<1>6. Proper(t, x) BY <1>1, <1>2, <1>4 DEF Proper, AgentsInv, TurnsOK, PCs
<1> QED BY <1>1, <1>2, <1>6, Moves DEF x

LEMMA ThinkInv ==
    ASSUME AgentsInv, NEW t \in Turns, Think(t)
    PROVE  AgentsInv'
<1>1. turn[t].pc = "think" /\ UNCHANGED <<windows, turnLock, slack, stuck>>
  BY DEF Think
<1>2. CASE To(t, "answer")
  BY <1>1, <1>2, Goes DEF PCs
<1>3. CASE Leave(t)
  BY <1>1, <1>3, Leaves
<1>4. ASSUME NEW c, NEW l \in {"search", "filter", "think"},
             turn' = [turn EXCEPT ![t] = [[turn[t] EXCEPT !.rounds = @ + 1, !.steps = @ + 1]
                          EXCEPT !.pc = l, !.steps = @ + 1, !.carries = @ \cup c]]
      PROVE  AgentsInv'
  <2> DEFINE x == [[turn[t] EXCEPT !.rounds = @ + 1, !.steps = @ + 1]
                      EXCEPT !.pc = l, !.steps = @ + 1, !.carries = @ \cup c]
  <2>1. Shape(turn[t]) BY DEF AgentsInv, TurnsOK
  <2>2. /\ Shape(x) /\ x.pc = l /\ x.user = turn[t].user /\ x.msg = turn[t].msg
        /\ x.window = turn[t].window
    BY <2>1 DEF Shape, Fields
  <2>3. turn' = [turn EXCEPT ![t] = x] BY <1>4
  <2> HIDE DEF x
  <2>4. Proper(t, x) BY <1>1, <2>2 DEF Proper, AgentsInv, TurnsOK, PCs
  <2> QED BY <1>1, <2>3, <2>4, Moves
<1> QED BY <1>2, <1>3, <1>4 DEF Think

LEMMA FilterBooksInv ==
    ASSUME AgentsInv, NEW t \in Turns, FilterBooks(t)
    PROVE  AgentsInv'
<1>1. turn[t].pc = "filter" /\ To(t, "think") /\ UNCHANGED <<windows, turnLock, slack, stuck>>
  BY DEF FilterBooks
<1> QED BY <1>1, Goes DEF PCs

LEMMA SearchInv ==
    ASSUME AgentsInv, NEW t \in Turns, NEW i \in {1, 2},
           \/ StartSearch(t, i) \/ FindBooks(t, i)
           \/ ReadIds(t, i) \/ ReadEntries(t, i) \/ RememberShown(t, i)
    PROVE  AgentsInv'
<1>1. CASE StartSearch(t, i)
  BY <1>1, Searches DEF StartSearch
<1>2. CASE FindBooks(t, i)
  <2>1. PICK y : turn' = [turn EXCEPT ![t].calls[i] = y] BY <1>2 DEF FindBooks
  <2>2. turn[t].pc = "search" /\ UNCHANGED <<windows, turnLock, slack, stuck>>
    BY <1>2 DEF FindBooks
  <2> QED BY <2>1, <2>2, Searches
<1>3. CASE ReadIds(t, i)
  BY <1>3, Searches DEF ReadIds, memoryVars
<1>5. CASE ReadEntries(t, i)
  BY <1>5, Searches DEF ReadEntries, memoryVars
<1>4. CASE RememberShown(t, i)
  BY <1>4, Searches DEF RememberShown
<1> QED BY <1>1, <1>2, <1>3, <1>4, <1>5

LEMMA EndSearchInv ==
    ASSUME AgentsInv, NEW t \in Turns, EndSearch(t)
    PROVE  AgentsInv'
<1> DEFINE x == [turn[t] EXCEPT !.pc = "think", !.calls = <<NoCall, NoCall>>]
<1>1. turn[t].pc = "search" /\ turn' = [turn EXCEPT ![t] = x]
      /\ UNCHANGED <<windows, turnLock, slack, stuck>>
  BY DEF EndSearch
<1>2. Shape(turn[t]) BY DEF AgentsInv, TurnsOK
<1>3. /\ Shape(x) /\ x.pc = "think" /\ x.user = turn[t].user /\ x.msg = turn[t].msg
      /\ x.window = turn[t].window
  BY <1>2 DEF Shape, Fields
<1> HIDE DEF x
<1>4. Proper(t, x) BY <1>1, <1>3 DEF Proper, AgentsInv, TurnsOK, PCs
<1> QED BY <1>1, <1>4, Moves

LEMMA WriteAnswerInv ==
    ASSUME AgentsInv, NEW t \in Turns, WriteAnswer(t)
    PROVE  AgentsInv'
<1>1. turn[t].pc = "answer" /\ UNCHANGED <<windows, turnLock, slack, stuck>>
  BY DEF WriteAnswer
<1>2. CASE Leave(t)
  BY <1>1, <1>2, Leaves
<1>3. ASSUME NEW asks,
             turn' = [turn EXCEPT ![t] = [turn[t] EXCEPT !.pc = "remember", !.asks = asks,
                                                         !.rounds = 0, !.steps = 0]]
      PROVE  AgentsInv'
  <2> DEFINE x == [turn[t] EXCEPT !.pc = "remember", !.asks = asks, !.rounds = 0, !.steps = 0]
  <2>1. Shape(turn[t]) BY DEF AgentsInv, TurnsOK
  <2>2. /\ Shape(x) /\ x.pc = "remember" /\ x.user = turn[t].user /\ x.msg = turn[t].msg
        /\ x.window = turn[t].window
    BY <2>1 DEF Shape, Fields
  <2> HIDE DEF x
  <2>3. Proper(t, x) BY <1>1, <2>2 DEF Proper, AgentsInv, TurnsOK, PCs
  <2> QED BY <1>1, <1>3, <2>3, Moves DEF x
<1> QED BY <1>2, <1>3 DEF WriteAnswer

LEMMA ReadHistoryInv ==
    ASSUME AgentsInv, NEW t \in Turns, ReadHistory(t)
    PROVE  AgentsInv'
<1> DEFINE x == [turn[t] EXCEPT !.pc = "append", !.old = history[turn[t].user]]
<1>1. Shape(turn[t]) BY DEF AgentsInv, TurnsOK
<1>2. turn[t].pc = "remember" /\ turn' = [turn EXCEPT ![t] = x]
      /\ UNCHANGED <<windows, turnLock, slack, stuck>>
  BY <1>1 DEF ReadHistory, AgentsInv, TurnsOK, Shape, Fields
<1>3. /\ Shape(x) /\ x.pc = "append" /\ x.user = turn[t].user /\ x.msg = turn[t].msg
      /\ x.window = turn[t].window
  BY <1>1 DEF Shape, Fields
<1> HIDE DEF x
<1>4. Proper(t, x) BY <1>2, <1>3 DEF Proper, AgentsInv, TurnsOK, PCs
<1> QED BY <1>2, <1>4, Moves

LEMMA AppendHistoryInv ==
    ASSUME AgentsInv, NEW t \in Turns, AppendHistory(t)
    PROVE  AgentsInv'
<1> DEFINE x == [turn[t] EXCEPT !.pc = "share", !.old = <<>>]
<1>1. turn[t].pc = "append" /\ UNCHANGED <<windows, turnLock, slack, stuck>>
  BY DEF AppendHistory
<1>2. CASE Leave(t)
  BY <1>1, <1>2, Leaves
<1>3. CASE turn[t].node = "book_search" /\ turn' = [turn EXCEPT ![t].pc = "share", ![t].old = <<>>]
  <2>1. Shape(turn[t]) BY DEF AgentsInv, TurnsOK
  <2>2. turn' = [turn EXCEPT ![t] = x]
    BY <1>3, <2>1 DEF AgentsInv, TurnsOK, Shape, Fields
  <2>3. /\ Shape(x) /\ x.pc = "share" /\ x.user = turn[t].user /\ x.msg = turn[t].msg
        /\ x.window = turn[t].window
    BY <2>1 DEF Shape, Fields
  <2> HIDE DEF x
  <2>4. Proper(t, x)
    BY <1>1, <1>3, <2>3 DEF Proper, AgentsInv, TurnsOK, PCs
  <2> QED BY <1>1, <2>2, <2>4, Moves
<1> QED BY <1>2, <1>3 DEF AppendHistory

LEMMA ShareAnswerInv ==
    ASSUME AgentsInv, NEW t \in Turns, ShareAnswer(t)
    PROVE  AgentsInv'
<1>1. turn[t].pc = "share" /\ Leave(t) /\ UNCHANGED <<windows, turnLock, slack, stuck>>
  BY DEF ShareAnswer
<1> QED BY <1>1, Leaves

-----------------------------------------------------------------------------
(* Admission *)

LEMMA AskInv ==
    ASSUME AgentsInv, NEW t \in Turns, NEW u \in Users, NEW m \in Messages, Ask(t, u, m)
    PROVE  AgentsInv'
<1> DEFINE x == [Asleep EXCEPT !.pc = "limit", !.user = u, !.msg = m]
<1>1. /\ turn[t].pc = "off" /\ turn' = [turn EXCEPT ![t] = x]
      /\ UNCHANGED <<windows, turnLock, slack, stuck>>
  BY DEF Ask
<1>2. /\ Shape(x) /\ x.pc = "limit" /\ x.user = u /\ x.msg = m
      /\ x.window = Asleep.window
  BY AsleepShape DEF Shape, Fields
<1> HIDE DEF x
<1>3. Only(t) /\ turn'[t] = x BY <1>1, <1>2, Becomes DEF AgentsInv
<1>4. TurnsOK'
  <2>1. "limit" \in PCs BY DEF PCs
  <2> QED BY <1>2, <1>3, <2>1, AsleepShape, FirstWindow DEF AgentsInv, TurnsOK, Only
<1>5. LocksOK' /\ WindowsOK' BY <1>1 DEF AgentsInv, LocksOK, WindowsOK
<1>7. TurnsOverlapOnlyBySlack'
  <2>1. \A v \in Users : Running(v)' \subseteq Running(v)
    BY <1>1, <1>2, <1>3 DEF Running, Only
  <2> QED BY <1>1, <2>1, NoneBegins DEF AgentsInv
<1>8. WindowsEnd' BY <1>1, <1>3 DEF AgentsInv, WindowsEnd, Only
<1> QED BY <1>4, <1>5, <1>7, <1>8 DEF AgentsInv

\* What counting leaves of a turn that is not over.
LEMMA NextWindowSteps ==
    ASSUME AgentsInv, NEW t \in Turns, NextWindow(t)
    PROVE  /\ Only(t) /\ turn'[t].pc \in {"limit", "acquire"}
           /\ turn'[t].user = turn[t].user /\ turn'[t].msg = turn[t].msg
           /\ turn'[t].window \in 1..Len(Windows)
<1> DEFINE x == [turn[t] EXCEPT !.pc = "acquire"]
           y == [turn[t] EXCEPT !.pc = "limit", !.window = @ + 1]
<1>1. Shape(turn[t]) /\ turn[t].window \in 1..Len(Windows) BY DEF AgentsInv, TurnsOK
<1>2. /\ Shape(x) /\ x.pc = "acquire" /\ x.user = turn[t].user /\ x.msg = turn[t].msg
      /\ x.window = turn[t].window
  BY <1>1 DEF Shape, Fields
<1>3. /\ Shape(y) /\ y.pc = "limit" /\ y.user = turn[t].user /\ y.msg = turn[t].msg
      /\ y.window = turn[t].window + 1
  BY <1>1 DEF Shape, Fields
<1>4. ASSUME turn[t].window = Len(Windows) PROVE turn' = [turn EXCEPT ![t] = x]
  BY <1>4 DEF NextWindow, To
<1>5. ASSUME turn[t].window # Len(Windows) PROVE turn' = [turn EXCEPT ![t] = y]
  BY <1>1, <1>5 DEF NextWindow, AgentsInv, TurnsOK, Shape, Fields
<1> HIDE DEF x, y
<1>0. TurnsOK BY DEF AgentsInv
<1>6. CASE turn[t].window = Len(Windows)
  BY <1>0, <1>1, <1>2, <1>4, <1>6, Becomes
<1>7. CASE turn[t].window # Len(Windows)
  <2>1. turn[t].window + 1 \in 1..Len(Windows) BY <1>1, <1>7, FirstWindow
  <2> QED BY <1>0, <1>3, <1>5, <1>7, <2>1, Becomes
<1> QED BY <1>6, <1>7

\* Before the lock, a turn adds nothing to the count.
LEMMA Admits ==
    ASSUME AgentsInv, NEW t \in Turns, Only(t),
           UNCHANGED <<turnLock, slack>>,
           turn[t].pc \in {"limit", "expire", "acquire"},
           turn'[t].pc \in {"off", "limit", "expire", "acquire"},
           turn'[t].pc # "off" => turn'[t].user = turn[t].user,
           turn'[t].msg \in Messages, turn'[t].window \in 1..Len(Windows)
    PROVE  TurnsOK' /\ LocksOK' /\ TurnsOverlapOnlyBySlack'
<1>1. TurnsOK' BY DEF AgentsInv, TurnsOK, Only, PCs
<1>2. LocksOK' BY DEF AgentsInv, LocksOK
<1>4. \A u \in Users : Running(u)' \subseteq Running(u)
  BY DEF Running, Only
<1> QED BY <1>1, <1>2, <1>4, NoneBegins DEF AgentsInv

LEMMA Entering ==
    ASSUME AgentsInv, NEW t \in Turns, turn[t].pc \in {"limit", "expire", "acquire"}
    PROVE  /\ turn[t].user \in Users
           /\ turn[t].msg \in Messages /\ turn[t].window \in 1..Len(Windows) /\ Shape(turn[t])
BY DEF AgentsInv, TurnsOK

\* The first message of a window goes to its EXPIRE; a counter that is not
\* at one has either got its TTL or a turn that is about to give it one.
LEMMA CountTurnInv ==
    ASSUME AgentsInv, NEW t \in Turns, CountTurn(t)
    PROVE  AgentsInv'
<1> DEFINE u == turn[t].user
           w == turn[t].window
           n == windows[u][w].n + 1
<1>1. /\ turn[t].pc = "limit" /\ UNCHANGED <<turnLock, slack, stuck>>
      /\ windows' = [windows EXCEPT ![u][w].n = n]
  BY DEF CountTurn
<1>2. /\ u \in Users
      /\ turn[t].msg \in Messages /\ w \in 1..Len(Windows) /\ Shape(turn[t])
  BY <1>1, Entering
<1>3. TurnsOK BY DEF AgentsInv
<1>4. windows[u][w].n \in Nat BY <1>2 DEF AgentsInv, WindowsOK
<1>5. WindowsOK'
  <2> DEFINE r == [windows[u][w] EXCEPT !.n = n]
  <2>1. windows[u][w] \in [n : Nat, ttl : BOOLEAN] BY <1>2 DEF AgentsInv, WindowsOK
  <2>3. n \in Nat BY <1>4
  <2>4. r \in [n : Nat, ttl : BOOLEAN] BY <2>1, <2>3
  <2>2. windows' = [windows EXCEPT ![u] = [windows[u] EXCEPT ![w] = r]] BY <1>1
  <2> HIDE DEF r
  <2> QED BY <1>2, <2>2, <2>4 DEF AgentsInv, WindowsOK
<1>6. /\ windows'[u][w] = [windows[u][w] EXCEPT !.n = n]
      /\ \A v \in Users, k \in 1..Len(Windows) :
            (v # u \/ k # w) => windows'[v][k] = windows[v][k]
  BY <1>1, <1>2 DEF AgentsInv, WindowsOK
<1>7. windows'[u][w].ttl = windows[u][w].ttl
  BY <1>2, <1>6 DEF AgentsInv, WindowsOK
<1>8. CASE n = 1 /\ To(t, "expire")
  <2> DEFINE x == [turn[t] EXCEPT !.pc = "expire"]
  <2>1. /\ Shape(x) /\ x.pc = "expire" /\ x.user = u /\ x.msg = turn[t].msg
        /\ x.window = w
    BY <1>2, Relabelled
  <2>2. turn' = [turn EXCEPT ![t] = x] BY <1>8 DEF To
  <2> HIDE DEF x
  <2>3. Only(t) /\ turn'[t] = x BY <1>3, <2>1, <2>2, Becomes
  <2>4. TurnsOK' /\ LocksOK' /\ TurnsOverlapOnlyBySlack'
    BY <1>1, <1>2, <2>1, <2>3, Admits
  <2>5. WindowsEnd'
    <3> SUFFICES ASSUME NEW v \in Users, NEW k \in 1..Len(Windows),
                        windows'[v][k].n > 0, ~windows'[v][k].ttl
                 PROVE  \/ <<v, k>> \in stuck'
                        \/ \E s \in Turns : turn'[s].pc = "expire" /\ turn'[s].user = v
                                           /\ turn'[s].window = k
      BY DEF WindowsEnd
    <3>1. CASE v = u /\ k = w BY <2>1, <2>3, <3>1
    <3>2. CASE v # u \/ k # w
      <4>1. windows[v][k].n > 0 /\ ~windows[v][k].ttl BY <1>6, <3>2
      <4>2. \/ <<v, k>> \in stuck
            \/ \E s \in Turns : turn[s].pc = "expire" /\ turn[s].user = v /\ turn[s].window = k
        BY <4>1 DEF AgentsInv, WindowsEnd
      <4> QED BY <1>1, <2>3, <4>2 DEF Only
    <3> QED BY <3>1, <3>2
  <2> QED BY <1>5, <2>4, <2>5 DEF AgentsInv
<1>9. ASSUME n # 1, Only(t), turn'[t].pc \in {"off", "limit", "acquire"},
             turn'[t].pc # "off" => turn'[t].user = u,
             turn'[t].msg \in Messages, turn'[t].window \in 1..Len(Windows)
      PROVE  AgentsInv'
  <2>1. TurnsOK' /\ LocksOK' /\ TurnsOverlapOnlyBySlack'
    BY <1>1, <1>9, Admits
  <2>2. windows[u][w].n > 0 BY <1>4, <1>9
  <2>3. WindowsEnd'
    <3> SUFFICES ASSUME NEW v \in Users, NEW k \in 1..Len(Windows),
                        windows'[v][k].n > 0, ~windows'[v][k].ttl
                 PROVE  \/ <<v, k>> \in stuck'
                        \/ \E s \in Turns : turn'[s].pc = "expire" /\ turn'[s].user = v
                                           /\ turn'[s].window = k
      BY DEF WindowsEnd
    <3>1. windows[v][k].n > 0 /\ ~windows[v][k].ttl BY <1>6, <1>7, <2>2
    <3>2. \/ <<v, k>> \in stuck
          \/ \E s \in Turns : turn[s].pc = "expire" /\ turn[s].user = v /\ turn[s].window = k
      BY <3>1 DEF AgentsInv, WindowsEnd
    <3> QED BY <1>1, <1>9, <3>2 DEF Only
  <2> QED BY <1>5, <2>1, <2>3 DEF AgentsInv
<1>10. CASE n # 1 /\ turn' = [turn EXCEPT ![t] = Asleep]
  <2>1. Only(t) /\ turn'[t] = Asleep BY <1>3, <1>10, AsleepShape, Becomes
  <2> QED BY <1>9, <1>10, <2>1, AsleepShape, FirstWindow
<1>11. CASE n # 1 /\ NextWindow(t)
  BY <1>2, <1>9, <1>11, NextWindowSteps
<1>12. CASE n = 1
  <2>1. To(t, "expire") BY <1>12 DEF CountTurn
  <2> QED BY <1>8, <1>12, <2>1
<1>13. CASE n # 1
  <2>1. turn' = [turn EXCEPT ![t] = Asleep] \/ NextWindow(t)
    <3> HIDE DEF u, w, n
    <3>1. CASE n > 1 /\ n > Windows[w] BY <1>13, <3>1 DEF CountTurn, u, w, n
    <3>2. CASE ~(n > 1 /\ n > Windows[w]) BY <1>13, <3>2 DEF CountTurn, u, w, n
    <3> QED BY <3>1, <3>2
  <2> QED BY <1>10, <1>11, <1>13, <2>1
<1> QED BY <1>12, <1>13

LEMMA ExpireWindowInv ==
    ASSUME AgentsInv, NEW t \in Turns, ExpireWindow(t)
    PROVE  AgentsInv'
<1> DEFINE u == turn[t].user
           w == turn[t].window
<1>1. /\ turn[t].pc = "expire" /\ UNCHANGED <<turnLock, slack, stuck>>
      /\ windows' = [windows EXCEPT ![u][w].ttl = windows[u][w].n > 0] /\ NextWindow(t)
  BY DEF ExpireWindow
<1>2. u \in Users /\ w \in 1..Len(Windows)
      /\ turn[t].msg \in Messages
  BY <1>1, Entering
<1>3. windows[u][w] \in [n : Nat, ttl : BOOLEAN] BY <1>2 DEF AgentsInv, WindowsOK
<1>4. (windows[u][w].n > 0) \in BOOLEAN BY <1>3
<1>5. WindowsOK'
  <2> DEFINE r == [windows[u][w] EXCEPT !.ttl = windows[u][w].n > 0]
  <2>1. r \in [n : Nat, ttl : BOOLEAN] BY <1>3, <1>4
  <2>2. windows' = [windows EXCEPT ![u] = [windows[u] EXCEPT ![w] = r]] BY <1>1
  <2> HIDE DEF r
  <2> QED BY <1>2, <2>1, <2>2 DEF AgentsInv, WindowsOK
<1>6. /\ windows'[u][w].n = windows[u][w].n
      /\ windows'[u][w].ttl = (windows[u][w].n > 0)
      /\ \A v \in Users, k \in 1..Len(Windows) :
            (v # u \/ k # w) => windows'[v][k] = windows[v][k]
  BY <1>1, <1>2, <1>3 DEF AgentsInv, WindowsOK
<1>7. Only(t) /\ turn'[t].pc \in {"limit", "acquire"} /\ turn'[t].user = u
      /\ turn'[t].msg \in Messages /\ turn'[t].window \in 1..Len(Windows)
  BY <1>1, <1>2, NextWindowSteps
<1>8. TurnsOK' /\ LocksOK' /\ TurnsOverlapOnlyBySlack'
  BY <1>1, <1>7, Admits
<1>9. WindowsEnd'
  <2> SUFFICES ASSUME NEW v \in Users, NEW k \in 1..Len(Windows),
                      windows'[v][k].n > 0, ~windows'[v][k].ttl
               PROVE  \/ <<v, k>> \in stuck'
                      \/ \E s \in Turns : turn'[s].pc = "expire" /\ turn'[s].user = v
                                         /\ turn'[s].window = k
    BY DEF WindowsEnd
  <2>1. ~(v = u /\ k = w) BY <1>6
  <2>2. windows[v][k].n > 0 /\ ~windows[v][k].ttl BY <1>6, <2>1
  <2>3. \/ <<v, k>> \in stuck
        \/ \E s \in Turns : turn[s].pc = "expire" /\ turn[s].user = v /\ turn[s].window = k
    BY <2>2 DEF AgentsInv, WindowsEnd
  <2> QED BY <1>1, <1>7, <2>1, <2>3 DEF Only
<1> QED BY <1>5, <1>8, <1>9 DEF AgentsInv

LEMMA LimiterFailsInv ==
    ASSUME AgentsInv, NEW t \in Turns, LimiterFails(t)
    PROVE  AgentsInv'
<1> DEFINE x == [turn[t] EXCEPT !.pc = "acquire"]
<1>1. /\ turn[t].pc \in {"limit", "expire"} /\ turn' = [turn EXCEPT ![t] = x]
      /\ UNCHANGED <<windows, turnLock, slack>>
  BY DEF LimiterFails, To
<1>2. TurnsOK /\ Shape(turn[t]) BY DEF AgentsInv, TurnsOK
<1>3. /\ Shape(x) /\ x.pc = "acquire" /\ x.user = turn[t].user /\ x.msg = turn[t].msg
      /\ x.window = turn[t].window
  BY <1>2, Relabelled
<1> HIDE DEF x
<1>4. Only(t) /\ turn'[t] = x BY <1>1, <1>2, <1>3, Becomes
<1>5. TurnsOK' /\ LocksOK' /\ TurnsOverlapOnlyBySlack'
  BY <1>1, <1>3, <1>4, Admits, Entering
<1>6. WindowsOK' BY <1>1 DEF AgentsInv, WindowsOK
<1>7. WindowsEnd'
  BY <1>1, <1>4 DEF LimiterFails, AgentsInv, WindowsEnd, Only
<1> QED BY <1>5, <1>6, <1>7 DEF AgentsInv

\* A turn is let in with the lock, or is refused.
LEMMA AcquireTurnInv ==
    ASSUME AgentsInv, NEW t \in Turns, AcquireTurn(t)
    PROVE  AgentsInv'
<1> DEFINE u == turn[t].user
<1>1. turn[t].pc = "acquire" /\ UNCHANGED <<windows, slack, stuck>>
  BY DEF AcquireTurn
<1>2. CASE turn' = [turn EXCEPT ![t] = Asleep] /\ UNCHANGED turnLock
  BY <1>1, <1>2, Ends
<1>3. CASE turnLock[u] = Nobody /\ turnLock' = [turnLock EXCEPT ![u] = t] /\ To(t, "load")
  <2>1. TurnsOK /\ u \in Users /\ Shape(turn[t])
        /\ turn[t].msg \in Messages /\ turn[t].window \in 1..Len(Windows)
    BY <1>1, Entering DEF AgentsInv
  <2>2. Only(t) /\ turn'[t].pc = "load" /\ turn'[t].user = u
        /\ turn'[t].msg \in Messages
        /\ turn'[t].window \in 1..Len(Windows)
    <3> DEFINE x == [turn[t] EXCEPT !.pc = "load"]
    <3>1. /\ Shape(x) /\ x.pc = "load" /\ x.user = u /\ x.msg = turn[t].msg
          /\ x.window = turn[t].window
      BY <2>1, Relabelled
    <3>2. turn' = [turn EXCEPT ![t] = x] BY <1>3 DEF To
    <3> HIDE DEF x
    <3> QED BY <2>1, <3>1, <3>2, Becomes
  <2>3. TurnsOK' BY <2>1, <2>2 DEF TurnsOK, Only, PCs
  <2>4. LocksOK' BY <1>1, <1>3 DEF AgentsInv, LocksOK
  <2>5. WindowsOK' BY <1>1 DEF AgentsInv, WindowsOK
  <2>7. WindowsEnd' BY <1>1, <2>2 DEF AgentsInv, WindowsEnd, Only
  <2>8. TurnsOverlapOnlyBySlack'
    <3> SUFFICES ASSUME NEW v \in Users
                 PROVE  Cardinality(Running(v)' \ {turnLock'[v]}) <= slack'[v]
      BY DEF TurnsOverlapOnlyBySlack
    <3>1. Running(v)' \ {turnLock'[v]} \in SUBSET (Running(v) \ {turnLock[v]})
      <4>1. CASE v = u
        <5>1. turnLock'[v] = t BY <1>3, <2>1, <4>1 DEF AgentsInv, LocksOK
        <5>2. Nobody \notin Running(v) BY AgentsAssumption DEF Running, AgentsAssumption
        <5> QED BY <1>3, <2>2, <4>1, <5>1, <5>2 DEF Running, Only
      <4>2. CASE v # u
        <5>1. turnLock'[v] = turnLock[v] BY <1>3, <4>2 DEF AgentsInv, LocksOK
        <5> QED BY <2>2, <4>2, <5>1 DEF Running, Only
      <4> QED BY <4>1, <4>2
    <3> QED BY <1>1, <3>1, Fewer DEF AgentsInv
  <2> QED BY <2>3, <2>4, <2>5, <2>7, <2>8 DEF AgentsInv
<1> QED BY <1>2, <1>3 DEF AcquireTurn

\* A turn let in without the lock is paid for by slack.
LEMMA AcquireFailsInv ==
    ASSUME AgentsInv, NEW t \in Turns, AcquireFails(t)
    PROVE  AgentsInv'
<1> DEFINE u == turn[t].user
           x == [turn[t] EXCEPT !.pc = "load"]
<1>1. /\ turn[t].pc = "acquire" /\ turn' = [turn EXCEPT ![t] = x]
      /\ UNCHANGED <<windows, turnLock, stuck>>
      /\ slack' = [slack EXCEPT ![u] = @ + 1]
  BY DEF AcquireFails, To
<1>2. /\ TurnsOK /\ u \in Users /\ Shape(turn[t])
      /\ turn[t].msg \in Messages /\ turn[t].window \in 1..Len(Windows)
  BY <1>1, Entering DEF AgentsInv
<1>3. /\ Shape(x) /\ x.pc = "load" /\ x.user = u /\ x.msg = turn[t].msg
      /\ x.window = turn[t].window
  BY <1>2, Relabelled
<1> HIDE DEF x
<1>4. Only(t) /\ turn'[t] = x BY <1>1, <1>2, <1>3, Becomes
<1>5. TurnsOK' BY <1>2, <1>3, <1>4 DEF TurnsOK, Only, PCs
<1>6. LocksOK' BY <1>1, <1>2 DEF AgentsInv, LocksOK
<1>7. WindowsOK' BY <1>1 DEF AgentsInv, WindowsOK
<1>9. WindowsEnd' BY <1>1, <1>4 DEF AgentsInv, WindowsEnd, Only
<1>10. TurnsOverlapOnlyBySlack'
  <2> SUFFICES ASSUME NEW v \in Users
               PROVE  Cardinality(Running(v)' \ {turnLock[v]}) <= slack'[v]
    BY <1>1 DEF TurnsOverlapOnlyBySlack
  <2>1. CASE v # u
    <3>1. Running(v)' \ {turnLock[v]} \in SUBSET (Running(v) \ {turnLock[v]})
      BY <1>2, <1>3, <1>4, <2>1 DEF Running, Only
    <3>2. slack'[v] = slack[v] BY <1>1, <2>1 DEF AgentsInv, LocksOK
    <3> QED BY <3>1, <3>2, Fewer DEF AgentsInv
  <2>2. CASE v = u
    <3> DEFINE S == Running(v) \ {turnLock[v]}
    <3>1. Running(v)' \ {turnLock[v]} \in SUBSET (S \cup {t})
      BY <1>3, <1>4, <2>2 DEF Running, Only
    <3>2. slack'[v] = slack[v] + 1 /\ slack[v] \in Nat
      BY <1>1, <2>2 DEF AgentsInv, LocksOK
    <3>3. Cardinality(S) <= slack[v] BY DEF AgentsInv, TurnsOverlapOnlyBySlack
    <3>4. IsFiniteSet(S) BY Finite
    <3> HIDE DEF S
    <3>5. Cardinality(Running(v)' \ {turnLock[v]}) <= slack[v] + 1
      BY <3>1, <3>2, <3>3, <3>4, OneMore
    <3> QED BY <3>2, <3>5
  <2> QED BY <2>1, <2>2
<1> QED BY <1>5, <1>6, <1>7, <1>9, <1>10 DEF AgentsInv

-----------------------------------------------------------------------------
(* The lock is lost or given back *)

\* A step that leaves the windows and all turns but one alone,
\* and puts that one to sleep.
LEMMA Wakes ==
    ASSUME AgentsInv, NEW t \in Turns, turn' = [turn EXCEPT ![t] = Asleep],
           UNCHANGED <<windows>>
    PROVE  /\ Only(t) /\ turn'[t] = Asleep
           /\ TurnsOK' /\ WindowsOK'
<1>1. Only(t) /\ turn'[t] = Asleep BY AsleepShape, Becomes DEF AgentsInv
<1>2. TurnsOK'
  <2>1. "off" \in PCs BY DEF PCs
  <2> QED BY <1>1, <2>1, AsleepShape, FirstWindow DEF AgentsInv, TurnsOK, Only
<1>4. WindowsOK' BY DEF AgentsInv, WindowsOK
<1> QED BY <1>1, <1>2, <1>4

\* The turn that loses its lock to this one's release was not counted, this
\* one was: at worst they change places.
LEMMA ReleaseTurnInv ==
    ASSUME AgentsInv, NEW t \in Turns, ReleaseTurn(t)
    PROVE  AgentsInv'
<1> DEFINE u == turn[t].user
<1>1. /\ turn[t].pc = "release" /\ turn' = [turn EXCEPT ![t] = Asleep]
      /\ turnLock' = [turnLock EXCEPT ![u] = Nobody]
      /\ UNCHANGED <<windows, slack, stuck>>
  BY DEF ReleaseTurn
<1>2. Only(t) /\ turn'[t] = Asleep /\ TurnsOK' /\ WindowsOK'
  BY <1>1, Wakes
<1>3. u \in Users BY <1>1 DEF AgentsInv, TurnsOK
<1>4. LocksOK' BY <1>1, <1>3 DEF AgentsInv, LocksOK
<1>5. WindowsEnd' BY <1>1, <1>2 DEF AgentsInv, WindowsEnd, Only
<1>6. TurnsOverlapOnlyBySlack'
  <2> SUFFICES ASSUME NEW v \in Users
               PROVE  Cardinality(Running(v)' \ {turnLock'[v]}) <= slack[v]
    BY <1>1 DEF TurnsOverlapOnlyBySlack
  <2>1. Running(v)' \subseteq Running(v) \ {t}
    BY <1>2, AsleepShape DEF Running, Only
  <2>2. CASE v # u
    <3>1. turnLock'[v] = turnLock[v] BY <1>1, <2>2 DEF AgentsInv, LocksOK
    <3>2. Running(v)' \ {turnLock'[v]} \in SUBSET (Running(v) \ {turnLock[v]})
      BY <2>1, <3>1
    <3> QED BY <3>2, Fewer DEF AgentsInv
  <2>3. CASE v = u /\ turnLock[v] = t
    <3>1. Running(v)' \ {turnLock'[v]} \in SUBSET (Running(v) \ {turnLock[v]})
      BY <2>1, <2>3
    <3> QED BY <3>1, Fewer DEF AgentsInv
  <2>4. CASE v = u /\ turnLock[v] # t
    <3> DEFINE S == Running(v) \ {turnLock[v]}
               R == S \ {t}
    <3>1. t \in S BY <1>1, <2>4 DEF Running
    <3>2. IsFiniteSet(S) /\ Cardinality(S) \in Nat BY Finite
    <3>3. Cardinality(R) = Cardinality(S) - 1 BY <3>1, <3>2, FS_RemoveElement
    <3>4. Cardinality(S) <= slack[v] /\ slack[v] \in Nat
      BY DEF AgentsInv, TurnsOverlapOnlyBySlack, LocksOK
    <3>5. R \in SUBSET Running(v) OBVIOUS
    <3>6. Cardinality(R) <= slack[v] - 1 /\ slack[v] - 1 \in Nat
      BY <3>2, <3>3, <3>4, <3>5, Finite
    <3>7. Running(v)' \ {turnLock'[v]} \in SUBSET (R \cup {turnLock[v]})
      BY <2>1
    <3>8. IsFiniteSet(R) BY <3>5, Finite
    <3> HIDE DEF R
    <3>9. Cardinality(Running(v)' \ {turnLock'[v]}) <= (slack[v] - 1) + 1
      BY <3>6, <3>7, <3>8, OneMore
    <3> QED BY <3>4, <3>9
  <2> QED BY <2>2, <2>3, <2>4
<1> QED BY <1>2, <1>4, <1>5, <1>6 DEF AgentsInv

LEMMA WorkerDiesInv ==
    ASSUME AgentsInv, NEW t \in Turns, WorkerDies(t) \/ ReleaseFails(t)
    PROVE  AgentsInv'
<1>1. /\ turn' = [turn EXCEPT ![t] = Asleep] /\ stuck \subseteq stuck'
      /\ turn[t].pc = "expire" => <<turn[t].user, turn[t].window>> \in stuck'
      /\ UNCHANGED <<windows, turnLock, slack>>
  BY DEF WorkerDies, ReleaseFails
<1>2. Only(t) /\ turn'[t] = Asleep /\ TurnsOK' /\ WindowsOK'
  BY <1>1, Wakes
<1>3. LocksOK' BY <1>1 DEF AgentsInv, LocksOK
<1>4. WindowsEnd' BY <1>1, <1>2 DEF AgentsInv, WindowsEnd, Only
<1>5. \A u \in Users : Running(u)' \subseteq Running(u)
  BY <1>2, AsleepShape DEF Running, Only
<1>6. TurnsOverlapOnlyBySlack' BY <1>1, <1>5, NoneBegins DEF AgentsInv
<1> QED BY <1>2, <1>3, <1>4, <1>6 DEF AgentsInv

\* A lock that runs out under its turn is paid for by slack.
LEMMA LockExpiresInv ==
    ASSUME AgentsInv, NEW u \in Users, LockExpires(u)
    PROVE  AgentsInv'
<1>1. /\ turnLock' = [turnLock EXCEPT ![u] = Nobody]
      /\ slack' = IF turnLock[u] \in Running(u) THEN [slack EXCEPT ![u] = @ + 1] ELSE slack
      /\ UNCHANGED <<windows, turn, stuck>>
  BY DEF LockExpires
<1>2. TurnsOK' /\ WindowsOK' /\ WindowsEnd'
  BY <1>1 DEF AgentsInv, TurnsOK, WindowsOK, WindowsEnd
<1>3. LocksOK' BY <1>1 DEF AgentsInv, LocksOK
<1>4. TurnsOverlapOnlyBySlack'
  <2> SUFFICES ASSUME NEW v \in Users
               PROVE  Cardinality(Running(v) \ {turnLock'[v]}) <= slack'[v]
    BY <1>1 DEF TurnsOverlapOnlyBySlack, Running
  <2>1. CASE v # u \/ turnLock[u] \notin Running(u)
    <3>1. Running(v) \ {turnLock'[v]} \in SUBSET (Running(v) \ {turnLock[v]})
      BY <1>1, <2>1 DEF AgentsInv, LocksOK
    <3>2. slack'[v] = slack[v] BY <1>1, <2>1 DEF AgentsInv, LocksOK
    <3> QED BY <3>1, <3>2, Fewer DEF AgentsInv
  <2>2. CASE v = u /\ turnLock[u] \in Running(u)
    <3> DEFINE S == Running(v) \ {turnLock[v]}
    <3>1. Running(v) \ {turnLock'[v]} \in SUBSET (S \cup {turnLock[v]}) OBVIOUS
    <3>2. slack'[v] = slack[v] + 1 /\ slack[v] \in Nat
      BY <1>1, <2>2 DEF AgentsInv, LocksOK
    <3>3. Cardinality(S) <= slack[v] BY DEF AgentsInv, TurnsOverlapOnlyBySlack
    <3>4. IsFiniteSet(S) BY Finite
    <3> HIDE DEF S
    <3>5. Cardinality(Running(v) \ {turnLock'[v]}) <= slack[v] + 1
      BY <3>1, <3>2, <3>3, <3>4, OneMore
    <3> QED BY <3>2, <3>5
  <2> QED BY <2>1, <2>2
<1> QED BY <1>2, <1>3, <1>4 DEF AgentsInv

LEMMA KeyExpiresInv ==
    ASSUME AgentsInv, NEW u \in Users, KeyExpires(u) \/ HistoryExpires(u) \/ ShownExpires(u)
    PROVE  AgentsInv'
<1>1. UNCHANGED <<turnLock, turn, slack, stuck>> BY DEF KeyExpires, HistoryExpires, ShownExpires
<1>2. TurnsOK' /\ LocksOK' /\ TurnsOverlapOnlyBySlack'
  BY <1>1 DEF AgentsInv, TurnsOK, LocksOK, TurnsOverlapOnlyBySlack, Running
<1>3. CASE \E w \in 1..Len(Windows) : windows' = [windows EXCEPT ![u][w] = NoWindow]
  <2>1. PICK w \in 1..Len(Windows) : windows' = [windows EXCEPT ![u][w] = NoWindow]
    BY <1>3
  <2>2. NoWindow \in [n : Nat, ttl : BOOLEAN] /\ NoWindow.n = 0 BY DEF NoWindow
  <2>3. WindowsOK' BY <2>1, <2>2 DEF AgentsInv, WindowsOK
  <2>4. \A v \in Users, k \in 1..Len(Windows) :
            windows'[v][k] = IF v = u /\ k = w THEN NoWindow ELSE windows[v][k]
    BY <2>1 DEF AgentsInv, WindowsOK
  <2>5. WindowsEnd' BY <1>1, <2>2, <2>4 DEF AgentsInv, WindowsEnd
  <2> QED BY <1>2, <2>3, <2>5 DEF AgentsInv
<1>4. CASE UNCHANGED windows
  <2>1. WindowsOK' /\ WindowsEnd'
    <3>1. WindowsOK /\ WindowsEnd BY DEF AgentsInv
    <3>2. WindowsOK' BY <1>4, <3>1 DEF WindowsOK
    <3>3. WindowsEnd' BY <1>1, <1>4, <3>1 DEF WindowsEnd
    <3> QED BY <3>2, <3>3
  <2> QED BY <1>2, <2>1 DEF AgentsInv
<1> QED BY <1>3, <1>4 DEF KeyExpires, HistoryExpires, ShownExpires

LEMMA ClientLeavesInv ==
    ASSUME AgentsInv, NEW t \in Turns, ClientLeaves(t)
    PROVE  AgentsInv'
<1>1. turn[t].pc \in {"think", "answer", "remember"} /\ Leave(t)
      /\ UNCHANGED <<windows, turnLock, slack, stuck>>
  BY DEF ClientLeaves
<1> QED BY <1>1, Leaves

-----------------------------------------------------------------------------
(* The invariant *)

LEMMA AgentsStarts == AgentsInit => AgentsInv
<1> SUFFICES ASSUME AgentsInit PROVE AgentsInv OBVIOUS
<1>1. turn = [t \in Turns |-> Asleep] BY DEF AgentsInit
<1>2. TurnsOK
  <2>1. "off" \in PCs BY DEF PCs
  <2> QED BY <1>1, <2>1, AsleepShape, FirstWindow DEF TurnsOK
<1>3. LocksOK BY DEF AgentsInit, LocksOK
<1>5. WindowsOK BY DEF AgentsInit, WindowsOK, NoWindow
<1>6. TurnsOverlapOnlyBySlack
  <2> SUFFICES ASSUME NEW u \in Users
               PROVE  Cardinality(Running(u) \ {turnLock[u]}) <= slack[u]
    BY DEF TurnsOverlapOnlyBySlack
  <2>1. Running(u) \ {turnLock[u]} = {} BY <1>1, AsleepShape DEF Running
  <2>2. slack[u] = 0 BY DEF AgentsInit
  <2> QED BY <2>1, <2>2, FS_EmptySet
<1>7. WindowsEnd BY DEF AgentsInit, WindowsEnd, NoWindow
<1> QED BY <1>2, <1>3, <1>5, <1>6, <1>7 DEF AgentsInv

LEMMA Idling ==
    ASSUME AgentsInv, UNCHANGED agentVars
    PROVE  AgentsInv'
<1>1. UNCHANGED <<windows, turnLock, turn, slack, stuck>> BY DEF agentVars
<1>2. TurnsOK' /\ LocksOK' /\ WindowsOK'
  BY <1>1 DEF AgentsInv, TurnsOK, LocksOK, WindowsOK
<1>3. TurnsOverlapOnlyBySlack' /\ WindowsEnd'
  BY <1>1 DEF AgentsInv, TurnsOverlapOnlyBySlack, WindowsEnd, Running
<1> QED BY <1>2, <1>3 DEF AgentsInv

LEMMA TurnStepInv ==
    ASSUME AgentsInv, NEW t \in Turns, TurnStep(t)
    PROVE  AgentsInv'
<1>1. CASE CountTurn(t) \/ ExpireWindow(t) \/ AcquireTurn(t)
  BY <1>1, CountTurnInv, ExpireWindowInv, AcquireTurnInv
<1>2. CASE LoadHistory(t) \/ LookUpAnswer(t) \/ Route(t) \/ Think(t) \/ FilterBooks(t)
  BY <1>2, LoadHistoryInv, LookUpAnswerInv, RouteInv, ThinkInv, FilterBooksInv
<1>3. CASE \E i \in {1, 2} : \/ StartSearch(t, i) \/ FindBooks(t, i)
                             \/ ReadIds(t, i) \/ ReadEntries(t, i) \/ RememberShown(t, i)
  BY <1>3, SearchInv
<1>4. CASE EndSearch(t) \/ WriteAnswer(t)
  BY <1>4, EndSearchInv, WriteAnswerInv
<1>5. CASE ReadHistory(t) \/ AppendHistory(t) \/ ShareAnswer(t) \/ ReleaseTurn(t)
  BY <1>5, ReadHistoryInv, AppendHistoryInv, ShareAnswerInv, ReleaseTurnInv
<1> QED BY <1>1, <1>2, <1>3, <1>4, <1>5 DEF TurnStep

\* Every step of a request and every fault keeps the turns, the locks and the
\* windows as the properties need them.
THEOREM AgentsInvariance == AgentsSpec => []AgentsInv
<1>1. AgentsInv /\ [AgentsNext]_agentVars => AgentsInv'
  <2> SUFFICES ASSUME AgentsInv, [AgentsNext]_agentVars PROVE AgentsInv' OBVIOUS
  <2>1. CASE UNCHANGED agentVars BY <2>1, Idling
  <2>2. ASSUME NEW t \in Turns, NEW u \in Users, NEW m \in Messages, Ask(t, u, m)
        PROVE  AgentsInv'
    BY <2>2, AskInv
  <2>3. ASSUME NEW t \in Turns, TurnStep(t) PROVE AgentsInv'
    BY <2>3, TurnStepInv
  <2>4. ASSUME NEW t \in Turns, \/ LimiterFails(t) \/ AcquireFails(t) \/ ReleaseFails(t)
                                \/ ClientLeaves(t) \/ WorkerDies(t)
        PROVE  AgentsInv'
    BY <2>4, LimiterFailsInv, AcquireFailsInv, WorkerDiesInv, ClientLeavesInv
  <2>5. ASSUME NEW u \in Users, LockExpires(u) \/ KeyExpires(u) \/ HistoryExpires(u) \/ ShownExpires(u) PROVE AgentsInv'
    BY <2>5, LockExpiresInv, KeyExpiresInv
  <2> QED BY <2>1, <2>2, <2>3, <2>4, <2>5 DEF AgentsNext
<1> QED BY <1>1, AgentsStarts, PTL DEF AgentsSpec

\* However many requests a user sends and whatever fails, no more turns run
\* without the lock than a hiccup let in or lost a lock in use.
THEOREM TurnsTakeTheirTurns == AgentsSpec => []TurnsOverlapOnlyBySlack
<1>1. AgentsInv => TurnsOverlapOnlyBySlack BY DEF AgentsInv
<1> QED BY <1>1, AgentsInvariance, PTL

\* A rate window that was hit runs out, unless the command that gives it its
\* end failed or died with its worker.
THEOREM NobodyIsLimitedForEver == AgentsSpec => []WindowsEnd
<1>1. AgentsInv => WindowsEnd BY DEF AgentsInv
<1> QED BY <1>1, AgentsInvariance, PTL

-----------------------------------------------------------------------------
\* Windows over what is remembered.

Exchange == [no : Nat, asks : BOOLEAN, carries : SUBSET Private]

\* The last n of a sequence: as long as it is, or n, counted from its end.
LEMMA LastOnes ==
    ASSUME NEW S, NEW s \in Seq(S), NEW n \in Nat
    PROVE  /\ LastOf(s, n) \in Seq(S) /\ Len(LastOf(s, n)) \in Nat
           /\ Len(s) <= n => LastOf(s, n) = s
           /\ Len(s) > n => /\ Len(LastOf(s, n)) = n
                            /\ \A i \in 1..n : LastOf(s, n)[i] = s[Len(s) - n + i]
<1>1. Len(s) \in Nat /\ \A i \in 1..Len(s) : s[i] \in S BY LenProperties, ElementOfSeq
<1>2. CASE Len(s) <= n
  <2>0. ~(Len(s) > n) BY <1>1, <1>2
  <2>1. LastOf(s, n) = SubSeq(s, 1, Len(s)) BY <2>0, Zenon DEF LastOf
  <2>2. LastOf(s, n) = s BY <2>1, SubSeqFull
  <2> QED BY <1>1, <1>2, <2>2
<1>3. CASE Len(s) > n
  <2> DEFINE m == Len(s) - n + 1
  <2>1. LastOf(s, n) = SubSeq(s, m, Len(s)) BY <1>3 DEF LastOf
  <2>2. m \in Int /\ Len(s) \in Int /\ \A i \in m..Len(s) : s[i] \in S BY <1>1, <1>3
  <2>3. /\ SubSeq(s, m, Len(s)) \in Seq(S)
        /\ Len(SubSeq(s, m, Len(s))) = IF m <= Len(s) THEN Len(s) - m + 1 ELSE 0
        /\ \A i \in 1..(Len(s) - m + 1) : SubSeq(s, m, Len(s))[i] = s[m + i - 1]
    BY <2>2, SubSeqProperties
  <2>4. Len(s) - m + 1 = n /\ (m <= Len(s) <=> n > 0) BY <1>1
  <2>5. Len(LastOf(s, n)) = n BY <2>1, <2>3, <2>4
  <2>6. \A i \in 1..n : m + i - 1 = Len(s) - n + i BY <1>1
  <2>7. \A i \in 1..n : LastOf(s, n)[i] = s[Len(s) - n + i]
    BY <2>1, <2>3, <2>4, <2>6
  <2> QED BY <1>3, <2>1, <2>3, <2>5, <2>7
<1> QED BY <1>1, <1>2, <1>3

LEMMA LastLen ==
    ASSUME NEW S, NEW s \in Seq(S), NEW n \in Nat
    PROVE  Len(LastOf(s, n)) <= n
<1>1. Len(s) \in Nat BY LenProperties
<1>2. CASE Len(s) <= n
  <2>1. LastOf(s, n) = s BY <1>2, LastOnes, Zenon
  <2> QED BY <1>2, <2>1
<1>3. CASE Len(s) > n
  <2>1. Len(LastOf(s, n)) = n BY <1>3, LastOnes, Zenon
  <2> QED BY <2>1
<1> QED BY <1>1, <1>2, <1>3

\* To extend the end of a dialog and trim it is to take the end of the
\* extended sequence.
LEMMA Extended ==
    \A s, old \in Seq(Exchange) : \A e \in Exchange : \A n \in Nat \ {0} :
       old = LastOf(s, Len(old))
          => /\ LastOf(old \o <<e>>, n) = LastOf(Append(s, e), Len(LastOf(old \o <<e>>, n)))
             /\ Len(LastOf(old \o <<e>>, n)) = IF Len(old) + 1 <= n THEN Len(old) + 1 ELSE n
<1> SUFFICES ASSUME NEW s \in Seq(Exchange), NEW old \in Seq(Exchange), NEW e \in Exchange, NEW n \in Nat \ {0},
                    old = LastOf(s, Len(old))
             PROVE  /\ LastOf(old \o <<e>>, n) = LastOf(Append(s, e), Len(LastOf(old \o <<e>>, n)))
                    /\ Len(LastOf(old \o <<e>>, n)) = IF Len(old) + 1 <= n THEN Len(old) + 1 ELSE n
  BY Zenon
<1> DEFINE k == Len(old)
           a == old \o <<e>>
           b == Append(s, e)
<1>1. Len(s) \in Nat /\ k \in Nat /\ n \in Nat BY LenProperties
<1>2. <<e>> \in Seq(Exchange) /\ Len(<<e>>) = 1 /\ <<e>>[1] = e OBVIOUS
<1>3. k <= Len(s) /\ \A i \in 1..k : old[i] = s[Len(s) - k + i]
  <2>1. /\ Len(s) <= k => LastOf(s, k) = s
        /\ Len(s) > k => \A i \in 1..k : LastOf(s, k)[i] = s[Len(s) - k + i]
    BY <1>1, LastOnes
  <2>2. CASE Len(s) <= k BY <1>1, <2>1, <2>2
  <2>3. CASE Len(s) > k BY <1>1, <2>1, <2>3
  <2> QED BY <1>1, <2>2, <2>3
<1>4. /\ a \in Seq(Exchange) /\ Len(a) = k + 1
      /\ \A i \in 1..k : a[i] = old[i]
      /\ \A i \in 1..1 : a[k + i] = <<e>>[i]
  BY <1>2, Joined
<1>5. b \in Seq(Exchange) /\ Len(b) = Len(s) + 1 /\ b[Len(s) + 1] = e /\ \A i \in 1..Len(s) : b[i] = s[i]
  BY <1>1
<1>6. a[k + 1] = e BY <1>2, <1>4
<1> HIDE DEF a, b, k
<1>7. \A i \in 1..k + 1 : a[i] = b[Len(b) - (k + 1) + i]
  <2> SUFFICES ASSUME NEW i \in 1..k + 1 PROVE a[i] = b[Len(s) - k + i]
    BY <1>1, <1>5
  <2>1. CASE i = k + 1
    <3>1. Len(s) - k + i = Len(s) + 1 BY <1>1, <2>1
    <3> QED BY <1>5, <1>6, <2>1, <3>1
  <2>2. CASE i # k + 1
    <3>1. i \in 1..k /\ Len(s) - k + i \in 1..Len(s) BY <1>1, <1>3, <2>2
    <3> QED BY <1>3, <1>4, <1>5, <3>1
  <2> QED BY <2>1, <2>2
<1>8. CASE k + 1 <= n
  <2>1. LastOf(a, n) = a
    <3>1. a \in Seq(Exchange) /\ Len(a) <= n BY <1>4, <1>8
    <3> QED BY <1>1, <3>1, LastOnes
  <2>2. LastOf(b, k + 1) \in Seq(Exchange) /\ Len(LastOf(b, k + 1)) = k + 1
        /\ \A i \in 1..k + 1 : LastOf(b, k + 1)[i] = b[Len(b) - (k + 1) + i]
    <3>1. k + 1 \in Nat /\ k + 1 <= Len(b) BY <1>1, <1>3, <1>5
    <3> HIDE <1>7
    <3>2. CASE Len(b) <= k + 1
      <4>1. LastOf(b, k + 1) = b BY <1>5, <3>1, <3>2, LastOnes
      <4>2. Len(b) = k + 1 BY <1>1, <1>5, <3>1, <3>2
      <4>3. \A i \in 1..k + 1 : Len(b) - (k + 1) + i = i BY <1>1, <4>2
      <4> QED BY <1>5, <4>1, <4>2, <4>3
    <3>3. CASE Len(b) > k + 1
      <4>1. b \in Seq(Exchange) /\ k + 1 \in Nat BY <1>5, <3>1
      <4> DEFINE m == k + 1
      <4>2. m \in Nat /\ Len(b) > m BY <3>1, <3>3
      <4> HIDE DEF m
      <4>3. /\ LastOf(b, m) \in Seq(Exchange) /\ Len(LastOf(b, m)) = m
            /\ \A i \in 1..m : LastOf(b, m)[i] = b[Len(b) - m + i]
        BY <4>1, <4>2, LastOnes
      <4> QED BY <4>3 DEF m
    <3> QED BY <1>1, <1>5, <3>2, <3>3
  <2>3. a = LastOf(b, k + 1)
    <3>1. \A i \in 1..Len(a) : a[i] = LastOf(b, k + 1)[i] BY <1>4, <1>7, <2>2
    <3> QED BY <1>4, <2>2, <3>1, SeqEqual
  <2> QED BY <1>4, <1>8, <2>1, <2>3 DEF a, b, k
<1>9. CASE k + 1 > n
  <2>1. Len(a) > n /\ Len(b) > n BY <1>1, <1>3, <1>4, <1>5, <1>9
  <2>2. /\ LastOf(a, n) \in Seq(Exchange) /\ Len(LastOf(a, n)) = n
        /\ \A i \in 1..n : LastOf(a, n)[i] = a[Len(a) - n + i]
    <3>1. a \in Seq(Exchange) /\ n \in Nat BY <1>1, <1>4
    <3> QED BY <2>1, <3>1, LastOnes
  <2>3. /\ LastOf(b, n) \in Seq(Exchange) /\ Len(LastOf(b, n)) = n
        /\ \A i \in 1..n : LastOf(b, n)[i] = b[Len(b) - n + i]
    <3>1. b \in Seq(Exchange) /\ n \in Nat BY <1>1, <1>5
    <3> QED BY <2>1, <3>1, LastOnes
  <2>4. \A i \in 1..n : a[Len(a) - n + i] = b[Len(b) - n + i]
    <3> SUFFICES ASSUME NEW i \in 1..n PROVE a[Len(a) - n + i] = b[Len(b) - n + i]
      OBVIOUS
    <3>1. k + 1 - n + i \in 1..k + 1 BY <1>1, <1>9
    <3>2. Len(b) - (k + 1) + (k + 1 - n + i) = Len(b) - n + i BY <1>1, <1>5
    <3>3. Len(a) = k + 1 BY <1>4, Zenon
    <3>4. Len(a) - n + i = k + 1 - n + i BY <1>1, <3>3
    <3> QED BY <1>7, <3>1, <3>2, <3>4
  <2>5. LastOf(a, n) = LastOf(b, n)
    <3>1. \A i \in 1..Len(LastOf(a, n)) : LastOf(a, n)[i] = LastOf(b, n)[i] BY <2>2, <2>3, <2>4
    <3> QED BY <2>2, <2>3, <3>1, SeqEqual
  <2>6. ~(k + 1 <= n) BY <1>1, <1>9
  <2> QED BY <2>2, <2>5, <2>6 DEF a, b, k
<1> QED BY <1>1, <1>8, <1>9

\* The dialog is nothing when its key has run out.
LEMMA LastNone ==
    ASSUME NEW S, NEW s \in Seq(S)
    PROVE  LastOf(s, 0) = <<>>
<1>1. LastOf(s, 0) \in Seq(S) /\ Len(LastOf(s, 0)) = 0
  <2>1. Len(s) \in Nat BY LenProperties
  <2>2. CASE Len(s) <= 0
    <3>1. LastOf(s, 0) = s BY <2>2, LastOnes
    <3> QED BY <2>1, <2>2, <3>1
  <2>3. CASE Len(s) > 0 BY <2>3, LastOnes
  <2> QED BY <2>1, <2>2, <2>3
<1> QED BY <1>1, EmptySeq

-----------------------------------------------------------------------------
(* The dialog and the books shown *)

Calls == [pc : {"none", "find", "ids", "entries", "write", "done"},
          known : Seq(Books), ids : SUBSET Books, found : SUBSET Books]

\* What a turn holds, whatever is in Redis: a call of the graph takes two steps.
Proportioned(x) ==
    /\ x.asks \in BOOLEAN /\ x.carries \in SUBSET Private
    /\ x.pc = "off" => x.user = Nobody
    /\ x.calls \in [1..2 -> Calls]
    /\ x.pc # "search" => x.calls[1].pc = "none" /\ x.calls[2].pc = "none"
    /\ x.pc \in {"think", "filter", "search"} => x.rounds \in 0..MaxRounds /\ x.steps = 2 * x.rounds + 1
    /\ x.pc = "append" => x.old \in Seq(Exchange)

\* What the first search of a round knows: it excludes what is listed and what
\* was handed out, before and after it has read the list again.
Excludes(call, u) ==
    /\ call.pc = "find" =>
          advised[u] \cup WorksOf(ToSet(shown[u])) \subseteq WorksOf(ToSet(call.known))
    /\ call.pc \in {"ids", "entries", "write"} =>
          WorksOf(call.found) \cap (advised[u] \cup WorksOf(ToSet(shown[u]))) = {}
    /\ call.pc \in {"entries", "write"} => WorksOf(call.found) \cap WorksOf(call.ids) = {}
    /\ call.pc = "write" =>
          /\ IsInjective(call.known)
          /\ WorksOf(call.found) \cap WorksOf(ToSet(call.known)) = {}
          /\ advised[u] \subseteq WorksOf(ToSet(call.known))

\* What a turn that has its user to itself knows of Redis: the dialog it
\* extends is the end of what was said, a lone search excludes what it must.
Informed(x) ==
    /\ x.pc = "append" /\ slack[x.user] = 0 => Remembered(x.user, x.old)
    /\ x.calls[2].pc # "none" => x.user \in lossy
    /\ x.pc = "search" /\ x.user \notin lossy /\ slack[x.user] = 0 => Excludes(x.calls[1], x.user)

\* No work was handed out twice, and those that were are still excluded.
NoneTwice(u) ==
    /\ u \notin repeated /\ advised[u] \subseteq WorksOf(ToSet(shown[u]))
    /\ IsInjective(shown[u])

AnswersOK == answers \in [Messages -> [kept : BOOLEAN, carries : SUBSET Private]]

MemoryOK ==
    /\ history \in [Users -> Seq(Exchange)] /\ told \in [Users -> Seq(Exchange)]
    /\ since \in [Users -> Nat] /\ \A u \in Users : Len(history[u]) <= MaxHistory
    /\ AnswersOK
    /\ shown \in [Users -> Seq(Books)] /\ \A u \in Users : Len(shown[u]) <= MaxShown
    /\ advised \in [Users -> SUBSET Works]
    /\ NoExchangeForgotten
    /\ \A u \in Users : u \notin lossy /\ slack[u] = 0 => NoneTwice(u)

MemoryInv == MemoryOK /\ \A t \in Turns : Proportioned(turn[t]) /\ Informed(turn[t])

\* A user whose lock was never lost has one turn at most.
LEMMA Alone ==
    ASSUME AgentsInv, NEW u \in Users, slack[u] = 0, NEW s \in Running(u), NEW t \in Running(u)
    PROVE  s = t
<1> DEFINE S == Running(u) \ {turnLock[u]}
<1>1. S \in SUBSET Running(u) OBVIOUS
<1>2. IsFiniteSet(S) /\ Cardinality(S) \in Nat BY <1>1, Finite
<1>3. Cardinality(S) <= 0 BY DEF AgentsInv, TurnsOverlapOnlyBySlack
<1>4. Cardinality(S) = 0 BY <1>2, <1>3
<1>5. S = {} BY <1>2, <1>4, FS_EmptySet
<1> QED BY <1>5

\* A step of one turn that leaves the lists in Redis alone.
LEMMA Keeps ==
    ASSUME AgentsInv, MemoryInv, NEW t \in Turns, Only(t),
           Proportioned(turn'[t]), Informed(turn[t])', AnswersOK',
           UNCHANGED <<history, told, since, shown, advised, repeated>>, lossy \subseteq lossy',
           \A u \in Users : slack'[u] = 0 => slack[u] = 0
    PROVE  MemoryInv'
<1>1. MemoryOK'
  BY DEF MemoryInv, MemoryOK, NoExchangeForgotten, Remembered, NoneTwice
<1>2. ASSUME NEW s \in Turns, s # t PROVE Proportioned(turn'[s]) /\ Informed(turn[s])'
  <2>1. turn'[s] = turn[s] BY <1>2 DEF Only
  <2>2. Proportioned(turn[s]) /\ Informed(turn[s]) BY DEF MemoryInv
  <2>3. turn[s].pc # "off" => turn[s].user \in Users BY DEF AgentsInv, TurnsOK
  <2>4. turn[s].pc # "off" /\ slack'[turn[s].user] = 0 => slack[turn[s].user] = 0
    BY <2>3
  <2>5. Informed(turn[s])' BY <2>1, <2>2, <2>4 DEF Informed, Remembered, Excludes
  <2> QED BY <2>1, <2>2, <2>5
<1>3. \A s \in Turns : Proportioned(turn'[s]) BY <1>2
<1>4. \A s \in Turns : Informed(turn[s])' BY <1>2
<1> QED BY <1>1, <1>3, <1>4 DEF MemoryInv

LEMMA AnswersStay ==
    ASSUME MemoryInv, UNCHANGED answers
    PROVE  AnswersOK'
BY DEF MemoryInv, MemoryOK, AnswersOK

\* The turn is not at its memory.
LEMMA Quiet ==
    ASSUME AgentsInv, MemoryInv, NEW t \in Turns, Only(t),
           AnswersOK', UNCHANGED <<history, told, since, shown, advised, repeated, lossy>>,
           \A u \in Users : slack'[u] = 0 => slack[u] = 0,
           turn'[t].pc \notin {"search", "append"},
           turn'[t].pc = "off" => turn'[t].user = Nobody,
           turn'[t].asks \in BOOLEAN /\ turn'[t].carries \in SUBSET Private,
           turn'[t].calls \in [1..2 -> Calls],
           turn'[t].calls[1].pc = "none", turn'[t].calls[2].pc = "none",
           turn'[t].pc \in {"think", "filter"} => turn'[t].rounds \in 0..MaxRounds /\ turn'[t].steps = 2 * turn'[t].rounds + 1
    PROVE  MemoryInv'
<1>1. Proportioned(turn'[t]) BY DEF Proportioned
<1>2. Informed(turn[t])' BY DEF Informed
<1> QED BY <1>1, <1>2, Keeps

LEMMA NoCallIsACall ==
    /\ NoCall \in Calls /\ NoCall.pc = "none" /\ NoCall.found = {} /\ NoCall.known = <<>> /\ NoCall.ids = {}
    /\ <<NoCall, NoCall>> \in [1..2 -> Calls]
    /\ <<NoCall, NoCall>>[1] = NoCall /\ <<NoCall, NoCall>>[2] = NoCall
<1>1. <<>> \in Seq(Books) BY EmptySeq
<1>2. NoCall \in Calls /\ NoCall.pc = "none" /\ NoCall.found = {} /\ NoCall.known = <<>> /\ NoCall.ids = {}
  BY <1>1 DEF NoCall, Calls
<1> HIDE DEF NoCall
<1> QED BY <1>2

LEMMA AsleepMemory ==
    /\ Asleep.asks = FALSE /\ Asleep.carries = {} /\ Asleep.calls = <<NoCall, NoCall>> /\ Asleep.user = Nobody
    /\ Shape(Asleep) /\ Asleep.pc = "off"
BY AsleepShape DEF Asleep

\* What a new label, or Leave, leaves as it was.
LEMMA SameMemory ==
    ASSUME NEW r, Shape(r), NEW l
    PROVE  LET x == [r EXCEPT !.pc = l] IN
           /\ Shape(x) /\ x.pc = l /\ x.user = r.user /\ x.asks = r.asks /\ x.carries = r.carries /\ x.calls = r.calls
           /\ x.rounds = r.rounds /\ x.steps = r.steps /\ x.old = r.old
BY DEF Shape, Fields

LEMMA QuietCalls ==
    ASSUME AgentsInv, MemoryInv, NEW t \in Turns, turn[t].pc # "search"
    PROVE  /\ turn[t].asks \in BOOLEAN /\ turn[t].carries \in SUBSET Private /\ turn[t].calls \in [1..2 -> Calls]
           /\ turn[t].calls[1].pc = "none" /\ turn[t].calls[2].pc = "none"
           /\ Shape(turn[t]) /\ TurnsOK
BY DEF MemoryInv, Proportioned, AgentsInv, TurnsOK

LEMMA QuietGoes ==
    ASSUME AgentsInv, MemoryInv, NEW t \in Turns, turn[t].pc # "search",
           NEW l \in {"limit", "expire", "acquire", "load", "lookup", "route", "answer", "remember"},
           To(t, l), AnswersOK', UNCHANGED <<history, told, since, shown, advised, repeated, lossy>>,
           \A u \in Users : slack'[u] = 0 => slack[u] = 0
    PROVE  MemoryInv'
<1> DEFINE x == [turn[t] EXCEPT !.pc = l]
<1>1. /\ turn[t].asks \in BOOLEAN /\ turn[t].carries \in SUBSET Private /\ turn[t].calls \in [1..2 -> Calls]
      /\ turn[t].calls[1].pc = "none" /\ turn[t].calls[2].pc = "none"
      /\ Shape(turn[t]) /\ TurnsOK
  BY QuietCalls
<1>2. Shape(x) /\ x.pc = l /\ x.asks = turn[t].asks /\ x.carries = turn[t].carries /\ x.calls = turn[t].calls
  BY <1>1, SameMemory
<1>3. turn' = [turn EXCEPT ![t] = x] BY DEF To
<1> HIDE DEF x
<1>4. Only(t) /\ turn'[t] = x BY <1>1, <1>2, <1>3, Becomes
<1> QED BY <1>1, <1>2, <1>4, Quiet

LEMMA QuietEnds ==
    ASSUME AgentsInv, MemoryInv, NEW t \in Turns, turn' = [turn EXCEPT ![t] = Asleep],
           AnswersOK', UNCHANGED <<history, told, since, shown, advised, repeated, lossy>>,
           \A u \in Users : slack'[u] = 0 => slack[u] = 0
    PROVE  MemoryInv'
<1>1. TurnsOK BY DEF AgentsInv
<1>2. Only(t) /\ turn'[t] = Asleep BY <1>1, AsleepMemory, Becomes
<1> QED BY <1>2, AsleepMemory, NoCallIsACall, Quiet

\* What is left of a turn that has its lock to release.
LEMMA LeavingMemory ==
    ASSUME TurnsOK, NEW t \in Turns, Leave(t)
    PROVE  /\ Only(t) /\ turn'[t].pc = "release" /\ turn'[t].user = turn[t].user
           /\ turn'[t].asks = FALSE /\ turn'[t].carries = {} /\ turn'[t].calls = <<NoCall, NoCall>>
<1> DEFINE x == [Asleep EXCEPT !.pc = "release", !.user = turn[t].user]
<1>1. Shape(x) /\ x.pc = "release" /\ x.user = turn[t].user
  BY Leaving
<1>2. x.asks = Asleep.asks /\ x.carries = Asleep.carries /\ x.calls = Asleep.calls
  BY AsleepMemory DEF Shape, Fields
<1>3. turn' = [turn EXCEPT ![t] = x] BY DEF Leave
<1> HIDE DEF x
<1>4. Only(t) /\ turn'[t] = x BY <1>1, <1>3, Becomes
<1> QED BY <1>1, <1>2, <1>4, AsleepMemory

LEMMA QuietLeaves ==
    ASSUME AgentsInv, MemoryInv, NEW t \in Turns, Leave(t),
           AnswersOK', UNCHANGED <<history, told, since, shown, advised, repeated, lossy>>,
           \A u \in Users : slack'[u] = 0 => slack[u] = 0
    PROVE  MemoryInv'
<1>1. TurnsOK BY DEF AgentsInv
<1>2. /\ Only(t) /\ turn'[t].pc = "release"
      /\ turn'[t].asks = FALSE /\ turn'[t].carries = {} /\ turn'[t].calls = <<NoCall, NoCall>>
  BY <1>1, LeavingMemory
<1> QED BY <1>2, NoCallIsACall, Quiet

-----------------------------------------------------------------------------
LEMMA AdmissionMemory ==
    ASSUME AgentsInv, MemoryInv, NEW t \in Turns,
           CountTurn(t) \/ ExpireWindow(t) \/ AcquireTurn(t) \/ LimiterFails(t) \/ AcquireFails(t)
    PROVE  MemoryInv'
<1>1. /\ turn[t].pc \in {"limit", "expire", "acquire"}
      /\ UNCHANGED <<answers, history, told, since, shown, advised, repeated, lossy>>
      /\ AnswersOK'
  BY AnswersStay DEF CountTurn, ExpireWindow, AcquireTurn, LimiterFails, AcquireFails, memoryVars
<1>2. turn[t].user \in Users BY <1>1 DEF AgentsInv, TurnsOK
<1>3. \A u \in Users : slack'[u] = 0 => slack[u] = 0
  <2>1. CASE UNCHANGED slack BY <2>1
  <2>2. CASE AcquireFails(t)
    <3>1. slack' = [slack EXCEPT ![turn[t].user] = @ + 1] BY <2>2 DEF AcquireFails
    <3>2. \A u \in Users : slack[u] \in Nat /\ slack'[u] \in {slack[u], slack[u] + 1}
      BY <1>2, <3>1 DEF AgentsInv, LocksOK
    <3> QED BY <3>2
  <2> QED BY <2>1, <2>2 DEF CountTurn, ExpireWindow, AcquireTurn, LimiterFails
<1>4. ASSUME NEW l \in {"expire", "acquire", "load"}, To(t, l) PROVE MemoryInv'
  BY <1>1, <1>3, <1>4, QuietGoes
<1>5. ASSUME turn' = [turn EXCEPT ![t] = Asleep] PROVE MemoryInv'
  BY <1>1, <1>3, <1>5, QuietEnds
<1>6. ASSUME NextWindow(t) PROVE MemoryInv'
  <2>1. CASE To(t, "acquire") BY <2>1, <1>4
  <2>2. CASE turn' = [turn EXCEPT ![t].pc = "limit", ![t].window = @ + 1]
    <3> DEFINE x == [turn[t] EXCEPT !.pc = "limit", !.window = @ + 1]
    <3>1. /\ turn[t].asks \in BOOLEAN /\ turn[t].carries \in SUBSET Private /\ turn[t].calls \in [1..2 -> Calls]
          /\ turn[t].calls[1].pc = "none" /\ turn[t].calls[2].pc = "none"
          /\ Shape(turn[t]) /\ TurnsOK
      BY <1>1, QuietCalls
    <3>2. Shape(x) /\ x.pc = "limit" /\ x.asks = turn[t].asks /\ x.carries = turn[t].carries /\ x.calls = turn[t].calls
      BY <3>1 DEF Shape, Fields
    <3>3. turn' = [turn EXCEPT ![t] = x] BY <2>2, <3>1 DEF TurnsOK, Shape, Fields
    <3> HIDE DEF x
    <3>4. Only(t) /\ turn'[t] = x BY <3>1, <3>2, <3>3, Becomes
    <3> QED BY <1>1, <1>3, <3>1, <3>2, <3>4, Quiet
  <2> QED BY <1>6, <2>1, <2>2 DEF NextWindow
<1>7. CASE CountTurn(t)
  <2>1. To(t, "expire") \/ turn' = [turn EXCEPT ![t] = Asleep] \/ NextWindow(t)
    <3> DEFINE n == windows[turn[t].user][turn[t].window].n + 1
               w == turn[t].window
    <3>1. \/ To(t, "expire") \/ turn' = [turn EXCEPT ![t] = Asleep] \/ NextWindow(t)
          \/ ~(n = 1 \/ (n > 1 /\ n > Windows[w]) \/ ~(n = 1 \/ (n > 1 /\ n > Windows[w])))
      BY <1>7 DEF CountTurn
    <3> QED BY <3>1
  <2> QED BY <2>1, <1>4, <1>5, <1>6
<1>8. CASE ExpireWindow(t) BY <1>6, <1>8 DEF ExpireWindow
<1>9. CASE AcquireTurn(t)
  <2>1. turn' = [turn EXCEPT ![t] = Asleep] \/ To(t, "load") BY <1>9 DEF AcquireTurn
  <2> QED BY <2>1, <1>4, <1>5
<1>10. CASE LimiterFails(t) \/ AcquireFails(t)
  BY <1>4, <1>10 DEF LimiterFails, AcquireFails
<1> QED BY <1>7, <1>8, <1>9, <1>10

LEMMA AskMemory ==
    ASSUME AgentsInv, MemoryInv, NEW t \in Turns, NEW u \in Users, NEW m \in Messages, Ask(t, u, m)
    PROVE  MemoryInv'
<1> DEFINE x == [Asleep EXCEPT !.pc = "limit", !.user = u, !.msg = m]
<1>1. turn' = [turn EXCEPT ![t] = x] /\ UNCHANGED <<slack, answers, history, told, since, shown, advised, repeated, lossy>>
      /\ AnswersOK'
  BY AnswersStay DEF Ask, memoryVars
<1>2. Shape(x) /\ x.pc = "limit" /\ x.asks = Asleep.asks /\ x.carries = Asleep.carries /\ x.calls = Asleep.calls
  BY AsleepShape DEF Shape, Fields
<1> HIDE DEF x
<1>3. Only(t) /\ turn'[t] = x BY <1>1, <1>2, Becomes DEF AgentsInv
<1> QED BY <1>1, <1>2, <1>3, AsleepMemory, NoCallIsACall, Quiet

\* What a dialog says of a user's orders and cart.
LEMMA CarriedTyped ==
    ASSUME NEW h \in Seq(Exchange)
    PROVE  CarriedBy(h) \in SUBSET Private
<1>1. ToSet(h) \subseteq Exchange BY Elements
<1> QED BY <1>1 DEF CarriedBy, Exchange

\* A new label, and what the turn now carries.
LEMMA CarriesOn ==
    ASSUME AgentsInv, MemoryInv, NEW t \in Turns, turn[t].pc # "search",
           NEW l \in {"lookup", "remember"}, NEW c \in SUBSET Private,
           turn' = [turn EXCEPT ![t] = [turn[t] EXCEPT !.pc = l, !.carries = c]],
           UNCHANGED <<slack, answers, history, told, since, shown, advised, repeated, lossy>>
    PROVE  MemoryInv'
<1> DEFINE x == [turn[t] EXCEPT !.pc = l, !.carries = c]
<1>1. /\ turn[t].asks \in BOOLEAN /\ turn[t].calls \in [1..2 -> Calls]
      /\ turn[t].calls[1].pc = "none" /\ turn[t].calls[2].pc = "none"
      /\ Shape(turn[t]) /\ TurnsOK
  BY QuietCalls
<1>2. Shape(x) /\ x.pc = l /\ x.asks = turn[t].asks /\ x.carries = c /\ x.calls = turn[t].calls
  BY <1>1 DEF Shape, Fields
<1>3. turn' = [turn EXCEPT ![t] = x] OBVIOUS
<1> HIDE DEF x
<1>4. Only(t) /\ turn'[t] = x BY <1>1, <1>2, <1>3, Becomes
<1> QED BY <1>1, <1>2, <1>4, AnswersStay, Quiet

\* What is in the dialog, or in the shared answer, goes with the turn.
LEMMA LoadHistoryMemory ==
    ASSUME AgentsInv, MemoryInv, NEW t \in Turns, LoadHistory(t)
    PROVE  MemoryInv'
<1> DEFINE c == CarriedBy(history[turn[t].user])
<1>1. turn[t].pc = "load"
      /\ UNCHANGED <<slack, answers, history, told, since, shown, advised, repeated, lossy>>
  BY DEF LoadHistory, memoryVars
<1>2. turn[t].user \in Users BY <1>1 DEF AgentsInv, TurnsOK
<1>3. c \in SUBSET Private BY <1>2, CarriedTyped DEF MemoryInv, MemoryOK
<1>4. CASE turn' = [turn EXCEPT ![t] = [turn[t] EXCEPT !.pc = "remember"]]
  BY <1>1, <1>4, AnswersStay, QuietGoes DEF To
<1>5. CASE turn' = [turn EXCEPT ![t] = [turn[t] EXCEPT !.pc = "lookup", !.carries = c]]
  BY <1>1, <1>3, <1>5, CarriesOn
<1> QED BY <1>4, <1>5 DEF LoadHistory

LEMMA LookUpAnswerMemory ==
    ASSUME AgentsInv, MemoryInv, NEW t \in Turns, LookUpAnswer(t)
    PROVE  MemoryInv'
<1> DEFINE c == answers[turn[t].msg].carries
<1>1. turn[t].pc = "lookup"
      /\ UNCHANGED <<slack, answers, history, told, since, shown, advised, repeated, lossy>>
  BY DEF LookUpAnswer, memoryVars
<1>2. turn[t].msg \in Messages BY DEF AgentsInv, TurnsOK
<1>3. c \in SUBSET Private BY <1>2 DEF MemoryInv, MemoryOK, AnswersOK
<1>4. CASE turn' = [turn EXCEPT ![t] = [turn[t] EXCEPT !.pc = "route"]]
  BY <1>1, <1>4, AnswersStay, QuietGoes DEF To
<1>5. CASE turn' = [turn EXCEPT ![t] = [turn[t] EXCEPT !.pc = "remember", !.carries = c]]
  BY <1>1, <1>3, <1>5, CarriesOn
<1> QED BY <1>4, <1>5 DEF LookUpAnswer

\* Steps after which the turn has its lock to release, or sleeps.
LEMMA PlainMemory ==
    ASSUME AgentsInv, MemoryInv, NEW t \in Turns,
           ShareAnswer(t) \/ ReleaseTurn(t) \/ ReleaseFails(t) \/ ClientLeaves(t) \/ WorkerDies(t)
    PROVE  MemoryInv'
<1>1. UNCHANGED <<slack, history, told, since, shown, advised, repeated, lossy>>
  BY DEF ShareAnswer, ReleaseTurn, ReleaseFails, ClientLeaves, WorkerDies, memoryVars
<1>2. CASE ShareAnswer(t)
  <2>1. turn[t].carries \in SUBSET Private /\ turn[t].msg \in Messages
    BY DEF MemoryInv, Proportioned, AgentsInv, TurnsOK
  <2>2. AnswersOK' BY <1>2, <2>1 DEF ShareAnswer, MemoryInv, MemoryOK, AnswersOK
  <2> QED BY <1>1, <1>2, <2>2, QuietLeaves DEF ShareAnswer
<1>3. CASE ClientLeaves(t)
  BY <1>1, <1>3, AnswersStay, QuietLeaves DEF ClientLeaves
<1>4. CASE ReleaseTurn(t) \/ ReleaseFails(t) \/ WorkerDies(t)
  BY <1>1, <1>4, AnswersStay, QuietEnds DEF ReleaseTurn, ReleaseFails, WorkerDies
<1> QED BY <1>2, <1>3, <1>4

-----------------------------------------------------------------------------
LEMMA RouteMemory ==
    ASSUME AgentsInv, MemoryInv, NEW t \in Turns, Route(t)
    PROVE  MemoryInv'
<1>1. turn[t].pc = "route" /\ UNCHANGED <<slack, answers, history, told, since, shown, advised, repeated, lossy>>
      /\ AnswersOK'
  BY AnswersStay DEF Route, memoryVars
<1>2. PICK n, l :
           l \in {"think", "answer"} \land
           turn' = [turn EXCEPT ![t] = [turn[t] EXCEPT !.node = n, !.rounds = 0, !.steps = 1, !.pc = l]]
  BY DEF Route
<1> DEFINE x == [turn[t] EXCEPT !.node = n, !.rounds = 0, !.steps = 1, !.pc = l]
<1>3. /\ turn[t].asks \in BOOLEAN /\ turn[t].carries \in SUBSET Private /\ turn[t].calls \in [1..2 -> Calls]
      /\ turn[t].calls[1].pc = "none" /\ turn[t].calls[2].pc = "none"
      /\ Shape(turn[t]) /\ TurnsOK
  BY <1>1, QuietCalls
<1>4. Shape(x) /\ x.pc = l /\ x.asks = turn[t].asks /\ x.carries = turn[t].carries /\ x.calls = turn[t].calls
      /\ x.rounds = 0 /\ x.steps = 1
  BY <1>3 DEF Shape, Fields
<1>5. turn' = [turn EXCEPT ![t] = x] BY <1>2
<1> HIDE DEF x
<1>6. Only(t) /\ turn'[t] = x BY <1>3, <1>4, <1>5, Becomes
<1>7. 0 \in 0..MaxRounds /\ 1 = 2 * 0 + 1 BY AgentsAssumption DEF AgentsAssumption
<1> QED BY <1>1, <1>2, <1>3, <1>4, <1>6, <1>7, Quiet

\* A round: two steps of the graph.
LEMMA ThinkMemory ==
    ASSUME AgentsInv, MemoryInv, NEW t \in Turns, Think(t)
    PROVE  MemoryInv'
<1>1. turn[t].pc = "think" /\ UNCHANGED <<slack, answers, history, told, since, shown, advised, repeated, lossy>>
      /\ AnswersOK'
  BY AnswersStay DEF Think, memoryVars
<1>2. CASE To(t, "answer") BY <1>1, <1>2, QuietGoes
<1>3. CASE Leave(t) BY <1>1, <1>3, QuietLeaves
<1>4. ASSUME NEW tool, NEW l \in {"search", "filter", "think"}, turn[t].rounds < MaxRounds,
             turn' = [turn EXCEPT ![t] = [[turn[t] EXCEPT !.rounds = @ + 1, !.steps = @ + 1]
                          EXCEPT !.pc = l, !.steps = @ + 1, !.carries = @ \cup ({tool} \cap Private)]]
      PROVE  MemoryInv'
  <2> DEFINE x == [[turn[t] EXCEPT !.rounds = @ + 1, !.steps = @ + 1]
                      EXCEPT !.pc = l, !.steps = @ + 1, !.carries = @ \cup ({tool} \cap Private)]
  <2>1. /\ turn[t].asks \in BOOLEAN /\ turn[t].carries \in SUBSET Private /\ turn[t].calls \in [1..2 -> Calls]
        /\ turn[t].calls[1].pc = "none" /\ turn[t].calls[2].pc = "none"
        /\ Shape(turn[t]) /\ TurnsOK
    BY <1>1, QuietCalls
  <2>2. turn[t].rounds \in 0..MaxRounds /\ turn[t].steps = 2 * turn[t].rounds + 1
    BY <1>1 DEF MemoryInv, Proportioned
  <2>3. /\ Shape(x) /\ x.pc = l /\ x.asks = turn[t].asks /\ x.calls = turn[t].calls
        /\ x.carries = turn[t].carries \cup ({tool} \cap Private)
        /\ x.rounds = turn[t].rounds + 1 /\ x.steps = (turn[t].steps + 1) + 1
    BY <2>1 DEF Shape, Fields
  <2>4. turn' = [turn EXCEPT ![t] = x] BY <1>4
  <2> HIDE DEF x
  <2>5. Only(t) /\ turn'[t] = x BY <2>1, <2>3, <2>4, Becomes
  <2>6. x.rounds \in 0..MaxRounds /\ x.steps = 2 * x.rounds + 1
    <3>1. MaxRounds \in Nat BY AgentsAssumption DEF AgentsAssumption
    <3>2. x.steps = turn[t].steps + 2 /\ x.rounds = turn[t].rounds + 1 BY <2>2, <2>3
    <3>3. x.rounds \in 0..MaxRounds BY <1>4, <2>2, <3>1, <3>2
    <3>4. x.steps = 2 * x.rounds + 1 BY <2>2, <3>2
    <3> QED BY <3>3, <3>4
  <2>7. Proportioned(x) BY <1>4, <2>1, <2>3, <2>6 DEF Proportioned
  <2>8. x.pc \in {"search", "filter", "think"} /\ x.calls[1].pc = "none" /\ x.calls[2].pc = "none"
    BY <2>1, <2>3
  <2>9. Informed(turn[t])' BY <2>5, <2>8 DEF Informed, Excludes
  <2> QED BY <1>1, <2>5, <2>7, <2>9, Keeps
<1>5. ASSUME NEW tool, turn[t].rounds < MaxRounds,
             turn' = [turn EXCEPT ![t] = [[turn[t] EXCEPT !.rounds = @ + 1, !.steps = @ + 1]
                          EXCEPT !.pc = IF tool \in {"search", "filter"} THEN tool ELSE "think",
                                 !.steps = @ + 1, !.carries = @ \cup ({tool} \cap Private)]]
      PROVE  MemoryInv'
  <2>1. PICK l \in {"search", "filter", "think"} : l = IF tool \in {"search", "filter"} THEN tool ELSE "think"
    OBVIOUS
  <2> QED BY <1>4, <1>5, <2>1
<1> QED BY <1>2, <1>3, <1>5 DEF Think, MayCallTools

\* filter_books writes nothing down.
LEMMA FilterBooksMemory ==
    ASSUME AgentsInv, MemoryInv, NEW t \in Turns, FilterBooks(t)
    PROVE  MemoryInv'
<1> DEFINE x == [turn[t] EXCEPT !.pc = "think"]
<1>1. /\ turn[t].pc = "filter" /\ turn' = [turn EXCEPT ![t] = x]
      /\ UNCHANGED <<slack, answers, history, told, since, shown, advised, repeated, lossy>>
  BY DEF FilterBooks, To, memoryVars
<1>2. /\ turn[t].asks \in BOOLEAN /\ turn[t].carries \in SUBSET Private /\ turn[t].calls \in [1..2 -> Calls]
      /\ turn[t].calls[1].pc = "none" /\ turn[t].calls[2].pc = "none"
      /\ Shape(turn[t]) /\ TurnsOK
  BY <1>1, QuietCalls
<1>3. turn[t].rounds \in 0..MaxRounds /\ turn[t].steps = 2 * turn[t].rounds + 1
  BY <1>1 DEF MemoryInv, Proportioned
<1>4. /\ Shape(x) /\ x.pc = "think" /\ x.asks = turn[t].asks /\ x.carries = turn[t].carries
      /\ x.calls = turn[t].calls /\ x.rounds = turn[t].rounds /\ x.steps = turn[t].steps
  BY <1>2, SameMemory
<1> HIDE DEF x
<1>5. Only(t) /\ turn'[t] = x BY <1>1, <1>2, <1>4, Becomes
<1> QED BY <1>1, <1>2, <1>3, <1>4, <1>5, AnswersStay, Quiet

\* What a step of one search leaves of its turn.
LEMMA SearchSteps ==
    ASSUME AgentsInv, MemoryInv, NEW t \in Turns, turn[t].pc = "search",
           NEW i \in {1, 2}, NEW y \in Calls, turn' = [turn EXCEPT ![t].calls[i] = y]
    PROVE  /\ Only(t) /\ Proportioned(turn'[t])
           /\ turn'[t].pc = "search" /\ turn'[t].user = turn[t].user
           /\ turn'[t].calls[i] = y
           /\ \A j \in {1, 2} \ {i} : turn'[t].calls[j] = turn[t].calls[j]
<1> DEFINE c == [turn[t].calls EXCEPT ![i] = y]
           x == [turn[t] EXCEPT !.calls = c]
<1>1. Shape(turn[t]) /\ TurnsOK BY DEF AgentsInv, TurnsOK
<1>2. Proportioned(turn[t]) BY DEF MemoryInv
<1>3. turn[t].calls \in [1..2 -> Calls] BY <1>2 DEF Proportioned
<1>4. c \in [1..2 -> Calls] /\ c[i] = y /\ \A j \in {1, 2} \ {i} : c[j] = turn[t].calls[j]
  BY <1>3
<1>5. turn' = [turn EXCEPT ![t] = x] OBVIOUS
<1> HIDE DEF c
<1>6. /\ Shape(x) /\ x.pc = "search" /\ x.user = turn[t].user /\ x.calls = c
      /\ x.asks = turn[t].asks /\ x.carries = turn[t].carries /\ x.rounds = turn[t].rounds /\ x.steps = turn[t].steps
  BY <1>1 DEF Shape, Fields
<1> HIDE DEF x
<1>7. Only(t) /\ turn'[t] = x BY <1>1, <1>5, <1>6, Becomes
<1>8. Proportioned(x) BY <1>2, <1>4, <1>6 DEF Proportioned
<1> QED BY <1>4, <1>6, <1>7, <1>8

LEMMA SearchCalls ==
    ASSUME AgentsInv, MemoryInv, NEW t \in Turns, turn[t].pc = "search", NEW i \in {1, 2}
    PROVE  /\ turn[t].user \in Users /\ turn[t].calls[i] \in Calls
           /\ shown[turn[t].user] \in Seq(Books)
<1>1. turn[t].user \in Users BY DEF AgentsInv, TurnsOK
<1> QED BY <1>1 DEF MemoryInv, Proportioned, MemoryOK

\* The second search of a round makes the list unreliable.
LEMMA StartSearchMemory ==
    ASSUME AgentsInv, MemoryInv, NEW t \in Turns, NEW i \in {1, 2}, StartSearch(t, i)
    PROVE  MemoryInv'
<1> DEFINE u == turn[t].user
           y == [NoCall EXCEPT !.pc = "find", !.known = shown[u]]
<1>1. /\ turn[t].pc = "search" /\ turn' = [turn EXCEPT ![t].calls[i] = y]
      /\ lossy' = IF i = 2 THEN lossy \cup {u} ELSE lossy
      /\ UNCHANGED <<slack, answers, history, told, since, shown, advised, repeated>>
  BY DEF StartSearch
<1>2. u \in Users /\ shown[u] \in Seq(Books) BY <1>1, SearchCalls
<1>3. NoCall \in Calls BY NoCallIsACall
<1>4. y \in Calls BY <1>2, <1>3 DEF Calls
<1>5. y.pc = "find" /\ y.known = shown[u] BY <1>3 DEF Calls
<1> HIDE DEF y
<1>6. /\ Only(t) /\ Proportioned(turn'[t])
      /\ turn'[t].pc = "search" /\ turn'[t].user = u
      /\ turn'[t].calls[i] = y
      /\ \A j \in {1, 2} \ {i} : turn'[t].calls[j] = turn[t].calls[j]
  BY <1>1, <1>4, SearchSteps
<1>7. Informed(turn[t]) BY DEF MemoryInv
<1>8. Informed(turn[t])'
  <2>1. CASE i = 2
    <3>1. u \in lossy' BY <1>1, <2>1
    <3> QED BY <1>6, <3>1 DEF Informed
  <2>2. CASE i = 1
    <3>1. turn'[t].calls[1] = y /\ turn'[t].calls[2] = turn[t].calls[2] BY <1>6, <2>2
    <3>2. lossy' = lossy BY <1>1, <2>2
    <3>3. u \notin lossy /\ slack[u] = 0 => advised[u] \subseteq WorksOf(ToSet(shown[u]))
      BY <1>2 DEF MemoryInv, MemoryOK, NoneTwice
    <3>4. u \notin lossy' /\ slack'[u] = 0 => Excludes(turn[t].calls[1], turn[t].user)'
      BY <1>1, <1>5, <1>6, <3>1, <3>2, <3>3 DEF Excludes, WorksOf
    <3>5. turn'[t].calls[2].pc # "none" => u \in lossy' BY <1>7, <3>1, <3>2 DEF Informed
    <3> HIDE DEF u
    <3> QED BY <1>6, <3>1, <3>4, <3>5 DEF Informed
  <2> QED BY <2>1, <2>2
<1>9. AnswersOK' BY <1>1, AnswersStay
<1> QED BY <1>1, <1>6, <1>8, <1>9, Keeps

\* A step of one search that leaves the list in Redis as it is, and after which
\* the first search still excludes what it must.
LEMMA SearchKeeps ==
    ASSUME AgentsInv, MemoryInv, NEW t \in Turns, turn[t].pc = "search",
           NEW i \in {1, 2}, turn[t].calls[i].pc # "none",
           NEW y \in Calls, turn' = [turn EXCEPT ![t].calls[i] = y],
           UNCHANGED <<slack, answers, history, told, since, shown, advised, repeated, lossy>>,
           turn[t].user \notin lossy /\ slack[turn[t].user] = 0 /\ i = 1
              => Excludes(turn[t].calls[1], turn[t].user)'
    PROVE  MemoryInv'
<1> DEFINE u == turn[t].user
<1>1. /\ Only(t) /\ Proportioned(turn'[t])
      /\ turn'[t].pc = "search" /\ turn'[t].user = u
      /\ turn'[t].calls[i] = y
      /\ \A j \in {1, 2} \ {i} : turn'[t].calls[j] = turn[t].calls[j]
  BY SearchSteps
<1>2. Informed(turn[t]) BY DEF MemoryInv
<1>3. turn[t].calls[2].pc # "none" => u \in lossy BY <1>2 DEF Informed
<1>4. Informed(turn[t])'
  <2>1. CASE i = 2
    <3>1. u \in lossy' BY <1>3, <2>1
    <3> QED BY <1>1, <3>1 DEF Informed
  <2>2. CASE i = 1
    <3>1. turn'[t].calls[1] = y /\ turn'[t].calls[2] = turn[t].calls[2] BY <1>1, <2>2
    <3>2. turn'[t].calls[2].pc # "none" => u \in lossy' BY <1>3, <3>1
    <3>3. u \notin lossy' /\ slack'[u] = 0 => Excludes(turn[t].calls[1], turn[t].user)' BY <2>2
    <3> HIDE DEF u
    <3> QED BY <1>1, <3>1, <3>2, <3>3 DEF Informed
  <2> QED BY <2>1, <2>2
<1>5. AnswersOK' BY AnswersStay
<1> QED BY <1>1, <1>4, <1>5, Keeps

\* The catalogue is asked for other works than those it was told of.
LEMMA FindBooksMemory ==
    ASSUME AgentsInv, MemoryInv, NEW t \in Turns, NEW i \in {1, 2}, FindBooks(t, i)
    PROVE  MemoryInv'
<1> DEFINE u == turn[t].user
           known == turn[t].calls[i].known
<1>1. /\ turn[t].pc = "search" /\ turn[t].calls[i].pc = "find"
      /\ UNCHANGED <<slack, answers, history, told, since, shown, advised, repeated, lossy>>
  BY DEF FindBooks, memoryVars
<1>2. PICK found \in SUBSET NewBooks(ToSet(known)) :
           turn' = [turn EXCEPT ![t].calls[i] =
               [NoCall EXCEPT !.pc = IF found = {} THEN "done" ELSE "ids", !.found = found]]
  BY DEF FindBooks
<1> DEFINE y == [NoCall EXCEPT !.pc = IF found = {} THEN "done" ELSE "ids", !.found = found]
<1>3. u \in Users BY <1>1, SearchCalls
<1>4. y \in Calls /\ y.pc \in {"done", "ids"} /\ y.found = found
  BY NoCallIsACall DEF Calls, NewBooks
<1>5. turn' = [turn EXCEPT ![t].calls[i] = y] BY <1>2
<1> HIDE DEF y
<1>6. WorksOf(found) \cap WorksOf(ToSet(known)) = {} BY DEF NewBooks, WorksOf
<1>7. Informed(turn[t]) BY DEF MemoryInv
<1>8. ASSUME u \notin lossy, slack[u] = 0, i = 1 PROVE Excludes(turn[t].calls[1], turn[t].user)'
  <2>1. advised[u] \cup WorksOf(ToSet(shown[u])) \subseteq WorksOf(ToSet(known))
    BY <1>1, <1>7, <1>8 DEF Informed, Excludes
  <2>2. WorksOf(y.found) \cap (advised[u] \cup WorksOf(ToSet(shown[u]))) = {}
    BY <1>4, <1>6, <2>1
  <2>3. turn'[t].calls[1] = y /\ turn'[t].user = u BY <1>1, <1>4, <1>5, <1>8, SearchSteps
  <2> QED BY <1>1, <1>4, <2>2, <2>3 DEF Excludes, WorksOf
<1> QED BY <1>1, <1>4, <1>5, <1>8, SearchKeeps

LEMMA ReadIdsMemory ==
    ASSUME AgentsInv, MemoryInv, NEW t \in Turns, NEW i \in {1, 2}, ReadIds(t, i)
    PROVE  MemoryInv'
<1> DEFINE u == turn[t].user
           call == turn[t].calls[i]
           y == [call EXCEPT !.ids = ToSet(shown[u]), !.pc = "entries"]
<1>1. /\ turn[t].pc = "search" /\ call.pc = "ids"
      /\ turn' = [turn EXCEPT ![t].calls[i] = y]
      /\ UNCHANGED <<slack, answers, history, told, since, shown, advised, repeated, lossy>>
  BY DEF ReadIds, memoryVars
<1>2. u \in Users /\ shown[u] \in Seq(Books) /\ call \in Calls BY <1>1, SearchCalls
<1>3. ToSet(shown[u]) \subseteq Books BY <1>2, Elements
<1>4. y \in Calls /\ y.pc = "entries" /\ y.ids = ToSet(shown[u]) /\ y.found = call.found
  BY <1>2, <1>3 DEF Calls
<1> HIDE DEF y
<1>5. Informed(turn[t]) BY DEF MemoryInv
<1>6. ASSUME u \notin lossy, slack[u] = 0, i = 1 PROVE Excludes(turn[t].calls[1], turn[t].user)'
  <2>1. WorksOf(call.found) \cap (advised[u] \cup WorksOf(ToSet(shown[u]))) = {}
    BY <1>1, <1>5, <1>6 DEF Informed, Excludes
  <2>2. turn'[t].calls[1] = y /\ turn'[t].user = u BY <1>1, <1>4, <1>6, SearchSteps
  <2> QED BY <1>1, <1>4, <2>1, <2>2 DEF Excludes, WorksOf
<1> QED BY <1>1, <1>4, <1>6, SearchKeeps

LEMMA ReadEntriesMemory ==
    ASSUME AgentsInv, MemoryInv, NEW t \in Turns, NEW i \in {1, 2}, ReadEntries(t, i)
    PROVE  MemoryInv'
<1> DEFINE u == turn[t].user
           call == turn[t].calls[i]
           y == [call EXCEPT !.known = shown[u], !.pc = "write"]
<1>1. /\ turn[t].pc = "search" /\ call.pc = "entries"
      /\ turn' = [turn EXCEPT ![t].calls[i] = y]
      /\ UNCHANGED <<slack, answers, history, told, since, shown, advised, repeated, lossy>>
  BY DEF ReadEntries, memoryVars
<1>2. u \in Users /\ shown[u] \in Seq(Books) /\ call \in Calls BY <1>1, SearchCalls
<1>3. y \in Calls /\ y.pc = "write" /\ y.known = shown[u] /\ y.found = call.found /\ y.ids = call.ids
  BY <1>2 DEF Calls
<1> HIDE DEF y
<1>4. Informed(turn[t]) BY DEF MemoryInv
<1>5. ASSUME u \notin lossy, slack[u] = 0, i = 1 PROVE Excludes(turn[t].calls[1], turn[t].user)'
  <2>1. /\ WorksOf(call.found) \cap (advised[u] \cup WorksOf(ToSet(shown[u]))) = {}
        /\ WorksOf(call.found) \cap WorksOf(call.ids) = {}
    BY <1>1, <1>4, <1>5 DEF Informed, Excludes
  <2>2. advised[u] \subseteq WorksOf(ToSet(shown[u])) /\ IsInjective(shown[u])
    BY <1>2, <1>5 DEF MemoryInv, MemoryOK, NoneTwice
  <2>3. turn'[t].calls[1] = y /\ turn'[t].user = u BY <1>1, <1>3, <1>5, SearchSteps
  <2> QED BY <1>1, <1>3, <2>1, <2>2, <2>3 DEF Excludes, WorksOf
<1> QED BY <1>1, <1>3, <1>5, SearchKeeps

\* IsInjective ranges over the domain, Distinct over the places.
LEMMA Injective ==
    ASSUME NEW S, NEW s \in Seq(S)
    PROVE  IsInjective(s) <=> Distinct(s)
<1>1. DOMAIN s = 1..Len(s) BY LenProperties
<1> QED BY <1>1 DEF IsInjective, Distinct

\* What Listed makes of a list and of what was found.
LEMMA ListedBooks ==
    ASSUME NEW known \in Seq(Books), NEW ids \in SUBSET Books, NEW found \in SUBSET Books
    PROVE  /\ Listed(known, ids, found) \in Seq(Books)
           /\ ToSet(Listed(known, ids, found)) = ToSet(known) \cup (found \ ids)
           /\ IsInjective(known) /\ found \cap ToSet(known) = {} => IsInjective(Listed(known, ids, found))
<1> DEFINE new == found \ ids
           q == SetToSeq(new)
<1>1. IsFiniteSet(new)
  <2>1. new \in SUBSET Books OBVIOUS
  <2> QED BY <2>1, AgentsAssumption, FS_Subset DEF AgentsAssumption
<1>2. q \in Seq(new) /\ ToSet(q) = new /\ Distinct(q) BY <1>1, InARow
<1>3. q \in Seq(Books) BY <1>2, SeqMonotonic
<1>4. Listed(known, ids, found) = known \o q BY DEF Listed
<1> HIDE DEF q
<1>5. known \o q \in Seq(Books) /\ ToSet(known \o q) = ToSet(known) \cup ToSet(q)
  BY <1>3, Joined
<1>6. ASSUME IsInjective(known), found \cap ToSet(known) = {} PROVE IsInjective(known \o q)
  <2>1. Distinct(known) BY <1>6, Injective
  <2>2. ToSet(known) \cap ToSet(q) = {} BY <1>2, <1>6
  <2>3. Distinct(known \o q) BY <1>2, <1>3, <2>1, <2>2, JoinedOnce
  <2> QED BY <1>5, <2>3, Injective
<1> QED BY <1>2, <1>4, <1>5, <1>6

\* A lone search writes the list it has read, and what it hands out is new.
LEMMA RememberShownMemory ==
    ASSUME AgentsInv, MemoryInv, NEW t \in Turns, NEW i \in {1, 2}, RememberShown(t, i)
    PROVE  MemoryInv'
<1> DEFINE u == turn[t].user
           call == turn[t].calls[i]
           all == Listed(call.known, call.ids, call.found)
           y == [call EXCEPT !.pc = "done", !.known = <<>>, !.ids = {}]
<1>1. /\ turn[t].pc = "search" /\ call.pc = "write"
      /\ shown' = [shown EXCEPT ![u] = LastOf(all, MaxShown)]
      /\ lossy' = IF Len(all) > MaxShown THEN lossy \cup {u} ELSE lossy
      /\ turn' = [turn EXCEPT ![t].calls[i] = y]
      /\ repeated' = IF WorksOf(call.found) \cap advised[u] = {} THEN repeated ELSE repeated \cup {u}
      /\ advised' = [advised EXCEPT ![u] = @ \cup WorksOf(call.found)]
      /\ UNCHANGED <<slack, answers, history, told, since>>
  BY DEF RememberShown
<1>2. u \in Users /\ call \in Calls BY <1>1, SearchCalls
<1>3. call.known \in Seq(Books) /\ call.ids \in SUBSET Books /\ call.found \in SUBSET Books
  BY <1>2 DEF Calls
<1>4. /\ all \in Seq(Books) /\ ToSet(all) = ToSet(call.known) \cup (call.found \ call.ids)
      /\ IsInjective(call.known) /\ call.found \cap ToSet(call.known) = {} => IsInjective(all)
  BY <1>3, ListedBooks
<1>5. y \in Calls /\ y.pc = "done"
  <2>1. <<>> \in Seq(Books) BY EmptySeq
  <2> QED BY <1>2, <2>1 DEF Calls
<1>6. /\ Only(t) /\ Proportioned(turn'[t])
      /\ turn'[t].pc = "search" /\ turn'[t].user = u
      /\ turn'[t].calls[i] = y
      /\ \A j \in {1, 2} \ {i} : turn'[t].calls[j] = turn[t].calls[j]
  BY <1>1, <1>5, SearchSteps
<1>7. Informed(turn[t]) BY DEF MemoryInv
<1>8. MaxShown \in Nat BY AgentsAssumption DEF AgentsAssumption
<1> HIDE DEF all, y
<1>9. LastOf(all, MaxShown) \in Seq(Books) /\ Len(LastOf(all, MaxShown)) <= MaxShown
  BY <1>4, <1>8, LastOnes, LastLen
<1>10. i = 2 => u \in lossy /\ u \in lossy' BY <1>1, <1>7 DEF Informed
<1>11. ASSUME NEW v \in Users, v = u, v \notin lossy', slack[v] = 0 PROVE NoneTwice(v)'
  <2>1. i = 1 /\ u \notin lossy /\ ~(Len(all) > MaxShown) BY <1>1, <1>10, <1>11
  <2>2. Excludes(call, u) BY <1>1, <1>7, <1>11, <2>1 DEF Informed
  <2>3. /\ WorksOf(call.found) \cap advised[u] = {}
        /\ WorksOf(call.found) \cap WorksOf(call.ids) = {}
        /\ WorksOf(call.found) \cap WorksOf(ToSet(call.known)) = {}
        /\ IsInjective(call.known) /\ advised[u] \subseteq WorksOf(ToSet(call.known))
    BY <1>1, <2>2 DEF Excludes
  <2>4. call.found \cap call.ids = {} /\ call.found \cap ToSet(call.known) = {}
    BY <2>3 DEF WorksOf
  <2>5. ToSet(all) = ToSet(call.known) \cup call.found /\ IsInjective(all)
    BY <1>4, <2>3, <2>4
  <2>6. shown'[u] = all
    <3>1. Len(all) \in Nat BY <1>4, LenProperties
    <3>2. Len(all) <= MaxShown BY <1>8, <2>1, <3>1
    <3>3. LastOf(all, MaxShown) = all BY <1>4, <1>8, <3>2, LastOnes
    <3> QED BY <1>1, <1>2, <3>3 DEF MemoryInv, MemoryOK
  <2>7. u \notin repeated
    BY <1>2, <1>11, <2>1 DEF MemoryInv, MemoryOK, NoneTwice
  <2>8. u \notin repeated' BY <1>1, <2>3, <2>7
  <2>9. advised'[u] = advised[u] \cup WorksOf(call.found)
    BY <1>1, <1>2 DEF MemoryInv, MemoryOK
  <2>10. WorksOf(ToSet(all)) = WorksOf(ToSet(call.known)) \cup WorksOf(call.found)
    BY <2>5 DEF WorksOf
  <2>11. advised'[u] \subseteq WorksOf(ToSet(shown'[u])) BY <2>3, <2>6, <2>9, <2>10
  <2> QED BY <1>11, <2>5, <2>6, <2>8, <2>11 DEF NoneTwice, WorksOf
<1>12. /\ shown' \in [Users -> Seq(Books)] /\ \A v \in Users : Len(shown'[v]) <= MaxShown
  BY <1>1, <1>2, <1>9 DEF MemoryInv, MemoryOK
<1>13. WorksOf(call.found) \in SUBSET Works
  BY <1>3, AgentsAssumption DEF AgentsAssumption, WorksOf
<1>14. advised' \in [Users -> SUBSET Works] BY <1>1, <1>2, <1>13 DEF MemoryInv, MemoryOK
<1>15. \A v \in Users \ {u} : /\ advised'[v] = advised[v] /\ shown'[v] = shown[v]
                              /\ (v \in lossy' <=> v \in lossy) /\ (v \in repeated' <=> v \in repeated)
  BY <1>1, <1>2 DEF MemoryInv, MemoryOK
<1>16. ASSUME NEW v \in Users, v \notin lossy', slack[v] = 0 PROVE NoneTwice(v)'
  <2>1. CASE v # u
    <3>1. NoneTwice(v) BY <1>15, <1>16, <2>1 DEF MemoryInv, MemoryOK
    <3> QED BY <1>15, <2>1, <3>1 DEF NoneTwice, WorksOf
  <2>2. CASE v = u BY <1>11, <1>16, <2>2
  <2> QED BY <2>1, <2>2
<1>17. MemoryOK'
  <2>1. NoExchangeForgotten'
    BY <1>1 DEF MemoryInv, MemoryOK, NoExchangeForgotten, Remembered
  <2>2. \A v \in Users : v \notin lossy' /\ slack'[v] = 0 => NoneTwice(v)' BY <1>1, <1>16
  <2>3. AnswersOK' BY <1>1, AnswersStay
  <2> QED BY <1>1, <1>12, <1>14, <2>1, <2>2, <2>3 DEF MemoryInv, MemoryOK
<1>18. Informed(turn[t])'
  <2>1. CASE i = 2
    <3>1. u \in lossy' BY <1>10, <2>1
    <3> QED BY <1>6, <3>1 DEF Informed
  <2>2. CASE i = 1
    <3>1. turn'[t].calls[1] = y /\ turn'[t].calls[2] = turn[t].calls[2] BY <1>6, <2>2
    <3>2. turn'[t].calls[2].pc # "none" => u \in lossy' BY <1>1, <1>7, <3>1 DEF Informed
    <3>3. Excludes(turn[t].calls[1], turn[t].user)' BY <1>5, <3>1 DEF Excludes
    <3> HIDE DEF u
    <3> QED BY <1>6, <3>1, <3>2, <3>3 DEF Informed
  <2> QED BY <2>1, <2>2
<1>19. ASSUME NEW s \in Turns, s # t PROVE Proportioned(turn'[s]) /\ Informed(turn[s])'
  <2>1. turn'[s] = turn[s] BY <1>6, <1>19 DEF Only
  <2>2. Proportioned(turn[s]) /\ Informed(turn[s]) BY DEF MemoryInv
  <2>3. lossy \subseteq lossy' BY <1>1
  <2>4. turn[s].pc = "search" /\ slack[turn[s].user] = 0 => turn[s].user \in Users /\ turn[s].user # u
    <3> SUFFICES ASSUME turn[s].pc = "search", slack[turn[s].user] = 0, turn[s].user = u PROVE FALSE
      BY DEF AgentsInv, TurnsOK
    <3>1. s \in Running(u) /\ t \in Running(u) BY <1>1 DEF Running
    <3> QED BY <1>2, <1>19, <3>1, Alone
  <2>5. turn[s].pc = "search" /\ slack[turn[s].user] = 0 =>
           shown'[turn[s].user] = shown[turn[s].user] /\ advised'[turn[s].user] = advised[turn[s].user]
    BY <1>15, <2>4
  <2>6. turn[s].pc = "append" /\ slack[turn[s].user] = 0 => Remembered(turn[s].user, turn[s].old)'
    BY <1>1, <2>2 DEF Informed, Remembered
  <2>7. turn[s].pc = "search" /\ turn[s].user \notin lossy' /\ slack[turn[s].user] = 0 =>
           Excludes(turn[s].calls[1], turn[s].user)'
    BY <2>1, <2>2, <2>3, <2>5 DEF Informed, Excludes, WorksOf
  <2>8. Informed(turn[s])' BY <1>1, <2>1, <2>2, <2>3, <2>6, <2>7 DEF Informed
  <2> QED BY <2>1, <2>2, <2>8
<1>20. \A s \in Turns : Proportioned(turn'[s]) BY <1>6, <1>19
<1>21. \A s \in Turns : Informed(turn[s])' BY <1>18, <1>19
<1> QED BY <1>17, <1>20, <1>21 DEF MemoryInv

-----------------------------------------------------------------------------
LEMMA EndSearchMemory ==
    ASSUME AgentsInv, MemoryInv, NEW t \in Turns, EndSearch(t)
    PROVE  MemoryInv'
<1> DEFINE c == <<NoCall, NoCall>>
           x == [turn[t] EXCEPT !.pc = "think", !.calls = c]
<1>1. turn[t].pc = "search" /\ turn' = [turn EXCEPT ![t] = x]
      /\ UNCHANGED <<slack, answers, history, told, since, shown, advised, repeated, lossy>>
      /\ AnswersOK'
  BY AnswersStay DEF EndSearch, memoryVars
<1>2. Shape(turn[t]) /\ TurnsOK BY DEF AgentsInv, TurnsOK
<1> HIDE DEF c
<1>3. /\ Shape(x) /\ x.pc = "think" /\ x.calls = c /\ x.asks = turn[t].asks /\ x.carries = turn[t].carries
      /\ x.rounds = turn[t].rounds /\ x.steps = turn[t].steps
  BY <1>2 DEF Shape, Fields
<1> HIDE DEF x
<1>4. Only(t) /\ turn'[t] = x BY <1>1, <1>2, <1>3, Becomes
<1>5. c \in [1..2 -> Calls] /\ c[1].pc = "none" /\ c[2].pc = "none" BY NoCallIsACall DEF c
<1>6. Proportioned(turn[t]) BY DEF MemoryInv
<1>7. turn[t].asks \in BOOLEAN /\ turn[t].carries \in SUBSET Private /\ turn[t].rounds \in 0..MaxRounds /\ turn[t].steps = 2 * turn[t].rounds + 1
  BY <1>1, <1>6 DEF Proportioned
<1> QED BY <1>1, <1>3, <1>4, <1>5, <1>7, Quiet

LEMMA WriteAnswerMemory ==
    ASSUME AgentsInv, MemoryInv, NEW t \in Turns, WriteAnswer(t)
    PROVE  MemoryInv'
<1>1. turn[t].pc = "answer" /\ UNCHANGED <<slack, answers, history, told, since, shown, advised, repeated, lossy>>
      /\ AnswersOK'
  BY AnswersStay DEF WriteAnswer, memoryVars
<1>2. CASE Leave(t) BY <1>1, <1>2, QuietLeaves
<1>3. ASSUME NEW asks \in BOOLEAN,
             turn' = [turn EXCEPT ![t] = [turn[t] EXCEPT !.pc = "remember", !.asks = asks,
                                                         !.rounds = 0, !.steps = 0]]
      PROVE  MemoryInv'
  <2> DEFINE x == [turn[t] EXCEPT !.pc = "remember", !.asks = asks, !.rounds = 0, !.steps = 0]
  <2>1. /\ turn[t].calls \in [1..2 -> Calls] /\ turn[t].carries \in SUBSET Private
        /\ turn[t].calls[1].pc = "none" /\ turn[t].calls[2].pc = "none"
        /\ Shape(turn[t]) /\ TurnsOK
    BY <1>1, QuietCalls
  <2>2. Shape(x) /\ x.pc = "remember" /\ x.calls = turn[t].calls /\ x.asks = asks /\ x.carries = turn[t].carries
    BY <2>1 DEF Shape, Fields
  <2>3. turn' = [turn EXCEPT ![t] = x] BY <1>3
  <2> HIDE DEF x
  <2>4. Only(t) /\ turn'[t] = x BY <2>1, <2>2, <2>3, Becomes
  <2> QED BY <1>1, <2>1, <2>2, <2>4, Quiet
<1> QED BY <1>2, <1>3 DEF WriteAnswer

LEMMA ReadHistoryMemory ==
    ASSUME AgentsInv, MemoryInv, NEW t \in Turns, ReadHistory(t)
    PROVE  MemoryInv'
<1> DEFINE u == turn[t].user
           x == [turn[t] EXCEPT !.pc = "append", !.old = history[u]]
<1>1. /\ turn[t].asks \in BOOLEAN /\ turn[t].carries \in SUBSET Private /\ turn[t].calls \in [1..2 -> Calls]
      /\ turn[t].calls[1].pc = "none" /\ turn[t].calls[2].pc = "none"
      /\ Shape(turn[t]) /\ TurnsOK
  BY QuietCalls DEF ReadHistory
<1>2. turn[t].pc = "remember" /\ turn' = [turn EXCEPT ![t] = x]
      /\ UNCHANGED <<slack, answers, history, told, since, shown, advised, repeated, lossy>>
      /\ AnswersOK'
  BY <1>1, AnswersStay DEF ReadHistory, TurnsOK, Shape, Fields, memoryVars
<1>3. Shape(x) /\ x.pc = "append" /\ x.user = u /\ x.asks = turn[t].asks /\ x.carries = turn[t].carries /\ x.calls = turn[t].calls
      /\ x.old = history[u]
  BY <1>1 DEF Shape, Fields
<1> HIDE DEF x
<1>4. Only(t) /\ turn'[t] = x BY <1>1, <1>2, <1>3, Becomes
<1>5. u \in Users BY <1>2 DEF AgentsInv, TurnsOK
<1>6. history[u] \in Seq(Exchange) BY <1>5 DEF MemoryInv, MemoryOK
<1>7. Proportioned(x) BY <1>1, <1>3, <1>6 DEF Proportioned
<1>8. slack[u] = 0 => Remembered(u, history[u])
  BY <1>5 DEF MemoryInv, MemoryOK, NoExchangeForgotten
<1>9. slack'[u] = 0 => Remembered(turn[t].user, turn[t].old)'
  BY <1>2, <1>3, <1>4, <1>8 DEF Remembered
<1>10. Informed(turn[t])' BY <1>1, <1>2, <1>3, <1>4, <1>9 DEF Informed
<1> QED BY <1>2, <1>4, <1>7, <1>10, Keeps

\* The exchange is added to the end of what was said, unless the lock was lost.
LEMMA AppendHistoryMemory ==
    ASSUME AgentsInv, MemoryInv, NEW t \in Turns, AppendHistory(t)
    PROVE  MemoryInv'
<1> DEFINE u == turn[t].user
           e == [no |-> Len(told[u]) + 1, asks |-> turn[t].asks, carries |-> turn[t].carries]
<1>1. /\ turn[t].pc = "append"
      /\ history' = [history EXCEPT ![u] = LastOf(turn[t].old \o <<e>>, MaxHistory)]
      /\ told' = [told EXCEPT ![u] = Append(@, e)]
      /\ UNCHANGED <<slack, answers, since, shown, advised, repeated, lossy>>
  BY DEF AppendHistory
<1>2. u \in Users /\ TurnsOK BY <1>1 DEF AgentsInv, TurnsOK
<1>3. /\ turn[t].asks \in BOOLEAN /\ turn[t].carries \in SUBSET Private /\ turn[t].calls \in [1..2 -> Calls]
      /\ turn[t].calls[1].pc = "none" /\ turn[t].calls[2].pc = "none" /\ Shape(turn[t])
  BY <1>1, QuietCalls
<1>4. Proportioned(turn[t]) /\ Informed(turn[t]) BY DEF MemoryInv
<1>5. turn[t].old \in Seq(Exchange) /\ (slack[u] = 0 => Remembered(u, turn[t].old))
  BY <1>1, <1>4 DEF Proportioned, Informed
<1>6. told[u] \in Seq(Exchange) /\ since[u] \in Nat BY <1>2 DEF MemoryInv, MemoryOK
<1>7. e \in Exchange
  <2>1. Len(told[u]) \in Nat BY <1>6, LenProperties
  <2> QED BY <1>3, <2>1 DEF Exchange
<1>8. MaxHistory \in Nat \ {0} BY AgentsAssumption DEF AgentsAssumption
<1> HIDE DEF e
<1> DEFINE h == LastOf(turn[t].old \o <<e>>, MaxHistory)
           all == Append(told[u], e)
<1>9. h \in Seq(Exchange) /\ Len(h) <= MaxHistory
  <2>1. <<e>> \in Seq(Exchange) BY <1>7
  <2>2. turn[t].old \o <<e>> \in Seq(Exchange) BY <1>5, <2>1, Joined
  <2> QED BY <1>8, <2>2, LastOnes, LastLen
<1>10. all \in Seq(Exchange) /\ Len(all) = Len(told[u]) + 1 BY <1>6, <1>7
<1>11. ASSUME slack[u] = 0
       PROVE  h = LastOf(all, Len(h)) /\ (Len(h) >= MaxHistory \/ Len(h) >= Len(all) - since[u])
  <2>1. turn[t].old = LastOf(told[u], Len(turn[t].old))
        /\ (Len(turn[t].old) >= MaxHistory \/ Len(turn[t].old) >= Len(told[u]) - since[u])
    BY <1>5, <1>11 DEF Remembered
  <2>2. /\ h = LastOf(all, Len(h))
        /\ Len(h) = IF Len(turn[t].old) + 1 <= MaxHistory THEN Len(turn[t].old) + 1 ELSE MaxHistory
    <3>1. turn[t].old = LastOf(told[u], Len(turn[t].old)) BY <2>1
    <3> HIDE DEF h, all, u
    <3> DEFINE o == turn[t].old
               a == told[u]
    <3>2. o \in Seq(Exchange) /\ a \in Seq(Exchange) /\ o = LastOf(a, Len(o))
      BY <1>5, <1>6, <3>1
    <3> HIDE DEF o, a
    <3>3. /\ LastOf(o \o <<e>>, MaxHistory) = LastOf(Append(a, e), Len(LastOf(o \o <<e>>, MaxHistory)))
          /\ Len(LastOf(o \o <<e>>, MaxHistory)) = IF Len(o) + 1 <= MaxHistory THEN Len(o) + 1 ELSE MaxHistory
      BY <1>7, <1>8, <3>2, Extended, Zenon
    <3> QED BY <3>3 DEF h, all, o, a
  <2>3. Len(turn[t].old) \in Nat /\ Len(told[u]) \in Nat BY <1>5, <1>6, LenProperties
  <2>4. Len(h) >= MaxHistory \/ Len(h) >= Len(all) - since[u]
    <3>1. CASE Len(turn[t].old) + 1 <= MaxHistory
      <4>1. Len(h) = Len(turn[t].old) + 1 /\ Len(turn[t].old) >= Len(told[u]) - since[u]
        BY <1>8, <2>1, <2>2, <2>3, <3>1
      <4> QED BY <1>6, <1>10, <2>3, <4>1
    <3>2. CASE ~(Len(turn[t].old) + 1 <= MaxHistory)
      <4>1. Len(h) = MaxHistory BY <2>2, <3>2
      <4> QED BY <1>8, <4>1
    <3> QED BY <3>1, <3>2
  <2> QED BY <2>2, <2>4
<1> HIDE DEF h, all
<1>12. history' = [history EXCEPT ![u] = h] /\ told' = [told EXCEPT ![u] = all]
  BY <1>1 DEF h, all
<1>13. /\ history' \in [Users -> Seq(Exchange)] /\ told' \in [Users -> Seq(Exchange)]
       /\ history'[u] = h /\ told'[u] = all
       /\ \A v \in Users \ {u} : history'[v] = history[v] /\ told'[v] = told[v]
  BY <1>2, <1>9, <1>10, <1>12 DEF MemoryInv, MemoryOK
<1>14. \A v \in Users : Len(history'[v]) <= MaxHistory
  BY <1>9, <1>13 DEF MemoryInv, MemoryOK
<1>15. NoExchangeForgotten'
  <2> SUFFICES ASSUME NEW v \in Users, slack[v] = 0 PROVE Remembered(v, history[v])'
    BY <1>1 DEF NoExchangeForgotten
  <2>1. CASE v = u BY <1>1, <1>11, <1>13, <2>1 DEF Remembered
  <2>2. CASE v # u
    <3>1. Remembered(v, history[v]) BY DEF MemoryInv, MemoryOK, NoExchangeForgotten
    <3> QED BY <1>1, <1>13, <2>2, <3>1 DEF Remembered
  <2> QED BY <2>1, <2>2
<1>16. MemoryOK'
  <2>1. AnswersOK' BY <1>1, AnswersStay
  <2>2. \A v \in Users : v \notin lossy' /\ slack'[v] = 0 => NoneTwice(v)'
    BY <1>1 DEF MemoryInv, MemoryOK, NoneTwice
  <2> QED BY <1>1, <1>13, <1>14, <1>15, <2>1, <2>2 DEF MemoryInv, MemoryOK
<1>17. /\ Only(t) /\ turn'[t].pc \in {"share", "release"} /\ turn'[t].asks \in BOOLEAN /\ turn'[t].carries \in SUBSET Private
       /\ turn'[t].calls \in [1..2 -> Calls]
       /\ turn'[t].calls[1].pc = "none" /\ turn'[t].calls[2].pc = "none"
  <2>1. CASE Leave(t) BY <1>2, <2>1, LeavingMemory, NoCallIsACall
  <2>2. CASE turn' = [turn EXCEPT ![t].pc = "share", ![t].old = <<>>]
    <3> DEFINE x == [turn[t] EXCEPT !.pc = "share", !.old = <<>>]
    <3>1. Shape(x) /\ x.pc = "share" /\ x.asks = turn[t].asks /\ x.carries = turn[t].carries /\ x.calls = turn[t].calls
      BY <1>3 DEF Shape, Fields
    <3>2. turn' = [turn EXCEPT ![t] = x] BY <1>2, <1>3, <2>2 DEF TurnsOK, Shape, Fields
    <3> HIDE DEF x
    <3>3. Only(t) /\ turn'[t] = x BY <1>2, <3>1, <3>2, Becomes
    <3> QED BY <1>3, <3>1, <3>3
  <2> QED BY <2>1, <2>2 DEF AppendHistory
<1>18. Proportioned(turn'[t]) BY <1>17 DEF Proportioned
<1>19. Informed(turn[t])' BY <1>17 DEF Informed
<1>20. ASSUME NEW s \in Turns, s # t PROVE Proportioned(turn'[s]) /\ Informed(turn[s])'
  <2>1. turn'[s] = turn[s] BY <1>17, <1>20 DEF Only
  <2>2. Proportioned(turn[s]) /\ Informed(turn[s]) BY DEF MemoryInv
  <2>3. turn[s].pc = "append" /\ slack[turn[s].user] = 0 => turn[s].user \in Users /\ turn[s].user # u
    <3> SUFFICES ASSUME turn[s].pc = "append", slack[turn[s].user] = 0, turn[s].user = u PROVE FALSE
      BY DEF AgentsInv, TurnsOK
    <3>1. s \in Running(u) /\ t \in Running(u) BY <1>1 DEF Running
    <3> QED BY <1>2, <1>20, <3>1, Alone
  <2>4. turn[s].pc = "append" /\ slack[turn[s].user] = 0 => told'[turn[s].user] = told[turn[s].user]
    BY <1>13, <2>3
  <2>5. turn[s].pc = "append" /\ slack[turn[s].user] = 0 => Remembered(turn[s].user, turn[s].old)'
    BY <1>1, <2>1, <2>2, <2>4 DEF Informed, Remembered
  <2>6. Informed(turn[s])' BY <1>1, <2>1, <2>2, <2>5 DEF Informed, Excludes
  <2> QED BY <2>1, <2>2, <2>6
<1>21. \A s \in Turns : Proportioned(turn'[s]) BY <1>18, <1>20
<1>22. \A s \in Turns : Informed(turn[s])' BY <1>19, <1>20
<1> QED BY <1>16, <1>21, <1>22 DEF MemoryInv

\* A lock, a window or an answer that runs out is no matter of the memory.
LEMMA KeyExpiresMemory ==
    ASSUME AgentsInv, MemoryInv, NEW u \in Users, LockExpires(u) \/ KeyExpires(u)
    PROVE  MemoryInv'
<1>1. UNCHANGED <<turn, history, told, since, shown, advised, repeated, lossy>>
  BY DEF LockExpires, KeyExpires, memoryVars
<1>2. \A v \in Users : slack'[v] = 0 => slack[v] = 0
  <2>1. slack' = slack \/ slack' = [slack EXCEPT ![u] = @ + 1] BY DEF LockExpires, KeyExpires
  <2>2. \A v \in Users : slack[v] \in Nat /\ slack'[v] \in {slack[v], slack[v] + 1}
    BY <2>1 DEF AgentsInv, LocksOK
  <2> QED BY <2>2
<1>3. AnswersOK' BY DEF LockExpires, KeyExpires, MemoryInv, MemoryOK, AnswersOK
<1>4. MemoryOK' BY <1>1, <1>2, <1>3 DEF MemoryInv, MemoryOK, NoExchangeForgotten, Remembered, NoneTwice
<1>5. ASSUME NEW s \in Turns PROVE Proportioned(turn'[s]) /\ Informed(turn[s])'
  <2>1. Proportioned(turn[s]) /\ Informed(turn[s]) BY DEF MemoryInv
  <2>2. turn[s].pc # "off" => turn[s].user \in Users BY DEF AgentsInv, TurnsOK
  <2>3. turn[s].pc # "off" /\ slack'[turn[s].user] = 0 => slack[turn[s].user] = 0
    BY <1>2, <2>2
  <2>4. Informed(turn[s])' BY <1>1, <2>1, <2>3 DEF Informed, Remembered, Excludes
  <2> QED BY <1>1, <2>1, <2>4
<1>6. \A s \in Turns : Proportioned(turn'[s]) BY <1>5
<1>7. \A s \in Turns : Informed(turn[s])' BY <1>5
<1> QED BY <1>4, <1>6, <1>7 DEF MemoryInv

\* A dialog that runs out starts anew; a turn that has read it writes back more
\* than it has to.
LEMMA HistoryExpiresMemory ==
    ASSUME AgentsInv, MemoryInv, NEW u \in Users, HistoryExpires(u)
    PROVE  MemoryInv'
<1>1. /\ history' = [history EXCEPT ![u] = <<>>] /\ since' = [since EXCEPT ![u] = Len(told[u])]
      /\ UNCHANGED <<turn, told, shown, advised, repeated, lossy, answers, slack>>
  BY DEF HistoryExpires
<1>2. told[u] \in Seq(Exchange) /\ Len(told[u]) \in Nat
  BY LenProperties DEF MemoryInv, MemoryOK
<1>3. <<>> \in Seq(Exchange) /\ Len(<<>>) = 0 BY EmptySeq
<1>4. MaxHistory \in Nat BY AgentsAssumption DEF AgentsAssumption
<1>5. /\ history' \in [Users -> Seq(Exchange)] /\ since' \in [Users -> Nat]
      /\ history'[u] = <<>> /\ since'[u] = Len(told[u])
      /\ \A v \in Users \ {u} : history'[v] = history[v] /\ since'[v] = since[v]
  BY <1>1, <1>2, <1>3 DEF MemoryInv, MemoryOK
<1>6. \A v \in Users : Len(history'[v]) <= MaxHistory
  <2>1. Len(history'[u]) <= MaxHistory BY <1>3, <1>4, <1>5
  <2>2. \A v \in Users \ {u} : Len(history'[v]) <= MaxHistory BY <1>5 DEF MemoryInv, MemoryOK
  <2> QED BY <2>1, <2>2
<1>7. NoExchangeForgotten'
  <2> SUFFICES ASSUME NEW v \in Users, slack[v] = 0 PROVE Remembered(v, history[v])'
    BY <1>1 DEF NoExchangeForgotten
  <2>1. CASE v = u
    <3>1. LastOf(told[u], 0) = <<>> BY <1>2, LastNone
    <3>2. Len(history'[u]) = 0 /\ history'[u] = LastOf(told[u], Len(history'[u])) BY <1>3, <1>5, <3>1
    <3>3. 0 >= Len(told[u]) - since'[u] BY <1>2, <1>5
    <3> QED BY <1>1, <2>1, <3>2, <3>3 DEF Remembered
  <2>2. CASE v # u
    <3>1. Remembered(v, history[v]) BY DEF MemoryInv, MemoryOK, NoExchangeForgotten
    <3> QED BY <1>1, <1>5, <2>2, <3>1 DEF Remembered
  <2> QED BY <2>1, <2>2
<1>8. MemoryOK'
  <2>1. AnswersOK' BY <1>1, AnswersStay
  <2>2. \A v \in Users : v \notin lossy' /\ slack'[v] = 0 => NoneTwice(v)'
    BY <1>1 DEF MemoryInv, MemoryOK, NoneTwice
  <2> QED BY <1>1, <1>5, <1>6, <1>7, <2>1, <2>2 DEF MemoryInv, MemoryOK
<1>9. ASSUME NEW s \in Turns PROVE Proportioned(turn'[s]) /\ Informed(turn[s])'
  <2>1. Proportioned(turn[s]) /\ Informed(turn[s]) BY DEF MemoryInv
  <2>2. ASSUME turn[s].pc = "append", slack[turn[s].user] = 0
        PROVE  Remembered(turn[s].user, turn[s].old)'
    <3>1. turn[s].user \in Users BY <2>2 DEF AgentsInv, TurnsOK
    <3>2. Remembered(turn[s].user, turn[s].old) BY <2>1, <2>2 DEF Informed
    <3>3. CASE turn[s].user = u
      <4>1. turn[s].old \in Seq(Exchange) BY <2>1, <2>2 DEF Proportioned
      <4>2. Len(turn[s].old) \in Nat BY <4>1, LenProperties
      <4>3. Len(turn[s].old) >= Len(told[u]) - since'[u] BY <1>2, <1>5, <4>2
      <4> QED BY <1>1, <3>2, <3>3, <4>3 DEF Remembered
    <3>4. CASE turn[s].user # u BY <1>1, <1>5, <3>1, <3>2, <3>4 DEF Remembered
    <3> QED BY <3>3, <3>4
  <2>3. Informed(turn[s])' BY <1>1, <2>1, <2>2 DEF Informed, Excludes
  <2> QED BY <1>1, <2>1, <2>3
<1>10. \A s \in Turns : Proportioned(turn'[s]) BY <1>9
<1>11. \A s \in Turns : Informed(turn[s])' BY <1>9
<1> QED BY <1>8, <1>10, <1>11 DEF MemoryInv

\* A list that runs out excludes nothing more; what a search has read of it still does.
LEMMA ShownExpiresMemory ==
    ASSUME AgentsInv, MemoryInv, NEW u \in Users, ShownExpires(u)
    PROVE  MemoryInv'
<1>1. /\ shown' = [shown EXCEPT ![u] = <<>>] /\ advised' = [advised EXCEPT ![u] = {}]
      /\ UNCHANGED <<turn, history, told, since, repeated, lossy, answers, slack>>
  BY DEF ShownExpires
<1>2. <<>> \in Seq(Books) /\ Len(<<>>) = 0 BY EmptySeq
<1>3. MaxShown \in Nat BY AgentsAssumption DEF AgentsAssumption
<1>4. /\ shown' \in [Users -> Seq(Books)] /\ advised' \in [Users -> SUBSET Works]
      /\ shown'[u] = <<>> /\ advised'[u] = {}
      /\ \A v \in Users \ {u} : shown'[v] = shown[v] /\ advised'[v] = advised[v]
  BY <1>1, <1>2 DEF MemoryInv, MemoryOK
<1>5. \A v \in Users : Len(shown'[v]) <= MaxShown
  <2>1. Len(shown'[u]) <= MaxShown BY <1>2, <1>3, <1>4
  <2>2. \A v \in Users \ {u} : Len(shown'[v]) <= MaxShown BY <1>4 DEF MemoryInv, MemoryOK
  <2> QED BY <2>1, <2>2
<1>6. WorksOf(ToSet(shown'[u])) = {}
  <2>1. ToSet(<<>>) = {} BY DEF ToSet
  <2> QED BY <1>4, <2>1 DEF WorksOf
<1>7. ASSUME NEW v \in Users, v \notin lossy', slack[v] = 0 PROVE NoneTwice(v)'
  <2>1. NoneTwice(v) BY <1>1, <1>7 DEF MemoryInv, MemoryOK
  <2>2. CASE v = u
    <3>1. IsInjective(shown'[u]) BY <1>4 DEF IsInjective
    <3> QED BY <1>1, <1>4, <2>1, <2>2, <3>1 DEF NoneTwice
  <2>3. CASE v # u BY <1>1, <1>4, <2>1, <2>3 DEF NoneTwice, WorksOf
  <2> QED BY <2>2, <2>3
<1>8. MemoryOK'
  <2>1. AnswersOK' BY <1>1, AnswersStay
  <2>2. NoExchangeForgotten' BY <1>1 DEF MemoryInv, MemoryOK, NoExchangeForgotten, Remembered
  <2>3. \A v \in Users : v \notin lossy' /\ slack'[v] = 0 => NoneTwice(v)' BY <1>1, <1>7
  <2> QED BY <1>1, <1>4, <1>5, <2>1, <2>2, <2>3 DEF MemoryInv, MemoryOK
<1>9. ASSUME NEW s \in Turns PROVE Proportioned(turn'[s]) /\ Informed(turn[s])'
  <2>1. Proportioned(turn[s]) /\ Informed(turn[s]) BY DEF MemoryInv
  <2>2. ASSUME turn[s].pc = "search", turn[s].user \notin lossy, slack[turn[s].user] = 0
        PROVE  Excludes(turn[s].calls[1], turn[s].user)'
    <3>1. turn[s].user \in Users BY <2>2 DEF AgentsInv, TurnsOK
    <3>2. Excludes(turn[s].calls[1], turn[s].user) BY <2>1, <2>2 DEF Informed
    <3>3. CASE turn[s].user = u
      <4>1. /\ advised'[u] = {} /\ WorksOf(ToSet(shown[u]))' = {} BY <1>4, <1>6 DEF WorksOf
      <4> QED BY <1>1, <3>2, <3>3, <4>1 DEF Excludes, WorksOf
    <3>4. CASE turn[s].user # u BY <1>1, <1>4, <3>1, <3>2, <3>4 DEF Excludes, WorksOf
    <3> QED BY <3>3, <3>4
  <2>3. Informed(turn[s])' BY <1>1, <2>1, <2>2 DEF Informed, Remembered
  <2> QED BY <1>1, <2>1, <2>3
<1>10. \A s \in Turns : Proportioned(turn'[s]) BY <1>9
<1>11. \A s \in Turns : Informed(turn[s])' BY <1>9
<1> QED BY <1>8, <1>10, <1>11 DEF MemoryInv

LEMMA MemoryStarts == AgentsInit => MemoryInv
<1> SUFFICES ASSUME AgentsInit PROVE MemoryInv OBVIOUS
<1>1. \A t \in Turns : turn[t] = Asleep BY DEF AgentsInit
<1>2. ASSUME NEW t \in Turns PROVE Proportioned(turn[t]) /\ Informed(turn[t])
  <2>1. Proportioned(Asleep) BY AsleepMemory, NoCallIsACall DEF Proportioned
  <2>2. Informed(Asleep) BY AsleepMemory, NoCallIsACall DEF Informed
  <2> QED BY <1>1, <2>1, <2>2
<1>3. MaxHistory \in Nat /\ MaxShown \in Nat BY AgentsAssumption DEF AgentsAssumption
<1>4. <<>> \in Seq(Books) /\ <<>> \in Seq(Exchange) /\ Len(<<>>) = 0 BY EmptySeq
<1>5. /\ \A u \in Users : /\ history[u] = <<>> /\ shown[u] = <<>> /\ told[u] = <<>>
                          /\ advised[u] = {} /\ since[u] = 0
      /\ repeated = {}
  BY DEF AgentsInit
<1>6. NoExchangeForgotten
  <2>1. LastOf(<<>>, 0) = <<>> BY <1>4, LastNone
  <2>2. \A u \in Users : Len(history[u]) = 0 /\ Len(told[u]) = 0 BY <1>4, <1>5
  <2>3. \A u \in Users : history[u] = LastOf(told[u], Len(history[u])) BY <1>4, <1>5, <2>1
  <2>4. \A u \in Users : Len(history[u]) >= Len(told[u]) - since[u] BY <1>5, <2>2
  <2> QED BY <2>3, <2>4 DEF NoExchangeForgotten, Remembered
<1>7. \A u \in Users : NoneTwice(u) BY <1>5 DEF NoneTwice, IsInjective
<1>8. /\ history \in [Users -> Seq(Exchange)] /\ told \in [Users -> Seq(Exchange)]
      /\ shown \in [Users -> Seq(Books)] /\ advised \in [Users -> SUBSET Works]
      /\ since \in [Users -> Nat] /\ AnswersOK
  BY <1>4 DEF AgentsInit, AnswersOK
<1>9. \A u \in Users : Len(history[u]) <= MaxHistory /\ Len(shown[u]) <= MaxShown
  BY <1>3, <1>4, <1>5
<1> QED BY <1>2, <1>6, <1>7, <1>8, <1>9 DEF MemoryInv, MemoryOK

LEMMA MemoryIdles ==
    ASSUME AgentsInv, MemoryInv, UNCHANGED agentVars
    PROVE  MemoryInv'
BY DEF agentVars, memoryVars, MemoryInv, MemoryOK, AnswersOK, NoExchangeForgotten, Remembered,
       NoneTwice, Informed, Excludes, Proportioned

LEMMA TurnStepMemory ==
    ASSUME AgentsInv, MemoryInv, NEW t \in Turns, TurnStep(t)
    PROVE  MemoryInv'
<1>1. CASE CountTurn(t) \/ ExpireWindow(t) \/ AcquireTurn(t)
  BY <1>1, AdmissionMemory
<1>2. CASE LoadHistory(t) \/ LookUpAnswer(t) \/ ShareAnswer(t) \/ ReleaseTurn(t)
  BY <1>2, LoadHistoryMemory, LookUpAnswerMemory, PlainMemory
<1>3. CASE Route(t) \/ Think(t) \/ FilterBooks(t)
  BY <1>3, RouteMemory, ThinkMemory, FilterBooksMemory
<1>4. ASSUME NEW i \in {1, 2},
             \/ StartSearch(t, i) \/ FindBooks(t, i)
             \/ ReadIds(t, i) \/ ReadEntries(t, i) \/ RememberShown(t, i)
      PROVE  MemoryInv'
  BY <1>4, StartSearchMemory, FindBooksMemory, ReadIdsMemory, ReadEntriesMemory, RememberShownMemory
<1>5. CASE EndSearch(t) \/ WriteAnswer(t)
  BY <1>5, EndSearchMemory, WriteAnswerMemory
<1>6. CASE ReadHistory(t) \/ AppendHistory(t)
  BY <1>6, ReadHistoryMemory, AppendHistoryMemory
<1> QED BY <1>1, <1>2, <1>3, <1>4, <1>5, <1>6 DEF TurnStep

\* What the turns know of the dialog and of the books shown stays true: a
\* turn that has its user to itself writes back what it has read.
THEOREM MemoryInvariance == AgentsSpec => []MemoryInv
<1>1. AgentsInv /\ MemoryInv /\ [AgentsNext]_agentVars => MemoryInv'
  <2> SUFFICES ASSUME AgentsInv, MemoryInv, [AgentsNext]_agentVars PROVE MemoryInv' OBVIOUS
  <2>1. CASE UNCHANGED agentVars BY <2>1, MemoryIdles
  <2>2. ASSUME NEW t \in Turns, NEW u \in Users, NEW m \in Messages, Ask(t, u, m)
        PROVE  MemoryInv'
    BY <2>2, AskMemory
  <2>3. ASSUME NEW t \in Turns, TurnStep(t) PROVE MemoryInv'
    BY <2>3, TurnStepMemory
  <2>4. ASSUME NEW t \in Turns, \/ LimiterFails(t) \/ AcquireFails(t) \/ ReleaseFails(t)
                                \/ ClientLeaves(t) \/ WorkerDies(t)
        PROVE  MemoryInv'
    BY <2>4, AdmissionMemory, PlainMemory
  <2>5. ASSUME NEW u \in Users, LockExpires(u) \/ KeyExpires(u) \/ HistoryExpires(u) \/ ShownExpires(u) PROVE MemoryInv'
    BY <2>5, KeyExpiresMemory, HistoryExpiresMemory, ShownExpiresMemory
  <2> QED BY <2>1, <2>2, <2>3, <2>4, <2>5 DEF AgentsNext
<1> QED BY <1>1, MemoryStarts, AgentsInvariance, PTL DEF AgentsSpec

\* Unless a hiccup or an early expiry let two turns of a user run at once, the
\* dialog kept is the end of what was said, in order and without a gap, at
\* least since its key last ran out, whichever turns died on the way.
THEOREM NothingSaidIsLost == AgentsSpec => []NoExchangeForgotten
<1>1. MemoryInv => NoExchangeForgotten BY DEF MemoryInv, MemoryOK
<1> QED BY <1>1, MemoryInvariance, PTL

\* While semantic searches run one at a time, and the list is not full and has
\* not run out, they hand no work out twice, in another edition neither, and
\* list no book twice, whatever the catalogue finds.
THEOREM MoreMeansOthers == AgentsSpec => []NoWorkTwice
<1>1. AgentsInv /\ MemoryInv => NoWorkTwice
  <2> SUFFICES ASSUME AgentsInv, MemoryInv, NEW u \in Users, u \notin lossy, ~(slack[u] > 0)
               PROVE  u \notin repeated /\ IsInjective(shown[u])
    BY DEF NoWorkTwice
  <2>1. slack[u] \in Nat BY DEF AgentsInv, LocksOK
  <2>2. slack[u] = 0 BY <2>1
  <2> QED BY <2>2 DEF MemoryInv, MemoryOK, NoneTwice
<1> QED BY <1>1, MemoryInvariance, AgentsInvariance, PTL

\* Types; the dialog and the list of books shown stay short, and the
\* rounds of tool calls never reach the graph's own limit.
THEOREM AgentsTypes == AgentsSpec => []AgentsTypeOK
<1>1. AgentsInv /\ MemoryInv => AgentsTypeOK
  <2> SUFFICES ASSUME AgentsInv, MemoryInv PROVE AgentsTypeOK OBVIOUS
  <2>1. ASSUME NEW t \in Turns, turn[t].pc = "think" PROVE turn[t].steps < RecursionLimit
    <3>1. turn[t].rounds \in 0..MaxRounds /\ turn[t].steps = 2 * turn[t].rounds + 1
      BY <2>1 DEF MemoryInv, Proportioned
    <3>2. MaxRounds \in Nat /\ RecursionLimit \in Nat BY AgentsAssumption DEF AgentsAssumption
    <3>3. 2 * MaxRounds + 1 < RecursionLimit BY RoundsAssumption DEF RoundsAssumption
    <3>4. turn[t].steps <= 2 * MaxRounds + 1 BY <3>1, <3>2
    <3> QED BY <3>1, <3>2, <3>3, <3>4
  <2>2. turnLock \in [Users -> Turns \cup {Nobody}] BY DEF AgentsInv, LocksOK
  <2>3. ASSUME NEW t \in Turns PROVE turn[t].pc # "off" <=> turn[t].user \in Users
    <3>1. Proportioned(turn[t]) BY DEF MemoryInv
    <3>2. turn[t].pc = "off" => turn[t].user = Nobody BY <3>1 DEF Proportioned
    <3>3. turn[t].pc # "off" => turn[t].user \in Users BY DEF AgentsInv, TurnsOK
    <3> QED BY <3>2, <3>3, AgentsAssumption DEF AgentsAssumption
  <2>4. ASSUME NEW u \in Users
        PROVE  /\ ToSet(shown[u]) \subseteq Books /\ Len(shown[u]) <= MaxShown
               /\ Len(history[u]) <= MaxHistory
    <3>1. shown[u] \in Seq(Books) /\ Len(shown[u]) <= MaxShown /\ Len(history[u]) <= MaxHistory
      BY DEF MemoryInv, MemoryOK
    <3> QED BY <3>1, Elements
  <2> QED BY <2>1, <2>2, <2>3, <2>4 DEF AgentsTypeOK
<1> QED BY <1>1, MemoryInvariance, AgentsInvariance, PTL
=============================================================================
