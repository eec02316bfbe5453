------------------------------- MODULE Agents -------------------------------
(***************************************************************************)
(* The shop assistant (AgentChatService.stream_chat): the rate windows,    *)
(* the turn lock, small talk answered from code, the answer cache shared   *)
(* by all users, the graph of LLM nodes and tools, the dialog history and  *)
(* the books already recommended.  Redis values are read, changed and      *)
(* written back by separate commands.  What a model says is arbitrary.     *)
(***************************************************************************)
EXTENDS Integers, Sequences, FiniteSets, SequencesExt

CONSTANTS
    Users,
    Turns,           \* requests that may be in flight
    Books, Works,    \* ids of the catalogue; title and author
    WorkOf,          \* the work each id is an edition of
    Windows,         \* AGENT_RATE_LIMITS: the limits, in the order checked
    MaxRounds,       \* AGENT_MAX_TOOL_ROUNDS
    RecursionLimit,  \* RECURSION_LIMIT
    MaxHistory,      \* exchanges kept: AGENT_CHAT_HISTORY_MAX_MESSAGES / 2
    MaxShown,        \* AGENT_SHOWN_BOOKS_MAX
    SearchLimit,     \* AGENT_RAG_SEARCH_LIMIT
    MaxStimuli,      \* bound: messages, lapses, hiccups, crashes
    Nobody

ASSUME AgentsAssumption ==
    /\ Nobody \notin Turns \cup Users /\ IsFiniteSet(Turns) /\ IsFiniteSet(Books)
    /\ WorkOf \in [Books -> Works]
    /\ Windows \in Seq(Nat \ {0}) /\ Windows # <<>>
    /\ {MaxRounds, RecursionLimit, MaxHistory, MaxShown, SearchLimit} \subseteq Nat \ {0}
    /\ MaxStimuli \in Nat

\* The settings fit: 4 rounds of tool calls, two steps of the graph each, under
\* a limit of 25 steps.
ASSUME RoundsAssumption == 2 * MaxRounds + 1 < RecursionLimit

VARIABLES
    windows,   \* the counter of each user and window
    turnLock,  \* agent:chat:lock of each user: the turn that set it (the
               \* value stored is the same for all), or Nobody
    turn,      \* the requests
    history,   \* the exchanges remembered
    shown,     \* ids of the books recommended, as remembered
    answers,   \* the answer cache
    slack,     \* history: turns let in by a hiccup, live locks that ran out
    stuck,     \* history: counters whose EXPIRE never came
    told,      \* history: the exchanges answered to the end
    since,     \* history: how many had been when the dialog's key last ran out
    advised,   \* history: works the searches have handed to the model for the
               \* user since the list of books shown last ran out
    repeated,  \* history: users a search has handed a work out for again
    lossy,     \* history: users whose list of books may have lost some: two
               \* searches at once, or more than MaxShown books
    stimuli

memoryVars == <<history, shown, told, since, advised, repeated, lossy>>
agentVars == <<windows, turnLock, turn, memoryVars, answers, slack, stuck, stimuli>>

\* Messages told apart: small talk, a word that may answer a question, one
\* over the length limit, a question of its own, one that refers to the
\* dialog, one about the user's orders.
Messages == {"hello", "yes", "essay", "books", "more", "orders"}
IsTooLong(m) == m = "essay"
\* match_smalltalk: a whole short message in the phrase lists (or gibberish);
\* a contextual word is left to the model while a question is pending.
IsCanned(m, questionPending) == m = "hello" \/ (m = "yes" /\ ~questionPending)
\* is_cacheable: long enough, no anaphora, not a contextual word.
IsCacheable(m) == m \in {"books", "orders"}

\* "orders" stands for order_status and order_list.
ToolBranches == {"book_search", "orders", "cart"}
Private == {"orders", "cart"}
\* The tools bound to each branch.
ToolsOf(node) ==
    CASE node = "book_search" -> {"search", "filter"}
      [] node = "orders" -> {"orders"}
      [] node = "cart" -> {"cart", "search", "filter"}
      [] OTHER -> {}

\* What the exchanges of a dialog say of the user's orders and cart.
CarriedBy(h) == UNION {e.carries : e \in ToSet(h)}

NoCall == [pc |-> "none", known |-> <<>>, ids |-> {}, found |-> {}]
Asleep == [pc |-> "off", user |-> Nobody, msg |-> "hello", window |-> 1, node |-> "none",
           rounds |-> 0, steps |-> 0, carries |-> {}, asks |-> FALSE,
           calls |-> <<NoCall, NoCall>>, old |-> <<>>]

NoWindow == [n |-> 0, ttl |-> FALSE]

AgentsInit ==
    /\ windows = [u \in Users |-> [w \in 1..Len(Windows) |-> NoWindow]]
    /\ turnLock = [u \in Users |-> Nobody]
    /\ turn = [t \in Turns |-> Asleep]
    /\ history = [u \in Users |-> <<>>] /\ shown = [u \in Users |-> <<>>]
    /\ answers = [m \in Messages |-> [kept |-> FALSE, carries |-> {}]]
    /\ slack = [u \in Users |-> 0] /\ stuck = {}
    /\ told = [u \in Users |-> <<>>] /\ since = [u \in Users |-> 0]
    /\ advised = [u \in Users |-> {}]
    /\ repeated = {} /\ lossy = {}
    /\ stimuli = 0

Stimulus == stimuli < MaxStimuli /\ stimuli' = stimuli + 1

\* The turns that got past the lock and have not released it.
Running(u) == {t \in Turns : turn[t].user = u /\ turn[t].pc \notin {"off", "limit", "expire", "acquire"}}
WorksOf(books) == {WorkOf[b] : b \in books}
LastOf(s, n) == SubSeq(s, IF Len(s) > n THEN Len(s) - n + 1 ELSE 1, Len(s))

To(t, pc) == turn' = [turn EXCEPT ![t].pc = pc]
\* The turn is over but for its lock.
Leave(t) == turn' = [turn EXCEPT ![t] = [Asleep EXCEPT !.pc = "release", !.user = turn[t].user]]

-----------------------------------------------------------------------------
(* Admission *)

Ask(t, u, m) ==
    /\ Stimulus
    /\ turn[t].pc = "off"
    /\ turn' = [turn EXCEPT ![t] = [Asleep EXCEPT !.pc = "limit", !.user = u, !.msg = m]]
    /\ UNCHANGED <<windows, turnLock, memoryVars, answers, slack, stuck>>

\* The next window, or the lock once all are counted.
NextWindow(t) ==
    IF turn[t].window = Len(Windows) THEN To(t, "acquire")
    ELSE turn' = [turn EXCEPT ![t].pc = "limit", ![t].window = @ + 1]

\* Wrong on purpose: the TTL is set once the window is used up.
CountTurnLate(t) ==
    /\ turn[t].pc = "limit"
    /\ LET u == turn[t].user  w == turn[t].window  n == windows[u][w].n + 1 IN
         /\ windows' = [windows EXCEPT ![u][w].n = n]
         /\ CASE n = Windows[w] -> To(t, "expire")
              [] n > Windows[w] -> turn' = [turn EXCEPT ![t] = Asleep]
              [] OTHER -> NextWindow(t)
    /\ UNCHANGED <<turnLock, memoryVars, answers, slack, stuck, stimuli>>

\* INCR; every message counts, also a refused one.
CountTurn(t) ==
    /\ turn[t].pc = "limit"
    /\ LET u == turn[t].user  w == turn[t].window  n == windows[u][w].n + 1 IN
         /\ windows' = [windows EXCEPT ![u][w].n = n]
         /\ CASE n = 1 -> To(t, "expire")
              [] n > 1 /\ n > Windows[w] -> turn' = [turn EXCEPT ![t] = Asleep]
              [] OTHER -> NextWindow(t)
    /\ UNCHANGED <<turnLock, memoryVars, answers, slack, stuck, stimuli>>

ExpireWindow(t) ==
    /\ turn[t].pc = "expire"
    /\ LET u == turn[t].user  w == turn[t].window IN
         windows' = [windows EXCEPT ![u][w].ttl = windows[u][w].n > 0]
    /\ NextWindow(t)
    /\ UNCHANGED <<turnLock, memoryVars, answers, slack, stuck, stimuli>>

\* Redis fails: the message is let through, uncounted or without a TTL.
LimiterFails(t) ==
    /\ Stimulus
    /\ turn[t].pc \in {"limit", "expire"}
    /\ To(t, "acquire")
    /\ stuck' = IF turn[t].pc = "expire" THEN stuck \cup {<<turn[t].user, turn[t].window>>} ELSE stuck
    /\ UNCHANGED <<windows, turnLock, memoryVars, answers, slack>>

\* Wrong on purpose: SET without NX.
AcquireTurnAlways(t) ==
    /\ turn[t].pc = "acquire"
    /\ LET u == turn[t].user IN
         IF IsTooLong(turn[t].msg)
         THEN turn' = [turn EXCEPT ![t] = Asleep] /\ UNCHANGED turnLock
         ELSE turnLock' = [turnLock EXCEPT ![u] = t] /\ To(t, "load")
    /\ UNCHANGED <<windows, memoryVars, answers, slack, stuck, stimuli>>

\* Too long, or another turn runs: a polite refusal.  Otherwise SET NX.
AcquireTurn(t) ==
    /\ turn[t].pc = "acquire"
    /\ LET u == turn[t].user IN
         IF IsTooLong(turn[t].msg) \/ turnLock[u] # Nobody
         THEN turn' = [turn EXCEPT ![t] = Asleep] /\ UNCHANGED turnLock
         ELSE turnLock' = [turnLock EXCEPT ![u] = t] /\ To(t, "load")
    /\ UNCHANGED <<windows, memoryVars, answers, slack, stuck, stimuli>>

\* The lock cannot be read: the turn runs without it.
AcquireFails(t) ==
    /\ Stimulus
    /\ turn[t].pc = "acquire" /\ ~IsTooLong(turn[t].msg)
    /\ To(t, "load")
    /\ slack' = [slack EXCEPT ![turn[t].user] = @ + 1]
    /\ UNCHANGED <<windows, turnLock, memoryVars, answers, stuck>>

-----------------------------------------------------------------------------
(* A turn *)

\* The dialog is loaded; small talk is answered from code.  Otherwise the
\* model is handed the dialog, and its answer may repeat what that says.
LoadHistory(t) ==
    /\ turn[t].pc = "load"
    /\ LET h == history[turn[t].user]
           pending == h # <<>> /\ h[Len(h)].asks IN
         turn' = [turn EXCEPT ![t] =
            IF IsCanned(turn[t].msg, pending) THEN [@ EXCEPT !.pc = "remember"]
            ELSE [@ EXCEPT !.pc = "lookup", !.carries = CarriedBy(h)]]
    /\ UNCHANGED <<windows, turnLock, memoryVars, answers, slack, stuck, stimuli>>

\* A question somebody asked before is answered from the cache.
LookUpAnswer(t) ==
    /\ turn[t].pc = "lookup"
    /\ LET m == turn[t].msg  hit == IsCacheable(m) /\ answers[m].kept IN
         turn' = [turn EXCEPT ![t] = IF hit THEN [@ EXCEPT !.pc = "remember", !.carries = answers[m].carries]
                                            ELSE [@ EXCEPT !.pc = "route"]]
    /\ UNCHANGED <<windows, turnLock, memoryVars, answers, slack, stuck, stimuli>>

\* The router picks any intent; if it fails, chitchat.  A branch without
\* tools answers at once, from its model or from canned replies.
Route(t) ==
    /\ turn[t].pc = "route"
    /\ \E intent \in ToolBranches \cup {"chitchat"} :
           turn' = [turn EXCEPT ![t] = [@ EXCEPT !.node = intent, !.rounds = 0, !.steps = 1,
                                                 !.pc = IF intent \in ToolBranches THEN "think" ELSE "answer"]]
    /\ UNCHANGED <<windows, turnLock, memoryVars, answers, slack, stuck, stimuli>>

\* Wrong on purpose: one round more.
MayCallToolsOnceMore(x) == x.rounds <= MaxRounds

\* Tools are bound to the model while rounds are left.
MayCallTools(x) == x.rounds < MaxRounds

\* The node's model asks for tools, while they are offered, or answers; when
\* the fallback model fails too, or the graph has taken too many steps, the
\* client is sent an error and nothing is remembered.
Think(t) ==
    /\ turn[t].pc = "think"
    /\ LET counted == [turn[t] EXCEPT !.rounds = @ + 1, !.steps = @ + 1] IN
       \/ To(t, "answer")
       \/ Leave(t)
       \/ /\ MayCallTools(turn[t])
          /\ IF turn[t].steps >= RecursionLimit THEN Leave(t)
             ELSE \E tool \in ToolsOf(turn[t].node) :
                    turn' = [turn EXCEPT ![t] =
                        [counted EXCEPT !.pc = IF tool \in {"search", "filter"} THEN tool ELSE "think",
                                        !.steps = @ + 1, !.carries = @ \cup ({tool} \cap Private)]]
    /\ UNCHANGED <<windows, turnLock, memoryVars, answers, slack, stuck, stimuli>>

\* filter_books: the list of books shown is neither asked nor extended, so what it
\* hands to the model a later search may find again.
FilterBooks(t) ==
    /\ turn[t].pc = "filter"
    /\ To(t, "think")
    /\ UNCHANGED <<windows, turnLock, memoryVars, answers, slack, stuck, stimuli>>

\* semantic_search_books: the books shown are read, the catalogue is asked for
\* others (neither their ids nor their works), the list is read twice more, for
\* its ids and for its entries, and written back.  A model may ask for two
\* searches in one round; the tool node runs them concurrently.
StartSearch(t, i) ==
    /\ turn[t].pc = "search" /\ turn[t].calls[i].pc = "none"
    /\ i = 2 => turn[t].calls[1].pc \notin {"none", "done"}
    /\ turn' = [turn EXCEPT ![t].calls[i] = [NoCall EXCEPT !.pc = "find", !.known = shown[turn[t].user]]]
    /\ lossy' = IF i = 2 THEN lossy \cup {turn[t].user} ELSE lossy
    /\ UNCHANGED <<windows, turnLock, history, shown, told, since, advised, repeated,
                   answers, slack, stuck, stimuli>>

\* Wrong on purpose: only the ids are excluded.
NewIds(known) == Books \ known

NewBooks(known) == {b \in Books \ known : WorkOf[b] \notin WorksOf(known)}
\* One edition of each work.
IsCollapsed(books) == \A a, b \in books : WorkOf[a] = WorkOf[b] => a = b

FindBooks(t, i) ==
    /\ turn[t].pc = "search" /\ turn[t].calls[i].pc = "find"
    /\ \E found \in SUBSET NewBooks(ToSet(turn[t].calls[i].known)) :
          /\ IsCollapsed(found) /\ Cardinality(found) <= SearchLimit
          /\ turn' = [turn EXCEPT ![t].calls[i] =
                [NoCall EXCEPT !.pc = IF found = {} THEN "done" ELSE "ids", !.found = found]]
    /\ UNCHANGED <<windows, turnLock, memoryVars, answers, slack, stuck, stimuli>>

\* ShownBooksTracker.add: a GET for the ids, another for the entries.
ReadIds(t, i) ==
    /\ turn[t].pc = "search" /\ turn[t].calls[i].pc = "ids"
    /\ turn' = [turn EXCEPT ![t].calls[i] = [@ EXCEPT !.ids = ToSet(shown[turn[t].user]), !.pc = "entries"]]
    /\ UNCHANGED <<windows, turnLock, memoryVars, answers, slack, stuck, stimuli>>

ReadEntries(t, i) ==
    /\ turn[t].pc = "search" /\ turn[t].calls[i].pc = "entries"
    /\ turn' = [turn EXCEPT ![t].calls[i] = [@ EXCEPT !.known = shown[turn[t].user], !.pc = "write"]]
    /\ UNCHANGED <<windows, turnLock, memoryVars, answers, slack, stuck, stimuli>>

\* What is found is appended to the entries, but for the ids known.
Listed(entries, ids, found) == entries \o SetToSeq(found \ ids)

\* The model is handed the books once they are written down.
RememberShown(t, i) ==
    /\ turn[t].pc = "search" /\ turn[t].calls[i].pc = "write"
    /\ LET u == turn[t].user
           call == turn[t].calls[i]
           all == Listed(call.known, call.ids, call.found) IN
         /\ shown' = [shown EXCEPT ![u] = LastOf(all, MaxShown)]
         /\ lossy' = IF Len(all) > MaxShown THEN lossy \cup {u} ELSE lossy
         /\ turn' = [turn EXCEPT ![t].calls[i] = [@ EXCEPT !.pc = "done", !.known = <<>>, !.ids = {}]]
         /\ repeated' = IF WorksOf(call.found) \cap advised[u] = {} THEN repeated ELSE repeated \cup {u}
         /\ advised' = [advised EXCEPT ![u] = @ \cup WorksOf(call.found)]
    /\ UNCHANGED <<windows, turnLock, history, told, since, answers, slack, stuck, stimuli>>

\* The results go to the model with its next round.
EndSearch(t) ==
    /\ turn[t].pc = "search"
    /\ turn[t].calls[1].pc = "done" /\ turn[t].calls[2].pc \in {"none", "done"}
    /\ turn' = [turn EXCEPT ![t] = [@ EXCEPT !.pc = "think", !.calls = <<NoCall, NoCall>>]]
    /\ UNCHANGED <<windows, turnLock, memoryVars, answers, slack, stuck, stimuli>>

\* The text may end in a question or an offer; an empty one is not remembered.
WriteAnswer(t) ==
    /\ turn[t].pc = "answer"
    /\ \/ \E asks \in BOOLEAN :
             turn' = [turn EXCEPT ![t] = [@ EXCEPT !.pc = "remember", !.asks = asks, !.rounds = 0, !.steps = 0]]
       \/ Leave(t)
    /\ UNCHANGED <<windows, turnLock, memoryVars, answers, slack, stuck, stimuli>>

\* RedisAgentChatHistory.append: GET, then SET of the last messages.
ReadHistory(t) ==
    /\ turn[t].pc = "remember"
    /\ turn' = [turn EXCEPT ![t].pc = "append", ![t].old = history[turn[t].user]]
    /\ UNCHANGED <<windows, turnLock, memoryVars, answers, slack, stuck, stimuli>>

AppendHistory(t) ==
    /\ turn[t].pc = "append"
    /\ LET u == turn[t].user
           exchange == [no |-> Len(told[u]) + 1, asks |-> turn[t].asks, carries |-> turn[t].carries] IN
         /\ history' = [history EXCEPT ![u] = LastOf(turn[t].old \o <<exchange>>, MaxHistory)]
         /\ told' = [told EXCEPT ![u] = Append(@, exchange)]
    /\ IF turn[t].node = "book_search" THEN turn' = [turn EXCEPT ![t].pc = "share", ![t].old = <<>>]
                                        ELSE Leave(t)
    /\ UNCHANGED <<windows, turnLock, shown, since, advised, repeated, lossy,
                   answers, slack, stuck, stimuli>>

\* Only answers of the book branch to questions of their own are shared.
ShareAnswer(t) ==
    /\ turn[t].pc = "share"
    /\ answers' = IF IsCacheable(turn[t].msg)
                  THEN [answers EXCEPT ![turn[t].msg] =
                          [kept |-> TRUE, carries |-> turn[t].carries]]
                  ELSE answers
    /\ Leave(t)
    /\ UNCHANGED <<windows, turnLock, memoryVars, slack, stuck, stimuli>>

\* DEL, whoever holds the lock by now; a DEL that fails leaves it to its TTL.
ReleaseTurn(t) ==
    /\ turn[t].pc = "release"
    /\ turnLock' = [turnLock EXCEPT ![turn[t].user] = Nobody]
    /\ turn' = [turn EXCEPT ![t] = Asleep]
    /\ UNCHANGED <<windows, memoryVars, answers, slack, stuck, stimuli>>

ReleaseFails(t) ==
    /\ Stimulus
    /\ turn[t].pc = "release"
    /\ turn' = [turn EXCEPT ![t] = Asleep]
    /\ UNCHANGED <<windows, turnLock, memoryVars, answers, slack, stuck>>

-----------------------------------------------------------------------------
(* Faults *)

\* The client goes away while the answer streams: the generator is closed
\* where it yields, and its finally block runs.
ClientLeaves(t) ==
    /\ Stimulus
    /\ turn[t].pc \in {"think", "answer", "remember"}
    /\ Leave(t)
    /\ UNCHANGED <<windows, turnLock, memoryVars, answers, slack, stuck>>

WorkerDies(t) ==
    /\ Stimulus
    /\ turn[t].pc # "off"
    /\ turn' = [turn EXCEPT ![t] = Asleep]
    /\ stuck' = IF turn[t].pc = "expire" THEN stuck \cup {<<turn[t].user, turn[t].window>>} ELSE stuck
    /\ UNCHANGED <<windows, turnLock, memoryVars, answers, slack>>

\* AGENT_TURN_LOCK_TTL is a safety net for stuck locks; a long turn meets it too.
LockExpires(u) ==
    /\ Stimulus
    /\ turnLock[u] # Nobody
    /\ turnLock' = [turnLock EXCEPT ![u] = Nobody]
    /\ slack' = IF turnLock[u] \in Running(u) THEN [slack EXCEPT ![u] = @ + 1] ELSE slack
    /\ UNCHANGED <<windows, turn, memoryVars, answers, stuck>>

KeyExpires(u) ==
    /\ Stimulus
    /\ \/ \E w \in 1..Len(Windows) :
             /\ windows[u][w].ttl
             /\ windows' = [windows EXCEPT ![u][w] = NoWindow]
             /\ UNCHANGED answers
       \/ \E m \in Messages :
             /\ answers[m].kept
             /\ answers' = [answers EXCEPT ![m].kept = FALSE]
             /\ UNCHANGED windows
    /\ UNCHANGED <<turnLock, turn, memoryVars, slack, stuck>>

\* AGENT_CHAT_HISTORY_TTL, an hour that starts anew with every exchange.
HistoryExpires(u) ==
    /\ Stimulus
    /\ history[u] # <<>>
    /\ history' = [history EXCEPT ![u] = <<>>]
    /\ since' = [since EXCEPT ![u] = Len(told[u])]
    /\ UNCHANGED <<windows, turnLock, turn, shown, told, advised, repeated, lossy,
                   answers, slack, stuck>>

\* The same time for the list of books shown, since a search last wrote it.
ShownExpires(u) ==
    /\ Stimulus
    /\ shown[u] # <<>>
    /\ shown' = [shown EXCEPT ![u] = <<>>]
    /\ advised' = [advised EXCEPT ![u] = {}]
    /\ UNCHANGED <<windows, turnLock, turn, history, told, since, repeated, lossy,
                   answers, slack, stuck>>

-----------------------------------------------------------------------------
TurnStep(t) ==
    \/ CountTurn(t) \/ ExpireWindow(t) \/ AcquireTurn(t)
    \/ LoadHistory(t) \/ LookUpAnswer(t) \/ Route(t) \/ Think(t) \/ FilterBooks(t)
    \/ \E i \in {1, 2} : \/ StartSearch(t, i) \/ FindBooks(t, i)
                          \/ ReadIds(t, i) \/ ReadEntries(t, i) \/ RememberShown(t, i)
    \/ EndSearch(t) \/ WriteAnswer(t)
    \/ ReadHistory(t) \/ AppendHistory(t) \/ ShareAnswer(t) \/ ReleaseTurn(t)

AgentsNext ==
    \/ \E t \in Turns :
         \/ \E u \in Users, m \in Messages : Ask(t, u, m)
         \/ TurnStep(t)
         \/ LimiterFails(t) \/ AcquireFails(t) \/ ReleaseFails(t) \/ ClientLeaves(t) \/ WorkerDies(t)
    \/ \E u \in Users : LockExpires(u) \/ KeyExpires(u) \/ HistoryExpires(u) \/ ShownExpires(u)

AgentsSpec == AgentsInit /\ [][AgentsNext]_agentVars

-----------------------------------------------------------------------------
\* Without the lock run at most as many turns as were let in by a Redis
\* hiccup or lost a lock they still used: releasing another turn's lock,
\* which release_turn may do, never adds one.
TurnsOverlapOnlyBySlack ==
    \A u \in Users : Cardinality(Running(u) \ {turnLock[u]}) <= slack[u]

\* A dialog kept as h is the end of what was said, without a gap, and holds
\* all that was said since its key last ran out, or all that fits.
Remembered(u, h) ==
    /\ h = LastOf(told[u], Len(h))
    /\ Len(h) >= MaxHistory \/ Len(h) >= Len(told[u]) - since[u]

\* While the lock was never lost, no exchange that was answered drops out of
\* the dialog but for the window and the TTL: no turn writes back a history
\* it read too early.
NoExchangeForgotten ==
    \A u \in Users : slack[u] = 0 => Remembered(u, history[u])

\* While the list of books shown lives, semantic searches that run one after
\* another never recommend a work twice, in another edition neither, nor
\* list a book twice; what filter_books recommends is no part of the list.
NoWorkTwice ==
    \A u \in Users :
        u \in lossy \/ slack[u] > 0 \/ (u \notin repeated /\ IsInjective(shown[u]))

\* No answer other users are given may say what is in a user's orders or cart.
SharedAnswersArePublic ==
    \A m \in Messages : answers[m].kept => answers[m].carries = {}

\* A window that was hit ends, unless its EXPIRE failed or died.
WindowsEnd ==
    \A u \in Users : \A w \in 1..Len(Windows) :
        (windows[u][w].n > 0 /\ ~windows[u][w].ttl) =>
            \/ <<u, w>> \in stuck
            \/ \E t \in Turns : turn[t].pc = "expire" /\ turn[t].user = u /\ turn[t].window = w

\* Among others: the rounds of tool calls end before the graph's own limit would
\* turn the turn into an error.
AgentsTypeOK ==
    /\ \A t \in Turns : turn[t].pc = "think" => turn[t].steps < RecursionLimit
    /\ turnLock \in [Users -> Turns \cup {Nobody}]
    /\ \A t \in Turns : turn[t].pc # "off" <=> turn[t].user \in Users
    /\ \A u \in Users : /\ ToSet(shown[u]) \subseteq Books /\ Len(shown[u]) <= MaxShown
                        /\ Len(history[u]) <= MaxHistory
=============================================================================
