------------------------------ MODULE Support ------------------------------
(***************************************************************************)
(* The support chat of one user: the user's sockets (support_chat_user_ws, *)
(* ChatEscalationUC), the managers' sockets and REST calls, and the bot    *)
(* that answers questions taken from a queue (BotAnswerUC).  Postgres      *)
(* holds the chats; Redis the cached chats, the antispam counters and the  *)
(* lock of each chat's manager socket.  Every await that touches shared    *)
(* state is a step of its own.                                             *)
(***************************************************************************)
EXTENDS Integers, Sequences, FiniteSets

CONSTANTS
    Devices,         \* sockets the user may have open
    Managers,        \* each with at most one socket and one REST call at a time
    MaxChats,        \* bound: chats the user may have had
    MaxEvents,       \* bound: connections, texts, calls, lapses and crashes
    MsgLimit,        \* RATE_LIMIT_MSG_SCHAT_MAX
    ViolationLimit,  \* SCHAT_VIOLATIONS_MAX
    None

ChatIds == 1..MaxChats
Row == [manager : Managers \cup {None}, closed : BOOLEAN, escalated : BOOLEAN]
\* ChatRead: what the user's handlers know of a chat.
Read == [id : ChatIds, manager : Managers \cup {None}, escalated : BOOLEAN]
Question == [no : Nat, chat : ChatIds]

ASSUME SupportAssumption ==
    /\ None \notin Devices \cup Managers
    /\ None \notin ChatIds /\ None \notin Row /\ None \notin Read /\ None \notin Question
    /\ IsFiniteSet(Devices) /\ IsFiniteSet(Managers)
    /\ {MaxChats, MsgLimit, ViolationLimit} \subseteq Nat \ {0} /\ MaxEvents \in Nat

VARIABLES
    chats,      \* the user's chats: None, or the row
    userCache,  \* the user's chat as cached in Redis, or None
    chatCache,  \* chats cached for their managers
    rate, spam, \* the antispam counters and whether they have a TTL
    muted,      \* the mute key exists
    dev,        \* the user's sockets and the handlers behind them
    mgr,        \* the managers' sockets and the handlers behind them
    rest,       \* the managers' REST calls
    locks,      \* schat_manager_lock of each chat: None or its socket
    queue,      \* questions in LLM_QUEUE
    bot,        \* the question the bot's consumer works on
    settled,    \* questions acknowledged: answered, or their failure logged
    answered,   \* questions with an answer saved in the chat
    asked,      \* history: questions published so far
    lapsed,     \* history: live manager sockets whose lock ran out
    raced,      \* history: a lock ran out between its owner's GET and DEL
    orphaned,   \* history: counters left without a TTL by a crash
    excused,    \* history: the cached chat was stored late, or its DEL was lost
    events

chatVars == <<chats, userCache, chatCache, excused>>
spamVars == <<rate, spam, muted, orphaned>>
lockVars == <<mgr, locks, lapsed, raced>>
botVars  == <<queue, bot, settled, answered, asked>>
supportVars == <<chatVars, spamVars, lockVars, botVars, dev, rest, events>>

NoCount == [n |-> 0, ttl |-> FALSE]
Offline == [pc |-> "off", listening |-> FALSE, kicked |-> FALSE, missed |-> {},
            text |-> None, read |-> None, late |-> FALSE]
Detached == [pc |-> "off", chat |-> None]

IsOpen(c) == chats[c] # None /\ ~chats[c].closed
OpenChats == {c \in ChatIds : chats[c] # None /\ ~chats[c].closed}
Snapshot(c) == [id |-> c, manager |-> chats[c].manager, escalated |-> chats[c].escalated]
NewRow == [manager |-> None, closed |-> FALSE, escalated |-> FALSE]

SupportInit ==
    /\ chats \in [ChatIds -> {None, NewRow}]
    /\ \A c \in ChatIds : c > 1 => chats[c] = None
    /\ userCache = None /\ chatCache = {} /\ excused = FALSE
    /\ rate = NoCount /\ spam = NoCount /\ muted = FALSE /\ orphaned = {}
    /\ dev = [d \in Devices |-> Offline]
    /\ mgr = [m \in Managers |-> Detached] /\ rest = [m \in Managers |-> Detached]
    /\ locks = [c \in ChatIds |-> None] /\ lapsed = {} /\ raced = FALSE
    /\ queue = <<>> /\ bot = None /\ settled = {} /\ answered = {} /\ asked = {}
    /\ events = 0

\* Everything that starts from outside is counted against the bound.
External == events < MaxEvents /\ events' = events + 1

-----------------------------------------------------------------------------
(* The user's sockets *)

\* A handler goes on at pc; back at receive_text it keeps nothing.
Go(d, pc) ==
    dev' = [dev EXCEPT ![d] = IF pc = "idle" THEN [@ EXCEPT !.pc = pc, !.text = None, !.read = None]
                                             ELSE [@ EXCEPT !.pc = pc]]
HangUp(d) == dev' = [e \in Devices |-> IF e = d THEN Offline
                                       ELSE [dev[e] EXCEPT !.missed = @ \ {d}]]

\* Wrong on purpose: only sockets that wait for a text are kicked.
ConnectQuietly(d) ==
    /\ External
    /\ dev[d].pc = "off"
    /\ dev' = [e \in Devices |->
                 IF e = d THEN [Offline EXCEPT !.pc = "chat"]
                 ELSE IF dev[e].listening /\ dev[e].pc = "idle" THEN [dev[e] EXCEPT !.kicked = TRUE]
                 ELSE IF ~dev[e].listening /\ dev[e].pc # "off" THEN [dev[e] EXCEPT !.missed = @ \cup {d}]
                 ELSE dev[e]]
    /\ UNCHANGED <<chatVars, spamVars, lockVars, botVars, rest>>

\* The kick is published before the socket is accepted: sockets that listen
\* close, those still connecting never hear of it.
Connect(d) ==
    /\ External
    /\ dev[d].pc = "off"
    /\ dev' = [e \in Devices |->
                 IF e = d THEN [Offline EXCEPT !.pc = "chat"]
                 ELSE IF dev[e].listening THEN [dev[e] EXCEPT !.kicked = TRUE]
                 ELSE IF dev[e].pc # "off" THEN [dev[e] EXCEPT !.missed = @ \cup {d}]
                 ELSE dev[e]]
    /\ UNCHANGED <<chatVars, spamVars, lockVars, botVars, rest>>

\* The write task, created once the history is sent, subscribes.
Subscribe(d) ==
    /\ dev[d].pc \notin {"off", "chat", "find", "create", "store"} \/ dev[d].text # None
    /\ ~dev[d].listening
    /\ dev' = [dev EXCEPT ![d].listening = TRUE]
    /\ UNCHANGED <<chatVars, spamVars, lockVars, botVars, rest, events>>

\* The client goes away, is idle too long or has been kicked: the handler
\* notices when it next waits for a text.
Disconnect(d) ==
    /\ dev[d].pc = "idle"
    /\ HangUp(d)
    /\ UNCHANGED <<chatVars, spamVars, lockVars, botVars, rest, events>>

\* A text arrives; "operator" stands for one detect_chat_escalation matches.
SendText(d) ==
    /\ External
    /\ dev[d].pc = "idle"
    /\ \E t \in {"plain", "operator"} :
           dev' = [dev EXCEPT ![d] = [@ EXCEPT !.pc = "muted?", !.text = t]]
    /\ UNCHANGED <<chatVars, spamVars, lockVars, botVars, rest>>

\* Both refusals are written to the socket, which stays open.
CheckMute(d) ==
    /\ dev[d].pc = "muted?"
    /\ Go(d, IF muted THEN "idle" ELSE "count")
    /\ UNCHANGED <<chatVars, spamVars, lockVars, botVars, rest, events>>

\* Wrong on purpose: the TTL is set one message late.
CountMessageLate(d) ==
    /\ dev[d].pc = "count"
    /\ rate' = [rate EXCEPT !.n = @ + 1]
    /\ Go(d, CASE rate.n = 1 -> "expireRate"
               [] rate.n > 1 /\ rate.n >= MsgLimit -> "violation"
               [] OTHER -> "chat")
    /\ UNCHANGED <<chatVars, spam, muted, orphaned, lockVars, botVars, rest, events>>

CountMessage(d) ==
    /\ dev[d].pc = "count"
    /\ rate' = [rate EXCEPT !.n = @ + 1]
    /\ Go(d, CASE rate.n = 0 -> "expireRate"
               [] rate.n > 0 /\ rate.n >= MsgLimit -> "violation"
               [] OTHER -> "chat")
    /\ UNCHANGED <<chatVars, spam, muted, orphaned, lockVars, botVars, rest, events>>

ExpireRate(d) ==
    /\ dev[d].pc = "expireRate"
    /\ rate' = [rate EXCEPT !.ttl = rate.n > 0]
    /\ Go(d, "chat")
    /\ UNCHANGED <<chatVars, spam, muted, orphaned, lockVars, botVars, rest, events>>

CountViolation(d) ==
    /\ dev[d].pc = "violation"
    /\ spam' = [spam EXCEPT !.n = @ + 1]
    /\ Go(d, CASE spam.n = 0 -> "expireSpam"
               [] spam.n > 0 /\ spam.n + 1 >= ViolationLimit -> "mute"
               [] OTHER -> "idle")
    /\ UNCHANGED <<chatVars, rate, muted, orphaned, lockVars, botVars, rest, events>>

ExpireSpam(d) ==
    /\ dev[d].pc = "expireSpam"
    /\ spam' = [spam EXCEPT !.ttl = spam.n > 0]
    /\ Go(d, IF ViolationLimit = 1 THEN "mute" ELSE "idle")
    /\ UNCHANGED <<chatVars, rate, muted, orphaned, lockVars, botVars, rest, events>>

Mute(d) ==
    /\ dev[d].pc = "mute"
    /\ muted' = TRUE
    /\ Go(d, "forgive")
    /\ UNCHANGED <<chatVars, rate, spam, orphaned, lockVars, botVars, rest, events>>

ForgetViolations(d) ==
    /\ dev[d].pc = "forgive"
    /\ spam' = NoCount /\ orphaned' = orphaned \ {"spam"}
    /\ Go(d, "idle")
    /\ UNCHANGED <<chatVars, rate, muted, lockVars, botVars, rest, events>>

\* Where a handler goes once it has the chat: the first one opens the socket.
WithChat(d) == IF dev[d].text = None THEN "idle" ELSE "save"

ReadCache(d) ==
    /\ dev[d].pc = "chat"
    /\ dev' = [dev EXCEPT ![d].late = FALSE,
                          ![d].read = IF dev[d].text = None THEN None ELSE userCache,
                          ![d].pc = IF userCache = None THEN "find" ELSE WithChat(d)]
    /\ UNCHANGED <<chatVars, spamVars, lockVars, botVars, rest, events>>

\* get_by_user_id; a text in a user without an open chat closes the socket.
FindChat(d) ==
    /\ dev[d].pc = "find"
    /\ \/ \E c \in OpenChats :
             dev' = [dev EXCEPT ![d].read = Snapshot(c), ![d].pc = "store"]
       \/ OpenChats = {} /\ dev[d].text = None /\ Go(d, "create")
       \/ OpenChats = {} /\ dev[d].text # None /\ HangUp(d)
    /\ UNCHANGED <<chatVars, spamVars, lockVars, botVars, rest, events>>

\* Wrong on purpose: no unique index on the open chats of a user.
CreateChatTwice(d) ==
    /\ dev[d].pc = "create"
    /\ \E c \in ChatIds :
          /\ chats[c] = None /\ \A b \in 1..(c - 1) : chats[b] # None
          /\ chats' = [chats EXCEPT ![c] = NewRow]
          /\ dev' = [dev EXCEPT ![d].read = [id |-> c, manager |-> None, escalated |-> FALSE],
                                ![d].pc = "store"]
    /\ UNCHANGED <<userCache, chatCache, excused, spamVars, lockVars, botVars, rest, events>>

\* The unique index refuses a second open chat: the handler fails.
CreateChat(d) ==
    /\ dev[d].pc = "create"
    /\ \/ OpenChats # {} /\ HangUp(d) /\ UNCHANGED chats
       \/ /\ OpenChats = {}
          /\ \E c \in ChatIds :
                /\ chats[c] = None /\ \A b \in 1..(c - 1) : chats[b] # None
                /\ chats' = [chats EXCEPT ![c] = NewRow]
                /\ dev' = [dev EXCEPT ![d].read = [id |-> c, manager |-> None, escalated |-> FALSE],
                                      ![d].pc = "store"]
    /\ UNCHANGED <<userCache, chatCache, excused, spamVars, lockVars, botVars, rest, events>>

StoreCache(d) ==
    /\ dev[d].pc = "store"
    /\ userCache' = dev[d].read
    /\ excused' = dev[d].late
    /\ Go(d, WithChat(d))
    /\ UNCHANGED <<chats, chatCache, spamVars, lockVars, botVars, rest, events>>

\* DEL of the cached chat; handlers that read the row before are late now.
DropUserCache ==
    /\ userCache' = None /\ excused' = FALSE
Overtaken == [e \in Devices |-> IF dev[e].pc = "store" THEN [dev[e] EXCEPT !.late = TRUE] ELSE dev[e]]

\* The message, last_message_at and the escalation are committed together.
SaveMessage(d) ==
    /\ dev[d].pc = "save"
    /\ LET c == dev[d].read.id
           escalates == dev[d].text = "operator" /\ ~dev[d].read.escalated IN
         /\ chats' = [chats EXCEPT ![c].escalated = @ \/ escalates]
         /\ dev' = [dev EXCEPT ![d].read.escalated = @ \/ escalates,
                               ![d].pc = IF escalates THEN "uncache" ELSE "ask"]
    /\ UNCHANGED <<userCache, chatCache, excused, spamVars, lockVars, botVars, rest, events>>

AnnounceTransfer(d) ==
    /\ dev[d].pc = "uncache"
    /\ DropUserCache
    /\ dev' = [Overtaken EXCEPT ![d].pc = "ask"]
    /\ UNCHANGED <<chats, chatCache, spamVars, lockVars, botVars, rest, events>>

\* The bot is asked unless the chat as read was handed over.
AskBot(d) ==
    /\ dev[d].pc = "ask"
    /\ Go(d, "idle")
    /\ IF ~dev[d].read.escalated /\ dev[d].read.manager = None
       THEN LET q == [no |-> Cardinality(asked) + 1, chat |-> dev[d].read.id] IN
              queue' = Append(queue, q) /\ asked' = asked \cup {q}
       ELSE UNCHANGED <<queue, asked>>
    /\ UNCHANGED <<chatVars, spamVars, lockVars, bot, settled, answered, rest, events>>

\* CloseChatUC.by_user: commit, then both cached chats go; ChatNotFound only
\* drops the user's.
CloseByUser(d) ==
    /\ External
    /\ dev[d].pc = "idle"
    /\ \/ OpenChats = {} /\ Go(d, "uncacheBoth") /\ UNCHANGED chats
       \/ \E c \in OpenChats :
             /\ chats' = [chats EXCEPT ![c].closed = TRUE]
             /\ dev' = [dev EXCEPT ![d].pc = "uncacheBoth", ![d].read = Snapshot(c)]
    /\ UNCHANGED <<userCache, chatCache, excused, spamVars, lockVars, botVars, rest>>

FinishClose(d) ==
    /\ dev[d].pc = "uncacheBoth"
    /\ DropUserCache
    /\ chatCache' = chatCache \ (IF dev[d].read = None THEN {} ELSE {dev[d].read.id})
    /\ dev' = [e \in Devices |-> IF e = d THEN Offline
                                 ELSE [Overtaken[e] EXCEPT !.missed = @ \ {d}]]
    /\ UNCHANGED <<chats, spamVars, lockVars, botVars, rest, events>>

\* The worker behind a socket dies in the middle of its handler.
Crash(d) ==
    /\ External
    /\ dev[d].pc \notin {"off", "idle"}
    /\ LET lost == dev[d].pc \in {"uncache", "uncacheBoth"} IN
         /\ excused' = (excused \/ lost)
         /\ dev' = [e \in Devices |-> CASE e = d -> Offline
                                         [] e # d /\ lost -> [Overtaken[e] EXCEPT !.missed = @ \ {d}]
                                         [] OTHER -> [dev[e] EXCEPT !.missed = @ \ {d}]]
    /\ orphaned' = orphaned \cup (CASE dev[d].pc = "expireRate" -> {"rate"}
                                    [] dev[d].pc = "expireSpam" -> {"spam"}
                                    [] OTHER -> {})
    /\ UNCHANGED <<chats, userCache, chatCache, rate, spam, muted, lockVars, botVars, rest>>

\* Redis TTLs of the user's keys and of the chats cached for managers.
KeyLapses ==
    /\ \/ rate.ttl /\ rate' = NoCount /\ UNCHANGED <<spam, muted, userCache, excused, chatCache>>
       \/ spam.ttl /\ spam' = NoCount /\ UNCHANGED <<rate, muted, userCache, excused, chatCache>>
       \/ muted /\ muted' = FALSE /\ UNCHANGED <<rate, spam, userCache, excused, chatCache>>
       \/ userCache # None /\ DropUserCache /\ UNCHANGED <<rate, spam, muted, chatCache>>
       \/ \E c \in chatCache : chatCache' = chatCache \ {c} /\ UNCHANGED <<rate, spam, muted, userCache, excused>>
    /\ External
    /\ UNCHANGED <<chats, orphaned, lockVars, botVars, dev, rest>>

-----------------------------------------------------------------------------
(* The managers' sockets *)

GoM(m, pc) == mgr' = [mgr EXCEPT ![m].pc = pc]

\* SET NX; a socket that finds the lock taken is closed and changes nothing.
OpenSocket(m, c) ==
    /\ External
    /\ mgr[m].pc = "off" /\ chats[c] # None /\ locks[c] = None
    /\ locks' = [locks EXCEPT ![c] = m]
    /\ mgr' = [mgr EXCEPT ![m] = [pc |-> "assign", chat |-> c]]
    /\ lapsed' = lapsed \ {m}
    /\ UNCHANGED <<chatVars, spamVars, botVars, dev, rest, raced>>

\* AssignManagerToChatUC: the chat is read and, if nobody has it, taken.
ReadForAssign(m) ==
    /\ mgr[m].pc = "assign"
    /\ LET c == mgr[m].chat IN
         GoM(m, CASE IsOpen(c) /\ chats[c].manager = None -> "commitAssign"
                  [] IsOpen(c) /\ chats[c].manager = m -> "loop"
                  [] OTHER -> "release")
    /\ UNCHANGED <<chatVars, spamVars, botVars, dev, rest, locks, lapsed, raced, events>>

CommitAssign(m) ==
    /\ mgr[m].pc = "commitAssign"
    /\ chats' = [chats EXCEPT ![mgr[m].chat].manager = m]
    /\ GoM(m, "uncacheAssign")
    /\ UNCHANGED <<userCache, chatCache, excused, spamVars, botVars, dev, rest, locks, lapsed, raced, events>>

UncacheAssign(m) ==
    /\ mgr[m].pc = "uncacheAssign"
    /\ DropUserCache /\ dev' = Overtaken
    /\ GoM(m, "loop")
    /\ UNCHANGED <<chats, chatCache, spamVars, botVars, rest, locks, lapsed, raced, events>>

\* A text in a chat that is cached changes nothing here; a miss reads the row, and
\* caches what it read a step later.
ManagerText(m) ==
    /\ External
    /\ mgr[m].pc = "loop" /\ mgr[m].chat \notin chatCache
    /\ GoM(m, IF IsOpen(mgr[m].chat) THEN "cacheChat" ELSE "release")
    /\ UNCHANGED <<chatVars, spamVars, botVars, dev, rest, locks, lapsed, raced>>

CacheChat(m) ==
    /\ mgr[m].pc = "cacheChat"
    /\ chatCache' = chatCache \cup {mgr[m].chat}
    /\ GoM(m, "loop")
    /\ UNCHANGED <<chats, userCache, excused, spamVars, botVars, dev, rest, locks, lapsed, raced, events>>

\* ManagerLeaveChatUC: only the chat's manager gives it back.
LeaveChat(m) ==
    /\ External
    /\ mgr[m].pc = "loop"
    /\ LET c == mgr[m].chat IN
         IF IsOpen(c) /\ chats[c].manager = m
         THEN chats' = [chats EXCEPT ![c].manager = None] /\ GoM(m, "uncacheLeave")
         ELSE GoM(m, "release") /\ UNCHANGED chats
    /\ UNCHANGED <<userCache, chatCache, excused, spamVars, botVars, dev, rest, locks, lapsed, raced>>

UncacheLeave(m) ==
    /\ mgr[m].pc = "uncacheLeave"
    /\ DropUserCache /\ dev' = Overtaken
    /\ GoM(m, "release")
    /\ UNCHANGED <<chats, chatCache, spamVars, botVars, rest, locks, lapsed, raced, events>>

\* CloseChatUC.by_manager: whoever has the socket may close the chat.
CloseByManager(m) ==
    /\ External
    /\ mgr[m].pc = "loop"
    /\ LET c == mgr[m].chat IN
         IF IsOpen(c)
         THEN /\ chats' = [chats EXCEPT ![c].closed = TRUE] /\ GoM(m, "uncacheClose")
              /\ UNCHANGED chatCache
         ELSE chatCache' = chatCache \ {c} /\ GoM(m, "release") /\ UNCHANGED chats
    /\ UNCHANGED <<userCache, excused, spamVars, botVars, dev, rest, locks, lapsed, raced>>

UncacheClose(m) ==
    /\ mgr[m].pc = "uncacheClose"
    /\ DropUserCache /\ dev' = Overtaken
    /\ chatCache' = chatCache \ {mgr[m].chat}
    /\ GoM(m, "release")
    /\ UNCHANGED <<chats, spamVars, botVars, rest, locks, lapsed, raced, events>>

LoseManager(m) ==
    /\ mgr[m].pc = "loop"
    /\ GoM(m, "release")
    /\ UNCHANGED <<chatVars, spamVars, botVars, dev, rest, locks, lapsed, raced, events>>

\* Wrong on purpose: the lock is deleted whoever holds it.
ReadLockBlindly(m) ==
    /\ mgr[m].pc = "release"
    /\ GoM(m, "unlock")
    /\ UNCHANGED <<chatVars, spamVars, botVars, dev, rest, locks, lapsed, raced, events>>

\* The finally block: GET, and DEL if the lock is still this socket's.
ReadLock(m) ==
    /\ mgr[m].pc = "release"
    /\ IF locks[mgr[m].chat] = m
       THEN GoM(m, "unlock") /\ UNCHANGED lapsed
       ELSE mgr' = [mgr EXCEPT ![m] = Detached] /\ lapsed' = lapsed \ {m}
    /\ UNCHANGED <<chatVars, spamVars, botVars, dev, rest, locks, raced, events>>

Unlock(m) ==
    /\ mgr[m].pc = "unlock"
    /\ locks' = [locks EXCEPT ![mgr[m].chat] = None]
    /\ mgr' = [mgr EXCEPT ![m] = Detached]
    /\ lapsed' = lapsed \ {m}
    /\ UNCHANGED <<chatVars, spamVars, botVars, dev, rest, raced, events>>

\* The worker behind a manager's socket dies: its lock stays until its TTL.
CrashManager(m) ==
    /\ External
    /\ mgr[m].pc # "off"
    /\ mgr' = [mgr EXCEPT ![m] = Detached]
    /\ lapsed' = lapsed \ {m}
    /\ IF mgr[m].pc \in {"uncacheAssign", "uncacheLeave", "uncacheClose"}
       THEN excused' = TRUE /\ dev' = Overtaken ELSE UNCHANGED <<excused, dev>>
    /\ UNCHANGED <<chats, userCache, chatCache, spamVars, botVars, rest, locks, raced>>

\* SCHAT_MANAGER_LOCK_TTL is never renewed while the socket lives.
LockLapses(c) ==
    /\ External
    /\ locks[c] # None
    /\ locks' = [locks EXCEPT ![c] = None]
    /\ LET m == locks[c]
           live == mgr[m].pc # "off" /\ mgr[m].chat = c IN
         /\ lapsed' = IF live THEN lapsed \cup {m} ELSE lapsed
         /\ raced' = (raced \/ (live /\ mgr[m].pc = "unlock"))
    /\ UNCHANGED <<chatVars, spamVars, botVars, mgr, dev, rest>>

-----------------------------------------------------------------------------
(* The managers' REST calls *)

GoR(m, pc, c) == rest' = [rest EXCEPT ![m] = [pc |-> pc, chat |-> c]]

\* ManagerChatService.assign_chat: read and checked, then committed.
RestAssign(m, c) ==
    /\ External
    /\ rest[m].pc = "off" /\ IsOpen(c) /\ chats[c].manager \in {None, m}
    /\ GoR(m, "commit", c)
    /\ UNCHANGED <<chatVars, spamVars, lockVars, botVars, dev>>

\* Wrong on purpose: the cached chat is not dropped after the assignment.
RestCommitOnly(m) ==
    /\ rest[m].pc = "commit"
    /\ chats' = [chats EXCEPT ![rest[m].chat].manager = m]
    /\ GoR(m, "off", None)
    /\ UNCHANGED <<userCache, chatCache, excused, spamVars, lockVars, botVars, dev, events>>

RestCommit(m) ==
    /\ rest[m].pc = "commit"
    /\ chats' = [chats EXCEPT ![rest[m].chat].manager = m]
    /\ GoR(m, "uncache", rest[m].chat)
    /\ UNCHANGED <<userCache, chatCache, excused, spamVars, lockVars, botVars, dev, events>>

\* ManagerChatService.close_chat: only the chat's manager may.
RestClose(m, c) ==
    /\ External
    /\ rest[m].pc = "off" /\ IsOpen(c) /\ chats[c].manager = m
    /\ chats' = [chats EXCEPT ![c].closed = TRUE]
    /\ GoR(m, "uncacheBoth", c)
    /\ UNCHANGED <<userCache, chatCache, excused, spamVars, lockVars, botVars, dev>>

RestUncache(m) ==
    /\ rest[m].pc \in {"uncache", "uncacheBoth"}
    /\ DropUserCache /\ dev' = Overtaken
    /\ chatCache' = IF rest[m].pc = "uncache" THEN chatCache ELSE chatCache \ {rest[m].chat}
    /\ GoR(m, "off", None)
    /\ UNCHANGED <<chats, spamVars, lockVars, botVars, events>>

-----------------------------------------------------------------------------
(* The bot: one unacknowledged question at a time *)

TakeQuestion ==
    /\ bot = None /\ queue # <<>>
    /\ bot' = Head(queue) /\ queue' = Tail(queue)
    /\ UNCHANGED <<chatVars, spamVars, lockVars, settled, answered, asked, dev, rest, events>>

\* The answer is saved and published; the chat is not looked at again.
Answer ==
    /\ bot # None /\ bot \notin answered
    /\ answered' = answered \cup {bot}
    /\ UNCHANGED <<chatVars, spamVars, lockVars, queue, bot, settled, asked, dev, rest, events>>

\* message.process() acknowledges after an answer and after a logged failure.
Acknowledge ==
    /\ bot # None
    /\ settled' = settled \cup {bot} /\ bot' = None
    /\ UNCHANGED <<chatVars, spamVars, lockVars, queue, answered, asked, dev, rest, events>>

\* Wrong on purpose: questions are acknowledged when they are delivered.
CrashConsumerAcked ==
    /\ External
    /\ bot # None /\ bot' = None
    /\ UNCHANGED <<chatVars, spamVars, lockVars, queue, settled, answered, asked, dev, rest>>

\* The consumer dies: the broker delivers the question again.
CrashConsumer ==
    /\ External
    /\ bot # None
    /\ queue' = <<bot>> \o queue /\ bot' = None
    /\ UNCHANGED <<chatVars, spamVars, lockVars, settled, answered, asked, dev, rest>>

-----------------------------------------------------------------------------
UserStep(d) ==
    \/ Connect(d) \/ Subscribe(d) \/ Disconnect(d) \/ SendText(d)
    \/ CheckMute(d) \/ CountMessage(d) \/ ExpireRate(d) \/ CountViolation(d)
    \/ ExpireSpam(d) \/ Mute(d) \/ ForgetViolations(d)
    \/ ReadCache(d) \/ FindChat(d) \/ CreateChat(d) \/ StoreCache(d)
    \/ SaveMessage(d) \/ AnnounceTransfer(d) \/ AskBot(d)
    \/ CloseByUser(d) \/ FinishClose(d) \/ Crash(d)

ManagerStep(m) ==
    \/ \E c \in ChatIds : OpenSocket(m, c) \/ RestAssign(m, c) \/ RestClose(m, c)
    \/ ReadForAssign(m) \/ CommitAssign(m) \/ UncacheAssign(m)
    \/ ManagerText(m) \/ CacheChat(m) \/ LeaveChat(m) \/ UncacheLeave(m)
    \/ CloseByManager(m) \/ UncacheClose(m) \/ LoseManager(m)
    \/ ReadLock(m) \/ Unlock(m) \/ CrashManager(m)
    \/ RestCommit(m) \/ RestUncache(m)

BotStep == TakeQuestion \/ Answer \/ Acknowledge \/ CrashConsumer

SupportNext ==
    \/ \E d \in Devices : UserStep(d)
    \/ \E m \in Managers : ManagerStep(m)
    \/ \E c \in ChatIds : LockLapses(c)
    \/ KeyLapses
    \/ BotStep

SupportSpec == SupportInit /\ [][SupportNext]_supportVars

-----------------------------------------------------------------------------
\* Two sockets serve one chat only if the lock of one of them ran out: the
\* finally block of a socket never gives another one's lock away.
OneManagerPerChat ==
    \A m, n \in Managers :
        (m # n /\ mgr[m].pc # "off" /\ mgr[n].pc # "off" /\ mgr[m].chat = mgr[n].chat)
            => (raced \/ m \in lapsed \/ n \in lapsed)

\* Two of the user's devices stay connected only if one was still connecting
\* when the other announced itself.
NewestDeviceStays ==
    \A d, e \in Devices :
        (d # e /\ dev[d].listening /\ dev[e].listening /\ ~dev[d].kicked /\ ~dev[e].kicked)
            => (d \in dev[e].missed \/ e \in dev[d].missed)

\* The cached chat differs from its row only while the handler that changed
\* the row still has to drop it, unless it was stored after the drop by a
\* reader that was overtaken, or the drop died with its worker.
CacheTrailsItsWriter ==
    (userCache # None /\ ~excused
       /\ (~IsOpen(userCache.id) \/ userCache # Snapshot(userCache.id)))
    => \/ \E d \in Devices : dev[d].pc \in {"uncache", "uncacheBoth"}
       \/ \E m \in Managers : \/ mgr[m].pc \in {"uncacheAssign", "uncacheLeave", "uncacheClose"}
                              \/ rest[m].pc \in {"uncache", "uncacheBoth"}

\* A counter without a TTL is about to get one, unless the worker that
\* created it died: a limit that was hit is lifted again.
LimitsAreLifted ==
    /\ (rate.n > 0 /\ ~rate.ttl) => "rate" \in orphaned \/ \E d \in Devices : dev[d].pc = "expireRate"
    /\ (spam.n > 0 /\ ~spam.ttl) => "spam" \in orphaned \/ \E d \in Devices : dev[d].pc = "expireSpam"

\* A published question is in the queue, with the bot, or settled, whatever
\* the consumer survives.
NoQuestionLost == asked = {queue[i] : i \in 1..Len(queue)} \cup ({bot} \ {None}) \cup settled

\* Types; and no user has two open chats, no handler works on a chat that is not there.
SupportTypeOK ==
    /\ chats \in [ChatIds -> {None} \cup Row]
    /\ Cardinality(OpenChats) <= 1
    /\ userCache = None \/ chats[userCache.id] # None
    /\ chatCache \subseteq ChatIds
    /\ \A k \in {rate, spam} : k.n \in Nat /\ k.ttl \in BOOLEAN /\ (k.ttl => k.n > 0)
    /\ \A d \in Devices : dev[d].read # None => chats[dev[d].read.id] # None
    /\ locks \in [ChatIds -> Managers \cup {None}]
    /\ \A m \in Managers : /\ mgr[m].pc # "off" <=> mgr[m].chat # None
                           /\ rest[m].pc # "off" <=> rest[m].chat # None
    /\ settled \subseteq asked /\ answered \subseteq asked
=============================================================================
