---------------------------- MODULE SupportProofs ----------------------------
(***************************************************************************)
(* The support chat of one user for any sockets, managers, chats and       *)
(* limits: five invariants, each about the variables of one concern, that  *)
(* need only the types (StateOK) of the others.                            *)
(*                                                                         *)
(* CacheTrailsItsWriter is not inductive: a reader between its SELECT and  *)
(* its SET holds a copy that will be the cached one, so CacheInv speaks of *)
(* those copies too, and every step either writes a row (Covered), drops   *)
(* the cache or dies trying (Cleared), or leaves the rows (Untouched).     *)
(***************************************************************************)
EXTENDS Support, TLAPS, FiniteSetTheorems

SocketPCs == {"off", "chat", "find", "create", "store", "idle", "muted?", "count",
              "expireRate", "violation", "expireSpam", "mute", "forgive", "save",
              "uncache", "ask", "uncacheBoth"}
ManagerPCs == {"off", "assign", "commitAssign", "uncacheAssign", "loop", "cacheChat", "uncacheLeave",
               "uncacheClose", "release", "unlock"}
CallPCs == {"off", "commit", "uncache", "uncacheBoth"}

Socket == [pc : SocketPCs, listening : BOOLEAN, kicked : BOOLEAN, missed : SUBSET Devices,
           text : {None, "plain", "operator"}, read : {None} \cup Read, late : BOOLEAN]
ManagerSocket == [pc : ManagerPCs, chat : ChatIds \cup {None}]
Call == [pc : CallPCs, chat : ChatIds \cup {None}]

\* Whoever has read a chat has read one that exists.
Known(r) == r # None => chats[r.id] # None

ChatsOK ==
    /\ chats \in [ChatIds -> {None} \cup Row]
    /\ \A a, b \in OpenChats : a = b
    /\ userCache \in {None} \cup Read /\ Known(userCache)
    /\ chatCache \subseteq ChatIds

SocketsOK ==
    /\ dev \in [Devices -> Socket]
    /\ \A d \in Devices : /\ Known(dev[d].read)
                          /\ dev[d].pc \in {"store", "save", "uncache", "ask"} => dev[d].read # None

ManagersOK ==
    /\ mgr \in [Managers -> ManagerSocket]
    /\ rest \in [Managers -> Call]
    /\ \A m \in Managers : /\ mgr[m].pc # "off" <=> mgr[m].chat # None
                           /\ rest[m].pc # "off" <=> rest[m].chat # None
                           /\ mgr[m].chat # None => chats[mgr[m].chat] # None
                           /\ rest[m].chat # None => chats[rest[m].chat] # None

StateOK == ChatsOK /\ SocketsOK /\ ManagersOK

-----------------------------------------------------------------------------
\* Chats are never forgotten.
Remembered == \A c \in ChatIds : chats[c] # None => chats'[c] # None

LEMMA ReadKept ==
    ASSUME Remembered, NEW r \in {None} \cup Read, Known(r)
    PROVE  r # None => chats'[r.id] # None
BY DEF Remembered, Known, Read

\* A socket may be put anywhere; only the four labels want a chat.
Fits(s) == /\ s \in Socket
           /\ s.read # None => chats'[s.read.id] # None
           /\ s.pc \in {"store", "save", "uncache", "ask"} => s.read # None

LEMMA SocketsFit ==
    ASSUME StateOK, Remembered, dev' = [e \in Devices |-> dev'[e]],
           \A e \in Devices : dev'[e] = dev[e] \/ Fits(dev'[e])
    PROVE  SocketsOK'
<1>1. \A e \in Devices : dev[e] \in Socket BY DEF StateOK, SocketsOK
<1>2. \A e \in Devices : dev'[e] \in Socket BY <1>1 DEF Fits
<1>3. dev' \in [Devices -> Socket] BY <1>2
<1>4. ASSUME NEW e \in Devices
      PROVE  /\ dev'[e].read # None => chats'[dev'[e].read.id] # None
             /\ dev'[e].pc \in {"store", "save", "uncache", "ask"} => dev'[e].read # None
  <2>1. CASE dev'[e] = dev[e]
    <3>1. dev[e].read \in {None} \cup Read /\ Known(dev[e].read)
      BY DEF StateOK, SocketsOK, Socket
    <3>2. dev[e].pc \in {"store", "save", "uncache", "ask"} => dev[e].read # None
      BY DEF StateOK, SocketsOK
    <3> QED BY <2>1, <3>1, <3>2, ReadKept
  <2>2. CASE Fits(dev'[e]) BY <2>2 DEF Fits
  <2> QED BY <2>1, <2>2
<1> QED BY <1>3, <1>4 DEF SocketsOK, Known

\* Only the sockets at one label may need their chat: another label fits.
LEMMA Relabel ==
    ASSUME StateOK, Remembered, NEW d \in Devices, NEW l \in SocketPCs,
           l \in {"store", "save", "uncache", "ask"} => dev[d].read # None
    PROVE  /\ Fits([dev[d] EXCEPT !.pc = l])
           /\ l \notin {"store", "save", "uncache", "ask"} =>
                Fits([dev[d] EXCEPT !.pc = l, !.text = None, !.read = None])
<1>1. dev[d] \in Socket /\ dev[d].read \in {None} \cup Read /\ Known(dev[d].read)
  BY DEF StateOK, SocketsOK, Socket
<1>2. dev[d].read # None => chats'[dev[d].read.id] # None
  BY <1>1, ReadKept
<1>3. Fits([dev[d] EXCEPT !.pc = l])
  BY <1>1, <1>2 DEF Fits, Socket
<1>4. ASSUME l \notin {"store", "save", "uncache", "ask"}
      PROVE  Fits([dev[d] EXCEPT !.pc = l, !.text = None, !.read = None])
  BY <1>1, <1>4 DEF Fits, Socket
<1> QED BY <1>3, <1>4

LEMMA OfflineFits == Fits(Offline)
BY DEF Fits, Offline, Socket, SocketPCs

\* The steps that say where a handler goes on.
LEMMA GoFits ==
    ASSUME StateOK, Remembered, NEW d \in Devices, NEW l \in SocketPCs, Go(d, l),
           l \in {"store", "save", "uncache", "ask"} => dev[d].read # None
    PROVE  SocketsOK'
<1>1. dev = [e \in Devices |-> dev[e]] BY DEF StateOK, SocketsOK
<1>2. dev' = [e \in Devices |-> dev'[e]] BY <1>1 DEF Go
<1>3. dev'[d] = IF l = "idle" THEN [dev[d] EXCEPT !.pc = l, !.text = None, !.read = None]
                              ELSE [dev[d] EXCEPT !.pc = l]
  BY <1>1 DEF Go
<1>4. \A e \in Devices \ {d} : dev'[e] = dev[e] BY <1>1 DEF Go
<1>5. Fits(dev'[d]) BY <1>3, Relabel
<1> QED BY <1>2, <1>4, <1>5, SocketsFit

LEMMA HangUpFits ==
    ASSUME StateOK, Remembered, NEW d \in Devices, HangUp(d)
    PROVE  SocketsOK'
<1>1. \A e \in Devices : dev[e] \in Socket /\ dev[e].read \in {None} \cup Read /\ Known(dev[e].read)
  BY DEF StateOK, SocketsOK, Socket
<1>2. ASSUME NEW e \in Devices, e # d
      PROVE  Fits([dev[e] EXCEPT !.missed = @ \ {d}])
  <2>1. dev[e].read # None => chats'[dev[e].read.id] # None BY <1>1, ReadKept
  <2>2. dev[e].pc \in {"store", "save", "uncache", "ask"} => dev[e].read # None
    BY DEF StateOK, SocketsOK
  <2> QED BY <1>1, <2>1, <2>2 DEF Fits, Socket
<1>3. \A e \in Devices : Fits(dev'[e]) BY <1>2, OfflineFits DEF HangUp
<1>4. dev' = [e \in Devices |-> dev'[e]] BY DEF HangUp
<1> QED BY <1>3, <1>4, SocketsFit

LEMMA OvertakenFits ==
    ASSUME StateOK, Remembered, NEW e \in Devices
    PROVE  Fits(Overtaken[e]) /\ Fits(dev[e])
<1>1. /\ dev[e] \in Socket /\ dev[e].read \in {None} \cup Read /\ Known(dev[e].read)
      /\ dev[e].pc \in {"store", "save", "uncache", "ask"} => dev[e].read # None
  BY DEF StateOK, SocketsOK, Socket
<1>2. dev[e].read # None => chats'[dev[e].read.id] # None BY <1>1, ReadKept
<1>3. Fits(dev[e]) BY <1>1, <1>2 DEF Fits
<1>4. Fits([dev[e] EXCEPT !.late = TRUE]) BY <1>1, <1>2 DEF Fits, Socket
<1> QED BY <1>3, <1>4 DEF Overtaken

LEMMA OnlyFits ==
    ASSUME StateOK, Remembered, NEW d \in Devices, dev' = [e \in Devices |-> dev'[e]],
           \A e \in Devices \ {d} : dev'[e] = dev[e], Fits(dev'[d])
    PROVE  SocketsOK'
BY SocketsFit

LEMMA SnapshotFits ==
    ASSUME ChatsOK, NEW c \in ChatIds, chats[c] # None
    PROVE  Snapshot(c) \in Read /\ Snapshot(c) # None /\ Snapshot(c).id = c
<1>1. chats[c] \in Row BY DEF ChatsOK
<1>2. Snapshot(c) \in Read /\ Snapshot(c).id = c BY <1>1 DEF Snapshot, Read, Row
<1> QED BY <1>2, SupportAssumption DEF SupportAssumption

LEMMA NewFits ==
    /\ NewRow \in Row /\ NewRow # None
    /\ \A c \in ChatIds : LET r == [id |-> c, manager |-> None, escalated |-> FALSE] IN
                            r \in Read /\ r # None
<1>1. NewRow \in Row BY DEF NewRow, Row
<1>2. \A c \in ChatIds : [id |-> c, manager |-> None, escalated |-> FALSE] \in Read BY DEF Read
<1> QED BY <1>1, <1>2, SupportAssumption DEF SupportAssumption

\* Nothing is written: the chats are as they were.
LEMMA Quiet ==
    ASSUME StateOK, UNCHANGED <<chats, userCache, chatCache>>
    PROVE  Remembered /\ ChatsOK'
<1>1. OpenChats' = OpenChats BY DEF OpenChats
<1> QED BY <1>1 DEF Remembered, StateOK, ChatsOK, Known

LEMMA QuietManagers ==
    ASSUME StateOK, Remembered, UNCHANGED <<mgr, rest>>
    PROVE  ManagersOK'
BY DEF Remembered, StateOK, ManagersOK, ManagerSocket, Call

\* A row is written: none is forgotten, none is opened again.
LEMMA Written ==
    ASSUME StateOK, NEW c \in ChatIds, NEW r \in Row, chats[c] # None,
           chats' = [chats EXCEPT ![c] = r], chats[c].closed => r.closed,
           userCache' \in {None, userCache}, chatCache' \subseteq ChatIds
    PROVE  Remembered /\ ChatsOK'
<1>1. chats \in [ChatIds -> {None} \cup Row] /\ chats[c] \in Row
  BY DEF StateOK, ChatsOK
<1>2. chats' \in [ChatIds -> {None} \cup Row] BY <1>1
<1>3. r # None BY SupportAssumption DEF SupportAssumption
<1>4. Remembered BY <1>1, <1>3 DEF Remembered
<1>5. \A a \in OpenChats' : a \in OpenChats
  BY <1>1, <1>3 DEF OpenChats, Row
<1>6. \A a, b \in OpenChats' : a = b BY <1>5 DEF StateOK, ChatsOK
<1>7. Known(userCache)' /\ userCache' \in {None} \cup Read
  BY <1>4, ReadKept DEF StateOK, ChatsOK, Known
<1> QED BY <1>2, <1>4, <1>6, <1>7 DEF ChatsOK

-----------------------------------------------------------------------------
(* The user's steps *)

LEMMA ConnectType == ASSUME StateOK, NEW d \in Devices, Connect(d) PROVE StateOK'
<1>1. Remembered /\ ChatsOK' /\ ManagersOK'
  BY Quiet, QuietManagers DEF Connect, chatVars, lockVars
<1>2. \A e \in Devices : /\ dev[e] \in Socket /\ Known(dev[e].read)
                         /\ dev[e].pc \in {"store", "save", "uncache", "ask"} => dev[e].read # None
  BY DEF StateOK, SocketsOK
<1>3. UNCHANGED chats BY DEF Connect, chatVars
<1>4. Fits([Offline EXCEPT !.pc = "chat"]) BY DEF Fits, Offline, Socket, SocketPCs
<1>5. ASSUME NEW e \in Devices
      PROVE  Fits(dev[e]) /\ Fits([dev[e] EXCEPT !.kicked = TRUE]) /\ Fits([dev[e] EXCEPT !.missed = @ \cup {d}])
  BY <1>2, <1>3 DEF Fits, Socket, Known
<1>6. \A e \in Devices : Fits(dev'[e]) BY <1>4, <1>5 DEF Connect
<1>7. dev' = [e \in Devices |-> dev'[e]] BY DEF Connect
<1>8. SocketsOK' BY <1>1, <1>6, <1>7, SocketsFit
<1> QED BY <1>1, <1>8 DEF StateOK

LEMMA SubscribeType == ASSUME StateOK, NEW d \in Devices, Subscribe(d) PROVE StateOK'
<1>1. Remembered /\ ChatsOK' /\ ManagersOK'
  BY Quiet, QuietManagers DEF Subscribe, chatVars, lockVars
<1>2. /\ dev = [e \in Devices |-> dev[e]] /\ dev[d] \in Socket /\ Known(dev[d].read)
      /\ dev[d].pc \in {"store", "save", "uncache", "ask"} => dev[d].read # None
  BY DEF StateOK, SocketsOK
<1>3. UNCHANGED chats BY DEF Subscribe, chatVars
<1>4. Fits([dev[d] EXCEPT !.listening = TRUE]) BY <1>2, <1>3 DEF Fits, Socket, Known
<1>5. /\ dev' = [e \in Devices |-> dev'[e]] /\ dev'[d] = [dev[d] EXCEPT !.listening = TRUE]
      /\ \A e \in Devices \ {d} : dev'[e] = dev[e]
  BY <1>2 DEF Subscribe
<1>6. SocketsOK' BY <1>1, <1>4, <1>5, OnlyFits
<1> QED BY <1>1, <1>6 DEF StateOK

LEMMA SendTextType == ASSUME StateOK, NEW d \in Devices, SendText(d) PROVE StateOK'
<1>1. Remembered /\ ChatsOK' /\ ManagersOK'
  BY Quiet, QuietManagers DEF SendText, chatVars, lockVars
<1>2. dev = [e \in Devices |-> dev[e]] /\ dev[d] \in Socket /\ Known(dev[d].read)
  BY DEF StateOK, SocketsOK
<1>3. UNCHANGED chats BY DEF SendText, chatVars
<1> PICK t \in {"plain", "operator"} :
        dev' = [dev EXCEPT ![d] = [@ EXCEPT !.pc = "muted?", !.text = t]]
  BY DEF SendText
<1>4. Fits([dev[d] EXCEPT !.pc = "muted?", !.text = t])
  BY <1>2, <1>3 DEF Fits, Socket, Known, SocketPCs
<1>5. /\ dev' = [e \in Devices |-> dev'[e]] /\ dev'[d] = [dev[d] EXCEPT !.pc = "muted?", !.text = t]
      /\ \A e \in Devices \ {d} : dev'[e] = dev[e]
  BY <1>2
<1>6. SocketsOK' BY <1>1, <1>4, <1>5, OnlyFits
<1> QED BY <1>1, <1>6 DEF StateOK

\* The antispam steps only choose where the handler goes on.
LEMMA AntispamType ==
    ASSUME StateOK, NEW d \in Devices,
           \/ CheckMute(d) \/ CountMessage(d) \/ ExpireRate(d) \/ CountViolation(d)
           \/ ExpireSpam(d) \/ Mute(d) \/ ForgetViolations(d)
    PROVE  StateOK'
<1>1. Remembered /\ ChatsOK' /\ ManagersOK'
  BY Quiet, QuietManagers
  DEF CheckMute, CountMessage, ExpireRate, CountViolation, ExpireSpam, Mute,
      ForgetViolations, chatVars, lockVars
<1> DEFINE L == {"idle", "count", "expireRate", "violation", "chat", "expireSpam", "mute", "forgive"}
<1>2. \E l \in L : Go(d, l)
  <2>1. CASE CheckMute(d) BY <2>1 DEF CheckMute
  <2>2. CASE CountMessage(d) BY <2>2 DEF CountMessage
  <2>3. CASE ExpireRate(d) BY <2>3 DEF ExpireRate
  <2>4. CASE CountViolation(d) BY <2>4 DEF CountViolation
  <2>5. CASE ExpireSpam(d) BY <2>5 DEF ExpireSpam
  <2>6. CASE Mute(d) BY <2>6 DEF Mute
  <2>7. CASE ForgetViolations(d) BY <2>7 DEF ForgetViolations
  <2> QED BY <2>1, <2>2, <2>3, <2>4, <2>5, <2>6, <2>7
<1>3. SocketsOK' BY <1>1, <1>2, GoFits DEF SocketPCs
<1> QED BY <1>1, <1>3 DEF StateOK

LEMMA ReadCacheType == ASSUME StateOK, NEW d \in Devices, ReadCache(d) PROVE StateOK'
<1>1. Remembered /\ ChatsOK' /\ ManagersOK'
  BY Quiet, QuietManagers DEF ReadCache, chatVars, lockVars
<1>2. dev = [e \in Devices |-> dev[e]] /\ dev[d] \in Socket BY DEF StateOK, SocketsOK
<1>3. userCache \in {None} \cup Read /\ Known(userCache) BY DEF StateOK, ChatsOK
<1>4. UNCHANGED chats BY DEF ReadCache, chatVars
<1> DEFINE t == dev[d].text
           x == [dev[d] EXCEPT !.late = FALSE, !.read = IF t = None THEN None ELSE userCache,
                               !.pc = IF userCache = None THEN "find" ELSE WithChat(d)]
<1>5. /\ dev' = [e \in Devices |-> dev'[e]] /\ dev'[d] = x
      /\ \A e \in Devices \ {d} : dev'[e] = dev[e]
  BY <1>2 DEF ReadCache
<1>6. Fits(x)
  <2>1. x \in Socket BY <1>2, <1>3 DEF Socket, SocketPCs, WithChat
  <2>2. x.read = (IF t = None THEN None ELSE userCache) /\ x.pc = (IF userCache = None THEN "find" ELSE WithChat(d))
    BY <1>2 DEF Socket
  <2>3. x.read # None => chats'[x.read.id] # None BY <1>3, <1>4, <2>2 DEF Known
  <2>4. x.pc \in {"store", "save", "uncache", "ask"} => x.read # None BY <2>2 DEF WithChat
  <2> QED BY <2>1, <2>3, <2>4 DEF Fits
<1>7. SocketsOK' BY <1>1, <1>5, <1>6, OnlyFits
<1> QED BY <1>1, <1>7 DEF StateOK

LEMMA FindChatType == ASSUME StateOK, NEW d \in Devices, FindChat(d) PROVE StateOK'
<1>1. Remembered /\ ChatsOK' /\ ManagersOK'
  BY Quiet, QuietManagers DEF FindChat, chatVars, lockVars
<1>2. dev = [e \in Devices |-> dev[e]] /\ dev[d] \in Socket BY DEF StateOK, SocketsOK
<1>3. ASSUME NEW c \in OpenChats, dev' = [dev EXCEPT ![d].read = Snapshot(c), ![d].pc = "store"]
      PROVE  SocketsOK'
  <2>1. c \in ChatIds /\ chats[c] # None BY DEF OpenChats
  <2>2. Snapshot(c) \in Read /\ Snapshot(c) # None /\ Snapshot(c).id = c
    BY <2>1, SnapshotFits DEF StateOK
  <2>3. Fits([dev[d] EXCEPT !.read = Snapshot(c), !.pc = "store"])
    BY <1>1, <1>2, <2>1, <2>2 DEF Fits, Socket, SocketPCs, Remembered
  <2>4. /\ dev' = [e \in Devices |-> dev'[e]]
        /\ dev'[d] = [dev[d] EXCEPT !.read = Snapshot(c), !.pc = "store"]
        /\ \A e \in Devices \ {d} : dev'[e] = dev[e]
    BY <1>2, <1>3
  <2> QED BY <1>1, <2>3, <2>4, OnlyFits
<1>4. ASSUME Go(d, "create") PROVE SocketsOK' BY <1>1, <1>4, GoFits DEF SocketPCs
<1>5. ASSUME HangUp(d) PROVE SocketsOK' BY <1>1, <1>5, HangUpFits
<1>6. SocketsOK' BY <1>3, <1>4, <1>5 DEF FindChat
<1> QED BY <1>1, <1>6 DEF StateOK

LEMMA CreateChatType == ASSUME StateOK, NEW d \in Devices, CreateChat(d) PROVE StateOK'
<1>1. CASE OpenChats # {}
  <2>1. HangUp(d) /\ UNCHANGED <<chats, userCache, chatCache, mgr, rest>>
    BY <1>1 DEF CreateChat, lockVars
  <2>2. Remembered /\ ChatsOK' /\ ManagersOK' BY <2>1, Quiet, QuietManagers
  <2> QED BY <2>1, <2>2, HangUpFits DEF StateOK
<1>2. CASE OpenChats = {}
  <2>1. PICK c \in ChatIds :
          /\ chats[c] = None /\ chats' = [chats EXCEPT ![c] = NewRow]
          /\ dev' = [dev EXCEPT ![d].read = [id |-> c, manager |-> None, escalated |-> FALSE],
                                ![d].pc = "store"]
    BY <1>2 DEF CreateChat
  <2>2. UNCHANGED <<userCache, chatCache, mgr, rest>> BY DEF CreateChat, lockVars
  <2>3. NewRow \in Row /\ NewRow # None
    BY NewFits
  <2>4. chats \in [ChatIds -> {None} \cup Row] BY DEF StateOK, ChatsOK
  <2>5. Remembered /\ chats' \in [ChatIds -> {None} \cup Row]
    BY <2>1, <2>3, <2>4 DEF Remembered
  <2>6. \A a \in OpenChats' : a = c
    BY <1>2, <2>1, <2>4 DEF OpenChats
  <2>7. Known(userCache)' BY <2>2, <2>5, ReadKept DEF StateOK, ChatsOK, Known
  <2>8. ChatsOK' BY <2>2, <2>5, <2>6, <2>7 DEF StateOK, ChatsOK
  <2>9. ManagersOK' BY <2>2, <2>5, QuietManagers
  <2> DEFINE r == [id |-> c, manager |-> None, escalated |-> FALSE]
  <2>10. r \in Read /\ r # None
    BY NewFits
  <2>11. dev = [e \in Devices |-> dev[e]] /\ dev[d] \in Socket BY DEF StateOK, SocketsOK
  <2>12. chats'[r.id] # None BY <2>1, <2>3, <2>4
  <2>13. Fits([dev[d] EXCEPT !.read = r, !.pc = "store"])
    <3> HIDE DEF r
    <3> QED BY <2>10, <2>11, <2>12 DEF Fits, Socket, SocketPCs
  <2>14. /\ dev' = [e \in Devices |-> dev'[e]]
         /\ dev'[d] = [dev[d] EXCEPT !.read = r, !.pc = "store"]
         /\ \A e \in Devices \ {d} : dev'[e] = dev[e]
    BY <2>1, <2>11
  <2>15. SocketsOK' BY <2>5, <2>13, <2>14, OnlyFits
  <2> QED BY <2>8, <2>9, <2>15 DEF StateOK
<1> QED BY <1>1, <1>2

LEMMA StoreCacheType == ASSUME StateOK, NEW d \in Devices, StoreCache(d) PROVE StateOK'
<1>1. UNCHANGED <<chats, chatCache, mgr, rest>> /\ userCache' = dev[d].read
  BY DEF StoreCache, lockVars
<1>2. dev[d].read \in {None} \cup Read /\ Known(dev[d].read) /\ dev[d].read # None
  BY DEF StateOK, SocketsOK, Socket, StoreCache
<1>3. Remembered BY <1>1 DEF Remembered
<1>4. OpenChats' = OpenChats BY <1>1 DEF OpenChats
<1>5. ChatsOK' BY <1>1, <1>2, <1>4 DEF StateOK, ChatsOK, Known
<1>6. ManagersOK' BY <1>1, <1>3, QuietManagers
<1>7. SocketsOK'
  BY <1>2, <1>3, GoFits DEF StoreCache, WithChat, SocketPCs
<1> QED BY <1>5, <1>6, <1>7 DEF StateOK

LEMMA SaveMessageType == ASSUME StateOK, NEW d \in Devices, SaveMessage(d) PROVE StateOK'
<1> DEFINE c == dev[d].read.id
           e == dev[d].text = "operator" /\ ~dev[d].read.escalated
           x == [dev[d] EXCEPT !.read.escalated = @ \/ e, !.pc = IF e THEN "uncache" ELSE "ask"]
<1>1. /\ dev = [f \in Devices |-> dev[f]] /\ dev[d] \in Socket
      /\ dev[d].read \in Read /\ dev[d].read # None /\ chats[c] # None
  BY DEF StateOK, SocketsOK, SaveMessage, Known, Socket
<1>2. c \in ChatIds BY <1>1 DEF Read
<1>3. chats[c] \in Row /\ chats \in [ChatIds -> {None} \cup Row]
  BY <1>1, <1>2 DEF StateOK, ChatsOK
<1>4. chats' = [chats EXCEPT ![c] = [chats[c] EXCEPT !.escalated = @ \/ e]]
  BY DEF SaveMessage
<1>5. [chats[c] EXCEPT !.escalated = @ \/ e] \in Row BY <1>3 DEF Row
<1>6. chats[c].closed => [chats[c] EXCEPT !.escalated = @ \/ e].closed BY <1>3 DEF Row
<1>7. UNCHANGED <<userCache, chatCache, mgr, rest>> BY DEF SaveMessage, lockVars
<1>8. chatCache \subseteq ChatIds BY DEF StateOK, ChatsOK
<1>9. Remembered /\ ChatsOK'
  BY <1>1, <1>2, <1>4, <1>5, <1>6, <1>7, <1>8, Written
<1>10. ManagersOK' BY <1>7, <1>9, QuietManagers
<1>11. /\ dev' = [f \in Devices |-> dev'[f]] /\ dev'[d] = x
       /\ \A f \in Devices \ {d} : dev'[f] = dev[f]
  BY <1>1 DEF SaveMessage
<1>12. Fits(x)
  <2>1. [dev[d].read EXCEPT !.escalated = @ \/ e] \in Read
    BY <1>1 DEF Read
  <2>2. x \in Socket BY <1>1, <2>1 DEF Socket, SocketPCs
  <2>3. x.read = [dev[d].read EXCEPT !.escalated = @ \/ e] BY <1>1 DEF Socket
  <2>4. x.read # None /\ x.read.id = c
    BY <1>1, <2>1, <2>3, SupportAssumption DEF Read, SupportAssumption
  <2>5. chats'[c] # None BY <1>1, <1>2, <1>9 DEF Remembered
  <2> QED BY <2>2, <2>4, <2>5 DEF Fits
<1>13. SocketsOK' BY <1>9, <1>11, <1>12, OnlyFits
<1> QED BY <1>9, <1>10, <1>13 DEF StateOK

\* The cached chat goes; the rows stay.
LEMMA Dropped ==
    ASSUME StateOK, userCache' \in {None, userCache}, UNCHANGED chats, chatCache' \subseteq ChatIds
    PROVE  Remembered /\ ChatsOK'
<1>1. OpenChats' = OpenChats BY DEF OpenChats
<1>2. Remembered BY DEF Remembered
<1> QED BY <1>1, <1>2 DEF StateOK, ChatsOK, Known

LEMMA OvertakenType ==
    ASSUME StateOK, Remembered, dev' = Overtaken PROVE SocketsOK'
<1>1. dev' = [e \in Devices |-> dev'[e]] BY DEF Overtaken
<1>2. \A e \in Devices : Fits(dev'[e]) BY OvertakenFits
<1> QED BY <1>1, <1>2, SocketsFit

LEMMA SameSockets ==
    ASSUME StateOK, Remembered, UNCHANGED dev PROVE SocketsOK'
<1>1. dev' = [e \in Devices |-> dev'[e]] BY DEF StateOK, SocketsOK
<1> QED BY <1>1, SocketsFit

LEMMA AnnounceTransferType ==
    ASSUME StateOK, NEW d \in Devices, AnnounceTransfer(d) PROVE StateOK'
<1>1. /\ userCache' = None /\ UNCHANGED <<chats, chatCache, mgr, rest>>
      /\ dev' = [Overtaken EXCEPT ![d].pc = "ask"] /\ dev[d].pc = "uncache"
  BY DEF AnnounceTransfer, DropUserCache, lockVars
<1>2. Remembered /\ ChatsOK' BY <1>1, Dropped DEF StateOK, ChatsOK
<1>3. ManagersOK' BY <1>1, <1>2, QuietManagers
<1>4. \A e \in Devices : Fits(Overtaken[e]) BY <1>2, OvertakenFits
<1>5. dev[d].read # None BY <1>1 DEF StateOK, SocketsOK
<1>6. Overtaken[d] = dev[d] /\ Overtaken = [e \in Devices |-> Overtaken[e]]
  BY <1>1 DEF Overtaken
<1>7. Fits([dev[d] EXCEPT !.pc = "ask"]) BY <1>2, <1>5, Relabel DEF SocketPCs
<1>8. \A e \in Devices : Fits(dev'[e]) BY <1>1, <1>4, <1>6, <1>7
<1>9. dev' = [e \in Devices |-> dev'[e]] BY <1>1, <1>6
<1>10. SocketsOK' BY <1>2, <1>8, <1>9, SocketsFit
<1> QED BY <1>2, <1>3, <1>10 DEF StateOK

LEMMA AskBotType == ASSUME StateOK, NEW d \in Devices, AskBot(d) PROVE StateOK'
<1>1. Remembered /\ ChatsOK' /\ ManagersOK'
  BY Quiet, QuietManagers DEF AskBot, chatVars, lockVars
<1>2. SocketsOK' BY <1>1, GoFits DEF AskBot, SocketPCs
<1> QED BY <1>1, <1>2 DEF StateOK

LEMMA CloseByUserType == ASSUME StateOK, NEW d \in Devices, CloseByUser(d) PROVE StateOK'
<1>1. UNCHANGED <<userCache, chatCache, mgr, rest>> BY DEF CloseByUser, lockVars
<1>2. CASE Go(d, "uncacheBoth") /\ UNCHANGED chats
  <2>1. Remembered /\ ChatsOK' /\ ManagersOK' BY <1>1, <1>2, Quiet, QuietManagers
  <2>2. SocketsOK' BY <1>2, <2>1, GoFits DEF SocketPCs
  <2> QED BY <2>1, <2>2 DEF StateOK
<1>3. ASSUME NEW c \in OpenChats, chats' = [chats EXCEPT ![c].closed = TRUE],
             dev' = [dev EXCEPT ![d].pc = "uncacheBoth", ![d].read = Snapshot(c)]
      PROVE  StateOK'
  <2>1. c \in ChatIds /\ chats[c] # None BY DEF OpenChats
  <2>2. chats[c] \in Row /\ chatCache \subseteq ChatIds BY <2>1 DEF StateOK, ChatsOK
  <2>3. [chats[c] EXCEPT !.closed = TRUE] \in Row /\ [chats[c] EXCEPT !.closed = TRUE].closed
    BY <2>2 DEF Row
  <2>4. Remembered /\ ChatsOK' BY <1>1, <1>3, <2>1, <2>2, <2>3, Written
  <2>5. ManagersOK' BY <1>1, <2>4, QuietManagers
  <2>6. dev = [e \in Devices |-> dev[e]] /\ dev[d] \in Socket BY DEF StateOK, SocketsOK
  <2>7. Snapshot(c) \in Read /\ Snapshot(c) # None /\ Snapshot(c).id = c
    BY <2>1, SnapshotFits DEF StateOK
  <2>8. Fits([dev[d] EXCEPT !.pc = "uncacheBoth", !.read = Snapshot(c)])
    BY <2>1, <2>4, <2>6, <2>7 DEF Fits, Socket, SocketPCs, Remembered
  <2>9. /\ dev' = [e \in Devices |-> dev'[e]]
        /\ dev'[d] = [dev[d] EXCEPT !.pc = "uncacheBoth", !.read = Snapshot(c)]
        /\ \A e \in Devices \ {d} : dev'[e] = dev[e]
    BY <1>3, <2>6
  <2>10. SocketsOK' BY <2>4, <2>8, <2>9, OnlyFits
  <2> QED BY <2>4, <2>5, <2>10 DEF StateOK
<1> QED BY <1>2, <1>3 DEF CloseByUser

\* Another socket's missed announcements do not matter to where it stands.
LEMMA MissedFits ==
    ASSUME NEW s, Fits(s), NEW M \in SUBSET Devices PROVE Fits([s EXCEPT !.missed = M])
BY DEF Fits, Socket

LEMMA LeaveType ==
    ASSUME StateOK, Remembered, NEW d \in Devices,
           dev' = [e \in Devices |-> dev'[e]],
           \A e \in Devices : \/ dev'[e] = Offline
                              \/ dev'[e] = [dev[e] EXCEPT !.missed = @ \ {d}]
                              \/ dev'[e] = [Overtaken[e] EXCEPT !.missed = @ \ {d}]
    PROVE  SocketsOK'
<1>1. \A e \in Devices : Fits(dev[e]) /\ Fits(Overtaken[e]) BY OvertakenFits
<1>2. \A e \in Devices : dev[e].missed \ {d} \in SUBSET Devices /\ Overtaken[e].missed \ {d} \in SUBSET Devices
  BY <1>1 DEF Fits, Socket
<1>3. ASSUME NEW e \in Devices
      PROVE  Fits([dev[e] EXCEPT !.missed = @ \ {d}]) /\ Fits([Overtaken[e] EXCEPT !.missed = @ \ {d}])
  BY <1>1, <1>2, MissedFits
<1>4. \A e \in Devices : Fits(dev'[e]) BY <1>3, OfflineFits
<1> QED BY <1>4, SocketsFit

LEMMA FinishCloseType == ASSUME StateOK, NEW d \in Devices, FinishClose(d) PROVE StateOK'
<1>1. userCache' = None /\ chatCache' \subseteq chatCache /\ UNCHANGED <<chats, mgr, rest>>
  BY DEF FinishClose, DropUserCache, lockVars
<1>2. Remembered /\ ChatsOK' BY <1>1, Dropped DEF StateOK, ChatsOK
<1>3. ManagersOK' BY <1>1, <1>2, QuietManagers
<1>4. SocketsOK' BY <1>2, LeaveType DEF FinishClose
<1> QED BY <1>2, <1>3, <1>4 DEF StateOK

LEMMA CrashType == ASSUME StateOK, NEW d \in Devices, Crash(d) PROVE StateOK'
<1>1. Remembered /\ ChatsOK' /\ ManagersOK'
  BY Quiet, QuietManagers DEF Crash, lockVars
<1>2. dev' = [e \in Devices |-> dev'[e]] BY DEF Crash
<1>3. ASSUME NEW e \in Devices
      PROVE  \/ dev'[e] = Offline
             \/ dev'[e] = [dev[e] EXCEPT !.missed = @ \ {d}]
             \/ dev'[e] = [Overtaken[e] EXCEPT !.missed = @ \ {d}]
  BY DEF Crash
<1>4. SocketsOK' BY <1>1, <1>2, <1>3, LeaveType
<1> QED BY <1>1, <1>4 DEF StateOK

LEMMA KeyLapsesType == ASSUME StateOK, KeyLapses PROVE StateOK'
<1>1. userCache' \in {None, userCache} /\ UNCHANGED <<chats, mgr, rest, dev>>
  BY DEF KeyLapses, DropUserCache, lockVars
<1>2. chatCache' \subseteq chatCache BY DEF KeyLapses
<1>3. Remembered /\ ChatsOK' BY <1>1, <1>2, Dropped DEF StateOK, ChatsOK
<1> QED BY <1>1, <1>3, QuietManagers, SameSockets DEF StateOK

-----------------------------------------------------------------------------
(* The managers' steps *)

LEMMA GoManager ==
    ASSUME StateOK, Remembered, NEW m \in Managers, NEW l \in ManagerPCs \ {"off"},
           mgr[m].pc # "off", GoM(m, l), UNCHANGED rest
    PROVE  ManagersOK'
<1>1. /\ mgr \in [Managers -> ManagerSocket] /\ rest \in [Managers -> Call]
      /\ mgr[m] \in ManagerSocket
  BY DEF StateOK, ManagersOK
<1>2. /\ mgr' \in [Managers -> ManagerSocket]
      /\ mgr'[m].pc = l /\ mgr'[m].chat = mgr[m].chat
      /\ \A n \in Managers \ {m} : mgr'[n] = mgr[n]
  BY <1>1 DEF GoM, ManagerSocket
<1> QED BY <1>1, <1>2 DEF StateOK, ManagersOK, Remembered, ManagerSocket, Call

LEMMA Detach ==
    ASSUME StateOK, Remembered, NEW m \in Managers,
           mgr' = [mgr EXCEPT ![m] = Detached], UNCHANGED rest
    PROVE  ManagersOK'
<1>1. mgr \in [Managers -> ManagerSocket] /\ rest \in [Managers -> Call]
  BY DEF StateOK, ManagersOK
<1>2. Detached \in ManagerSocket /\ Detached.pc = "off" /\ Detached.chat = None
  BY DEF Detached, ManagerSocket, ManagerPCs
<1>3. /\ mgr' \in [Managers -> ManagerSocket] /\ mgr'[m] = Detached
      /\ \A n \in Managers \ {m} : mgr'[n] = mgr[n]
  BY <1>1, <1>2
<1> QED BY <1>1, <1>2, <1>3 DEF StateOK, ManagersOK, Remembered, ManagerSocket, Call

LEMMA GoCall ==
    ASSUME StateOK, Remembered, NEW m \in Managers, NEW l \in CallPCs \ {"off"},
           NEW c \in ChatIds, chats[c] # None, GoR(m, l, c), UNCHANGED mgr
    PROVE  ManagersOK'
<1>1. mgr \in [Managers -> ManagerSocket] /\ rest \in [Managers -> Call]
  BY DEF StateOK, ManagersOK
<1>2. /\ rest' \in [Managers -> Call] /\ rest'[m] = [pc |-> l, chat |-> c]
      /\ \A n \in Managers \ {m} : rest'[n] = rest[n]
  BY <1>1 DEF GoR, Call
<1>3. c # None BY SupportAssumption DEF SupportAssumption
<1> QED BY <1>1, <1>2, <1>3 DEF StateOK, ManagersOK, Remembered, ManagerSocket, Call

LEMMA EndCall ==
    ASSUME StateOK, Remembered, NEW m \in Managers, GoR(m, "off", None), UNCHANGED mgr
    PROVE  ManagersOK'
<1>1. mgr \in [Managers -> ManagerSocket] /\ rest \in [Managers -> Call]
  BY DEF StateOK, ManagersOK
<1>2. /\ rest' \in [Managers -> Call] /\ rest'[m] = [pc |-> "off", chat |-> None]
      /\ \A n \in Managers \ {m} : rest'[n] = rest[n]
  BY <1>1 DEF GoR, Call, CallPCs
<1> QED BY <1>1, <1>2 DEF StateOK, ManagersOK, Remembered, ManagerSocket, Call

\* Where a manager is busy, there is a chat.
LEMMA BusyChat ==
    ASSUME StateOK, NEW m \in Managers
    PROVE  /\ mgr[m].pc # "off" => mgr[m].chat \in ChatIds /\ chats[mgr[m].chat] \in Row
           /\ rest[m].pc # "off" => rest[m].chat \in ChatIds /\ chats[rest[m].chat] \in Row
BY DEF StateOK, ManagersOK, ChatsOK, ManagerSocket, Call

\* The three writes of a manager.
LEMMA RowWrites ==
    ASSUME StateOK, NEW c \in ChatIds, chats[c] # None, UNCHANGED <<userCache, chatCache>>,
           \/ \E m \in Managers \cup {None} : chats' = [chats EXCEPT ![c].manager = m]
           \/ chats' = [chats EXCEPT ![c].closed = TRUE]
    PROVE  Remembered /\ ChatsOK'
<1>1. chats[c] \in Row /\ chatCache \subseteq ChatIds BY DEF StateOK, ChatsOK
<1>2. CASE chats' = [chats EXCEPT ![c].closed = TRUE]
  <2>1. [chats[c] EXCEPT !.closed = TRUE] \in Row /\ [chats[c] EXCEPT !.closed = TRUE].closed
    BY <1>1 DEF Row
  <2> QED BY <1>1, <1>2, <2>1, Written
<1>3. ASSUME NEW m \in Managers \cup {None}, chats' = [chats EXCEPT ![c].manager = m]
      PROVE  Remembered /\ ChatsOK'
  <2>1. [chats[c] EXCEPT !.manager = m] \in Row /\ [chats[c] EXCEPT !.manager = m].closed = chats[c].closed
    BY <1>1 DEF Row
  <2> QED BY <1>1, <1>3, <2>1, Written
<1> QED BY <1>2, <1>3

LEMMA OpenSocketType ==
    ASSUME StateOK, NEW m \in Managers, NEW c \in ChatIds, OpenSocket(m, c) PROVE StateOK'
<1>1. Remembered /\ ChatsOK' BY Quiet DEF OpenSocket, chatVars
<1>2. SocketsOK' BY <1>1, SameSockets DEF OpenSocket
<1>3. mgr \in [Managers -> ManagerSocket] /\ rest \in [Managers -> Call] BY DEF StateOK, ManagersOK
<1>4. /\ mgr' = [mgr EXCEPT ![m] = [pc |-> "assign", chat |-> c]] /\ UNCHANGED <<rest, chats>>
      /\ chats[c] # None /\ c # None
  BY SupportAssumption DEF OpenSocket, chatVars, SupportAssumption
<1>5. /\ mgr' \in [Managers -> ManagerSocket] /\ mgr'[m] = [pc |-> "assign", chat |-> c]
      /\ \A n \in Managers \ {m} : mgr'[n] = mgr[n]
  BY <1>3, <1>4 DEF ManagerSocket, ManagerPCs
<1>6. ManagersOK' BY <1>3, <1>4, <1>5 DEF StateOK, ManagersOK
<1> QED BY <1>1, <1>2, <1>6 DEF StateOK

LEMMA ReadForAssignType ==
    ASSUME StateOK, NEW m \in Managers, ReadForAssign(m) PROVE StateOK'
<1>1. Remembered /\ ChatsOK' BY Quiet DEF ReadForAssign, chatVars
<1>2. SocketsOK' BY <1>1, SameSockets DEF ReadForAssign
<1>3. \E l \in {"commitAssign", "loop", "release"} : GoM(m, l) BY DEF ReadForAssign
<1>4. mgr[m].pc # "off" /\ UNCHANGED rest BY DEF ReadForAssign
<1>5. ManagersOK' BY <1>1, <1>3, <1>4, GoManager DEF ManagerPCs
<1> QED BY <1>1, <1>2, <1>5 DEF StateOK

LEMMA CommitAssignType ==
    ASSUME StateOK, NEW m \in Managers, CommitAssign(m) PROVE StateOK'
<1>1. mgr[m].pc # "off" /\ UNCHANGED <<rest, dev>> /\ GoM(m, "uncacheAssign")
  BY DEF CommitAssign
<1>2. mgr[m].chat \in ChatIds /\ chats[mgr[m].chat] # None
  BY <1>1, BusyChat, SupportAssumption DEF SupportAssumption
<1>3. Remembered /\ ChatsOK' BY <1>2, RowWrites DEF CommitAssign
<1>4. SocketsOK' BY <1>1, <1>3, SameSockets
<1>5. ManagersOK' BY <1>1, <1>3, GoManager DEF ManagerPCs
<1> QED BY <1>3, <1>4, <1>5 DEF StateOK

LEMMA UncacheType ==
    ASSUME StateOK, NEW m \in Managers, UncacheAssign(m) \/ UncacheLeave(m) \/ UncacheClose(m)
    PROVE  StateOK'
<1>1. /\ userCache' = None /\ dev' = Overtaken /\ UNCHANGED <<chats, rest>>
      /\ chatCache' \subseteq chatCache
      /\ mgr[m].pc # "off"
  BY DEF UncacheAssign, UncacheLeave, UncacheClose, DropUserCache
<1>2. \E l \in {"loop", "release"} : GoM(m, l)
  BY DEF UncacheAssign, UncacheLeave, UncacheClose
<1>3. Remembered /\ ChatsOK' BY <1>1, Dropped DEF StateOK, ChatsOK
<1>4. SocketsOK' BY <1>1, <1>3, OvertakenType
<1>5. ManagersOK' BY <1>1, <1>2, <1>3, GoManager DEF ManagerPCs
<1> QED BY <1>3, <1>4, <1>5 DEF StateOK

LEMMA ManagerTextType ==
    ASSUME StateOK, NEW m \in Managers, ManagerText(m) \/ CacheChat(m) PROVE StateOK'
<1>1. /\ mgr[m].pc # "off" /\ UNCHANGED <<chats, userCache, rest, dev>>
      /\ \E l \in {"cacheChat", "release", "loop"} : GoM(m, l)
      /\ chatCache' \in {chatCache, chatCache \cup {mgr[m].chat}}
  BY DEF ManagerText, CacheChat, chatVars
<1>2. Remembered /\ ChatsOK' BY <1>1, BusyChat, Dropped DEF StateOK, ChatsOK
<1>3. SocketsOK' BY <1>1, <1>2, SameSockets
<1>4. ManagersOK' BY <1>1, <1>2, GoManager DEF ManagerPCs
<1> QED BY <1>2, <1>3, <1>4 DEF StateOK

LEMMA LeaveChatType ==
    ASSUME StateOK, NEW m \in Managers, LeaveChat(m) PROVE StateOK'
<1>1. mgr[m].pc # "off" /\ UNCHANGED <<userCache, chatCache, rest, dev>> BY DEF LeaveChat
<1>2. mgr[m].chat \in ChatIds /\ chats[mgr[m].chat] # None
  BY <1>1, BusyChat, SupportAssumption DEF SupportAssumption
<1>3. \/ chats' = [chats EXCEPT ![mgr[m].chat].manager = None]
      \/ UNCHANGED chats
  BY DEF LeaveChat
<1>4. \E l \in {"uncacheLeave", "release"} : GoM(m, l) BY DEF LeaveChat
<1>5. Remembered /\ ChatsOK' BY <1>1, <1>2, <1>3, RowWrites, Quiet
<1>6. SocketsOK' BY <1>1, <1>5, SameSockets
<1>7. ManagersOK' BY <1>1, <1>4, <1>5, GoManager DEF ManagerPCs
<1> QED BY <1>5, <1>6, <1>7 DEF StateOK

LEMMA CloseByManagerType ==
    ASSUME StateOK, NEW m \in Managers, CloseByManager(m) PROVE StateOK'
<1>1. mgr[m].pc # "off" /\ UNCHANGED <<userCache, rest, dev>> BY DEF CloseByManager
<1>2. mgr[m].chat \in ChatIds /\ chats[mgr[m].chat] # None
  BY <1>1, BusyChat, SupportAssumption DEF SupportAssumption
<1>3. \/ chats' = [chats EXCEPT ![mgr[m].chat].closed = TRUE] /\ UNCHANGED chatCache
      \/ UNCHANGED chats /\ chatCache' \subseteq chatCache
  BY DEF CloseByManager
<1>4. \E l \in {"uncacheClose", "release"} : GoM(m, l) BY DEF CloseByManager
<1>5. Remembered /\ ChatsOK'
  BY <1>1, <1>2, <1>3, RowWrites, Dropped DEF StateOK, ChatsOK
<1>6. SocketsOK' BY <1>1, <1>5, SameSockets
<1>7. ManagersOK' BY <1>1, <1>4, <1>5, GoManager DEF ManagerPCs
<1> QED BY <1>5, <1>6, <1>7 DEF StateOK

LEMMA ReleaseType ==
    ASSUME StateOK, NEW m \in Managers, LoseManager(m) \/ ReadLock(m) \/ Unlock(m)
    PROVE  StateOK'
<1>1. UNCHANGED <<chats, userCache, chatCache, rest, dev>> /\ mgr[m].pc # "off"
  BY DEF LoseManager, ReadLock, Unlock, chatVars
<1>2. \/ \E l \in {"release", "unlock"} : GoM(m, l)
      \/ mgr' = [mgr EXCEPT ![m] = Detached]
  BY DEF LoseManager, ReadLock, Unlock
<1>3. Remembered /\ ChatsOK' BY <1>1, Quiet
<1>4. SocketsOK' BY <1>1, <1>3, SameSockets
<1>5. ManagersOK' BY <1>1, <1>2, <1>3, GoManager, Detach DEF ManagerPCs
<1> QED BY <1>3, <1>4, <1>5 DEF StateOK

LEMMA CrashManagerType ==
    ASSUME StateOK, NEW m \in Managers, CrashManager(m) PROVE StateOK'
<1>1. /\ UNCHANGED <<chats, userCache, chatCache, rest>> /\ mgr' = [mgr EXCEPT ![m] = Detached]
      /\ dev' = Overtaken \/ UNCHANGED dev
  BY DEF CrashManager
<1>2. Remembered /\ ChatsOK' BY <1>1, Quiet
<1>3. SocketsOK' BY <1>1, <1>2, SameSockets, OvertakenType
<1>4. ManagersOK' BY <1>1, <1>2, Detach
<1> QED BY <1>2, <1>3, <1>4 DEF StateOK

LEMMA RestAssignType ==
    ASSUME StateOK, NEW m \in Managers, NEW c \in ChatIds, RestAssign(m, c) PROVE StateOK'
<1>1. /\ UNCHANGED <<chats, userCache, chatCache, mgr, dev>> /\ GoR(m, "commit", c)
      /\ chats[c] # None
  BY DEF RestAssign, chatVars, lockVars, IsOpen
<1>2. Remembered /\ ChatsOK' BY <1>1, Quiet
<1>3. ManagersOK' BY <1>1, <1>2, GoCall DEF CallPCs
<1> QED BY <1>1, <1>2, <1>3, SameSockets DEF StateOK

LEMMA RestCommitType ==
    ASSUME StateOK, NEW m \in Managers, RestCommit(m) PROVE StateOK'
<1>1. rest[m].pc # "off" /\ UNCHANGED <<mgr, dev>> /\ GoR(m, "uncache", rest[m].chat)
  BY DEF RestCommit, lockVars
<1>2. rest[m].chat \in ChatIds /\ chats[rest[m].chat] # None
  BY <1>1, BusyChat, SupportAssumption DEF SupportAssumption
<1>3. Remembered /\ ChatsOK' BY <1>2, RowWrites DEF RestCommit
<1>4. ManagersOK' BY <1>1, <1>2, <1>3, GoCall DEF CallPCs
<1> QED BY <1>1, <1>3, <1>4, SameSockets DEF StateOK

LEMMA RestCloseType ==
    ASSUME StateOK, NEW m \in Managers, NEW c \in ChatIds, RestClose(m, c) PROVE StateOK'
<1>1. chats[c] # None /\ UNCHANGED <<mgr, dev>> /\ GoR(m, "uncacheBoth", c)
  BY DEF RestClose, lockVars, IsOpen
<1>2. Remembered /\ ChatsOK' BY <1>1, RowWrites DEF RestClose
<1>3. ManagersOK' BY <1>1, <1>2, GoCall DEF CallPCs
<1> QED BY <1>1, <1>2, <1>3, SameSockets DEF StateOK

LEMMA RestUncacheType ==
    ASSUME StateOK, NEW m \in Managers, RestUncache(m) PROVE StateOK'
<1>1. /\ userCache' = None /\ dev' = Overtaken /\ UNCHANGED <<chats, mgr>>
      /\ chatCache' \subseteq chatCache /\ GoR(m, "off", None)
  BY DEF RestUncache, DropUserCache, lockVars
<1>2. Remembered /\ ChatsOK' BY <1>1, Dropped DEF StateOK, ChatsOK
<1> QED BY <1>1, <1>2, OvertakenType, EndCall DEF StateOK

LEMMA BackgroundType ==
    ASSUME StateOK, BotStep \/ (\E c \in ChatIds : LockLapses(c)) \/ UNCHANGED supportVars
    PROVE  StateOK'
<1>1. UNCHANGED <<chats, userCache, chatCache, mgr, rest, dev>>
  BY DEF BotStep, TakeQuestion, Answer, Acknowledge, CrashConsumer, LockLapses,
         supportVars, chatVars, lockVars
<1>2. Remembered /\ ChatsOK' BY <1>1, Quiet
<1> QED BY <1>1, <1>2, SameSockets, QuietManagers DEF StateOK

LEMMA DisconnectType == ASSUME StateOK, NEW d \in Devices, Disconnect(d) PROVE StateOK'
<1>1. Remembered /\ ChatsOK' /\ ManagersOK'
  BY Quiet, QuietManagers DEF Disconnect, chatVars, lockVars
<1>2. SocketsOK' BY <1>1, HangUpFits DEF Disconnect
<1> QED BY <1>1, <1>2 DEF StateOK

LEMMA StateKept == ASSUME StateOK, [SupportNext]_supportVars PROVE StateOK'
<1>1. ASSUME NEW d \in Devices, UserStep(d) PROVE StateOK'
  BY <1>1, ConnectType, SubscribeType, DisconnectType, SendTextType, AntispamType,
     ReadCacheType, FindChatType, CreateChatType, StoreCacheType, SaveMessageType,
     AnnounceTransferType, AskBotType, CloseByUserType, FinishCloseType, CrashType
  DEF UserStep
<1>2. ASSUME NEW m \in Managers, ManagerStep(m) PROVE StateOK'
  BY <1>2, OpenSocketType, ReadForAssignType, CommitAssignType, UncacheType, ManagerTextType,
     LeaveChatType, CloseByManagerType, ReleaseType, CrashManagerType, RestAssignType,
     RestCommitType, RestCloseType, RestUncacheType
  DEF ManagerStep
<1> QED BY <1>1, <1>2, KeyLapsesType, BackgroundType DEF SupportNext

-----------------------------------------------------------------------------
(* The cached chat *)

Busy == {"uncache", "uncacheBoth"}
BusyManager == {"uncacheAssign", "uncacheLeave", "uncacheClose"}

\* Some handler has changed the row and still has to drop the cached chat.
Pending ==
    \/ \E d \in Devices : dev[d].pc \in Busy
    \/ \E m \in Managers : mgr[m].pc \in BusyManager \/ rest[m].pc \in Busy

Matches(r) == r \in Read /\ IsOpen(r.id) /\ r = Snapshot(r.id)

\* What is cached, and what a reader that was not overtaken is about to cache,
\* is the row as it stands, or the handler that changed it drops it yet.
CacheInv ==
    /\ StateOK
    /\ userCache # None /\ ~excused => Matches(userCache) \/ Pending
    /\ \A d \in Devices :
          dev[d].pc = "store" /\ ~dev[d].late => Matches(dev[d].read) \/ Pending

\* A handler that has just changed a row covers everything.
LEMMA Covered == ASSUME StateOK', Pending' PROVE CacheInv'
BY DEF CacheInv

\* So does the one that drops the cached chat, or dies instead: whoever has read
\* the row before is late.
LEMMA Cleared ==
    ASSUME StateOK', userCache' = None \/ excused',
           \A d \in Devices : dev'[d].pc = "store" => dev'[d].late
    PROVE  CacheInv'
BY DEF CacheInv

Stays(d) == /\ dev'[d].pc = dev[d].pc /\ dev'[d].late = dev[d].late
            /\ dev'[d].read = dev[d].read
Passes(d) == /\ dev[d].pc \notin Busy
             /\ dev'[d].pc = "store" => Matches(dev[d].read)'
PendingManagersStay ==
    \A m \in Managers : /\ mgr[m].pc \in BusyManager => mgr'[m].pc = mgr[m].pc
                        /\ rest[m].pc \in Busy => rest'[m].pc = rest[m].pc
RowsStay == \A c \in ChatIds : chats[c] # None => chats'[c] = chats[c]

LEMMA StillMatches ==
    ASSUME RowsStay, NEW r, Matches(r)
    PROVE  r \in Read /\ IsOpen(r.id)' /\ r = Snapshot(r.id)'
<1>1. r.id \in ChatIds /\ chats[r.id] # None BY DEF Matches, IsOpen, Read
<1>2. chats'[r.id] = chats[r.id] BY <1>1 DEF RowsStay
<1> QED BY <1>1, <1>2 DEF Matches, IsOpen, Snapshot

LEMMA StillPending ==
    ASSUME \A d \in Devices : Stays(d) \/ Passes(d), PendingManagersStay, Pending
    PROVE  Pending'
BY DEF Stays, Passes, PendingManagersStay, Pending

\* Any other step leaves the rows that exist alone.
LEMMA Untouched ==
    ASSUME CacheInv, StateOK', RowsStay, PendingManagersStay,
           \/ UNCHANGED <<userCache, excused>>
           \/ userCache' = None
           \/ Matches(userCache)' \/ Pending \/ excused',
           \A d \in Devices : Stays(d) \/ Passes(d)
    PROVE  CacheInv'
<1>1. Pending => Pending' BY StillPending
<1>2. \A r : Matches(r) => r \in Read /\ IsOpen(r.id)' /\ r = Snapshot(r.id)'
  BY StillMatches
<1>3. ASSUME userCache' # None /\ ~excused' PROVE Matches(userCache)' \/ Pending'
  BY <1>1, <1>2, <1>3 DEF CacheInv, Matches
<1>4. ASSUME NEW d \in Devices, dev'[d].pc = "store" /\ ~dev'[d].late
      PROVE  Matches(dev[d].read)' \/ Pending'
  <2>1. CASE Passes(d) BY <2>1, <1>4 DEF Passes
  <2>2. CASE Stays(d)
    <3>1. Matches(dev[d].read) \/ Pending BY <2>2, <1>4 DEF Stays, CacheInv
    <3> QED BY <2>2, <3>1, <1>1, <1>2 DEF Stays, Matches
  <2> QED BY <2>1, <2>2
<1> QED BY <1>3, <1>4 DEF CacheInv

LEMMA GoPasses ==
    ASSUME StateOK, NEW d \in Devices, NEW l \in SocketPCs, Go(d, l)
    PROVE  /\ dev'[d].pc = l
           /\ \A e \in Devices \ {d} : dev'[e] = dev[e]
           /\ (l # "store" /\ dev[d].pc \notin Busy) => \A e \in Devices : Stays(e) \/ Passes(e)
<1>1. dev = [e \in Devices |-> dev[e]] /\ dev[d] \in Socket BY DEF StateOK, SocketsOK
<1>2. dev'[d] = IF l = "idle" THEN [dev[d] EXCEPT !.pc = l, !.text = None, !.read = None]
                              ELSE [dev[d] EXCEPT !.pc = l]
  BY <1>1 DEF Go
<1>3. dev'[d].pc = l BY <1>1, <1>2 DEF Socket
<1>4. \A e \in Devices \ {d} : dev'[e] = dev[e] BY <1>1 DEF Go
<1> QED BY <1>3, <1>4 DEF Stays, Passes

LEMMA HangUpPasses ==
    ASSUME StateOK, NEW d \in Devices, HangUp(d), dev[d].pc \notin Busy
    PROVE  \A e \in Devices : Stays(e) \/ Passes(e)
<1>1. \A e \in Devices : dev[e] \in Socket BY DEF StateOK, SocketsOK
<1>2. Offline.pc = "off" BY DEF Offline
<1>3. \A e \in Devices \ {d} : Stays(e) BY <1>1 DEF HangUp, Stays, Socket
<1>4. Passes(d) BY <1>2 DEF HangUp, Passes
<1> QED BY <1>3, <1>4

\* Steps that write nothing: only where the handlers stand changes.
LEMMA Silent ==
    ASSUME CacheInv, StateOK', UNCHANGED <<chats, userCache, excused, mgr, rest>>,
           \A e \in Devices : Stays(e) \/ Passes(e)
    PROVE  CacheInv'
BY Untouched DEF RowsStay, PendingManagersStay

LEMMA ConnectCache ==
    ASSUME CacheInv, NEW d \in Devices, Connect(d) \/ Subscribe(d) \/ Disconnect(d) \/ SendText(d)
    PROVE  CacheInv'
<1>1. StateOK /\ StateOK' BY ConnectType, SubscribeType, DisconnectType, SendTextType DEF CacheInv
<1>2. dev = [e \in Devices |-> dev[e]] /\ \A e \in Devices : dev[e] \in Socket
  BY <1>1 DEF StateOK, SocketsOK
<1>3. UNCHANGED <<chats, userCache, excused, mgr, rest>>
  BY DEF Connect, Subscribe, Disconnect, SendText, chatVars, lockVars
<1>4. ASSUME Connect(d), NEW e \in Devices PROVE Stays(e) \/ Passes(e)
  <2>1. e # d => Stays(e) BY <1>2, <1>4 DEF Connect, Stays, Socket
  <2>2. [Offline EXCEPT !.pc = "chat"].pc = "chat" BY DEF Offline
  <2>3. dev'[d] = [Offline EXCEPT !.pc = "chat"] /\ dev[d].pc = "off" BY <1>4 DEF Connect
  <2>4. Passes(d) BY <2>2, <2>3 DEF Passes, Busy
  <2> QED BY <2>1, <2>4
<1>5. ASSUME Subscribe(d), NEW e \in Devices PROVE Stays(e) \/ Passes(e)
  BY <1>2, <1>5 DEF Subscribe, Stays, Socket
<1>6. ASSUME Disconnect(d), NEW e \in Devices PROVE Stays(e) \/ Passes(e)
  BY <1>1, <1>6, HangUpPasses DEF Disconnect, Busy
<1>7. ASSUME SendText(d), NEW e \in Devices PROVE Stays(e) \/ Passes(e)
  <2> PICK t \in {"plain", "operator"} :
          dev' = [dev EXCEPT ![d] = [@ EXCEPT !.pc = "muted?", !.text = t]]
    BY <1>7 DEF SendText
  <2>1. dev'[d] = [dev[d] EXCEPT !.pc = "muted?", !.text = t] /\ \A f \in Devices \ {d} : dev'[f] = dev[f]
    BY <1>2
  <2>2. dev[d] \in Socket BY <1>2
  <2> DEFINE x == [dev[d] EXCEPT !.pc = "muted?", !.text = t]
  <2>3. x.pc = "muted?" BY <2>2 DEF Socket
  <2> QED BY <1>7, <2>1, <2>3 DEF SendText, Stays, Passes, Busy
<1>8. \A e \in Devices : Stays(e) \/ Passes(e) BY <1>4, <1>5, <1>6, <1>7
<1> QED BY <1>1, <1>3, <1>8, Silent

LEMMA AntispamCache ==
    ASSUME CacheInv, NEW d \in Devices,
           \/ CheckMute(d) \/ CountMessage(d) \/ ExpireRate(d) \/ CountViolation(d)
           \/ ExpireSpam(d) \/ Mute(d) \/ ForgetViolations(d) \/ AskBot(d)
    PROVE  CacheInv'
<1>1. StateOK /\ StateOK' BY AntispamType, AskBotType DEF CacheInv
<1>2. UNCHANGED <<chats, userCache, excused, mgr, rest>> /\ dev[d].pc \notin Busy
  BY DEF CheckMute, CountMessage, ExpireRate, CountViolation, ExpireSpam, Mute,
         ForgetViolations, AskBot, chatVars, lockVars, Busy
<1> DEFINE L == {"idle", "count", "expireRate", "violation", "chat", "expireSpam", "mute", "forgive"}
<1>3. \E l \in L : Go(d, l)
  <2>1. CASE CheckMute(d) BY <2>1 DEF CheckMute
  <2>2. CASE CountMessage(d) BY <2>2 DEF CountMessage
  <2>3. CASE ExpireRate(d) BY <2>3 DEF ExpireRate
  <2>4. CASE CountViolation(d) BY <2>4 DEF CountViolation
  <2>5. CASE ExpireSpam(d) BY <2>5 DEF ExpireSpam
  <2>6. CASE Mute(d) BY <2>6 DEF Mute
  <2>7. CASE ForgetViolations(d) BY <2>7 DEF ForgetViolations
  <2>8. CASE AskBot(d) BY <2>8 DEF AskBot
  <2> QED BY <2>1, <2>2, <2>3, <2>4, <2>5, <2>6, <2>7, <2>8
<1>4. \A e \in Devices : Stays(e) \/ Passes(e)
  BY <1>1, <1>2, <1>3, GoPasses DEF SocketPCs
<1> QED BY <1>1, <1>2, <1>4, Silent

LEMMA ReadCacheCache == ASSUME CacheInv, NEW d \in Devices, ReadCache(d) PROVE CacheInv'
<1>1. StateOK /\ StateOK' BY ReadCacheType DEF CacheInv
<1>2. dev \in [Devices -> Socket] BY <1>1 DEF StateOK, SocketsOK
<1>3. dev'[d].pc = (IF userCache = None THEN "find" ELSE WithChat(d)) /\ dev[d].pc = "chat"
  BY <1>2 DEF ReadCache, Socket
<1>4. \A e \in Devices \ {d} : dev'[e] = dev[e] BY <1>2 DEF ReadCache
<1>5. \A e \in Devices : Stays(e) \/ Passes(e)
  BY <1>3, <1>4 DEF Stays, Passes, Busy, WithChat
<1> QED BY <1>1, <1>5, Silent DEF ReadCache, chatVars, lockVars

LEMMA FindChatCache == ASSUME CacheInv, NEW d \in Devices, FindChat(d) PROVE CacheInv'
<1>1. StateOK /\ StateOK' BY FindChatType DEF CacheInv
<1>2. dev \in [Devices -> Socket] BY <1>1 DEF StateOK, SocketsOK
<1>3. dev[d].pc \notin Busy /\ UNCHANGED <<chats, userCache, excused, mgr, rest>>
  BY DEF FindChat, Busy, chatVars, lockVars
<1>4. ASSUME NEW c \in OpenChats, dev' = [dev EXCEPT ![d].read = Snapshot(c), ![d].pc = "store"],
             NEW e \in Devices
      PROVE  Stays(e) \/ Passes(e)
  <2>1. c \in ChatIds /\ chats[c] # None /\ IsOpen(c) BY DEF OpenChats, IsOpen
  <2>2. Matches(Snapshot(c)) BY <1>1, <2>1, SnapshotFits DEF Matches, StateOK
  <2>3. dev'[d].read = Snapshot(c) /\ \A f \in Devices \ {d} : dev'[f] = dev[f]
    BY <1>2, <1>4 DEF Socket
  <2>4. Matches(dev[d].read)' BY <1>3, <2>2, <2>3 DEF Matches, IsOpen, Snapshot
  <2> QED BY <1>3, <2>3, <2>4 DEF Stays, Passes
<1>5. \A e \in Devices : Stays(e) \/ Passes(e)
  BY <1>1, <1>3, <1>4, GoPasses, HangUpPasses DEF FindChat, SocketPCs
<1> QED BY <1>1, <1>3, <1>5, Silent

LEMMA CreateChatCache == ASSUME CacheInv, NEW d \in Devices, CreateChat(d) PROVE CacheInv'
<1>1. StateOK /\ StateOK' BY CreateChatType DEF CacheInv
<1>2. /\ dev[d].pc \notin Busy /\ UNCHANGED <<userCache, excused, mgr, rest>>
      /\ dev \in [Devices -> Socket]
  BY <1>1 DEF CreateChat, lockVars, Busy, StateOK, SocketsOK
<1>3. CASE OpenChats # {}
  BY <1>1, <1>2, <1>3, HangUpPasses, Silent DEF CreateChat
<1>4. CASE OpenChats = {}
  <2>1. PICK c \in ChatIds :
          /\ chats[c] = None /\ chats' = [chats EXCEPT ![c] = NewRow]
          /\ dev' = [dev EXCEPT ![d].read = [id |-> c, manager |-> None, escalated |-> FALSE],
                                ![d].pc = "store"]
    BY <1>4 DEF CreateChat
  <2>2. chats \in [ChatIds -> {None} \cup Row] BY <1>1 DEF StateOK, ChatsOK
  <2>3. RowsStay BY <2>1, <2>2 DEF RowsStay
  <2>4. chats'[c] = NewRow /\ NewRow # None BY <2>1, <2>2, NewFits
  <2> DEFINE r == [id |-> c, manager |-> None, escalated |-> FALSE]
  <2>5. dev'[d].read = r /\ \A f \in Devices \ {d} : dev'[f] = dev[f]
    BY <1>2, <2>1 DEF Socket
  <2>6. Matches(dev[d].read)'
    <3>1. r \in Read /\ r.id = c BY NewFits
    <3>2. IsOpen(c)' BY <2>4 DEF IsOpen, NewRow
    <3>3. r = Snapshot(c)' BY <2>4 DEF Snapshot, NewRow
    <3> HIDE DEF r
    <3> QED BY <2>5, <3>1, <3>2, <3>3 DEF Matches
  <2>7. \A e \in Devices : Stays(e) \/ Passes(e)
    BY <1>2, <2>5, <2>6 DEF Stays, Passes
  <2> QED BY <1>1, <1>2, <2>3, <2>7, Untouched DEF PendingManagersStay
<1> QED BY <1>3, <1>4

LEMMA StoreCacheCache == ASSUME CacheInv, NEW d \in Devices, StoreCache(d) PROVE CacheInv'
<1>1. StateOK /\ StateOK' BY StoreCacheType DEF CacheInv
<1>2. /\ userCache' = dev[d].read /\ excused' = dev[d].late /\ dev[d].pc = "store"
      /\ UNCHANGED <<chats, mgr, rest>> /\ Go(d, WithChat(d))
  BY DEF StoreCache, lockVars
<1>3. WithChat(d) \in SocketPCs \ {"store"} BY DEF WithChat, SocketPCs
<1>4. \A e \in Devices : Stays(e) \/ Passes(e)
  BY <1>1, <1>2, <1>3, GoPasses DEF Busy
<1>5. Matches(userCache)' \/ Pending \/ excused'
  BY <1>2 DEF CacheInv, Matches, IsOpen, Snapshot
<1> QED BY <1>1, <1>2, <1>4, <1>5, Untouched DEF RowsStay, PendingManagersStay

LEMMA SaveMessageCache == ASSUME CacheInv, NEW d \in Devices, SaveMessage(d) PROVE CacheInv'
<1> DEFINE c == dev[d].read.id
           e == dev[d].text = "operator" /\ ~dev[d].read.escalated
<1>1. StateOK /\ StateOK' BY SaveMessageType DEF CacheInv
<1>2. dev \in [Devices -> Socket] /\ dev[d].pc = "save"
  BY <1>1 DEF StateOK, SocketsOK, SaveMessage
<1>3. dev'[d].pc = (IF e THEN "uncache" ELSE "ask") /\ \A f \in Devices \ {d} : dev'[f] = dev[f]
  BY <1>2 DEF SaveMessage, Socket
<1>4. CASE e BY <1>1, <1>3, <1>4, Covered DEF Pending, Busy
<1>5. CASE ~e
  <2>1. dev[d].read \in Read /\ chats[c] # None
    BY <1>1, <1>2 DEF StateOK, SocketsOK, Known, Socket
  <2>2. chats \in [ChatIds -> {None} \cup Row] /\ c \in ChatIds /\ chats[c] \in Row
    BY <1>1, <2>1 DEF StateOK, ChatsOK, Read
  <2>3. chats' = [chats EXCEPT ![c] = [chats[c] EXCEPT !.escalated = @ \/ e]]
    BY DEF SaveMessage
  <2>4. [chats[c] EXCEPT !.escalated = @ \/ e] = chats[c] BY <1>5, <2>2 DEF Row
  <2>5. RowsStay BY <2>2, <2>3, <2>4 DEF RowsStay
  <2>6. \A f \in Devices : Stays(f) \/ Passes(f)
    BY <1>2, <1>3, <1>5 DEF Stays, Passes, Busy
  <2> QED BY <1>1, <2>5, <2>6, Untouched DEF SaveMessage, lockVars, PendingManagersStay
<1> QED BY <1>4, <1>5

\* Whoever has read the row and not stored it yet is late.
LEMMA LateOnes ==
    ASSUME StateOK, NEW e \in Devices
    PROVE  /\ dev[e] \in Socket /\ Overtaken[e] \in Socket
           /\ Overtaken[e].pc = "store" => Overtaken[e].late
           /\ \A M : LET x == [Overtaken[e] EXCEPT !.missed = M] IN x.pc = "store" => x.late
<1>1. dev[e] \in Socket BY DEF StateOK, SocketsOK
<1> DEFINE y == [dev[e] EXCEPT !.late = TRUE]
<1>2. y \in Socket /\ y.late BY <1>1 DEF Socket
<1>3. Overtaken[e] = IF dev[e].pc = "store" THEN y ELSE dev[e] BY DEF Overtaken
<1> HIDE DEF y
<1>4. Overtaken[e] \in Socket /\ (Overtaken[e].pc = "store" => Overtaken[e].late)
  BY <1>1, <1>2, <1>3
<1>5. \A M : LET x == [Overtaken[e] EXCEPT !.missed = M] IN x.pc = "store" => x.late
  BY <1>4 DEF Socket
<1> QED BY <1>1, <1>4, <1>5

LEMMA DropsCache ==
    ASSUME CacheInv, NEW d \in Devices, AnnounceTransfer(d) \/ FinishClose(d) PROVE CacheInv'
<1>1. StateOK /\ StateOK' BY AnnounceTransferType, FinishCloseType DEF CacheInv
<1>2. userCache' = None BY DEF AnnounceTransfer, FinishClose, DropUserCache
<1>3. \A e \in Devices : dev[e] \in Socket /\ Overtaken[e] \in Socket
  BY <1>1, LateOnes
<1>4. ASSUME NEW e \in Devices, dev'[e].pc = "store" PROVE dev'[e].late
  <2>1. CASE AnnounceTransfer(d)
    <3>1. dev'[e] \in {Overtaken[e], [Overtaken[e] EXCEPT !.pc = "ask"]}
      BY <2>1 DEF AnnounceTransfer, Overtaken
    <3> QED BY <1>1, <1>3, <1>4, <3>1, LateOnes DEF Socket
  <2>2. CASE FinishClose(d)
    <3>1. dev'[e] \in {Offline, [Overtaken[e] EXCEPT !.missed = @ \ {d}]}
      BY <2>2 DEF FinishClose
    <3>2. Offline.pc = "off" BY DEF Offline
    <3> QED BY <1>1, <1>3, <1>4, <3>1, <3>2, LateOnes DEF Socket
  <2> QED BY <2>1, <2>2
<1> QED BY <1>1, <1>2, <1>4, Cleared

LEMMA CloseByUserCache == ASSUME CacheInv, NEW d \in Devices, CloseByUser(d) PROVE CacheInv'
<1>1. StateOK /\ StateOK' BY CloseByUserType DEF CacheInv
<1>2. dev \in [Devices -> Socket] BY <1>1 DEF StateOK, SocketsOK
<1>3. ASSUME Go(d, "uncacheBoth") PROVE dev'[d].pc = "uncacheBoth"
  BY <1>1, <1>3, GoPasses DEF SocketPCs
<1>4. dev'[d].pc = "uncacheBoth" BY <1>2, <1>3 DEF CloseByUser, Socket
<1> QED BY <1>1, <1>4, Covered DEF Pending, Busy

LEMMA CrashCache == ASSUME CacheInv, NEW d \in Devices, Crash(d) PROVE CacheInv'
<1>1. StateOK /\ StateOK' BY CrashType DEF CacheInv
<1>2. \A e \in Devices : dev[e] \in Socket BY <1>1, LateOnes
<1>3. Offline.pc = "off" BY DEF Offline
<1>4. CASE dev[d].pc \in Busy
  <2>1. excused' BY <1>4 DEF Crash, Busy
  <2>2. ASSUME NEW e \in Devices
        PROVE  dev'[e] = Offline \/ dev'[e] = [Overtaken[e] EXCEPT !.missed = @ \ {d}]
    BY <1>4 DEF Crash, Busy
  <2>3. ASSUME NEW e \in Devices, dev'[e].pc = "store" PROVE dev'[e].late
    <3> DEFINE x == [Overtaken[e] EXCEPT !.missed = Overtaken[e].missed \ {d}]
    <3>1. x.pc = "store" => x.late BY <1>1, LateOnes
    <3>2. dev'[e] = Offline \/ dev'[e] = x BY <2>2
    <3> HIDE DEF x
    <3> QED BY <1>3, <2>3, <3>1, <3>2
  <2> QED BY <1>1, <2>1, <2>3, Cleared
<1>5. CASE dev[d].pc \notin Busy
  <2>1. UNCHANGED <<chats, userCache, mgr, rest>> /\ (excused' <=> excused) BY <1>5 DEF Crash, Busy, lockVars
  <2>2. ASSUME NEW e \in Devices
        PROVE  dev'[e] = IF e = d THEN Offline ELSE [dev[e] EXCEPT !.missed = @ \ {d}]
    BY <1>5 DEF Crash, Busy
  <2>3. \A e \in Devices : Stays(e) \/ Passes(e)
    BY <1>2, <1>3, <1>5, <2>2 DEF Stays, Passes, Socket
  <2>4. userCache # None => Matches(userCache)' \/ Pending \/ excused'
    BY <2>1 DEF CacheInv, Matches, IsOpen, Snapshot
  <2> QED BY <1>1, <2>1, <2>3, <2>4, Untouched DEF RowsStay, PendingManagersStay
<1> QED BY <1>4, <1>5

\* A manager's step that writes no row.
LEMMA SilentManager ==
    ASSUME CacheInv, StateOK', UNCHANGED <<chats, dev>>, PendingManagersStay,
           \/ UNCHANGED <<userCache, excused>>
           \/ userCache' = None
    PROVE  CacheInv'
BY Untouched DEF RowsStay, Stays

LEMMA ManagerPlaces ==
    ASSUME StateOK, NEW m \in Managers
    PROVE  /\ \A l : GoM(m, l) => /\ mgr'[m].pc = l
                                  /\ \A n \in Managers \ {m} : mgr'[n] = mgr[n]
           /\ \A l, c : GoR(m, l, c) => /\ rest'[m].pc = l
                                        /\ \A n \in Managers \ {m} : rest'[n] = rest[n]
           /\ mgr' = [mgr EXCEPT ![m] = Detached] => \A n \in Managers \ {m} : mgr'[n] = mgr[n]
<1>1. mgr \in [Managers -> ManagerSocket] /\ rest \in [Managers -> Call]
  BY DEF StateOK, ManagersOK
<1> QED BY <1>1 DEF GoM, GoR, ManagerSocket

LEMMA CommitCache ==
    ASSUME CacheInv, NEW m \in Managers,
           CommitAssign(m) \/ RestCommit(m) \/ \E c \in ChatIds : RestClose(m, c)
    PROVE  CacheInv'
<1>1. StateOK /\ StateOK' BY CommitAssignType, RestCommitType, RestCloseType DEF CacheInv
<1>2. mgr'[m].pc = "uncacheAssign" \/ rest'[m].pc \in Busy
  BY <1>1, ManagerPlaces DEF CommitAssign, RestCommit, RestClose, Busy
<1> QED BY <1>1, <1>2, Covered DEF Pending, BusyManager

LEMMA LeaveCache ==
    ASSUME CacheInv, NEW m \in Managers, LeaveChat(m) \/ CloseByManager(m) PROVE CacheInv'
<1>1. StateOK /\ StateOK' BY LeaveChatType, CloseByManagerType DEF CacheInv
<1>2. CASE mgr'[m].pc \in BusyManager BY <1>1, <1>2, Covered DEF Pending
<1>3. CASE mgr'[m].pc \notin BusyManager
  <2>1. /\ UNCHANGED <<chats, dev, rest, userCache, excused>> /\ GoM(m, "release")
        /\ mgr[m].pc = "loop"
    BY <1>1, <1>3, ManagerPlaces DEF LeaveChat, CloseByManager, BusyManager
  <2>2. PendingManagersStay
    BY <1>1, <2>1, ManagerPlaces DEF PendingManagersStay, BusyManager
  <2> QED BY <1>1, <2>1, <2>2, SilentManager
<1> QED BY <1>2, <1>3

LEMMA UncacheCache ==
    ASSUME CacheInv, NEW m \in Managers,
           UncacheAssign(m) \/ UncacheLeave(m) \/ UncacheClose(m) \/ RestUncache(m)
    PROVE  CacheInv'
<1>1. StateOK /\ StateOK' BY UncacheType, RestUncacheType DEF CacheInv
<1>2. userCache' = None /\ dev' = Overtaken
  BY DEF UncacheAssign, UncacheLeave, UncacheClose, RestUncache, DropUserCache
<1> QED BY <1>1, <1>2, LateOnes, Cleared

LEMMA CrashManagerCache ==
    ASSUME CacheInv, NEW m \in Managers, CrashManager(m) PROVE CacheInv'
<1>1. StateOK /\ StateOK' BY CrashManagerType DEF CacheInv
<1>2. CASE mgr[m].pc \in BusyManager
  <2>1. excused' /\ dev' = Overtaken BY <1>2 DEF CrashManager, BusyManager
  <2> QED BY <1>1, <2>1, LateOnes, Cleared
<1>3. CASE mgr[m].pc \notin BusyManager
  <2>1. UNCHANGED <<chats, dev, rest, userCache, excused>> BY <1>3 DEF CrashManager, BusyManager
  <2>2. PendingManagersStay
    BY <1>1, <1>3, <2>1, ManagerPlaces DEF CrashManager, PendingManagersStay
  <2> QED BY <1>1, <2>1, <2>2, SilentManager
<1> QED BY <1>2, <1>3

\* The steps of the managers, the broker and Redis that touch neither row nor cache.
LEMMA IdleCache ==
    ASSUME CacheInv,
           \/ \E m \in Managers :
                 \/ ReadForAssign(m) \/ ManagerText(m) \/ CacheChat(m) \/ LoseManager(m) \/ ReadLock(m) \/ Unlock(m)
                 \/ \E c \in ChatIds : OpenSocket(m, c) \/ RestAssign(m, c)
           \/ KeyLapses \/ BotStep \/ (\E c \in ChatIds : LockLapses(c)) \/ UNCHANGED supportVars
    PROVE  CacheInv'
<1>1. StateOK /\ StateOK'
  BY OpenSocketType, ReadForAssignType, ManagerTextType, ReleaseType, RestAssignType,
     KeyLapsesType, BackgroundType
  DEF CacheInv
<1>2. ASSUME NEW m \in Managers,
             \/ ReadForAssign(m) \/ ManagerText(m) \/ CacheChat(m) \/ LoseManager(m) \/ ReadLock(m) \/ Unlock(m)
             \/ \E c \in ChatIds : OpenSocket(m, c) \/ RestAssign(m, c)
      PROVE  CacheInv'
  <2>1. UNCHANGED <<chats, dev, userCache, excused>>
    BY <1>2 DEF ReadForAssign, ManagerText, CacheChat, LoseManager, ReadLock, Unlock, OpenSocket, RestAssign, chatVars
  <2>2. /\ \A n \in Managers \ {m} : mgr'[n] = mgr[n] /\ rest'[n] = rest[n]
        /\ UNCHANGED mgr \/ mgr[m].pc \notin BusyManager
        /\ UNCHANGED rest \/ rest[m].pc \notin Busy
    <3>1. CASE \E c \in ChatIds : OpenSocket(m, c) \/ RestAssign(m, c)
      <4>1. mgr \in [Managers -> ManagerSocket] BY <1>1 DEF StateOK, ManagersOK
      <4> QED BY <1>1, <3>1, <4>1, ManagerPlaces DEF OpenSocket, RestAssign, lockVars, Busy, BusyManager
    <3>2. CASE ReadForAssign(m) \/ ManagerText(m) \/ CacheChat(m) \/ LoseManager(m) \/ ReadLock(m) \/ Unlock(m)
      BY <1>1, <3>2, ManagerPlaces
      DEF ReadForAssign, ManagerText, CacheChat, LoseManager, ReadLock, Unlock, BusyManager
    <3> QED BY <1>2, <3>1, <3>2
  <2>3. PendingManagersStay BY <2>2 DEF PendingManagersStay
  <2> QED BY <1>1, <2>1, <2>3, SilentManager
<1>3. CASE KeyLapses \/ BotStep \/ (\E c \in ChatIds : LockLapses(c)) \/ UNCHANGED supportVars
  <2>1. UNCHANGED <<chats, dev, mgr, rest>> /\ (UNCHANGED <<userCache, excused>> \/ userCache' = None)
    BY <1>3 DEF KeyLapses, BotStep, TakeQuestion, Answer, Acknowledge, CrashConsumer, LockLapses,
                DropUserCache, supportVars, chatVars, lockVars
  <2> QED BY <1>1, <2>1, SilentManager DEF PendingManagersStay
<1> QED BY <1>2, <1>3

LEMMA CacheKept == ASSUME CacheInv, [SupportNext]_supportVars PROVE CacheInv'
<1>1. ASSUME NEW d \in Devices, UserStep(d) PROVE CacheInv'
  BY <1>1, ConnectCache, AntispamCache, ReadCacheCache, FindChatCache, CreateChatCache,
     StoreCacheCache, SaveMessageCache, DropsCache, CloseByUserCache, CrashCache
  DEF UserStep
<1>2. ASSUME NEW m \in Managers, ManagerStep(m) PROVE CacheInv'
  BY <1>2, CommitCache, LeaveCache, UncacheCache, CrashManagerCache, IdleCache DEF ManagerStep
<1> QED BY <1>1, <1>2, IdleCache DEF SupportNext

-----------------------------------------------------------------------------
(* The locks of the managers' sockets *)

\* A socket whose lock did not run out has it; one about to delete a lock
\* deletes its own.
LocksInv ==
    /\ locks \in [ChatIds -> Managers \cup {None}]
    /\ \A m \in Managers : ~raced =>
          /\ mgr[m].pc # "off" /\ m \notin lapsed => locks[mgr[m].chat] = m
          /\ mgr[m].pc = "unlock" => locks[mgr[m].chat] = m

\* A socket goes on with its lock.
LEMMA GoesOn ==
    ASSUME StateOK, LocksInv, UNCHANGED <<locks, lapsed, raced>>,
           UNCHANGED mgr \/ \E m \in Managers, l \in ManagerPCs \ {"unlock"} :
                              mgr[m].pc # "off" /\ GoM(m, l)
    PROVE  LocksInv'
<1>1. CASE UNCHANGED mgr BY <1>1 DEF LocksInv
<1>2. ASSUME NEW m \in Managers, NEW l \in ManagerPCs \ {"unlock"}, mgr[m].pc # "off", GoM(m, l)
      PROVE  LocksInv'
  <2>1. mgr \in [Managers -> ManagerSocket] BY DEF StateOK, ManagersOK
  <2>2. mgr'[m].pc = l /\ mgr'[m].chat = mgr[m].chat /\ \A n \in Managers \ {m} : mgr'[n] = mgr[n]
    BY <1>2, <2>1 DEF GoM, ManagerSocket
  <2> QED BY <1>2, <2>2 DEF LocksInv
<1> QED BY <1>1, <1>2

LEMMA OpenSocketLocks ==
    ASSUME StateOK, LocksInv, NEW m \in Managers, NEW c \in ChatIds, OpenSocket(m, c)
    PROVE  LocksInv'
<1>1. mgr \in [Managers -> ManagerSocket] BY DEF StateOK, ManagersOK
<1>2. /\ mgr'[m].pc = "assign" /\ mgr'[m].chat = c /\ \A n \in Managers \ {m} : mgr'[n] = mgr[n]
      /\ locks' = [locks EXCEPT ![c] = m] /\ locks[c] = None
      /\ lapsed' = lapsed \ {m} /\ UNCHANGED raced
  BY <1>1 DEF OpenSocket
<1>3. \A n \in Managers : n # None BY SupportAssumption DEF SupportAssumption
<1>4. \A n \in Managers : mgr[n].pc # "off" => mgr[n].chat \in ChatIds BY BusyChat
<1> QED BY <1>2, <1>3, <1>4 DEF LocksInv

LEMMA ReadLockLocks ==
    ASSUME StateOK, LocksInv, NEW m \in Managers, ReadLock(m) PROVE LocksInv'
<1>1. mgr \in [Managers -> ManagerSocket] BY DEF StateOK, ManagersOK
<1>2. CASE locks[mgr[m].chat] = m
  <2>1. /\ mgr'[m].pc = "unlock" /\ mgr'[m].chat = mgr[m].chat
        /\ \A n \in Managers \ {m} : mgr'[n] = mgr[n]
    BY <1>1, <1>2 DEF ReadLock, GoM, ManagerSocket
  <2>2. UNCHANGED <<locks, lapsed, raced>> BY <1>2 DEF ReadLock
  <2> QED BY <1>2, <2>1, <2>2 DEF LocksInv
<1>3. CASE locks[mgr[m].chat] # m
  <2>1. Detached.pc = "off" BY DEF Detached
  <2>2. /\ mgr'[m] = Detached /\ \A n \in Managers \ {m} : mgr'[n] = mgr[n]
        /\ UNCHANGED <<locks, raced>> /\ lapsed' = lapsed \ {m}
    BY <1>1, <1>3 DEF ReadLock
  <2> QED BY <2>1, <2>2 DEF LocksInv
<1> QED BY <1>2, <1>3

LEMMA UnlockLocks ==
    ASSUME StateOK, LocksInv, NEW m \in Managers, Unlock(m) PROVE LocksInv'
<1>1. mgr \in [Managers -> ManagerSocket] BY DEF StateOK, ManagersOK
<1>2. Detached.pc = "off" BY DEF Detached
<1>3. /\ mgr'[m] = Detached /\ \A n \in Managers \ {m} : mgr'[n] = mgr[n]
      /\ UNCHANGED raced /\ lapsed' = lapsed \ {m}
      /\ locks' = [locks EXCEPT ![mgr[m].chat] = None] /\ mgr[m].pc = "unlock"
  BY <1>1 DEF Unlock
<1>4. \A n \in Managers : mgr[n].pc # "off" => mgr[n].chat \in ChatIds BY BusyChat
<1> QED BY <1>2, <1>3, <1>4 DEF LocksInv

LEMMA CrashManagerLocks ==
    ASSUME StateOK, LocksInv, NEW m \in Managers, CrashManager(m) PROVE LocksInv'
<1>1. mgr \in [Managers -> ManagerSocket] BY DEF StateOK, ManagersOK
<1>2. Detached.pc = "off" BY DEF Detached
<1>3. /\ mgr'[m] = Detached /\ \A n \in Managers \ {m} : mgr'[n] = mgr[n]
      /\ UNCHANGED <<locks, raced>> /\ lapsed' = lapsed \ {m}
  BY <1>1 DEF CrashManager
<1> QED BY <1>2, <1>3 DEF LocksInv

LEMMA LockLapsesLocks ==
    ASSUME StateOK, LocksInv, NEW c \in ChatIds, LockLapses(c) PROVE LocksInv'
<1> DEFINE m == locks[c]
           live == mgr[m].pc # "off" /\ mgr[m].chat = c
<1>1. /\ m \in Managers /\ locks' = [locks EXCEPT ![c] = None] /\ UNCHANGED mgr
      /\ lapsed' = IF live THEN lapsed \cup {m} ELSE lapsed
      /\ raced' = (raced \/ (live /\ mgr[m].pc = "unlock"))
  BY DEF LockLapses, LocksInv
<1>2. \A n \in Managers : mgr[n].pc # "off" => mgr[n].chat \in ChatIds BY BusyChat
<1> QED BY <1>1, <1>2 DEF LocksInv

LEMMA LocksKept ==
    ASSUME StateOK, LocksInv, [SupportNext]_supportVars PROVE LocksInv'
<1>1. ASSUME NEW d \in Devices, UserStep(d) PROVE UNCHANGED lockVars
  BY <1>1
  DEF UserStep, Connect, Subscribe, Disconnect, SendText, CheckMute, CountMessage, ExpireRate,
      CountViolation, ExpireSpam, Mute, ForgetViolations, ReadCache, FindChat, CreateChat,
      StoreCache, SaveMessage, AnnounceTransfer, AskBot, CloseByUser, FinishClose, Crash
<1>2. ASSUME KeyLapses \/ BotStep \/ UNCHANGED supportVars PROVE UNCHANGED lockVars
  BY <1>2 DEF KeyLapses, BotStep, TakeQuestion, Answer, Acknowledge, CrashConsumer, supportVars
<1>3. UNCHANGED lockVars => LocksInv' BY GoesOn DEF lockVars
<1>4. ASSUME NEW m \in Managers, ManagerStep(m) PROVE LocksInv'
  <2>1. CASE \/ RestCommit(m) \/ RestUncache(m) \/ \E c \in ChatIds : RestAssign(m, c) \/ RestClose(m, c)
    BY <1>3, <2>1 DEF RestCommit, RestUncache, RestAssign, RestClose
  <2>2. CASE \/ ReadForAssign(m) \/ CommitAssign(m) \/ UncacheAssign(m) \/ ManagerText(m) \/ CacheChat(m)
             \/ LeaveChat(m) \/ UncacheLeave(m) \/ CloseByManager(m) \/ UncacheClose(m) \/ LoseManager(m)
    <3>1. UNCHANGED <<locks, lapsed, raced>> /\ mgr[m].pc # "off"
      BY <2>2 DEF ReadForAssign, CommitAssign, UncacheAssign, ManagerText, CacheChat, LeaveChat,
                  UncacheLeave, CloseByManager, UncacheClose, LoseManager
    <3>2. UNCHANGED mgr \/ \E l \in ManagerPCs \ {"unlock"} : GoM(m, l)
      <4>1. UNCHANGED mgr \/ \E l \in {"commitAssign", "loop", "cacheChat", "release", "uncacheAssign",
                                        "uncacheLeave", "uncacheClose"} : GoM(m, l)
        BY <2>2 DEF ReadForAssign, CommitAssign, UncacheAssign, ManagerText, CacheChat, LeaveChat,
                    UncacheLeave, CloseByManager, UncacheClose, LoseManager
      <4> QED BY <4>1 DEF ManagerPCs
    <3> QED BY <3>1, <3>2, GoesOn
  <2> QED BY <1>4, <2>1, <2>2, OpenSocketLocks, ReadLockLocks, UnlockLocks, CrashManagerLocks
          DEF ManagerStep
<1> QED BY <1>1, <1>2, <1>3, <1>4, LockLapsesLocks DEF SupportNext

-----------------------------------------------------------------------------
(* The kicks between the user's sockets *)

\* Of two sockets that are open one has been kicked, or was not listening yet
\* when the other announced itself.
LinksInv ==
    /\ \A d \in Devices : dev[d].pc = "off" => ~dev[d].listening /\ dev[d].text = None
    /\ \A d, e \in Devices :
          d # e /\ dev[d].pc # "off" /\ dev[e].pc # "off"
            => \/ dev[d].kicked \/ dev[e].kicked
               \/ d \in dev[e].missed \/ e \in dev[d].missed

Unlinked(e) == /\ dev'[e].kicked = dev[e].kicked /\ dev'[e].missed = dev[e].missed
               /\ dev'[e].listening = dev[e].listening
               /\ dev'[e].pc = "off" <=> dev[e].pc = "off"
               /\ dev'[e].pc = "off" => dev'[e].text = dev[e].text

LEMMA Links ==
    ASSUME LinksInv, \A e \in Devices : Unlinked(e) PROVE LinksInv'
BY DEF LinksInv, Unlinked

LEMMA GoLinks ==
    ASSUME StateOK, LinksInv, NEW d \in Devices, NEW l \in SocketPCs \ {"off"},
           Go(d, l), dev[d].pc # "off"
    PROVE  LinksInv'
<1>1. dev = [e \in Devices |-> dev[e]] /\ dev[d] \in Socket BY DEF StateOK, SocketsOK
<1>2. dev'[d] = IF l = "idle" THEN [dev[d] EXCEPT !.pc = l, !.text = None, !.read = None]
                              ELSE [dev[d] EXCEPT !.pc = l]
  BY <1>1 DEF Go
<1>3. dev'[d].pc = l /\ dev'[d].kicked = dev[d].kicked /\ dev'[d].missed = dev[d].missed
      /\ dev'[d].listening = dev[d].listening
  BY <1>1, <1>2 DEF Socket
<1>4. \A e \in Devices \ {d} : dev'[e] = dev[e] BY <1>1 DEF Go
<1>5. \A e \in Devices : Unlinked(e) BY <1>3, <1>4 DEF Unlinked
<1> QED BY <1>5, Links

\* A socket goes and is forgotten by the others.
LEMMA LeaveLinks ==
    ASSUME StateOK, LinksInv, NEW d \in Devices, dev'[d] = Offline,
           \A e \in Devices \ {d} : \/ dev'[e] = [dev[e] EXCEPT !.missed = @ \ {d}]
                                    \/ dev'[e] = [Overtaken[e] EXCEPT !.missed = @ \ {d}]
    PROVE  LinksInv'
<1>1. \A e \in Devices : dev[e] \in Socket BY DEF StateOK, SocketsOK
<1>2. Offline.pc = "off" /\ ~Offline.listening /\ Offline.text = None BY DEF Offline
<1>3. ASSUME NEW e \in Devices \ {d}
      PROVE  /\ dev'[e].pc = dev[e].pc /\ dev'[e].kicked = dev[e].kicked /\ dev'[e].text = dev[e].text
             /\ dev'[e].listening = dev[e].listening /\ dev'[e].missed = dev[e].missed \ {d}
  <2> DEFINE y == [dev[e] EXCEPT !.late = TRUE]
  <2> dev[e] \in Socket BY <1>1
  <2>1. y \in Socket /\ y.pc = dev[e].pc /\ y.kicked = dev[e].kicked /\ y.text = dev[e].text
        /\ y.listening = dev[e].listening /\ y.missed = dev[e].missed
    <3>1. y \in Socket BY DEF Socket
    <3>2. y.pc = dev[e].pc /\ y.kicked = dev[e].kicked BY DEF Socket
    <3>3. y.listening = dev[e].listening /\ y.missed = dev[e].missed /\ y.text = dev[e].text BY DEF Socket
    <3> QED BY <3>1, <3>2, <3>3
  <2>2. Overtaken[e] \in {y, dev[e]} BY DEF Overtaken
  <2> HIDE DEF y
  <2>3. CASE dev'[e] = [dev[e] EXCEPT !.missed = @ \ {d}] BY <1>1, <2>3 DEF Socket
  <2>4. CASE dev'[e] = [y EXCEPT !.missed = @ \ {d}] BY <2>1, <2>4 DEF Socket
  <2> QED BY <2>2, <2>3, <2>4
<1> QED BY <1>2, <1>3 DEF LinksInv

LEMMA ConnectLinks ==
    ASSUME StateOK, LinksInv, NEW d \in Devices, Connect(d) PROVE LinksInv'
<1>1. \A e \in Devices : dev[e] \in Socket BY DEF StateOK, SocketsOK
<1> DEFINE new == [Offline EXCEPT !.pc = "chat"]
<1>2. new.pc = "chat" BY DEF Offline
<1> HIDE DEF new
<1>3. dev'[d] = new /\ dev[d].pc = "off" BY DEF Connect, new
<1>4. ASSUME NEW e \in Devices \ {d}
      PROVE  /\ dev'[e].pc = dev[e].pc /\ dev'[e].listening = dev[e].listening /\ dev'[e].text = dev[e].text
             /\ dev[e].kicked => dev'[e].kicked
             /\ dev[e].missed \subseteq dev'[e].missed
             /\ dev[e].pc # "off" => dev'[e].kicked \/ d \in dev'[e].missed
  <2>1. dev'[e] = IF dev[e].listening THEN [dev[e] EXCEPT !.kicked = TRUE]
                  ELSE IF dev[e].pc # "off" THEN [dev[e] EXCEPT !.missed = @ \cup {d}]
                  ELSE dev[e]
    BY DEF Connect
  <2> QED BY <1>1, <2>1 DEF Socket
<1> QED BY <1>2, <1>3, <1>4 DEF LinksInv

LEMMA SubscribeLinks ==
    ASSUME StateOK, LinksInv, NEW d \in Devices, Subscribe(d) PROVE LinksInv'
<1>1. dev \in [Devices -> Socket] BY DEF StateOK, SocketsOK
<1>2. /\ dev'[d].pc = dev[d].pc /\ dev'[d].kicked = dev[d].kicked /\ dev'[d].missed = dev[d].missed
      /\ \A e \in Devices \ {d} : dev'[e] = dev[e]
  BY <1>1 DEF Subscribe, Socket
<1>3. dev[d].pc # "off" BY DEF Subscribe, LinksInv
<1> QED BY <1>2, <1>3 DEF LinksInv

\* A handler keeps its socket while it reads and writes.
LEMMA Overtakes ==
    ASSUME StateOK, LinksInv, NEW d \in Devices, Unlinked(d),
           \A e \in Devices \ {d} : dev'[e] = dev[e] \/ dev'[e] = Overtaken[e]
    PROVE  LinksInv'
<1>1. ASSUME NEW e \in Devices \ {d} PROVE Unlinked(e)
  <2> DEFINE y == [dev[e] EXCEPT !.late = TRUE]
  <2> dev[e] \in Socket BY DEF StateOK, SocketsOK
  <2>1. y.pc = dev[e].pc /\ y.kicked = dev[e].kicked BY DEF Socket
  <2>2. y.listening = dev[e].listening /\ y.missed = dev[e].missed /\ y.text = dev[e].text BY DEF Socket
  <2>3. Overtaken[e] \in {y, dev[e]} BY DEF Overtaken
  <2> HIDE DEF y
  <2> QED BY <2>1, <2>2, <2>3 DEF Unlinked
<1> QED BY <1>1, Links

LEMMA MoveLinks ==
    ASSUME StateOK, NEW d \in Devices, dev[d].pc # "off", NEW l, l # "off", NEW x, dev'[d] = x,
           \/ x = [dev[d] EXCEPT !.pc = l]
           \/ \E r : x = [dev[d] EXCEPT !.read = r, !.pc = l]
           \/ \E r : x = [dev[d] EXCEPT !.pc = l, !.read = r]
           \/ \E t : x = [dev[d] EXCEPT !.pc = l, !.text = t]
           \/ \E r, b : x = [dev[d] EXCEPT !.late = b, !.read = r, !.pc = l]
    PROVE  Unlinked(d)
<1> dev[d] \in Socket BY DEF StateOK, SocketsOK
<1>1. x.pc = l /\ x.kicked = dev[d].kicked BY DEF Socket
<1>2. x.missed = dev[d].missed /\ x.listening = dev[d].listening BY DEF Socket
<1> QED BY <1>1, <1>2 DEF Unlinked

LEMMA HandlerLinks ==
    ASSUME StateOK, LinksInv, NEW d \in Devices,
           \/ SendText(d) \/ ReadCache(d) \/ FindChat(d) \/ CreateChat(d)
           \/ SaveMessage(d) \/ AnnounceTransfer(d) \/ CloseByUser(d)
    PROVE  LinksInv'
<1>1. dev = [e \in Devices |-> dev[e]] BY DEF StateOK, SocketsOK
<1>2. CASE HangUp(d) BY <1>2, LeaveLinks DEF HangUp
<1>3. CASE SendText(d)
  <2>1. PICK t : dev' = [dev EXCEPT ![d] = [@ EXCEPT !.pc = "muted?", !.text = t]]
    BY <1>3 DEF SendText
  <2>2. dev'[d] = [dev[d] EXCEPT !.pc = "muted?", !.text = t] /\ \A e \in Devices \ {d} : dev'[e] = dev[e]
    BY <1>1, <2>1
  <2>3. Unlinked(d) BY <1>3, <2>2, MoveLinks DEF SendText
  <2> QED BY <2>2, <2>3, Overtakes
<1>4. CASE ReadCache(d)
  <2> DEFINE r == IF dev[d].text = None THEN None ELSE userCache
             l == IF userCache = None THEN "find" ELSE WithChat(d)
  <2>1. dev'[d] = [dev[d] EXCEPT !.late = FALSE, !.read = r, !.pc = l] /\ dev[d].pc = "chat"
    BY <1>1, <1>4 DEF ReadCache
  <2>2. \A e \in Devices \ {d} : dev'[e] = dev[e] BY <1>1, <1>4 DEF ReadCache
  <2>3. l # "off" BY DEF WithChat
  <2> HIDE DEF r, l
  <2>4. Unlinked(d) BY <2>1, <2>3, MoveLinks
  <2> QED BY <2>2, <2>4, Overtakes
<1>5. ASSUME dev[d].pc # "off", NEW r, NEW l \in {"store", "uncacheBoth"},
             \/ dev' = [dev EXCEPT ![d].read = r, ![d].pc = l]
             \/ dev' = [dev EXCEPT ![d].pc = l, ![d].read = r]
      PROVE  LinksInv'
  <2>1. /\ \/ dev'[d] = [dev[d] EXCEPT !.read = r, !.pc = l]
           \/ dev'[d] = [dev[d] EXCEPT !.pc = l, !.read = r]
        /\ \A e \in Devices \ {d} : dev'[e] = dev[e]
    BY <1>1, <1>5
  <2>2. l # "off" OBVIOUS
  <2>3. Unlinked(d) BY <1>5, <2>1, <2>2, MoveLinks
  <2> QED BY <2>1, <2>3, Overtakes
<1>6. CASE FindChat(d)
  <2>1. ASSUME Go(d, "create") PROVE LinksInv' BY <1>6, <2>1, GoLinks DEF FindChat, SocketPCs
  <2> QED BY <1>2, <1>5, <1>6, <2>1 DEF FindChat
<1>7. CASE CreateChat(d) BY <1>2, <1>5, <1>7 DEF CreateChat
<1>8. CASE SaveMessage(d)
  <2> DEFINE e == dev[d].text = "operator" /\ ~dev[d].read.escalated
             r == [dev[d].read EXCEPT !.escalated = @ \/ e]
             l == IF e THEN "uncache" ELSE "ask"
  <2>1. /\ dev'[d] = [dev[d] EXCEPT !.read = r, !.pc = l]
        /\ \A f \in Devices \ {d} : dev'[f] = dev[f]
    BY <1>1, <1>8 DEF SaveMessage
  <2>2. l # "off" OBVIOUS
  <2> HIDE DEF r, l
  <2>3. Unlinked(d) BY <1>8, <2>1, <2>2, MoveLinks DEF SaveMessage
  <2> QED BY <2>1, <2>3, Overtakes
<1>9. CASE AnnounceTransfer(d)
  <2>1. /\ dev'[d] = [Overtaken[d] EXCEPT !.pc = "ask"] /\ dev[d].pc = "uncache"
        /\ \A f \in Devices \ {d} : dev'[f] = Overtaken[f]
    BY <1>9 DEF AnnounceTransfer, Overtaken
  <2>2. Overtaken[d] = dev[d] BY <2>1 DEF Overtaken
  <2>3. Unlinked(d) BY <2>1, <2>2, MoveLinks
  <2> QED BY <2>1, <2>3, Overtakes
<1>10. CASE CloseByUser(d)
  <2>1. ASSUME Go(d, "uncacheBoth") PROVE LinksInv'
    BY <1>10, <2>1, GoLinks DEF CloseByUser, SocketPCs
  <2> QED BY <1>5, <1>10, <2>1 DEF CloseByUser
<1> QED BY <1>3, <1>4, <1>6, <1>7, <1>8, <1>9, <1>10

LEMMA GoingLinks ==
    ASSUME StateOK, LinksInv, NEW d \in Devices,
           \/ CheckMute(d) \/ CountMessage(d) \/ ExpireRate(d) \/ CountViolation(d)
           \/ ExpireSpam(d) \/ Mute(d) \/ ForgetViolations(d) \/ AskBot(d) \/ StoreCache(d)
    PROVE  LinksInv'
<1> DEFINE L == {"idle", "count", "expireRate", "violation", "chat", "expireSpam", "mute", "forgive", "save"}
<1>1. \E l \in L : Go(d, l)
  <2>1. CASE CheckMute(d) BY <2>1 DEF CheckMute
  <2>2. CASE CountMessage(d) BY <2>2 DEF CountMessage
  <2>3. CASE ExpireRate(d) BY <2>3 DEF ExpireRate
  <2>4. CASE CountViolation(d) BY <2>4 DEF CountViolation
  <2>5. CASE ExpireSpam(d) BY <2>5 DEF ExpireSpam
  <2>6. CASE Mute(d) BY <2>6 DEF Mute
  <2>7. CASE ForgetViolations(d) BY <2>7 DEF ForgetViolations
  <2>8. CASE AskBot(d) BY <2>8 DEF AskBot
  <2>9. CASE StoreCache(d) BY <2>9 DEF StoreCache, WithChat
  <2> QED BY <2>1, <2>2, <2>3, <2>4, <2>5, <2>6, <2>7, <2>8, <2>9
<1>2. dev[d].pc # "off"
  BY DEF CheckMute, CountMessage, ExpireRate, CountViolation, ExpireSpam, Mute,
         ForgetViolations, AskBot, StoreCache
<1> QED BY <1>1, <1>2, GoLinks DEF SocketPCs

LEMMA LinksKept ==
    ASSUME StateOK, LinksInv, [SupportNext]_supportVars PROVE LinksInv'
<1>1. ASSUME NEW d \in Devices, Disconnect(d) PROVE LinksInv'
  BY <1>1, LeaveLinks DEF Disconnect, HangUp
<1>2. ASSUME NEW d \in Devices, FinishClose(d) PROVE LinksInv'
  BY <1>2, LeaveLinks DEF FinishClose
<1>3. ASSUME NEW d \in Devices, Crash(d) PROVE LinksInv'
  <2>1. dev'[d] = Offline BY <1>3 DEF Crash
  <2>2. ASSUME NEW e \in Devices \ {d}
        PROVE  \/ dev'[e] = [dev[e] EXCEPT !.missed = @ \ {d}]
               \/ dev'[e] = [Overtaken[e] EXCEPT !.missed = @ \ {d}]
    BY <1>3 DEF Crash
  <2> QED BY <2>1, <2>2, LeaveLinks
<1>4. ASSUME NEW d \in Devices, UserStep(d) PROVE LinksInv'
  BY <1>1, <1>2, <1>3, <1>4, ConnectLinks, SubscribeLinks, HandlerLinks, GoingLinks DEF UserStep
<1>5. ASSUME \A e \in Devices : dev'[e] = dev[e] \/ dev'[e] = Overtaken[e] PROVE LinksInv'
  <2>1. CASE Devices = {} BY <2>1 DEF LinksInv
  <2>2. ASSUME NEW d \in Devices PROVE LinksInv'
    <3> DEFINE y == [dev[d] EXCEPT !.late = TRUE]
    <3> dev[d] \in Socket BY DEF StateOK, SocketsOK
    <3>1. y.pc = dev[d].pc /\ y.kicked = dev[d].kicked BY DEF Socket
    <3>2. y.listening = dev[d].listening /\ y.missed = dev[d].missed /\ y.text = dev[d].text BY DEF Socket
    <3>3. Overtaken[d] \in {y, dev[d]} BY DEF Overtaken
    <3> HIDE DEF y
    <3>4. Unlinked(d) BY <1>5, <3>1, <3>2, <3>3 DEF Unlinked
    <3> QED BY <1>5, <3>4, Overtakes
  <2> QED BY <2>1, <2>2
<1>6. ASSUME NEW m \in Managers, ManagerStep(m)
      PROVE  \A e \in Devices : dev'[e] = dev[e] \/ dev'[e] = Overtaken[e]
  BY <1>6
  DEF ManagerStep, OpenSocket, RestAssign, RestClose, ReadForAssign, CommitAssign, UncacheAssign,
      ManagerText, CacheChat, LeaveChat, UncacheLeave, CloseByManager, UncacheClose, LoseManager, ReadLock,
      Unlock, CrashManager, RestCommit, RestUncache
<1>7. ASSUME KeyLapses \/ BotStep \/ UNCHANGED supportVars \/ \E c \in ChatIds : LockLapses(c)
      PROVE  UNCHANGED dev
  BY <1>7 DEF KeyLapses, BotStep, TakeQuestion, Answer, Acknowledge, CrashConsumer, LockLapses, supportVars
<1> QED BY <1>4, <1>5, <1>6, <1>7 DEF SupportNext

-----------------------------------------------------------------------------
(* The antispam counters *)

Count == [n : Nat, ttl : BOOLEAN]

LimitsInv ==
    /\ rate \in Count /\ spam \in Count
    /\ rate.ttl => rate.n > 0
    /\ spam.ttl => spam.n > 0
    /\ LimitsAreLifted

Expiring(e) == dev[e].pc \in {"expireRate", "expireSpam"}

\* Handlers at an EXPIRE stay there, the counters stay as they are.
LEMMA Uncounted ==
    ASSUME LimitsInv, UNCHANGED <<rate, spam, orphaned>>,
           \A e \in Devices : Expiring(e) => dev'[e].pc = dev[e].pc
    PROVE  LimitsInv'
BY DEF LimitsInv, LimitsAreLifted, Expiring

LEMMA CountMessageLimits ==
    ASSUME StateOK, LimitsInv, NEW d \in Devices, CountMessage(d) PROVE LimitsInv'
<1>1. \E l \in {"expireRate", "violation", "chat"} : Go(d, l) /\ (rate.n = 0 => l = "expireRate")
  BY DEF CountMessage
<1>2. PICK l \in {"expireRate", "violation", "chat"} : Go(d, l) /\ (rate.n = 0 => l = "expireRate")
  BY <1>1
<1>3. dev'[d].pc = l /\ \A e \in Devices \ {d} : dev'[e] = dev[e]
  BY <1>2, GoPasses DEF SocketPCs
<1>4. /\ rate' = [rate EXCEPT !.n = @ + 1] /\ dev[d].pc = "count" /\ UNCHANGED <<spam, orphaned>>
  BY DEF CountMessage
<1>5. rate' \in Count /\ rate'.ttl = rate.ttl /\ rate'.n > 0 BY <1>4 DEF LimitsInv, Count
<1>6. (~rate.ttl) => "rate" \in orphaned \/ \E e \in Devices : dev'[e].pc = "expireRate"
  <2>1. CASE rate.n = 0 BY <1>2, <1>3, <2>1
  <2>2. CASE rate.n # 0
    <3>1. rate.n > 0 BY <2>2 DEF LimitsInv, Count
    <3> QED BY <1>3, <1>4, <3>1 DEF LimitsInv, LimitsAreLifted
  <2> QED BY <2>1, <2>2
<1>7. (spam.n > 0 /\ ~spam.ttl) => "spam" \in orphaned \/ \E e \in Devices : dev'[e].pc = "expireSpam"
  BY <1>3, <1>4 DEF LimitsInv, LimitsAreLifted
<1> QED BY <1>4, <1>5, <1>6, <1>7 DEF LimitsInv, LimitsAreLifted

LEMMA CountViolationLimits ==
    ASSUME StateOK, LimitsInv, NEW d \in Devices, CountViolation(d) PROVE LimitsInv'
<1>1. \E l \in {"expireSpam", "mute", "idle"} : Go(d, l) /\ (spam.n = 0 => l = "expireSpam")
  BY DEF CountViolation
<1>2. PICK l \in {"expireSpam", "mute", "idle"} : Go(d, l) /\ (spam.n = 0 => l = "expireSpam")
  BY <1>1
<1>3. dev'[d].pc = l /\ \A e \in Devices \ {d} : dev'[e] = dev[e]
  BY <1>2, GoPasses DEF SocketPCs
<1>4. /\ spam' = [spam EXCEPT !.n = @ + 1] /\ dev[d].pc = "violation" /\ UNCHANGED <<rate, orphaned>>
  BY DEF CountViolation
<1>5. spam' \in Count /\ spam'.ttl = spam.ttl /\ spam'.n > 0 BY <1>4 DEF LimitsInv, Count
<1>6. (~spam.ttl) => "spam" \in orphaned \/ \E e \in Devices : dev'[e].pc = "expireSpam"
  <2>1. CASE spam.n = 0 BY <1>2, <1>3, <2>1
  <2>2. CASE spam.n # 0
    <3>1. spam.n > 0 BY <2>2 DEF LimitsInv, Count
    <3> QED BY <1>3, <1>4, <3>1 DEF LimitsInv, LimitsAreLifted
  <2> QED BY <2>1, <2>2
<1>7. (rate.n > 0 /\ ~rate.ttl) => "rate" \in orphaned \/ \E e \in Devices : dev'[e].pc = "expireRate"
  BY <1>3, <1>4 DEF LimitsInv, LimitsAreLifted
<1> QED BY <1>4, <1>5, <1>6, <1>7 DEF LimitsInv, LimitsAreLifted

\* EXPIRE answers for a key that is there.
LEMMA TtlSet ==
    ASSUME NEW k \in Count, NEW j, j = [k EXCEPT !.ttl = k.n > 0]
    PROVE  j \in Count /\ (j.ttl <=> j.n > 0)
<1> DEFINE b == k.n > 0
<1>1. b \in BOOLEAN OBVIOUS
<1>2. j = [k EXCEPT !.ttl = b] OBVIOUS
<1> HIDE DEF b
<1>3. j \in Count /\ j.ttl = b /\ j.n = k.n BY <1>1, <1>2 DEF Count
<1>4. b <=> k.n > 0 BY DEF b
<1> QED BY <1>3, <1>4

LEMMA ExpireLimits ==
    ASSUME StateOK, LimitsInv, NEW d \in Devices, ExpireRate(d) \/ ExpireSpam(d) PROVE LimitsInv'
<1>1. CASE ExpireRate(d)
  <2>1. dev[d].pc = "expireRate" /\ rate' = [rate EXCEPT !.ttl = rate.n > 0] /\ UNCHANGED <<spam, orphaned>>
        /\ Go(d, "chat")
    BY <1>1 DEF ExpireRate
  <2>2. \A e \in Devices \ {d} : dev'[e] = dev[e] BY <2>1, GoPasses DEF SocketPCs
  <2>3. rate' \in Count /\ (rate'.ttl <=> rate'.n > 0) BY <2>1, TtlSet DEF LimitsInv
  <2> QED BY <2>1, <2>2, <2>3 DEF LimitsInv, LimitsAreLifted
<1>2. CASE ExpireSpam(d)
  <2>1. dev[d].pc = "expireSpam" /\ spam' = [spam EXCEPT !.ttl = spam.n > 0] /\ UNCHANGED <<rate, orphaned>>
        /\ \E l \in {"mute", "idle"} : Go(d, l)
    BY <1>2 DEF ExpireSpam
  <2>2. \A e \in Devices \ {d} : dev'[e] = dev[e] BY <2>1, GoPasses DEF SocketPCs
  <2>3. spam' \in Count /\ (spam'.ttl <=> spam'.n > 0) BY <2>1, TtlSet DEF LimitsInv
  <2> QED BY <2>1, <2>2, <2>3 DEF LimitsInv, LimitsAreLifted
<1> QED BY <1>1, <1>2

\* Whether the counter is dropped by its owner or by its TTL: nothing is left.
LEMMA Forgotten == NoCount \in Count /\ NoCount.n = 0 /\ ~NoCount.ttl
BY DEF NoCount, Count

LEMMA ForgetLimits ==
    ASSUME StateOK, LimitsInv, NEW d \in Devices, ForgetViolations(d) PROVE LimitsInv'
<1>1. spam' = NoCount /\ orphaned' = orphaned \ {"spam"} /\ UNCHANGED rate /\ dev[d].pc = "forgive"
      /\ Go(d, "idle")
  BY DEF ForgetViolations
<1>2. \A e \in Devices \ {d} : dev'[e] = dev[e] BY <1>1, GoPasses DEF SocketPCs
<1> QED BY <1>1, <1>2, Forgotten DEF LimitsInv, LimitsAreLifted

LEMMA KeyLapsesLimits == ASSUME LimitsInv, KeyLapses PROVE LimitsInv'
<1>1. UNCHANGED <<dev, orphaned>> /\ rate' \in {rate, NoCount} /\ spam' \in {spam, NoCount}
  BY DEF KeyLapses
<1> QED BY <1>1, Forgotten DEF LimitsInv, LimitsAreLifted

LEMMA CrashLimits ==
    ASSUME StateOK, LimitsInv, NEW d \in Devices, Crash(d) PROVE LimitsInv'
<1>1. /\ UNCHANGED <<rate, spam>> /\ orphaned \subseteq orphaned'
      /\ dev[d].pc = "expireRate" => "rate" \in orphaned'
      /\ dev[d].pc = "expireSpam" => "spam" \in orphaned'
  BY DEF Crash
<1>2. ASSUME NEW e \in Devices \ {d}, Expiring(e) PROVE dev'[e].pc = dev[e].pc
  <2>1. dev[e] \in Socket BY DEF StateOK, SocketsOK
  <2>2. Overtaken[e] = dev[e] BY <1>2 DEF Overtaken, Expiring
  <2>3. dev'[e] = [dev[e] EXCEPT !.missed = @ \ {d}] BY <2>2 DEF Crash
  <2> QED BY <2>1, <2>3 DEF Socket
<1> QED BY <1>1, <1>2 DEF LimitsInv, LimitsAreLifted, Expiring

LEMMA LimitsKept ==
    ASSUME StateOK, LimitsInv, [SupportNext]_supportVars PROVE LimitsInv'
<1>1. \A e \in Devices : dev[e] \in Socket BY DEF StateOK, SocketsOK
<1>2. \A e \in Devices : Expiring(e) => Overtaken[e] = dev[e] BY DEF Overtaken, Expiring
<1>3. ASSUME NEW d \in Devices, ~Expiring(d), UNCHANGED spamVars,
             \A e \in Devices \ {d} : \/ dev'[e] \in {dev[e], Overtaken[e]}
                                      \/ Expiring(e) => dev'[e].pc = dev[e].pc
      PROVE  LimitsInv'
  <2>1. \A e \in Devices : Expiring(e) => dev'[e].pc = dev[e].pc BY <1>2, <1>3
  <2> QED BY <1>3, <2>1, Uncounted DEF spamVars
<1>4. ASSUME NEW d \in Devices,
             \/ CountMessage(d) \/ CountViolation(d) \/ ExpireRate(d) \/ ExpireSpam(d)
             \/ ForgetViolations(d) \/ Crash(d)
      PROVE  LimitsInv'
  BY <1>4, CountMessageLimits, CountViolationLimits, ExpireLimits, ForgetLimits, CrashLimits
<1>5. ASSUME NEW d \in Devices, Mute(d) PROVE LimitsInv'
  <2>1. UNCHANGED <<rate, spam, orphaned>> /\ Go(d, "forgive") /\ dev[d].pc = "mute" BY <1>5 DEF Mute
  <2>2. \A e \in Devices \ {d} : dev'[e] = dev[e] BY <2>1, GoPasses DEF SocketPCs
  <2> QED BY <2>1, <2>2, Uncounted DEF Expiring
<1>6. ASSUME NEW d \in Devices, Subscribe(d) PROVE LimitsInv'
  <2>1. \A e \in Devices : dev'[e].pc = dev[e].pc
    BY <1>1, <1>6 DEF Subscribe, Socket
  <2> QED BY <1>6, <2>1, Uncounted DEF Subscribe, spamVars
<1>7. ASSUME NEW d \in Devices, Connect(d) PROVE LimitsInv'
  <2>1. ASSUME NEW e \in Devices, Expiring(e) PROVE dev'[e].pc = dev[e].pc
    <3>1. dev'[e] \in {dev[e], [dev[e] EXCEPT !.kicked = TRUE], [dev[e] EXCEPT !.missed = @ \cup {d}]}
      BY <1>7, <2>1 DEF Connect, Expiring
    <3>2. dev[e] \in Socket BY <1>1
    <3> QED BY <3>1, <3>2 DEF Socket
  <2> QED BY <1>7, <2>1, Uncounted DEF Connect, spamVars
<1>8. ASSUME NEW d \in Devices, HangUp(d), ~Expiring(d), UNCHANGED spamVars PROVE LimitsInv'
  <2>1. ASSUME NEW e \in Devices \ {d} PROVE dev'[e].pc = dev[e].pc
    BY <1>1, <1>8 DEF HangUp, Socket
  <2> QED BY <1>3, <1>8, <2>1
<1>9. ASSUME NEW d \in Devices, FinishClose(d) PROVE LimitsInv'
  <2>1. ASSUME NEW e \in Devices \ {d}, Expiring(e) PROVE dev'[e].pc = dev[e].pc
    <3>1. dev'[e] = [dev[e] EXCEPT !.missed = @ \ {d}] BY <1>2, <1>9, <2>1 DEF FinishClose
    <3>2. dev[e] \in Socket BY <1>1
    <3> QED BY <3>1, <3>2 DEF Socket
  <2>2. ~Expiring(d) /\ UNCHANGED spamVars BY <1>9 DEF FinishClose, Expiring
  <2> QED BY <1>3, <2>1, <2>2
<1>10. ASSUME NEW d \in Devices,
              \/ SendText(d) \/ CheckMute(d) \/ ReadCache(d) \/ StoreCache(d) \/ SaveMessage(d)
              \/ AnnounceTransfer(d) \/ AskBot(d)
       PROVE  LimitsInv'
  <2>1. ~Expiring(d) /\ UNCHANGED spamVars
    BY <1>10 DEF SendText, CheckMute, ReadCache, StoreCache, SaveMessage, AnnounceTransfer, AskBot, Expiring
  <2>2. \A e \in Devices \ {d} : dev'[e] \in {dev[e], Overtaken[e]}
    <3>1. dev = [e \in Devices |-> dev[e]] /\ Overtaken = [e \in Devices |-> Overtaken[e]]
      BY DEF StateOK, SocketsOK, Overtaken
    <3>2. CASE AnnounceTransfer(d) BY <3>1, <3>2 DEF AnnounceTransfer
    <3>3. CASE SendText(d) BY <3>1, <3>3 DEF SendText
    <3>4. CASE ReadCache(d) BY <3>1, <3>4 DEF ReadCache
    <3>5. CASE SaveMessage(d) BY <3>1, <3>5 DEF SaveMessage
    <3>6. CASE CheckMute(d) \/ StoreCache(d) \/ AskBot(d)
      BY <3>1, <3>6 DEF CheckMute, StoreCache, AskBot, Go
    <3> QED BY <1>10, <3>2, <3>3, <3>4, <3>5, <3>6
  <2> QED BY <1>3, <2>1, <2>2
<1>11. ASSUME NEW d \in Devices, FindChat(d) \/ CreateChat(d) \/ CloseByUser(d) \/ Disconnect(d)
       PROVE  LimitsInv'
  <2>1. ~Expiring(d) /\ UNCHANGED spamVars
    BY <1>11 DEF FindChat, CreateChat, CloseByUser, Disconnect, Expiring
  <2>2. HangUp(d) \/ \A e \in Devices \ {d} : dev'[e] = dev[e]
    <3>1. dev = [e \in Devices |-> dev[e]] BY DEF StateOK, SocketsOK
    <3>2. CASE FindChat(d) BY <3>1, <3>2 DEF FindChat, Go
    <3>3. CASE CreateChat(d) BY <3>1, <3>3 DEF CreateChat
    <3>4. CASE CloseByUser(d) BY <3>1, <3>4 DEF CloseByUser, Go
    <3>5. CASE Disconnect(d) BY <3>5 DEF Disconnect
    <3> QED BY <1>11, <3>2, <3>3, <3>4, <3>5
  <2> QED BY <1>3, <1>8, <2>1, <2>2
<1>12. ASSUME NEW d \in Devices, UserStep(d) PROVE LimitsInv'
  BY <1>4, <1>5, <1>6, <1>7, <1>9, <1>10, <1>11, <1>12 DEF UserStep
<1>13. ASSUME NEW m \in Managers, ManagerStep(m)
       PROVE  UNCHANGED spamVars /\ \A e \in Devices : dev'[e] = dev[e] \/ dev'[e] = Overtaken[e]
  BY <1>13
  DEF ManagerStep, OpenSocket, RestAssign, RestClose, ReadForAssign, CommitAssign, UncacheAssign,
      ManagerText, CacheChat, LeaveChat, UncacheLeave, CloseByManager, UncacheClose, LoseManager, ReadLock,
      Unlock, CrashManager, RestCommit, RestUncache
<1>14. ASSUME BotStep \/ UNCHANGED supportVars \/ \E c \in ChatIds : LockLapses(c)
       PROVE  UNCHANGED spamVars /\ UNCHANGED dev
  BY <1>14 DEF BotStep, TakeQuestion, Answer, Acknowledge, CrashConsumer, LockLapses, supportVars
<1>15. ASSUME UNCHANGED spamVars, \A e \in Devices : dev'[e] = dev[e] \/ dev'[e] = Overtaken[e]
       PROVE  LimitsInv'
  BY <1>2, <1>15, Uncounted DEF spamVars
<1> QED BY <1>12, <1>13, <1>14, <1>15, KeyLapsesLimits DEF SupportNext

-----------------------------------------------------------------------------
(* The bot's questions *)

Waiting == {queue[i] : i \in 1..Len(queue)}

QuestionsInv ==
    /\ queue \in Seq(Question) /\ bot \in {None} \cup Question
    /\ asked \subseteq Question /\ IsFiniteSet(asked)
    /\ answered \subseteq asked
    /\ NoQuestionLost

LEMMA AskBotQuestions ==
    ASSUME StateOK, QuestionsInv, NEW d \in Devices, AskBot(d) PROVE QuestionsInv'
<1>1. CASE UNCHANGED <<queue, asked>>
  BY <1>1 DEF AskBot, QuestionsInv, NoQuestionLost
<1>2. CASE ~UNCHANGED <<queue, asked>>
  <2> DEFINE q == [no |-> Cardinality(asked) + 1, chat |-> dev[d].read.id]
  <2>1. queue' = Append(queue, q) /\ asked' = asked \cup {q} /\ UNCHANGED <<bot, settled, answered>>
    BY <1>2 DEF AskBot
  <2>2. dev[d].read \in Read BY DEF AskBot, StateOK, SocketsOK, Socket
  <2>3. Cardinality(asked) \in Nat BY FS_CardinalityType DEF QuestionsInv
  <2>4. q \in Question BY <2>2, <2>3 DEF Question, Read
  <2> HIDE DEF q
  <2>5. /\ queue' \in Seq(Question) /\ Len(queue') = Len(queue) + 1
        /\ \A i \in 1..Len(queue) : queue'[i] = queue[i]
        /\ queue'[Len(queue) + 1] = q
    BY <2>1, <2>4 DEF QuestionsInv
  <2>6. Len(queue) \in Nat BY DEF QuestionsInv
  <2>7. Waiting' = Waiting \cup {q}
    <3>1. \A i \in 1..Len(queue') : i \in 1..Len(queue) \/ i = Len(queue) + 1 BY <2>5, <2>6
    <3>2. \A i \in 1..Len(queue') : queue'[i] \in Waiting \cup {q} BY <2>5, <3>1 DEF Waiting
    <3>3. \A i \in 1..Len(queue) : i \in 1..Len(queue') BY <2>5, <2>6
    <3>4. \A i \in 1..Len(queue) : queue[i] \in Waiting' BY <2>5, <3>3 DEF Waiting
    <3>5. q \in Waiting'
      <4>1. Len(queue) + 1 \in 1..Len(queue') BY <2>5, <2>6
      <4> QED BY <2>5, <4>1 DEF Waiting
    <3> QED BY <3>2, <3>4, <3>5 DEF Waiting
  <2>8. IsFiniteSet(asked') BY <2>1, FS_AddElement DEF QuestionsInv
  <2>9. NoQuestionLost' BY <2>1, <2>7 DEF QuestionsInv, NoQuestionLost, Waiting
  <2> QED BY <2>1, <2>4, <2>5, <2>8, <2>9 DEF QuestionsInv
<1> QED BY <1>1, <1>2

LEMMA BotQuestions == ASSUME QuestionsInv, BotStep PROVE QuestionsInv'
<1>1. /\ queue \in Seq(Question) /\ bot \in {None} \cup Question /\ asked = Waiting \cup ({bot} \ {None}) \cup settled
      /\ Len(queue) \in Nat
  BY DEF QuestionsInv, NoQuestionLost, Waiting
<1>2. \A q \in Question : q # None BY SupportAssumption DEF SupportAssumption
<1>3. CASE TakeQuestion
  <2>1. bot = None /\ queue # <<>> /\ bot' = Head(queue) /\ queue' = Tail(queue)
        /\ UNCHANGED <<settled, answered, asked>>
    BY <1>3 DEF TakeQuestion
  <2>2. /\ queue' \in Seq(Question) /\ Len(queue') = Len(queue) - 1 /\ bot' = queue[1]
        /\ \A i \in 1..Len(queue') : queue'[i] = queue[i + 1]
        /\ Len(queue) > 0 /\ bot' \in Question
    BY <1>1, <2>1
  <2>3. Waiting = Waiting' \cup {bot'}
    <3>1. ASSUME NEW i \in 1..Len(queue) PROVE queue[i] \in Waiting' \cup {bot'}
      <4>1. CASE i = 1 BY <2>2, <4>1
      <4>2. CASE i # 1
        <5>1. i - 1 \in 1..Len(queue') /\ queue'[i - 1] = queue[i] BY <1>1, <2>2, <4>2
        <5> QED BY <5>1 DEF Waiting
      <4> QED BY <4>1, <4>2
    <3>2. ASSUME NEW i \in 1..Len(queue') PROVE queue'[i] \in Waiting
      <4>1. i + 1 \in 1..Len(queue) /\ queue'[i] = queue[i + 1] BY <1>1, <2>2
      <4> QED BY <4>1 DEF Waiting
    <3>3. bot' \in Waiting BY <1>1, <2>2 DEF Waiting
    <3> QED BY <3>1, <3>2, <3>3 DEF Waiting
  <2>4. NoQuestionLost' BY <1>1, <1>2, <2>1, <2>2, <2>3 DEF NoQuestionLost, Waiting
  <2> QED BY <2>1, <2>2, <2>4 DEF QuestionsInv
<1>4. CASE Answer
  <2>1. answered' = answered \cup {bot} /\ bot # None /\ UNCHANGED <<queue, bot, settled, asked>>
    BY <1>4 DEF Answer
  <2>2. bot \in asked BY <1>1, <2>1
  <2> QED BY <2>1, <2>2 DEF QuestionsInv, NoQuestionLost
<1>5. CASE Acknowledge
  <2>1. settled' = settled \cup {bot} /\ bot' = None /\ bot # None /\ UNCHANGED <<queue, answered, asked>>
    BY <1>5 DEF Acknowledge
  <2> QED BY <1>1, <2>1 DEF QuestionsInv, NoQuestionLost, Waiting
<1>6. CASE CrashConsumer
  <2>1. queue' = <<bot>> \o queue /\ bot' = None /\ bot # None /\ UNCHANGED <<settled, answered, asked>>
    BY <1>6 DEF CrashConsumer
  <2>2. bot \in Question BY <1>1, <2>1
  <2>3. queue' \in Seq(Question) /\ Len(queue') = Len(queue) + 1 /\ queue'[1] = bot
        /\ \A i \in 1..Len(queue) : queue'[i + 1] = queue[i]
    BY <1>1, <2>1, <2>2
  <2>4. Waiting' = Waiting \cup {bot}
    <3>1. ASSUME NEW i \in 1..Len(queue') PROVE queue'[i] \in Waiting \cup {bot}
      <4>1. CASE i = 1 BY <2>3, <4>1
      <4>2. CASE i # 1
        <5>1. i - 1 \in 1..Len(queue) /\ (i - 1) + 1 = i BY <1>1, <2>3, <4>2
        <5>2. queue'[i] = queue[i - 1] BY <2>3, <5>1
        <5> QED BY <5>1, <5>2 DEF Waiting
      <4> QED BY <4>1, <4>2
    <3>2. ASSUME NEW i \in 1..Len(queue) PROVE queue[i] \in Waiting'
      <4>1. i + 1 \in 1..Len(queue') BY <1>1, <2>3
      <4> QED BY <2>3, <4>1 DEF Waiting
    <3>3. bot \in Waiting'
      <4>1. 1 \in 1..Len(queue') BY <1>1, <2>3
      <4> QED BY <2>3, <4>1 DEF Waiting
    <3> QED BY <3>1, <3>2, <3>3 DEF Waiting
  <2>5. NoQuestionLost' BY <1>1, <2>1, <2>4 DEF NoQuestionLost, Waiting
  <2> QED BY <2>1, <2>3, <2>5 DEF QuestionsInv
<1> QED BY <1>3, <1>4, <1>5, <1>6 DEF BotStep

LEMMA QuestionsKept ==
    ASSUME StateOK, QuestionsInv, [SupportNext]_supportVars PROVE QuestionsInv'
<1>1. UNCHANGED <<queue, bot, settled, answered, asked>> => QuestionsInv'
  BY DEF QuestionsInv, NoQuestionLost
<1>2. ASSUME NEW d \in Devices, UserStep(d), ~AskBot(d)
      PROVE  UNCHANGED <<queue, bot, settled, answered, asked>>
  BY <1>2
  DEF UserStep, Connect, Subscribe, Disconnect, SendText, CheckMute, CountMessage, ExpireRate,
      CountViolation, ExpireSpam, Mute, ForgetViolations, ReadCache, FindChat, CreateChat,
      StoreCache, SaveMessage, AnnounceTransfer, CloseByUser, FinishClose, Crash, botVars
<1>3. ASSUME NEW m \in Managers, ManagerStep(m)
      PROVE  UNCHANGED <<queue, bot, settled, answered, asked>>
  BY <1>3
  DEF ManagerStep, OpenSocket, RestAssign, RestClose, ReadForAssign, CommitAssign, UncacheAssign,
      ManagerText, CacheChat, LeaveChat, UncacheLeave, CloseByManager, UncacheClose, LoseManager, ReadLock,
      Unlock, CrashManager, RestCommit, RestUncache, botVars
<1>4. ASSUME KeyLapses \/ UNCHANGED supportVars \/ \E c \in ChatIds : LockLapses(c)
      PROVE  UNCHANGED <<queue, bot, settled, answered, asked>>
  BY <1>4 DEF KeyLapses, LockLapses, supportVars, botVars
<1> QED BY <1>1, <1>2, <1>3, <1>4, AskBotQuestions, BotQuestions DEF SupportNext

-----------------------------------------------------------------------------
(* What holds of the support chat *)

SupportInv == CacheInv /\ LocksInv /\ LinksInv /\ LimitsInv /\ QuestionsInv

LEMMA SupportStart == SupportInit => SupportInv
<1> SUFFICES ASSUME SupportInit PROVE SupportInv OBVIOUS
<1>1. chats \in [ChatIds -> {None} \cup Row]
  BY NewFits DEF SupportInit
<1>2. \A a, b \in OpenChats : a = b
  <2>1. \A a \in OpenChats : ~(a > 1) /\ a \in 1..MaxChats BY DEF SupportInit, OpenChats, ChatIds
  <2> QED BY <2>1, SupportAssumption DEF SupportAssumption
<1>3. ChatsOK BY <1>1, <1>2 DEF SupportInit, ChatsOK, Known
<1>4. /\ Offline \in Socket /\ Offline.pc = "off" /\ Offline.read = None /\ ~Offline.listening
      /\ Offline.text = None
  BY DEF Offline, Socket, SocketPCs
<1>5. dev = [d \in Devices |-> Offline] BY DEF SupportInit
<1>6. SocketsOK BY <1>4, <1>5 DEF SocketsOK, Known
<1>7. Detached \in ManagerSocket /\ Detached \in Call /\ Detached.pc = "off" /\ Detached.chat = None
  BY DEF Detached, ManagerSocket, ManagerPCs, Call, CallPCs
<1>8. mgr = [m \in Managers |-> Detached] /\ rest = [m \in Managers |-> Detached] BY DEF SupportInit
<1>9. ManagersOK BY <1>7, <1>8 DEF ManagersOK
<1>10. CacheInv BY <1>3, <1>4, <1>5, <1>6, <1>9 DEF SupportInit, CacheInv, StateOK
<1>11. LocksInv BY <1>7, <1>8 DEF SupportInit, LocksInv
<1>12. LinksInv BY <1>4, <1>5 DEF LinksInv
<1>13. LimitsInv BY Forgotten DEF SupportInit, LimitsInv, LimitsAreLifted
<1>14. QuestionsInv
  <2>1. queue = <<>> /\ bot = None /\ settled = {} /\ answered = {} /\ asked = {} BY DEF SupportInit
  <2>2. Waiting = {} BY <2>1 DEF Waiting
  <2> QED BY <2>1, <2>2, FS_EmptySet DEF QuestionsInv, NoQuestionLost, Waiting
<1> QED BY <1>10, <1>11, <1>12, <1>13, <1>14 DEF SupportInv

\* The invariant the theorems below rest on.
THEOREM SupportInvariance == SupportSpec => []SupportInv
<1>1. SupportInv /\ [SupportNext]_supportVars => SupportInv'
  BY CacheKept, LocksKept, LinksKept, LimitsKept, QuestionsKept DEF SupportInv, CacheInv
<1> QED BY <1>1, SupportStart, PTL DEF SupportSpec

\* A manager's socket shares its chat with another one only if the lock of one of
\* the two ran out (support_chat_manager_ws never renews it).
THEOREM ManagersDoNotMeet == SupportSpec => []OneManagerPerChat
<1>1. SupportInv => OneManagerPerChat BY DEF SupportInv, LocksInv, OneManagerPerChat
<1> QED BY <1>1, SupportInvariance, PTL

\* A user's device stays connected beside a newer one only if it was still
\* connecting when the newer one published its kick.
THEOREM TheNewestDeviceStays == SupportSpec => []NewestDeviceStays
<1>1. SupportInv => NewestDeviceStays BY DEF SupportInv, LinksInv, NewestDeviceStays
<1> QED BY <1>1, SupportInvariance, PTL

\* The cached chat trails its row no longer than the handler that changed the row
\* takes to drop it, but for a late SET and a DEL that died.
THEOREM TheCacheFollowsTheRow == SupportSpec => []CacheTrailsItsWriter
<1>1. SupportInv => CacheTrailsItsWriter
  BY DEF SupportInv, CacheInv, Matches, Pending, Busy, BusyManager, CacheTrailsItsWriter
<1> QED BY <1>1, SupportInvariance, PTL

\* The chat's half of LimitsEnd: only a crash between INCR and EXPIRE leaves a
\* counter that refuses its user for ever.
THEOREM NobodyIsMutedForEver == SupportSpec => []LimitsAreLifted
<1>1. SupportInv => LimitsAreLifted BY DEF SupportInv, LimitsInv
<1> QED BY <1>1, SupportInvariance, PTL

\* A question published to the bot is queued, at work or settled, however often
\* its consumer dies.
THEOREM NoQuestionIsForgotten == SupportSpec => []NoQuestionLost
<1>1. SupportInv => NoQuestionLost BY DEF SupportInv, QuestionsInv
<1> QED BY <1>1, SupportInvariance, PTL

\* The types of the chat's variables; the user has at most one open chat.
THEOREM SupportTypes == SupportSpec => []SupportTypeOK
<1>1. ASSUME SupportInv PROVE SupportTypeOK
  <2>1. StateOK /\ LimitsInv /\ QuestionsInv /\ LocksInv BY <1>1 DEF SupportInv, CacheInv
  <2>2. Cardinality(OpenChats) <= 1
    <3>1. CASE OpenChats = {} BY <3>1, FS_EmptySet
    <3>2. CASE OpenChats # {}
      <4>1. PICK c \in OpenChats : TRUE BY <3>2
      <4>2. OpenChats = {c} BY <2>1, <4>1 DEF StateOK, ChatsOK
      <4>3. Cardinality({c}) = 1 BY FS_Singleton
      <4> QED BY <4>2, <4>3
    <3> QED BY <3>1, <3>2
  <2>3. \A k \in {rate, spam} : k.n \in Nat /\ k.ttl \in BOOLEAN /\ (k.ttl => k.n > 0)
    BY <2>1 DEF LimitsInv, Count
  <2>4. settled \subseteq asked /\ answered \subseteq asked BY <2>1 DEF QuestionsInv, NoQuestionLost
  <2>5. locks \in [ChatIds -> Managers \cup {None}] BY <2>1 DEF LocksInv
  <2> QED BY <2>1, <2>2, <2>3, <2>4, <2>5 DEF StateOK, ChatsOK, SocketsOK, ManagersOK, Known, SupportTypeOK
<1> QED BY <1>1, SupportInvariance, PTL
=============================================================================
