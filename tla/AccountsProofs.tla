---------------------------- MODULE AccountsProofs ----------------------------
(***************************************************************************)
(* The refresh sessions of one account, for any number of browsers, tabs   *)
(* and tokens: what was spent stays dead, and requests that never overlap  *)
(* keep the list of sessions exact.  Then registration, login and Google   *)
(* sign-in for any number of forms, codes and passwords, and the promises  *)
(* of Sessions with the account around them.                               *)
(*                                                                         *)
(* SpentIsDead is not inductive: a token returns to Redis when a request   *)
(* stores it, so the invariant must know that a token about to be stored   *)
(* is no browser's cookie and no request's token yet (Unborn), and that a  *)
(* request that has taken its token out never sees it come back (Dropped). *)
(* Nor is it inductive that an address becomes active with the password    *)
(* its code was asked with: it rests on the live codes that reached the    *)
(* mailbox, which agree with the row (CodeInv) because a form that is      *)
(* about to write either has seen that there are none.                     *)
(***************************************************************************)
EXTENDS Accounts, TLAPS, FiniteSetTheorems

-----------------------------------------------------------------------------
(* Refresh sessions *)

Storing == {"count", "oldest", "evict", "unlistOldest", "store"}
Holding == {"check", "user", "drop", "unlist"}
Creating == Storing \cup {"list", "answer"}

\* Whatever anyone holds came from the generator.
Issued ==
    /\ \A b \in Browsers : cookie[b] \in issued \cup {Nil}
    /\ \A r \in Requests : /\ req[r].token \in issued \cup {Nil}
                           /\ req[r].new \in issued \cup {Nil}
                           /\ req[r].pc \in Creating => req[r].new \in issued
                           /\ req[r].pc \in Holding => req[r].token \in issued
    /\ spent \subseteq issued

\* A token that is not stored yet is known to its request alone.
Unborn ==
    \A r \in Requests : req[r].pc \in Storing =>
        /\ req[r].new \notin keys \cup listed \cup spent
        /\ \A b \in Browsers : cookie[b] # req[r].new
        /\ \A q \in Requests : req[q].token # req[r].new

OwnToken ==
    \A r, q \in Requests : req[r].new # Nil /\ req[q].new = req[r].new => r = q

\* A request that has removed its token goes on without it.
Dropped ==
    \A r \in Requests : req[r].pc \in {"unlist"} \cup Creating => req[r].token \notin keys

TokenInv == SessionsTypeOK /\ Issued /\ Unborn /\ OwnToken /\ Dropped /\ SpentIsDead

\* What a request without company knows: who else is in flight, how many tokens
\* are on the list, which of them it removes.
Alone ==
    \A r, q \in Requests : req[r].pc # "idle" /\ req[q].pc # "idle" => r = q

ListInv ==
    /\ Cardinality(listed) <= MaxSessions
    /\ \A b \in Browsers : cookie[b] \in keys => cookie[b] \in listed
    /\ \A r \in Requests :
          /\ req[r].pc \in {"store", "list"} => Cardinality(listed) < MaxSessions
          /\ req[r].pc \in {"evict", "unlistOldest"} =>
                \E t \in listed : req[r].found = {t}
          /\ req[r].pc = "unlistOldest" => req[r].found \cap keys = {}
          /\ req[r].pc = "purgeKeys" => req[r].found = listed
          /\ req[r].pc = "purgeList" => listed \cap keys = {}
          /\ req[r].pc = "answer" => req[r].new \in listed

SoloInv == solo => Alone /\ ListInv

SessionsInv == TokenInv /\ SoloInv

-----------------------------------------------------------------------------
\* The type of a request, and the ways a step changes one.
PCs == {"idle", "check", "user", "drop", "unlist", "count", "oldest", "evict",
        "unlistOldest", "store", "list", "answer", "purge", "purgeKeys", "purgeList"}
Goals == {"none", "signin", "refresh", "logout", "all", "replay", "inactive"}
Request == [pc : PCs, by : Browsers \cup {Nil}, goal : Goals,
            token : Tokens \cup {Nil}, new : Tokens \cup {Nil}, found : SUBSET Tokens]

LEMMA RequestType == SessionsTypeOK => req \in [Requests -> Request]
BY DEF SessionsTypeOK, Request, PCs, Goals

LEMMA Going ==
    ASSUME req \in [Requests -> Request], NEW r \in Requests, NEW l \in PCs
    PROVE  /\ [req EXCEPT ![r].pc = l] \in [Requests -> Request]
           /\ \A g \in Goals : [req EXCEPT ![r].pc = l, ![r].goal = g] \in [Requests -> Request]
           /\ \A n \in Tokens \cup {Nil} : [req EXCEPT ![r].pc = l, ![r].new = n] \in [Requests -> Request]
           /\ \A f \in SUBSET Tokens : [req EXCEPT ![r].pc = l, ![r].found = f] \in [Requests -> Request]
           /\ [req EXCEPT ![r] = Idle] \in [Requests -> Request]
<1>1. Idle \in Request BY DEF Request, Idle, PCs, Goals
<1>2. [req EXCEPT ![r].pc = l] \in [Requests -> Request] BY DEF Request
<1>3. \A g \in Goals : [req EXCEPT ![r].pc = l, ![r].goal = g] \in [Requests -> Request]
  BY DEF Request
<1>4. \A n \in Tokens \cup {Nil} : [req EXCEPT ![r].pc = l, ![r].new = n] \in [Requests -> Request]
  BY DEF Request
<1>5. \A f \in SUBSET Tokens : [req EXCEPT ![r].pc = l, ![r].found = f] \in [Requests -> Request]
  BY DEF Request
<1> QED BY <1>1, <1>2, <1>3, <1>4, <1>5

\* time.time() as a counter is a number; the list of tokens is finite.
LEMMA Counting ==
    ASSUME SessionsTypeOK
    PROVE  /\ Cardinality({t \in Tokens : scores[t] > 0}) + 1 \in Nat
           /\ IsFiniteSet(listed) /\ Cardinality(listed) \in Nat
<1>1. \A T \in SUBSET Tokens : IsFiniteSet(T) /\ Cardinality(T) \in Nat
  BY FS_Subset, FS_CardinalityType, SessionsAssumption DEF SessionsAssumption
<1>2. {t \in Tokens : scores[t] > 0} \in SUBSET Tokens
  OBVIOUS
<1>3. listed \in SUBSET Tokens
  BY DEF SessionsTypeOK
<1> QED BY <1>1, <1>2, <1>3

-----------------------------------------------------------------------------
\* A request arrives with nothing, or with its browser's cookie, or with a token
\* just made.
LEMMA ArriveToken ==
    ASSUME TokenInv, NEW r \in Requests, NEW b \in Browsers,
           NEW l \in {"check", "drop", "purge"}, NEW g \in Goals,
           cookie[b] # Nil, Arrive(r, b, l, g, cookie[b], Nil), UNCHANGED issued
    PROVE  TokenInv'
<1>1. req' \in [Requests -> Request]
  BY RequestType DEF TokenInv, SessionsTypeOK, Arrive, Request, PCs
<1>2. SessionsTypeOK'
  BY DEF TokenInv, SessionsTypeOK, Arrive, Goals
<1>3. Issued' BY DEF TokenInv, Arrive, Issued, Storing, Creating
<1>4. Unborn' BY DEF TokenInv, Arrive, Unborn, Storing
<1>5. OwnToken' BY RequestType DEF TokenInv, SessionsTypeOK, Arrive, OwnToken, Request
<1>6. Dropped' BY DEF TokenInv, Arrive, Dropped, Storing, Creating
<1>7. SpentIsDead' BY DEF TokenInv, Arrive, SpentIsDead
<1> QED BY <1>2, <1>3, <1>4, <1>5, <1>6, <1>7 DEF TokenInv

LEMMA SignInToken ==
    ASSUME TokenInv, NEW r \in Requests, NEW b \in Browsers, SignIn(r, b)
    PROVE  TokenInv'
<1> PICK n \in Tokens \ issued :
        issued' = issued \cup {n} /\ Arrive(r, b, "count", "signin", Nil, n)
  BY DEF SignIn
<1>1. req' \in [Requests -> Request]
  BY RequestType DEF TokenInv, Arrive, Request, PCs, Goals
<1>2. SessionsTypeOK'
  BY DEF TokenInv, SessionsTypeOK, Arrive
<1>3. Issued' BY DEF TokenInv, Arrive, Issued, Holding
<1>4. Unborn'
  BY SessionsAssumption DEF TokenInv, SessionsTypeOK, Arrive, Unborn, Issued, Creating
<1>5. OwnToken' BY DEF TokenInv, Issued, Arrive, OwnToken
<1>6. Dropped' BY SessionsAssumption DEF TokenInv, SessionsTypeOK, Arrive, Dropped
<1>7. SpentIsDead' BY DEF TokenInv, Arrive, SpentIsDead
<1> QED BY <1>2, <1>3, <1>4, <1>5, <1>6, <1>7 DEF TokenInv

LEMMA CheckTokenToken ==
    ASSUME TokenInv, NEW r \in Requests, CheckToken(r)
    PROVE  TokenInv'
<1>1. req' \in [Requests -> Request]
  BY RequestType, Going DEF TokenInv, CheckToken, PCs, Goals
<1>2. SessionsTypeOK'
  BY <1>1 DEF TokenInv, SessionsTypeOK, Request, PCs, Goals, CheckToken
<1>3. Issued'
  BY DEF TokenInv, SessionsTypeOK, Issued, CheckToken, Storing, Creating, Holding
<1>4. Unborn'
  BY DEF TokenInv, SessionsTypeOK, Unborn, CheckToken, Storing
<1>5. OwnToken'
  BY DEF TokenInv, SessionsTypeOK, OwnToken, CheckToken
<1>6. Dropped'
  BY DEF TokenInv, SessionsTypeOK, Dropped, CheckToken, Storing, Creating
<1>7. SpentIsDead'
  BY DEF TokenInv, SpentIsDead, CheckToken
<1> QED BY <1>2, <1>3, <1>4, <1>5, <1>6, <1>7 DEF TokenInv

LEMMA ReadUserToken == ASSUME TokenInv, NEW r \in Requests, ReadUser(r) PROVE TokenInv'
<1>1. req' \in [Requests -> Request]
  BY RequestType, Going DEF TokenInv, ReadUser, PCs, Goals
<1>2. SessionsTypeOK'
  BY <1>1 DEF TokenInv, SessionsTypeOK, Request, PCs, Goals, ReadUser
<1>3. Issued'
  BY DEF TokenInv, SessionsTypeOK, Issued, ReadUser, Storing, Creating, Holding
<1>4. Unborn'
  BY DEF TokenInv, SessionsTypeOK, Unborn, ReadUser, Storing
<1>5. OwnToken'
  BY DEF TokenInv, SessionsTypeOK, OwnToken, ReadUser
<1>6. Dropped'
  BY DEF TokenInv, SessionsTypeOK, Dropped, ReadUser, Storing, Creating
<1>7. SpentIsDead'
  BY DEF TokenInv, SpentIsDead, ReadUser
<1> QED BY <1>2, <1>3, <1>4, <1>5, <1>6, <1>7 DEF TokenInv

LEMMA DropKeyToken == ASSUME TokenInv, NEW r \in Requests, DropKey(r) PROVE TokenInv'
<1>1. req' \in [Requests -> Request]
  BY RequestType, Going DEF TokenInv, DropKey, Goto, PCs
<1>2. SessionsTypeOK'
  BY <1>1 DEF TokenInv, SessionsTypeOK, Issued, Request, PCs, Goals, Holding, DropKey
<1>3. Issued'
  BY DEF TokenInv, Issued, DropKey, Goto, Storing, Creating, Holding
<1>4. Unborn'
  BY DEF TokenInv, Unborn, DropKey, Goto, Storing
<1>5. OwnToken'
  BY DEF TokenInv, OwnToken, DropKey, Goto
<1>6. Dropped'
  BY DEF TokenInv, Dropped, DropKey, Goto
<1>7. SpentIsDead'
  BY DEF TokenInv, SpentIsDead, DropKey
<1> QED BY <1>2, <1>3, <1>4, <1>5, <1>6, <1>7 DEF TokenInv

LEMMA UnlistToken == ASSUME TokenInv, NEW r \in Requests, Unlist(r) PROVE TokenInv'
<1>1. req' \in [Requests -> Request]
  <2>1. CASE Finish(r)
    BY <2>1, RequestType, Going DEF TokenInv, Finish, PCs
  <2>2. ASSUME NEW n \in Tokens, req' = [req EXCEPT ![r].pc = "count", ![r].new = n]
        PROVE  req' \in [Requests -> Request]
    BY <2>2, RequestType, Going DEF TokenInv, PCs
  <2> QED BY <2>1, <2>2 DEF Unlist
<1>2. SessionsTypeOK'
  BY <1>1 DEF TokenInv, SessionsTypeOK, Issued, Request, PCs, Goals, Holding, Unlist
<1>3. Issued'
  BY DEF TokenInv, SessionsTypeOK, Issued, Unlist, Finish, Idle, Storing, Creating,
         Holding
<1>4. Unborn'
  BY SessionsAssumption
     DEF TokenInv, SessionsTypeOK, Issued, Unborn, SpentIsDead, Unlist, Finish, Idle,
         Storing, Creating, Holding
<1>5. OwnToken'
  BY DEF TokenInv, SessionsTypeOK, OwnToken, Unlist, Finish, Idle
<1>6. Dropped'
  BY SessionsAssumption DEF TokenInv, SessionsTypeOK, Dropped, Unlist, Finish, Idle
<1>7. SpentIsDead'
  BY DEF TokenInv, Dropped, SpentIsDead, Unlist
<1> QED BY <1>2, <1>3, <1>4, <1>5, <1>6, <1>7 DEF TokenInv

LEMMA CountSessionsToken ==
    ASSUME TokenInv, NEW r \in Requests, CountSessions(r)
    PROVE  TokenInv'
<1>1. req' \in [Requests -> Request]
  BY RequestType, Going DEF TokenInv, CountSessions, Goto, PCs
<1>2. SessionsTypeOK'
  BY <1>1 DEF TokenInv, SessionsTypeOK, Request, PCs, Goals, CountSessions
<1>3. Issued'
  BY DEF TokenInv, Issued, CountSessions, Goto, Storing, Creating, Holding
<1>4. Unborn'
  BY DEF TokenInv, Unborn, CountSessions, Goto, Storing
<1>5. OwnToken'
  BY DEF TokenInv, OwnToken, CountSessions, Goto
<1>6. Dropped'
  BY DEF TokenInv, Dropped, CountSessions, Goto, Storing, Creating
<1>7. SpentIsDead'
  BY DEF TokenInv, SpentIsDead, CountSessions
<1> QED BY <1>2, <1>3, <1>4, <1>5, <1>6, <1>7 DEF TokenInv

LEMMA FindOldestToken ==
    ASSUME TokenInv, NEW r \in Requests, FindOldest(r)
    PROVE  TokenInv'
<1>1. req' \in [Requests -> Request]
  <2>1. CASE Goto(r, "store")
    BY <2>1, RequestType, Going DEF TokenInv, Goto, PCs
  <2>2. ASSUME NEW t \in Oldest, req' = [req EXCEPT ![r].pc = "evict", ![r].found = {t}]
        PROVE  req' \in [Requests -> Request]
    <3>1. {t} \in SUBSET Tokens BY DEF TokenInv, SessionsTypeOK, Oldest
    <3> QED BY <2>2, <3>1, RequestType, Going DEF TokenInv, PCs
  <2> QED BY <2>1, <2>2 DEF FindOldest
<1>2. SessionsTypeOK'
  BY <1>1 DEF TokenInv, SessionsTypeOK, Request, PCs, Goals, FindOldest
<1>3. Issued'
  BY DEF SessionsAssumption, TokenInv, SessionsTypeOK, Issued, FindOldest, Goto,
         Storing, Creating, Holding
<1>4. Unborn'
  BY DEF TokenInv, SessionsTypeOK, Issued, Unborn, FindOldest, Goto, Storing
<1>5. OwnToken'
  BY DEF TokenInv, SessionsTypeOK, OwnToken, FindOldest, Goto
<1>6. Dropped'
  BY DEF TokenInv, SessionsTypeOK, Dropped, FindOldest, Goto, Storing, Creating
<1>7. SpentIsDead'
  BY DEF TokenInv, SpentIsDead, FindOldest
<1> QED BY <1>2, <1>3, <1>4, <1>5, <1>6, <1>7 DEF TokenInv

LEMMA EvictKeyToken == ASSUME TokenInv, NEW r \in Requests, EvictKey(r) PROVE TokenInv'
<1>1. req' \in [Requests -> Request]
  BY RequestType, Going DEF TokenInv, EvictKey, Goto, PCs
<1>2. SessionsTypeOK'
  BY <1>1 DEF TokenInv, SessionsTypeOK, Request, PCs, Goals, EvictKey
<1>3. Issued'
  BY DEF TokenInv, Issued, EvictKey, Goto, Storing, Creating, Holding
<1>4. Unborn'
  BY DEF TokenInv, Unborn, EvictKey, Goto, Storing
<1>5. OwnToken'
  BY DEF TokenInv, OwnToken, EvictKey, Goto
<1>6. Dropped'
  BY DEF TokenInv, Dropped, EvictKey, Goto, Storing, Creating
<1>7. SpentIsDead'
  BY DEF TokenInv, SpentIsDead, EvictKey
<1> QED BY <1>2, <1>3, <1>4, <1>5, <1>6, <1>7 DEF TokenInv

LEMMA EvictListedToken ==
    ASSUME TokenInv, NEW r \in Requests, EvictListed(r)
    PROVE  TokenInv'
<1>1. req' \in [Requests -> Request]
  BY RequestType, Going DEF TokenInv, EvictListed, Goto, PCs
<1>2. SessionsTypeOK'
  BY <1>1 DEF TokenInv, SessionsTypeOK, Request, PCs, Goals, EvictListed
<1>3. Issued'
  BY DEF TokenInv, Issued, EvictListed, Goto, Storing, Creating, Holding
<1>4. Unborn'
  BY DEF TokenInv, Unborn, EvictListed, Goto, Storing
<1>5. OwnToken'
  BY DEF TokenInv, OwnToken, EvictListed, Goto
<1>6. Dropped'
  BY DEF TokenInv, Dropped, EvictListed, Goto, Storing, Creating
<1>7. SpentIsDead'
  BY DEF TokenInv, SpentIsDead, EvictListed
<1> QED BY <1>2, <1>3, <1>4, <1>5, <1>6, <1>7 DEF TokenInv

LEMMA StoreKeyToken == ASSUME TokenInv, NEW r \in Requests, StoreKey(r) PROVE TokenInv'
<1>1. req' \in [Requests -> Request]
  BY RequestType, Going DEF TokenInv, StoreKey, Goto, PCs
<1>2. SessionsTypeOK'
  BY <1>1
     DEF TokenInv, SessionsTypeOK, Issued, Request, PCs, Goals, Storing, Creating,
         StoreKey
<1>3. Issued'
  BY DEF TokenInv, Issued, StoreKey, Goto, Storing, Creating, Holding
<1>4. Unborn'
  BY SessionsAssumption
     DEF TokenInv, SessionsTypeOK, Issued, Unborn, OwnToken, StoreKey, Goto, Storing,
         Creating
<1>5. OwnToken'
  BY DEF TokenInv, OwnToken, StoreKey, Goto
<1>6. Dropped'
  BY DEF TokenInv, Unborn, Dropped, StoreKey, Goto, Storing, Creating
<1>7. SpentIsDead'
  BY DEF TokenInv, Unborn, SpentIsDead, StoreKey, Storing
<1> QED BY <1>2, <1>3, <1>4, <1>5, <1>6, <1>7 DEF TokenInv

LEMMA ListSessionToken ==
    ASSUME TokenInv, NEW r \in Requests, ListSession(r)
    PROVE  TokenInv'
<1>1. req' \in [Requests -> Request]
  BY RequestType, Going DEF TokenInv, ListSession, Goto, PCs
<1>2. SessionsTypeOK'
  BY <1>1, Counting
     DEF TokenInv, SessionsTypeOK, Issued, Request, PCs, Goals, Creating, ListSession
<1>3. Issued'
  BY DEF TokenInv, Issued, ListSession, Goto, Creating, Holding
<1>4. Unborn'
  BY SessionsAssumption
     DEF TokenInv, SessionsTypeOK, Issued, Unborn, OwnToken, ListSession, Goto, Storing,
         Creating
<1>5. OwnToken'
  BY DEF TokenInv, OwnToken, ListSession, Goto
<1>6. Dropped'
  BY DEF TokenInv, Dropped, ListSession, Goto, Creating
<1>7. SpentIsDead'
  BY DEF TokenInv, SpentIsDead, ListSession
<1> QED BY <1>2, <1>3, <1>4, <1>5, <1>6, <1>7 DEF TokenInv

LEMMA AnswerToken == ASSUME TokenInv, NEW r \in Requests, Reply(r) PROVE TokenInv'
<1>1. req' \in [Requests -> Request]
  BY RequestType, Going DEF TokenInv, Reply, Finish, PCs
<1>2. SessionsTypeOK'
  BY <1>1 DEF TokenInv, SessionsTypeOK, Issued, Request, PCs, Goals, Reply
<1>3. Issued'
  BY DEF TokenInv, Issued, Reply, Finish, Idle, Storing, Creating, Holding
<1>4. Unborn'
  BY SessionsAssumption
     DEF TokenInv, SessionsTypeOK, Issued, Unborn, OwnToken, Reply, Finish, Idle,
         Storing, Creating
<1>5. OwnToken'
  BY DEF TokenInv, OwnToken, Reply, Finish, Idle
<1>6. Dropped'
  BY DEF TokenInv, Dropped, Reply, Finish, Idle, Storing, Creating
<1>7. SpentIsDead'
  BY DEF TokenInv, Dropped, SpentIsDead, Reply, Creating
<1> QED BY <1>2, <1>3, <1>4, <1>5, <1>6, <1>7 DEF TokenInv

LEMMA PurgeReadToken ==
    ASSUME TokenInv, NEW r \in Requests, PurgeRead(r)
    PROVE  TokenInv'
<1>1. req' \in [Requests -> Request]
  <2>1. CASE listed = {}
    <3>1. req' = [req EXCEPT ![r] = Idle] BY <2>1 DEF PurgeRead, Finish
    <3> QED BY <3>1, RequestType, Going DEF TokenInv, PCs
  <2>2. CASE listed # {}
    <3>1. listed \in SUBSET Tokens BY DEF TokenInv, SessionsTypeOK
    <3>2. req' = [req EXCEPT ![r].pc = "purgeKeys", ![r].found = listed]
      BY <2>2 DEF PurgeRead
    <3> QED BY <3>1, <3>2, RequestType, Going DEF TokenInv, PCs
  <2> QED BY <2>1, <2>2
<1>2. SessionsTypeOK'
  BY <1>1 DEF TokenInv, SessionsTypeOK, Request, PCs, Goals, PurgeRead
<1>3. Issued'
  BY DEF TokenInv, SessionsTypeOK, Issued, Dropped, PurgeRead, Finish, Idle, Storing,
         Creating, Holding
<1>4. Unborn'
  BY SessionsAssumption
     DEF TokenInv, SessionsTypeOK, Issued, Unborn, PurgeRead, Finish, Idle, Storing,
         Creating
<1>5. OwnToken'
  BY DEF TokenInv, SessionsTypeOK, OwnToken, PurgeRead, Finish, Idle
<1>6. Dropped'
  BY DEF TokenInv, SessionsTypeOK, Dropped, PurgeRead, Finish, Idle, Storing, Creating
<1>7. SpentIsDead'
  BY DEF TokenInv, SpentIsDead, PurgeRead
<1> QED BY <1>2, <1>3, <1>4, <1>5, <1>6, <1>7 DEF TokenInv

LEMMA PurgeKeysToken ==
    ASSUME TokenInv, NEW r \in Requests, PurgeKeys(r)
    PROVE  TokenInv'
<1>1. req' \in [Requests -> Request]
  BY RequestType, Going DEF TokenInv, PurgeKeys, Goto, PCs
<1>2. SessionsTypeOK'
  BY <1>1 DEF TokenInv, SessionsTypeOK, Request, PCs, Goals, PurgeKeys
<1>3. Issued'
  BY DEF TokenInv, Issued, PurgeKeys, Goto, Storing, Creating, Holding
<1>4. Unborn'
  BY DEF TokenInv, Unborn, PurgeKeys, Goto, Storing
<1>5. OwnToken'
  BY DEF TokenInv, OwnToken, PurgeKeys, Goto
<1>6. Dropped'
  BY DEF TokenInv, Dropped, PurgeKeys, Goto, Storing, Creating
<1>7. SpentIsDead'
  BY DEF TokenInv, SpentIsDead, PurgeKeys
<1> QED BY <1>2, <1>3, <1>4, <1>5, <1>6, <1>7 DEF TokenInv

LEMMA PurgeListToken ==
    ASSUME TokenInv, NEW r \in Requests, PurgeList(r)
    PROVE  TokenInv'
<1>1. req' \in [Requests -> Request]
  BY RequestType, Going DEF TokenInv, PurgeList, Finish, PCs
<1>2. SessionsTypeOK'
  BY <1>1 DEF TokenInv, SessionsTypeOK, Request, PCs, Goals, PurgeList
<1>3. Issued'
  BY DEF TokenInv, Issued, PurgeList, Finish, Idle, Storing, Creating, Holding
<1>4. Unborn'
  BY SessionsAssumption
     DEF TokenInv, SessionsTypeOK, Issued, Unborn, PurgeList, Finish, Idle, Storing,
         Creating
<1>5. OwnToken'
  BY DEF TokenInv, OwnToken, PurgeList, Finish, Idle
<1>6. Dropped'
  BY DEF TokenInv, Dropped, PurgeList, Finish, Idle, Storing, Creating
<1>7. SpentIsDead'
  BY DEF TokenInv, SpentIsDead, PurgeList
<1> QED BY <1>2, <1>3, <1>4, <1>5, <1>6, <1>7 DEF TokenInv

LEMMA DieToken == ASSUME TokenInv, NEW r \in Requests, Die(r) PROVE TokenInv'
<1>1. req' \in [Requests -> Request]
  BY RequestType, Going DEF TokenInv, Die, Finish, PCs
<1>2. SessionsTypeOK'
  BY <1>1, SessionsAssumption DEF TokenInv, SessionsTypeOK, Request, PCs, Goals, Die
<1>3. Issued'
  BY DEF TokenInv, Issued, Die, Finish, Idle, Storing, Creating, Holding
<1>4. Unborn'
  BY SessionsAssumption
     DEF TokenInv, SessionsTypeOK, Issued, Unborn, Die, Finish, Idle, Storing, Creating
<1>5. OwnToken'
  BY DEF TokenInv, OwnToken, Die, Finish, Idle
<1>6. Dropped'
  BY DEF TokenInv, Dropped, Die, Finish, Idle, Storing, Creating
<1>7. SpentIsDead'
  BY DEF TokenInv, SpentIsDead, Die
<1> QED BY <1>2, <1>3, <1>4, <1>5, <1>6, <1>7 DEF TokenInv

LEMMA TimeOutToken == ASSUME TokenInv, NEW t \in Tokens, TimeOut(t) PROVE TokenInv'
<1>1. SessionsTypeOK'
  BY SessionsAssumption DEF SessionsAssumption, TokenInv, SessionsTypeOK, TimeOut
<1>2. Issued' /\ OwnToken' BY DEF TokenInv, TimeOut, Issued, OwnToken
<1>3. Unborn' BY DEF TokenInv, TimeOut, Unborn
<1>4. Dropped' /\ SpentIsDead' BY DEF TokenInv, TimeOut, Dropped, SpentIsDead
<1> QED BY <1>1, <1>2, <1>3, <1>4 DEF TokenInv

\* An account's is_active is nothing to its tokens.
LEMMA ActiveToken ==
    ASSUME TokenInv, active' \in BOOLEAN, fails' \in 0..MaxFails,
           UNCHANGED <<keys, listed, scores, cookie, req, issued, spent, exchanged, solo>>
    PROVE  TokenInv'
BY DEF TokenInv, SessionsTypeOK, Issued, Unborn, OwnToken, Dropped, SpentIsDead

-----------------------------------------------------------------------------

LEMMA ArriveSolo ==
    ASSUME TokenInv, SoloInv, NEW r \in Requests, NEW b, NEW l \in {"count", "check", "drop", "purge"},
           NEW g, NEW o, NEW n, Arrive(r, b, l, g, o, n)
    PROVE  SoloInv'
<1> SUFFICES ASSUME solo' PROVE Alone' /\ ListInv'
  BY DEF SoloInv
<1>1. solo /\ (\A q \in Requests : req[q].pc = "idle") /\ ListInv
  BY DEF Arrive, SoloInv
<1>2. \A q \in Requests \ {r} : req'[q] = req[q]
  BY DEF Arrive, TokenInv, SessionsTypeOK
<1>3. req'[r].pc = l
  BY DEF Arrive, TokenInv, SessionsTypeOK
<1>4. Alone' BY <1>1, <1>2 DEF Alone
<1>5. ListInv' BY <1>1, <1>2, <1>3 DEF ListInv, Arrive
<1> QED BY <1>4, <1>5

LEMMA CheckTokenSolo ==
    ASSUME TokenInv, SoloInv, NEW r \in Requests, CheckToken(r)
    PROVE  SoloInv'
<1> SUFFICES ASSUME solo PROVE Alone' /\ ListInv'
  BY DEF SoloInv, CheckToken
<1>1. ListInv /\ \A q \in Requests \ {r} : req[q].pc = "idle" /\ req'[q] = req[q]
  BY DEF SoloInv, Alone, CheckToken, TokenInv, SessionsTypeOK
<1>2. Alone' BY <1>1 DEF Alone
<1>3. ListInv' BY <1>1 DEF ListInv, CheckToken, TokenInv, SessionsTypeOK
<1> QED BY <1>2, <1>3

LEMMA ReadUserSolo ==
    ASSUME TokenInv, SoloInv, NEW r \in Requests, ReadUser(r)
    PROVE  SoloInv'
<1> SUFFICES ASSUME solo PROVE Alone' /\ ListInv'
  BY DEF SoloInv, ReadUser
<1>1. ListInv /\ \A q \in Requests \ {r} : req[q].pc = "idle" /\ req'[q] = req[q]
  BY DEF SoloInv, Alone, ReadUser, TokenInv, SessionsTypeOK
<1>2. Alone' BY <1>1 DEF Alone
<1>3. ListInv' BY <1>1 DEF ListInv, ReadUser, TokenInv, SessionsTypeOK
<1> QED BY <1>2, <1>3

LEMMA DropKeySolo ==
    ASSUME TokenInv, SoloInv, NEW r \in Requests, DropKey(r)
    PROVE  SoloInv'
<1> SUFFICES ASSUME solo PROVE Alone' /\ ListInv'
  BY DEF SoloInv, DropKey
<1>1. ListInv /\ \A q \in Requests \ {r} : req[q].pc = "idle" /\ req'[q] = req[q]
  BY DEF SoloInv, Alone, DropKey, Goto
<1>2. Alone' BY <1>1 DEF Alone
<1>3. ListInv' BY <1>1 DEF ListInv, DropKey, Goto
<1> QED BY <1>2, <1>3

LEMMA UnlistSolo ==
    ASSUME TokenInv, SoloInv, NEW r \in Requests, Unlist(r)
    PROVE  SoloInv'
<1> SUFFICES ASSUME solo PROVE Alone' /\ ListInv'
  BY DEF SoloInv, Unlist
<1>1. ListInv /\ \A q \in Requests \ {r} : req[q].pc = "idle" /\ req'[q] = req[q]
  BY DEF SoloInv, Alone, Unlist, Finish, TokenInv, SessionsTypeOK
<1>2. Alone' BY <1>1 DEF Alone
<1>3. /\ Cardinality(listed') <= Cardinality(listed) /\ Cardinality(listed') \in Nat
      /\ Cardinality(listed) \in Nat
  BY Counting, FS_Subset, FS_CardinalityType DEF TokenInv, Unlist
<1>4. ListInv'
  BY <1>1, <1>3, SessionsAssumption
     DEF ListInv, Unlist, Finish, Idle, TokenInv, SessionsTypeOK, Dropped
<1> QED BY <1>2, <1>4

LEMMA CountSessionsSolo ==
    ASSUME TokenInv, SoloInv, NEW r \in Requests, CountSessions(r)
    PROVE  SoloInv'
<1> SUFFICES ASSUME solo PROVE Alone' /\ ListInv'
  BY DEF SoloInv, CountSessions
<1>1. ListInv /\ \A q \in Requests \ {r} : req[q].pc = "idle" /\ req'[q] = req[q]
  BY DEF SoloInv, Alone, CountSessions, Goto
<1>2. Alone' BY <1>1 DEF Alone
<1>3. Cardinality(listed) \in Nat
  BY Counting DEF TokenInv
<1>4. ListInv' BY <1>1, <1>3, SessionsAssumption DEF ListInv, CountSessions, Goto
<1> QED BY <1>2, <1>4

LEMMA FindOldestSolo ==
    ASSUME TokenInv, SoloInv, NEW r \in Requests, FindOldest(r)
    PROVE  SoloInv'
<1> SUFFICES ASSUME solo PROVE Alone' /\ ListInv'
  BY DEF SoloInv, FindOldest
<1>1. ListInv /\ \A q \in Requests \ {r} : req[q].pc = "idle" /\ req'[q] = req[q]
  BY DEF SoloInv, Alone, FindOldest, Goto, TokenInv, SessionsTypeOK
<1>2. Alone' BY <1>1 DEF Alone
<1>3. listed = {} => Cardinality(listed) < MaxSessions
  BY FS_EmptySet, SessionsAssumption DEF SessionsAssumption
<1>4. Oldest \subseteq listed
  BY DEF Oldest
<1>5. ListInv'
  BY <1>1, <1>3, <1>4 DEF ListInv, FindOldest, Goto, TokenInv, SessionsTypeOK
<1> QED BY <1>2, <1>5

LEMMA EvictKeySolo ==
    ASSUME TokenInv, SoloInv, NEW r \in Requests, EvictKey(r)
    PROVE  SoloInv'
<1> SUFFICES ASSUME solo PROVE Alone' /\ ListInv'
  BY DEF SoloInv, EvictKey
<1>1. ListInv /\ \A q \in Requests \ {r} : req[q].pc = "idle" /\ req'[q] = req[q]
  BY DEF SoloInv, Alone, EvictKey, Goto
<1>2. Alone' BY <1>1 DEF Alone
<1>3. ListInv' BY <1>1 DEF ListInv, EvictKey, Goto
<1> QED BY <1>2, <1>3

LEMMA EvictListedSolo ==
    ASSUME TokenInv, SoloInv, NEW r \in Requests, EvictListed(r)
    PROVE  SoloInv'
<1> SUFFICES ASSUME solo PROVE Alone' /\ ListInv'
  BY DEF SoloInv, EvictListed
<1>1. ListInv /\ \A q \in Requests \ {r} : req[q].pc = "idle" /\ req'[q] = req[q]
  BY DEF SoloInv, Alone, EvictListed, Goto
<1>2. Alone' BY <1>1 DEF Alone
<1>3. Cardinality(listed') < MaxSessions /\ Cardinality(listed') <= MaxSessions
  <2>1. PICK t \in listed : req[r].found = {t} BY <1>1 DEF ListInv, EvictListed
  <2>2. Cardinality(listed') = Cardinality(listed) - 1 /\ Cardinality(listed) \in Nat
    BY <2>1, Counting, FS_RemoveElement DEF TokenInv, EvictListed
  <2> QED BY <1>1, <2>2, SessionsAssumption DEF SessionsAssumption, ListInv
<1>4. \A b \in Browsers : cookie'[b] \in keys' => cookie'[b] \in listed'
  BY <1>1 DEF ListInv, EvictListed
<1>5. \A q \in Requests : req'[q].pc \in {"idle", "store"}
  BY <1>1 DEF EvictListed, Goto, TokenInv, SessionsTypeOK
<1>6. ListInv' BY <1>3, <1>4, <1>5 DEF ListInv
<1> QED BY <1>2, <1>6

LEMMA StoreKeySolo ==
    ASSUME TokenInv, SoloInv, NEW r \in Requests, StoreKey(r)
    PROVE  SoloInv'
<1> SUFFICES ASSUME solo PROVE Alone' /\ ListInv'
  BY DEF SoloInv, StoreKey
<1>1. ListInv /\ \A q \in Requests \ {r} : req[q].pc = "idle" /\ req'[q] = req[q]
  BY DEF SoloInv, Alone, StoreKey, Goto
<1>2. Alone' BY <1>1 DEF Alone
<1>3. ListInv' BY <1>1 DEF ListInv, StoreKey, Goto, TokenInv, Unborn, Storing
<1> QED BY <1>2, <1>3

LEMMA ListSessionSolo ==
    ASSUME TokenInv, SoloInv, NEW r \in Requests, ListSession(r)
    PROVE  SoloInv'
<1> SUFFICES ASSUME solo PROVE Alone' /\ ListInv'
  BY DEF SoloInv, ListSession
<1>1. ListInv /\ \A q \in Requests \ {r} : req[q].pc = "idle" /\ req'[q] = req[q]
  BY DEF SoloInv, Alone, ListSession, Goto
<1>2. Alone' BY <1>1 DEF Alone
<1>3. Cardinality(listed') <= MaxSessions
  <2>1. listed' = listed \cup {req[r].new} /\ Cardinality(listed) < MaxSessions
    BY <1>1 DEF ListInv, ListSession
  <2>2. IsFiniteSet(listed) /\ Cardinality(listed) \in Nat
    BY Counting DEF TokenInv
  <2>3. Cardinality(listed') = Cardinality(listed) \/ Cardinality(listed') = Cardinality(listed) + 1
    BY <2>1, <2>2, FS_AddElement
  <2> QED
    BY <2>1, <2>2, <2>3, SessionsAssumption DEF SessionsAssumption, ListInv, ListSession
<1>4. ListInv' BY <1>1, <1>3 DEF ListInv, ListSession, Goto, TokenInv, SessionsTypeOK
<1> QED BY <1>2, <1>4

LEMMA AnswerSolo ==
    ASSUME TokenInv, SoloInv, NEW r \in Requests, Reply(r)
    PROVE  SoloInv'
<1> SUFFICES ASSUME solo PROVE Alone' /\ ListInv'
  BY DEF SoloInv, Reply
<1>1. ListInv /\ \A q \in Requests \ {r} : req[q].pc = "idle" /\ req'[q] = req[q]
  BY DEF SoloInv, Alone, Reply, Finish
<1>2. Alone' BY <1>1 DEF Alone
<1>3. ListInv' BY <1>1 DEF ListInv, Reply, Finish, Idle
<1> QED BY <1>2, <1>3

LEMMA PurgeReadSolo ==
    ASSUME TokenInv, SoloInv, NEW r \in Requests, PurgeRead(r)
    PROVE  SoloInv'
<1> SUFFICES ASSUME solo PROVE Alone' /\ ListInv'
  BY DEF SoloInv, PurgeRead
<1>1. ListInv /\ \A q \in Requests \ {r} : req[q].pc = "idle" /\ req'[q] = req[q]
  BY DEF SoloInv, Alone, PurgeRead, Finish, TokenInv, SessionsTypeOK
<1>2. Alone' BY <1>1 DEF Alone
<1>3. ListInv' BY <1>1 DEF ListInv, PurgeRead, Finish, Idle, TokenInv, SessionsTypeOK
<1> QED BY <1>2, <1>3

LEMMA PurgeKeysSolo ==
    ASSUME TokenInv, SoloInv, NEW r \in Requests, PurgeKeys(r)
    PROVE  SoloInv'
<1> SUFFICES ASSUME solo PROVE Alone' /\ ListInv'
  BY DEF SoloInv, PurgeKeys
<1>1. ListInv /\ \A q \in Requests \ {r} : req[q].pc = "idle" /\ req'[q] = req[q]
  BY DEF SoloInv, Alone, PurgeKeys, Goto
<1>2. Alone' BY <1>1 DEF Alone
<1>3. ListInv' BY <1>1 DEF ListInv, PurgeKeys, Goto
<1> QED BY <1>2, <1>3

LEMMA PurgeListSolo ==
    ASSUME TokenInv, SoloInv, NEW r \in Requests, PurgeList(r)
    PROVE  SoloInv'
<1> SUFFICES ASSUME solo PROVE Alone' /\ ListInv'
  BY DEF SoloInv, PurgeList
<1>1. ListInv /\ \A q \in Requests \ {r} : req[q].pc = "idle" /\ req'[q] = req[q]
  BY DEF SoloInv, Alone, PurgeList, Finish
<1>2. Alone' BY <1>1 DEF Alone
<1>3. Cardinality(listed') <= MaxSessions
  BY FS_EmptySet, SessionsAssumption DEF SessionsAssumption, PurgeList
<1>4. ListInv' BY <1>1, <1>3 DEF ListInv, PurgeList, Finish, Idle
<1> QED BY <1>2, <1>4

LEMMA DieSolo == ASSUME TokenInv, SoloInv, NEW r \in Requests, Die(r) PROVE SoloInv'
<1> SUFFICES ASSUME solo PROVE Alone' /\ ListInv'
  BY DEF SoloInv, Die
<1>1. ListInv /\ \A q \in Requests \ {r} : req[q].pc = "idle" /\ req'[q] = req[q]
  BY DEF SoloInv, Alone, Die, Finish
<1>2. Alone' BY <1>1 DEF Alone
<1>3. ListInv' BY <1>1 DEF ListInv, Die, Finish, Idle
<1> QED BY <1>2, <1>3


LEMMA TimeOutSolo ==
    ASSUME TokenInv, SoloInv, NEW t \in Tokens, TimeOut(t)
    PROVE  SoloInv'
BY DEF SoloInv, Alone, ListInv, TimeOut

LEMMA ActiveSolo ==
    ASSUME SoloInv, UNCHANGED <<keys, listed, scores, cookie, req, issued, spent, exchanged, solo>>
    PROVE  SoloInv'
BY DEF SoloInv, Alone, ListInv

-----------------------------------------------------------------------------
LEMMA Start == SessionsInit => SessionsInv
<1> SUFFICES ASSUME SessionsInit PROVE SessionsInv
  OBVIOUS
<1>1. SessionsTypeOK
  BY SessionsAssumption DEF SessionsAssumption, SessionsInit, SessionsTypeOK, Idle
<1>2. Issued /\ Unborn /\ OwnToken /\ Dropped /\ SpentIsDead
  BY DEF SessionsInit, Idle, Issued, Unborn, OwnToken, Dropped, SpentIsDead, Storing,
         Creating, Holding
<1>3. Alone BY DEF SessionsInit, Idle, Alone
<1>4. ListInv
  BY FS_EmptySet, SessionsAssumption DEF SessionsAssumption, SessionsInit, Idle, ListInv
<1> QED BY <1>1, <1>2, <1>3, <1>4 DEF SessionsInv, TokenInv, SoloInv

\* The steps a request takes once it has arrived, and the requests themselves.
LEMMA WorkStep == ASSUME SessionsInv, NEW r \in Requests, Work(r) PROVE SessionsInv'
<1>1. CASE CheckToken(r) BY <1>1, CheckTokenToken, CheckTokenSolo DEF SessionsInv
<1>2. CASE ReadUser(r) BY <1>2, ReadUserToken, ReadUserSolo DEF SessionsInv
<1>3. CASE DropKey(r) BY <1>3, DropKeyToken, DropKeySolo DEF SessionsInv
<1>4. CASE Unlist(r) BY <1>4, UnlistToken, UnlistSolo DEF SessionsInv
<1>5. CASE CountSessions(r)
  BY <1>5, CountSessionsToken, CountSessionsSolo DEF SessionsInv
<1>6. CASE FindOldest(r) BY <1>6, FindOldestToken, FindOldestSolo DEF SessionsInv
<1>7. CASE EvictKey(r) BY <1>7, EvictKeyToken, EvictKeySolo DEF SessionsInv
<1>8. CASE EvictListed(r) BY <1>8, EvictListedToken, EvictListedSolo DEF SessionsInv
<1>9. CASE StoreKey(r) BY <1>9, StoreKeyToken, StoreKeySolo DEF SessionsInv
<1>10. CASE ListSession(r) BY <1>10, ListSessionToken, ListSessionSolo DEF SessionsInv
<1>11. CASE Reply(r) BY <1>11, AnswerToken, AnswerSolo DEF SessionsInv
<1>12. CASE PurgeRead(r) BY <1>12, PurgeReadToken, PurgeReadSolo DEF SessionsInv
<1>13. CASE PurgeKeys(r) BY <1>13, PurgeKeysToken, PurgeKeysSolo DEF SessionsInv
<1>14. CASE PurgeList(r) BY <1>14, PurgeListToken, PurgeListSolo DEF SessionsInv
<1>15. CASE Die(r) BY <1>15, DieToken, DieSolo DEF SessionsInv
<1> QED BY <1>1, <1>2, <1>3, <1>4, <1>5, <1>6, <1>7, <1>8, <1>9, <1>10, <1>11, <1>12,
           <1>13, <1>14, <1>15 DEF Work

LEMMA AskStep ==
    ASSUME SessionsInv, NEW r \in Requests, NEW b \in Browsers, UseCookie(r, b)
    PROVE  SessionsInv'
<1>1. CASE Refresh(r, b)
  BY <1>1, ArriveToken, ArriveSolo DEF SessionsInv, Refresh, Goals
<1>2. CASE Logout(r, b) BY <1>2, ArriveToken, ArriveSolo DEF SessionsInv, Logout, Goals
<1>3. CASE LogoutAll(r, b)
  BY <1>3, ArriveToken, ArriveSolo DEF SessionsInv, LogoutAll, Goals
<1> QED BY <1>1, <1>2, <1>3 DEF UseCookie

LEMMA SignInStep ==
    ASSUME SessionsInv, NEW r \in Requests, NEW b \in Browsers, SignIn(r, b)
    PROVE  SessionsInv'
<1>1. PICK n \in Tokens : Arrive(r, b, "count", "signin", Nil, n)
  BY DEF SignIn
<1>2. SoloInv' BY <1>1, ArriveSolo DEF SessionsInv
<1> QED BY <1>2, SignInToken DEF SessionsInv

LEMMA TimeOutStep == ASSUME SessionsInv, NEW t \in Tokens, TimeOut(t) PROVE SessionsInv'
BY TimeOutToken, TimeOutSolo DEF SessionsInv

LEMMA ActiveStep ==
    ASSUME SessionsInv, active' \in BOOLEAN, fails' \in 0..MaxFails,
           UNCHANGED <<keys, listed, scores, cookie, req, issued, spent, exchanged, solo>>
    PROVE  SessionsInv'
BY ActiveToken, ActiveSolo DEF SessionsInv

\* What the invariant says in the words of the module Sessions.
LEMMA Promises == SessionsInv => SpentIsDead /\ SessionsWithinLimit /\ HeldIsListed
<1> SUFFICES ASSUME SessionsInv PROVE SpentIsDead /\ SessionsWithinLimit /\ HeldIsListed
  OBVIOUS
<1>1. SpentIsDead BY DEF SessionsInv, TokenInv
<1>2. HeldIsListed BY DEF SessionsInv, SoloInv, ListInv, HeldIsListed
<1>3. ASSUME solo PROVE Cardinality(keys \cap listed) <= MaxSessions
  <2>1. IsFiniteSet(listed) /\ Cardinality(listed) \in Nat
    BY Counting DEF SessionsInv, TokenInv
  <2>2. Cardinality(keys \cap listed) <= Cardinality(listed) /\ Cardinality(keys \cap listed) \in Nat
    BY <2>1, FS_Subset, FS_CardinalityType
  <2> QED BY <1>3, <2>1, <2>2, SessionsAssumption
          DEF SessionsAssumption, SessionsInv, SoloInv, ListInv
<1> QED BY <1>1, <1>2, <1>3 DEF SessionsWithinLimit

-----------------------------------------------------------------------------
\* Sessions alone: any browsers, tabs and tokens, whatever dies or times out.
THEOREM SessionsInvariance == SessionsSpec => []SessionsInv
<1>1. SessionsInv /\ [SessionsNext]_sessionVars => SessionsInv'
  <2> SUFFICES ASSUME SessionsInv, [SessionsNext]_sessionVars PROVE SessionsInv'
    OBVIOUS
  <2>1. CASE UNCHANGED sessionVars
    BY <2>1, ActiveStep DEF sessionVars, SessionsInv, TokenInv, SessionsTypeOK
  <2>2. CASE SetActive
    BY <2>2, ActiveStep, SessionsAssumption
       DEF SetActive, SessionsAssumption, SessionsInv, TokenInv, SessionsTypeOK
  <2> QED BY <2>1, <2>2, WorkStep, AskStep, SignInStep, TimeOutStep DEF SessionsNext
<1> QED BY <1>1, Start, PTL DEF SessionsSpec

-----------------------------------------------------------------------------
(* Accounts *)

Form == [pc : {"idle", "otp", "save", "code", "email", "mail", "user", "activate",
               "forget", "google", "enter"},
         goal : {"none", "register", "login", "google"}, by : Browsers \cup {Nil},
         password : Passwords \cup {Nil}, code : made \cup {Nil}, found : BOOLEAN]
Row == [password : Passwords \cup {Nil}, google : BOOLEAN]

\* TypeOK, and the types of the forms and the codes.
DataInv ==
    /\ row \in {Nil} \cup Row
    /\ row = Nil => ~active
    /\ codes \in [DOMAIN codes -> Passwords \cup {Nil}]
    /\ DOMAIN codes \subseteq made /\ mailed \subseteq made /\ made \subseteq Codes
    /\ byEmail \in made \cup {Nil}
    /\ form \in [Forms -> Form] /\ orderly \in BOOLEAN
    /\ \A f \in Forms :
          /\ form[f].found => row # Nil
          /\ form[f].pc \in {"activate", "enter"} => row # Nil
          /\ form[f].pc = "otp" => form[f].goal \in {"register", "login"}
          /\ form[f].pc \in {"email", "mail"} => form[f].code \in made
          /\ form[f].pc \in {"user", "activate", "forget", "google", "enter"} =>
                form[f].by \in Browsers

Readable == DOMAIN codes \cap mailed

OneForm ==
    \A f, g \in Forms : form[f].pc # "idle" /\ form[g].pc # "idle" => f = g

\* The row has the password of this form.
Agrees(f) == row # Nil /\ row.password = form[f].password

CodeInv ==
    /\ \A c \in Readable : byEmail = c /\ row # Nil /\ row.password = codes[c]
    /\ \A f \in Forms :
          /\ form[f].pc = "otp" /\ form[f].goal = "login" => Agrees(f)
          /\ form[f].pc = "save" => form[f].goal = "register"
          /\ form[f].pc \in {"save", "code", "email", "mail"} => Readable = {}
          /\ form[f].pc \in {"code", "email", "mail", "user", "activate"} => Agrees(f)
          /\ form[f].pc \in {"email", "mail"} /\ form[f].code \in DOMAIN codes =>
                codes[form[f].code] = form[f].password
          /\ form[f].pc \in {"mail", "user", "activate", "forget"} => byEmail = form[f].code

OrderInv == orderly => OneForm /\ CodeInv

AccountsInv == SessionsInv /\ DataInv /\ OrderInv

-----------------------------------------------------------------------------
Labels == {"idle", "otp", "save", "code", "email", "mail", "user", "activate",
           "forget", "google", "enter"}

\* A form keeps its type when it moves on, is closed or is opened.
LEMMA Moving ==
    ASSUME form \in [Forms -> Form], NEW f \in Forms, NEW l \in Labels
    PROVE  /\ [form EXCEPT ![f].pc = l] \in [Forms -> Form]
           /\ [form EXCEPT ![f] = Blank] \in [Forms -> Form]
           /\ \A e \in Form : [form EXCEPT ![f] = e] \in [Forms -> Form]
<1>1. Blank \in Form BY DEF Form, Blank
<1>2. [form EXCEPT ![f].pc = l] \in [Forms -> Form] BY DEF Form, Labels
<1> QED BY <1>1, <1>2

LEMMA MoveOn ==
    ASSUME DataInv, NEW f \in Forms, NEW l \in Labels, Step(f, l), UNCHANGED made
    PROVE  /\ form' \in [Forms -> Form']
           /\ \A g \in Forms \ {f} : form'[g] = form[g]
           /\ form'[f].pc = l
           /\ form'[f].found = form[f].found /\ form'[f].by = form[f].by
           /\ form'[f].goal = form[f].goal /\ form'[f].password = form[f].password
           /\ form'[f].code = form[f].code
<1>1. Form' = Form BY DEF Form
<1>2. form' \in [Forms -> Form'] BY <1>1, Moving DEF DataInv, Step
<1>3. form[f] \in Form BY DEF DataInv
<1>4. form'[f] = [form[f] EXCEPT !.pc = l] BY DEF DataInv, Step
<1>5. \A g \in Forms \ {f} : form'[g] = form[g] BY DEF DataInv, Step
<1> QED BY <1>2, <1>3, <1>4, <1>5 DEF Form

LEMMA CloseUp ==
    ASSUME DataInv, NEW f \in Forms, Close(f), UNCHANGED made
    PROVE  /\ form' \in [Forms -> Form']
           /\ \A g \in Forms \ {f} : form'[g] = form[g]
           /\ form'[f].pc = "idle" /\ ~form'[f].found
<1>1. Form' = Form BY DEF Form
<1>2. form' \in [Forms -> Form']
  <2>1. "idle" \in Labels BY DEF Labels
  <2> QED BY <1>1, <2>1, Moving DEF DataInv, Close
<1>3. form'[f] = Blank /\ \A g \in Forms \ {f} : form'[g] = form[g]
  BY DEF DataInv, Close
<1> QED BY <1>2, <1>3 DEF Blank

\* When nothing overlaps, the other forms are idle.
LEMMA Company ==
    ASSUME DataInv, OrderInv, orderly, NEW f \in Forms, form[f].pc # "idle"
    PROVE  CodeInv /\ \A g \in Forms \ {f} : form[g].pc = "idle"
BY DEF OrderInv, OneForm

-----------------------------------------------------------------------------
LEMMA CheckCodeData ==
    ASSUME DataInv, NEW f \in Forms, CheckCode(f)
    PROVE  DataInv'
<1>1. {"save", "code"} \subseteq Labels BY DEF Labels
<1>2. Close(f) \/ Step(f, "save") \/ Step(f, "code") BY DEF CheckCode
<1>3. UNCHANGED <<row, active, codes, made, mailed, byEmail, orderly>>
  BY DEF CheckCode, sessionVars
<1>4. CASE Close(f) BY <1>3, <1>4, CloseUp DEF DataInv
<1>5. CASE Step(f, "save") BY <1>1, <1>3, <1>5, MoveOn DEF DataInv
<1>6. CASE Step(f, "code") BY <1>1, <1>3, <1>6, MoveOn DEF DataInv
<1> QED BY <1>2, <1>4, <1>5, <1>6

LEMMA SaveUserData ==
    ASSUME DataInv, NEW f \in Forms, SaveUser(f)
    PROVE  DataInv'
<1>1. "code" \in Labels /\ form[f] \in Form BY DEF Labels, DataInv
<1>2. UNCHANGED <<codes, made, mailed, byEmail, orderly>>
  BY DEF SaveUser
<1>3. CASE form[f].found
  <2>1. row \in Row /\ row' = [row EXCEPT !.password = form[f].password]
        /\ Step(f, "code") /\ UNCHANGED active
    BY <1>3 DEF SaveUser, DataInv
  <2>2. row' \in Row BY <1>1, <2>1 DEF Row, Form
  <2>3. row' # Nil BY <2>2, AccountsAssumption DEF AccountsAssumption, Row
  <2> QED BY <1>1, <1>2, <2>1, <2>2, <2>3, MoveOn DEF DataInv
<1>4. CASE ~form[f].found /\ row = Nil
  <2>1. row' = [password |-> form[f].password, google |-> FALSE]
        /\ Step(f, "code")
    BY <1>4 DEF SaveUser
  <2>2. row' \in Row BY <1>1, <2>1 DEF Row, Form
  <2>3. row' # Nil BY <2>2, AccountsAssumption DEF AccountsAssumption, Row
  <2> QED BY <1>1, <1>2, <2>1, <2>2, <2>3, MoveOn DEF DataInv
<1>5. CASE ~form[f].found /\ row # Nil
  <2>1. Close(f) /\ UNCHANGED <<row, active>> BY <1>5 DEF SaveUser
  <2> QED BY <1>2, <2>1, CloseUp DEF DataInv
<1> QED BY <1>3, <1>4, <1>5

LEMMA StoreCodeData ==
    ASSUME DataInv, NEW f \in Forms, StoreCode(f)
    PROVE  DataInv'
<1> PICK c \in Codes \ made :
        /\ made' = made \cup {c}
        /\ codes' = [d \in DOMAIN codes \cup {c} |->
                        IF d = c THEN form[f].password ELSE codes[d]]
        /\ form' = [form EXCEPT ![f].pc = "email", ![f].code = c]
  BY DEF StoreCode
<1>1. UNCHANGED <<row, active, byEmail, mailed, orderly>> BY DEF StoreCode, sessionVars
<1>2. form[f] \in Form BY DEF DataInv
<1>3. form' \in [Forms -> Form']
  <2>1. \A g \in Forms : form[g] \in Form' BY DEF DataInv, Form
  <2>2. [form[f] EXCEPT !.pc = "email", !.code = c] \in Form' BY <1>2 DEF Form
  <2> QED BY <2>1, <2>2 DEF DataInv
<1>4. codes' \in [DOMAIN codes' -> Passwords \cup {Nil}] BY <1>2 DEF DataInv, Form
<1>5. /\ \A g \in Forms \ {f} : form'[g] = form[g]
      /\ form'[f].pc = "email" /\ form'[f].found = form[f].found /\ form'[f].code = c
  BY <1>2 DEF DataInv, Form
<1> QED BY <1>1, <1>3, <1>4, <1>5 DEF DataInv

LEMMA StoreEmailData ==
    ASSUME SessionsTypeOK, DataInv, NEW f \in Forms, StoreEmail(f)
    PROVE  DataInv'
<1>1. form' \in [Forms -> Form']
  BY Moving DEF DataInv, StoreEmail, Step, Close, Labels, Form
<1> QED
  BY <1>1, AccountsAssumption
     DEF AccountsAssumption, DataInv, StoreEmail, Step, Close, Blank, Row, Without,
         Form, KnownUser, SignIn, Arrive, accountVars, sessionVars, SessionsTypeOK

LEMMA SendMailData ==
    ASSUME DataInv, NEW f \in Forms, SendMail(f)
    PROVE  DataInv'
<1>1. form[f].code \in made BY DEF DataInv, SendMail
<1>2. UNCHANGED <<row, active, codes, byEmail, made, orderly>> /\ mailed' = mailed \cup {form[f].code}
      /\ Close(f)
  BY DEF SendMail, sessionVars
<1> QED BY <1>1, <1>2, CloseUp DEF DataInv

LEMMA ReadRowData ==
    ASSUME DataInv, NEW f \in Forms, ReadRow(f)
    PROVE  DataInv'
<1>1. {"activate", "forget"} \subseteq Labels BY DEF Labels
<1>2. Close(f) \/ (row # Nil /\ (Step(f, "activate") \/ Step(f, "forget")))
  BY DEF ReadRow, KnownUser
<1>3. UNCHANGED <<row, active, codes, made, mailed, byEmail, orderly>> /\ form[f].by \in Browsers
  BY DEF ReadRow, sessionVars, DataInv
<1>4. CASE Close(f) BY <1>3, <1>4, CloseUp DEF DataInv
<1>5. CASE row # Nil /\ Step(f, "activate") BY <1>1, <1>3, <1>5, MoveOn DEF DataInv
<1>6. CASE row # Nil /\ Step(f, "forget") BY <1>1, <1>3, <1>6, MoveOn DEF DataInv
<1> QED BY <1>2, <1>4, <1>5, <1>6

LEMMA ActivateData ==
    ASSUME SessionsTypeOK, DataInv, NEW f \in Forms, Activate(f)
    PROVE  DataInv'
<1>1. form' \in [Forms -> Form']
  BY Moving DEF DataInv, Activate, Step, Close, Labels, Form
<1> QED
  BY <1>1, AccountsAssumption
     DEF AccountsAssumption, DataInv, Activate, Step, Close, Blank, Row, Without, Form,
         KnownUser, SignIn, Arrive, accountVars, sessionVars, SessionsTypeOK

LEMMA ForgetCodeData ==
    ASSUME SessionsTypeOK, DataInv, NEW f \in Forms, NEW r \in Requests, ForgetCode(f, r)
    PROVE  DataInv'
<1>1. form' \in [Forms -> Form']
  BY Moving DEF DataInv, ForgetCode, Step, Close, Labels, Form
<1> QED
  BY <1>1, AccountsAssumption
     DEF AccountsAssumption, DataInv, ForgetCode, Step, Close, Blank, Row, Without,
         Form, KnownUser, SignIn, Arrive, accountVars, sessionVars, SessionsTypeOK

LEMMA SaveGoogleData ==
    ASSUME DataInv, NEW f \in Forms, SaveGoogle(f)
    PROVE  DataInv'
<1>1. "enter" \in Labels /\ form[f] \in Form BY DEF Labels, DataInv
<1>2. UNCHANGED <<codes, made, mailed, byEmail, orderly>> /\ form[f].by \in Browsers
  BY DEF SaveGoogle, DataInv
<1>3. CASE form[f].found
  <2>1. row \in Row /\ row' = [row EXCEPT !.google = TRUE]
        /\ Step(f, "enter") /\ UNCHANGED active
    BY <1>3 DEF SaveGoogle, DataInv
  <2>2. row' \in Row BY <2>1 DEF Row
  <2>3. row' # Nil BY <2>2, AccountsAssumption DEF AccountsAssumption, Row
  <2> QED BY <1>1, <1>2, <2>1, <2>2, <2>3, MoveOn DEF DataInv
<1>4. CASE ~form[f].found /\ row = Nil
  <2>1. row' = [password |-> Nil, google |-> TRUE] /\ Step(f, "enter")
    BY <1>4 DEF SaveGoogle
  <2>2. row' \in Row BY <2>1 DEF Row
  <2>3. row' # Nil BY <2>2, AccountsAssumption DEF AccountsAssumption, Row
  <2> QED BY <1>1, <1>2, <2>1, <2>2, <2>3, MoveOn DEF DataInv
<1>5. CASE ~form[f].found /\ row # Nil
  <2>1. Close(f) /\ UNCHANGED <<row, active>> BY <1>5 DEF SaveGoogle
  <2> QED BY <1>2, <2>1, CloseUp DEF DataInv
<1> QED BY <1>3, <1>4, <1>5

LEMMA EnterByGoogleData ==
    ASSUME SessionsTypeOK, DataInv, NEW f \in Forms, NEW r \in Requests, EnterByGoogle(f, r)
    PROVE  DataInv'
<1>1. form' \in [Forms -> Form']
  BY Moving DEF DataInv, EnterByGoogle, Step, Close, Labels, Form
<1> QED
  BY <1>1, AccountsAssumption
     DEF AccountsAssumption, DataInv, EnterByGoogle, Step, Close, Blank, Row, Without,
         Form, KnownUser, SignIn, Arrive, accountVars, sessionVars, SessionsTypeOK

LEMMA AbandonData ==
    ASSUME SessionsTypeOK, DataInv, NEW f \in Forms, Abandon(f)
    PROVE  DataInv'
<1>1. form' \in [Forms -> Form']
  BY Moving DEF DataInv, Abandon, Step, Close, Labels, Form
<1> QED
  BY <1>1, AccountsAssumption
     DEF AccountsAssumption, DataInv, Abandon, Step, Close, Blank, Row, Without, Form,
         KnownUser, SignIn, Arrive, accountVars, sessionVars, SessionsTypeOK

LEMMA CheckCodeOrder ==
    ASSUME SessionsTypeOK, DataInv, OrderInv, NEW f \in Forms, CheckCode(f)
    PROVE  OrderInv'
<1> SUFFICES ASSUME orderly PROVE OneForm' /\ CodeInv'
  BY DEF OrderInv, CheckCode
<1>1. CodeInv /\ \A g \in Forms \ {f} : form[g].pc = "idle" /\ form'[g] = form[g]
  BY Company DEF CheckCode, Step, Close, DataInv
<1>2. OneForm' BY <1>1 DEF OneForm
<1>3. CodeInv'
  <2>1. {"save", "code"} \subseteq Labels /\ UNCHANGED <<row, codes, mailed, made, byEmail>>
    BY DEF Labels, CheckCode
  <2>2. CASE Close(f) BY <1>1, <2>1, <2>2, CloseUp DEF CodeInv, Agrees, Readable
  <2>3. CASE ~CodePending
    <3>1. Readable = {} BY <1>1, <2>3 DEF CodeInv, Readable, CodePending
    <3>2. Readable' = {} BY <2>1, <3>1 DEF Readable
    <3>3. CASE form[f].goal = "register"
      <4>1. Step(f, "save") BY <2>3, <3>3 DEF CheckCode
      <4> QED BY <1>1, <2>1, <3>2, <3>3, <4>1, MoveOn DEF CodeInv, Agrees
    <3>4. CASE form[f].goal = "login"
      <4>1. Step(f, "code") BY <2>3, <3>4 DEF CheckCode
      <4>2. Agrees(f) BY <1>1, <3>4 DEF CodeInv, CheckCode
      <4> QED BY <1>1, <2>1, <3>2, <4>1, <4>2, MoveOn DEF CodeInv, Agrees
    <3> QED BY <3>3, <3>4 DEF DataInv, CheckCode
  <2> QED BY <2>2, <2>3 DEF CheckCode, CodePending
<1> QED BY <1>2, <1>3

LEMMA SaveUserOrder ==
    ASSUME SessionsTypeOK, DataInv, OrderInv, NEW f \in Forms, SaveUser(f)
    PROVE  OrderInv'
<1> SUFFICES ASSUME orderly PROVE OneForm' /\ CodeInv'
  BY DEF OrderInv, SaveUser
<1>1. CodeInv /\ \A g \in Forms \ {f} : form[g].pc = "idle" /\ form'[g] = form[g]
  BY Company DEF SaveUser, Step, Close, DataInv
<1>2. OneForm' BY <1>1 DEF OneForm
<1>3. CodeInv'
  <2>1. /\ "code" \in Labels /\ form[f] \in Form /\ Readable = {}
        /\ UNCHANGED <<codes, mailed, made, byEmail>>
    BY <1>1 DEF Labels, DataInv, SaveUser, CodeInv
  <2>2. Readable' = {} BY <2>1 DEF Readable
  <2>3. CASE Close(f) /\ UNCHANGED row
    BY <1>1, <2>2, <2>3, <2>1, CloseUp DEF CodeInv, Agrees
  <2>4. CASE Step(f, "code") /\ row' \in Row /\ row'.password = form[f].password
    <3>1. row' # Nil BY <2>4, AccountsAssumption DEF AccountsAssumption, Row
    <3> QED BY <1>1, <2>1, <2>2, <2>4, <3>1, MoveOn DEF CodeInv, Agrees
  <2>5. CASE form[f].found
    <3>1. row \in Row /\ row' = [row EXCEPT !.password = form[f].password] /\ Step(f, "code")
      BY <2>5 DEF SaveUser, DataInv
    <3> QED BY <2>1, <2>4, <3>1 DEF Row, Form
  <2>6. CASE ~form[f].found /\ row = Nil
    <3>1. row' = [password |-> form[f].password, google |-> FALSE] /\ Step(f, "code")
      BY <2>6 DEF SaveUser
    <3> QED BY <2>1, <2>4, <3>1 DEF Row, Form
  <2> QED BY <2>3, <2>5, <2>6 DEF SaveUser
<1> QED BY <1>2, <1>3

LEMMA StoreCodeOrder ==
    ASSUME SessionsTypeOK, DataInv, OrderInv, NEW f \in Forms, StoreCode(f)
    PROVE  OrderInv'
<1> SUFFICES ASSUME orderly PROVE OneForm' /\ CodeInv'
  BY DEF OrderInv, StoreCode
<1>1. CodeInv /\ \A g \in Forms \ {f} : form[g].pc = "idle" /\ form'[g] = form[g]
  BY Company DEF StoreCode, Step, Close, DataInv
<1>2. OneForm' BY <1>1 DEF OneForm
<1>3. CodeInv'
  BY <1>1
     DEF CodeInv, Agrees, Readable, DataInv, Form, Row, StoreCode, Step, Close, Blank,
         Without, sessionVars, accountVars
<1> QED BY <1>2, <1>3

LEMMA StoreEmailOrder ==
    ASSUME SessionsTypeOK, DataInv, OrderInv, NEW f \in Forms, StoreEmail(f)
    PROVE  OrderInv'
<1> SUFFICES ASSUME orderly PROVE OneForm' /\ CodeInv'
  BY DEF OrderInv, StoreEmail
<1>1. CodeInv /\ \A g \in Forms \ {f} : form[g].pc = "idle" /\ form'[g] = form[g]
  BY Company DEF StoreEmail, Step, Close, DataInv
<1>2. OneForm' BY <1>1 DEF OneForm
<1>3. CodeInv'
  BY <1>1
     DEF CodeInv, Agrees, Readable, DataInv, Form, Row, StoreEmail, Step, Close, Blank,
         Without, sessionVars, accountVars
<1> QED BY <1>2, <1>3

LEMMA SendMailOrder ==
    ASSUME SessionsTypeOK, DataInv, OrderInv, NEW f \in Forms, SendMail(f)
    PROVE  OrderInv'
<1> SUFFICES ASSUME orderly PROVE OneForm' /\ CodeInv'
  BY DEF OrderInv, SendMail
<1>1. CodeInv /\ \A g \in Forms \ {f} : form[g].pc = "idle" /\ form'[g] = form[g]
  BY Company DEF SendMail, Step, Close, DataInv
<1>2. OneForm' BY <1>1 DEF OneForm
<1>3. CodeInv'
  BY <1>1
     DEF CodeInv, Agrees, Readable, DataInv, Form, Row, SendMail, Step, Close, Blank,
         Without, sessionVars, accountVars
<1> QED BY <1>2, <1>3

LEMMA ReadRowOrder ==
    ASSUME SessionsTypeOK, DataInv, OrderInv, NEW f \in Forms, ReadRow(f)
    PROVE  OrderInv'
<1> SUFFICES ASSUME orderly PROVE OneForm' /\ CodeInv'
  BY DEF OrderInv, ReadRow
<1>1. CodeInv /\ \A g \in Forms \ {f} : form[g].pc = "idle" /\ form'[g] = form[g]
  BY Company DEF ReadRow, Step, Close, DataInv
<1>2. OneForm' BY <1>1 DEF OneForm
<1>3. CodeInv'
  <2>1. {"activate", "forget"} \subseteq Labels /\ UNCHANGED <<row, codes, mailed, made, byEmail>>
    BY DEF Labels, ReadRow
  <2>2. CASE Close(f) BY <1>1, <2>1, <2>2, CloseUp DEF CodeInv, Agrees, Readable
  <2>3. CASE Step(f, "activate")
    BY <1>1, <2>1, <2>3, MoveOn DEF CodeInv, Agrees, Readable, ReadRow
  <2>4. CASE Step(f, "forget")
    BY <1>1, <2>1, <2>4, MoveOn DEF CodeInv, Agrees, Readable, ReadRow
  <2> QED BY <2>2, <2>3, <2>4 DEF ReadRow
<1> QED BY <1>2, <1>3

LEMMA ActivateOrder ==
    ASSUME SessionsTypeOK, DataInv, OrderInv, NEW f \in Forms, Activate(f)
    PROVE  OrderInv'
<1> SUFFICES ASSUME orderly PROVE OneForm' /\ CodeInv'
  BY DEF OrderInv, Activate
<1>1. CodeInv /\ \A g \in Forms \ {f} : form[g].pc = "idle" /\ form'[g] = form[g]
  BY Company DEF Activate, Step, Close, DataInv
<1>2. OneForm' BY <1>1 DEF OneForm
<1>3. CodeInv'
  BY <1>1
     DEF CodeInv, Agrees, Readable, DataInv, Form, Row, Activate, Step, Close, Blank,
         Without, sessionVars, accountVars
<1> QED BY <1>2, <1>3

LEMMA ForgetCodeOrder ==
    ASSUME SessionsTypeOK, DataInv, OrderInv, NEW f \in Forms, NEW r \in Requests, ForgetCode(f, r)
    PROVE  OrderInv'
<1> SUFFICES ASSUME orderly PROVE OneForm' /\ CodeInv'
  BY DEF OrderInv, ForgetCode
<1>1. CodeInv /\ \A g \in Forms \ {f} : form[g].pc = "idle" /\ form'[g] = form[g]
  BY Company DEF ForgetCode, Step, Close, DataInv
<1>2. OneForm' BY <1>1 DEF OneForm
<1>3. CodeInv'
  BY <1>1
     DEF CodeInv, Agrees, Readable, DataInv, Form, Row, ForgetCode, Step, Close, Blank,
         Without, sessionVars, accountVars
<1> QED BY <1>2, <1>3

LEMMA SaveGoogleOrder ==
    ASSUME SessionsTypeOK, DataInv, OrderInv, NEW f \in Forms, SaveGoogle(f)
    PROVE  OrderInv'
<1> SUFFICES ASSUME orderly PROVE OneForm' /\ CodeInv'
  BY DEF OrderInv, SaveGoogle
<1>1. CodeInv /\ \A g \in Forms \ {f} : form[g].pc = "idle" /\ form'[g] = form[g]
  BY Company DEF SaveGoogle, Step, Close, DataInv
<1>2. OneForm' BY <1>1 DEF OneForm
<1>3. CodeInv'
  <2>1. "enter" \in Labels /\ UNCHANGED <<codes, mailed, made, byEmail>>
    BY DEF Labels, SaveGoogle
  <2>2. CASE Close(f) /\ UNCHANGED row
    BY <1>1, <2>1, <2>2, CloseUp DEF CodeInv, Agrees, Readable
  <2>3. CASE form[f].found
    <3>1. row \in Row /\ row' = [row EXCEPT !.google = TRUE] /\ Step(f, "enter")
      BY <2>3 DEF SaveGoogle, DataInv
    <3>2. row' \in Row /\ row'.password = row.password BY <3>1 DEF Row
    <3>3. row # Nil /\ row' # Nil
      BY <3>1, <3>2, AccountsAssumption DEF AccountsAssumption, Row
    <3> QED BY <1>1, <2>1, <3>1, <3>2, <3>3, MoveOn DEF CodeInv, Agrees, Readable
  <2>4. CASE ~form[f].found /\ row = Nil
    <3>1. Step(f, "enter") BY <2>4 DEF SaveGoogle
    <3>2. Readable = {} BY <1>1, <2>4 DEF CodeInv
    <3> QED BY <1>1, <2>1, <3>1, <3>2, MoveOn DEF CodeInv, Agrees, Readable
  <2> QED BY <2>2, <2>3, <2>4 DEF SaveGoogle
<1> QED BY <1>2, <1>3

LEMMA EnterByGoogleOrder ==
    ASSUME SessionsTypeOK, DataInv, OrderInv, NEW f \in Forms, NEW r \in Requests, EnterByGoogle(f, r)
    PROVE  OrderInv'
<1> SUFFICES ASSUME orderly PROVE OneForm' /\ CodeInv'
  BY DEF OrderInv, EnterByGoogle
<1>1. CodeInv /\ \A g \in Forms \ {f} : form[g].pc = "idle" /\ form'[g] = form[g]
  BY Company DEF EnterByGoogle, Step, Close, DataInv
<1>2. OneForm' BY <1>1 DEF OneForm
<1>3. CodeInv'
  BY <1>1
     DEF CodeInv, Agrees, Readable, DataInv, Form, Row, EnterByGoogle, Step, Close,
         Blank, Without, sessionVars, accountVars
<1> QED BY <1>2, <1>3

LEMMA AbandonOrder ==
    ASSUME SessionsTypeOK, DataInv, OrderInv, NEW f \in Forms, Abandon(f)
    PROVE  OrderInv'
<1> SUFFICES ASSUME orderly PROVE OneForm' /\ CodeInv'
  BY DEF OrderInv, Abandon
<1>1. CodeInv /\ \A g \in Forms \ {f} : form[g].pc = "idle" /\ form'[g] = form[g]
  BY Company DEF Abandon, Step, Close, DataInv
<1>2. OneForm' BY <1>1 DEF OneForm
<1>3. CodeInv'
  BY <1>1
     DEF CodeInv, Agrees, Readable, DataInv, Form, Row, Abandon, Step, Close, Blank,
         Without, sessionVars, accountVars
<1> QED BY <1>2, <1>3

-----------------------------------------------------------------------------
\* A form is opened; what it has read agrees with the row.
LEMMA OpenUp ==
    ASSUME DataInv, OrderInv, NEW f \in Forms, NEW e \in Form, Open(f, e),
           e.found => row # Nil,
           e.pc \in {"otp", "user", "google"},
           e.pc = "otp" => e.goal \in {"register", "login"},
           e.pc = "otp" /\ e.goal = "login" => row # Nil /\ row.password = e.password,
           e.pc \in {"user", "google"} => e.by \in Browsers,
           e.pc = "user" => e.code \in Readable /\ e.password = codes[e.code]
    PROVE  DataInv' /\ OrderInv'
<1>1. form' = [form EXCEPT ![f] = e] /\ form[f].pc = "idle"
      /\ UNCHANGED <<row, active, codes, byEmail, made, mailed>>
  BY DEF Open, sessionVars
<1>2. form' \in [Forms -> Form']
  <2>1. Form' = Form BY <1>1 DEF Form
  <2> QED BY <1>1, <2>1 DEF DataInv
<1>3. form'[f] = e /\ \A g \in Forms \ {f} : form'[g] = form[g]
  BY <1>1 DEF DataInv
<1>4. orderly' \in BOOLEAN BY DEF Open, DataInv
<1>5. DataInv' BY <1>1, <1>2, <1>3, <1>4 DEF DataInv
<1>6. ASSUME orderly' PROVE OneForm' /\ CodeInv'
  <2>1. orderly /\ \A g \in Forms : form[g].pc = "idle" BY <1>6 DEF Open
  <2>2. CodeInv BY <2>1 DEF OrderInv
  <2>3. OneForm' BY <1>3, <2>1 DEF OneForm
  <2>4. CodeInv' BY <1>1, <1>3, <2>1, <2>2 DEF CodeInv, Agrees, Readable
  <2> QED BY <2>3, <2>4
<1> QED BY <1>5, <1>6 DEF OrderInv

LEMMA RegisterStep ==
    ASSUME DataInv, OrderInv, NEW f \in Forms, NEW p \in Passwords, Register(f, p)
    PROVE  DataInv' /\ OrderInv'
<1> DEFINE e == [Blank EXCEPT !.pc = "otp", !.goal = "register",
                              !.password = p, !.found = KnownUser]
<1>1. e \in Form BY DEF Form, Blank, KnownUser
<1>2. e.found => row # Nil BY DEF Blank, KnownUser
<1>3. e.pc = "otp" /\ e.goal = "register" BY DEF Blank
<1>4. Open(f, e) BY DEF Register
<1> HIDE DEF e
<1> QED BY <1>1, <1>2, <1>3, <1>4, OpenUp

LEMMA LoginStep ==
    ASSUME DataInv, OrderInv, NEW f \in Forms, NEW p \in Passwords, Login(f, p)
    PROVE  DataInv' /\ OrderInv'
<1> DEFINE e == [Blank EXCEPT !.pc = "otp", !.goal = "login", !.password = p]
<1>1. e \in Form BY DEF Form, Blank
<1>2. e.pc = "otp" /\ e.goal = "login" /\ ~e.found /\ e.password = p BY DEF Blank
<1>3. Open(f, e) /\ row # Nil /\ row.password = p BY DEF Login, ActiveUser, KnownUser
<1> HIDE DEF e
<1> QED BY <1>1, <1>2, <1>3, OpenUp

LEMMA ConfirmStep ==
    ASSUME DataInv, OrderInv, NEW f \in Forms, NEW b \in Browsers, NEW c \in Codes,
           NEW goal \in {"login", "register"}, Confirm(f, b, c, goal)
    PROVE  DataInv' /\ OrderInv'
<1> DEFINE e == [Blank EXCEPT !.pc = "user", !.goal = goal, !.by = b,
                              !.code = c, !.password = codes[c]]
<1>1. c \in Readable /\ c \in made /\ codes[c] \in Passwords \cup {Nil}
  BY DEF Confirm, Readable, DataInv
<1>2. e \in Form BY <1>1 DEF Form, Blank
<1>3. e.pc = "user" /\ e.by = b /\ ~e.found /\ e.code = c /\ e.password = codes[c]
  BY DEF Blank
<1>4. Open(f, e) BY DEF Confirm
<1> HIDE DEF e
<1> QED BY <1>1, <1>2, <1>3, <1>4, OpenUp

LEMMA GoogleStep ==
    ASSUME DataInv, OrderInv, NEW f \in Forms, NEW b \in Browsers, Google(f, b)
    PROVE  DataInv' /\ OrderInv'
<1> DEFINE e == [Blank EXCEPT !.pc = "google", !.goal = "google", !.by = b,
                              !.found = KnownUser]
<1>1. e \in Form BY DEF Form, Blank, KnownUser
<1>2. e.found => row # Nil BY DEF Blank, KnownUser
<1>3. e.pc = "google" /\ e.by = b BY DEF Blank
<1>4. Open(f, e) BY DEF Google
<1> HIDE DEF e
<1> QED BY <1>1, <1>2, <1>3, <1>4, OpenUp

\* A code times out.
LEMMA ExpireStep ==
    ASSUME DataInv, OrderInv, NEW c \in Codes, Expire(c)
    PROVE  DataInv' /\ OrderInv'
<1>1. DataInv' BY DEF DataInv, Expire, Without, Form, sessionVars
<1>2. OrderInv'
  BY DEF OrderInv, OneForm, CodeInv, Agrees, Readable, Expire, Without, sessionVars
<1> QED BY <1>1, <1>2

-----------------------------------------------------------------------------
\* Requests for the sessions leave the account's own state alone.
LEMMA Elsewhere ==
    ASSUME DataInv, OrderInv, UNCHANGED accountVars, row = Nil => ~active'
    PROVE  DataInv' /\ OrderInv'
<1>1. DataInv' BY DEF DataInv, Form, accountVars
<1>2. OrderInv' BY DEF OrderInv, OneForm, CodeInv, Agrees, Readable, accountVars
<1> QED BY <1>1, <1>2

LEMMA WorkKeepsActive == ASSUME NEW r \in Requests, Work(r) PROVE UNCHANGED active
BY DEF Work, CheckToken, ReadUser, DropKey, Unlist, CountSessions, FindOldest, EvictKey,
       EvictListed, StoreKey, ListSession, Reply, PurgeRead, PurgeKeys, PurgeList, Die

\* A step of a form is nothing, an arrival or a change of is_active to Sessions.
LEMMA FormsSessions ==
    ASSUME SessionsInv, DataInv, NEW f \in Forms, Fill(f)
    PROVE  SessionsInv'
<1> DEFINE Same == UNCHANGED <<keys, listed, scores, cookie, req, issued, spent, exchanged, solo>>
<1>1. active \in BOOLEAN /\ fails \in 0..MaxFails
  BY DEF SessionsInv, TokenInv, SessionsTypeOK
<1>2. CASE Abandon(f)
  <2>1. Same /\ active' = active BY <1>2 DEF Abandon
  <2>2. fails' \in 0..MaxFails
    BY <1>1, <1>2, SessionsAssumption DEF Abandon, SessionsAssumption
  <2> QED BY <1>1, <2>1, <2>2, ActiveStep
<1>3. CASE SaveUser(f) \/ Activate(f) \/ SaveGoogle(f)
  <2>1. Same /\ fails' = fails BY <1>3 DEF SaveUser, Activate, SaveGoogle
  <2>2. active' \in BOOLEAN BY <1>1, <1>3 DEF SaveUser, Activate, SaveGoogle
  <2> QED BY <1>1, <2>1, <2>2, ActiveStep
<1>4. ASSUME NEW r \in Requests, ForgetCode(f, r) \/ EnterByGoogle(f, r) PROVE SessionsInv'
  <2>1. form[f].by \in Browsers /\ SignIn(r, form[f].by)
    BY <1>4 DEF ForgetCode, EnterByGoogle, DataInv
  <2> QED BY <2>1, SignInStep
<1>5. CASE UNCHANGED sessionVars
  <2>1. Same /\ active' = active /\ fails' = fails BY <1>5 DEF sessionVars
  <2> QED BY <1>1, <2>1, ActiveStep
<1>6. \/ Abandon(f) \/ SaveUser(f) \/ Activate(f) \/ SaveGoogle(f)
      \/ \E r \in Requests : ForgetCode(f, r) \/ EnterByGoogle(f, r)
      \/ UNCHANGED sessionVars
  BY DEF Fill, Register, Login, CheckCode, StoreCode, StoreEmail, SendMail, Confirm,
         Google, ReadRow, Open
<1> QED BY <1>2, <1>3, <1>4, <1>5, <1>6

LEMMA FormsAccount ==
    ASSUME SessionsInv, DataInv, OrderInv, NEW f \in Forms, Fill(f)
    PROVE  DataInv' /\ OrderInv'
<1>0. SessionsTypeOK BY DEF SessionsInv, TokenInv
<1>1. CASE CheckCode(f) BY <1>0, <1>1, CheckCodeData, CheckCodeOrder
<1>2. CASE SaveUser(f) BY <1>0, <1>2, SaveUserData, SaveUserOrder
<1>3. CASE StoreCode(f) BY <1>0, <1>3, StoreCodeData, StoreCodeOrder
<1>4. CASE StoreEmail(f) BY <1>0, <1>4, StoreEmailData, StoreEmailOrder
<1>5. CASE SendMail(f) BY <1>0, <1>5, SendMailData, SendMailOrder
<1>6. CASE ReadRow(f) BY <1>0, <1>6, ReadRowData, ReadRowOrder
<1>7. CASE Activate(f) BY <1>0, <1>7, ActivateData, ActivateOrder
<1>8. CASE SaveGoogle(f) BY <1>0, <1>8, SaveGoogleData, SaveGoogleOrder
<1>9. CASE Abandon(f) BY <1>0, <1>9, AbandonData, AbandonOrder
<1>10. ASSUME NEW r \in Requests, ForgetCode(f, r) PROVE DataInv' /\ OrderInv'
  BY <1>0, <1>10, ForgetCodeData, ForgetCodeOrder
<1>11. ASSUME NEW r \in Requests, EnterByGoogle(f, r) PROVE DataInv' /\ OrderInv'
  BY <1>0, <1>11, EnterByGoogleData, EnterByGoogleOrder
<1> QED BY <1>1, <1>2, <1>3, <1>4, <1>5, <1>6, <1>7, <1>8, <1>9, <1>10, <1>11,
           RegisterStep, LoginStep, ConfirmStep, GoogleStep DEF Fill

-----------------------------------------------------------------------------
LEMMA AccountsStart == AccountsInit => AccountsInv
<1> SUFFICES ASSUME AccountsInit PROVE AccountsInv
  OBVIOUS
<1>1. SessionsInv BY Start DEF AccountsInit
<1>2. form \in [Forms -> Form] BY DEF AccountsInit, Form, Blank
<1>3. DataInv BY <1>2 DEF AccountsInit, DataInv, Blank
<1>4. OrderInv BY DEF AccountsInit, OrderInv, OneForm, CodeInv, Readable, Blank
<1> QED BY <1>1, <1>3, <1>4 DEF AccountsInv

LEMMA AccountsStep == AccountsInv /\ [Next]_vars => AccountsInv'
<1> SUFFICES ASSUME SessionsInv, DataInv, OrderInv, [Next]_vars PROVE AccountsInv'
  BY DEF AccountsInv
<1>0. active \in BOOLEAN /\ fails \in 0..MaxFails
  BY DEF SessionsInv, TokenInv, SessionsTypeOK
<1>1. ASSUME NEW f \in Forms, Fill(f) PROVE AccountsInv'
  BY <1>1, FormsSessions, FormsAccount DEF AccountsInv
<1>2. ASSUME NEW c \in Codes, Expire(c) PROVE AccountsInv'
  <2>1. SessionsInv' BY <1>0, <1>2, ActiveStep DEF Expire, sessionVars
  <2> QED BY <1>2, <2>1, ExpireStep DEF AccountsInv
<1>3. ASSUME NEW r \in Requests, NEW b \in Browsers, UseCookie(r, b), UNCHANGED accountVars
      PROVE  AccountsInv'
  <2>1. UNCHANGED active BY <1>3 DEF UseCookie, Refresh, Logout, LogoutAll, Arrive
  <2>2. row = Nil => ~active' BY <2>1 DEF DataInv
  <2> QED BY <1>3, <2>2, AskStep, Elsewhere DEF AccountsInv
<1>4. ASSUME NEW r \in Requests, Work(r), UNCHANGED accountVars PROVE AccountsInv'
  <2>1. UNCHANGED active BY <1>4, WorkKeepsActive
  <2>2. row = Nil => ~active' BY <2>1 DEF DataInv
  <2> QED BY <1>4, <2>2, WorkStep, Elsewhere DEF AccountsInv
<1>5. ASSUME NEW t \in Tokens, TimeOut(t), UNCHANGED accountVars PROVE AccountsInv'
  <2>1. row = Nil => ~active' BY <1>5 DEF DataInv, TimeOut
  <2> QED BY <1>5, <2>1, TimeOutStep, Elsewhere DEF AccountsInv
<1>6. CASE KnownUser /\ SetActive /\ UNCHANGED accountVars
  <2>1. SessionsInv'
    BY <1>0, <1>6, ActiveStep, SessionsAssumption DEF SetActive, SessionsAssumption
  <2>2. row = Nil => ~active' BY <1>6 DEF KnownUser
  <2> QED BY <1>6, <2>1, <2>2, Elsewhere DEF AccountsInv
<1>7. CASE UNCHANGED vars
  <2>1. SessionsInv' BY <1>0, <1>7, ActiveStep DEF vars, sessionVars
  <2>2. UNCHANGED accountVars /\ (row = Nil => ~active')
    BY <1>7 DEF vars, sessionVars, DataInv
  <2> QED BY <2>1, <2>2, Elsewhere DEF AccountsInv
<1> QED BY <1>1, <1>2, <1>3, <1>4, <1>5, <1>6, <1>7 DEF Next

\* Every step of a form, of a session request and of the clock keeps the account,
\* its codes and its sessions as the properties need them.
THEOREM AccountsInvariance == Spec => []AccountsInv
BY AccountsStart, AccountsStep, PTL DEF Spec

-----------------------------------------------------------------------------
\* The forms, codes and sessions of an address have their types.
THEOREM AccountTypes == Spec => []TypeOK
<1>1. AccountsInv => TypeOK
  BY DEF AccountsInv, SessionsInv, TokenInv, DataInv, TypeOK, Row, Form
<1> QED BY <1>1, AccountsInvariance, PTL

\* While no two forms overlap, whatever dies, is retried or times out, an
\* address is activated with the password its code was asked with.
THEOREM TheConfirmedPasswordCounts == Spec => []ActivatedAsConfirmed
<1>1. AccountsInv => ActivatedAsConfirmed
  BY DEF AccountsInv, OrderInv, CodeInv, Agrees, ActivatedAsConfirmed
<1> QED BY <1>1, AccountsInvariance, PTL

\* A refresh token that was exchanged or logged out is never accepted again, for
\* any number of tabs, under every interleaving of their Redis commands.
THEOREM SpentStaysDead == Spec => []SpentIsDead
<1>1. AccountsInv => SpentIsDead BY Promises DEF AccountsInv
<1> QED BY <1>1, AccountsInvariance, PTL

\* Requests that never overlapped keep the account within its sessions.
THEOREM NeverTooManySessions == Spec => []SessionsWithinLimit
<1>1. AccountsInv => SessionsWithinLimit BY Promises DEF AccountsInv
<1> QED BY <1>1, AccountsInvariance, PTL

\* And leave no browser a session that a logout from all devices would miss.
THEOREM NoSessionUnlisted == Spec => []HeldIsListed
<1>1. AccountsInv => HeldIsListed BY Promises DEF AccountsInv
<1> QED BY <1>1, AccountsInvariance, PTL
=============================================================================
