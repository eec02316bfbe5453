------------------------------ MODULE Sessions ------------------------------
(***************************************************************************)
(* The refresh sessions of one account (JWTRefreshAuthSession): a Redis    *)
(* key per token and a sorted set of the account's tokens, changed by      *)
(* single commands.  Browsers sign in, rotate their refresh cookie and log *)
(* out, from several tabs at once; a request may die between two commands. *)
(***************************************************************************)
EXTENDS Naturals, FiniteSets

CONSTANTS
    Browsers, Requests,
    Tokens,        \* refresh tokens that may be issued (bound)
    MaxSessions,   \* max_auth_user_sessions
    MaxFails,      \* bound: dead requests, timeouts, changes of is_active
    Nil

ASSUME SessionsAssumption ==
    /\ Nil \notin Tokens /\ Nil \notin Browsers
    /\ IsFiniteSet(Tokens)
    /\ MaxSessions \in Nat \ {0} /\ MaxFails \in Nat

VARIABLES
    keys,     \* tokens t with a key refresh:<t>
    listed,   \* members of user_refresh_sessions:<user>
    scores,   \* of the members: time.time() as a counter
    cookie,   \* the refresh cookie of each browser
    req,      \* the requests in flight
    issued,   \* tokens the generator has made
    spent,    \* history: tokens whose exchange or logout was answered
    exchanged,\* history: tokens a refresh has taken out of Redis
    active,   \* users.is_active of the account
    fails,    \* requests that died, timeouts, changes of is_active
    solo      \* history: no two requests were ever in flight together

sessionVars == <<keys, listed, scores, cookie, req, issued, spent, exchanged, active, fails, solo>>

Idle == [pc |-> "idle", by |-> Nil, goal |-> "none", token |-> Nil,
         new |-> Nil, found |-> {}]

SessionsInit ==
    /\ keys = {} /\ listed = {} /\ scores = [t \in Tokens |-> 0]
    /\ cookie = [b \in Browsers |-> Nil]
    /\ req = [r \in Requests |-> Idle]
    /\ issued = {} /\ spent = {} /\ exchanged = {}
    /\ active \in BOOLEAN /\ fails = 0 /\ solo = TRUE

-----------------------------------------------------------------------------
\* A request arrives from browser b.
Arrive(r, b, pc, goal, token, new) ==
    /\ req[r].pc = "idle"
    /\ req' = [req EXCEPT ![r] = [pc |-> pc, by |-> b, goal |-> goal,
                                  token |-> token, new |-> new, found |-> {}]]
    /\ solo' = (solo /\ \A q \in Requests : req[q].pc = "idle")
    /\ UNCHANGED <<keys, listed, scores, cookie, spent, exchanged, active, fails>>

\* _jwt_tokens, authorize: the account is checked, a token is made for it.
SignIn(r, b) ==
    \E n \in Tokens \ issued :
        /\ issued' = issued \cup {n}
        /\ Arrive(r, b, "count", "signin", Nil, n)

\* The endpoints that take the cookie (get_jwt_refresh_cookie, csrf_protect).
Refresh(r, b) ==
    /\ cookie[b] # Nil
    /\ Arrive(r, b, "check", "refresh", cookie[b], Nil) /\ UNCHANGED issued

Logout(r, b) ==
    /\ cookie[b] # Nil
    /\ Arrive(r, b, "drop", "logout", cookie[b], Nil) /\ UNCHANGED issued

LogoutAll(r, b) ==
    /\ cookie[b] # Nil
    /\ Arrive(r, b, "purge", "all", cookie[b], Nil) /\ UNCHANGED issued

-----------------------------------------------------------------------------
Goto(r, pc) == req' = [req EXCEPT ![r].pc = pc]

Finish(r) == req' = [req EXCEPT ![r] = Idle]

\* JwtRefreshTokenUpdateUC.execute: is_exists, then the user's row.
CheckToken(r) ==
    /\ req[r].pc = "check"
    /\ req' = [req EXCEPT ![r].pc = IF req[r].token \in keys THEN "user" ELSE "purge",
                          ![r].goal = IF req[r].token \in keys THEN "refresh" ELSE "replay"]
    /\ UNCHANGED <<keys, listed, scores, cookie, issued, spent, exchanged, active, fails, solo>>

ReadUser(r) ==
    /\ req[r].pc = "user"
    /\ req' = [req EXCEPT ![r].pc = IF active THEN "drop" ELSE "purge",
                          ![r].goal = IF active THEN "refresh" ELSE "inactive"]
    /\ UNCHANGED <<keys, listed, scores, cookie, issued, spent, exchanged, active, fails, solo>>

\* Wrong on purpose: only the sorted set forgets the token.
DropNoKey(r) ==
    /\ req[r].pc = "drop"
    /\ exchanged' = IF req[r].goal = "refresh" THEN exchanged \cup {req[r].token} ELSE exchanged
    /\ req' = [req EXCEPT ![r].pc = "unlist"]
    /\ UNCHANGED <<keys, listed, scores, cookie, issued, spent, active, fails, solo>>

\* remove: the key, then the member of the sorted set.
DropKey(r) ==
    /\ req[r].pc = "drop"
    /\ keys' = keys \ {req[r].token}
    /\ exchanged' = IF req[r].goal = "refresh" THEN exchanged \cup {req[r].token} ELSE exchanged
    /\ Goto(r, "unlist")
    /\ UNCHANGED <<listed, scores, cookie, issued, spent, active, fails, solo>>

\* A logout is answered here: the answer is a Response of its own, so the
\* cookies cleared on the injected one stay in the browser.
Unlist(r) ==
    /\ req[r].pc = "unlist"
    /\ listed' = listed \ {req[r].token}
    /\ \/ /\ req[r].goal = "logout"
          /\ spent' = spent \cup {req[r].token}
          /\ Finish(r) /\ UNCHANGED issued
       \/ /\ req[r].goal = "refresh"
          /\ \E n \in Tokens \ issued :
                /\ issued' = issued \cup {n}
                /\ req' = [req EXCEPT ![r].pc = "count", ![r].new = n]
          /\ UNCHANGED spent
    /\ UNCHANGED <<keys, scores, cookie, exchanged, active, fails, solo>>

-----------------------------------------------------------------------------
\* Wrong on purpose: one session too many.
CountSessionsLate(r) ==
    /\ req[r].pc = "count"
    /\ Goto(r, IF Cardinality(listed) > MaxSessions THEN "oldest" ELSE "store")
    /\ UNCHANGED <<keys, listed, scores, cookie, issued, spent, exchanged, active, fails, solo>>

\* create: ZCARD; ZRANGE 0 0 and remove when the limit is reached; SET; ZADD.
CountSessions(r) ==
    /\ req[r].pc = "count"
    /\ Goto(r, IF Cardinality(listed) >= MaxSessions THEN "oldest" ELSE "store")
    /\ UNCHANGED <<keys, listed, scores, cookie, issued, spent, exchanged, active, fails, solo>>

Oldest == {t \in listed : \A u \in listed : scores[t] <= scores[u]}

FindOldest(r) ==
    /\ req[r].pc = "oldest"
    /\ \/ listed = {} /\ Goto(r, "store")
       \/ \E t \in Oldest :
            req' = [req EXCEPT ![r].pc = "evict", ![r].found = {t}]
    /\ UNCHANGED <<keys, listed, scores, cookie, issued, spent, exchanged, active, fails, solo>>

EvictKey(r) ==
    /\ req[r].pc = "evict"
    /\ keys' = keys \ req[r].found
    /\ Goto(r, "unlistOldest")
    /\ UNCHANGED <<listed, scores, cookie, issued, spent, exchanged, active, fails, solo>>

EvictListed(r) ==
    /\ req[r].pc = "unlistOldest"
    /\ listed' = listed \ req[r].found
    /\ Goto(r, "store")
    /\ UNCHANGED <<keys, scores, cookie, issued, spent, exchanged, active, fails, solo>>

\* Wrong on purpose: the key of the old token.
StoreOldKey(r) ==
    /\ req[r].pc = "store"
    /\ keys' = keys \cup {req[r].token}
    /\ Goto(r, "list")
    /\ UNCHANGED <<listed, scores, cookie, issued, spent, exchanged, active, fails, solo>>

StoreKey(r) ==
    /\ req[r].pc = "store"
    /\ keys' = keys \cup {req[r].new}
    /\ Goto(r, "list")
    /\ UNCHANGED <<listed, scores, cookie, issued, spent, exchanged, active, fails, solo>>

\* Wrong on purpose: ZADD is left out.
ListNoSession(r) ==
    /\ req[r].pc = "list"
    /\ Goto(r, "answer")
    /\ UNCHANGED <<keys, listed, scores, cookie, issued, spent, exchanged, active, fails, solo>>

ListSession(r) ==
    /\ req[r].pc = "list"
    /\ listed' = listed \cup {req[r].new}
    /\ scores' = [scores EXCEPT ![req[r].new] = Cardinality({t \in Tokens : scores[t] > 0}) + 1]
    /\ Goto(r, "answer")
    /\ UNCHANGED <<keys, cookie, issued, spent, exchanged, active, fails, solo>>

\* set_auth_cookies; spent is the token the browser no longer needs.
Reply(r) ==
    /\ req[r].pc = "answer"
    /\ cookie' = [cookie EXCEPT ![req[r].by] = req[r].new]
    /\ spent' = spent \cup ({req[r].token} \ {Nil})
    /\ Finish(r)
    /\ UNCHANGED <<keys, listed, scores, issued, exchanged, active, fails, solo>>

-----------------------------------------------------------------------------
\* remove_all_user_sessions: ZRANGE 0 -1, DEL the keys, DEL the set.  A refresh
\* ends in an error, whose handler writes its own response: the cookie stays.
PurgeRead(r) ==
    /\ req[r].pc = "purge"
    /\ IF listed = {} THEN Finish(r)
       ELSE req' = [req EXCEPT ![r].pc = "purgeKeys", ![r].found = listed]
    /\ UNCHANGED <<keys, listed, scores, cookie, issued, spent, exchanged, active, fails, solo>>

PurgeKeys(r) ==
    /\ req[r].pc = "purgeKeys"
    /\ keys' = keys \ req[r].found
    /\ Goto(r, "purgeList")
    /\ UNCHANGED <<listed, scores, cookie, issued, spent, exchanged, active, fails, solo>>

PurgeList(r) ==
    /\ req[r].pc = "purgeList"
    /\ listed' = {}
    /\ Finish(r)
    /\ UNCHANGED <<keys, scores, cookie, issued, spent, exchanged, active, fails, solo>>

-----------------------------------------------------------------------------
\* A request dies between two commands: Redis or the process fails.
Die(r) ==
    /\ req[r].pc # "idle" /\ fails < MaxFails
    /\ fails' = fails + 1
    /\ Finish(r)
    /\ UNCHANGED <<keys, listed, scores, cookie, issued, spent, exchanged, active, solo>>

\* refresh:<t> times out; the sorted set lives as long as its newest member.
TimeOut(t) ==
    /\ t \in keys /\ t \in listed /\ fails < MaxFails
    /\ \A u \in keys \cap listed : scores[t] <= scores[u]
    /\ keys' = keys \ {t}
    /\ fails' = fails + 1
    /\ UNCHANGED <<listed, scores, cookie, req, issued, spent, exchanged, active, solo>>

Work(r) ==
    \/ CheckToken(r) \/ ReadUser(r) \/ DropKey(r) \/ Unlist(r)
    \/ CountSessions(r) \/ FindOldest(r) \/ EvictKey(r) \/ EvictListed(r)
    \/ StoreKey(r) \/ ListSession(r) \/ Reply(r)
    \/ PurgeRead(r) \/ PurgeKeys(r) \/ PurgeList(r)
    \/ Die(r)

UseCookie(r, b) == Refresh(r, b) \/ Logout(r, b) \/ LogoutAll(r, b)

\* An administrator deactivates the account, or it is activated again.
SetActive ==
    /\ fails < MaxFails
    /\ fails' = fails + 1
    /\ active' = ~active
    /\ UNCHANGED <<keys, listed, scores, cookie, req, issued, spent, exchanged, solo>>

SessionsNext ==
    \/ \E r \in Requests, b \in Browsers : SignIn(r, b) \/ UseCookie(r, b)
    \/ \E r \in Requests : Work(r)
    \/ \E t \in Tokens : TimeOut(t)
    \/ SetActive

SessionsSpec == SessionsInit /\ [][SessionsNext]_sessionVars

-----------------------------------------------------------------------------
SessionsTypeOK ==
    /\ keys \subseteq issued /\ listed \subseteq issued /\ issued \subseteq Tokens
    /\ scores \in [Tokens -> Nat]
    /\ cookie \in [Browsers -> Tokens \cup {Nil}]
    /\ req \in [Requests ->
         [pc : {"idle", "check", "user", "drop", "unlist", "count", "oldest", "evict",
                "unlistOldest", "store", "list", "answer", "purge", "purgeKeys", "purgeList"},
          by : Browsers \cup {Nil},
          goal : {"none", "signin", "refresh", "logout", "all", "replay", "inactive"},
          token : Tokens \cup {Nil}, new : Tokens \cup {Nil}, found : SUBSET Tokens]]
    /\ spent \subseteq Tokens /\ exchanged \subseteq Tokens
    /\ active \in BOOLEAN /\ fails \in 0..MaxFails /\ solo \in BOOLEAN

\* A refresh token that was exchanged or logged out is never accepted again,
\* however the requests of several tabs, evictions and purges interleave.
SpentIsDead == spent \cap keys = {}

\* Requests that never overlapped, some of them dead half way, keep the account
\* within its number of sessions: a new one evicts the oldest.
SessionsWithinLimit ==
    solo => Cardinality(keys \cap listed) <= MaxSessions

\* And every session a browser still holds is on the list a logout from all
\* devices closes.
HeldIsListed ==
    solo => \A b \in Browsers : cookie[b] \in keys => cookie[b] \in listed

\* "A second request may be taken for a replay of the old refresh token": only
\* a token that was exchanged before is; nothing else closes all sessions.
OnlyReuseIsReplay ==
    \A r \in Requests : req[r].goal = "replay" => req[r].token \in exchanged
=============================================================================
