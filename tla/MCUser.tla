------------------------------- MODULE MCUser -------------------------------
(* A user's account and sessions, their chat with the support and the one   *)
(* with the assistant.  The three share no state: a behaviour is one of     *)
(* them, chosen at the start; the others rest.                              *)
EXTENDS Accounts, Support, Agents, TLC

VARIABLE topic
userVars == <<topic, sessionVars, accountVars, supportVars, agentVars>>

UserInit ==
    /\ topic \in {"account", "support", "agents"}
    /\ AccountsInit /\ SupportInit /\ AgentsInit
    /\ topic # "support" => chats[1] = None

UserNext ==
    /\ \/ topic = "account" /\ Next /\ UNCHANGED <<supportVars, agentVars>>
       \/ topic = "support" /\ SupportNext /\ UNCHANGED <<sessionVars, accountVars, agentVars>>
       \/ topic = "agents" /\ AgentsNext /\ UNCHANGED <<sessionVars, accountVars, supportVars>>
    /\ UNCHANGED topic

UserSpec == UserInit /\ [][UserNext]_userVars

MCWorkOf == [b \in Books |-> IF b = "b3" THEN "w2" ELSE "w1"]
MCWindows == <<2>>
\* Of any two that are alike either may be called the first.  A topic uses only some
\* of these sets, so one swap does for a set of the account and one of a chat.
Swap(S) == CHOOSE p \in Permutations(S) : \A x \in S : p[x] # x
Same(S) == [x \in S |-> x]
Either(S, T) == {Same(S) @@ Same(T), Swap(S) @@ Swap(T)}
Swaps ==
    {p @@ q @@ r @@ s @@ t :
        p \in Either(Requests, Devices), q \in Either(Tokens, Managers),
        r \in Either(Forms, Turns), s \in Permutations(Codes), t \in Permutations(Passwords)}

\* The account has one disturbance per behaviour: overlapping session requests
\* (of an account made with one code), overlapping forms (and one session), or
\* something that fails.
OneDisturbance ==
    \/ solo /\ orderly
    \/ orderly /\ fails = 0 /\ Cardinality(made) <= 1
    \/ solo /\ fails = 0 /\ Cardinality(issued) <= 1

\* Four events of the support chat may be of any kind, a fifth is the
\* managers'; two stimuli of the assistant run every tool, three are small
\* talk and what may fail around it, or searches one after another.
SmallTalk ==
    /\ \A t \in Turns : turn[t].msg \in {"hello", "yes"} /\ turn[t].node = "none"
    /\ \A u \in Users : advised[u] = {}
Searching ==
    /\ \A t \in Turns : /\ turn[t].msg \in {"hello", "more"} /\ turn[t].pc # "filter"
                        /\ turn[t].node \in {"none", "book_search"}
    /\ \A u \in Users : /\ u \notin lossy /\ slack[u] = 0
                        /\ \A i \in 1..Len(told[u]) : ~told[u][i].asks
    /\ stuck = {}
Brief ==
    /\ events <= 4 \/ \A d \in Devices : dev[d].pc = "off"
    /\ \/ stimuli <= 2
       \/ (SmallTalk \/ Searching) /\ \A m \in Messages : ~answers[m].kept

Bounded == OneDisturbance /\ Brief
=============================================================================
