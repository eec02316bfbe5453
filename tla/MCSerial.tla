------------------------------ MODULE MCSerial ------------------------------
(* Handlers one after another: sessions of the checkout, or handlers of a   *)
(* user's recommendation profile.  The two share no state: a behaviour is   *)
(* one of them, chosen at the start; the other rests.                       *)
EXTENDS OrdersLedger, TLC

CONSTANTS Events, Views, Consumers, Workers, Readers, MaxRuns, Prompt,
          MaxFailures, MaxOutages, MaxLapses, o1, b2

VARIABLES topic,
          msg, rows, tasks, dedup, version, pending, buildLock, profile, vector, point,
          handler, at, got, old, start, seenEnd, run, overtaken, spoiled,
          killed, failures, outages, lapses

\* All events are about one book.
OneBook == [e \in Events |-> b2]

\* The profile; none of its processes is killed.
Reco == INSTANCE RecoProfile WITH
            BookOf <- OneBook, MaxCrashes <- 0,
            lock <- buildLock, pc <- handler, crashes <- killed

recoVars == <<msg, rows, tasks, dedup, version, pending, buildLock, profile, vector, point,
              handler, at, got, old, start, seenEnd, run, overtaken, spoiled,
              killed, failures, outages, lapses>>
serialVars == <<topic, vars, recoVars>>

SerialInit == topic \in {"orders", "profile"} /\ Init /\ Reco!Init

SerialNext ==
    /\ \/ topic = "orders" /\ Next /\ UNCHANGED recoVars
       \/ topic = "profile" /\ Reco!Next /\ UNCHANGED vars
    /\ UNCHANGED topic

\* The ledger needs no fairness.
SerialSpec == SerialInit /\ [][SerialNext]_serialVars /\ (topic = "profile" => Reco!Fairness)

\* Events: every one that is saved reaches the user's vector.
SavedIsReflected == Reco!SavedIsReflected

-----------------------------------------------------------------------------
\* Three requests of one buyer: o1 wants every book, the others only b2.
UserOfAll == [o \in Orders |-> CHOOSE u \in Users : TRUE]
Overlapping == [o \in Orders |-> [b \in Books |-> IF o = o1 \/ b = b2 THEN 1 ELSE 0]]
StockTwo == [b \in Books |-> 2]
CartOnlyB2 == [u \in Users |-> [b \in Books |-> IF b = b2 THEN 1 ELSE 0]]
=============================================================================
