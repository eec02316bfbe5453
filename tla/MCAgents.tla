------------------------------ MODULE MCAgents ------------------------------
(* One user of the assistant who asks one question after another.          *)
EXTENDS Agents, TLC

MCWorkOf == [b \in Books |-> IF b = "b3" THEN "w2" ELSE "w1"]
MCWindows == <<9>>
=============================================================================
