------------------------------ MODULE MCProgram ------------------------------
(* With a channel of one place a full one is an ordinary case, and two threads *)
(* can wait for a place at the same time.                                      *)
EXTENDS Program

Nothing == [t \in Threads |-> {}]

\* The manager's save, whose reload stops and starts every worker, a thread nobody
\* waits for, and every way for a sender to be stopped
AllSend ==
    [Nothing EXCEPT !["ui"] = {"save"}, !["monitor"] = {"plain"},
                    !["runner"] = {"reconcile"}, !["battery"] = {"reconcile"},
                    !["other"] = {"plain"}]
=============================================================================
