------------------------- MODULE MCBrokerExecution -------------------------
(* Instances of BrokerExecution: two executors and one packet, whose token   *)
(* limit lets three of its four reservations through.  One executor has the  *)
(* first batch, the other the same batch again, a retry, or one session; the *)
(* batch in the wrong order is refused.                                      *)
EXTENDS BrokerExecution

CONSTANTS x1, x2, p1

MCTokens == [r \in Roles |-> IF r = "reviewer" THEN 1 ELSE 2]
MCCost == [r \in Roles |-> IF r = "reviewer" THEN 2 ELSE 1]

First == <<<<p1, "reviewer", 1>>, <<p1, "adversary", 1>>>>
Retry == <<<<p1, "reviewer", 2>>, <<p1, "adversary", 2>>>>
Swapped == <<<<p1, "adversary", 1>>, <<p1, "reviewer", 1>>>>

MCOffered ==
    [e \in {x1, x2} |->
       IF e = x1 THEN {<<"outer", First>>, <<"outer", Swapped>>}
       ELSE {<<"outer", First>>, <<"outer", Retry>>,
             <<"session", <<<<p1, "reviewer", 1>>>>>>}]
==============================================================================
