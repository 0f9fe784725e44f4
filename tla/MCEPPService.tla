---------------------------- MODULE MCEPPService ---------------------------
(* Clients for model checking EPPService: two clients of every two kinds,  *)
(* in one of the two orders, as they dial in any order.                    *)
EXTENDS EPPService

CONSTANTS c1, c2

TwoClients == {c1, c2}

A(kind, action, joined) == [kind |-> kind, action |-> action, joined |-> joined]
Kinds == <<A("epp", "check", FALSE), A("epp", "login", TRUE),
           A("refused", "hello", FALSE), A("refuses", "hello", FALSE),
           A("misconfigured", "hello", FALSE), A("silent", "hello", FALSE)>>
Pairs == {[c \in TwoClients |-> IF c = c1 THEN Kinds[p[1]] ELSE Kinds[p[2]]] :
            p \in {q \in (1..6) \X (1..6) : q[1] <= q[2]} \ {<<1, 1>>, <<2, 2>>}}
=============================================================================
