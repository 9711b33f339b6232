------------------------------ MODULE MCXendit ------------------------------
EXTENDS XenditProperties, TLC
CONSTANTS k1, i1, i2, w1, w2, q1, q2, c1, c2, c3, job0
Symm == Permutations(Webhooks) \cup Permutations(Requests) \cup Permutations(Invoices) \cup Permutations(Conns)

\* All deliveries and requests without a restart; with one, all deliveries and one
\* request or the other way round.
MCDeliveries ==
    {[hooks |-> Webhooks, reqs |-> Requests, job |-> FALSE, crashes |-> 0]} \cup
    {[hooks |-> Webhooks, reqs |-> {q}, job |-> FALSE, crashes |-> 1] : q \in Requests} \cup
    {[hooks |-> {w}, reqs |-> Requests, job |-> FALSE, crashes |-> 1] : w \in Webhooks}

\* Both deliveries, or one beside the job and a restart.
MCWaits ==
    {[hooks |-> Webhooks, reqs |-> Requests, job |-> FALSE, crashes |-> 0],
     [hooks |-> {w1}, reqs |-> Requests, job |-> TRUE, crashes |-> 1]}
=============================================================================
