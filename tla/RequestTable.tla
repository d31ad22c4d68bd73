---------------------------- MODULE RequestTable ----------------------------
(***************************************************************************)
(* What a table of requests that wait for answers promises, whoever uses   *)
(* it and however its numbers are given out: a request is decided once,    *)
(* answered or failed; a message answers at most one request, the one that *)
(* holds its number; and a request that is cut off because another takes   *)
(* its number, or frees it, fails instead of waiting for nothing.          *)
(***************************************************************************)
CONSTANTS Requests,  \* each asked once
          Numbers,   \* that requests go by
          Nobody     \* no request

VARIABLES
    outcome,  \* "new", "open", "answered" or "failed", for each request
    holder    \* the request that holds each number, or Nobody

tableVars == <<outcome, holder>>

TableInit ==
    /\ outcome = [r \in Requests |-> "new"]
    /\ holder = [n \in Numbers |-> Nobody]

\* What becomes of the request that held n when it loses it.
Cut(n, r) == IF r = holder[n] /\ outcome[r] = "open" THEN "failed" ELSE outcome[r]

\* r takes a number; it may be known at once that it could not be sent.
Open(r) ==
    /\ outcome[r] = "new" /\ outcome'[r] \in {"open", "failed"}
    /\ \E n \in Numbers :
        /\ holder' = [holder EXCEPT ![n] = r]
        /\ \A q \in Requests \ {r} : outcome'[q] = Cut(n, q)

Expire(r) ==
    /\ outcome[r] = "open" /\ outcome'[r] = "failed"
    /\ \A q \in Requests \ {r} : outcome'[q] = outcome[q]
    /\ UNCHANGED holder

Release(n) ==
    /\ holder[n] # Nobody /\ holder'[n] = Nobody
    /\ holder' = [holder EXCEPT ![n] = Nobody]

Free(n) ==
    /\ Release(n)
    /\ \A q \in Requests : outcome'[q] = Cut(n, q)

Answer(n) ==
    /\ Release(n)
    /\ outcome[holder[n]] = "open" /\ outcome'[holder[n]] = "answered"
    /\ \A q \in Requests \ {holder[n]} : outcome'[q] = outcome[q]

TableNext ==
    \/ \E r \in Requests : Open(r) \/ Expire(r)
    \/ \E n \in Numbers : Free(n) \/ Answer(n)

TableSpec == TableInit /\ [][TableNext]_tableVars

\* Every request that is open holds a number, under which its answer finds it.
OpenIsHeld == \A r \in Requests : outcome[r] = "open" => \E n \in Numbers : holder[n] = r
=============================================================================
