--------------------------- MODULE SerialService ---------------------------
(***************************************************************************)
(* What the request handler promises the coroutines that use one endpoint: *)
(* their requests are served one at a time, in the order in which they     *)
(* were made.                                                              *)
(***************************************************************************)
EXTENDS Naturals, Sequences

VARIABLES
    line,     \* the requests made and not finished, numbered in order
    serving,  \* whether the first of them is being served
    made      \* requests made so far

Init == line = <<>> /\ serving = FALSE /\ made = 0

\* A request joins the line; served at once if the endpoint is free.
Make ==
    /\ made' = made + 1
    /\ line' = Append(line, made + 1)
    /\ serving' \in {serving, TRUE}

Serve ==
    /\ line # <<>>
    /\ ~serving
    /\ serving' = TRUE
    /\ UNCHANGED <<line, made>>

\* The request being served is answered or given up.
Finish ==
    /\ serving
    /\ line' = Tail(line)
    /\ serving' = FALSE
    /\ UNCHANGED made

\* Serving fails; the request keeps its place.
Interrupt ==
    /\ serving
    /\ serving' = FALSE
    /\ UNCHANGED <<line, made>>

Next == Make \/ Serve \/ Finish \/ Interrupt

Spec == Init /\ [][Next]_<<line, serving, made>>
=============================================================================
