----------------------------- MODULE MCMetrics -----------------------------
(* Two containers, a pod of somebody else, and summaries of up to two pods. *)
EXTENDS Metrics

Stat(name, age, app, value, rx, tx) ==
  [name |-> name, age |-> age, app |-> app, cpu |-> value, memory |-> value,
   disk |-> value, rx |-> rx, tx |-> tx]

\* Whole, without values, without half of the network's, without an app
\* container, and started in the future.
Stats == UNION {{Stat(n, 3, TRUE, 2, 1, 1), Stat(n, 0, TRUE, Nil, Nil, Nil),
                 Stat(n, 7, TRUE, 0, 1, Nil), Stat(n, 3, FALSE, 2, 1, 1),
                 Stat(n, 0 - 2, TRUE, 2, Nil, 1)} : n \in Handles \cup {"other"}}

Sizes == [h \in Handles |-> IF h = "h1" THEN 0 ELSE 5]
Shares == [h \in Handles |-> IF h = "h1" THEN 1 ELSE 2]
=============================================================================
