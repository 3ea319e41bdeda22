------------------------------ MODULE MCFakes ------------------------------
(* Every method of every fake, together with one other method of the fake. *)
EXTENDS Fakes, TLC

Companion(f, m) == IF Methods[f] = {m} THEN m
                   ELSE CHOOSE n \in Methods[f] : n # m

EachMethod == UNION {{[fake |-> f, methods |-> {m, Companion(f, m)}] :
                        m \in Methods[f]} : f \in DOMAIN Methods}
=============================================================================
