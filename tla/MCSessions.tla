------------------------------ MODULE MCSessions ------------------------------
(* Instances of Sessions for TLC. *)
EXTENDS Sessions

\* The account that somebody puts in the database by hand, and no other yet.
MCInit == /\ Init
          /\ \E u \in User, a \in Account :
                a.role = "admin" /\ account = [v \in User |-> IF v = u THEN a ELSE Unborn]

MCSpec == MCInit /\ [][Next]_vars /\ Fairness
==============================================================================
