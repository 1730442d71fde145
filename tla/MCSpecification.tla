---------------------------- MODULE MCSpecification ----------------------------
(* Two use cases, two features and two items; the second of each may move.       *)
EXTENDS Specification

MCParentsOf == [f1 |-> {"u1"}, f2 |-> {"u1", "u2"}, b1 |-> {"f1"}, b2 |-> {"f1", "f2"}]
MCNeeds == [b1 |-> {}, b2 |-> {"b1"}]
====
