------------------------- MODULE MCInformerFactory -------------------------
(* A small instance of InformerFactory.                                    *)
EXTENDS InformerFactory

CONSTANTS all, demo, c1, c2, s1, s2

(* Every caller has a context of its own.                                  *)
OwnChannel == [c \in Callers |-> IF c = c1 THEN s1 ELSE s2]

(* A period configured twice, another type left to the default, and a      *)
(* namespace.                                                              *)
SomeOptions == <<[set |-> "customResync", type |-> "Task", to |-> 10],
                 [set |-> "namespace", to |-> demo],
                 [set |-> "customResync", type |-> "Task", to |-> 60]>>
=============================================================================
