---------------------------- MODULE MCKeyedStream ----------------------------
(* Small instances of KeyedStream for TLC. *)
EXTENDS KeyedStream

CONSTANTS c1, c2, t1, t2, a, b

MCWants == [c \in Clients |-> IF c = c1 THEN Topics ELSE {t1}]
MCBefore == [t \in Topics |-> [x \in Items |-> IF t = t1 THEN Gone ELSE a]]
=============================================================================
