---------------------------- MODULE MCCorpusStore ----------------------------
(* A small instance of CorpusStore: two files that are submitted under one    *)
(* name, of two chunks and of one, and one clerk.                             *)
EXTENDS CorpusStore, TLC

CONSTANTS f1, f2, essay, c1

OneName == [f \in Files |-> essay]
Sizes   == [f \in Files |-> IF f = f1 THEN 2 ELSE 1]
=============================================================================
