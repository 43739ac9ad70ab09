----------------------------- MODULE MCOrderQueue -----------------------------
(***************************************************************************)
(* OrderQueue for TLC: an order, two workers, a master and a replica.    *)
(***************************************************************************)
EXTENDS OrderQueue

CONSTANTS o1, w1, w2, nA, nB

Orders  == {o1}
Workers == {w1, w2}
Nodes   == {nA, nB}
===============================================================================
