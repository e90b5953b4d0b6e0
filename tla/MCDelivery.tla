------------------------------ MODULE MCDelivery ------------------------------
(* Two transactions, each delivered twice: the second first as a standard          *)
(* transaction, the first again after the cache may have rotated it out.  An       *)
(* undecodable object ends the feed.                                               *)
EXTENDS Delivery

CONSTANTS t1, t2, c1

MCFeed == [c \in Conn |->
  <<<<t1, "ef">>, <<t2, "std">>, <<t2, "ef">>, <<t1, "ef">>, Garbage>>]
MCTxBytes == [t \in Tx |-> IF t = t1 THEN 1 ELSE 2]
================================================================================
