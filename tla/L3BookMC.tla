------------------------------ MODULE L3BookMC ------------------------------
(* L3Book on small instances: orders are interchangeable references.  The  *)
(* feed may send anything, or executes only at the head of a queue.        *)
EXTENDS L3Book

VARIABLE feed

MCInit == Init /\ feed \in {"anything", "priority"}
MCNext ==
  \/ feed = "anything" /\ Next /\ UNCHANGED feed
  \/ feed = "priority" /\ PriorityNext /\ UNCHANGED feed
MCSpec == MCInit /\ [][MCNext]_<<vars, feed>>

(* On a feed that keeps price-time priority, the O(1) shares_ahead is what *)
(* a walk of the FIFO would count.                                         *)
AheadIsExactInPriority == feed = "priority" => AheadIsExact

(* On such a feed every step of the book is a step of a price-time queue   *)
(* (ImplementsPriceTimeQueue, for the behaviors of that feed).             *)
IsPriceTimeQueue ==
  /\ feed = "priority" => Venue!Init
  /\ [][feed = "priority" => Venue!Step]_vars
=============================================================================
