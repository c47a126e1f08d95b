--------------------------- MODULE MCNotifications ---------------------------
(***************************************************************************)
(* Deliveries of one seat, whose mailbox holds one announcement.           *)
(***************************************************************************)
EXTENDS Notifications, TLC

Symmetry == Permutations(Processes)

MCSeat == [d \in DeliveryIds |-> "seat"]
=============================================================================
