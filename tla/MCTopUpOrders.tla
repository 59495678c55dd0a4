---------------------------- MODULE MCTopUpOrders ----------------------------
(* Three handlers of one process and one order of any provider.            *)
EXTENDS TopUpOrders

\* All handlers run in one process.
OneNode == [h \in Handlers |-> "n1"]
=============================================================================
