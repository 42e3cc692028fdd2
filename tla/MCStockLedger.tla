--------------------------- MODULE MCStockLedger ---------------------------
(* StockLedger for TLC: who may do what. *)
EXTENDS StockLedger, TLC

CONSTANTS a, b, s1, s2, d1, d2

MCItems == 1..2

\* One keeper looks after deliveries as well as the desk; the other has the desk.
KeeperAndDesk ==
  (a :> OpNames) @@ (b :> {"issue", "return", "adjust"})

\* Two keepers at the desk, one of whom can take a delivery in.
TwoDesks ==
  (a :> {"draft", "receive", "return"}) @@ (b :> {"issue", "return"})

\* Two keepers who take deliveries in.
TwoDeliveries == [p \in {a, b} |-> {"draft", "receive"}]
=============================================================================
