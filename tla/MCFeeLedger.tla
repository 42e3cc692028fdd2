--------------------------- MODULE MCFeeLedger ---------------------------
(***************************************************************************)
(* Small instances of FeeLedger for TLC: two invoices, falling due in      *)
(* months 0 and 1, and the mixes of requests each run lets interleave.     *)
(***************************************************************************)
EXTENDS FeeLedger, TLC

CONSTANTS i1, i2, a, b, c

MCSubtotal == [i \in Invoices |-> IF i = i1 THEN 2 ELSE 1]
OweOne == [i \in Invoices |-> 1]
OweThree == [i \in Invoices |-> 3]
MCDueOn == [i \in Invoices |-> IF i = i1 THEN 0 ELSE 1]

\* Who may do what.
DeskOps == [p \in Procs |-> IF p = a THEN {"collect"} ELSE
                           IF p = b THEN {"collect", "fine"} ELSE {"fine"}]
OfficeOps == [p \in Procs |-> {"collect", "refund", "cancel", "fine"}]
RaceOps == [p \in Procs |-> IF p = a THEN {"collect"} ELSE {"collect", "refund"}]
OnlineOps == [p \in Procs |-> IF p = a THEN {"initiate", "callback", "reconcile"}
                                       ELSE {"sweep", "callback"}]
SweepOps == [p \in Procs |-> IF p = a THEN {"initiate"} ELSE {"sweep"}]
SerialOps == [p \in Procs |-> {"initiate", "callback", "reconcile", "sweep"}]
AnyPayment == Permutations(Payments)
=============================================================================
