--------------------------- MODULE InvoiceAccount ---------------------------
(***************************************************************************)
(* What the fee module promises about a set of invoices, without rows,     *)
(* transactions or requests: money is put on invoices all at once, never   *)
(* beyond what they ask for and never on a cancelled one; it is given back *)
(* out of what is there; an invoice is cancelled for good and only while   *)
(* it holds nothing; fines are added to live invoices only.                *)
(***************************************************************************)
EXTENDS Integers

CONSTANT Invoices

VARIABLES
  owed,    \* what each invoice asks for
  paid,    \* what was paid on it, net of refunds
  closed   \* the cancelled invoices

vars == <<owed, paid, closed>>

Init ==
  /\ owed \in [Invoices -> Nat]
  /\ paid = [i \in Invoices |-> 0]
  /\ closed = {}

\* One sum handed over, spread over the open invoices.
Pay ==
  /\ paid' \in [Invoices -> Nat]
  /\ \A i \in Invoices :
       \/ paid'[i] = paid[i]
       \/ i \notin closed /\ paid'[i] \in paid[i]..owed[i]
  /\ UNCHANGED <<owed, closed>>

GiveBack(i) ==
  /\ paid[i] > 0
  /\ \E left \in 0..(paid[i] - 1) : paid' = [paid EXCEPT ![i] = left]
  /\ UNCHANGED <<owed, closed>>

Close(i) ==
  /\ paid[i] = 0
  /\ closed' = closed \cup {i}
  /\ UNCHANGED <<owed, paid>>

Charge(i) ==
  /\ i \notin closed
  /\ paid[i] < owed[i]
  /\ owed'[i] > owed[i]
  /\ owed' = [owed EXCEPT ![i] = owed'[i]]
  /\ UNCHANGED <<paid, closed>>

Next == Pay \/ \E i \in Invoices : GiveBack(i) \/ Close(i) \/ Charge(i)

Spec == Init /\ [][Next]_vars
=============================================================================
