---- MODULE MCCirculation ----
(* Model values and the desks of the runs. *)
EXTENDS Circulation, TLC

CONSTANTS c1, c2, m1, m2, m3, t1, front, back

OneTitle == [c \in Copies |-> t1]

\* One counter takes books in and keeps the stock, the other, with the portal
\* and the morning's sweep, gives them out and keeps the queue.
TwoCounters == [d \in Desks |->
  IF d = back THEN {"return", "mark", "generate", "remove"}
              ELSE {"issue", "reserve", "cancel", "sweep"}]

BothTakeIn == [d \in Desks |-> {"return", "issue", "generate"}]

OneAtATime == [d \in Desks |-> OpNames]

Alike == Permutations(Members) \cup Permutations(Copies)
====
