---- MODULE MCEnrollment ----
(* Model values, the sections and the desks of the runs. *)
EXTENDS Enrollment, TLC

CONSTANTS s1, s2, b1, b2, office, head, x1, x2, x3, y1, y2

\* Two sections in the old session, one in the new.
Years == [x \in Sections |-> IF x = x3 THEN y2 ELSE y1]
OneClass == [x \in Sections |-> 6]
TwoSeats == [x \in Sections |-> 2]
OneSeat == [x \in Sections |-> 1]
UpOnly == {<<y1, y2>>}

\* The office serves pupils, the head works on the batches.
Office == {"enroll", "bulk", "cancel", "transfer", "attend"}
Head == {"create", "edit", "execute", "rollback", "remove"}
OfficeAndHead == [p \in Procs |-> IF p = head THEN Head ELSE Office]
OneAtATime == [p \in Procs |-> Office \cup Head \cup {"bill"}]
OnlyEnroll == [p \in Procs |-> {"enroll", "bulk", "cancel", "transfer"}]
TwoHeads == [p \in Procs |-> {"create", "execute", "enroll", "cancel"}]

\* Pupils, and the two old sections, are interchangeable.
Alike == Permutations(Students) \cup Permutations({x1, x2})
====
