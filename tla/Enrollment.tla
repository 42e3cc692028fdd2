----------------------------- MODULE Enrollment -----------------------------
(***************************************************************************)
(* Enrollments of pupils in the sections of a session, and the promotion   *)
(* batches that carry them into the next one and may be rolled back.       *)
(*                                                                         *)
(* A request reads and decides in its first step and writes, by id, in its *)
(* second; what it decided on may have changed in between.  The writes of  *)
(* a transaction show at its commit and are taken as one step: nothing is  *)
(* read between them but rows whose change would make one of them fail.    *)
(* Any request may end in between without effect (Abandon): refused for a  *)
(* reason not modelled, dead, or the victim of a deadlock.                 *)
(*                                                                         *)
(* Roll numbers are left out: a roll in use makes a write fail, which      *)
(* Abandon covers, and renumbering changes nothing else.                   *)
(*                                                                         *)
(* A definition just above the one it varies (KeepGraduates above          *)
(* RevertGraduates) is a plausible mistake; no action uses it.             *)
(***************************************************************************)
EXTENDS Integers, FiniteSets, Functions

CONSTANTS
  Students,
  Sections,
  SessionOf,   \* SessionOf[x]: the session section x belongs to
  ClassOf,     \* ClassOf[x]: its class
  Capacity,    \* Capacity[x]: its seats
  Promotions,  \* the pairs of sessions batches are built for
  Decisions,   \* the decisions taken in the run
  Targets,     \* the sections, or None, they are taken for
  Batches,     \* batches that can ever exist (bounds the run)
  Procs,       \* requests in flight at once
  Ops,         \* Ops[p]: what may be asked at p
  Overrides,   \* whether a clerk may exceed a capacity
  MaxRows,     \* bound: enrollments ever made
  MaxDepends,  \* bound: enrollments that something hangs on
  None

Sessions == {SessionOf[x] : x \in Sections}
Moving == {"PROMOTE", "RETAIN"}
OpNames == {"enroll", "bulk", "cancel", "transfer",
            "create", "edit", "execute", "rollback", "remove", "attend", "bill"}

ASSUME EnrollmentAssumption ==
  /\ SessionOf \in [Sections -> Sessions]
  /\ Promotions \subseteq {y \in Sessions \X Sessions : y[1] # y[2]}
  /\ Decisions \subseteq Moving \cup {"GRADUATE", "EXCLUDE"}
  /\ Targets \subseteq Sections \cup {None}
  /\ Capacity \in [Sections -> Nat]
  /\ Ops \in [Procs -> SUBSET OpNames]
  /\ Overrides \in BOOLEAN
  /\ MaxRows \in Nat /\ MaxDepends \in Nat
  /\ None \notin Students \cup Sections \cup Sessions \cup Batches

VARIABLES
  row,      \* enrollments, by id
  student,  \* students.status
  batch,    \* promotion_batches
  item,     \* promotion_items: item[b][s]
  depends,  \* what hangs on an enrollment: school records, fee invoices
  req       \* the request in flight at each process

vars == <<row, student, batch, item, depends, req>>

Rows == 1..MaxRows

ClosedAs == [PROMOTE |-> "PROMOTED", RETAIN |-> "RETAINED", GRADUATE |-> "COMPLETED"]
Closed == Range(ClosedAs)
LiveStatus == {"ACTIVE"} \cup Closed

\* `by` is the batch that made the row, which nothing reads.
Row == [status : {"absent", "deleted", "CANCELLED"} \cup LiveStatus,
        student : Students \cup {None}, section : Sections \cup {None},
        by : Batches \cup {None}]
NoRow == [status |-> "absent", student |-> None, section |-> None, by |-> None]
DeletedRow == [NoRow EXCEPT !.status = "deleted"]

Batch == [status : {"absent", "DRAFT", "EXECUTED", "ROLLED_BACK", "removed"},
          from : Sessions \cup {None}, to : Sessions \cup {None}]
NoBatch == [status |-> "absent", from |-> None, to |-> None]

Item == [decision : {"none", "PROMOTE", "RETAIN", "GRADUATE", "EXCLUDE"},
         target : Sections \cup {None}, from : {0} \cup Rows, to : {0} \cup Rows]
NoItem == [decision |-> "none", target |-> None, from |-> 0, to |-> 0]
Items == [Students -> Item]
NoItems == [s \in Students |-> NoItem]

Request == [op : OpNames \cup {"none"}, pupils : SUBSET Students,
            section : Sections \cup {None}, row : {0} \cup Rows,
            batch : Batches \cup {None}, items : Items]
Idle == [op |-> "none", pupils |-> {}, section |-> None, row |-> 0,
         batch |-> None, items |-> NoItems]

-----------------------------------------------------------------------------
(* What is read. *)

Exists(r) == row[r].status \notin {"absent", "deleted"}
Active(r) == row[r].status = "ACTIVE"
ActiveIn(x) == {r \in Rows : Active(r) /\ row[r].section = x}

\* findLiveByStudentSession
Enrolled(s, y) == \E r \in Rows :
  row[r].status \in LiveStatus /\ row[r].student = s /\ SessionOf[row[r].section] = y

\* assertCapacity
Room(x, adding) == Cardinality(ActiveIn(x)) + adding <= Capacity[x] \/ Overrides

\* bulkEnroll: a pupil who would exceed the capacity is checked with nothing added.
BulkFits(x, n) ==
  LET before == Cardinality(ActiveIn(x))
  IN  \A k \in 1..n : before + k > Capacity[x] => before + (k - 1) <= Capacity[x] \/ Overrides

\* No pupil has two live rows of a session in the table T.
OnePlaceEach(T) == \A q, r \in Rows :
  /\ T[q].status \in LiveStatus /\ T[r].status \in LiveStatus
  /\ T[q].student = T[r].student
  /\ SessionOf[T[q].section] = SessionOf[T[r].section]
  => q = r

\* uq_enrollments_student_session, for a table about to be written.
IndexedIfActive(T) == \A q, r \in Rows :
  /\ T[q].status = "ACTIVE" /\ T[r].status = "ACTIVE"
  /\ T[q].student = T[r].student
  /\ SessionOf[T[q].section] = SessionOf[T[r].section]
  => q = r
Indexed(T) == OnePlaceEach(T)

Moves(i) == i.decision \in Moving
Closes(i) == i.decision \in DOMAIN ClosedAs
In(items) == {s \in Students : items[s].decision # "none"}

\* validateTarget
TargetOK(i, b) == i.target # None /\ SessionOf[i.target] = batch[b].to

Begins(p, op, request) ==
  /\ req[p] = Idle /\ op \in Ops[p]
  /\ req' = [req EXCEPT ![p] = [request EXCEPT !.op = op]]
Ends(p) == req' = [req EXCEPT ![p] = Idle]
Reads == UNCHANGED <<row, student, batch, item, depends>>

\* Ids for the new rows of pupils S, in the order rows are made.
NewRows(S) ==
  LET free == {r \in Rows : row[r].status = "absent"}
      next == {r \in free : Cardinality({q \in free : q < r}) < Cardinality(S)}
  IN  {f \in [S -> next] : \A s, t \in S : s # t => f[s] # f[t]}

\* The table once S have rows, in sections, by b.
With(T, made, section, b) ==
  [r \in Rows |-> IF r \notin Range(made) THEN T[r]
                  ELSE LET s == CHOOSE s \in DOMAIN made : made[s] = r
                       IN  [status |-> "ACTIVE", student |-> s,
                            section |-> section[s], by |-> b]]

Init ==
  /\ row = [r \in Rows |-> NoRow]
  /\ student = [s \in Students |-> "ACTIVE"]
  /\ batch = [b \in Batches |-> NoBatch]
  /\ item = [b \in Batches |-> NoItems]
  /\ depends = [r \in Rows |-> {}]
  /\ req = [p \in Procs |-> Idle]

-----------------------------------------------------------------------------
(* The office. *)

Enrollable(s, x) == student[s] = "ACTIVE" /\ ~Enrolled(s, SessionOf[x])

EnrollReads(p) ==
  /\ \E s \in Students, x \in Sections :
       /\ Enrollable(s, x)
       /\ Room(x, 1)
       /\ Begins(p, "enroll", [Idle EXCEPT !.pupils = {s}, !.section = x])
  /\ Reads

\* Those of the list who cannot be enrolled are skipped.
BulkReads(p) ==
  /\ \E x \in Sections : \E S \in (SUBSET {s \in Students : Enrollable(s, x)}) \ {{}} :
       /\ BulkFits(x, Cardinality(S))
       /\ Begins(p, "bulk", [Idle EXCEPT !.pupils = S, !.section = x])
  /\ Reads

EnrollInserts(p) ==
  LET S == req[p].pupils IN
  /\ req[p].op \in {"enroll", "bulk"}
  /\ \E made \in NewRows(S) : row' = With(row, made, [s \in S |-> req[p].section], None)
  /\ Indexed(row')
  /\ Ends(p)
  /\ UNCHANGED <<student, batch, item, depends>>

CancelReads(p) ==
  /\ \E r \in Rows :
       /\ Exists(r) /\ row[r].status # "CANCELLED"
       /\ Begins(p, "cancel", [Idle EXCEPT !.row = r])
  /\ Reads

CancelWrites(p) ==
  /\ req[p].op = "cancel"
  /\ Exists(req[p].row)
  /\ row' = [row EXCEPT ![req[p].row].status = "CANCELLED"]
  /\ Ends(p)
  /\ UNCHANGED <<student, batch, item, depends>>

TransferReads(p) ==
  /\ \E r \in Rows, x \in Sections :
       /\ Active(r)
       /\ x # row[r].section
       /\ SessionOf[x] = SessionOf[row[r].section] /\ ClassOf[x] = ClassOf[row[r].section]
       /\ Room(x, 1)
       /\ Begins(p, "transfer", [Idle EXCEPT !.row = r, !.section = x])
  /\ Reads

TransferWrites(p) ==
  /\ req[p].op = "transfer"
  /\ Exists(req[p].row)
  /\ row' = [row EXCEPT ![req[p].row].section = req[p].section]
  /\ Ends(p)
  /\ UNCHANGED <<student, batch, item, depends>>

-----------------------------------------------------------------------------
(* What other modules hang on an enrollment: attendance and marks of an     *)
(* active pupil, fee invoices.                                              *)

DependentReads(p) ==
  /\ Cardinality({r \in Rows : depends[r] # {}}) < MaxDepends
  /\ \E r \in Rows, op \in {"attend", "bill"} :
       Active(r) /\ Begins(p, op, [Idle EXCEPT !.row = r])
  /\ Reads

DependentInserts(p) ==
  /\ req[p].op \in {"attend", "bill"}
  /\ Exists(req[p].row)
  /\ depends' = [depends EXCEPT ![req[p].row] = @ \cup {req[p].op}]
  /\ Ends(p)
  /\ UNCHANGED <<row, student, batch, item>>

-----------------------------------------------------------------------------
(* The batch. *)

\* The active enrollments of session y, and the items a draft has for them.
Candidates(y) == {r \in Rows : Active(r) /\ SessionOf[row[r].section] = y}
DraftItems(rows, d, x) ==
  [s \in Students |->
     IF \E r \in rows : row[r].student = s
     THEN [decision |-> d, target |-> x, to |-> 0,
           from |-> CHOOSE r \in rows : row[r].student = s]
     ELSE NoItem]

\* create: the candidates are read, the batch is inserted,
CreateBatch(p) ==
  /\ \E b \in Batches, y \in Promotions, d \in Decisions, x \in Targets \cup {None} :
       /\ batch[b].status = "absent"
       /\ Candidates(y[1]) # {}
       /\ d # "RETAIN"
       /\ IF d = "PROMOTE" THEN x \in Targets ELSE x = None
       /\ batch' = [batch EXCEPT ![b] = [status |-> "DRAFT", from |-> y[1], to |-> y[2]]]
       /\ Begins(p, "create", [Idle EXCEPT !.batch = b, !.items = DraftItems(Candidates(y[1]), d, x)])
  /\ UNCHANGED <<row, student, item, depends>>

\* and the items follow in a statement of their own.
CreateItems(p) ==
  LET b == req[p].batch  new == req[p].items IN
  /\ req[p].op = "create"
  /\ batch[b].status # "removed"
  /\ \A s \in In(new) : Exists(new[s].from)
  /\ item' = [item EXCEPT ![b] = new]
  /\ Ends(p)
  /\ UNCHANGED <<row, student, batch, depends>>

\* updateItems, of one item: a promotion needs a target in the new session.
EditReads(p) ==
  /\ \E b \in Batches : \E s \in In(item[b]), d \in Decisions, x \in Targets \cup {None} :
       LET new == [item[b][s] EXCEPT !.decision = d, !.target = x]
       IN  /\ batch[b].status = "DRAFT"
           /\ IF d \in Moving THEN x \in Targets ELSE x = None
           /\ d = "PROMOTE" => TargetOK(new, b)
           /\ Begins(p, "edit", [Idle EXCEPT !.batch = b, !.items = [NoItems EXCEPT ![s] = new]])
  /\ Reads

EditWrites(p) ==
  LET b == req[p].batch  new == req[p].items IN
  /\ req[p].op = "edit"
  /\ batch[b].status # "removed"
  /\ item' = [item EXCEPT ![b] = [s \in Students |->
                IF s \notin In(new) THEN @[s]
                ELSE [@[s] EXCEPT !.decision = new[s].decision, !.target = new[s].target]]]
  /\ Ends(p)
  /\ UNCHANGED <<row, student, batch, depends>>

\* execute: a draft whose targets are all valid.
ExecuteReads(p) ==
  /\ \E b \in Batches :
       /\ batch[b].status = "DRAFT"
       /\ \A s \in Students : Moves(item[b][s]) => TargetOK(item[b][s], b)
       /\ Begins(p, "execute", [Idle EXCEPT !.batch = b, !.items = item[b]])
  /\ Reads

\* Of a table T, with the rows the items close.
WithClosed(T, items) ==
  [r \in Rows |-> LET s == T[r].student IN
     IF s \in Students /\ Closes(items[s]) /\ items[s].from = r
     THEN [T[r] EXCEPT !.status = ClosedAs[items[s].decision]] ELSE T[r]]

ExecuteWrites(p) ==
  LET b == req[p].batch  items == req[p].items
      movers == {s \in Students : Moves(items[s])} IN
  /\ req[p].op = "execute"
  /\ batch[b].status # "removed"
  /\ \A s \in Students : Closes(items[s]) /\ items[s].from # 0 => Exists(items[s].from)
  /\ \E made \in NewRows(movers) :
       /\ row' = With(WithClosed(row, items), made, [s \in movers |-> items[s].target], b)
       /\ item' = [item EXCEPT ![b] = [s \in Students |->
                     IF s \in movers THEN [@[s] EXCEPT !.to = made[s]] ELSE @[s]]]
  /\ Indexed(row')
  /\ student' = [s \in Students |->
                   IF items[s].decision = "GRADUATE" THEN "GRADUATED" ELSE student[s]]
  /\ batch' = [batch EXCEPT ![b].status = "EXECUTED"]
  /\ Ends(p)
  /\ UNCHANGED depends

\* rollback: an executed batch whose new enrollments have no attendance or marks.
RollbackReads(p) ==
  /\ \E b \in Batches :
       /\ batch[b].status = "EXECUTED"
       /\ \A s \in Students : item[b][s].to # 0 => "attend" \notin depends[item[b][s].to]
       /\ Begins(p, "rollback", [Idle EXCEPT !.batch = b, !.items = item[b]])
  /\ Reads

\* revertGraduation
KeepGraduates(items) == student
RevertGraduates(items) ==
  [s \in Students |-> IF items[s].decision = "GRADUATE" /\ student[s] = "GRADUATED"
                      THEN "ACTIVE" ELSE student[s]]

\* The new rows are deleted with what hangs on them, every old one made ACTIVE.
RollbackWrites(p) ==
  LET b == req[p].batch  items == req[p].items
      made == {items[s].to : s \in Students} \ {0}
      old == {items[s].from : s \in Students} \ {0} IN
  /\ req[p].op = "rollback"
  /\ \A r \in made \cup old : Exists(r)
  /\ row' = [r \in Rows |-> IF r \in made THEN DeletedRow
                            ELSE IF r \in old THEN [row[r] EXCEPT !.status = "ACTIVE"]
                            ELSE row[r]]
  /\ Indexed(row')
  /\ item' = [c \in Batches |-> [s \in Students |->
                [item[c][s] EXCEPT !.from = IF @ \in made THEN 0 ELSE @,
                                   !.to = IF c = b THEN 0 ELSE @]]]
  /\ depends' = [r \in Rows |-> IF r \in made THEN {} ELSE depends[r]]
  /\ student' = RevertGraduates(items)
  /\ batch' = [batch EXCEPT ![b].status = "ROLLED_BACK"]
  /\ Ends(p)

\* remove: a draft, with its items.
RemovableUnlessRolledBack == {b \in Batches : batch[b].status \in {"DRAFT", "EXECUTED"}}
Removable == {b \in Batches : batch[b].status = "DRAFT"}

RemoveReads(p) ==
  /\ \E b \in Removable : Begins(p, "remove", [Idle EXCEPT !.batch = b])
  /\ Reads

RemoveDeletes(p) ==
  LET b == req[p].batch IN
  /\ req[p].op = "remove"
  /\ batch[b].status # "removed"
  /\ batch' = [batch EXCEPT ![b].status = "removed"]
  /\ item' = [item EXCEPT ![b] = NoItems]
  /\ Ends(p)
  /\ UNCHANGED <<row, student, depends>>

-----------------------------------------------------------------------------
Abandon(p) ==
  /\ req[p] # Idle
  /\ Ends(p)
  /\ Reads

Next == \E p \in Procs :
  \/ EnrollReads(p) \/ BulkReads(p) \/ EnrollInserts(p)
  \/ CancelReads(p) \/ CancelWrites(p)
  \/ TransferReads(p) \/ TransferWrites(p)
  \/ DependentReads(p) \/ DependentInserts(p)
  \/ CreateBatch(p) \/ CreateItems(p) \/ EditReads(p) \/ EditWrites(p)
  \/ ExecuteReads(p) \/ ExecuteWrites(p) \/ RollbackReads(p) \/ RollbackWrites(p)
  \/ RemoveReads(p) \/ RemoveDeletes(p)
  \/ Abandon(p)

Spec == Init /\ [][Next]_vars

-----------------------------------------------------------------------------
(* Properties. *)

Typed ==
  /\ row \in [Rows -> Row]
  /\ student \in [Students -> {"ACTIVE", "GRADUATED"}]
  /\ batch \in [Batches -> Batch]
  /\ item \in [Batches -> Items]
  /\ depends \in [Rows -> SUBSET {"attend", "bill"}]
  /\ req \in [Procs -> Request]

\* Rows of their types, and one live enrollment of a pupil per session, whatever
\* closes, reopens or moves them (uq_enrollments_student_session).
TypeOK == Typed /\ OnePlaceEach(row)

\* A batch is carried out as a whole or not at all: while it is EXECUTED each of
\* its pupils who moves has the place it made, of that pupil and in the new
\* session, and no place made by a batch is left that is not EXECUTED any more.
BatchIsWhole ==
  /\ \A b \in Batches, s \in Students :
       LET i == item[b][s] IN
       IF batch[b].status = "EXECUTED" /\ Moves(i)
       THEN /\ i.to # 0 /\ Exists(i.to) /\ row[i.to].by = b
            /\ row[i.to].student = s /\ SessionOf[row[i.to].section] = batch[b].to
       ELSE i.to = 0
  /\ \A r \in Rows : Exists(r) /\ row[r].by # None => item[row[r].by][row[r].student].to = r

\* Nobody is left closed or graduated by a batch that was not carried out or was
\* rolled back: rollback "reactivates the old ones and reverts graduations".
NobodyLeftBehind ==
  LET Did(b) == batch[b].status = "EXECUTED" IN
  /\ \A r \in Rows : row[r].status \in Closed =>
       \E b \in Batches, s \in Students :
         LET i == item[b][s] IN
         Did(b) /\ i.from = r /\ Closes(i) /\ ClosedAs[i.decision] = row[r].status
  /\ \A s \in Students : student[s] = "GRADUATED" =>
       \E b \in Batches : Did(b) /\ item[b][s].decision = "GRADUATE"

\* "Section capacity is a hard gate": without the override nobody exceeds it.
CapacityIsAGate == \A x \in Sections : Overrides \/ Cardinality(ActiveIn(x)) <= Capacity[x]

\* "Rollback is allowed while the new session has no dependent data": what hangs
\* on an enrollment is not taken away with it.
DependentsStay == [][\A r \in Rows : depends[r] \subseteq depends'[r]]_vars

\* A cancelled enrollment is not brought back: its session slot is free.
CancelledStays ==
  [][\A r \in Rows : row[r].status = "CANCELLED" => row'[r].status \in {"CANCELLED", "deleted"}]_vars

\* "A batch executes only once": a place is made for a pupil only by a draft.
ExecutedOnce ==
  [][\A b \in Batches, s \in Students :
       item[b][s].to # item'[b][s].to /\ item'[b][s].to # 0 => batch[b].status = "DRAFT"]_vars
=============================================================================
