------------------------- MODULE Enrollment_proofs --------------------------
(***************************************************************************)
(* That a pupil has one live enrollment per session whoever is at work,    *)
(* and, if one request at a time works on batches (OneHead), that a batch  *)
(* is carried out whole and that undoing it leaves nobody behind.          *)
(***************************************************************************)
EXTENDS Enrollment, TLAPS

\* Of a table T of enrollments.
Placed(T, r) == T[r].status # "absent"
Present(T, r) == T[r].status \notin {"absent", "deleted"}

\* What no step undoes: a deleted row stays deleted and none changes session.
Evolves(T, U) ==
  \A r \in Rows : Placed(T, r) =>
    /\ Placed(U, r)
    /\ Present(U, r) => /\ Present(T, r)
                        /\ SessionOf[U[r].section] = SessionOf[T[r].section]

\* What the office does not touch: rows stay, the batches' as they are, and no
\* row is closed or made for a batch.
Keeps(T, U) ==
  \A r \in Rows :
    /\ Present(T, r) => /\ Present(U, r)
                        /\ U[r].student = T[r].student /\ U[r].by = T[r].by
                        /\ SessionOf[U[r].section] = SessionOf[T[r].section]
    /\ Present(U, r) /\ ~Present(T, r) => U[r].by = None
    /\ U[r].status \in Closed => U[r].status = T[r].status

OnARow == {"cancel", "transfer", "attend", "bill"}
HeadOps == {"create", "edit", "execute", "rollback", "remove"}

RequestOK(r, T) ==
  /\ r \in Request
  /\ r.op \in OnARow => r.row \in Rows
  /\ r.op \in HeadOps => r.batch \in Batches
  /\ r.op \in {"enroll", "bulk", "transfer"} => r.section \in Sections
  /\ r.op = "transfer" =>
       /\ Placed(T, r.row)
       /\ Present(T, r.row) => SessionOf[r.section] = SessionOf[T[r.row].section]

RegisterInvariant ==
  /\ TypeOK
  /\ \A p \in Procs : RequestOK(req[p], row)

-----------------------------------------------------------------------------
LEMMA RowsAreNumbers == Rows \subseteq Nat \ {0} /\ 0 \notin Rows
  BY EnrollmentAssumption DEF Rows

LEMMA NoneIsNobody == None \notin Students /\ None \notin Sections /\ None \notin Batches
  BY EnrollmentAssumption

LEMMA ClosedValues ==
  /\ DOMAIN ClosedAs = {"PROMOTE", "RETAIN", "GRADUATE"}
  /\ ClosedAs["PROMOTE"] = "PROMOTED" /\ ClosedAs["RETAIN"] = "RETAINED"
  /\ ClosedAs["GRADUATE"] = "COMPLETED"
  /\ Closed = {"PROMOTED", "RETAINED", "COMPLETED"}
  <1>1. DOMAIN ClosedAs = {"PROMOTE", "RETAIN", "GRADUATE"}
    BY DEF ClosedAs
  <1>2. ClosedAs["PROMOTE"] = "PROMOTED" /\ ClosedAs["RETAIN"] = "RETAINED"
        /\ ClosedAs["GRADUATE"] = "COMPLETED"
    BY DEF ClosedAs
  <1>3. Closed = {ClosedAs[d] : d \in {"PROMOTE", "RETAIN", "GRADUATE"}}
    BY <1>1 DEF Closed, Range
  <1>4. QED
    BY <1>1, <1>2, <1>3

LEMMA IdleOK == ASSUME NEW T PROVE RequestOK(Idle, T)
  BY DEF Idle, RequestOK, Request, OpNames, OnARow, HeadOps, NoItems, NoItem, Items, Item

LEMMA RequestStays ==
  ASSUME NEW r, NEW T, NEW U, RequestOK(r, T), Evolves(T, U)
  PROVE  RequestOK(r, U)
  BY DEF RequestOK, Evolves, OnARow

\* What a new row holds, and that the rows already there are left as they were.
LEMMA NewRowsAreNew ==
  ASSUME NEW S \in SUBSET Students, NEW made \in NewRows(S), NEW T, NEW section, NEW b,
         NEW r \in Rows
  PROVE  /\ made \in [S -> Rows]
         /\ \A s, t \in S : s # t => made[s] # made[t]
         /\ \A s \in S : ~Placed(row, made[s])
         /\ Placed(row, r) => With(T, made, section, b)[r] = T[r]
         /\ \/ With(T, made, section, b)[r] = T[r] /\ \A s \in S : made[s] # r
            \/ \E s \in S : /\ made[s] = r
                            /\ With(T, made, section, b)[r] =
                                 [status |-> "ACTIVE", student |-> s,
                                  section |-> section[s], by |-> b]
  <1> DEFINE free == {q \in Rows : row[q].status = "absent"}
             next == {q \in free : Cardinality({k \in free : k < q}) < Cardinality(S)}
  <1>1. made \in [S -> next] /\ \A s, t \in S : s # t => made[s] # made[t]
    BY DEF NewRows
  <1>2. next \subseteq {q \in Rows : row[q].status = "absent"}
    OBVIOUS
  <1>3. made \in [S -> Rows] /\ \A s \in S : ~Placed(row, made[s])
    <2> HIDE DEF next
    <2> QED BY <1>1, <1>2 DEF Placed
  <1>4. DOMAIN made = S /\ Range(made) = {made[s] : s \in S}
    BY <1>3 DEF Range
  <1>5. CASE r \notin Range(made)
    <2>1. With(T, made, section, b)[r] = T[r]
      BY <1>5 DEF With
    <2>2. \A s \in S : made[s] # r
      BY <1>4, <1>5
    <2> QED BY <1>1, <1>3, <2>1, <2>2
  <1>6. CASE r \in Range(made)
    <2> DEFINE s == CHOOSE s \in S : made[s] = r
    <2>1. s \in S /\ made[s] = r
      BY <1>4, <1>6
    <2>2. With(T, made, section, b)[r] =
            [status |-> "ACTIVE", student |-> s, section |-> section[s], by |-> b]
      BY <1>4, <1>6 DEF With
    <2>3. ~Placed(row, r)
      BY <1>3, <2>1
    <2> HIDE DEF s
    <2> QED BY <1>1, <1>3, <2>1, <2>2, <2>3
  <1> QED BY <1>5, <1>6

-----------------------------------------------------------------------------
(* The requests after a step. *)

LEMMA SameEvolves == ASSUME NEW T PROVE Evolves(T, T)
  BY DEF Evolves

LEMMA BeginsOK ==
  ASSUME RegisterInvariant, NEW p \in Procs, NEW op, NEW request, Begins(p, op, request),
         RequestOK([request EXCEPT !.op = op], row'), row' = row
  PROVE  /\ req' \in [Procs -> Request]
         /\ \A q \in Procs : RequestOK(req'[q], row')
  BY DEF Begins, RegisterInvariant, TypeOK, Typed, RequestOK

LEMMA EndsOK ==
  ASSUME RegisterInvariant, NEW p \in Procs, Ends(p), Evolves(row, row')
  PROVE  /\ req' \in [Procs -> Request]
         /\ \A q \in Procs : RequestOK(req'[q], row')
  <1>1. Idle \in Request
    BY IdleOK DEF RequestOK
  <1>2. req \in [Procs -> Request]
    BY DEF RegisterInvariant, TypeOK, Typed
  <1>3. \A q \in Procs : RequestOK(req[q], row')
    BY RequestStays DEF RegisterInvariant
  <1>4. req' = [req EXCEPT ![p] = Idle]
    BY DEF Ends
  <1>5. RequestOK(Idle, row')
    BY IdleOK
  <1> QED BY <1>1, <1>2, <1>3, <1>4, <1>5

LEMMA ReadsOK ==
  ASSUME RegisterInvariant, Reads, req' \in [Procs -> Request],
         \A q \in Procs : RequestOK(req'[q], row')
  PROVE  RegisterInvariant'
  BY DEF RegisterInvariant, TypeOK, Typed, OnePlaceEach, Reads

LEMMA ItemsToItems ==
  /\ NoItem \in Item /\ NoItems \in Items
  /\ \A i \in Item : \A f, t \in {0} \cup Rows :
       [i EXCEPT !.to = t] \in Item /\ [i EXCEPT !.from = f, !.to = t] \in Item
  BY DEF NoItem, NoItems, Items, Item

-----------------------------------------------------------------------------
(* The register after each write. *)

LEMMA EnrollStep ==
  ASSUME RegisterInvariant, NEW p \in Procs, EnrollInserts(p)
  PROVE  RegisterInvariant' /\ Keeps(row, row')
  <1> DEFINE S == req[p].pupils
  <1>1. S \in SUBSET Students /\ req[p].section \in Sections
    BY DEF RegisterInvariant, RequestOK, EnrollInserts, Request
  <1>2. PICK made \in NewRows(S) :
          row' = With(row, made, [s \in S |-> req[p].section], None)
    BY DEF EnrollInserts
  <1> DEFINE section == [s \in S |-> req[p].section]
             N(s) == [status |-> "ACTIVE", student |-> s,
                      section |-> section[s], by |-> None]
  <1>3. \A r \in Rows :
          /\ Placed(row, r) => row'[r] = row[r]
          /\ row'[r] = row[r] \/ \E s \in S : made[s] = r /\ row'[r] = N(s)
    <2> SUFFICES ASSUME NEW r \in Rows
                 PROVE  /\ Placed(row, r) => row'[r] = row[r]
                        /\ row'[r] = row[r] \/ \E s \in S : made[s] = r /\ row'[r] = N(s)
      OBVIOUS
    <2>1. row' = With(row, made, section, None)
      BY <1>2
    <2> HIDE DEF section, S
    <2> QED BY <1>1, <2>1, NewRowsAreNew
  <1>4. \A s \in S : N(s) \in Row
    BY <1>1 DEF Row, LiveStatus
  <1> HIDE DEF N, S, section
  <1>5. row' \in [Rows -> Row]
    <2>1. \A r \in Rows : row[r] \in Row
      BY DEF RegisterInvariant, TypeOK, Typed
    <2>2. \A r \in Rows : row'[r] \in Row
      BY <1>3, <1>4, <2>1
    <2>3. row' = [r \in Rows |-> row'[r]]
      BY <1>2 DEF With
    <2> QED BY <2>2, <2>3
  <1>6. Evolves(row, row')
    BY <1>3 DEF Evolves, Placed, Present
  <1>7. req' \in [Procs -> Request] /\ \A q \in Procs : RequestOK(req'[q], row')
    BY <1>6, EndsOK DEF EnrollInserts
  <1>8. OnePlaceEach(row')
    BY DEF EnrollInserts, Indexed
  <1>9. Keeps(row, row')
    <2>1. \A s \in S : N(s).status = "ACTIVE" /\ N(s).by = None
      BY DEF N
    <2> QED BY <1>3, <2>1, ClosedValues DEF Keeps, Placed, Present
  <1> QED BY <1>5, <1>6, <1>7, <1>8, <1>9
        DEF RegisterInvariant, TypeOK, Typed, EnrollInserts, OnePlaceEach

LEMMA CancelStep ==
  ASSUME RegisterInvariant, NEW p \in Procs, CancelWrites(p)
  PROVE  RegisterInvariant' /\ Keeps(row, row')
  <1>1. req[p].row \in Rows /\ row \in [Rows -> Row]
    BY DEF RegisterInvariant, RequestOK, CancelWrites, OnARow, TypeOK, Typed
  <1>2. row' = [row EXCEPT ![req[p].row].status = "CANCELLED"] /\ Exists(req[p].row)
    BY DEF CancelWrites
  <1>3. row' \in [Rows -> Row]
    BY <1>1, <1>2 DEF Row
  <1>4. \A r \in Rows : /\ row'[r].student = row[r].student /\ row'[r].section = row[r].section
                        /\ row'[r].by = row[r].by
                        /\ row'[r].status = row[r].status \/ row'[r].status = "CANCELLED"
    BY <1>1, <1>2 DEF Row
  <1>5. OnePlaceEach(row')
    BY <1>4, ClosedValues DEF RegisterInvariant, TypeOK, OnePlaceEach, LiveStatus
  <1>6. Evolves(row, row')
    BY <1>1, <1>2, <1>4 DEF Evolves, Placed, Present, Exists, Row
  <1>7. req' \in [Procs -> Request] /\ \A q \in Procs : RequestOK(req'[q], row')
    BY <1>6, EndsOK DEF CancelWrites
  <1>8. Keeps(row, row')
    BY <1>1, <1>2, <1>4, ClosedValues DEF Keeps, Present, Exists, Row
  <1> QED BY <1>3, <1>5, <1>6, <1>7, <1>8
        DEF RegisterInvariant, TypeOK, Typed, CancelWrites, OnePlaceEach

LEMMA TransferStep ==
  ASSUME RegisterInvariant, NEW p \in Procs, TransferWrites(p)
  PROVE  RegisterInvariant' /\ Keeps(row, row')
  <1>1. /\ req[p].row \in Rows /\ row \in [Rows -> Row] /\ req[p].section \in Sections
        /\ Present(row, req[p].row) => SessionOf[req[p].section] = SessionOf[row[req[p].row].section]
    BY DEF RegisterInvariant, RequestOK, TransferWrites, OnARow, TypeOK, Typed
  <1>2. row' = [row EXCEPT ![req[p].row].section = req[p].section] /\ Exists(req[p].row)
    BY DEF TransferWrites
  <1>3. row' \in [Rows -> Row]
    BY <1>1, <1>2 DEF Row
  <1>4. \A r \in Rows : /\ row'[r].student = row[r].student /\ row'[r].status = row[r].status
                        /\ row'[r].by = row[r].by
                        /\ SessionOf[row'[r].section] = SessionOf[row[r].section]
    BY <1>1, <1>2 DEF Row, Present, Exists
  <1>5. OnePlaceEach(row')
    BY <1>4 DEF RegisterInvariant, TypeOK, OnePlaceEach
  <1>6. Evolves(row, row')
    BY <1>4 DEF Evolves, Placed, Present
  <1>7. req' \in [Procs -> Request] /\ \A q \in Procs : RequestOK(req'[q], row')
    BY <1>6, EndsOK DEF TransferWrites
  <1>8. Keeps(row, row')
    BY <1>4 DEF Keeps, Present
  <1> QED BY <1>3, <1>5, <1>6, <1>7, <1>8
        DEF RegisterInvariant, TypeOK, Typed, TransferWrites, OnePlaceEach

\* What closing the rows of a batch leaves and changes.
LEMMA ClosedRows ==
  ASSUME row \in [Rows -> Row], NEW items \in Items, NEW r \in Rows,
         \A s \in Students : Closes(items[s]) /\ items[s].from # 0 => Exists(items[s].from)
  PROVE  LET u == WithClosed(row, items)[r] IN
         /\ u \in Row
         /\ u.student = row[r].student /\ u.section = row[r].section /\ u.by = row[r].by
         /\ \/ u = row[r]
            \/ \E s \in Students : /\ row[r].student = s /\ Closes(items[s]) /\ items[s].from = r
                                   /\ u.status = ClosedAs[items[s].decision]
                                   /\ u.status \in Closed /\ Exists(r)
  <1> DEFINE s == row[r].student
             d == items[s].decision
  <1>1. WithClosed(row, items)[r] = IF s \in Students /\ Closes(items[s]) /\ items[s].from = r
                                    THEN [row[r] EXCEPT !.status = ClosedAs[d]] ELSE row[r]
    BY DEF WithClosed
  <1>2. CASE ~(s \in Students /\ Closes(items[s]) /\ items[s].from = r)
    BY <1>1, <1>2
  <1>3. CASE s \in Students /\ Closes(items[s]) /\ items[s].from = r
    <2>1. ClosedAs[d] \in Closed
      BY <1>3, ClosedValues DEF Closes
    <2>2. Exists(r)
      BY <1>3, RowsAreNumbers
    <2>3. WithClosed(row, items)[r] = [row[r] EXCEPT !.status = ClosedAs[d]]
      BY <1>1, <1>3
    <2>4. row[r] \in Row
      OBVIOUS
    <2> DEFINE u == [row[r] EXCEPT !.status = ClosedAs[d]]
    <2>5. /\ u \in Row /\ u.status = ClosedAs[d]
          /\ u.student = row[r].student /\ u.section = row[r].section /\ u.by = row[r].by
      BY <2>1, <2>4 DEF Row, LiveStatus
    <2> HIDE DEF u, d
    <2> QED BY <1>3, <2>1, <2>2, <2>3, <2>5 DEF u, d
  <1> QED BY <1>2, <1>3

\* What an execution makes of the table, and of the items.
LEMMA ExecuteRows ==
  ASSUME RegisterInvariant, NEW p \in Procs, ExecuteWrites(p)
  PROVE  LET b == req[p].batch  items == req[p].items
             movers == {s \in Students : Moves(items[s])}
             N(s) == [status |-> "ACTIVE", student |-> s,
                      section |-> items[s].target, by |-> b] IN
         \E made \in [movers -> Rows] :
           /\ \A s, t \in movers : s # t => made[s] # made[t]
           /\ \A s \in movers : ~Placed(row, made[s]) /\ row'[made[s]] = N(s)
           /\ \A r \in Rows : Placed(row, r) => row'[r] = WithClosed(row, items)[r]
           /\ \A r \in Rows : row'[r] = WithClosed(row, items)[r]
                              \/ \E s \in movers : made[s] = r /\ row'[r] = N(s)
           /\ row' = [r \in Rows |-> row'[r]]
           /\ item' = [item EXCEPT ![b] = [s \in Students |->
                 IF s \in movers THEN [item[b][s] EXCEPT !.to = made[s]] ELSE item[b][s]]]
  <1> DEFINE b == req[p].batch
             items == req[p].items
             movers == {s \in Students : Moves(items[s])}
             section == [s \in movers |-> items[s].target]
             N(s) == [status |-> "ACTIVE", student |-> s, section |-> section[s], by |-> b]
             T == WithClosed(row, items)
  <1>1. PICK made \in NewRows(movers) :
          /\ row' = With(T, made, section, b)
          /\ item' = [item EXCEPT ![b] = [s \in Students |->
                 IF s \in movers THEN [@[s] EXCEPT !.to = made[s]] ELSE @[s]]]
    BY DEF ExecuteWrites
  <1>2. movers \in SUBSET Students
    OBVIOUS
  <1>3. b \in Batches
    BY DEF RegisterInvariant, RequestOK, ExecuteWrites, HeadOps
  <1>4. item' = [item EXCEPT ![b] = [s \in Students |->
                 IF s \in movers THEN [item[b][s] EXCEPT !.to = made[s]] ELSE item[b][s]]]
    BY <1>1, <1>3 DEF RegisterInvariant, TypeOK, Typed
  <1>5. /\ made \in [movers -> Rows]
        /\ \A s, t \in movers : s # t => made[s] # made[t]
        /\ \A s \in movers : ~Placed(row, made[s])
    <2>1. CASE Rows = {}
      BY <2>1, <1>1, <1>2 DEF NewRows
    <2>2. CASE Rows # {}
      <3>1. PICK r \in Rows : TRUE
        BY <2>2
      <3> HIDE DEF movers, section, N, T, b
      <3> QED BY <3>1, <1>1, <1>2, NewRowsAreNew
    <2> QED BY <2>1, <2>2
  <1>6. \A r \in Rows :
          /\ Placed(row, r) => row'[r] = T[r]
          /\ \/ row'[r] = T[r] /\ \A s \in movers : made[s] # r
             \/ \E s \in movers : made[s] = r /\ row'[r] = N(s)
    <2> HIDE DEF movers, section, T, b
    <2> QED BY <1>1, <1>2, NewRowsAreNew
  <1>7. row' = [r \in Rows |-> row'[r]]
    BY <1>1 DEF With
  <1>8. \A s \in movers : N(s) = [status |-> "ACTIVE", student |-> s,
                                  section |-> items[s].target, by |-> b]
    OBVIOUS
  <1>9. \A s \in movers : row'[made[s]] = N(s)
    <2> HIDE DEF movers, section, T, b, N
    <2> QED BY <1>5, <1>6
  <1> HIDE DEF movers, section, T, b, N
  <1>10. /\ \A s \in movers : ~Placed(row, made[s]) /\
              row'[made[s]] = [status |-> "ACTIVE", student |-> s,
                               section |-> items[s].target, by |-> b]
         /\ \A r \in Rows : Placed(row, r) => row'[r] = T[r]
         /\ \A r \in Rows : row'[r] = T[r] \/ \E s \in movers : made[s] = r /\
              row'[r] = [status |-> "ACTIVE", student |-> s,
                         section |-> items[s].target, by |-> b]
    BY <1>5, <1>6, <1>8, <1>9
  <1> QED BY <1>4, <1>5, <1>7, <1>10, ZenonT(60) DEF movers, T, b

LEMMA ExecuteStep ==
  ASSUME RegisterInvariant, NEW p \in Procs, ExecuteWrites(p)
  PROVE  RegisterInvariant'
  <1> DEFINE b == req[p].batch
             items == req[p].items
             movers == {s \in Students : Moves(items[s])}
             N(s) == [status |-> "ACTIVE", student |-> s, section |-> items[s].target, by |-> b]
             T == WithClosed(row, items)
  <1>1. /\ row \in [Rows -> Row] /\ item \in [Batches -> Items] /\ batch \in [Batches -> Batch]
        /\ student \in [Students -> {"ACTIVE", "GRADUATED"}]
        /\ depends \in [Rows -> SUBSET {"attend", "bill"}]
        /\ items \in Items /\ b \in Batches
    BY DEF RegisterInvariant, TypeOK, Typed, RequestOK, ExecuteWrites, HeadOps, Request
  <1>2. PICK made \in [movers -> Rows] :
          /\ \A s, t \in movers : s # t => made[s] # made[t]
          /\ \A s \in movers : ~Placed(row, made[s]) /\ row'[made[s]] = N(s)
          /\ \A r \in Rows : Placed(row, r) => row'[r] = T[r]
          /\ \A r \in Rows : row'[r] = T[r] \/ \E s \in movers : made[s] = r /\ row'[r] = N(s)
          /\ row' = [r \in Rows |-> row'[r]]
          /\ item' = [item EXCEPT ![b] = [s \in Students |->
                IF s \in movers THEN [item[b][s] EXCEPT !.to = made[s]] ELSE item[b][s]]]
    BY ExecuteRows
  <1>3. /\ \A s \in Students : Closes(items[s]) /\ items[s].from # 0 => Exists(items[s].from)
        /\ student' = [s \in Students |->
                         IF items[s].decision = "GRADUATE" THEN "GRADUATED" ELSE student[s]]
        /\ batch' = [batch EXCEPT ![b].status = "EXECUTED"]
        /\ depends' = depends /\ Ends(p) /\ Indexed(row')
    BY DEF ExecuteWrites
  <1>4. \A r \in Rows : T[r] \in Row /\ T[r].section = row[r].section
                        /\ (T[r] = row[r] \/ (T[r].status \in Closed /\ Exists(r)))
    BY <1>1, <1>3, ClosedRows
  <1>5. \A s \in movers : N(s) \in Row
    BY <1>1 DEF Row, LiveStatus, Items, Item
  <1>6. item' \in [Batches -> Items]
    <2>1. ASSUME NEW s \in movers PROVE [item[b][s] EXCEPT !.to = made[s]] \in Item
      <3>1. item[b][s] \in Item /\ made[s] \in {0} \cup Rows
        BY <1>1, <1>2 DEF Items
      <3> QED BY <3>1, ItemsToItems
    <2> HIDE DEF movers, b
    <2> DEFINE I == [s \in Students |->
                IF s \in movers THEN [item[b][s] EXCEPT !.to = made[s]] ELSE item[b][s]]
    <2>2. I \in Items
      BY <1>1, <2>1 DEF Items
    <2> HIDE DEF I
    <2>3. item' = [item EXCEPT ![b] = I]
      BY <1>2 DEF I
    <2> QED BY <1>1, <2>2, <2>3
  <1>7. batch' \in [Batches -> Batch] /\ student' \in [Students -> {"ACTIVE", "GRADUATED"}]
    BY <1>1, <1>3 DEF Batch
  <1> HIDE DEF movers, T, b, N, items
  <1>8. \A r \in Rows : row'[r] \in Row
    BY <1>2, <1>4, <1>5
  <1>9. row' \in [Rows -> Row]
    BY <1>2, <1>8
  <1>10. Evolves(row, row')
    BY <1>2, <1>4, ClosedValues DEF Evolves, Placed, Present, Exists
  <1>11. req' \in [Procs -> Request] /\ \A q \in Procs : RequestOK(req'[q], row')
    BY <1>3, <1>10, EndsOK
  <1>12. OnePlaceEach(row')
    BY <1>3 DEF Indexed
  <1> QED BY <1>1, <1>3, <1>6, <1>7, <1>9, <1>11, <1>12
        DEF RegisterInvariant, TypeOK, Typed, OnePlaceEach

LEMMA RollbackStep ==
  ASSUME RegisterInvariant, NEW p \in Procs, RollbackWrites(p)
  PROVE  RegisterInvariant'
  <1> DEFINE b == req[p].batch
             items == req[p].items
             made == {items[s].to : s \in Students} \ {0}
             old == {items[s].from : s \in Students} \ {0}
  <1>1. /\ row \in [Rows -> Row] /\ item \in [Batches -> Items] /\ batch \in [Batches -> Batch]
        /\ student \in [Students -> {"ACTIVE", "GRADUATED"}]
        /\ depends \in [Rows -> SUBSET {"attend", "bill"}]
        /\ items \in Items /\ b \in Batches
    BY DEF RegisterInvariant, TypeOK, Typed, RequestOK, RollbackWrites, HeadOps, Request
  <1>2. /\ \A r \in made \cup old : Exists(r)
        /\ row' = [r \in Rows |-> IF r \in made THEN DeletedRow
                                  ELSE IF r \in old THEN [row[r] EXCEPT !.status = "ACTIVE"]
                                  ELSE row[r]]
        /\ Indexed(row')
        /\ item' = [c \in Batches |-> [s \in Students |->
                      [item[c][s] EXCEPT !.from = IF @ \in made THEN 0 ELSE @,
                                         !.to = IF c = b THEN 0 ELSE @]]]
        /\ depends' = [r \in Rows |-> IF r \in made THEN {} ELSE depends[r]]
        /\ student' = RevertGraduates(items)
        /\ batch' = [batch EXCEPT ![b].status = "ROLLED_BACK"]
        /\ Ends(p)
    BY DEF RollbackWrites
  <1> HIDE DEF made, old
  <1>3. row' \in [Rows -> Row]
    <2>1. DeletedRow \in Row
      BY DEF DeletedRow, NoRow, Row
    <2>2. ASSUME NEW r \in Rows PROVE [row[r] EXCEPT !.status = "ACTIVE"] \in Row
      <3>1. row[r] \in Row
        BY <1>1
      <3> QED BY <3>1 DEF Row, LiveStatus
    <2> QED BY <1>1, <1>2, <2>1, <2>2
  <1>4. item' \in [Batches -> Items]
    <2>1. ASSUME NEW c \in Batches, NEW s \in Students
          PROVE  [item[c][s] EXCEPT !.from = IF @ \in made THEN 0 ELSE @,
                                    !.to = IF c = b THEN 0 ELSE @] \in Item
      <3> DEFINE f == IF item[c][s].from \in made THEN 0 ELSE item[c][s].from
                 t == IF c = b THEN 0 ELSE item[c][s].to
      <3>1. item[c][s] \in Item
        BY <1>1 DEF Items
      <3>2. f \in {0} \cup Rows /\ t \in {0} \cup Rows
        BY <3>1 DEF Item
      <3> HIDE DEF f, t
      <3>3. [item[c][s] EXCEPT !.from = f, !.to = t] \in Item
        BY <3>1, <3>2, ItemsToItems
      <3> QED BY <3>3 DEF f, t
    <2> QED BY <1>2, <2>1 DEF Items
  <1>5. batch' \in [Batches -> Batch] /\ depends' \in [Rows -> SUBSET {"attend", "bill"}]
    BY <1>1, <1>2 DEF Batch
  <1>6. student' \in [Students -> {"ACTIVE", "GRADUATED"}]
    BY <1>1, <1>2 DEF RevertGraduates
  <1>7. Evolves(row, row')
    <2> SUFFICES ASSUME NEW r \in Rows, Placed(row, r)
                 PROVE  /\ Placed(row', r)
                        /\ Present(row', r) => /\ Present(row, r)
                                               /\ row'[r].section = row[r].section
      BY DEF Evolves
    <2>1. row[r] \in Row
      BY <1>1
    <2>2. CASE r \in made
      BY <1>2, <2>2 DEF Placed, Present, DeletedRow, NoRow
    <2>3. CASE r \notin made /\ r \in old
      <3>1. row'[r] = [row[r] EXCEPT !.status = "ACTIVE"] /\ Exists(r)
        BY <1>2, <2>3
      <3> QED BY <2>1, <3>1 DEF Placed, Present, Exists, Row
    <2>4. CASE r \notin made /\ r \notin old
      BY <1>2, <2>4 DEF Placed, Present
    <2> QED BY <2>2, <2>3, <2>4
  <1>8. req' \in [Procs -> Request] /\ \A q \in Procs : RequestOK(req'[q], row')
    BY <1>2, <1>7, EndsOK
  <1>9. OnePlaceEach(row')
    BY <1>2 DEF Indexed
  <1> QED BY <1>3, <1>4, <1>5, <1>6, <1>8, <1>9
        DEF RegisterInvariant, TypeOK, Typed, OnePlaceEach

LEMMA DraftTyped ==
  ASSUME NEW y, NEW d \in Decisions, NEW x \in Targets \cup {None}
  PROVE  DraftItems(Candidates(y), d, x) \in Items
  <1> DEFINE rows == Candidates(y)
             I == DraftItems(rows, d, x)
  <1>1. rows \subseteq Rows
    BY DEF Candidates
  <1> HIDE DEF rows
  <1>2. ASSUME NEW s \in Students PROVE I[s] \in Item
    <2>1. CASE \E r \in rows : row[r].student = s
      <3> DEFINE r == CHOOSE r \in rows : row[r].student = s
      <3>1. r \in Rows
        BY <1>1, <2>1
      <3>2. d \in {"PROMOTE", "RETAIN", "GRADUATE", "EXCLUDE"} /\ x \in Sections \cup {None}
        BY EnrollmentAssumption DEF Moving
      <3>3. I[s] = [decision |-> d, target |-> x, to |-> 0, from |-> r]
        BY <2>1 DEF DraftItems
      <3> HIDE DEF I, r
      <3> QED BY <3>1, <3>2, <3>3 DEF Item
    <2>2. CASE ~\E r \in rows : row[r].student = s
      BY <2>2, ItemsToItems DEF DraftItems
    <2> QED BY <2>1, <2>2
  <1> QED BY <1>2 DEF DraftItems, Items, rows

\* The requests as they begin.
LEMMA HeadRequest ==
  ASSUME NEW b \in Batches, NEW items \in Items, NEW op \in HeadOps, NEW T
  PROVE  LET r == [[Idle EXCEPT !.batch = b, !.items = items] EXCEPT !.op = op] IN
         RequestOK(r, T) /\ r.op = op /\ r.batch = b /\ r.items = items
  BY DEF Idle, RequestOK, Request, OpNames, OnARow, HeadOps

\* The writes that leave the enrollments alone.
LEMMA OtherStep ==
  ASSUME RegisterInvariant, NEW p \in Procs,
         DependentInserts(p) \/ CreateBatch(p) \/ CreateItems(p) \/ EditWrites(p) \/ RemoveDeletes(p)
  PROVE  RegisterInvariant'
  <1>1. /\ row \in [Rows -> Row] /\ item \in [Batches -> Items] /\ batch \in [Batches -> Batch]
        /\ depends \in [Rows -> SUBSET {"attend", "bill"}] /\ req[p] \in Request
        /\ \A q \in Procs : RequestOK(req[q], row)
    BY DEF RegisterInvariant, TypeOK, Typed
  <1>2. ASSUME DependentInserts(p) PROVE RegisterInvariant'
    <2>1. depends' \in [Rows -> SUBSET {"attend", "bill"}] /\ row' = row
      BY <1>1, <1>2 DEF DependentInserts, RequestOK, OnARow
    <2>2. req' \in [Procs -> Request] /\ \A q \in Procs : RequestOK(req'[q], row')
      BY <1>2, <2>1, EndsOK, SameEvolves DEF DependentInserts
    <2> QED BY <1>2, <2>1, <2>2
          DEF RegisterInvariant, TypeOK, Typed, OnePlaceEach, DependentInserts
  <1>3. ASSUME CreateBatch(p) PROVE RegisterInvariant'
    <2>1. PICK b \in Batches, y \in Promotions, d \in Decisions, x \in Targets \cup {None} :
            /\ batch' = [batch EXCEPT ![b] = [status |-> "DRAFT", from |-> y[1], to |-> y[2]]]
            /\ Begins(p, "create", [Idle EXCEPT !.batch = b, !.items = DraftItems(Candidates(y[1]), d, x)])
      BY <1>3 DEF CreateBatch
    <2>2. DraftItems(Candidates(y[1]), d, x) \in Items
      BY DraftTyped
    <2>3. row' = row
      BY <1>3 DEF CreateBatch
    <2>4. RequestOK([[Idle EXCEPT !.batch = b, !.items = DraftItems(Candidates(y[1]), d, x)]
                       EXCEPT !.op = "create"], row')
      BY <2>2, HeadRequest DEF HeadOps
    <2>6. req' \in [Procs -> Request] /\ \A q \in Procs : RequestOK(req'[q], row')
      BY <2>1, <2>3, <2>4, BeginsOK
    <2>7. batch' \in [Batches -> Batch]
      <3>1. y[1] \in Sessions /\ y[2] \in Sessions
        BY EnrollmentAssumption
      <3> QED BY <1>1, <2>1, <3>1 DEF Batch
    <2> QED BY <1>3, <2>6, <2>7
          DEF RegisterInvariant, TypeOK, Typed, OnePlaceEach, CreateBatch
  <1>4. ASSUME CreateItems(p) PROVE RegisterInvariant'
    <2>1. item' \in [Batches -> Items] /\ row' = row
      BY <1>1, <1>4 DEF CreateItems, Request
    <2>2. req' \in [Procs -> Request] /\ \A q \in Procs : RequestOK(req'[q], row')
      BY <1>4, <2>1, EndsOK, SameEvolves DEF CreateItems
    <2> QED BY <1>4, <2>1, <2>2
          DEF RegisterInvariant, TypeOK, Typed, OnePlaceEach, CreateItems
  <1>5. ASSUME EditWrites(p) PROVE RegisterInvariant'
    <2> DEFINE b == req[p].batch
               new == req[p].items
               I == [s \in Students |-> IF s \notin In(new) THEN item[b][s]
                       ELSE [item[b][s] EXCEPT !.decision = new[s].decision, !.target = new[s].target]]
    <2>1. b \in Batches /\ new \in Items
      BY <1>1, <1>5 DEF RequestOK, EditWrites, HeadOps, Request
    <2>2. item' = [item EXCEPT ![b] = I]
      BY <1>1, <1>5, <2>1 DEF EditWrites
    <2>3. I \in Items
      <3> SUFFICES ASSUME NEW s \in Students PROVE I[s] \in Item
        BY DEF Items
      <3>1. item[b][s] \in Item /\ new[s] \in Item
        BY <1>1, <2>1 DEF Items
      <3> DEFINE i == item[b][s]
                 n == new[s]
      <3>2. I[s] = i \/ I[s] = [i EXCEPT !.decision = n.decision, !.target = n.target]
        OBVIOUS
      <3> HIDE DEF b, new, I, i, n
      <3>3. [i EXCEPT !.decision = n.decision, !.target = n.target] \in Item
        BY <3>1 DEF Item, i, n
      <3> QED BY <3>1, <3>2, <3>3 DEF i
    <2> HIDE DEF I, b, new
    <2>4. item' \in [Batches -> Items] /\ row' = row
      BY <1>1, <1>5, <2>2, <2>3 DEF EditWrites
    <2>5. req' \in [Procs -> Request] /\ \A q \in Procs : RequestOK(req'[q], row')
      BY <1>5, <2>4, EndsOK, SameEvolves DEF EditWrites
    <2> QED BY <1>5, <2>4, <2>5
          DEF RegisterInvariant, TypeOK, Typed, OnePlaceEach, EditWrites
  <1>6. ASSUME RemoveDeletes(p) PROVE RegisterInvariant'
    <2>1. item' \in [Batches -> Items] /\ batch' \in [Batches -> Batch] /\ row' = row
      <3>1. /\ item' = [item EXCEPT ![req[p].batch] = NoItems] /\ row' = row
            /\ batch' = [batch EXCEPT ![req[p].batch].status = "removed"]
        BY <1>6 DEF RemoveDeletes
      <3>2. \A c \in Batch : [c EXCEPT !.status = "removed"] \in Batch
        BY DEF Batch
      <3> QED BY <1>1, <3>1, <3>2, ItemsToItems
    <2>2. req' \in [Procs -> Request] /\ \A q \in Procs : RequestOK(req'[q], row')
      BY <1>6, <2>1, EndsOK, SameEvolves DEF RemoveDeletes
    <2> QED BY <1>6, <2>1, <2>2
          DEF RegisterInvariant, TypeOK, Typed, OnePlaceEach, RemoveDeletes
  <1> QED BY <1>2, <1>3, <1>4, <1>5, <1>6

\* The steps that only begin a request.
Beginning(p) ==
  \/ EnrollReads(p) \/ BulkReads(p) \/ CancelReads(p) \/ TransferReads(p) \/ DependentReads(p)
  \/ EditReads(p) \/ ExecuteReads(p) \/ RollbackReads(p) \/ RemoveReads(p)

LEMMA BeginningStep ==
  ASSUME RegisterInvariant, NEW p \in Procs, Beginning(p)
  PROVE  RegisterInvariant'
  <1>1. /\ Reads /\ row' = row
        /\ item \in [Batches -> Items]
    BY DEF Beginning, EnrollReads, BulkReads, CancelReads, TransferReads, DependentReads, EditReads,
           ExecuteReads, RollbackReads, RemoveReads, Reads, RegisterInvariant, TypeOK, Typed
  <1>2. \E op, request : Begins(p, op, request) /\ RequestOK([request EXCEPT !.op = op], row')
    <2>1. CASE EnrollReads(p)
      <3>1. PICK s \in Students, x \in Sections :
              Begins(p, "enroll", [Idle EXCEPT !.pupils = {s}, !.section = x])
        BY <2>1 DEF EnrollReads
      <3>2. RequestOK([[Idle EXCEPT !.pupils = {s}, !.section = x] EXCEPT !.op = "enroll"], row')
        BY ItemsToItems DEF Idle, RequestOK, Request, OpNames, OnARow, HeadOps
      <3> QED BY <3>1, <3>2
    <2>2. CASE BulkReads(p)
      <3>1. PICK x \in Sections, S \in SUBSET Students :
              Begins(p, "bulk", [Idle EXCEPT !.pupils = S, !.section = x])
        BY <2>2 DEF BulkReads
      <3>2. RequestOK([[Idle EXCEPT !.pupils = S, !.section = x] EXCEPT !.op = "bulk"], row')
        BY ItemsToItems DEF Idle, RequestOK, Request, OpNames, OnARow, HeadOps
      <3> QED BY <3>1, <3>2
    <2>3. CASE CancelReads(p)
      <3>1. PICK r \in Rows : Begins(p, "cancel", [Idle EXCEPT !.row = r])
        BY <2>3 DEF CancelReads
      <3>2. RequestOK([[Idle EXCEPT !.row = r] EXCEPT !.op = "cancel"], row')
        BY ItemsToItems DEF Idle, RequestOK, Request, OpNames, OnARow, HeadOps
      <3> QED BY <3>1, <3>2
    <2>4. CASE TransferReads(p)
      <3>1. PICK r \in Rows, x \in Sections :
              /\ Active(r) /\ SessionOf[x] = SessionOf[row[r].section]
              /\ Begins(p, "transfer", [Idle EXCEPT !.row = r, !.section = x])
        BY <2>4 DEF TransferReads
      <3>2. RequestOK([[Idle EXCEPT !.row = r, !.section = x] EXCEPT !.op = "transfer"], row')
        BY <1>1, <3>1, ItemsToItems
           DEF Idle, RequestOK, Request, OpNames, OnARow, HeadOps, Placed, Active
      <3> QED BY <3>1, <3>2
    <2>5. CASE DependentReads(p)
      <3>1. PICK r \in Rows, op \in {"attend", "bill"} : Begins(p, op, [Idle EXCEPT !.row = r])
        BY <2>5 DEF DependentReads
      <3>2. RequestOK([[Idle EXCEPT !.row = r] EXCEPT !.op = op], row')
        BY ItemsToItems DEF Idle, RequestOK, Request, OpNames, OnARow, HeadOps
      <3> QED BY <3>1, <3>2
    <2>6. CASE EditReads(p)
      <3>1. PICK b \in Batches, s \in Students, d \in Decisions, x \in Targets \cup {None} :
              Begins(p, "edit", [Idle EXCEPT !.batch = b, !.items =
                [NoItems EXCEPT ![s] = [item[b][s] EXCEPT !.decision = d, !.target = x]]])
        BY <2>6 DEF EditReads, In
      <3>2. item[b][s] \in Item /\ d \in {"PROMOTE", "RETAIN", "GRADUATE", "EXCLUDE"}
            /\ x \in Sections \cup {None}
        BY <1>1, EnrollmentAssumption DEF Items, Moving
      <3>3. [item[b][s] EXCEPT !.decision = d, !.target = x] \in Item
        BY <3>2 DEF Item
      <3>4. [NoItems EXCEPT ![s] = [item[b][s] EXCEPT !.decision = d, !.target = x]] \in Items
        BY <3>3, ItemsToItems DEF Items
      <3> DEFINE new == [NoItems EXCEPT ![s] = [item[b][s] EXCEPT !.decision = d, !.target = x]]
      <3>5. Begins(p, "edit", [Idle EXCEPT !.batch = b, !.items = new])
        BY <3>1
      <3> HIDE DEF new
      <3>6. new \in Items
        BY <3>4 DEF new
      <3>7. RequestOK([[Idle EXCEPT !.batch = b, !.items = new] EXCEPT !.op = "edit"], row')
        BY <3>6, HeadRequest DEF HeadOps
      <3> QED BY <3>5, <3>7
    <2>7. CASE ExecuteReads(p)
      <3>1. PICK b \in Batches : Begins(p, "execute", [Idle EXCEPT !.batch = b, !.items = item[b]])
        BY <2>7 DEF ExecuteReads
      <3> QED BY <1>1, <3>1, HeadRequest DEF HeadOps
    <2>8. CASE RollbackReads(p)
      <3>1. PICK b \in Batches : Begins(p, "rollback", [Idle EXCEPT !.batch = b, !.items = item[b]])
        BY <2>8 DEF RollbackReads
      <3> QED BY <1>1, <3>1, HeadRequest DEF HeadOps
    <2>9. CASE RemoveReads(p)
      <3>1. PICK b \in Batches : Begins(p, "remove", [Idle EXCEPT !.batch = b])
        BY <2>9 DEF RemoveReads, Removable
      <3>2. RequestOK([[Idle EXCEPT !.batch = b] EXCEPT !.op = "remove"], row')
        BY ItemsToItems DEF Idle, RequestOK, Request, OpNames, OnARow, HeadOps
      <3> QED BY <3>1, <3>2
    <2> QED BY <2>1, <2>2, <2>3, <2>4, <2>5, <2>6, <2>7, <2>8, <2>9 DEF Beginning
  <1>3. req' \in [Procs -> Request] /\ \A q \in Procs : RequestOK(req'[q], row')
    BY <1>1, <1>2, BeginsOK
  <1> QED BY <1>1, <1>3, ReadsOK

LEMMA InitRegister == Init => RegisterInvariant
  <1> SUFFICES ASSUME Init PROVE RegisterInvariant
    OBVIOUS
  <1>1. row \in [Rows -> Row] /\ OnePlaceEach(row)
    BY DEF Init, NoRow, Row, OnePlaceEach, LiveStatus, Closed, Range, ClosedAs
  <1>2. batch \in [Batches -> Batch] /\ item \in [Batches -> Items]
    BY ItemsToItems DEF Init, NoBatch, Batch
  <1>3. \A p \in Procs : RequestOK(req[p], row)
    BY IdleOK DEF Init
  <1>4. req \in [Procs -> Request]
    BY <1>3 DEF Init, RequestOK
  <1> QED BY <1>1, <1>2, <1>3, <1>4 DEF Init, RegisterInvariant, TypeOK, Typed

LEMMA RegisterStep == RegisterInvariant /\ [Next]_vars => RegisterInvariant'
  <1> SUFFICES ASSUME RegisterInvariant, [Next]_vars PROVE RegisterInvariant'
    OBVIOUS
  <1>1. CASE UNCHANGED vars
    BY <1>1 DEF vars, RegisterInvariant, TypeOK, Typed, OnePlaceEach
  <1>2. ASSUME NEW p \in Procs, EnrollInserts(p) PROVE RegisterInvariant'
    BY <1>2, EnrollStep
  <1>3. ASSUME NEW p \in Procs, CancelWrites(p) PROVE RegisterInvariant'
    BY <1>3, CancelStep
  <1>4. ASSUME NEW p \in Procs, TransferWrites(p) PROVE RegisterInvariant'
    BY <1>4, TransferStep
  <1>5. ASSUME NEW p \in Procs, ExecuteWrites(p) PROVE RegisterInvariant'
    BY <1>5, ExecuteStep
  <1>6. ASSUME NEW p \in Procs, RollbackWrites(p) PROVE RegisterInvariant'
    BY <1>6, RollbackStep
  <1>7. ASSUME NEW p \in Procs,
               DependentInserts(p) \/ CreateBatch(p) \/ CreateItems(p) \/ EditWrites(p) \/ RemoveDeletes(p)
        PROVE  RegisterInvariant'
    BY <1>7, OtherStep
  <1>8. ASSUME NEW p \in Procs, Beginning(p) PROVE RegisterInvariant'
    BY <1>8, BeginningStep
  <1>9. ASSUME NEW p \in Procs, Abandon(p) PROVE RegisterInvariant'
    <2>1. Reads /\ row' = row /\ Ends(p)
      BY <1>9 DEF Abandon, Reads
    <2> QED BY <2>1, EndsOK, SameEvolves, ReadsOK
  <1> QED BY <1>1, <1>2, <1>3, <1>4, <1>5, <1>6, <1>7, <1>8, <1>9 DEF Next, Beginning

\* For any pupils, sections, batches, concurrency and failures: rows of their
\* types, and one live enrollment of a pupil per session.  enroll and bulkEnroll
\* look before they insert, execute and rollback do not; the index refuses what
\* would break it, and a transfer, which it does not see, keeps to the session.
THEOREM OnePlacePerSession == Spec => []TypeOK
  <1>1. RegisterInvariant => TypeOK
    BY DEF RegisterInvariant
  <1> QED BY InitRegister, RegisterStep, <1>1, PTL DEF Spec

-----------------------------------------------------------------------------
(* Batches, when one request at a time works on them.                       *)

OneHead == \A p, q \in Procs : p # q => Ops[p] \cap HeadOps = {} \/ Ops[q] \cap HeadOps = {}

\* What a request on a batch has read still holds when it writes.
HeadOK(r) ==
  /\ r.op \in {"create", "edit", "execute", "remove"} => batch[r.batch].status = "DRAFT"
  /\ r.op = "rollback" => batch[r.batch].status = "EXECUTED"
  /\ r.op = "create" => \A s \in Students : r.items[s].to = 0
  /\ r.op \in {"execute", "rollback"} => r.items = item[r.batch]
  /\ r.op = "execute" => \A s \in Students : Moves(r.items[s]) => TargetOK(r.items[s], r.batch)

\* A place made by a batch is a pupil's.
PlacesArePupils == \A r \in Rows : Exists(r) /\ row[r].by # None => row[r].student \in Students

Promises == PlacesArePupils /\ BatchIsWhole /\ NobodyLeftBehind

BatchInvariant ==
  /\ RegisterInvariant
  /\ \A p \in Procs : req[p].op \in Ops[p] \cup {"none"}
  /\ \A p \in Procs : HeadOK(req[p])
  /\ Promises

-----------------------------------------------------------------------------
LEMMA NothingAsked == "none" \notin HeadOps /\ Idle.op = "none"
  BY DEF HeadOps, Idle

\* A batch that is not EXECUTED has made no place.
LEMMA DraftMadeNothing ==
  ASSUME BatchIsWhole, NEW b \in Batches, batch[b].status # "EXECUTED"
  PROVE  /\ \A s \in Students : item[b][s].to = 0
         /\ PlacesArePupils => \A r \in Rows : Exists(r) => row[r].by # b
  <1>1. \A s \in Students : item[b][s].to = 0
    BY DEF BatchIsWhole
  <1>2. ASSUME PlacesArePupils, NEW r \in Rows, Exists(r), row[r].by = b PROVE FALSE
    <2>1. row[r].by # None /\ row[r].student \in Students
      BY <1>2, NoneIsNobody DEF PlacesArePupils
    <2>2. item[b][row[r].student].to = r
      BY <1>2, <2>1 DEF BatchIsWhole
    <2> QED BY <1>1, <2>1, <2>2, RowsAreNumbers
  <1> QED BY <1>1, <1>2

LEMMA OfficeKeepsPromises ==
  ASSUME Promises, TypeOK, Keeps(row, row'), UNCHANGED <<student, batch, item>>
  PROVE  Promises'
  <1>1. PlacesArePupils'
    BY DEF Promises, PlacesArePupils, Keeps, Present, Exists
  <1>2. BatchIsWhole'
    <2>1. ASSUME NEW b \in Batches, NEW s \in Students
          PROVE  IF batch[b].status = "EXECUTED" /\ Moves(item[b][s])
                 THEN LET i == item[b][s] IN
                      /\ i.to # 0 /\ Exists(i.to)' /\ row'[i.to].by = b
                      /\ row'[i.to].student = s /\ SessionOf[row'[i.to].section] = batch[b].to
                 ELSE item[b][s].to = 0
      <3>1. item[b][s].to \in {0} \cup Rows
        BY DEF TypeOK, Typed, Items, Item
      <3> QED BY <3>1 DEF Promises, BatchIsWhole, Keeps, Present, Exists
    <2>2. ASSUME NEW r \in Rows, Exists(r)', row'[r].by # None
          PROVE  item[row'[r].by][row'[r].student].to = r
      BY <2>2 DEF Promises, BatchIsWhole, Keeps, Present, Exists
    <2> QED BY <2>1, <2>2 DEF BatchIsWhole
  <1>3. NobodyLeftBehind'
    <2>1. \A r \in Rows : row'[r].status \in Closed => row[r].status = row'[r].status
      BY DEF Keeps
    <2> QED BY <2>1 DEF Promises, NobodyLeftBehind
  <1> QED BY <1>1, <1>2, <1>3 DEF Promises

LEMMA ExecuteKeepsPromises ==
  ASSUME BatchInvariant, NEW p \in Procs, ExecuteWrites(p)
  PROVE  Promises'
  <1> DEFINE b == req[p].batch
             items == req[p].items
             movers == {s \in Students : Moves(items[s])}
             N(s) == [status |-> "ACTIVE", student |-> s, section |-> items[s].target, by |-> b]
             T == WithClosed(row, items)
  <1>1. /\ row \in [Rows -> Row] /\ item \in [Batches -> Items] /\ batch \in [Batches -> Batch]
        /\ items \in Items /\ b \in Batches
        /\ RegisterInvariant /\ Promises
    BY DEF BatchInvariant, RegisterInvariant, TypeOK, Typed, RequestOK, ExecuteWrites, HeadOps, Request
  <1>2. PICK made \in [movers -> Rows] :
          /\ \A s, t \in movers : s # t => made[s] # made[t]
          /\ \A s \in movers : ~Placed(row, made[s]) /\ row'[made[s]] = N(s)
          /\ \A r \in Rows : Placed(row, r) => row'[r] = T[r]
          /\ \A r \in Rows : row'[r] = T[r] \/ \E s \in movers : made[s] = r /\ row'[r] = N(s)
          /\ row' = [r \in Rows |-> row'[r]]
          /\ item' = [item EXCEPT ![b] = [s \in Students |->
                IF s \in movers THEN [item[b][s] EXCEPT !.to = made[s]] ELSE item[b][s]]]
    BY <1>1, ExecuteRows
  <1>3. /\ \A s \in Students : Closes(items[s]) /\ items[s].from # 0 => Exists(items[s].from)
        /\ student' = [s \in Students |->
                         IF items[s].decision = "GRADUATE" THEN "GRADUATED" ELSE student[s]]
        /\ batch' = [batch EXCEPT ![b].status = "EXECUTED"]
    BY DEF ExecuteWrites
  <1>4. /\ batch[b].status = "DRAFT" /\ items = item[b]
        /\ \A s \in movers : SessionOf[items[s].target] = batch[b].to
    BY DEF BatchInvariant, HeadOK, ExecuteWrites, TargetOK
  <1>5. \A r \in Rows :
          /\ T[r].student = row[r].student /\ T[r].section = row[r].section /\ T[r].by = row[r].by
          /\ \/ T[r] = row[r]
             \/ \E s \in Students : /\ Closes(items[s]) /\ items[s].from = r
                                    /\ T[r].status = ClosedAs[items[s].decision]
                                    /\ T[r].status \in Closed /\ Exists(r)
    BY <1>1, <1>3, ClosedRows
  <1>6. \A r \in Rows : T[r].status \notin {"absent", "deleted"} <=> Exists(r)
    BY <1>5, ClosedValues DEF Exists
  <1>7. /\ \A c \in Batches \ {b} : item'[c] = item[c] /\ batch'[c] = batch[c]
        /\ batch'[b].status = "EXECUTED" /\ batch'[b].to = batch[b].to
        /\ \A s \in Students :
             /\ item'[b][s].decision = items[s].decision /\ item'[b][s].from = items[s].from
             /\ item'[b][s].to = IF s \in movers THEN made[s] ELSE items[s].to
    <2>1. \A c \in Batches \ {b} : item'[c] = item[c] /\ batch'[c] = batch[c]
      BY <1>1, <1>2, <1>3
    <2>2. batch'[b].status = "EXECUTED" /\ batch'[b].to = batch[b].to
      BY <1>1, <1>3 DEF Batch
    <2>3. ASSUME NEW s \in Students
          PROVE  /\ item'[b][s].decision = items[s].decision /\ item'[b][s].from = items[s].from
                 /\ item'[b][s].to = IF s \in movers THEN made[s] ELSE items[s].to
      <3>1. item[b][s] \in Item
        BY <1>1 DEF Items
      <3>2. item'[b][s] = IF s \in movers THEN [item[b][s] EXCEPT !.to = made[s]] ELSE item[b][s]
        BY <1>1, <1>2
      <3> HIDE DEF movers
      <3> QED BY <1>4, <3>1, <3>2 DEF Item
    <2> QED BY <2>1, <2>2, <2>3
  <1>8. /\ \A s \in Students : items[s].to = 0
        /\ \A r \in Rows : Exists(r) => row[r].by # b
    BY <1>1, <1>4, DraftMadeNothing DEF Promises
  <1>9. \A s \in movers : /\ N(s).status = "ACTIVE" /\ N(s).student = s
                          /\ N(s).section = items[s].target /\ N(s).by = b
    OBVIOUS
  <1>10. \A s \in Students : s \in movers <=> Moves(item'[b][s])
    BY <1>7 DEF Moves
  <1> HIDE DEF movers, N, T, b, items
  <1>11. PlacesArePupils'
    <2> SUFFICES ASSUME NEW r \in Rows, Exists(r)', row'[r].by # None
                 PROVE  row'[r].student \in Students
      BY DEF PlacesArePupils
    <2>1. CASE row'[r] = T[r]
      BY <2>1, <1>1, <1>5, <1>6 DEF Promises, PlacesArePupils, Exists
    <2>2. CASE \E s \in movers : made[s] = r /\ row'[r] = N(s)
      BY <2>2, <1>9 DEF movers
    <2> QED BY <2>1, <2>2, <1>2
  <1>12. BatchIsWhole'
    <2>1. ASSUME NEW c \in Batches, NEW s \in Students
          PROVE  IF batch'[c].status = "EXECUTED" /\ Moves(item'[c][s])
                 THEN LET i == item'[c][s] IN
                      /\ i.to # 0 /\ row'[i.to].status \notin {"absent", "deleted"}
                      /\ row'[i.to].by = c
                      /\ row'[i.to].student = s /\ SessionOf[row'[i.to].section] = batch'[c].to
                 ELSE item'[c][s].to = 0
      <3>1. CASE c # b
        <4>1. item'[c] = item[c] /\ batch'[c] = batch[c] /\ item[c][s].to \in {0} \cup Rows
          BY <3>1, <1>1, <1>7 DEF Items, Item
        <4>2. \A r \in Rows : Exists(r) => /\ Exists(r)' /\ row'[r].by = row[r].by
                                           /\ row'[r].student = row[r].student
                                           /\ row'[r].section = row[r].section
          BY <1>2, <1>5, <1>6 DEF Exists, Placed
        <4> QED BY <4>1, <4>2, <1>1 DEF Promises, BatchIsWhole, Exists
      <3>2. CASE c = b /\ s \in movers
        <4>1. made[s] \in Rows /\ made[s] # 0 /\ row'[made[s]] = N(s) /\ item'[c][s].to = made[s]
          BY <3>2, <1>2, <1>7, RowsAreNumbers
        <4> QED BY <3>2, <4>1, <1>4, <1>7, <1>9, <1>10 DEF Exists
      <3>3. CASE c = b /\ s \notin movers
        BY <3>3, <1>7, <1>8, <1>10
      <3> QED BY <3>1, <3>2, <3>3
    <2>2. ASSUME NEW r \in Rows, Exists(r)', row'[r].by # None
          PROVE  item'[row'[r].by][row'[r].student].to = r
      <3>1. CASE row'[r] = T[r]
        <4>1. Exists(r) /\ row'[r].by = row[r].by /\ row'[r].student = row[r].student
          BY <2>2, <3>1, <1>5, <1>6 DEF Exists
        <4>2. row[r].by \in Batches \ {b}
          BY <4>1, <2>2, <1>1, <1>8 DEF Row
        <4> QED BY <4>1, <4>2, <2>2, <1>1, <1>7 DEF Promises, BatchIsWhole
      <3>2. CASE \E s \in movers : made[s] = r /\ row'[r] = N(s)
        BY <3>2, <1>7, <1>9 DEF movers
      <3> QED BY <3>1, <3>2, <1>2
    <2> QED BY <2>1, <2>2 DEF BatchIsWhole, Exists
  <1>13. NobodyLeftBehind'
    <2>1. ASSUME NEW r \in Rows, row'[r].status \in Closed
          PROVE  \E c \in Batches, s \in Students :
                   /\ batch'[c].status = "EXECUTED" /\ item'[c][s].from = r /\ Closes(item'[c][s])
                   /\ ClosedAs[item'[c][s].decision] = row'[r].status
      <3>1. row'[r] = T[r]
        BY <2>1, <1>2, <1>9, ClosedValues
      <3>2. CASE T[r] = row[r]
        <4>1. PICK c \in Batches, s \in Students :
                /\ batch[c].status = "EXECUTED" /\ item[c][s].from = r /\ Closes(item[c][s])
                /\ ClosedAs[item[c][s].decision] = row[r].status
          BY <2>1, <3>1, <3>2, <1>1 DEF Promises, NobodyLeftBehind
        <4>2. c # b
          BY <4>1, <1>4
        <4> QED BY <3>1, <3>2, <4>1, <4>2, <1>7
      <3>3. CASE \E s \in Students : /\ Closes(items[s]) /\ items[s].from = r
                                     /\ T[r].status = ClosedAs[items[s].decision]
        BY <3>1, <3>3, <1>1, <1>7 DEF Closes
      <3> QED BY <3>2, <3>3, <1>5
    <2>2. ASSUME NEW s \in Students, student'[s] = "GRADUATED"
          PROVE  \E c \in Batches : batch'[c].status = "EXECUTED" /\ item'[c][s].decision = "GRADUATE"
      <3>1. CASE items[s].decision = "GRADUATE"
        BY <3>1, <1>1, <1>7
      <3>2. CASE student[s] = "GRADUATED"
        <4>1. PICK c \in Batches : batch[c].status = "EXECUTED" /\ item[c][s].decision = "GRADUATE"
          BY <3>2, <1>1 DEF Promises, NobodyLeftBehind
        <4>2. c # b
          BY <4>1, <1>4
        <4> QED BY <4>1, <4>2, <1>7
      <3> QED BY <2>2, <3>1, <3>2, <1>3
    <2> QED BY <2>1, <2>2 DEF NobodyLeftBehind
  <1> QED BY <1>11, <1>12, <1>13 DEF Promises

LEMMA RollbackKeepsPromises ==
  ASSUME BatchInvariant, NEW p \in Procs, RollbackWrites(p)
  PROVE  Promises'
  <1> DEFINE b == req[p].batch
             items == req[p].items
             made == {items[s].to : s \in Students} \ {0}
             old == {items[s].from : s \in Students} \ {0}
  <1>1. /\ row \in [Rows -> Row] /\ item \in [Batches -> Items] /\ batch \in [Batches -> Batch]
        /\ b \in Batches /\ Promises
    BY DEF BatchInvariant, RegisterInvariant, TypeOK, Typed, RequestOK, RollbackWrites, HeadOps
  <1>2. /\ row' = [r \in Rows |-> IF r \in made THEN DeletedRow
                                  ELSE IF r \in old THEN [row[r] EXCEPT !.status = "ACTIVE"]
                                  ELSE row[r]]
        /\ \A r \in made \cup old : Exists(r)
        /\ item' = [c \in Batches |-> [s \in Students |->
                      [item[c][s] EXCEPT !.from = IF @ \in made THEN 0 ELSE @,
                                         !.to = IF c = b THEN 0 ELSE @]]]
        /\ student' = RevertGraduates(items)
        /\ batch' = [batch EXCEPT ![b].status = "ROLLED_BACK"]
    BY DEF RollbackWrites
  <1>3. batch[b].status = "EXECUTED" /\ items = item[b]
    BY DEF BatchInvariant, HeadOK, RollbackWrites
  <1> HIDE DEF made, old
  <1>4. \A r \in Rows :
          /\ r \in made => row'[r].status = "deleted"
          /\ r \notin made => /\ row'[r].student = row[r].student /\ row'[r].by = row[r].by
                              /\ row'[r].section = row[r].section
                              /\ row'[r].status = IF r \in old THEN "ACTIVE" ELSE row[r].status
    BY <1>1, <1>2 DEF Row, DeletedRow, NoRow
  <1>5. \A c \in Batches, s \in Students :
          LET i == item'[c][s] IN
          /\ i.decision = item[c][s].decision
          /\ i.from = IF item[c][s].from \in made THEN 0 ELSE item[c][s].from
          /\ i.to = IF c = b THEN 0 ELSE item[c][s].to
    <2> SUFFICES ASSUME NEW c \in Batches, NEW s \in Students
                 PROVE  LET i == item'[c][s] IN
                        /\ i.decision = item[c][s].decision
                        /\ i.from = IF item[c][s].from \in made THEN 0 ELSE item[c][s].from
                        /\ i.to = IF c = b THEN 0 ELSE item[c][s].to
      OBVIOUS
    <2>1. item[c][s] \in Item
      BY <1>1 DEF Items
    <2> HIDE DEF b
    <2> QED BY <1>2, <2>1 DEF Item
  <1>6. /\ \A c \in Batches \ {b} : batch'[c] = batch[c]
        /\ batch'[b].status = "ROLLED_BACK"
    BY <1>1, <1>2 DEF Batch
  <1>7. \A r \in made : r \in Rows /\ row[r].by = b
    <2> SUFFICES ASSUME NEW r \in made PROVE r \in Rows /\ row[r].by = b
      OBVIOUS
    <2>1. PICK s \in Students : r = item[b][s].to /\ r # 0
      BY <1>3 DEF made
    <2>2. r \in Rows
      BY <2>1, <1>1 DEF Items, Item
    <2> QED BY <2>1, <2>2, <1>1, <1>3 DEF Promises, BatchIsWhole
  <1>8. \A r \in Rows : Exists(r)' => Exists(r) /\ r \notin made
    BY <1>2, <1>4 DEF Exists
  <1>9. PlacesArePupils'
    <2> SUFFICES ASSUME NEW r \in Rows, Exists(r)', row'[r].by # None
                 PROVE  row'[r].student \in Students
      BY DEF PlacesArePupils
    <2> QED BY <1>1, <1>4, <1>8 DEF Promises, PlacesArePupils
  <1>10. BatchIsWhole'
    <2>1. ASSUME NEW c \in Batches, NEW s \in Students
          PROVE  IF batch'[c].status = "EXECUTED" /\ Moves(item'[c][s])
                 THEN LET i == item'[c][s] IN
                      /\ i.to # 0 /\ row'[i.to].status \notin {"absent", "deleted"}
                      /\ row'[i.to].by = c
                      /\ row'[i.to].student = s /\ SessionOf[row'[i.to].section] = batch'[c].to
                 ELSE item'[c][s].to = 0
      <3>1. CASE c = b
        BY <3>1, <1>5, <1>6
      <3>2. CASE c # b
        <4>1. /\ item'[c][s].to = item[c][s].to /\ batch'[c] = batch[c]
              /\ Moves(item'[c][s]) <=> Moves(item[c][s])
              /\ item[c][s].to \in {0} \cup Rows
          BY <3>2, <1>1, <1>5, <1>6 DEF Moves, Items, Item
        <4>2. CASE batch[c].status = "EXECUTED" /\ Moves(item[c][s])
          <5> DEFINE to == item[c][s].to
          <5>1. /\ to # 0 /\ Exists(to) /\ row[to].by = c /\ row[to].student = s
                /\ SessionOf[row[to].section] = batch[c].to
            BY <4>2, <1>1 DEF Promises, BatchIsWhole
          <5>2. to \in Rows /\ to \notin made
            BY <3>2, <4>1, <5>1, <1>7
          <5>3. /\ row'[to].status \notin {"absent", "deleted"} /\ row'[to].by = c
                /\ row'[to].student = s /\ row'[to].section = row[to].section
            BY <5>1, <5>2, <1>4 DEF Exists
          <5> QED BY <4>1, <4>2, <5>1, <5>3
        <4>3. CASE ~(batch[c].status = "EXECUTED" /\ Moves(item[c][s]))
          BY <4>1, <4>3, <1>1 DEF Promises, BatchIsWhole
        <4> QED BY <4>2, <4>3
      <3> QED BY <3>1, <3>2
    <2>2. ASSUME NEW r \in Rows, Exists(r)', row'[r].by # None
          PROVE  item'[row'[r].by][row'[r].student].to = r
      <3>1. /\ Exists(r) /\ r \notin made
            /\ row'[r].by = row[r].by /\ row'[r].student = row[r].student
        BY <2>2, <1>4, <1>8
      <3>2. item[row[r].by][row[r].student].to = r /\ row[r].by \in Batches
            /\ row[r].student \in Students
        BY <2>2, <3>1, <1>1 DEF Promises, BatchIsWhole, PlacesArePupils, Row
      <3>3. row[r].by # b
        BY <3>1, <3>2, <1>3, RowsAreNumbers DEF made
      <3> QED BY <3>1, <3>2, <3>3, <1>5
    <2> QED BY <2>1, <2>2 DEF BatchIsWhole, Exists
  <1>11. NobodyLeftBehind'
    <2>1. ASSUME NEW r \in Rows, row'[r].status \in Closed
          PROVE  \E c \in Batches, s \in Students :
                   /\ batch'[c].status = "EXECUTED" /\ item'[c][s].from = r /\ Closes(item'[c][s])
                   /\ ClosedAs[item'[c][s].decision] = row'[r].status
      <3>1. r \notin made /\ r \notin old /\ row'[r].status = row[r].status
        BY <2>1, <1>4, ClosedValues
      <3>2. PICK c \in Batches, s \in Students :
              /\ batch[c].status = "EXECUTED" /\ item[c][s].from = r /\ Closes(item[c][s])
              /\ ClosedAs[item[c][s].decision] = row[r].status
        BY <2>1, <3>1, <1>1 DEF Promises, NobodyLeftBehind
      <3>3. c # b
        BY <3>1, <3>2, <1>3, RowsAreNumbers DEF old
      <3>4. item'[c][s].from = r /\ item'[c][s].decision = item[c][s].decision
        BY <3>1, <3>2, <1>5
      <3> QED BY <3>1, <3>2, <3>3, <3>4, <1>6 DEF Closes
    <2>2. ASSUME NEW s \in Students, student'[s] = "GRADUATED"
          PROVE  \E c \in Batches : batch'[c].status = "EXECUTED" /\ item'[c][s].decision = "GRADUATE"
      <3>1. student[s] = "GRADUATED" /\ item[b][s].decision # "GRADUATE"
        BY <2>2, <1>2, <1>3 DEF RevertGraduates
      <3>2. PICK c \in Batches : batch[c].status = "EXECUTED" /\ item[c][s].decision = "GRADUATE"
        BY <3>1, <1>1 DEF Promises, NobodyLeftBehind
      <3> QED BY <3>1, <3>2, <1>5, <1>6
    <2> QED BY <2>1, <2>2 DEF NobodyLeftBehind
  <1> QED BY <1>9, <1>10, <1>11 DEF Promises

\* A step on a batch that is not EXECUTED before or after it.
LEMMA DraftsKeepPromises ==
  ASSUME Promises, TypeOK, NEW b \in Batches,
         batch[b].status # "EXECUTED", batch'[b].status # "EXECUTED",
         \A c \in Batches \ {b} : batch'[c] = batch[c] /\ item'[c] = item[c],
         \A s \in Students : item'[b][s].to = 0,
         row' = row, student' = student
  PROVE  Promises'
  <1>1. PlacesArePupils'
    BY DEF Promises, PlacesArePupils, Exists
  <1>2. \A r \in Rows : Exists(r) => row[r].by # b
    BY DraftMadeNothing DEF Promises
  <1>3. BatchIsWhole'
    <2>1. ASSUME NEW c \in Batches, NEW s \in Students
          PROVE  IF batch'[c].status = "EXECUTED" /\ Moves(item'[c][s])
                 THEN LET i == item'[c][s] IN
                      /\ i.to # 0 /\ row'[i.to].status \notin {"absent", "deleted"}
                      /\ row'[i.to].by = c
                      /\ row'[i.to].student = s /\ SessionOf[row'[i.to].section] = batch'[c].to
                 ELSE item'[c][s].to = 0
      <3>1. CASE c = b
        BY <3>1
      <3>2. CASE c # b
        BY <3>2 DEF Promises, BatchIsWhole, Exists
      <3> QED BY <3>1, <3>2
    <2>2. ASSUME NEW r \in Rows, Exists(r)', row'[r].by # None
          PROVE  item'[row'[r].by][row'[r].student].to = r
      <3>1. row[r].by \in Batches \ {b}
        BY <2>2, <1>2 DEF Exists, TypeOK, Typed, Row
      <3> QED BY <2>2, <3>1 DEF Promises, BatchIsWhole, Exists
    <2> QED BY <2>1, <2>2 DEF BatchIsWhole, Exists
  <1>4. NobodyLeftBehind'
    <2>1. \A c \in Batches : batch[c].status = "EXECUTED" => batch'[c] = batch[c] /\ item'[c] = item[c]
      OBVIOUS
    <2> QED BY <2>1 DEF Promises, NobodyLeftBehind
  <1> QED BY <1>1, <1>3, <1>4 DEF Promises

-----------------------------------------------------------------------------
(* The requests on batches after a step.                                    *)

LEMMA OnlyHead ==
  ASSUME BatchInvariant, OneHead, NEW p \in Procs, NEW op \in HeadOps, op \in Ops[p],
         NEW q \in Procs, q # p
  PROVE  req[q].op \notin HeadOps
  BY NothingAsked DEF BatchInvariant, OneHead

LEMMA NotOnABatch == ASSUME NEW q, req'[q].op \notin HeadOps PROVE HeadOK(req[q])'
  BY DEF HeadOK, HeadOps

\* An end of a request that leaves the batches to others, or is the head's.
LEMMA EndsAsked ==
  ASSUME BatchInvariant, OneHead, NEW p \in Procs, Ends(p),
         req[p].op \in HeadOps \/ UNCHANGED <<batch, item>>
  PROVE  \A q \in Procs : req'[q].op \in Ops[q] \cup {"none"} /\ HeadOK(req[q])'
  <1>1. req' = [req EXCEPT ![p] = Idle] /\ req \in [Procs -> Request]
    BY DEF Ends, BatchInvariant, RegisterInvariant, TypeOK, Typed
  <1>2. req'[p].op \in Ops[p] \cup {"none"} /\ HeadOK(req[p])'
    BY <1>1, NothingAsked, NotOnABatch
  <1>3. ASSUME NEW q \in Procs, q # p
        PROVE  req'[q].op \in Ops[q] \cup {"none"} /\ HeadOK(req[q])'
    <2>1. req'[q] = req[q] /\ req[q].op \in Ops[q] \cup {"none"} /\ HeadOK(req[q])
      BY <1>1, <1>3 DEF BatchInvariant
    <2>2. CASE UNCHANGED <<batch, item>>
      BY <2>1, <2>2 DEF HeadOK, TargetOK
    <2>3. CASE req[p].op \in HeadOps
      <3>1. req[p].op \in Ops[p]
        BY <2>3, NothingAsked DEF BatchInvariant
      <3> QED BY <1>3, <2>1, <2>3, <3>1, OnlyHead, NotOnABatch
    <2> QED BY <2>1, <2>2, <2>3
  <1> QED BY <1>2, <1>3

\* A beginning that leaves the batches as they are, or is the head's.
LEMMA BeginsAsked ==
  ASSUME BatchInvariant, OneHead, NEW p \in Procs, NEW new, req' = [req EXCEPT ![p] = new],
         new.op \in Ops[p], new.op \in HeadOps \/ UNCHANGED <<batch, item>>, HeadOK(new)'
  PROVE  \A q \in Procs : req'[q].op \in Ops[q] \cup {"none"} /\ HeadOK(req[q])'
  <1>1. req \in [Procs -> Request]
    BY DEF BatchInvariant, RegisterInvariant, TypeOK, Typed
  <1>2. req'[p] = new
    BY <1>1
  <1>3. req'[p].op \in Ops[p] \cup {"none"} /\ HeadOK(req[p])'
    BY <1>2 DEF HeadOK, TargetOK
  <1>4. ASSUME NEW q \in Procs, q # p
        PROVE  req'[q].op \in Ops[q] \cup {"none"} /\ HeadOK(req[q])'
    <2>1. req'[q] = req[q] /\ req[q].op \in Ops[q] \cup {"none"} /\ HeadOK(req[q])
      BY <1>1, <1>4 DEF BatchInvariant
    <2>2. CASE UNCHANGED <<batch, item>>
      BY <2>1, <2>2 DEF HeadOK, TargetOK
    <2>3. CASE new.op \in HeadOps
      BY <1>4, <2>1, <2>3, OnlyHead, NotOnABatch
    <2> QED BY <2>1, <2>2, <2>3
  <1> QED BY <1>3, <1>4

\* A request that reads a batch and begins.
LEMMA BatchReads ==
  ASSUME BatchInvariant, OneHead, NEW p \in Procs, Reads,
         EditReads(p) \/ ExecuteReads(p) \/ RollbackReads(p) \/ RemoveReads(p)
  PROVE  \A q \in Procs : req'[q].op \in Ops[q] \cup {"none"} /\ HeadOK(req[q])'
  <1>1. batch' = batch /\ item' = item /\ item \in [Batches -> Items]
    BY DEF Reads, BatchInvariant, RegisterInvariant, TypeOK, Typed
  <1>2. \E new : /\ req' = [req EXCEPT ![p] = new] /\ new.op \in Ops[p]
                 /\ HeadOK(new)
    <2>1. CASE EditReads(p)
      <3>1. PICK b \in Batches, s \in Students, d \in Decisions, x \in Targets \cup {None} :
              /\ batch[b].status = "DRAFT"
              /\ Begins(p, "edit", [Idle EXCEPT !.batch = b, !.items =
                   [NoItems EXCEPT ![s] = [item[b][s] EXCEPT !.decision = d, !.target = x]]])
        BY <2>1 DEF EditReads, In
      <3> DEFINE items == [NoItems EXCEPT ![s] = [item[b][s] EXCEPT !.decision = d, !.target = x]]
                 new == [[Idle EXCEPT !.batch = b, !.items = items] EXCEPT !.op = "edit"]
      <3>2. req' = [req EXCEPT ![p] = new] /\ "edit" \in Ops[p]
        BY <3>1 DEF Begins
      <3> HIDE DEF items
      <3>3. new.op = "edit" /\ new.batch = b
        BY DEF Idle
      <3> HIDE DEF new
      <3>4. HeadOK(new)
        BY <3>1, <3>3 DEF HeadOK
      <3> QED BY <3>2, <3>3, <3>4
    <2>2. CASE ExecuteReads(p)
      <3>1. PICK b \in Batches :
              /\ batch[b].status = "DRAFT"
              /\ \A s \in Students : Moves(item[b][s]) => TargetOK(item[b][s], b)
              /\ Begins(p, "execute", [Idle EXCEPT !.batch = b, !.items = item[b]])
        BY <2>2 DEF ExecuteReads
      <3> DEFINE new == [[Idle EXCEPT !.batch = b, !.items = item[b]] EXCEPT !.op = "execute"]
      <3>2. req' = [req EXCEPT ![p] = new] /\ "execute" \in Ops[p]
        BY <3>1 DEF Begins
      <3>3. new.op = "execute" /\ new.batch = b /\ new.items = item[b]
        BY DEF Idle
      <3> HIDE DEF new
      <3>4. HeadOK(new)
        BY <3>1, <3>3 DEF HeadOK
      <3> QED BY <3>2, <3>3, <3>4
    <2>3. CASE RollbackReads(p)
      <3>1. PICK b \in Batches :
              /\ batch[b].status = "EXECUTED"
              /\ Begins(p, "rollback", [Idle EXCEPT !.batch = b, !.items = item[b]])
        BY <2>3 DEF RollbackReads
      <3> DEFINE new == [[Idle EXCEPT !.batch = b, !.items = item[b]] EXCEPT !.op = "rollback"]
      <3>2. req' = [req EXCEPT ![p] = new] /\ "rollback" \in Ops[p]
        BY <3>1 DEF Begins
      <3>3. new.op = "rollback" /\ new.batch = b /\ new.items = item[b]
        BY DEF Idle
      <3> HIDE DEF new
      <3>4. HeadOK(new)
        BY <3>1, <3>3 DEF HeadOK
      <3> QED BY <3>2, <3>3, <3>4
    <2>4. CASE RemoveReads(p)
      <3>1. PICK b \in Batches :
              batch[b].status = "DRAFT" /\ Begins(p, "remove", [Idle EXCEPT !.batch = b])
        BY <2>4 DEF RemoveReads, Removable
      <3> DEFINE new == [[Idle EXCEPT !.batch = b] EXCEPT !.op = "remove"]
      <3>2. req' = [req EXCEPT ![p] = new] /\ "remove" \in Ops[p]
        BY <3>1 DEF Begins
      <3>3. new.op = "remove" /\ new.batch = b
        BY DEF Idle
      <3> HIDE DEF new
      <3>4. HeadOK(new)
        BY <3>1, <3>3 DEF HeadOK
      <3> QED BY <3>2, <3>3, <3>4
    <2> QED BY <2>1, <2>2, <2>3, <2>4
  <1>3. PICK new : req' = [req EXCEPT ![p] = new] /\ new.op \in Ops[p] /\ HeadOK(new)
    BY <1>2
  <1>4. HeadOK(new)'
    BY <1>1, <1>3 DEF HeadOK, TargetOK
  <1> QED BY <1>1, <1>3, <1>4, BeginsAsked

\* A request of the office that begins.
LEMMA OfficeReads ==
  ASSUME BatchInvariant, OneHead, NEW p \in Procs, Reads,
         EnrollReads(p) \/ BulkReads(p) \/ CancelReads(p) \/ TransferReads(p) \/ DependentReads(p)
  PROVE  \A q \in Procs : req'[q].op \in Ops[q] \cup {"none"} /\ HeadOK(req[q])'
  <1>1. \E new : /\ req' = [req EXCEPT ![p] = new] /\ new.op \in Ops[p]
                 /\ new.op \notin HeadOps
    <2>1. ASSUME NEW op \in {"enroll", "bulk"}, NEW S, NEW x,
                 Begins(p, op, [Idle EXCEPT !.pupils = S, !.section = x])
          PROVE  \E new : /\ req' = [req EXCEPT ![p] = new] /\ new.op \in Ops[p]
                          /\ new.op \notin HeadOps
      <3> DEFINE new == [[Idle EXCEPT !.pupils = S, !.section = x] EXCEPT !.op = op]
      <3>1. new.op = op
        BY DEF Idle
      <3>2. req' = [req EXCEPT ![p] = new] /\ op \in Ops[p]
        BY <2>1 DEF Begins
      <3> HIDE DEF new
      <3> QED BY <3>1, <3>2 DEF HeadOps
    <2>2. ASSUME NEW r, NEW op \in {"cancel", "attend", "bill"}, Begins(p, op, [Idle EXCEPT !.row = r])
          PROVE  \E new : /\ req' = [req EXCEPT ![p] = new] /\ new.op \in Ops[p]
                          /\ new.op \notin HeadOps
      <3> DEFINE new == [[Idle EXCEPT !.row = r] EXCEPT !.op = op]
      <3>1. new.op = op
        BY DEF Idle
      <3>2. req' = [req EXCEPT ![p] = new] /\ op \in Ops[p]
        BY <2>2 DEF Begins
      <3> HIDE DEF new
      <3> QED BY <3>1, <3>2 DEF HeadOps
    <2>3. ASSUME NEW r, NEW x, Begins(p, "transfer", [Idle EXCEPT !.row = r, !.section = x])
          PROVE  \E new : /\ req' = [req EXCEPT ![p] = new] /\ new.op \in Ops[p]
                          /\ new.op \notin HeadOps
      <3> DEFINE new == [[Idle EXCEPT !.row = r, !.section = x] EXCEPT !.op = "transfer"]
      <3>1. new.op = "transfer"
        BY DEF Idle
      <3>2. req' = [req EXCEPT ![p] = new] /\ "transfer" \in Ops[p]
        BY <2>3 DEF Begins
      <3> HIDE DEF new
      <3> QED BY <3>1, <3>2 DEF HeadOps
    <2>4. CASE EnrollReads(p)
      BY <2>1, <2>4 DEF EnrollReads
    <2>5. CASE BulkReads(p)
      BY <2>1, <2>5 DEF BulkReads
    <2>6. CASE CancelReads(p)
      BY <2>2, <2>6 DEF CancelReads
    <2>7. CASE TransferReads(p)
      BY <2>3, <2>7 DEF TransferReads
    <2>8. CASE DependentReads(p)
      BY <2>2, <2>8 DEF DependentReads
    <2> QED BY <2>4, <2>5, <2>6, <2>7, <2>8
  <1>2. PICK new : req' = [req EXCEPT ![p] = new] /\ new.op \in Ops[p] /\ new.op \notin HeadOps
    BY <1>1
  <1>3. HeadOK(new)'
    BY <1>2 DEF HeadOK, HeadOps
  <1>4. UNCHANGED <<batch, item>>
    BY DEF Reads
  <1> QED BY <1>2, <1>3, <1>4, BeginsAsked

\* The steps of a request that writes a batch and ends.
LEMMA DraftWrites ==
  ASSUME BatchInvariant, NEW p \in Procs,
         CreateItems(p) \/ EditWrites(p) \/ RemoveDeletes(p)
  PROVE  Promises' /\ Ends(p) /\ req[p].op \in HeadOps
  <1> DEFINE b == req[p].batch
             new == req[p].items
  <1>1. /\ item \in [Batches -> Items] /\ batch \in [Batches -> Batch]
        /\ Promises /\ TypeOK /\ HeadOK(req[p]) /\ RequestOK(req[p], row)
    BY DEF BatchInvariant, RegisterInvariant, TypeOK, Typed
  <1>2. /\ req[p].op \in {"create", "edit", "remove"} /\ Ends(p)
        /\ row' = row /\ student' = student
    BY DEF CreateItems, EditWrites, RemoveDeletes
  <1>3. b \in Batches /\ batch[b].status = "DRAFT" /\ new \in Items
    BY <1>1, <1>2 DEF RequestOK, HeadOK, HeadOps, Request
  <1>4. \A s \in Students : item[b][s].to = 0
    BY <1>1, <1>3, DraftMadeNothing DEF Promises
  <1>5. /\ batch'[b].status # "EXECUTED"
        /\ \A c \in Batches \ {b} : batch'[c] = batch[c] /\ item'[c] = item[c]
        /\ \A s \in Students : item'[b][s].to = 0
    <2>1. CASE CreateItems(p)
      <3>1. item' = [item EXCEPT ![b] = new] /\ batch' = batch /\ req[p].op = "create"
        BY <2>1 DEF CreateItems
      <3>2. \A s \in Students : new[s].to = 0
        BY <1>1, <3>1 DEF HeadOK
      <3> HIDE DEF b, new
      <3> QED BY <1>1, <1>3, <3>1, <3>2
    <2>2. CASE EditWrites(p)
      <3> DEFINE I == [s \in Students |-> IF s \notin In(new) THEN item[b][s]
                         ELSE [item[b][s] EXCEPT !.decision = new[s].decision, !.target = new[s].target]]
      <3>1. item' = [item EXCEPT ![b] = I] /\ batch' = batch
        BY <1>1, <1>3, <2>2 DEF EditWrites
      <3>2. ASSUME NEW s \in Students PROVE I[s].to = 0
        <4>1. item[b][s] \in Item
          BY <1>1, <1>3 DEF Items
        <4> HIDE DEF b, new
        <4> QED BY <1>4, <4>1 DEF Item
      <3> HIDE DEF I, b, new
      <3> QED BY <1>1, <1>3, <3>1, <3>2
    <2>3. CASE RemoveDeletes(p)
      <3>1. item' = [item EXCEPT ![b] = NoItems] /\ batch' = [batch EXCEPT ![b].status = "removed"]
        BY <2>3 DEF RemoveDeletes
      <3>2. \A s \in Students : NoItems[s].to = 0
        BY DEF NoItems, NoItem
      <3>3. batch'[b].status = "removed"
        BY <1>1, <1>3, <3>1 DEF Batch
      <3> HIDE DEF b
      <3> QED BY <1>1, <1>3, <3>1, <3>2, <3>3
    <2> QED BY <2>1, <2>2, <2>3
  <1> HIDE DEF b, new
  <1>6. Promises'
    BY <1>1, <1>2, <1>3, <1>5, DraftsKeepPromises
  <1> QED BY <1>2, <1>6 DEF HeadOps

LEMMA CreateAsked ==
  ASSUME BatchInvariant, OneHead, NEW p \in Procs, CreateBatch(p)
  PROVE  /\ Promises'
         /\ \A q \in Procs : req'[q].op \in Ops[q] \cup {"none"} /\ HeadOK(req[q])'
  <1>1. /\ batch \in [Batches -> Batch] /\ Promises /\ TypeOK
        /\ row' = row /\ student' = student /\ item' = item
    BY DEF BatchInvariant, RegisterInvariant, TypeOK, Typed, CreateBatch
  <1>2. PICK b \in Batches, y \in Promotions, d \in Decisions, x \in Targets \cup {None} :
          /\ batch[b].status = "absent"
          /\ batch' = [batch EXCEPT ![b] = [status |-> "DRAFT", from |-> y[1], to |-> y[2]]]
          /\ Begins(p, "create", [Idle EXCEPT !.batch = b, !.items = DraftItems(Candidates(y[1]), d, x)])
    BY DEF CreateBatch
  <1>3. batch'[b].status = "DRAFT" /\ \A c \in Batches \ {b} : batch'[c] = batch[c]
    BY <1>1, <1>2
  <1>4. \E new : /\ req' = [req EXCEPT ![p] = new] /\ "create" \in Ops[p]
                 /\ new.op = "create" /\ new.batch = b /\ \A s \in Students : new.items[s].to = 0
    <2> DEFINE items == DraftItems(Candidates(y[1]), d, x)
               new == [[Idle EXCEPT !.batch = b, !.items = items] EXCEPT !.op = "create"]
    <2>1. req' = [req EXCEPT ![p] = new] /\ "create" \in Ops[p]
      BY <1>2 DEF Begins
    <2>2. \A s \in Students : items[s].to = 0
      BY DEF DraftItems, NoItem
    <2> HIDE DEF items
    <2>3. new.op = "create" /\ new.batch = b /\ new.items = items
      BY DEF Idle
    <2> HIDE DEF new
    <2> QED BY <2>1, <2>2, <2>3
  <1>5. PICK new : /\ req' = [req EXCEPT ![p] = new] /\ "create" \in Ops[p]
                   /\ new.op = "create" /\ new.batch = b /\ \A s \in Students : new.items[s].to = 0
    BY <1>4
  <1>6. HeadOK(new)'
    BY <1>3, <1>5 DEF HeadOK
  <1>7. \A q \in Procs : req'[q].op \in Ops[q] \cup {"none"} /\ HeadOK(req[q])'
    BY <1>5, <1>6, BeginsAsked DEF HeadOps
  <1>8. \A s \in Students : item'[b][s].to = 0
    BY <1>1, <1>2, DraftMadeNothing DEF Promises
  <1>9. Promises'
    BY <1>1, <1>2, <1>3, <1>8, DraftsKeepPromises
  <1> QED BY <1>7, <1>9

\* What changes neither enrollments, pupils nor batches.
LEMMA StillPromised ==
  ASSUME Promises, UNCHANGED <<row, student, batch, item>>
  PROVE  Promises'
  BY DEF Promises, PlacesArePupils, BatchIsWhole, NobodyLeftBehind, Exists

LEMMA BatchStep ==
  ASSUME OneHead
  PROVE  BatchInvariant /\ [Next]_vars => BatchInvariant'
  <1> SUFFICES ASSUME BatchInvariant, [Next]_vars PROVE BatchInvariant'
    OBVIOUS
  <1> DEFINE Asked == \A q \in Procs : req'[q].op \in Ops[q] \cup {"none"} /\ HeadOK(req[q])'
  <1>1. RegisterInvariant' /\ RegisterInvariant /\ TypeOK /\ Promises
    BY RegisterStep DEF BatchInvariant, RegisterInvariant
  <1>2. CASE UNCHANGED vars
    <2>1. Promises'
      BY <1>1, <1>2, StillPromised DEF vars
    <2>2. Asked
      BY <1>2 DEF vars, BatchInvariant, HeadOK, TargetOK
    <2> QED BY <1>1, <2>1, <2>2 DEF BatchInvariant
  <1>3. ASSUME NEW p \in Procs, EnrollInserts(p) \/ CancelWrites(p) \/ TransferWrites(p)
        PROVE  Promises' /\ Asked
    <2>1. Keeps(row, row')
      BY <1>1, <1>3, EnrollStep, CancelStep, TransferStep
    <2>2. UNCHANGED <<student, batch, item>> /\ Ends(p)
      BY <1>3 DEF EnrollInserts, CancelWrites, TransferWrites
    <2>3. Promises'
      BY <1>1, <2>1, <2>2, OfficeKeepsPromises
    <2>4. Asked
      BY <2>2, EndsAsked
    <2> QED BY <2>3, <2>4
  <1>4. ASSUME NEW p \in Procs, DependentInserts(p) \/ Abandon(p) PROVE Promises' /\ Asked
    <2>1. UNCHANGED <<row, student, batch, item>> /\ Ends(p)
      BY <1>4 DEF DependentInserts, Abandon, Reads
    <2>2. Asked
      BY <2>1, EndsAsked
    <2> QED BY <1>1, <2>1, <2>2, StillPromised
  <1>5. ASSUME NEW p \in Procs, Beginning(p) PROVE Promises' /\ Asked
    <2>1. Reads
      BY <1>5 DEF Beginning, EnrollReads, BulkReads, CancelReads, TransferReads, DependentReads,
                  EditReads, ExecuteReads, RollbackReads, RemoveReads
    <2>2. Promises'
      BY <1>1, <2>1, StillPromised DEF Reads
    <2>3. Asked
      BY <1>5, <2>1, BatchReads, OfficeReads DEF Beginning
    <2> QED BY <2>2, <2>3
  <1>6. ASSUME NEW p \in Procs, CreateBatch(p) PROVE Promises' /\ Asked
    BY <1>6, CreateAsked
  <1>7. ASSUME NEW p \in Procs, CreateItems(p) \/ EditWrites(p) \/ RemoveDeletes(p)
        PROVE  Promises' /\ Asked
    <2>1. Promises' /\ Ends(p) /\ req[p].op \in HeadOps
      BY <1>7, DraftWrites
    <2> QED BY <2>1, EndsAsked
  <1>8. ASSUME NEW p \in Procs, ExecuteWrites(p) \/ RollbackWrites(p) PROVE Promises' /\ Asked
    <2>1. Promises'
      BY <1>8, ExecuteKeepsPromises, RollbackKeepsPromises
    <2>2. Ends(p) /\ req[p].op \in HeadOps
      BY <1>8 DEF ExecuteWrites, RollbackWrites, HeadOps
    <2> QED BY <2>1, <2>2, EndsAsked
  <1>9. CASE Next
    <2>1. Promises' /\ Asked
      <3> HIDE DEF Asked
      <3> QED BY <1>3, <1>4, <1>5, <1>6, <1>7, <1>8, <1>9 DEF Next, Beginning
    <2> QED BY <1>1, <2>1 DEF BatchInvariant
  <1> QED BY <1>2, <1>9

LEMMA InitBatch == Init => BatchInvariant
  <1> SUFFICES ASSUME Init PROVE BatchInvariant
    OBVIOUS
  <1>1. /\ \A r \in Rows : row[r].status = "absent"
        /\ \A s \in Students : student[s] = "ACTIVE"
        /\ \A b \in Batches : /\ batch[b].status = "absent"
                              /\ \A s \in Students : item[b][s].to = 0
    BY DEF Init, NoRow, NoBatch, NoItems, NoItem
  <1>2. Promises
    BY <1>1, ClosedValues DEF Promises, PlacesArePupils, BatchIsWhole, NobodyLeftBehind, Exists
  <1>3. \A p \in Procs : req[p].op = "none" /\ HeadOK(req[p])
    BY DEF Init, Idle, HeadOK
  <1> QED BY InitRegister, <1>2, <1>3 DEF BatchInvariant

\* While one request at a time works on batches (the clerks of the promotion
\* screen), whatever the office does meanwhile and whichever requests fail: an
\* executed batch has made the place of each pupil who moves, and a batch that
\* was not carried out, or was rolled back, has none left.
THEOREM BatchesAreWhole == ASSUME OneHead PROVE Spec => []BatchIsWhole
  <1>1. BatchInvariant => BatchIsWhole
    BY DEF BatchInvariant, Promises
  <1> QED BY InitBatch, BatchStep, <1>1, PTL DEF Spec

\* On the same condition, execute and rollback leave nobody behind: an enrollment
\* is closed, and a pupil graduated, only by a batch that stands executed.
THEOREM UndoneLeavesNobody == ASSUME OneHead PROVE Spec => []NobodyLeftBehind
  <1>1. BatchInvariant => NobodyLeftBehind
    BY DEF BatchInvariant, Promises
  <1> QED BY InitBatch, BatchStep, <1>1, PTL DEF Spec
=============================================================================
