----------------------------- MODULE Circulation -----------------------------
(***************************************************************************)
(* The library's copies, the loans of them and the queue of holds on a     *)
(* title, with the requests that move them.                                *)
(*                                                                         *)
(* A request reads and decides, opens its transaction with a first write   *)
(* whose row stays locked, reads again what the code reads inside the      *)
(* transaction, and commits the rest when the other rows it writes are     *)
(* free.  Updates go by id and check nothing, whatever was read before.    *)
(* A request may end with no effect anywhere before its commit: it is      *)
(* refused for a reason not modelled (a card that is inactive, a fine, an  *)
(* overdue loan), it breaks an index, or PostgreSQL picks it to end a      *)
(* deadlock.                                                               *)
(*                                                                         *)
(* Renewals, fines and due dates write only columns nothing here reads.    *)
(* A definition just above the one it varies (NewestInQueue above          *)
(* NextInQueue) is a plausible mistake; no action uses it.                 *)
(***************************************************************************)
EXTENDS Integers, FiniteSets

CONSTANTS
  Copies,        \* copies that can ever exist (bounds the run)
  TitleOf,       \* TitleOf[c]: the book c is a copy of
  Members,
  Desks,         \* requests in flight at once
  Ops,           \* Ops[d]: what may be asked at d
  MaxBooks,      \* the card's limit
  WriteOffs,     \* what a copy may be marked (LOST and DAMAGED do the same)
  MarkReserved,  \* whether a copy on the hold shelf is ever written off
  MaxLoans,      \* bound: loans ever made
  MaxHolds,      \* bound: holds ever placed
  None

OpNames == {"issue", "return", "mark", "generate", "remove", "reserve", "cancel", "sweep"}

ASSUME CirculationAssumption ==
  /\ TitleOf \in [Copies -> {TitleOf[c] : c \in Copies}]
  /\ None \notin Copies \cup Members \cup {TitleOf[c] : c \in Copies}
  /\ Ops \in [Desks -> SUBSET OpNames]
  /\ {MaxBooks, MaxLoans, MaxHolds} \subseteq Nat
  /\ WriteOffs \subseteq {"LOST", "DAMAGED", "WITHDRAWN"}
  /\ MarkReserved \in BOOLEAN

VARIABLES
  copy,   \* book_copies
  loan,   \* book_issues, in the order made
  hold,   \* book_reservations, in the order of reserved_at
  desk    \* the request in flight at each desk

vars == <<copy, loan, hold, desk>>

Titles == {TitleOf[c] : c \in Copies}
Loans == 1..MaxLoans
Holds == 1..MaxHolds

WriteOff == {"LOST", "DAMAGED", "WITHDRAWN"}
CopyRow == [status : {"absent", "AVAILABLE", "ISSUED", "RESERVED"} \cup WriteOff,
            deleted : BOOLEAN]
LoanRow == [copy : Copies \cup {None}, member : Members \cup {None},
            open : BOOLEAN, override : BOOLEAN]
NoLoan == [copy |-> None, member |-> None, open |-> FALSE, override |-> FALSE]

Live == {"ACTIVE", "READY"}
Ended == {"FULFILLED", "CANCELLED", "EXPIRED"}
HoldRow == [title : Titles \cup {None}, member : Members \cup {None},
            status : {"absent"} \cup Live \cup Ended, held : Copies \cup {None}]
NoHold == [title |-> None, member |-> None, status |-> "absent", held |-> None]

\* What a request has read, and how far it is.
Request == [op : OpNames \cup {"none"}, at : {"idle", "read", "tx"},
            copy : Copies \cup {None}, member : Members \cup {None},
            title : Titles \cup {None}, override : BOOLEAN,
            mark : WriteOff \cup {None}, loan : {0} \cup Loans,
            hold : {0} \cup Holds, next : {0} \cup Holds,
            todo : SUBSET (Holds \X Copies)]
Idle == [op |-> "none", at |-> "idle", copy |-> None, member |-> None,
         title |-> None, override |-> FALSE, mark |-> None, loan |-> 0,
         hold |-> 0, next |-> 0, todo |-> {}]

-----------------------------------------------------------------------------
(* What is read. *)

Found(c) == copy[c].status # "absent" /\ ~copy[c].deleted

LoansOf(c) == {l \in Loans : loan[l].copy = c}
OpenLoans(c) == {l \in LoansOf(c) : loan[l].open}
Borrowed(m) == {l \in Loans : loan[l].member = m /\ loan[l].open}

OneOf(S) == IF S = {} THEN 0 ELSE CHOOSE x \in S : TRUE

\* findHeldCopy
HeldForWaiting(c) ==
  OneOf({h \in Holds : hold[h].status = "ACTIVE" /\ hold[h].held = c})
HeldFor(c) == OneOf({h \in Holds : hold[h].status = "READY" /\ hold[h].held = c})

\* queueFor, and the first who still waits, 0 when nobody does; h, which the
\* caller has just ended in its transaction, is no longer in the queue.
Waiting(t, h) == {g \in Holds \ {h} : hold[g].title = t /\ hold[g].status = "ACTIVE"}
NewestInQueue(n, t, h) ==
  IF Waiting(t, h) = {} THEN n = 0
  ELSE n \in Waiting(t, h) /\ \A g \in Waiting(t, h) : g <= n
NextInQueue(n, t, h) ==
  IF Waiting(t, h) = {} THEN n = 0
  ELSE n \in Waiting(t, h) /\ \A g \in Waiting(t, h) : n <= g

\* canIssue: the copy's own refusals stand, the others yield to an override.
InCirculation(c) == copy[c].status \in {"AVAILABLE", "RESERVED"}
KeptFor(c, m) ==
  copy[c].status = "RESERVED" => HeldFor(c) # 0 /\ hold[HeldFor(c)].member = m
AtLimitOffByOne(m) == Cardinality(Borrowed(m)) > MaxBooks
AtLimit(m) == Cardinality(Borrowed(m)) >= MaxBooks
MayBorrow(c, m, override) ==
  /\ Found(c)
  /\ InCirculation(c)
  /\ override \/ (KeptFor(c, m) /\ ~AtLimit(m))

-----------------------------------------------------------------------------
(* Requests, and the rows their transactions keep locked. *)

RowsOf(d) ==
  CASE desk[d].at # "tx" -> {}
    [] desk[d].op \in {"issue", "mark"} -> {<<"copy", desk[d].copy>>}
    [] desk[d].op = "return" -> {<<"loan", desk[d].loan>>}
    [] OTHER -> {<<"hold", desk[d].hold>>}

Unlocked(d, row) == \A e \in Desks \ {d} : row \notin RowsOf(e)

Asks(d, op) == desk[d] = Idle /\ op \in Ops[d]
Does(d, op, at) == desk[d].op = op /\ desk[d].at = at

Becomes(d, request) == desk' = [desk EXCEPT ![d] = request]
Ends(d) == Becomes(d, Idle)

Init ==
  /\ copy \in [Copies -> [status : {"absent", "AVAILABLE"}, deleted : {FALSE}]]
  /\ loan = [l \in Loans |-> NoLoan]
  /\ hold = [h \in Holds |-> NoHold]
  /\ desk = [d \in Desks |-> Idle]

-----------------------------------------------------------------------------
(* Writes. *)

Shelved(c, status) == [copy EXCEPT ![c].status = status]
Closed(l) == [loan EXCEPT ![l].open = FALSE]

\* uq_book_reservations_held_copy
HeldOnlyBy(G, c) == \A g \in Holds \ G : ~(hold[g].status = "READY" /\ hold[g].held = c)
MadeReady(row, c) == [row EXCEPT !.status = "READY", !.held = c]
EndedAsHeld(row, status) == [row EXCEPT !.status = status]
EndedAs(row, status) == [row EXCEPT !.status = status, !.held = None]

-----------------------------------------------------------------------------
(* The circulation desk. *)

\* issue: the verdict; then the loan and the copy; then the hold on the copy.
IssueVerdict(d) ==
  /\ Asks(d, "issue")
  /\ \E c \in Copies, m \in Members, o \in BOOLEAN :
       /\ MayBorrow(c, m, o)
       /\ Becomes(d, [Idle EXCEPT !.op = "issue", !.at = "read", !.copy = c,
                                  !.member = m, !.override = o])
  /\ UNCHANGED <<copy, loan, hold>>

\* uq_book_issues_open_copy refuses a second open loan of the copy.
IssueLends(d) ==
  /\ Does(d, "issue", "read")
  /\ Unlocked(d, <<"copy", desk[d].copy>>)
  /\ OpenLoans(desk[d].copy) = {}
  /\ Becomes(d, [desk[d] EXCEPT !.at = "tx", !.next = HeldFor(desk[d].copy)])
  /\ UNCHANGED <<copy, loan, hold>>

IssueCommits(d) ==
  LET c == desk[d].copy  m == desk[d].member  h == desk[d].next IN
  /\ Does(d, "issue", "tx")
  /\ h # 0 => Unlocked(d, <<"hold", h>>)
  /\ \E l \in Loans :
       /\ loan[l] = NoLoan /\ \A k \in 1..(l - 1) : loan[k] # NoLoan
       /\ loan' = [loan EXCEPT ![l] = [copy |-> c, member |-> m, open |-> TRUE,
                                       override |-> desk[d].override]]
  /\ copy' = Shelved(c, "ISSUED")
  /\ hold' = [g \in Holds |->
                IF g # h THEN hold[g]
                ELSE EndedAs(hold[g], IF hold[g].member = m THEN "FULFILLED"
                                                            ELSE "CANCELLED")]
  /\ Ends(d)

\* return_: the open loan is looked up, then closed by id; the copy goes to
\* the head of the queue or to the shelf.
ReturnableAgain(l) == loan[l] # NoLoan
Returnable(l) == loan[l].open

ReturnFinds(d) ==
  /\ Asks(d, "return")
  /\ \E l \in Loans :
       /\ Returnable(l)
       /\ Becomes(d, [Idle EXCEPT !.op = "return", !.at = "read", !.loan = l,
                                  !.copy = loan[l].copy])
  /\ UNCHANGED <<copy, loan, hold>>

ReturnLocks(d) ==
  /\ Does(d, "return", "read")
  /\ Unlocked(d, <<"loan", desk[d].loan>>)
  /\ \E n \in {0} \cup Holds :
       /\ NextInQueue(n, TitleOf[desk[d].copy], 0)
       /\ Becomes(d, [desk[d] EXCEPT !.at = "tx", !.next = n])
  /\ UNCHANGED <<copy, loan, hold>>

ReturnCommits(d) ==
  LET c == desk[d].copy  h == desk[d].next IN
  /\ Does(d, "return", "tx")
  /\ Unlocked(d, <<"copy", c>>)
  /\ h # 0 => Unlocked(d, <<"hold", h>>) /\ HeldOnlyBy({h}, c)
  /\ loan' = Closed(desk[d].loan)
  /\ copy' = Shelved(c, IF h = 0 THEN "AVAILABLE" ELSE "RESERVED")
  /\ hold' = [g \in Holds |-> IF g = h THEN MadeReady(hold[g], c) ELSE hold[g]]
  /\ Ends(d)

-----------------------------------------------------------------------------
(* The copies. *)

Generate(d) ==
  /\ Asks(d, "generate")
  /\ \E c \in Copies :
       /\ copy[c].status = "absent"
       /\ copy' = Shelved(c, "AVAILABLE")
  /\ UNCHANGED <<loan, hold, desk>>

\* mark: the copy is written off, and the loan open by then is closed with it.
MarkReads(d) ==
  /\ Asks(d, "mark")
  /\ \E c \in Copies, s \in WriteOffs :
       /\ Found(c)
       /\ copy[c].status # s
       /\ ~(s = "WITHDRAWN" /\ copy[c].status = "ISSUED")
       /\ copy[c].status = "RESERVED" => MarkReserved
       /\ Becomes(d, [Idle EXCEPT !.op = "mark", !.at = "read", !.copy = c, !.mark = s])
  /\ UNCHANGED <<copy, loan, hold>>

MarkLocks(d) ==
  /\ Does(d, "mark", "read")
  /\ Unlocked(d, <<"copy", desk[d].copy>>)
  /\ Becomes(d, [desk[d] EXCEPT !.at = "tx", !.loan = OneOf(OpenLoans(desk[d].copy))])
  /\ UNCHANGED <<copy, loan, hold>>

MarkCommits(d) ==
  LET l == desk[d].loan IN
  /\ Does(d, "mark", "tx")
  /\ l # 0 => Unlocked(d, <<"loan", l>>)
  /\ copy' = Shelved(desk[d].copy, desk[d].mark)
  /\ loan' = IF l = 0 THEN loan ELSE Closed(l)
  /\ Ends(d)
  /\ UNCHANGED hold

\* remove: only a copy no loan was ever made of, as far as the count can see.
RemoveCounts(d) ==
  /\ Asks(d, "remove")
  /\ \E c \in Copies :
       /\ Found(c)
       /\ LoansOf(c) = {}
       /\ Becomes(d, [Idle EXCEPT !.op = "remove", !.at = "read", !.copy = c])
  /\ UNCHANGED <<copy, loan, hold>>

RemoveDeletes(d) ==
  /\ Does(d, "remove", "read")
  /\ Unlocked(d, <<"copy", desk[d].copy>>)
  /\ copy' = [copy EXCEPT ![desk[d].copy].deleted = TRUE]
  /\ Ends(d)
  /\ UNCHANGED <<loan, hold>>

-----------------------------------------------------------------------------
(* The queue. *)

HasHold(t, m) == \E h \in Holds :
  hold[h].title = t /\ hold[h].member = m /\ hold[h].status \in Live
OnTheShelf(t) == \E c \in Copies :
  TitleOf[c] = t /\ Found(c) /\ copy[c].status = "AVAILABLE"

\* create: refused while a copy is on the shelf.
ReserveReads(d) ==
  /\ Asks(d, "reserve")
  /\ \E t \in Titles, m \in Members :
       /\ ~HasHold(t, m)
       /\ ~OnTheShelf(t)
       /\ Becomes(d, [Idle EXCEPT !.op = "reserve", !.at = "read", !.title = t,
                                  !.member = m])
  /\ UNCHANGED <<copy, loan, hold>>

\* uq_book_reservations_live refuses a second live hold.
ReserveInserts(d) ==
  /\ Does(d, "reserve", "read")
  /\ ~HasHold(desk[d].title, desk[d].member)
  /\ \E h \in Holds :
       /\ hold[h].status = "absent" /\ \A g \in 1..(h - 1) : hold[g].status # "absent"
       /\ hold' = [hold EXCEPT ![h] = [title |-> desk[d].title, member |-> desk[d].member,
                                       status |-> "ACTIVE", held |-> None]]
  /\ Ends(d)
  /\ UNCHANGED <<copy, loan>>

CancelReads(d) ==
  /\ Asks(d, "cancel")
  /\ \E h \in Holds :
       /\ hold[h].status \in Live
       /\ Becomes(d, [Idle EXCEPT !.op = "cancel", !.at = "read", !.hold = h,
                                  !.copy = hold[h].held])
  /\ UNCHANGED <<copy, loan, hold>>

\* expireLapsed: the list is read once; which holds have lapsed is time's
\* choice.
SweepReads(d) ==
  /\ Asks(d, "sweep")
  /\ \E S \in SUBSET {h \in Holds : hold[h].status = "READY"} :
       /\ S # {}
       /\ Becomes(d, [Idle EXCEPT !.op = "sweep", !.at = "read",
                                  !.todo = {<<h, hold[h].held>> : h \in S}])
  /\ UNCHANGED <<copy, loan, hold>>

\* The hold is ended by id, and the queue read, if a copy was held when the
\* request began.
Ending(d, h, c) ==
  /\ Unlocked(d, <<"hold", h>>)
  /\ \E n \in {0} \cup Holds :
       /\ IF c = None THEN n = 0 ELSE NextInQueue(n, TitleOf[c], h)
       /\ Becomes(d, [desk[d] EXCEPT !.at = "tx", !.hold = h, !.copy = c, !.next = n])
  /\ UNCHANGED <<copy, loan, hold>>

CancelLocks(d) == Does(d, "cancel", "read") /\ Ending(d, desk[d].hold, desk[d].copy)
SweepLocks(d) ==
  /\ Does(d, "sweep", "read")
  /\ \E lapsed \in desk[d].todo : Ending(d, lapsed[1], lapsed[2])

\* releaseHeldCopy: the next in the queue gets it, and its status is left
\* alone; with nobody waiting it goes back to the shelf, whatever it was.
EndHold(d, status) ==
  LET h == desk[d].hold  c == desk[d].copy  n == desk[d].next IN
  /\ desk[d].at = "tx"
  /\ n # 0 => Unlocked(d, <<"hold", n>>) /\ HeldOnlyBy({n, h}, c)
  /\ c # None /\ n = 0 => Unlocked(d, <<"copy", c>>)
  /\ hold' = [g \in Holds |-> IF g = h THEN EndedAs(hold[g], status)
                              ELSE IF g = n THEN MadeReady(hold[g], c) ELSE hold[g]]
  /\ copy' = IF c # None /\ n = 0 THEN Shelved(c, "AVAILABLE") ELSE copy
  /\ UNCHANGED loan

CancelCommits(d) == desk[d].op = "cancel" /\ EndHold(d, "CANCELLED") /\ Ends(d)
SweepCommits(d) ==
  LET left == {lapsed \in desk[d].todo : lapsed[1] # desk[d].hold} IN
  /\ desk[d].op = "sweep"
  /\ EndHold(d, "EXPIRED")
  /\ Becomes(d, IF left = {} THEN Idle
                ELSE [Idle EXCEPT !.op = "sweep", !.at = "read", !.todo = left])

-----------------------------------------------------------------------------
\* Refused, rolled back or abandoned; of a sweep, the rest of its list too.
Abandon(d) ==
  /\ desk[d] # Idle
  /\ Ends(d)
  /\ UNCHANGED <<copy, loan, hold>>

Next == \E d \in Desks :
  \/ IssueVerdict(d) \/ IssueLends(d) \/ IssueCommits(d)
  \/ ReturnFinds(d) \/ ReturnLocks(d) \/ ReturnCommits(d)
  \/ Generate(d) \/ MarkReads(d) \/ MarkLocks(d) \/ MarkCommits(d)
  \/ RemoveCounts(d) \/ RemoveDeletes(d)
  \/ ReserveReads(d) \/ ReserveInserts(d)
  \/ CancelReads(d) \/ CancelLocks(d) \/ CancelCommits(d)
  \/ SweepReads(d) \/ SweepLocks(d) \/ SweepCommits(d)
  \/ Abandon(d)

Spec == Init /\ [][Next]_vars

-----------------------------------------------------------------------------
(* Properties. *)

\* Rows have their types; a hold keeps a copy exactly while it is READY
\* (chk_book_reservations_evidence, and held_copy_id is cleared by every
\* ending).
TypeOK ==
  /\ copy \in [Copies -> CopyRow]
  /\ loan \in [Loans -> LoanRow]
  /\ hold \in [Holds -> HoldRow]
  /\ desk \in [Desks -> Request]
  /\ \A h \in Holds : hold[h].held # None <=> hold[h].status = "READY"

\* No copy is lent to two at once, at any number of desks
\* (uq_book_issues_open_copy).
OneOpenLoan ==
  \A k, l \in Loans :
    loan[k].open /\ loan[l].open /\ loan[k].copy = loan[l].copy => k = l

\* A copy is ISSUED exactly while one loan of it is open: no book nobody can
\* return, none the shelf will lend twice (circulation.service.ts:77-80).
ShelfMatchesLoans ==
  /\ OneOpenLoan
  /\ \A c \in Copies : copy[c].status = "ISSUED" <=> OpenLoans(c) # {}

\* Whoever is told their book is ready finds it on the hold shelf: no other
\* loan, release or return has given the copy away.
ReadyHoldHasItsCopy ==
  \A h \in Holds : hold[h].status = "READY" => copy[hold[h].held].status = "RESERVED"

\* A copy is RESERVED exactly while a READY hold points at it
\* (reservations.service.ts:26-27).
ReservedIsHeld ==
  \A c \in Copies : copy[c].status = "RESERVED" <=> HeldFor(c) # 0

\* Nobody is served before a member who has waited longer for the title,
\* whichever request frees the copy.
InTurn ==
  \A h \in Holds :
    hold[h].status # "READY" /\ hold'[h].status = "READY" =>
      \A g \in 1..(h - 1) : hold[g].title = hold[h].title => hold[g].status # "ACTIVE"
QueueInOrder == [][InTurn]_vars

\* Without an override nobody holds more books than the card allows.
LoansWithinLimit ==
  \A m \in Members : Cardinality({l \in Borrowed(m) : ~loan[l].override}) <= MaxBooks

=============================================================================
