------------------------- MODULE Circulation_proofs -------------------------
(***************************************************************************)
(* That the queue of a title is served in order and no copy is lent twice, *)
(* whatever the requests in flight and whichever handlers overlap; and that *)
(* the shelf, the loans and the queue agree while one counter takes books  *)
(* in and one gives them out.                                              *)
(*                                                                         *)
(* A request picks the head of the queue when its transaction opens and    *)
(* makes that hold READY later.  The argument is that the pick does not go *)
(* stale: holds get their place when they are inserted, in the order of    *)
(* reserved_at, and one that no longer waits never waits again; so nobody  *)
(* can come to wait ahead of the head once it is picked.                   *)
(*                                                                         *)
(* The status of a copy is written by id, whatever it has become since it  *)
(* was read.  With a counter for each direction nothing relevant has: who  *)
(* takes books in touches a copy only while it is lent, or written off, and *)
(* who gives them out only while it is not; a copy on the hold shelf is the *)
(* second counter's alone.                                                 *)
(***************************************************************************)
EXTENDS Circulation, FiniteSetTheorems, TLAPS

\* Of a table H of holds.
Placed(H, h) == H[h].status # "absent"
Past(H, h) == H[h].status \notin {"absent", "ACTIVE"}

\* Places are given out in order.
InOrder(H) == \A g, h \in Holds : g < h /\ Placed(H, h) => Placed(H, g)

\* What no step undoes.
Evolves(H, K) ==
  \A h \in Holds :
    /\ Placed(H, h) => Placed(K, h) /\ K[h].title = H[h].title
    /\ Past(H, h) => Past(K, h)

\* What a request has read is still good for what it does with it.
EndsAHold(r) == r.op = "cancel" \/ (r.op = "sweep" /\ r.at = "tx")
Picks(r) == r.op \in {"return", "cancel", "sweep"} /\ r.next # 0

RequestOK(r, H) ==
  /\ r \in Request
  /\ r.op \in {"issue", "return", "mark", "remove"} => r.copy \in Copies
  /\ r.op \in {"issue", "reserve"} => r.member \in Members
  /\ r.op = "reserve" => r.title \in Titles
  /\ r.op = "mark" => r.mark \in WriteOff
  /\ r.op = "return" => r.loan \in Loans
  /\ EndsAHold(r) => r.hold \in Holds /\ Placed(H, r.hold) /\ (r.copy # None => Past(H, r.hold))
  /\ \A lapsed \in r.todo : Past(H, lapsed[1])
  /\ r.next # 0 => Placed(H, r.next)
  /\ Picks(r) =>
       /\ r.copy \in Copies
       /\ H[r.next].title = TitleOf[r.copy]
       /\ \A g \in 1..(r.next - 1) : H[g].title = H[r.next].title => Past(H, g)

LoansTaken == \A l \in Loans : loan[l].open => loan[l].copy \in Copies

QueueInvariant ==
  /\ TypeOK
  /\ LoansTaken
  /\ InOrder(hold)
  /\ \A d \in Desks : RequestOK(desk[d], hold)

-----------------------------------------------------------------------------
LEMMA HoldsAreNumbers == Holds \subseteq Nat \ {0} /\ Loans \subseteq Nat \ {0}
  BY CirculationAssumption DEF Holds, Loans

LEMMA NoneIsNobody ==
  /\ None \notin Copies /\ None \notin Members /\ None \notin Titles
  /\ \A c \in Copies : TitleOf[c] \in Titles
  BY CirculationAssumption DEF Titles

LEMMA IdleOK == ASSUME NEW H PROVE RequestOK(Idle, H)
  BY DEF Idle, RequestOK, Request, OpNames, EndsAHold, Picks

LEMMA RequestStays ==
  ASSUME NEW r, NEW H, NEW K, RequestOK(r, H), Evolves(H, K), InOrder(H)
  PROVE  RequestOK(r, K)
  <1>1. EndsAHold(r) => r.hold \in Holds /\ Placed(K, r.hold) /\ (r.copy # None => Past(K, r.hold))
    BY DEF RequestOK, Evolves
  <1>2. \A lapsed \in r.todo : Past(K, lapsed[1])
    BY DEF RequestOK, Evolves, Request
  <1>3. r.next # 0 => r.next \in Holds /\ Placed(K, r.next) /\ K[r.next].title = H[r.next].title
    BY DEF RequestOK, Evolves, Request
  <1>4. ASSUME Picks(r), NEW g \in 1..(r.next - 1), K[g].title = K[r.next].title
        PROVE  Past(K, g)
    <2>1. r.next \in Holds /\ Placed(H, r.next)
      BY <1>4, <1>3 DEF RequestOK, Picks
    <2>2. g \in Holds /\ g < r.next
      BY <1>4, <2>1, CirculationAssumption DEF Holds
    <2>3. Placed(H, g)
      BY <2>1, <2>2 DEF InOrder
    <2>4. H[g].title = H[r.next].title
      BY <1>3, <1>4, <2>1, <2>2, <2>3 DEF Evolves
    <2>5. Past(H, g)
      BY <1>4, <2>4 DEF RequestOK
    <2> QED
      BY <2>2, <2>5 DEF Evolves
  <1>5. Picks(r) => K[r.next].title = TitleOf[r.copy]
    BY <1>3 DEF RequestOK, Picks
  <1> QED
    BY <1>1, <1>2, <1>3, <1>4, <1>5 DEF RequestOK

LEMMA SameEvolves == ASSUME NEW H PROVE Evolves(H, H)
  BY DEF Evolves

\* A step of one request: what is left to show is about its record and the
\* tables.
LEMMA StepPreserves ==
  ASSUME QueueInvariant, NEW d \in Desks, NEW r, Becomes(d, r),
         RequestOK(r, hold'), Evolves(hold, hold'), InOrder(hold'),
         copy' \in [Copies -> CopyRow], loan' \in [Loans -> LoanRow],
         hold' \in [Holds -> HoldRow],
         \A h \in Holds : hold'[h].held # None <=> hold'[h].status = "READY",
         LoansTaken'
  PROVE  QueueInvariant'
  <1>1. desk \in [Desks -> Request] /\ r \in Request /\ desk' = [desk EXCEPT ![d] = r]
    BY DEF QueueInvariant, TypeOK, RequestOK, Becomes
  <1>2. desk' \in [Desks -> Request]
    BY <1>1
  <1>3. TypeOK'
    BY <1>2 DEF TypeOK
  <1>4. ASSUME NEW e \in Desks PROVE RequestOK(desk'[e], hold')
    <2>1. CASE e = d
      BY <1>1, <2>1
    <2>2. CASE e # d
      <3>1. desk'[e] = desk[e]
        BY <1>1, <2>2
      <3>2. RequestOK(desk[e], hold) /\ InOrder(hold)
        BY DEF QueueInvariant
      <3> QED
        BY <3>1, <3>2, RequestStays
    <2> QED
      BY <2>1, <2>2
  <1> QED
    BY <1>3, <1>4 DEF QueueInvariant

LEMMA ReadPreserves ==
  ASSUME QueueInvariant, NEW d \in Desks, NEW r, Becomes(d, r),
         RequestOK(r, hold), UNCHANGED <<copy, loan, hold>>
  PROVE  QueueInvariant' /\ hold' = hold
  <1>1. Evolves(hold, hold') /\ RequestOK(r, hold')
    BY SameEvolves
  <1>2. LoansTaken' /\ InOrder(hold')
    BY DEF QueueInvariant, LoansTaken
  <1>3. /\ copy' \in [Copies -> CopyRow] /\ loan' \in [Loans -> LoanRow]
        /\ hold' \in [Holds -> HoldRow]
        /\ \A h \in Holds : hold'[h].held # None <=> hold'[h].status = "READY"
    BY DEF QueueInvariant, TypeOK
  <1> QED
    BY <1>1, <1>2, <1>3, StepPreserves

-----------------------------------------------------------------------------
(* Reads: what they put in the record is good. *)

LEMMA HeldForIsReady ==
  ASSUME NEW c
  PROVE  HeldFor(c) = 0 \/ (HeldFor(c) \in Holds /\ Placed(hold, HeldFor(c)))
  BY DEF HeldFor, OneOf, Placed

LEMMA PickIsFirst ==
  ASSUME QueueInvariant, NEW c \in Copies, NEW h, NEW n \in {0} \cup Holds,
         NextInQueue(n, TitleOf[c], h), h \in Holds => Past(hold, h), n # 0
  PROVE  /\ n \in Holds /\ Placed(hold, n) /\ hold[n].title = TitleOf[c]
         /\ \A g \in 1..(n - 1) : hold[g].title = hold[n].title => Past(hold, g)
  <1>1. n \in Holds /\ 0 \notin Holds
    BY HoldsAreNumbers
  <1>2. n \in Waiting(TitleOf[c], h) /\ \A g \in Waiting(TitleOf[c], h) : n <= g
    BY <1>1 DEF NextInQueue
  <1>3. Placed(hold, n) /\ hold[n].title = TitleOf[c]
    BY <1>2 DEF Waiting, Placed
  <1>4. ASSUME NEW g \in 1..(n - 1), hold[g].title = hold[n].title
        PROVE  Past(hold, g)
    <2>1. g \in Holds /\ g < n /\ ~(n <= g)
      BY <1>1, CirculationAssumption DEF Holds
    <2>2. Placed(hold, g)
      BY <1>1, <1>3, <2>1 DEF QueueInvariant, InOrder
    <2>3. CASE g = h
      BY <2>1, <2>3
    <2>4. CASE g # h
      <3>1. g \notin Waiting(TitleOf[c], h)
        BY <1>2, <2>1
      <3> QED
        BY <1>3, <1>4, <2>1, <2>2, <2>4, <3>1 DEF Waiting, Past, Placed
    <2> QED
      BY <2>3, <2>4
  <1> QED
    BY <1>1, <1>3, <1>4

LEMMA IssueReads ==
  ASSUME QueueInvariant, NEW d \in Desks, IssueVerdict(d) \/ IssueLends(d)
  PROVE  QueueInvariant' /\ hold' = hold
  <1>1. CASE IssueVerdict(d)
    <2>1. PICK c \in Copies, m \in Members, o \in BOOLEAN :
            Becomes(d, [Idle EXCEPT !.op = "issue", !.at = "read", !.copy = c,
                                    !.member = m, !.override = o])
      BY <1>1 DEF IssueVerdict
    <2> DEFINE r == [Idle EXCEPT !.op = "issue", !.at = "read", !.copy = c,
                                 !.member = m, !.override = o]
    <2>2. RequestOK(r, hold)
      BY DEF Idle, RequestOK, Request, OpNames, EndsAHold, Picks
    <2> HIDE DEF r
    <2> QED
      BY <1>1, <2>1, <2>2, ReadPreserves DEF IssueVerdict, r
  <1>2. CASE IssueLends(d)
    <2>1. PICK n : n = HeldFor(desk[d].copy)
      OBVIOUS
    <2>2. PICK q : q = desk[d]
      OBVIOUS
    <2>3. PICK r : r = [q EXCEPT !.at = "tx", !.next = n]
      OBVIOUS
    <2>4. RequestOK(q, hold) /\ q.op = "issue"
      BY <1>2, <2>2 DEF IssueLends, Does, QueueInvariant
    <2>5. n = 0 \/ (n \in Holds /\ Placed(hold, n))
      BY <2>1, HeldForIsReady
    <2>6. q \in Request /\ r \in Request /\ r.op = "issue" /\ r.next = n
      BY <2>3, <2>4, <2>5 DEF RequestOK, Request
    <2>7. RequestOK(r, hold)
      BY <2>3, <2>4, <2>5, <2>6 DEF RequestOK, EndsAHold, Picks, Request
    <2> QED
      BY <1>2, <2>1, <2>2, <2>3, <2>7, ReadPreserves DEF IssueLends
  <1> QED
    BY <1>1, <1>2

LEMMA ReturnReads ==
  ASSUME QueueInvariant, NEW d \in Desks, ReturnFinds(d) \/ ReturnLocks(d)
  PROVE  QueueInvariant' /\ hold' = hold
  <1>1. CASE ReturnFinds(d)
    <2>1. PICK l \in Loans :
            /\ loan[l].open
            /\ Becomes(d, [Idle EXCEPT !.op = "return", !.at = "read", !.loan = l,
                                       !.copy = loan[l].copy])
      BY <1>1 DEF ReturnFinds, Returnable
    <2>2. PICK c \in Copies : c = loan[l].copy
      BY <2>1 DEF QueueInvariant, LoansTaken
    <2> DEFINE r == [Idle EXCEPT !.op = "return", !.at = "read", !.loan = l, !.copy = c]
    <2>3. RequestOK(r, hold)
      BY DEF Idle, RequestOK, Request, OpNames, EndsAHold, Picks
    <2>4. Becomes(d, r)
      BY <2>1, <2>2
    <2> HIDE DEF r
    <2> QED
      BY <1>1, <2>3, <2>4, ReadPreserves DEF ReturnFinds, r
  <1>2. CASE ReturnLocks(d)
    <2>1. PICK n \in {0} \cup Holds :
            /\ NextInQueue(n, TitleOf[desk[d].copy], 0)
            /\ Becomes(d, [desk[d] EXCEPT !.at = "tx", !.next = n])
      BY <1>2 DEF ReturnLocks
    <2>2. PICK q : q = desk[d]
      OBVIOUS
    <2>3. PICK r : r = [q EXCEPT !.at = "tx", !.next = n]
      OBVIOUS
    <2>4. RequestOK(q, hold) /\ q.op = "return" /\ q.copy \in Copies
      BY <1>2, <2>2 DEF ReturnLocks, Does, QueueInvariant, RequestOK
    <2>5. n # 0 => /\ Placed(hold, n) /\ hold[n].title = TitleOf[q.copy]
                   /\ \A g \in 1..(n - 1) : hold[g].title = hold[n].title => Past(hold, g)
      <3> SUFFICES ASSUME n # 0
                   PROVE  /\ Placed(hold, n) /\ hold[n].title = TitleOf[q.copy]
                          /\ \A g \in 1..(n - 1) : hold[g].title = hold[n].title => Past(hold, g)
        OBVIOUS
      <3>1. NextInQueue(n, TitleOf[q.copy], 0) /\ 0 \notin Holds
        BY <2>1, <2>2, HoldsAreNumbers
      <3> QED
        BY <2>4, <3>1, PickIsFirst
    <2>6. /\ r \in Request /\ r.op = "return" /\ r.next = n
          /\ r.copy = q.copy /\ r.loan = q.loan /\ r.todo = q.todo
      BY <2>3, <2>4 DEF RequestOK, Request
    <2>7. RequestOK(r, hold)
      BY <2>4, <2>5, <2>6 DEF RequestOK, EndsAHold, Picks
    <2> QED
      BY <1>2, <2>1, <2>2, <2>3, <2>7, ReadPreserves DEF ReturnLocks
  <1> QED
    BY <1>1, <1>2

LEMMA MarkAndRemoveRead ==
  ASSUME QueueInvariant, NEW d \in Desks, MarkReads(d) \/ MarkLocks(d) \/ RemoveCounts(d)
  PROVE  QueueInvariant' /\ hold' = hold
  <1>1. CASE MarkReads(d)
    <2>1. PICK c \in Copies, s \in WriteOffs :
            Becomes(d, [Idle EXCEPT !.op = "mark", !.at = "read", !.copy = c, !.mark = s])
      BY <1>1 DEF MarkReads
    <2> DEFINE r == [Idle EXCEPT !.op = "mark", !.at = "read", !.copy = c, !.mark = s]
    <2>2. s \in WriteOff
      BY CirculationAssumption DEF WriteOff
    <2>3. RequestOK(r, hold)
      BY <2>2 DEF Idle, RequestOK, Request, OpNames, EndsAHold, Picks
    <2> HIDE DEF r
    <2> QED
      BY <1>1, <2>1, <2>3, ReadPreserves DEF MarkReads, r
  <1>2. CASE MarkLocks(d)
    <2>1. PICK l : l = OneOf(OpenLoans(desk[d].copy))
      OBVIOUS
    <2>2. PICK q : q = desk[d]
      OBVIOUS
    <2>3. PICK r : r = [q EXCEPT !.at = "tx", !.loan = l]
      OBVIOUS
    <2>4. RequestOK(q, hold) /\ q.op = "mark"
      BY <1>2, <2>2 DEF MarkLocks, Does, QueueInvariant
    <2>5. l \in {0} \cup Loans
      BY <2>1 DEF OneOf, OpenLoans, LoansOf
    <2>6. /\ r \in Request /\ r.op = "mark" /\ r.next = q.next
          /\ r.copy = q.copy /\ r.mark = q.mark /\ r.todo = q.todo
      BY <2>3, <2>4, <2>5 DEF RequestOK, Request
    <2>7. RequestOK(r, hold)
      BY <2>4, <2>6 DEF RequestOK, EndsAHold, Picks
    <2> QED
      BY <1>2, <2>1, <2>2, <2>3, <2>7, ReadPreserves DEF MarkLocks
  <1>3. CASE RemoveCounts(d)
    <2>1. PICK c \in Copies :
            Becomes(d, [Idle EXCEPT !.op = "remove", !.at = "read", !.copy = c])
      BY <1>3 DEF RemoveCounts
    <2> DEFINE r == [Idle EXCEPT !.op = "remove", !.at = "read", !.copy = c]
    <2>2. RequestOK(r, hold)
      BY DEF Idle, RequestOK, Request, OpNames, EndsAHold, Picks
    <2> HIDE DEF r
    <2> QED
      BY <1>3, <2>1, <2>2, ReadPreserves DEF RemoveCounts, r
  <1> QED
    BY <1>1, <1>2, <1>3

LEMMA QueueReads ==
  ASSUME QueueInvariant, NEW d \in Desks,
         ReserveReads(d) \/ CancelReads(d) \/ SweepReads(d)
  PROVE  QueueInvariant' /\ hold' = hold
  <1>1. CASE ReserveReads(d)
    <2>1. PICK t \in Titles, m \in Members :
            Becomes(d, [Idle EXCEPT !.op = "reserve", !.at = "read", !.title = t,
                                    !.member = m])
      BY <1>1 DEF ReserveReads
    <2> DEFINE r == [Idle EXCEPT !.op = "reserve", !.at = "read", !.title = t, !.member = m]
    <2>2. RequestOK(r, hold)
      BY DEF Idle, RequestOK, Request, OpNames, EndsAHold, Picks
    <2> HIDE DEF r
    <2> QED
      BY <1>1, <2>1, <2>2, ReadPreserves DEF ReserveReads, r
  <1>2. CASE CancelReads(d)
    <2>1. PICK h \in Holds :
            /\ hold[h].status \in Live
            /\ Becomes(d, [Idle EXCEPT !.op = "cancel", !.at = "read", !.hold = h,
                                       !.copy = hold[h].held])
      BY <1>2 DEF CancelReads
    <2>2. PICK c : c = hold[h].held
      OBVIOUS
    <2>3. hold[h] \in HoldRow /\ (c # None <=> hold[h].status = "READY")
      BY <2>2 DEF QueueInvariant, TypeOK
    <2>4. c \in Copies \cup {None} /\ Placed(hold, h) /\ (c # None => Past(hold, h))
      BY <2>1, <2>2, <2>3 DEF HoldRow, Live, Placed, Past
    <2> DEFINE r == [Idle EXCEPT !.op = "cancel", !.at = "read", !.hold = h, !.copy = c]
    <2>5. RequestOK(r, hold)
      BY <2>4 DEF Idle, RequestOK, Request, OpNames, EndsAHold, Picks
    <2>6. Becomes(d, r)
      BY <2>1, <2>2
    <2> HIDE DEF r
    <2> QED
      BY <1>2, <2>5, <2>6, ReadPreserves DEF CancelReads
  <1>3. CASE SweepReads(d)
    <2>1. PICK S \in SUBSET {h \in Holds : hold[h].status = "READY"} :
            Becomes(d, [Idle EXCEPT !.op = "sweep", !.at = "read",
                                    !.todo = {<<h, hold[h].held>> : h \in S}])
      BY <1>3 DEF SweepReads
    <2>2. PICK T : T = {<<h, hold[h].held>> : h \in S}
      OBVIOUS
    <2>3. \A h \in S : h \in Holds /\ hold[h].held \in Copies /\ Past(hold, h)
      <3>1. ASSUME NEW h \in S PROVE h \in Holds /\ hold[h].held \in Copies /\ Past(hold, h)
        <4>1. h \in Holds /\ hold[h].status = "READY"
          OBVIOUS
        <4>2. hold[h] \in HoldRow /\ hold[h].held # None
          BY <4>1 DEF QueueInvariant, TypeOK
        <4> QED
          BY <4>1, <4>2 DEF HoldRow, Past
      <3> QED
        BY <3>1
    <2>4. T \in SUBSET (Holds \X Copies) /\ \A lapsed \in T : Past(hold, lapsed[1])
      BY <2>2, <2>3
    <2> DEFINE r == [Idle EXCEPT !.op = "sweep", !.at = "read", !.todo = T]
    <2>5. RequestOK(r, hold)
      BY <2>4 DEF Idle, RequestOK, Request, OpNames, EndsAHold, Picks
    <2>6. Becomes(d, r)
      BY <2>1, <2>2
    <2> HIDE DEF r
    <2> QED
      BY <1>3, <2>5, <2>6, ReadPreserves DEF SweepReads
  <1> QED
    BY <1>1, <1>2, <1>3

LEMMA EndingReads ==
  ASSUME QueueInvariant, NEW d \in Desks, NEW h \in Holds, NEW c \in Copies \cup {None},
         desk[d].op \in {"cancel", "sweep"}, Ending(d, h, c),
         Placed(hold, h), c # None => Past(hold, h)
  PROVE  QueueInvariant' /\ hold' = hold
  <1>1. PICK n \in {0} \cup Holds :
          /\ IF c = None THEN n = 0 ELSE NextInQueue(n, TitleOf[c], h)
          /\ Becomes(d, [desk[d] EXCEPT !.at = "tx", !.hold = h, !.copy = c, !.next = n])
    BY DEF Ending
  <1>2. PICK q : q = desk[d]
    OBVIOUS
  <1>3. PICK r : r = [q EXCEPT !.at = "tx", !.hold = h, !.copy = c, !.next = n]
    OBVIOUS
  <1>4. RequestOK(q, hold) /\ q.op \in {"cancel", "sweep"}
    BY <1>2 DEF QueueInvariant
  <1>5. n # 0 => /\ c \in Copies /\ Placed(hold, n) /\ hold[n].title = TitleOf[c]
                 /\ \A g \in 1..(n - 1) : hold[g].title = hold[n].title => Past(hold, g)
    <2> SUFFICES ASSUME n # 0
                 PROVE  /\ c \in Copies /\ Placed(hold, n) /\ hold[n].title = TitleOf[c]
                        /\ \A g \in 1..(n - 1) : hold[g].title = hold[n].title => Past(hold, g)
      OBVIOUS
    <2>1. c \in Copies /\ NextInQueue(n, TitleOf[c], h) /\ Past(hold, h)
      BY <1>1
    <2> QED
      BY <2>1, PickIsFirst
  <1>6. /\ r \in Request /\ r.op = q.op /\ r.next = n
        /\ r.copy = c /\ r.hold = h /\ r.todo = q.todo
    BY <1>3, <1>4 DEF RequestOK, Request
  <1>7. RequestOK(r, hold)
    BY <1>4, <1>5, <1>6 DEF RequestOK, EndsAHold, Picks
  <1> QED
    BY <1>1, <1>2, <1>3, <1>7, ReadPreserves DEF Ending

LEMMA EndingsRead ==
  ASSUME QueueInvariant, NEW d \in Desks, CancelLocks(d) \/ SweepLocks(d)
  PROVE  QueueInvariant' /\ hold' = hold
  <1>1. RequestOK(desk[d], hold)
    BY DEF QueueInvariant
  <1>2. CASE CancelLocks(d)
    <2>1. desk[d].op = "cancel" /\ Ending(d, desk[d].hold, desk[d].copy)
      BY <1>2 DEF CancelLocks, Does
    <2>2. PICK h, c : h = desk[d].hold /\ c = desk[d].copy
      OBVIOUS
    <2>3. h \in Holds /\ c \in Copies \cup {None} /\ Placed(hold, h) /\ (c # None => Past(hold, h))
      BY <1>1, <2>1, <2>2 DEF RequestOK, EndsAHold, Request
    <2> QED
      BY <2>1, <2>2, <2>3, EndingReads
  <1>3. CASE SweepLocks(d)
    <2>1. PICK lapsed \in desk[d].todo : Ending(d, lapsed[1], lapsed[2])
      BY <1>3 DEF SweepLocks
    <2>2. desk[d].op = "sweep"
      BY <1>3 DEF SweepLocks, Does
    <2>3. lapsed \in Holds \X Copies /\ Past(hold, lapsed[1])
      BY <1>1 DEF RequestOK, Request
    <2>4. PICK h \in Holds, c \in Copies : h = lapsed[1] /\ c = lapsed[2]
      BY <2>3
    <2>5. Placed(hold, h) /\ Past(hold, h)
      BY <2>3, <2>4 DEF Placed, Past
    <2> QED
      BY <2>1, <2>2, <2>4, <2>5, EndingReads
  <1> QED
    BY <1>2, <1>3

-----------------------------------------------------------------------------
(* Writes: no hold leaves its place, and one made READY is the one picked. *)

LEMMA NothingServed == ASSUME hold' = hold PROVE InTurn
  BY DEF InTurn

\* Rows of the tables as the writes leave them.
LEMMA HoldWritesTyped ==
  ASSUME NEW row \in HoldRow, NEW c \in Copies, NEW status \in Ended
  PROVE  /\ MadeReady(row, c) \in HoldRow
         /\ MadeReady(row, c).status = "READY" /\ MadeReady(row, c).held = c
         /\ MadeReady(row, c).title = row.title
         /\ EndedAs(row, status) \in HoldRow
         /\ EndedAs(row, status).status = status /\ EndedAs(row, status).held = None
         /\ EndedAs(row, status).title = row.title
  BY DEF HoldRow, MadeReady, EndedAs, Ended, Live

LEMMA CopyWritesTyped ==
  ASSUME QueueInvariant, NEW c \in Copies,
         NEW status \in {"AVAILABLE", "ISSUED", "RESERVED"} \cup WriteOff
  PROVE  Shelved(c, status) \in [Copies -> CopyRow]
  BY DEF QueueInvariant, TypeOK, CopyRow, Shelved

LEMMA ClosedTyped ==
  ASSUME QueueInvariant, NEW l \in Loans
  PROVE  /\ Closed(l) \in [Loans -> LoanRow]
         /\ \A k \in Loans : Closed(l)[k].open => loan[k].open
         /\ \A k \in Loans : Closed(l)[k].copy = loan[k].copy
  BY DEF QueueInvariant, TypeOK, LoanRow, Closed

LEMMA ClosedTaken ==
  ASSUME QueueInvariant, NEW l \in Loans, loan' = Closed(l)
  PROVE  LoansTaken'
  BY ClosedTyped DEF QueueInvariant, LoansTaken

\* Holds change by being made READY, at the pick, or ended.
LEMMA HoldWrites ==
  ASSUME QueueInvariant, NEW n \in {0} \cup Holds, NEW c \in Copies \cup {None},
         NEW E \in SUBSET Holds, NEW status \in [E -> Ended],
         n # 0 => c \in Copies /\ Placed(hold, n),
         \A h \in E : Placed(hold, h),
         hold' = [g \in Holds |-> IF g \in E THEN EndedAs(hold[g], status[g])
                                  ELSE IF g = n THEN MadeReady(hold[g], c)
                                  ELSE hold[g]]
  PROVE  /\ hold' \in [Holds -> HoldRow]
         /\ \A h \in Holds : hold'[h].held # None <=> hold'[h].status = "READY"
         /\ Evolves(hold, hold') /\ InOrder(hold')
         /\ \A h \in Holds : hold[h].status # "READY" /\ hold'[h].status = "READY" => h = n
  <1> USE DEF QueueInvariant, TypeOK
  <1>1. ASSUME NEW h \in Holds
        PROVE  /\ hold'[h] \in HoldRow
               /\ hold'[h].held # None <=> hold'[h].status = "READY"
               /\ Placed(hold, h) <=> Placed(hold', h)
               /\ hold'[h].title = hold[h].title
               /\ Past(hold, h) => Past(hold', h)
               /\ hold[h].status # "READY" /\ hold'[h].status = "READY" => h = n
    <2>0. hold[h] \in HoldRow /\ (hold[h].held # None <=> hold[h].status = "READY")
      OBVIOUS
    <2>1. CASE h \in E
      <3>1. status[h] \in Ended /\ hold'[h] = EndedAs(hold[h], status[h])
        BY <2>1
      <3>2. /\ hold'[h] \in HoldRow /\ hold'[h].status = status[h]
            /\ hold'[h].held = None /\ hold'[h].title = hold[h].title
        BY <2>0, <3>1 DEF HoldRow, EndedAs, Ended
      <3> QED
        BY <2>1, <3>1, <3>2 DEF Placed, Past, Ended
    <2>2. CASE h \notin E /\ h = n
      <3>1. c \in Copies /\ c # None /\ hold'[h] = MadeReady(hold[h], c) /\ Placed(hold, h)
        BY <2>2, HoldsAreNumbers, NoneIsNobody
      <3>2. /\ hold'[h] \in HoldRow /\ hold'[h].status = "READY"
            /\ hold'[h].held = c /\ hold'[h].title = hold[h].title
        BY <2>0, <3>1 DEF HoldRow, MadeReady, Live
      <3> QED
        BY <2>2, <3>1, <3>2 DEF Placed, Past
    <2>3. CASE h \notin E /\ h # n
      <3>1. hold'[h] = hold[h]
        BY <2>3
      <3> QED
        BY <2>0, <3>1 DEF Placed, Past
    <2> QED
      BY <2>1, <2>2, <2>3
  <1>2. hold' \in [Holds -> HoldRow]
    <2>1. \A h \in Holds : hold'[h] \in HoldRow
      BY <1>1
    <2>2. hold' = [h \in Holds |-> hold'[h]]
      OBVIOUS
    <2> QED
      BY <2>1, <2>2
  <1>3. Evolves(hold, hold')
    BY <1>1 DEF Evolves
  <1>4. InOrder(hold')
    BY <1>1 DEF InOrder
  <1> QED
    BY <1>1, <1>2, <1>3, <1>4

\* The one made READY was the head of the queue when it was picked, and
\* nobody has come to wait ahead of it.
LEMMA PickInTurn ==
  ASSUME QueueInvariant, NEW d \in Desks, Picks(desk[d]) \/ desk[d].next = 0,
         \A h \in Holds : hold[h].status # "READY" /\ hold'[h].status = "READY" => h = desk[d].next
  PROVE  InTurn
  <1> SUFFICES ASSUME NEW h \in Holds, hold[h].status # "READY", hold'[h].status = "READY",
                      NEW g \in 1..(h - 1), hold[g].title = hold[h].title
               PROVE  hold[g].status # "ACTIVE"
    BY DEF InTurn
  <1>1. h = desk[d].next /\ h # 0
    BY HoldsAreNumbers
  <1>2. Past(hold, g)
    BY <1>1 DEF QueueInvariant, RequestOK
  <1> QED
    BY <1>2 DEF Past

LEMMA EndsPreserves ==
  ASSUME QueueInvariant, NEW d \in Desks, Ends(d),
         copy' \in [Copies -> CopyRow], loan' \in [Loans -> LoanRow], LoansTaken',
         UNCHANGED hold
  PROVE  QueueInvariant' /\ InTurn
  <1>1. PICK r : r = Idle
    OBVIOUS
  <1>2. Becomes(d, r) /\ RequestOK(r, hold')
    BY <1>1, IdleOK DEF Ends
  <1>3. Evolves(hold, hold') /\ InTurn
    BY SameEvolves, NothingServed
  <1>4. /\ hold' \in [Holds -> HoldRow] /\ InOrder(hold')
        /\ \A h \in Holds : hold'[h].held # None <=> hold'[h].status = "READY"
    BY DEF QueueInvariant, TypeOK
  <1> QED
    BY <1>2, <1>3, <1>4, StepPreserves

LEMMA StockWrites ==
  ASSUME QueueInvariant, NEW d \in Desks,
         MarkCommits(d) \/ RemoveDeletes(d) \/ Abandon(d)
  PROVE  QueueInvariant' /\ InTurn
  <1>0. /\ copy \in [Copies -> CopyRow] /\ loan \in [Loans -> LoanRow] /\ LoansTaken
        /\ RequestOK(desk[d], hold)
    BY DEF QueueInvariant, TypeOK
  <1>1. CASE MarkCommits(d)
    <2>1. desk[d].copy \in Copies /\ desk[d].mark \in WriteOff /\ desk[d].loan \in {0} \cup Loans
      BY <1>0, <1>1 DEF MarkCommits, Does, RequestOK, Request
    <2>2. copy' \in [Copies -> CopyRow]
      BY <1>1, <2>1, CopyWritesTyped DEF MarkCommits
    <2>3. loan' \in [Loans -> LoanRow] /\ LoansTaken'
      <3>1. CASE desk[d].loan = 0
        BY <1>0, <1>1, <3>1 DEF MarkCommits, LoansTaken
      <3>2. CASE desk[d].loan # 0
        <4>1. desk[d].loan \in Loans /\ loan' = Closed(desk[d].loan)
          BY <1>1, <2>1, <3>2 DEF MarkCommits
        <4> QED
          BY <4>1, ClosedTyped, ClosedTaken
      <3> QED
        BY <3>1, <3>2
    <2> QED
      BY <1>1, <2>2, <2>3, EndsPreserves DEF MarkCommits
  <1>2. CASE RemoveDeletes(d)
    <2>1. copy' \in [Copies -> CopyRow]
      BY <1>0, <1>2 DEF RemoveDeletes, CopyRow
    <2>2. LoansTaken' /\ loan' = loan
      BY <1>0, <1>2 DEF RemoveDeletes, LoansTaken
    <2> QED
      BY <1>0, <1>2, <2>1, <2>2, EndsPreserves DEF RemoveDeletes
  <1>3. CASE Abandon(d)
    <2>1. LoansTaken' /\ UNCHANGED <<copy, loan, hold>>
      BY <1>0, <1>3 DEF Abandon, LoansTaken
    <2> QED
      BY <1>0, <1>3, <2>1, EndsPreserves DEF Abandon
  <1> QED
    BY <1>1, <1>2, <1>3

LEMMA GenerateWrites ==
  ASSUME QueueInvariant, NEW d \in Desks, Generate(d)
  PROVE  QueueInvariant' /\ InTurn
  <1>1. PICK c \in Copies : copy' = Shelved(c, "AVAILABLE")
    BY DEF Generate
  <1>2. copy' \in [Copies -> CopyRow] /\ UNCHANGED <<loan, hold, desk>>
    BY <1>1, CopyWritesTyped DEF Generate
  <1>3. TypeOK' /\ LoansTaken'
    BY <1>2 DEF QueueInvariant, TypeOK, LoansTaken
  <1> QED
    BY <1>2, <1>3, NothingServed DEF QueueInvariant

LEMMA IssueWrites ==
  ASSUME QueueInvariant, NEW d \in Desks, IssueCommits(d)
  PROVE  QueueInvariant' /\ InTurn
  <1>0. /\ RequestOK(desk[d], hold) /\ desk[d].op = "issue" /\ Ends(d)
        /\ loan \in [Loans -> LoanRow] /\ LoansTaken
    BY DEF IssueCommits, Does, QueueInvariant, TypeOK
  <1>1. PICK c \in Copies, m \in Members, n \in {0} \cup Holds, o \in BOOLEAN :
          c = desk[d].copy /\ m = desk[d].member /\ n = desk[d].next /\ o = desk[d].override
    BY <1>0 DEF RequestOK, Request
  <1>2. PICK l \in Loans :
          loan' = [loan EXCEPT ![l] = [copy |-> c, member |-> m, open |-> TRUE, override |-> o]]
    BY <1>1 DEF IssueCommits
  <1>3. loan' \in [Loans -> LoanRow] /\ LoansTaken'
    <2>1. [copy |-> c, member |-> m, open |-> TRUE, override |-> o] \in LoanRow
      BY DEF LoanRow
    <2> QED
      BY <1>0, <1>2, <2>1 DEF LoansTaken
  <1>4. copy' \in [Copies -> CopyRow]
    BY <1>1, CopyWritesTyped DEF IssueCommits
  <1>5. PICK E \in SUBSET Holds : E = Holds \cap {n}
    OBVIOUS
  <1>6. PICK status \in [E -> Ended] :
          status = [h \in E |-> IF hold[h].member = m THEN "FULFILLED" ELSE "CANCELLED"]
    BY DEF Ended
  <1>7. hold' = [g \in Holds |-> IF g \in E THEN EndedAs(hold[g], status[g])
                                 ELSE IF g = 0 THEN MadeReady(hold[g], None) ELSE hold[g]]
    <2>1. hold' = [g \in Holds |->
                     IF g # n THEN hold[g]
                     ELSE EndedAs(hold[g], IF hold[g].member = m THEN "FULFILLED"
                                                                 ELSE "CANCELLED")]
      BY <1>1 DEF IssueCommits
    <2> QED
      BY <1>5, <1>6, <2>1, HoldsAreNumbers
  <1>8. \A h \in E : Placed(hold, h)
    BY <1>0, <1>1, <1>5, HoldsAreNumbers DEF RequestOK
  <1>9. /\ hold' \in [Holds -> HoldRow]
        /\ \A h \in Holds : hold'[h].held # None <=> hold'[h].status = "READY"
        /\ Evolves(hold, hold') /\ InOrder(hold')
        /\ \A h \in Holds : hold[h].status # "READY" /\ hold'[h].status = "READY" => h = 0
    BY <1>7, <1>8, HoldWrites
  <1>10. InTurn
    BY <1>9, HoldsAreNumbers DEF InTurn
  <1>11. PICK r : r = Idle
    OBVIOUS
  <1>12. Becomes(d, r) /\ RequestOK(r, hold')
    BY <1>0, <1>11, IdleOK DEF Ends
  <1> QED
    BY <1>3, <1>4, <1>9, <1>10, <1>12, StepPreserves

LEMMA ReturnWrites ==
  ASSUME QueueInvariant, NEW d \in Desks, ReturnCommits(d)
  PROVE  QueueInvariant' /\ InTurn
  <1>0. RequestOK(desk[d], hold) /\ desk[d].op = "return" /\ Ends(d)
    BY DEF ReturnCommits, Does, QueueInvariant
  <1>1. PICK c \in Copies, l \in Loans, n \in {0} \cup Holds :
          c = desk[d].copy /\ l = desk[d].loan /\ n = desk[d].next
    BY <1>0 DEF RequestOK, Request
  <1>2. loan' \in [Loans -> LoanRow] /\ LoansTaken'
    BY <1>1, ClosedTyped, ClosedTaken DEF ReturnCommits
  <1>3. copy' \in [Copies -> CopyRow]
    BY <1>1, CopyWritesTyped DEF ReturnCommits
  <1>4. PICK E \in SUBSET Holds : E = {}
    OBVIOUS
  <1>5. PICK status \in [E -> Ended] : status = [h \in E |-> "CANCELLED"]
    BY DEF Ended
  <1>6. hold' = [g \in Holds |-> IF g \in E THEN EndedAs(hold[g], status[g])
                                 ELSE IF g = n THEN MadeReady(hold[g], c) ELSE hold[g]]
    BY <1>1, <1>4 DEF ReturnCommits
  <1>7. n # 0 => Placed(hold, n)
    BY <1>0, <1>1 DEF RequestOK
  <1>8. /\ hold' \in [Holds -> HoldRow]
        /\ \A h \in Holds : hold'[h].held # None <=> hold'[h].status = "READY"
        /\ Evolves(hold, hold') /\ InOrder(hold')
        /\ \A h \in Holds : hold[h].status # "READY" /\ hold'[h].status = "READY" => h = n
    BY <1>4, <1>6, <1>7, HoldWrites
  <1>9. InTurn
    BY <1>0, <1>1, <1>8, PickInTurn DEF Picks
  <1>10. PICK r : r = Idle
    OBVIOUS
  <1>11. Becomes(d, r) /\ RequestOK(r, hold')
    BY <1>0, <1>10, IdleOK DEF Ends
  <1> QED
    BY <1>2, <1>3, <1>8, <1>9, <1>11, StepPreserves

\* A new hold takes the first free place.
LEMMA ReserveWrites ==
  ASSUME QueueInvariant, NEW d \in Desks, ReserveInserts(d)
  PROVE  QueueInvariant' /\ InTurn
  <1>0. /\ RequestOK(desk[d], hold) /\ desk[d].op = "reserve" /\ Ends(d)
        /\ copy \in [Copies -> CopyRow] /\ loan \in [Loans -> LoanRow]
        /\ hold \in [Holds -> HoldRow] /\ LoansTaken /\ InOrder(hold)
        /\ \A g \in Holds : hold[g].held # None <=> hold[g].status = "READY"
    BY DEF ReserveInserts, Does, QueueInvariant, TypeOK
  <1>1. PICK t \in Titles, m \in Members : t = desk[d].title /\ m = desk[d].member
    BY <1>0 DEF RequestOK
  <1> DEFINE row == [title |-> t, member |-> m, status |-> "ACTIVE", held |-> None]
  <1>2. PICK h \in Holds :
          /\ ~Placed(hold, h) /\ \A g \in 1..(h - 1) : Placed(hold, g)
          /\ hold' = [hold EXCEPT ![h] = row]
    BY <1>1 DEF ReserveInserts, Placed
  <1>3. row \in HoldRow /\ row.status = "ACTIVE" /\ row.held = None
    BY DEF HoldRow, Live
  <1> HIDE DEF row
  <1>4. hold' \in [Holds -> HoldRow] /\ hold'[h] = row /\ \A g \in Holds \ {h} : hold'[g] = hold[g]
    BY <1>0, <1>2, <1>3
  <1>5. \A g \in Holds : hold'[g].held # None <=> hold'[g].status = "READY"
    <2>1. row.held = None /\ row.status # "READY"
      BY <1>3
    <2> QED
      BY <1>0, <1>4, <2>1
  <1>6. Evolves(hold, hold')
    BY <1>2, <1>4 DEF Evolves, Placed, Past
  <1>7. InOrder(hold')
    <2> SUFFICES ASSUME NEW g \in Holds, NEW k \in Holds, g < k, Placed(hold', k)
                 PROVE  Placed(hold', g)
      BY DEF InOrder
    <2>1. Placed(hold', h)
      BY <1>3, <1>4 DEF Placed
    <2>2. CASE g = h
      BY <2>1, <2>2
    <2>3. CASE g # h /\ k = h
      <3>1. g \in 1..(h - 1)
        BY <2>3, CirculationAssumption DEF Holds
      <3> QED
        BY <1>2, <1>4, <2>3, <3>1 DEF Placed
    <2>4. CASE g # h /\ k # h
      BY <1>0, <1>4, <2>4 DEF Placed, InOrder
    <2> QED
      BY <2>2, <2>3, <2>4
  <1>8. InTurn
    <2>1. \A g \in Holds : hold'[g].status = "READY" => hold[g].status = "READY"
      BY <1>3, <1>4
    <2> QED
      BY <2>1 DEF InTurn
  <1>9. PICK r : r = Idle
    OBVIOUS
  <1>10. Becomes(d, r) /\ RequestOK(r, hold')
    BY <1>0, <1>9, IdleOK DEF Ends
  <1>11. UNCHANGED <<copy, loan>> /\ LoansTaken'
    BY <1>0 DEF ReserveInserts, LoansTaken
  <1> QED
    BY <1>0, <1>4, <1>5, <1>6, <1>7, <1>8, <1>10, <1>11, StepPreserves

\* Cancelled or lapsed: the hold is ended, the next one made READY.
LEMMA EndHoldWrites ==
  ASSUME QueueInvariant, NEW d \in Desks, NEW status \in Ended, EndHold(d, status),
         desk[d].op \in {"cancel", "sweep"}
  PROVE  /\ copy' \in [Copies -> CopyRow] /\ loan' \in [Loans -> LoanRow] /\ LoansTaken'
         /\ hold' \in [Holds -> HoldRow]
         /\ \A g \in Holds : hold'[g].held # None <=> hold'[g].status = "READY"
         /\ Evolves(hold, hold') /\ InOrder(hold') /\ InTurn
  <1>0. /\ RequestOK(desk[d], hold) /\ EndsAHold(desk[d])
        /\ copy \in [Copies -> CopyRow] /\ loan \in [Loans -> LoanRow] /\ LoansTaken
    BY DEF EndHold, QueueInvariant, TypeOK, EndsAHold
  <1>1. PICK h \in Holds, c \in Copies \cup {None}, n \in {0} \cup Holds :
          h = desk[d].hold /\ c = desk[d].copy /\ n = desk[d].next
    BY <1>0 DEF RequestOK, Request
  <1>2. copy' \in [Copies -> CopyRow]
    <2>1. CASE c # None /\ n = 0
      BY <1>1, <2>1, CopyWritesTyped DEF EndHold
    <2>2. CASE ~(c # None /\ n = 0)
      BY <1>0, <1>1, <2>2 DEF EndHold
    <2> QED
      BY <2>1, <2>2
  <1>3. loan' = loan /\ LoansTaken'
    BY <1>0 DEF EndHold, LoansTaken
  <1>4. PICK E \in SUBSET Holds : E = {h}
    OBVIOUS
  <1>5. PICK S \in [E -> Ended] : S = [g \in E |-> status]
    OBVIOUS
  <1>6. hold' = [g \in Holds |-> IF g \in E THEN EndedAs(hold[g], S[g])
                                 ELSE IF g = n THEN MadeReady(hold[g], c) ELSE hold[g]]
    <2>1. hold' = [g \in Holds |-> IF g = h THEN EndedAs(hold[g], status)
                                   ELSE IF g = n THEN MadeReady(hold[g], c) ELSE hold[g]]
      BY <1>1 DEF EndHold
    <2>2. \A g \in Holds : g = h <=> g \in E
      BY <1>4
    <2>3. \A g \in E : S[g] = status
      BY <1>5
    <2> QED
      BY <2>1, <2>2, <2>3
  <1>7. (n # 0 => c \in Copies /\ Placed(hold, n)) /\ \A g \in E : Placed(hold, g)
    BY <1>0, <1>1, <1>4 DEF RequestOK, Picks
  <1>8. /\ hold' \in [Holds -> HoldRow]
        /\ \A g \in Holds : hold'[g].held # None <=> hold'[g].status = "READY"
        /\ Evolves(hold, hold') /\ InOrder(hold')
        /\ \A g \in Holds : hold[g].status # "READY" /\ hold'[g].status = "READY" => g = n
    BY <1>6, <1>7, HoldWrites
  <1>9. InTurn
    BY <1>1, <1>8, PickInTurn DEF Picks
  <1> QED
    BY <1>0, <1>2, <1>3, <1>8, <1>9

LEMMA QueueWrites ==
  ASSUME QueueInvariant, NEW d \in Desks, CancelCommits(d) \/ SweepCommits(d)
  PROVE  QueueInvariant' /\ InTurn
  <1>1. CASE CancelCommits(d)
    <2>1. PICK r : r = Idle
      OBVIOUS
    <2>2. PICK status \in Ended : status = "CANCELLED"
      BY DEF Ended
    <2>3. EndHold(d, status) /\ desk[d].op \in {"cancel", "sweep"} /\ Becomes(d, r)
      BY <1>1, <2>1, <2>2 DEF CancelCommits, Ends
    <2> QED
      BY <2>1, <2>3, EndHoldWrites, IdleOK, StepPreserves
  <1>2. CASE SweepCommits(d)
    <2>1. PICK left : left = {lapsed \in desk[d].todo : lapsed[1] # desk[d].hold}
      OBVIOUS
    <2>2. PICK r : r = IF left = {} THEN Idle
                       ELSE [Idle EXCEPT !.op = "sweep", !.at = "read", !.todo = left]
      OBVIOUS
    <2>3. PICK status \in Ended : status = "EXPIRED"
      BY DEF Ended
    <2>4. EndHold(d, status) /\ desk[d].op \in {"cancel", "sweep"} /\ Becomes(d, r)
      BY <1>2, <2>1, <2>2, <2>3 DEF SweepCommits
    <2>5. Evolves(hold, hold')
      BY <2>4, EndHoldWrites
    <2>6. left \in SUBSET (Holds \X Copies) /\ \A lapsed \in left : Past(hold', lapsed[1])
      <3>1. RequestOK(desk[d], hold)
        BY DEF QueueInvariant
      <3>2. left \subseteq desk[d].todo /\ desk[d].todo \subseteq Holds \X Copies
        BY <2>1, <3>1 DEF RequestOK, Request
      <3>3. ASSUME NEW lapsed \in left PROVE Past(hold', lapsed[1])
        <4>1. lapsed[1] \in Holds /\ Past(hold, lapsed[1])
          BY <3>1, <3>2 DEF RequestOK
        <4> QED
          BY <2>5, <4>1 DEF Evolves
      <3> QED
        BY <3>2, <3>3
    <2>7. RequestOK(r, hold')
      <3>1. CASE left = {}
        BY <2>2, <3>1, IdleOK
      <3>2. CASE left # {}
        <4>1. r = [Idle EXCEPT !.op = "sweep", !.at = "read", !.todo = left]
          BY <2>2, <3>2
        <4> QED
          BY <4>1, <2>6 DEF Idle, RequestOK, Request, OpNames, EndsAHold, Picks
      <3> QED
        BY <3>1, <3>2
    <2> QED
      BY <2>4, <2>7, EndHoldWrites, StepPreserves
  <1> QED
    BY <1>1, <1>2

-----------------------------------------------------------------------------
THEOREM QueueInit == Init => QueueInvariant
  <1> SUFFICES ASSUME Init PROVE QueueInvariant
    OBVIOUS
  <1>1. NoLoan \in LoanRow /\ ~NoLoan.open
    BY DEF NoLoan, LoanRow
  <1>2. NoHold \in HoldRow /\ NoHold.status = "absent" /\ NoHold.held = None
    BY DEF NoHold, HoldRow
  <1>3. \A d \in Desks : desk[d] = Idle /\ RequestOK(desk[d], hold)
    BY IdleOK DEF Init
  <1>4. Idle \in Request
    BY IdleOK DEF RequestOK
  <1>5. TypeOK
    BY <1>1, <1>2, <1>4 DEF Init, TypeOK, CopyRow
  <1>6. LoansTaken /\ InOrder(hold)
    BY <1>1, <1>2 DEF Init, LoansTaken, InOrder, Placed
  <1> QED
    BY <1>3, <1>5, <1>6 DEF QueueInvariant

LEMMA QueueNext == QueueInvariant /\ [Next]_vars => QueueInvariant' /\ [InTurn]_vars
  <1> SUFFICES ASSUME QueueInvariant, [Next]_vars PROVE QueueInvariant' /\ [InTurn]_vars
    OBVIOUS
  <1>1. CASE UNCHANGED vars
    BY <1>1 DEF vars, QueueInvariant, TypeOK, LoansTaken
  <1>2. ASSUME NEW d \in Desks, IssueVerdict(d) \/ IssueLends(d) \/ ReturnFinds(d) \/ ReturnLocks(d)
        PROVE  QueueInvariant' /\ InTurn
    BY <1>2, IssueReads, ReturnReads, NothingServed
  <1>3. ASSUME NEW d \in Desks, MarkReads(d) \/ MarkLocks(d) \/ RemoveCounts(d)
        PROVE  QueueInvariant' /\ InTurn
    BY <1>3, MarkAndRemoveRead, NothingServed
  <1>4. ASSUME NEW d \in Desks, \/ ReserveReads(d) \/ CancelReads(d) \/ SweepReads(d)
                                \/ CancelLocks(d) \/ SweepLocks(d)
        PROVE  QueueInvariant' /\ InTurn
    BY <1>4, QueueReads, EndingsRead, NothingServed
  <1>5. ASSUME NEW d \in Desks, \/ IssueCommits(d) \/ ReturnCommits(d) \/ Generate(d)
                                \/ MarkCommits(d) \/ RemoveDeletes(d) \/ ReserveInserts(d)
                                \/ CancelCommits(d) \/ SweepCommits(d) \/ Abandon(d)
        PROVE  QueueInvariant' /\ InTurn
    BY <1>5, IssueWrites, ReturnWrites, GenerateWrites, StockWrites, ReserveWrites, QueueWrites
  <1>6. CASE Next
    BY <1>2, <1>3, <1>4, <1>5, <1>6 DEF Next
  <1> QED
    BY <1>1, <1>6

\* Rows keep their types and a hold keeps a copy exactly while it is READY,
\* for any number of copies, members, requests and holds.
THEOREM QueueTyped == Spec => []TypeOK
  <1>1. QueueInvariant => TypeOK
    BY DEF QueueInvariant
  <1> QED
    BY <1>1, QueueInit, QueueNext, PTL DEF Spec

\* Nobody is served ahead of a member who has waited longer: for any number
\* of desks, any handlers overlapping, any copy written off.
THEOREM QueueServedInOrder == Spec => QueueInOrder
  <1>1. Spec => [][InTurn]_vars
    BY QueueInit, QueueNext, PTL DEF Spec
  <1> QED
    BY <1>1 DEF QueueInOrder

-----------------------------------------------------------------------------
(* One open loan of a copy: the request that lends it keeps its row locked. *)

Lends(d) == desk[d].op = "issue" /\ desk[d].at = "tx"

LendersExclude ==
  /\ \A d \in Desks : Lends(d) => OpenLoans(desk[d].copy) = {}
  /\ \A d, e \in Desks : d # e /\ Lends(d) /\ Lends(e) => desk[d].copy # desk[e].copy

LendingInvariant == QueueInvariant /\ OneOpenLoan /\ LendersExclude

\* A request that does not lend, and opens no loan, disturbs nothing.
LEMMA OthersKeepLending ==
  ASSUME LendingInvariant, NEW d \in Desks,
         \A e \in Desks \ {d} : desk'[e] = desk[e],
         ~Lends(d)',
         \A l \in Loans : loan'[l].open => loan[l].open /\ loan'[l].copy = loan[l].copy
  PROVE  OneOpenLoan' /\ LendersExclude'
  <1>1. OneOpenLoan'
    BY DEF LendingInvariant, OneOpenLoan
  <1>2. ASSUME NEW e \in Desks, Lends(e)'
        PROVE  e # d /\ desk'[e] = desk[e] /\ Lends(e) /\ OpenLoans(desk[e].copy)' = {}
    <2>1. e # d /\ desk'[e] = desk[e] /\ Lends(e)
      BY <1>2 DEF Lends
    <2>2. OpenLoans(desk[e].copy) = {}
      BY <2>1 DEF LendingInvariant, LendersExclude
    <2> QED
      BY <2>1, <2>2 DEF OpenLoans, LoansOf
  <1> QED
    BY <1>1, <1>2 DEF LendingInvariant, LendersExclude

\* The desks left alone, and the tables of a step that only reads.
LEMMA BecomesOne ==
  ASSUME QueueInvariant, NEW d \in Desks, NEW r, Becomes(d, r)
  PROVE  desk'[d] = r /\ \A e \in Desks \ {d} : desk'[e] = desk[e]
  BY DEF Becomes, QueueInvariant, TypeOK

LEMMA EndsOne ==
  ASSUME QueueInvariant, NEW d \in Desks, Ends(d)
  PROVE  ~Lends(d)' /\ \A e \in Desks \ {d} : desk'[e] = desk[e]
  <1>1. PICK r : r = Idle
    OBVIOUS
  <1>2. Becomes(d, r) /\ r.op = "none"
    BY <1>1 DEF Ends, Idle
  <1> QED
    BY <1>2, BecomesOne DEF Lends

LEMMA LendsKeepsLending ==
  ASSUME LendingInvariant, NEW d \in Desks, IssueLends(d)
  PROVE  OneOpenLoan' /\ LendersExclude'
  <1>1. PICK n : n = HeldFor(desk[d].copy)
    OBVIOUS
  <1>2. PICK q : q = desk[d]
    OBVIOUS
  <1>3. PICK r : r = [q EXCEPT !.at = "tx", !.next = n]
    OBVIOUS
  <1>4. Becomes(d, r) /\ UNCHANGED loan /\ OpenLoans(q.copy) = {}
        /\ Unlocked(d, <<"copy", q.copy>>)
    BY <1>1, <1>2, <1>3 DEF IssueLends
  <1>5. q \in Request
    BY <1>2 DEF LendingInvariant, QueueInvariant, TypeOK
  <1>6. r.copy = q.copy
    BY <1>3, <1>5 DEF Request
  <1>7. desk'[d] = r /\ \A e \in Desks \ {d} : desk'[e] = desk[e]
    BY <1>4, BecomesOne DEF LendingInvariant
  <1>8. ASSUME NEW e \in Desks \ {d}, Lends(e) PROVE desk[e].copy # q.copy
    <2>1. <<"copy", desk[e].copy>> \in RowsOf(e)
      BY <1>8 DEF RowsOf, Lends
    <2> QED
      BY <1>4, <2>1 DEF Unlocked
  <1>9. \A c : OpenLoans(c)' = OpenLoans(c)
    BY <1>4 DEF OpenLoans, LoansOf
  <1>10. OneOpenLoan'
    BY <1>4 DEF LendingInvariant, OneOpenLoan
  <1>11. ASSUME NEW e \in Desks, Lends(e)' PROVE OpenLoans(desk'[e].copy) = {}
    <2>1. CASE e = d
      BY <1>4, <1>6, <1>7, <2>1
    <2>2. CASE e # d
      BY <1>7, <1>11, <2>2 DEF Lends, LendingInvariant, LendersExclude
    <2> QED
      BY <2>1, <2>2
  <1>12. ASSUME NEW e \in Desks, NEW f \in Desks, e # f, Lends(e)', Lends(f)'
         PROVE  desk'[e].copy # desk'[f].copy
    <2>1. CASE e = d
      BY <1>6, <1>7, <1>8, <1>12, <2>1 DEF Lends
    <2>2. CASE f = d
      BY <1>6, <1>7, <1>8, <1>12, <2>2 DEF Lends
    <2>3. CASE e # d /\ f # d
      BY <1>7, <1>12, <2>3 DEF Lends, LendingInvariant, LendersExclude
    <2> QED
      BY <2>1, <2>2, <2>3
  <1>13. \A e \in Desks : Lends(e)' => OpenLoans(desk[e].copy)' = {}
    BY <1>4, <1>11 DEF OpenLoans, LoansOf
  <1> QED
    BY <1>10, <1>12, <1>13 DEF LendersExclude

LEMMA IssueKeepsLending ==
  ASSUME LendingInvariant, NEW d \in Desks, IssueCommits(d)
  PROVE  OneOpenLoan' /\ LendersExclude'
  <1>1. Lends(d) /\ Ends(d) /\ loan \in [Loans -> LoanRow]
    BY DEF IssueCommits, Does, Lends, LendingInvariant, QueueInvariant, TypeOK
  <1>2. ~Lends(d)' /\ \A e \in Desks \ {d} : desk'[e] = desk[e]
    BY <1>1, EndsOne DEF LendingInvariant
  <1>3. PICK c, m, o : c = desk[d].copy /\ m = desk[d].member /\ o = desk[d].override
    OBVIOUS
  <1>4. PICK l \in Loans :
          loan' = [loan EXCEPT ![l] = [copy |-> c, member |-> m, open |-> TRUE, override |-> o]]
    BY <1>3 DEF IssueCommits
  <1>5. loan'[l].copy = c /\ \A k \in Loans \ {l} : loan'[k] = loan[k]
    BY <1>1, <1>4
  <1>6. \A k \in Loans : loan[k].open => loan[k].copy # c
    BY <1>1, <1>3 DEF LendingInvariant, LendersExclude, OpenLoans, LoansOf
  <1>7. OneOpenLoan'
    BY <1>5, <1>6 DEF LendingInvariant, OneOpenLoan
  <1>8. ASSUME NEW e \in Desks, Lends(e)'
        PROVE  e # d /\ desk'[e] = desk[e] /\ Lends(e) /\ OpenLoans(desk[e].copy)' = {}
    <2>1. e # d /\ desk'[e] = desk[e] /\ Lends(e)
      BY <1>2, <1>8 DEF Lends
    <2>2. desk[e].copy # c /\ OpenLoans(desk[e].copy) = {}
      BY <1>1, <1>3, <2>1 DEF LendingInvariant, LendersExclude
    <2> QED
      BY <1>5, <2>1, <2>2 DEF OpenLoans, LoansOf
  <1> QED
    BY <1>7, <1>8 DEF LendingInvariant, LendersExclude

\* Returns and write-offs only close loans.
LEMMA ClosersKeepLending ==
  ASSUME LendingInvariant, NEW d \in Desks,
         ReturnCommits(d) \/ MarkCommits(d)
  PROVE  OneOpenLoan' /\ LendersExclude'
  <1>1. Ends(d) /\ RequestOK(desk[d], hold) /\ QueueInvariant
    BY DEF ReturnCommits, MarkCommits, LendingInvariant, QueueInvariant
  <1>2. \A l \in Loans : loan'[l].open => loan[l].open /\ loan'[l].copy = loan[l].copy
    <2>1. CASE loan' = loan
      BY <2>1
    <2>2. CASE loan' = Closed(desk[d].loan) /\ desk[d].loan \in Loans
      BY <1>1, <2>2, ClosedTyped
    <2>3. desk[d].loan \in {0} \cup Loans /\ (desk[d].op = "return" => desk[d].loan \in Loans)
      BY <1>1 DEF RequestOK, Request
    <2> QED
      BY <2>1, <2>2, <2>3 DEF ReturnCommits, MarkCommits, Does
  <1> QED
    BY <1>1, <1>2, EndsOne, OthersKeepLending

LEMMA EndersKeepLending ==
  ASSUME LendingInvariant, NEW d \in Desks,
         \/ RemoveDeletes(d) \/ ReserveInserts(d) \/ CancelCommits(d) \/ Abandon(d)
         \/ Generate(d)
  PROVE  OneOpenLoan' /\ LendersExclude'
  <1>1. loan' = loan /\ QueueInvariant
    BY DEF RemoveDeletes, ReserveInserts, CancelCommits, EndHold, Abandon, Generate,
           LendingInvariant
  <1>2. CASE Ends(d)
    BY <1>1, <1>2, EndsOne, OthersKeepLending
  <1>3. CASE Generate(d)
    <2>1. desk' = desk /\ ~Lends(d)
      BY <1>3 DEF Generate, Asks, Lends, Idle
    <2> QED
      BY <1>1, <2>1, OthersKeepLending DEF Lends
  <1> QED
    BY <1>2, <1>3 DEF RemoveDeletes, ReserveInserts, CancelCommits, Abandon

\* What desks have after a request is read in, or goes on with its locks.
LEMMA ReadersAsk ==
  ASSUME desk \in [Desks -> Request], NEW d \in Desks,
         \/ ReturnFinds(d) \/ MarkReads(d) \/ RemoveCounts(d)
         \/ ReserveReads(d) \/ CancelReads(d) \/ SweepReads(d)
  PROVE  /\ desk'[d].op \in Ops[d] \ {"issue"}
         /\ \A e \in Desks \ {d} : desk'[e] = desk[e]
  <1>1. CASE ReturnFinds(d)
    <2>1. /\ desk'[d].op = "return"
          /\ \A e \in Desks \ {d} : desk'[e] = desk[e]
      BY <1>1 DEF ReturnFinds, Becomes, Idle
    <2>2. "return" \in Ops[d]
      BY <1>1 DEF ReturnFinds, Asks
    <2> QED
      BY <2>1, <2>2
  <1>2. CASE MarkReads(d)
    <2>1. /\ desk'[d].op = "mark"
          /\ \A e \in Desks \ {d} : desk'[e] = desk[e]
      BY <1>2 DEF MarkReads, Becomes, Idle
    <2>2. "mark" \in Ops[d]
      BY <1>2 DEF MarkReads, Asks
    <2> QED
      BY <2>1, <2>2
  <1>3. CASE RemoveCounts(d)
    <2>1. /\ desk'[d].op = "remove"
          /\ \A e \in Desks \ {d} : desk'[e] = desk[e]
      BY <1>3 DEF RemoveCounts, Becomes, Idle
    <2>2. "remove" \in Ops[d]
      BY <1>3 DEF RemoveCounts, Asks
    <2> QED
      BY <2>1, <2>2
  <1>4. CASE ReserveReads(d)
    <2>1. /\ desk'[d].op = "reserve"
          /\ \A e \in Desks \ {d} : desk'[e] = desk[e]
      BY <1>4 DEF ReserveReads, Becomes, Idle
    <2>2. "reserve" \in Ops[d]
      BY <1>4 DEF ReserveReads, Asks
    <2> QED
      BY <2>1, <2>2
  <1>5. CASE CancelReads(d)
    <2>1. /\ desk'[d].op = "cancel"
          /\ \A e \in Desks \ {d} : desk'[e] = desk[e]
      BY <1>5 DEF CancelReads, Becomes, Idle
    <2>2. "cancel" \in Ops[d]
      BY <1>5 DEF CancelReads, Asks
    <2> QED
      BY <2>1, <2>2
  <1>6. CASE SweepReads(d)
    <2>1. /\ desk'[d].op = "sweep"
          /\ \A e \in Desks \ {d} : desk'[e] = desk[e]
      BY <1>6 DEF SweepReads, Becomes, Idle
    <2>2. "sweep" \in Ops[d]
      BY <1>6 DEF SweepReads, Asks
    <2> QED
      BY <2>1, <2>2
  <1> QED
    BY <1>1, <1>2, <1>3, <1>4, <1>5, <1>6

LEMMA LockersGoOn ==
  ASSUME desk \in [Desks -> Request], NEW d \in Desks,
         ReturnLocks(d) \/ MarkLocks(d) \/ CancelLocks(d) \/ SweepLocks(d)
  PROVE  /\ desk'[d].op = desk[d].op /\ desk[d].op # "issue"
         /\ \A e \in Desks \ {d} : desk'[e] = desk[e]
  <1>1. PICK q : q = desk[d] /\ q \in Request
    OBVIOUS
  <1>2. desk[d].op # "issue"
    BY DEF ReturnLocks, MarkLocks, CancelLocks, SweepLocks, Does
  <1>3. ASSUME NEW r, Becomes(d, r), r.op = q.op
        PROVE  desk'[d].op = desk[d].op /\ \A e \in Desks \ {d} : desk'[e] = desk[e]
    BY <1>1, <1>3 DEF Becomes
  <1>4. CASE ReturnLocks(d)
    <2>1. PICK n : Becomes(d, [q EXCEPT !.at = "tx", !.next = n])
      BY <1>1, <1>4 DEF ReturnLocks
    <2>2. PICK r : r = [q EXCEPT !.at = "tx", !.next = n]
      OBVIOUS
    <2>3. r.op = q.op
      BY <1>1, <2>2 DEF Request
    <2> QED
      BY <1>2, <1>3, <2>1, <2>2, <2>3
  <1>5. CASE MarkLocks(d)
    <2>1. PICK l : Becomes(d, [q EXCEPT !.at = "tx", !.loan = l])
      BY <1>1, <1>5 DEF MarkLocks
    <2>2. PICK r : r = [q EXCEPT !.at = "tx", !.loan = l]
      OBVIOUS
    <2>3. r.op = q.op
      BY <1>1, <2>2 DEF Request
    <2> QED
      BY <1>2, <1>3, <2>1, <2>2, <2>3
  <1>6. CASE CancelLocks(d) \/ SweepLocks(d)
    <2>1. PICK h, c, n : Becomes(d, [q EXCEPT !.at = "tx", !.hold = h, !.copy = c, !.next = n])
      BY <1>1, <1>6 DEF CancelLocks, SweepLocks, Ending
    <2>2. PICK r : r = [q EXCEPT !.at = "tx", !.hold = h, !.copy = c, !.next = n]
      OBVIOUS
    <2>3. r.op = q.op
      BY <1>1, <2>2 DEF Request
    <2> QED
      BY <1>2, <1>3, <2>1, <2>2, <2>3
  <1> QED
    BY <1>4, <1>5, <1>6

LEMMA ReadersKeepLending ==
  ASSUME LendingInvariant, NEW d \in Desks,
         \/ IssueVerdict(d) \/ ReturnFinds(d) \/ MarkReads(d) \/ RemoveCounts(d)
         \/ ReserveReads(d) \/ CancelReads(d) \/ SweepReads(d)
  PROVE  OneOpenLoan' /\ LendersExclude'
  <1>1. UNCHANGED loan
    BY DEF IssueVerdict, ReturnFinds, MarkReads, RemoveCounts, ReserveReads, CancelReads, SweepReads
  <1>2. desk \in [Desks -> Request]
    BY DEF LendingInvariant, QueueInvariant, TypeOK
  <1>3. ~Lends(d)' /\ \A e \in Desks \ {d} : desk'[e] = desk[e]
    <2>1. CASE IssueVerdict(d)
      BY <1>2, <2>1 DEF IssueVerdict, Becomes, Idle, Lends
    <2>2. CASE ~IssueVerdict(d)
      BY <1>2, <2>2, ReadersAsk DEF Lends
    <2> QED
      BY <2>1, <2>2
  <1> QED
    BY <1>1, <1>3, OthersKeepLending

LEMMA LockersKeepLending ==
  ASSUME LendingInvariant, NEW d \in Desks,
         ReturnLocks(d) \/ MarkLocks(d) \/ CancelLocks(d) \/ SweepLocks(d)
  PROVE  OneOpenLoan' /\ LendersExclude'
  <1>0. desk \in [Desks -> Request]
    BY DEF LendingInvariant, QueueInvariant, TypeOK
  <1>1. UNCHANGED loan
    BY DEF ReturnLocks, MarkLocks, CancelLocks, SweepLocks, Ending
  <1> QED
    BY <1>0, <1>1, LockersGoOn, OthersKeepLending DEF Lends

LEMMA SweepKeepsLending ==
  ASSUME LendingInvariant, NEW d \in Desks, SweepCommits(d)
  PROVE  OneOpenLoan' /\ LendersExclude'
  <1>0. desk \in [Desks -> Request]
    BY DEF LendingInvariant, QueueInvariant, TypeOK
  <1>1. UNCHANGED loan
    BY DEF SweepCommits, EndHold
  <1>2. PICK left : Becomes(d, IF left = {} THEN Idle
                               ELSE [Idle EXCEPT !.op = "sweep", !.at = "read", !.todo = left])
    BY DEF SweepCommits
  <1>3. desk'[d].op # "issue" /\ \A e \in Desks \ {d} : desk'[e] = desk[e]
    BY <1>0, <1>2 DEF Becomes, Idle
  <1> QED
    BY <1>1, <1>3, OthersKeepLending DEF Lends

LEMMA LendingInit == Init => LendingInvariant
  <1> SUFFICES ASSUME Init PROVE LendingInvariant
    OBVIOUS
  <1>1. \A l \in Loans : ~loan[l].open
    BY DEF Init, NoLoan
  <1>2. \A d \in Desks : ~Lends(d)
    BY DEF Init, Idle, Lends
  <1> QED
    BY <1>1, <1>2, QueueInit DEF LendingInvariant, OneOpenLoan, LendersExclude

LEMMA LendingStep == LendingInvariant /\ [Next]_vars => LendingInvariant'
  <1> SUFFICES ASSUME LendingInvariant, [Next]_vars PROVE LendingInvariant'
    OBVIOUS
  <1>1. QueueInvariant'
    BY QueueNext DEF LendingInvariant
  <1>2. CASE UNCHANGED vars
    BY <1>1, <1>2 DEF vars, LendingInvariant, OneOpenLoan, LendersExclude, Lends,
                      OpenLoans, LoansOf
  <1>3. CASE Next
    <2>1. PICK d \in Desks :
            \/ IssueVerdict(d) \/ IssueLends(d) \/ IssueCommits(d)
            \/ ReturnFinds(d) \/ ReturnLocks(d) \/ ReturnCommits(d)
            \/ Generate(d) \/ MarkReads(d) \/ MarkLocks(d) \/ MarkCommits(d)
            \/ RemoveCounts(d) \/ RemoveDeletes(d)
            \/ ReserveReads(d) \/ ReserveInserts(d)
            \/ CancelReads(d) \/ CancelLocks(d) \/ CancelCommits(d)
            \/ SweepReads(d) \/ SweepLocks(d) \/ SweepCommits(d)
            \/ Abandon(d)
      BY <1>3 DEF Next
    <2>2. OneOpenLoan' /\ LendersExclude'
      BY <2>1, LendsKeepsLending, IssueKeepsLending, ClosersKeepLending, EndersKeepLending,
         ReadersKeepLending, LockersKeepLending, SweepKeepsLending
    <2> QED
      BY <1>1, <2>2 DEF LendingInvariant
  <1> QED
    BY <1>2, <1>3

THEOREM LendingInvariantHolds == Spec => []LendingInvariant
  BY LendingInit, LendingStep, PTL DEF Spec

\* A copy is never on loan to two at once, however many desks lend it at the
\* same moment.
THEOREM CopyIsLentOnce == Spec => []OneOpenLoan
  <1>1. LendingInvariant => OneOpenLoan
    BY DEF LendingInvariant
  <1> QED
    BY <1>1, LendingInvariantHolds, PTL
-----------------------------------------------------------------------------
(* The shelf, the loans and the queue speak of each other: one counter takes *)
(* books in, one gives them out and keeps the queue.                         *)

TakesIn == {"return", "mark"}
GivesOut == {"issue", "cancel", "sweep"}

\* Any number of desks place holds and keep the stock; a copy on the hold
\* shelf is not written off.
OneCounterEach ==
  /\ ~MarkReserved
  /\ \A d, e \in Desks : d # e =>
       /\ Ops[d] \cap TakesIn = {} \/ Ops[e] \cap TakesIn = {}
       /\ Ops[d] \cap GivesOut = {} \/ Ops[e] \cap GivesOut = {}

\* Of the tables C, L, H of copies, loans and holds.
OpenOf(L, c) == {l \in Loans : L[l].copy = c /\ L[l].open}
Ready(H, h, c) == H[h].status = "READY" /\ H[h].held = c
OnlyFor(H, c, h) == \A g \in Holds : Ready(H, g, c) => g = h
KeptOnly(C, H, c, h) == C[c].status = "RESERVED" /\ OnlyFor(H, c, h)

ShelvesOK(C, L, H) ==
  /\ \A c \in Copies : C[c].status = "ISSUED" <=> OpenOf(L, c) # {}
  /\ \A h \in Holds : H[h].status = "READY" => C[H[h].held].status = "RESERVED"
  /\ \A h \in Holds : H[h].status = "READY" => OnlyFor(H, H[h].held, h)

\* What a request in flight read, and no other has changed since.
StillSo(r, C, L, H) ==
  /\ r.op = "return" => L[r.loan].open /\ L[r.loan].copy = r.copy
  /\ r.op = "mark" => C[r.copy].status # "RESERVED"
  /\ r.op = "mark" /\ r.at = "tx" =>
       /\ \A l \in OpenOf(L, r.copy) : l = r.loan
       /\ r.loan # 0 => L[r.loan].copy = r.copy
  /\ r.op = "issue" /\ r.at = "tx" => OnlyFor(H, r.copy, r.next)
  /\ r.op = "cancel" /\ r.copy # None => KeptOnly(C, H, r.copy, r.hold)
  /\ r.op = "sweep" =>
       /\ \A x \in r.todo : KeptOnly(C, H, x[2], x[1])
       /\ \A x, y \in r.todo : x[2] = y[2] => x = y
       /\ r.at = "tx" => r.copy \in Copies /\ <<r.hold, r.copy>> \in r.todo

Marks(d) == desk[d].op = "mark" /\ desk[d].at = "tx"

ShelfInvariant ==
  /\ LendingInvariant
  /\ \A d \in Desks : desk[d].op \in Ops[d] \cup {"none"}
  /\ \A d, e \in Desks : Marks(d) /\ Lends(e) => desk[d].copy # desk[e].copy
  /\ ShelvesOK(copy, loan, hold)
  /\ \A d \in Desks : StillSo(desk[d], copy, loan, hold)

LEMMA OpenLoansAreOpen == \A c : OpenLoans(c) = OpenOf(loan, c)
  BY DEF OpenLoans, LoansOf, OpenOf

LEMMA IdleStillSo == ASSUME NEW C, NEW L, NEW H PROVE StillSo(Idle, C, L, H)
  BY DEF StillSo, Idle

\* Each counter is alone with what it does.
LEMMA Alone ==
  ASSUME OneCounterEach, ShelfInvariant, NEW d \in Desks, NEW e \in Desks \ {d}
  PROVE  /\ desk[d].op \in TakesIn => desk[e].op \notin TakesIn
         /\ desk[d].op \in GivesOut => desk[e].op \notin GivesOut
  <1>1. /\ desk[d].op \in Ops[d] \cup {"none"} /\ desk[e].op \in Ops[e] \cup {"none"}
        /\ Ops[d] \cap TakesIn = {} \/ Ops[e] \cap TakesIn = {}
        /\ Ops[d] \cap GivesOut = {} \/ Ops[e] \cap GivesOut = {}
    BY DEF OneCounterEach, ShelfInvariant
  <1> QED
    BY <1>1 DEF TakesIn, GivesOut

\* A step of one request, as far as the shelves are concerned.
LEMMA ShelfStep ==
  ASSUME ShelfInvariant, NEW d \in Desks, NEW r, Becomes(d, r),
         r.op \in Ops[d] \cup {"none"}, LendingInvariant',
         ShelvesOK(copy', loan', hold'), StillSo(r, copy', loan', hold'),
         \A e \in Desks \ {d} : StillSo(desk[e], copy', loan', hold'),
         r.at # "tx" \/ r.op \notin {"mark", "issue"}
           \/ \A e \in Desks \ {d} : Marks(e) \/ Lends(e) => desk[e].copy # r.copy
  PROVE  ShelfInvariant'
  <1>1. desk'[d] = r /\ \A e \in Desks \ {d} : desk'[e] = desk[e]
    BY BecomesOne DEF ShelfInvariant, LendingInvariant
  <1>2. \A e \in Desks : desk'[e].op \in Ops[e] \cup {"none"}
    BY <1>1 DEF ShelfInvariant
  <1>3. \A e \in Desks : StillSo(desk'[e], copy', loan', hold')
    BY <1>1
  <1>4. ASSUME NEW e \in Desks, NEW f \in Desks, Marks(e)', Lends(f)'
        PROVE  desk'[e].copy # desk'[f].copy
    <2>1. CASE e = d /\ f = d
      BY <1>4, <2>1 DEF Marks, Lends
    <2>2. CASE e = d /\ f # d
      BY <1>1, <1>4, <2>2 DEF Marks, Lends
    <2>3. CASE e # d /\ f = d
      BY <1>1, <1>4, <2>3 DEF Marks, Lends
    <2>4. CASE e # d /\ f # d
      BY <1>1, <1>4, <2>4 DEF Marks, Lends, ShelfInvariant
    <2> QED
      BY <2>1, <2>2, <2>3, <2>4
  <1> QED
    BY <1>2, <1>3, <1>4 DEF ShelfInvariant

\* A step that reads.
LEMMA ShelfRead ==
  ASSUME ShelfInvariant, NEW d \in Desks, NEW r, Becomes(d, r),
         r.op \in Ops[d] \cup {"none"}, LendingInvariant', UNCHANGED <<copy, loan, hold>>,
         StillSo(r, copy, loan, hold),
         r.at # "tx" \/ r.op \notin {"mark", "issue"}
           \/ \A e \in Desks \ {d} : Marks(e) \/ Lends(e) => desk[e].copy # r.copy
  PROVE  ShelfInvariant'
  <1>1. /\ ShelvesOK(copy', loan', hold') /\ StillSo(r, copy', loan', hold')
        /\ \A e \in Desks \ {d} : StillSo(desk[e], copy', loan', hold')
    BY DEF ShelfInvariant
  <1> QED
    BY <1>1, ShelfStep

-----------------------------------------------------------------------------
(* What is read is so when it is read. *)

LEMMA ReadersKeepShelf ==
  ASSUME OneCounterEach, ShelfInvariant, LendingInvariant', NEW d \in Desks,
         \/ IssueVerdict(d) \/ ReturnFinds(d) \/ MarkReads(d) \/ RemoveCounts(d)
         \/ ReserveReads(d) \/ CancelReads(d) \/ SweepReads(d)
  PROVE  ShelfInvariant'
  <1>0. /\ UNCHANGED <<copy, loan, hold>>
        /\ copy \in [Copies -> CopyRow] /\ ShelvesOK(copy, loan, hold) /\ TypeOK
    BY DEF IssueVerdict, ReturnFinds, MarkReads, RemoveCounts, ReserveReads, CancelReads,
           SweepReads, ShelfInvariant, LendingInvariant, QueueInvariant, TypeOK
  <1>1. ASSUME NEW r, Becomes(d, r), r.op \in Ops[d], r.at = "read",
               StillSo(r, copy, loan, hold)
        PROVE  ShelfInvariant'
    BY <1>0, <1>1, ShelfRead
  <1>2. CASE IssueVerdict(d)
    <2>1. PICK c, m, o : Becomes(d, [Idle EXCEPT !.op = "issue", !.at = "read", !.copy = c,
                                                 !.member = m, !.override = o])
      BY <1>2 DEF IssueVerdict
    <2>2. PICK r : r = [Idle EXCEPT !.op = "issue", !.at = "read", !.copy = c,
                                    !.member = m, !.override = o]
      OBVIOUS
    <2>3. Becomes(d, r) /\ r.op = "issue" /\ r.at = "read"
      BY <2>1, <2>2 DEF Idle
    <2> QED
      BY <1>1, <1>2, <2>3 DEF StillSo, IssueVerdict, Asks
  <1>3. CASE ReturnFinds(d)
    <2>1. PICK l \in Loans :
            /\ loan[l].open
            /\ Becomes(d, [Idle EXCEPT !.op = "return", !.at = "read", !.loan = l,
                                       !.copy = loan[l].copy])
      BY <1>3 DEF ReturnFinds, Returnable
    <2>2. PICK r : r = [Idle EXCEPT !.op = "return", !.at = "read", !.loan = l,
                                    !.copy = loan[l].copy]
      OBVIOUS
    <2>3. Becomes(d, r) /\ r.op = "return" /\ r.at = "read" /\ r.loan = l /\ r.copy = loan[l].copy
      BY <2>1, <2>2 DEF Idle
    <2> QED
      BY <1>1, <1>3, <2>1, <2>3 DEF StillSo, ReturnFinds, Asks
  <1>4. CASE MarkReads(d)
    <2>1. PICK c \in Copies, s \in WriteOffs :
            /\ copy[c].status = "RESERVED" => MarkReserved
            /\ Becomes(d, [Idle EXCEPT !.op = "mark", !.at = "read", !.copy = c, !.mark = s])
      BY <1>4 DEF MarkReads
    <2>2. PICK r : r = [Idle EXCEPT !.op = "mark", !.at = "read", !.copy = c, !.mark = s]
      OBVIOUS
    <2>3. Becomes(d, r) /\ r.op = "mark" /\ r.at = "read" /\ r.copy = c
      BY <2>1, <2>2 DEF Idle
    <2> QED
      BY <1>1, <1>4, <2>1, <2>3 DEF StillSo, MarkReads, Asks, OneCounterEach
  <1>5. CASE RemoveCounts(d)
    <2>1. PICK c : Becomes(d, [Idle EXCEPT !.op = "remove", !.at = "read", !.copy = c])
      BY <1>5 DEF RemoveCounts
    <2>2. PICK r : r = [Idle EXCEPT !.op = "remove", !.at = "read", !.copy = c]
      OBVIOUS
    <2>3. Becomes(d, r) /\ r.op = "remove" /\ r.at = "read"
      BY <2>1, <2>2 DEF Idle
    <2> QED
      BY <1>1, <1>5, <2>3 DEF StillSo, RemoveCounts, Asks
  <1>6. CASE ReserveReads(d)
    <2>1. PICK t, m : Becomes(d, [Idle EXCEPT !.op = "reserve", !.at = "read", !.title = t,
                                              !.member = m])
      BY <1>6 DEF ReserveReads
    <2>2. PICK r : r = [Idle EXCEPT !.op = "reserve", !.at = "read", !.title = t, !.member = m]
      OBVIOUS
    <2>3. Becomes(d, r) /\ r.op = "reserve" /\ r.at = "read"
      BY <2>1, <2>2 DEF Idle
    <2> QED
      BY <1>1, <1>6, <2>3 DEF StillSo, ReserveReads, Asks
  <1>7. CASE CancelReads(d)
    <2>1. PICK h \in Holds :
            Becomes(d, [Idle EXCEPT !.op = "cancel", !.at = "read", !.hold = h,
                                    !.copy = hold[h].held])
      BY <1>7 DEF CancelReads
    <2>2. PICK r : r = [Idle EXCEPT !.op = "cancel", !.at = "read", !.hold = h,
                                    !.copy = hold[h].held]
      OBVIOUS
    <2>3. Becomes(d, r) /\ r.op = "cancel" /\ r.at = "read" /\ r.hold = h /\ r.copy = hold[h].held
      BY <2>1, <2>2 DEF Idle
    <2>4. r.copy # None => KeptOnly(copy, hold, r.copy, r.hold)
      BY <1>0, <2>3 DEF KeptOnly, ShelvesOK, TypeOK
    <2> QED
      BY <1>1, <1>7, <2>3, <2>4 DEF StillSo, CancelReads, Asks
  <1>8. CASE SweepReads(d)
    <2>1. PICK S \in SUBSET {h \in Holds : hold[h].status = "READY"} :
            Becomes(d, [Idle EXCEPT !.op = "sweep", !.at = "read",
                                    !.todo = {<<h, hold[h].held>> : h \in S}])
      BY <1>8 DEF SweepReads
    <2>2. PICK r : r = [Idle EXCEPT !.op = "sweep", !.at = "read",
                                    !.todo = {<<h, hold[h].held>> : h \in S}]
      OBVIOUS
    <2>3. /\ Becomes(d, r) /\ r.op = "sweep" /\ r.at = "read"
          /\ r.todo = {<<h, hold[h].held>> : h \in S}
      BY <2>1, <2>2 DEF Idle
    <2>4. ASSUME NEW x \in r.todo
          PROVE  /\ x[1] \in Holds /\ hold[x[1]].status = "READY" /\ hold[x[1]].held = x[2]
                 /\ x = <<x[1], x[2]>>
      BY <2>1, <2>3, <2>4
    <2>5. \A x \in r.todo : KeptOnly(copy, hold, x[2], x[1])
      BY <1>0, <2>4 DEF KeptOnly, ShelvesOK
    <2>6. ASSUME NEW x \in r.todo, NEW y \in r.todo, x[2] = y[2] PROVE x = y
      <3>1. x[1] = y[1]
        BY <2>4, <2>5, <2>6 DEF KeptOnly, OnlyFor, Ready
      <3> QED
        BY <2>4, <2>6, <3>1
    <2> QED
      BY <1>1, <1>8, <2>3, <2>5, <2>6 DEF StillSo, SweepReads, Asks
  <1> QED
    BY <1>2, <1>3, <1>4, <1>5, <1>6, <1>7, <1>8

LEMMA LockersKeepShelf ==
  ASSUME OneCounterEach, ShelfInvariant, LendingInvariant', NEW d \in Desks,
         \/ IssueLends(d) \/ ReturnLocks(d) \/ MarkLocks(d) \/ CancelLocks(d) \/ SweepLocks(d)
  PROVE  ShelfInvariant'
  <1>0. PICK q : q = desk[d]
    OBVIOUS
  <1>1. /\ UNCHANGED <<copy, loan, hold>> /\ q \in Request /\ RequestOK(q, hold)
        /\ q.op \in Ops[d] \cup {"none"} /\ StillSo(q, copy, loan, hold)
        /\ ShelvesOK(copy, loan, hold)
    BY <1>0 DEF IssueLends, ReturnLocks, MarkLocks, CancelLocks, SweepLocks, Ending,
                ShelfInvariant, LendingInvariant, QueueInvariant, TypeOK
  <1>2. CASE IssueLends(d)
    <2>1. PICK n : n = HeldFor(q.copy)
      OBVIOUS
    <2>2. PICK r : r = [q EXCEPT !.at = "tx", !.next = n]
      OBVIOUS
    <2>3. /\ Becomes(d, r) /\ r.op = "issue" /\ r.at = "tx" /\ r.copy = q.copy /\ r.next = n
          /\ Unlocked(d, <<"copy", q.copy>>) /\ q.op = "issue"
      BY <1>0, <1>1, <1>2, <2>1, <2>2 DEF IssueLends, Does, Request
    <2>4. OnlyFor(hold, q.copy, n)
      <3> SUFFICES ASSUME NEW g \in Holds, Ready(hold, g, q.copy) PROVE g = n
        BY DEF OnlyFor
      <3>1. n \in {h \in Holds : hold[h].status = "READY" /\ hold[h].held = q.copy}
        BY <2>1 DEF HeldFor, OneOf, Ready
      <3> QED
        BY <1>1, <3>1 DEF ShelvesOK, OnlyFor, Ready
    <2>5. ASSUME NEW e \in Desks \ {d}, Marks(e) \/ Lends(e) PROVE desk[e].copy # q.copy
      <3>1. <<"copy", desk[e].copy>> \in RowsOf(e)
        BY <2>5 DEF RowsOf, Lends, Marks
      <3> QED
        BY <2>3, <3>1 DEF Unlocked
    <2> QED
      BY <1>1, <2>3, <2>4, <2>5, ShelfRead DEF StillSo
  <1>3. CASE ReturnLocks(d)
    <2>1. PICK n : Becomes(d, [q EXCEPT !.at = "tx", !.next = n])
      BY <1>0, <1>3 DEF ReturnLocks
    <2>2. PICK r : r = [q EXCEPT !.at = "tx", !.next = n]
      OBVIOUS
    <2>3. /\ Becomes(d, r) /\ r.op = "return" /\ q.op = "return"
          /\ r.copy = q.copy /\ r.loan = q.loan
      BY <1>0, <1>1, <1>3, <2>1, <2>2 DEF ReturnLocks, Does, Request
    <2> QED
      BY <1>1, <2>3, ShelfRead DEF StillSo
  <1>4. CASE MarkLocks(d)
    <2>1. PICK l : l = OneOf(OpenLoans(q.copy))
      OBVIOUS
    <2>2. PICK r : r = [q EXCEPT !.at = "tx", !.loan = l]
      OBVIOUS
    <2>3. /\ Becomes(d, r) /\ r.op = "mark" /\ r.at = "tx" /\ r.copy = q.copy /\ r.loan = l
          /\ Unlocked(d, <<"copy", q.copy>>) /\ q.op = "mark"
      BY <1>0, <1>1, <1>4, <2>1, <2>2 DEF MarkLocks, Does, Request
    <2>4. (\A k \in OpenOf(loan, q.copy) : k = l) /\ (l # 0 => loan[l].copy = q.copy)
      <3>1. \A j, k \in OpenOf(loan, q.copy) : j = k
        BY DEF ShelfInvariant, LendingInvariant, OneOpenLoan, OpenOf
      <3>2. OpenOf(loan, q.copy) # {} => l \in OpenOf(loan, q.copy)
        BY <2>1, OpenLoansAreOpen DEF OneOf
      <3>3. OpenOf(loan, q.copy) = {} => l = 0
        BY <2>1, OpenLoansAreOpen DEF OneOf
      <3> QED
        BY <3>1, <3>2, <3>3 DEF OpenOf
    <2>5. ASSUME NEW e \in Desks \ {d}, Marks(e) \/ Lends(e) PROVE desk[e].copy # q.copy
      <3>1. <<"copy", desk[e].copy>> \in RowsOf(e)
        BY <2>5 DEF RowsOf, Lends, Marks
      <3> QED
        BY <2>3, <3>1 DEF Unlocked
    <2> QED
      BY <1>1, <2>3, <2>4, <2>5, ShelfRead DEF StillSo
  <1>5. CASE CancelLocks(d)
    <2>1. PICK n : Becomes(d, [q EXCEPT !.at = "tx", !.hold = q.hold, !.copy = q.copy, !.next = n])
      BY <1>0, <1>5 DEF CancelLocks, Ending
    <2>2. PICK r : r = [q EXCEPT !.at = "tx", !.hold = q.hold, !.copy = q.copy, !.next = n]
      OBVIOUS
    <2>3. /\ Becomes(d, r) /\ r.op = "cancel" /\ q.op = "cancel"
          /\ r.copy = q.copy /\ r.hold = q.hold
      BY <1>0, <1>1, <1>5, <2>1, <2>2 DEF CancelLocks, Does, Request
    <2> QED
      BY <1>1, <2>3, ShelfRead DEF StillSo
  <1>6. CASE SweepLocks(d)
    <2>1. PICK x \in q.todo : Ending(d, x[1], x[2])
      BY <1>0, <1>6 DEF SweepLocks
    <2>2. PICK h, c : h = x[1] /\ c = x[2]
      OBVIOUS
    <2>3. x = <<h, c>> /\ h \in Holds /\ c \in Copies
      BY <1>1, <2>1, <2>2 DEF Request
    <2>4. PICK n : Becomes(d, [q EXCEPT !.at = "tx", !.hold = h, !.copy = c, !.next = n])
      BY <1>0, <2>1, <2>2 DEF Ending
    <2>5. PICK r : r = [q EXCEPT !.at = "tx", !.hold = h, !.copy = c, !.next = n]
      OBVIOUS
    <2>6. /\ Becomes(d, r) /\ r.op = "sweep" /\ q.op = "sweep"
          /\ r.copy = c /\ r.hold = h /\ r.todo = q.todo
      BY <1>0, <1>1, <1>6, <2>4, <2>5 DEF SweepLocks, Does, Request
    <2> QED
      BY <1>1, <2>1, <2>3, <2>6, ShelfRead DEF StillSo
  <1> QED
    BY <1>2, <1>3, <1>4, <1>5, <1>6

-----------------------------------------------------------------------------
(* What is written leaves the other counter's request as it was. *)

LEMMA ReturnKeepsShelf ==
  ASSUME OneCounterEach, ShelfInvariant, LendingInvariant', NEW d \in Desks, ReturnCommits(d)
  PROVE  ShelfInvariant'
  <1>1. PICK r : r = Idle
    OBVIOUS
  <1>2. PICK c, l, n : c = desk[d].copy /\ l = desk[d].loan /\ n = desk[d].next
    OBVIOUS
  <1>3. /\ TypeOK /\ RequestOK(desk[d], hold) /\ StillSo(desk[d], copy, loan, hold)
        /\ ShelvesOK(copy, loan, hold) /\ OneOpenLoan /\ desk[d].op = "return"
        /\ Becomes(d, r) /\ r.op = "none" /\ StillSo(r, copy', loan', hold')
    BY <1>1, IdleStillSo DEF ReturnCommits, Does, Ends, Idle, ShelfInvariant, LendingInvariant,
                             QueueInvariant
  <1>4. /\ c \in Copies /\ l \in Loans /\ n \in {0} \cup Holds /\ 0 \notin Holds
        /\ loan[l].open /\ loan[l].copy = c
    BY <1>2, <1>3, HoldsAreNumbers DEF RequestOK, Request, StillSo
  <1>5. /\ loan' = Closed(l) /\ copy' = Shelved(c, IF n = 0 THEN "AVAILABLE" ELSE "RESERVED")
        /\ hold' = [g \in Holds |-> IF g = n THEN MadeReady(hold[g], c) ELSE hold[g]]
    BY <1>2 DEF ReturnCommits
  <1>6. /\ \A k \in Loans : loan'[k].copy = loan[k].copy
        /\ \A k \in Loans \ {l} : loan'[k].open = loan[k].open
        /\ ~loan'[l].open
    BY <1>3, <1>4, <1>5 DEF Closed, TypeOK, LoanRow
  <1>7. /\ copy'[c].status = IF n = 0 THEN "AVAILABLE" ELSE "RESERVED"
        /\ \A b \in Copies \ {c} : copy'[b] = copy[b]
    BY <1>3, <1>4, <1>5 DEF Shelved, TypeOK, CopyRow
  <1>8. /\ \A g \in Holds \ {n} : hold'[g] = hold[g]
        /\ n # 0 => hold'[n].status = "READY" /\ hold'[n].held = c
    BY <1>3, <1>4, <1>5 DEF MadeReady, TypeOK, HoldRow
  <1>9. copy[c].status = "ISSUED" /\ (\A k \in OpenOf(loan, c) : k = l)
        /\ \A g \in Holds : ~Ready(hold, g, c)
    BY <1>3, <1>4 DEF ShelvesOK, OpenOf, OneOpenLoan, Ready
  <1>10. ASSUME NEW b \in Copies PROVE copy'[b].status = "ISSUED" <=> OpenOf(loan', b) # {}
    <2>1. CASE b = c
      BY <1>6, <1>7, <1>9, <2>1 DEF OpenOf
    <2>2. CASE b # c
      <3>1. OpenOf(loan', b) = OpenOf(loan, b)
        BY <1>4, <1>6, <2>2 DEF OpenOf
      <3> QED
        BY <1>3, <1>7, <2>2, <3>1 DEF ShelvesOK
    <2> QED
      BY <2>1, <2>2
  <1>11. ASSUME NEW h \in Holds, hold'[h].status = "READY"
         PROVE  copy'[hold'[h].held].status = "RESERVED" /\ OnlyFor(hold', hold'[h].held, h)
    <2>1. CASE h = n
      BY <1>4, <1>7, <1>8, <1>9, <2>1 DEF OnlyFor, Ready
    <2>2. CASE h # n
      <3>1. hold[h].status = "READY" /\ hold[h].held \in Copies /\ hold[h].held # c
        BY <1>3, <1>8, <1>9, <1>11, <2>2 DEF Ready, TypeOK, HoldRow
      <3>2. /\ hold'[h] = hold[h] /\ OnlyFor(hold, hold[h].held, h)
            /\ copy[hold[h].held].status = "RESERVED"
        BY <1>3, <1>8, <2>2, <3>1 DEF ShelvesOK
      <3>3. copy'[hold[h].held] = copy[hold[h].held]
        BY <1>7, <3>1
      <3>4. ASSUME NEW g \in Holds, Ready(hold', g, hold[h].held) PROVE g = h
        <4>1. g # n
          BY <1>4, <1>8, <3>1, <3>4 DEF Ready
        <4> QED
          BY <1>8, <3>2, <3>4, <4>1 DEF OnlyFor, Ready
      <3> QED
        BY <3>2, <3>3, <3>4 DEF OnlyFor
    <2> QED
      BY <2>1, <2>2
  <1>12. ASSUME NEW e \in Desks \ {d} PROVE StillSo(desk[e], copy', loan', hold')
    <2>1. /\ desk[e].op \notin TakesIn /\ StillSo(desk[e], copy, loan, hold)
          /\ RequestOK(desk[e], hold)
      BY <1>3, Alone DEF TakesIn, ShelfInvariant, LendingInvariant, QueueInvariant
    <2>2. ASSUME NEW b \in Copies, b # c, NEW h, KeptOnly(copy, hold, b, h)
          PROVE  KeptOnly(copy', hold', b, h)
      BY <1>4, <1>7, <1>8, <2>2 DEF KeptOnly, OnlyFor, Ready
    <2>3. ASSUME NEW h, KeptOnly(copy, hold, c, h) PROVE FALSE
      BY <1>9, <2>3 DEF KeptOnly
    <2>4. CASE desk[e].op = "issue" /\ desk[e].at = "tx"
      <3>1. desk[e].copy \in Copies /\ OpenLoans(desk[e].copy) = {}
        BY <2>1, <2>4 DEF RequestOK, Lends, ShelfInvariant, LendingInvariant, LendersExclude
      <3>2. desk[e].copy # c
        BY <1>4, <3>1, OpenLoansAreOpen DEF OpenOf
      <3> QED
        BY <1>8, <1>4, <2>1, <2>4, <3>2 DEF StillSo, OnlyFor, Ready
    <2>5. CASE desk[e].op = "cancel"
      <3>1. desk[e].copy \in Copies \cup {None}
        BY <2>1 DEF RequestOK, Request
      <3> QED
        BY <2>1, <2>2, <2>3, <2>5, <3>1 DEF StillSo
    <2>6. CASE desk[e].op = "sweep"
      <3>1. \A x \in desk[e].todo : x[2] \in Copies
        BY <2>1 DEF RequestOK, Request
      <3> QED
        BY <2>1, <2>2, <2>3, <2>6, <3>1 DEF StillSo
    <2> QED
      BY <2>1, <2>4, <2>5, <2>6 DEF StillSo, TakesIn
  <1>13. ShelvesOK(copy', loan', hold')
    BY <1>10, <1>11 DEF ShelvesOK
  <1> QED
    BY <1>3, <1>12, <1>13, ShelfStep

LEMMA MarkKeepsShelf ==
  ASSUME OneCounterEach, ShelfInvariant, LendingInvariant', NEW d \in Desks, MarkCommits(d)
  PROVE  ShelfInvariant'
  <1>1. PICK r : r = Idle
    OBVIOUS
  <1>2. PICK c, l, s : c = desk[d].copy /\ l = desk[d].loan /\ s = desk[d].mark
    OBVIOUS
  <1>3. /\ TypeOK /\ RequestOK(desk[d], hold) /\ StillSo(desk[d], copy, loan, hold)
        /\ ShelvesOK(copy, loan, hold) /\ desk[d].op = "mark" /\ desk[d].at = "tx"
        /\ Becomes(d, r) /\ r.op = "none" /\ StillSo(r, copy', loan', hold')
    BY <1>1, IdleStillSo DEF MarkCommits, Does, Ends, Idle, ShelfInvariant, LendingInvariant,
                             QueueInvariant
  <1>4. /\ c \in Copies /\ l \in {0} \cup Loans /\ 0 \notin Loans /\ s \in WriteOff
        /\ (\A k \in OpenOf(loan, c) : k = l) /\ (l # 0 => loan[l].copy = c)
        /\ copy[c].status # "RESERVED"
    BY <1>2, <1>3, HoldsAreNumbers DEF RequestOK, Request, StillSo
  <1>5. /\ loan' = (IF l = 0 THEN loan ELSE Closed(l)) /\ copy' = Shelved(c, s) /\ hold' = hold
    BY <1>2 DEF MarkCommits
  <1>6. /\ \A k \in Loans : loan'[k].copy = loan[k].copy
        /\ \A k \in Loans \ {l} : loan'[k].open = loan[k].open
        /\ l # 0 => ~loan'[l].open
    <2>1. CASE l = 0
      BY <1>5, <2>1
    <2>2. CASE l # 0
      BY <1>3, <1>4, <1>5, <2>2 DEF Closed, TypeOK, LoanRow
    <2> QED
      BY <2>1, <2>2
  <1>7. copy'[c].status = s /\ \A b \in Copies \ {c} : copy'[b] = copy[b]
    BY <1>3, <1>4, <1>5 DEF Shelved, TypeOK, CopyRow
  <1>8. ASSUME NEW b \in Copies PROVE copy'[b].status = "ISSUED" <=> OpenOf(loan', b) # {}
    <2>1. CASE b = c
      <3>1. OpenOf(loan', b) = {}
        BY <1>4, <1>6, <2>1 DEF OpenOf
      <3>2. s # "ISSUED"
        BY <1>4 DEF WriteOff
      <3> QED
        BY <1>7, <2>1, <3>1, <3>2
    <2>2. CASE b # c
      <3>1. OpenOf(loan', b) = OpenOf(loan, b)
        BY <1>4, <1>6, <2>2 DEF OpenOf
      <3> QED
        BY <1>3, <1>7, <2>2, <3>1 DEF ShelvesOK
    <2> QED
      BY <2>1, <2>2
  <1>9. \A b \in Copies : copy[b].status = "RESERVED" => copy'[b] = copy[b]
    BY <1>4, <1>7
  <1>10. ASSUME NEW h \in Holds, hold'[h].status = "READY"
         PROVE  copy'[hold'[h].held].status = "RESERVED" /\ OnlyFor(hold', hold'[h].held, h)
    <2>1. hold[h].held \in Copies
      BY <1>3, <1>5, <1>10 DEF TypeOK, HoldRow
    <2> QED
      BY <1>3, <1>5, <1>9, <1>10, <2>1 DEF ShelvesOK
  <1>11. ASSUME NEW e \in Desks \ {d} PROVE StillSo(desk[e], copy', loan', hold')
    <2>1. /\ desk[e].op \notin TakesIn /\ StillSo(desk[e], copy, loan, hold)
          /\ RequestOK(desk[e], hold)
      BY <1>3, Alone DEF TakesIn, ShelfInvariant, LendingInvariant, QueueInvariant
    <2>2. ASSUME NEW b \in Copies, NEW h, KeptOnly(copy, hold, b, h)
          PROVE  KeptOnly(copy', hold', b, h)
      BY <1>5, <1>9, <2>2 DEF KeptOnly
    <2>3. CASE desk[e].op = "issue" /\ desk[e].at = "tx"
      BY <1>5, <2>1, <2>3 DEF StillSo
    <2>4. CASE desk[e].op = "cancel"
      <3>1. desk[e].copy \in Copies \cup {None}
        BY <2>1 DEF RequestOK, Request
      <3> QED
        BY <2>1, <2>2, <2>4, <3>1 DEF StillSo
    <2>5. CASE desk[e].op = "sweep"
      <3>1. \A x \in desk[e].todo : x[2] \in Copies
        BY <2>1 DEF RequestOK, Request
      <3> QED
        BY <2>1, <2>2, <2>5, <3>1 DEF StillSo
    <2> QED
      BY <2>1, <2>3, <2>4, <2>5 DEF StillSo, TakesIn
  <1>12. ShelvesOK(copy', loan', hold')
    BY <1>8, <1>10 DEF ShelvesOK
  <1> QED
    BY <1>3, <1>11, <1>12, ShelfStep

LEMMA IssueKeepsShelf ==
  ASSUME OneCounterEach, ShelfInvariant, LendingInvariant', NEW d \in Desks, IssueCommits(d)
  PROVE  ShelfInvariant'
  <1>1. PICK r : r = Idle
    OBVIOUS
  <1>2. PICK c, m, h, o :
          c = desk[d].copy /\ m = desk[d].member /\ h = desk[d].next /\ o = desk[d].override
    OBVIOUS
  <1>3. /\ TypeOK /\ RequestOK(desk[d], hold) /\ StillSo(desk[d], copy, loan, hold)
        /\ ShelvesOK(copy, loan, hold) /\ Lends(d) /\ OpenLoans(c) = {}
        /\ Becomes(d, r) /\ r.op = "none" /\ StillSo(r, copy', loan', hold')
    BY <1>1, <1>2, IdleStillSo DEF IssueCommits, Does, Ends, Idle, ShelfInvariant,
         LendingInvariant, QueueInvariant, Lends, LendersExclude
  <1>4. c \in Copies /\ OpenOf(loan, c) = {} /\ OnlyFor(hold, c, h)
    BY <1>2, <1>3, OpenLoansAreOpen DEF RequestOK, StillSo, Lends
  <1>5. PICK l \in Loans :
          /\ loan[l] = NoLoan
          /\ loan' = [loan EXCEPT ![l] = [copy |-> c, member |-> m, open |-> TRUE, override |-> o]]
    BY <1>2 DEF IssueCommits
  <1>6. /\ loan'[l].copy = c /\ loan'[l].open /\ ~loan[l].open /\ loan[l].copy = None
        /\ \A k \in Loans \ {l} : loan'[k] = loan[k]
    BY <1>3, <1>5 DEF TypeOK, NoLoan
  <1>7. copy'[c].status = "ISSUED" /\ \A b \in Copies \ {c} : copy'[b] = copy[b]
    BY <1>2, <1>3, <1>4 DEF IssueCommits, Shelved, TypeOK, CopyRow
  <1>8. \A g \in Holds : hold'[g].status = "READY" => g # h /\ hold'[g] = hold[g]
    <2>1. hold' = [g \in Holds |->
                     IF g # h THEN hold[g]
                     ELSE EndedAs(hold[g], IF hold[g].member = m THEN "FULFILLED"
                                                                 ELSE "CANCELLED")]
      BY <1>2 DEF IssueCommits
    <2>2. \A g \in Holds : hold'[g] = hold[g] \/ (g = h /\ hold'[g].status \in Ended)
      BY <1>3, <2>1 DEF EndedAs, TypeOK, HoldRow, Ended
    <2>3. \A g \in Holds : g = h => hold'[g].status \in Ended
      BY <1>3, <2>1 DEF EndedAs, TypeOK, HoldRow, Ended
    <2> QED
      BY <2>2, <2>3 DEF Ended
  <1>9. ASSUME NEW b \in Copies PROVE copy'[b].status = "ISSUED" <=> OpenOf(loan', b) # {}
    <2>1. CASE b = c
      BY <1>6, <1>7, <2>1 DEF OpenOf
    <2>2. CASE b # c
      <3>1. OpenOf(loan', b) = OpenOf(loan, b)
        BY <1>6, <2>2 DEF OpenOf
      <3> QED
        BY <1>3, <1>7, <2>2, <3>1 DEF ShelvesOK
    <2> QED
      BY <2>1, <2>2
  <1>10. ASSUME NEW g \in Holds, hold'[g].status = "READY"
         PROVE  copy'[hold'[g].held].status = "RESERVED" /\ OnlyFor(hold', hold'[g].held, g)
    <2>1. hold'[g] = hold[g] /\ hold[g].held \in Copies \ {c}
      BY <1>3, <1>4, <1>8, <1>10 DEF TypeOK, HoldRow, OnlyFor, Ready
    <2>2. OnlyFor(hold', hold'[g].held, g)
      BY <1>3, <1>8, <1>10, <2>1 DEF ShelvesOK, OnlyFor, Ready
    <2> QED
      BY <1>3, <1>7, <1>10, <2>1, <2>2 DEF ShelvesOK
  <1>11. ASSUME NEW e \in Desks \ {d} PROVE StillSo(desk[e], copy', loan', hold')
    <2>1. /\ desk[e].op \notin GivesOut /\ StillSo(desk[e], copy, loan, hold)
          /\ RequestOK(desk[e], hold)
      BY <1>3, Alone DEF GivesOut, Lends, ShelfInvariant, LendingInvariant, QueueInvariant
    <2>2. CASE desk[e].op = "return"
      <3>1. desk[e].loan \in Loans /\ loan[desk[e].loan].open
        BY <2>1, <2>2 DEF RequestOK, StillSo
      <3> QED
        BY <1>6, <2>1, <2>2, <3>1 DEF StillSo
    <2>3. CASE desk[e].op = "mark"
      <3>1. /\ desk[e].copy \in Copies /\ desk[e].loan \in {0} \cup Loans
            /\ copy[desk[e].copy].status # "RESERVED"
        BY <2>1, <2>3 DEF RequestOK, Request, StillSo
      <3>2. copy'[desk[e].copy].status # "RESERVED"
        BY <1>7, <3>1
      <3>3. CASE desk[e].at = "tx"
        <4>1. desk[e].copy # c
          BY <1>2, <1>3, <2>3, <3>3 DEF Marks, ShelfInvariant
        <4>2. OpenOf(loan', desk[e].copy) = OpenOf(loan, desk[e].copy)
          BY <1>6, <4>1 DEF OpenOf
        <4>3. desk[e].loan # 0 => loan'[desk[e].loan].copy = desk[e].copy
          <5> SUFFICES ASSUME desk[e].loan # 0 PROVE loan'[desk[e].loan].copy = desk[e].copy
            OBVIOUS
          <5>1. loan[desk[e].loan].copy = desk[e].copy
            BY <2>1, <2>3, <3>3 DEF StillSo
          <5>2. desk[e].loan # l
            BY <1>6, <3>1, <5>1, NoneIsNobody
          <5> QED
            BY <1>6, <3>1, <5>1, <5>2
        <4> QED
          BY <2>1, <2>3, <3>2, <3>3, <4>2, <4>3 DEF StillSo
      <3>4. CASE desk[e].at # "tx"
        BY <2>3, <3>2, <3>4 DEF StillSo
      <3> QED
        BY <3>3, <3>4
    <2> QED
      BY <2>1, <2>2, <2>3 DEF StillSo, GivesOut
  <1>12. ShelvesOK(copy', loan', hold')
    BY <1>9, <1>10 DEF ShelvesOK
  <1> QED
    BY <1>3, <1>11, <1>12, ShelfStep

\* A hold is ended and its copy passed on, or put back; the rest of a sweep's
\* list is as it was.
LEMMA EndingKeepsShelf ==
  ASSUME OneCounterEach, ShelfInvariant, LendingInvariant', NEW d \in Desks,
         CancelCommits(d) \/ SweepCommits(d)
  PROVE  ShelfInvariant'
  <1>1. PICK status : status \in Ended /\ EndHold(d, status)
    BY DEF CancelCommits, SweepCommits, Ended
  <1>2. PICK h, c, n, todo :
          h = desk[d].hold /\ c = desk[d].copy /\ n = desk[d].next /\ todo = desk[d].todo
    OBVIOUS
  <1>3. /\ TypeOK /\ RequestOK(desk[d], hold) /\ StillSo(desk[d], copy, loan, hold)
        /\ ShelvesOK(copy, loan, hold) /\ desk[d].op \in {"cancel", "sweep"} /\ desk[d].at = "tx"
        /\ desk[d].op \in Ops[d]
    BY <1>1 DEF CancelCommits, SweepCommits, EndHold, ShelfInvariant, LendingInvariant,
         QueueInvariant
  <1>4. /\ c \in Copies \cup {None} /\ h \in Holds /\ n \in {0} \cup Holds /\ 0 \notin Holds
        /\ n # 0 => c \in Copies
        /\ todo \subseteq Holds \X Copies
    BY <1>2, <1>3, HoldsAreNumbers DEF RequestOK, Request, Picks, EndsAHold
  <1>5. c # None => copy[c].status = "RESERVED" /\ OnlyFor(hold, c, h)
    <2>1. CASE desk[d].op = "cancel"
      BY <1>2, <1>3, <2>1 DEF StillSo, KeptOnly
    <2>2. CASE desk[d].op = "sweep"
      <3>1. /\ <<h, c>> \in todo
            /\ \A x \in todo : KeptOnly(copy, hold, x[2], x[1])
        BY <1>2, <1>3, <2>2 DEF StillSo
      <3> QED
        BY <3>1 DEF KeptOnly
    <2> QED
      BY <1>3, <2>1, <2>2
  <1>6. /\ loan' = loan
        /\ copy' = (IF c # None /\ n = 0 THEN Shelved(c, "AVAILABLE") ELSE copy)
        /\ hold' = [g \in Holds |-> IF g = h THEN EndedAs(hold[g], status)
                                    ELSE IF g = n THEN MadeReady(hold[g], c) ELSE hold[g]]
    BY <1>1, <1>2 DEF EndHold
  <1>7. \A b \in Copies : \/ copy'[b] = copy[b]
                          \/ b = c /\ n = 0 /\ copy'[b].status = "AVAILABLE"
    <2>1. CASE c # None /\ n = 0
      BY <1>3, <1>4, <1>6, <2>1 DEF Shelved, TypeOK, CopyRow
    <2>2. CASE ~(c # None /\ n = 0)
      BY <1>6, <2>2
    <2> QED
      BY <2>1, <2>2
  <1>8. \A g \in Holds : hold'[g].status = "READY" =>
          g # h /\ (IF g = n THEN hold'[g].held = c ELSE hold'[g] = hold[g])
    <2>1. \A g \in Holds : g = h => hold'[g].status = status
      BY <1>3, <1>6 DEF EndedAs, TypeOK, HoldRow
    <2>2. \A g \in Holds : g # h /\ g = n => hold'[g].held = c
      BY <1>3, <1>6 DEF MadeReady, TypeOK, HoldRow
    <2>3. \A g \in Holds : g # h /\ g # n => hold'[g] = hold[g]
      BY <1>6
    <2> QED
      BY <1>1, <2>1, <2>2, <2>3 DEF Ended
  <1>9. \A b \in Copies, g \in Holds : Ready(hold', g, b) =>
          g # h /\ IF b = c THEN g = n ELSE g # n /\ Ready(hold, g, b)
    <2> SUFFICES ASSUME NEW b \in Copies, NEW g \in Holds, Ready(hold', g, b)
                 PROVE  g # h /\ IF b = c THEN g = n ELSE g # n /\ Ready(hold, g, b)
      OBVIOUS
    <2>1. g # h /\ (IF g = n THEN hold'[g].held = c ELSE hold'[g] = hold[g])
      BY <1>8 DEF Ready
    <2>2. ASSUME b = c, g # n PROVE FALSE
      BY <1>5, <2>1, <2>2, NoneIsNobody DEF Ready, OnlyFor
    <2> QED
      BY <2>1, <2>2 DEF Ready
  <1>10. ASSUME NEW b \in Copies PROVE copy'[b].status = "ISSUED" <=> OpenOf(loan', b) # {}
    BY <1>3, <1>4, <1>5, <1>6, <1>7, NoneIsNobody DEF ShelvesOK
  <1>11. ASSUME NEW g \in Holds, hold'[g].status = "READY"
         PROVE  copy'[hold'[g].held].status = "RESERVED" /\ OnlyFor(hold', hold'[g].held, g)
    <2>1. g # h /\ (IF g = n THEN hold'[g].held = c ELSE hold'[g] = hold[g])
      BY <1>8, <1>11
    <2>2. CASE g = n
      <3>1. c \in Copies /\ c # None /\ copy' = copy
        BY <1>4, <1>6, <2>2, NoneIsNobody
      <3> QED
        BY <1>5, <1>9, <2>1, <2>2, <3>1 DEF OnlyFor
    <2>3. CASE g # n
      <3>1. hold'[g] = hold[g] /\ hold[g].status = "READY" /\ hold[g].held \in Copies
        BY <1>3, <1>11, <2>1, <2>3 DEF TypeOK, HoldRow
      <3>2. hold[g].held # c
        BY <1>9, <1>11, <2>3, <3>1 DEF Ready
      <3>3. OnlyFor(hold', hold[g].held, g)
        BY <1>3, <1>9, <3>1, <3>2 DEF OnlyFor, ShelvesOK
      <3> QED
        BY <1>3, <1>7, <3>1, <3>2, <3>3 DEF ShelvesOK
    <2> QED
      BY <2>2, <2>3
  <1>12. ASSUME NEW e \in Desks \ {d} PROVE StillSo(desk[e], copy', loan', hold')
    <2>1. /\ desk[e].op \notin GivesOut /\ StillSo(desk[e], copy, loan, hold)
          /\ RequestOK(desk[e], hold)
      BY <1>3, Alone DEF GivesOut, ShelfInvariant, LendingInvariant, QueueInvariant
    <2>2. desk[e].op = "mark" => copy'[desk[e].copy].status # "RESERVED"
      BY <1>7, <2>1 DEF RequestOK, StillSo
    <2> QED
      BY <1>6, <2>1, <2>2 DEF StillSo, GivesOut
  <1>13. ShelvesOK(copy', loan', hold')
    BY <1>10, <1>11 DEF ShelvesOK
  <1>14. PICK r : Becomes(d, r) /\ r.op \in Ops[d] \cup {"none"} /\ r.at # "tx"
                  /\ StillSo(r, copy', loan', hold')
    <2>1. CASE CancelCommits(d)
      BY <2>1, IdleStillSo DEF CancelCommits, Ends, Idle
    <2>2. CASE SweepCommits(d)
      <3>1. PICK left : left = {lapsed \in todo : lapsed[1] # h}
        OBVIOUS
      <3>2. PICK r : r = IF left = {} THEN Idle
                         ELSE [Idle EXCEPT !.op = "sweep", !.at = "read", !.todo = left]
        OBVIOUS
      <3>3. Becomes(d, r) /\ desk[d].op = "sweep"
        BY <1>2, <2>2, <3>1, <3>2 DEF SweepCommits
      <3>4. CASE left = {}
        BY <3>2, <3>3, <3>4, IdleStillSo DEF Idle
      <3>5. CASE left # {}
        <4>1. r.op = "sweep" /\ r.at = "read" /\ r.todo = left
          BY <3>2, <3>5 DEF Idle
        <4>2. /\ <<h, c>> \in todo /\ \A x \in todo : KeptOnly(copy, hold, x[2], x[1])
              /\ \A x, y \in todo : x[2] = y[2] => x = y
          BY <1>2, <1>3, <3>3 DEF StillSo
        <4>3. ASSUME NEW x \in left PROVE KeptOnly(copy', hold', x[2], x[1])
          <5>1. x \in todo /\ x[1] # h /\ x[2] \in Copies /\ KeptOnly(copy, hold, x[2], x[1])
            BY <1>4, <3>1, <4>2
          <5>2. x[2] # c
            <6>1. CASE x[2] = c
              <7>1. x = <<h, c>>
                BY <4>2, <5>1, <6>1
              <7> QED
                BY <5>1, <7>1
            <6> QED
              BY <6>1
          <5> QED
            BY <1>7, <1>9, <5>1, <5>2 DEF KeptOnly, OnlyFor
        <4>4. \A x, y \in left : x[2] = y[2] => x = y
          BY <3>1, <4>2
        <4>5. StillSo(r, copy', loan', hold')
          BY <4>1, <4>3, <4>4 DEF StillSo
        <4> QED
          BY <1>3, <3>3, <4>1, <4>5
      <3> QED
        BY <3>4, <3>5
    <2> QED
      BY <2>1, <2>2
  <1> QED
    BY <1>12, <1>13, <1>14, ShelfStep

\* New copies, copies taken out and holds placed touch no shelf, and so does a
\* request that is given up.
LEMMA SameShelves ==
  ASSUME ShelfInvariant, loan' = loan,
         \A c \in Copies : \/ copy'[c].status = copy[c].status
                           \/ copy[c].status = "absent" /\ copy'[c].status = "AVAILABLE",
         \A h \in Holds : hold'[h] = hold[h]
                           \/ (hold[h].status = "absent" /\ hold'[h].status = "ACTIVE")
  PROVE  /\ ShelvesOK(copy', loan', hold')
         /\ \A d \in Desks : StillSo(desk[d], copy', loan', hold')
  <1>1. ShelvesOK(copy, loan, hold) /\ TypeOK
    BY DEF ShelfInvariant, LendingInvariant, QueueInvariant
  <1>2. \A h \in Holds : hold'[h].status = "READY" => hold'[h] = hold[h] /\ hold[h].held \in Copies
    BY <1>1 DEF TypeOK, HoldRow
  <1>3. \A c \in Copies :
          copy[c].status \in {"ISSUED", "RESERVED"} \/ copy'[c].status \in {"ISSUED", "RESERVED"}
            => copy'[c].status = copy[c].status
    OBVIOUS
  <1>4. \A c, h : OnlyFor(hold, c, h) => OnlyFor(hold', c, h)
    BY <1>2 DEF OnlyFor, Ready
  <1>5. ShelvesOK(copy', loan', hold')
    BY <1>1, <1>2, <1>3, <1>4 DEF ShelvesOK
  <1>6. ASSUME NEW d \in Desks PROVE StillSo(desk[d], copy', loan', hold')
    <2>1. StillSo(desk[d], copy, loan, hold) /\ RequestOK(desk[d], hold)
      BY DEF ShelfInvariant, LendingInvariant, QueueInvariant
    <2>2. \A c \in Copies : \A h : KeptOnly(copy, hold, c, h) => KeptOnly(copy', hold', c, h)
      BY <1>3, <1>4 DEF KeptOnly
    <2>3. desk[d].op = "mark" => copy'[desk[d].copy].status # "RESERVED"
      BY <1>3, <2>1 DEF StillSo, RequestOK
    <2>4. desk[d].op = "cancel" /\ desk[d].copy # None =>
            KeptOnly(copy', hold', desk[d].copy, desk[d].hold)
      BY <2>1, <2>2 DEF StillSo, RequestOK, Request
    <2>5. desk[d].op = "sweep" => \A x \in desk[d].todo : KeptOnly(copy', hold', x[2], x[1])
      <3>1. \A x \in desk[d].todo : x[2] \in Copies
        BY <2>1 DEF RequestOK, Request
      <3> QED
        BY <2>1, <2>2, <3>1 DEF StillSo
    <2> QED
      BY <1>4, <2>1, <2>3, <2>4, <2>5 DEF StillSo
  <1> QED
    BY <1>5, <1>6

LEMMA OthersKeepShelf ==
  ASSUME ShelfInvariant, LendingInvariant', NEW d \in Desks,
         Generate(d) \/ RemoveDeletes(d) \/ ReserveInserts(d) \/ Abandon(d)
  PROVE  ShelfInvariant'
  <1>1. /\ loan' = loan /\ TypeOK
        /\ RequestOK(desk[d], hold)
    BY DEF Generate, RemoveDeletes, ReserveInserts, Abandon, ShelfInvariant, LendingInvariant,
           QueueInvariant
  <1>2. \A c \in Copies : \/ copy'[c].status = copy[c].status
                          \/ copy[c].status = "absent" /\ copy'[c].status = "AVAILABLE"
    <2>1. CASE Generate(d)
      <3>1. PICK c \in Copies : copy[c].status = "absent" /\ copy' = Shelved(c, "AVAILABLE")
        BY <2>1 DEF Generate
      <3> QED
        BY <1>1, <3>1 DEF Shelved, TypeOK, CopyRow
    <2>2. CASE RemoveDeletes(d)
      <3>1. PICK c : c = desk[d].copy
        OBVIOUS
      <3>2. c \in Copies /\ copy' = [copy EXCEPT ![c].deleted = TRUE]
        BY <1>1, <2>2, <3>1 DEF RemoveDeletes, Does, RequestOK
      <3> QED
        BY <1>1, <3>2 DEF TypeOK, CopyRow
    <2>3. CASE ReserveInserts(d) \/ Abandon(d)
      BY <2>3 DEF ReserveInserts, Abandon
    <2> QED
      BY <2>1, <2>2, <2>3
  <1>3. \A h \in Holds : hold'[h] = hold[h]
                          \/ (hold[h].status = "absent" /\ hold'[h].status = "ACTIVE")
    <2>1. CASE ReserveInserts(d)
      <3>1. PICK t, m : t = desk[d].title /\ m = desk[d].member
        OBVIOUS
      <3>2. PICK row : row = [title |-> t, member |-> m, status |-> "ACTIVE", held |-> None]
        OBVIOUS
      <3>3. PICK h \in Holds : hold[h].status = "absent" /\ hold' = [hold EXCEPT ![h] = row]
        BY <2>1, <3>1, <3>2 DEF ReserveInserts
      <3> QED
        BY <1>1, <3>2, <3>3 DEF TypeOK
    <2>2. CASE Generate(d) \/ RemoveDeletes(d) \/ Abandon(d)
      BY <2>2 DEF Generate, RemoveDeletes, Abandon
    <2> QED
      BY <2>1, <2>2
  <1>4. /\ ShelvesOK(copy', loan', hold')
        /\ \A e \in Desks : StillSo(desk[e], copy', loan', hold')
    BY <1>1, <1>2, <1>3, SameShelves
  <1>5. CASE Generate(d)
    <2>1. desk' = desk
      BY <1>5 DEF Generate
    <2> QED
      BY <1>4, <2>1 DEF ShelfInvariant, Marks, Lends
  <1>6. CASE RemoveDeletes(d) \/ ReserveInserts(d) \/ Abandon(d)
    <2>1. PICK r : r = Idle
      OBVIOUS
    <2>2. Becomes(d, r) /\ r.op = "none" /\ StillSo(r, copy', loan', hold')
      BY <1>6, <2>1, IdleStillSo DEF RemoveDeletes, ReserveInserts, Abandon, Ends, Idle
    <2> QED
      BY <1>4, <2>2, ShelfStep
  <1> QED
    BY <1>5, <1>6

LEMMA InitShelf == Init => ShelfInvariant
  <1> SUFFICES ASSUME Init PROVE ShelfInvariant
    OBVIOUS
  <1>1. /\ \A l \in Loans : ~loan[l].open
        /\ \A h \in Holds : hold[h].status = "absent"
        /\ \A c \in Copies : copy[c].status \in {"absent", "AVAILABLE"}
        /\ \A d \in Desks : desk[d] = Idle
    BY DEF Init, NoLoan, NoHold
  <1>2. LendingInvariant
    BY LendingInit
  <1>3. ShelvesOK(copy, loan, hold)
    BY <1>1 DEF ShelvesOK, OpenOf
  <1>4. ASSUME NEW d \in Desks
        PROVE  ~Lends(d) /\ desk[d].op = "none" /\ StillSo(desk[d], copy, loan, hold)
    <2>1. desk[d].op = "none"
      BY <1>1 DEF Idle
    <2>2. StillSo(desk[d], copy, loan, hold)
      BY <1>1, IdleStillSo
    <2> QED
      BY <2>1, <2>2 DEF Lends
  <1> QED
    BY <1>2, <1>3, <1>4 DEF ShelfInvariant

LEMMA ShelfNext == OneCounterEach /\ ShelfInvariant /\ [Next]_vars => ShelfInvariant'
  <1> SUFFICES ASSUME OneCounterEach, ShelfInvariant, [Next]_vars PROVE ShelfInvariant'
    OBVIOUS
  <1>1. LendingInvariant'
    BY LendingStep DEF ShelfInvariant
  <1>2. CASE UNCHANGED vars
    BY <1>1, <1>2 DEF vars, ShelfInvariant, Marks, Lends
  <1>3. ASSUME NEW d \in Desks,
               \/ IssueVerdict(d) \/ ReturnFinds(d) \/ MarkReads(d) \/ RemoveCounts(d)
               \/ ReserveReads(d) \/ CancelReads(d) \/ SweepReads(d)
        PROVE  ShelfInvariant'
    BY <1>1, <1>3, ReadersKeepShelf
  <1>4. ASSUME NEW d \in Desks,
               \/ IssueLends(d) \/ ReturnLocks(d) \/ MarkLocks(d) \/ CancelLocks(d)
               \/ SweepLocks(d)
        PROVE  ShelfInvariant'
    BY <1>1, <1>4, LockersKeepShelf
  <1>5. ASSUME NEW d \in Desks,
               \/ IssueCommits(d) \/ ReturnCommits(d) \/ MarkCommits(d) \/ CancelCommits(d)
               \/ SweepCommits(d)
        PROVE  ShelfInvariant'
    BY <1>1, <1>5, IssueKeepsShelf, ReturnKeepsShelf, MarkKeepsShelf, EndingKeepsShelf
  <1>6. ASSUME NEW d \in Desks,
               Generate(d) \/ RemoveDeletes(d) \/ ReserveInserts(d) \/ Abandon(d)
        PROVE  ShelfInvariant'
    BY <1>1, <1>6, OthersKeepShelf
  <1>7. CASE Next
    BY <1>3, <1>4, <1>5, <1>6, <1>7 DEF Next
  <1> QED
    BY <1>2, <1>7

\* While one counter takes books in and one gives them out, a copy is ISSUED
\* exactly while one loan of it is open, for any number of desks that place
\* holds and keep the stock.
THEOREM ShelfTellsTheLoans == OneCounterEach => (Spec => []ShelfMatchesLoans)
  <1> SUFFICES ASSUME OneCounterEach PROVE Spec => []ShelfMatchesLoans
    OBVIOUS
  <1>1. ShelfInvariant => ShelfMatchesLoans
    BY OpenLoansAreOpen DEF ShelfInvariant, LendingInvariant, ShelvesOK, ShelfMatchesLoans
  <1>2. ShelfInvariant /\ [Next]_vars => ShelfInvariant'
    BY ShelfNext
  <1> QED
    BY <1>1, <1>2, InitShelf, PTL DEF Spec

\* And whoever is told their book is ready finds it on the hold shelf.
THEOREM ReadyBooksAreThere == OneCounterEach => (Spec => []ReadyHoldHasItsCopy)
  <1> SUFFICES ASSUME OneCounterEach PROVE Spec => []ReadyHoldHasItsCopy
    OBVIOUS
  <1>1. ShelfInvariant => ReadyHoldHasItsCopy
    BY DEF ShelfInvariant, ShelvesOK, ReadyHoldHasItsCopy
  <1>2. ShelfInvariant /\ [Next]_vars => ShelfInvariant'
    BY ShelfNext
  <1> QED
    BY <1>1, <1>2, InitShelf, PTL DEF Spec

-----------------------------------------------------------------------------
(* The card's limit: what the verdict counted is not overtaken while one    *)
(* counter lends.                                                           *)

OneLender == \A d, e \in Desks : "issue" \in Ops[d] /\ "issue" \in Ops[e] => d = e

WithoutOverride(L, m) == {l \in Loans : L[l].member = m /\ L[l].open /\ ~L[l].override}
OnCard(L, m) == Cardinality(WithoutOverride(L, m))

CardOK(r, L) == r.op = "issue" /\ ~r.override => OnCard(L, r.member) < MaxBooks

CardInvariant ==
  /\ QueueInvariant
  /\ \A d \in Desks : desk[d].op \in Ops[d] \cup {"none"}
  /\ \A m \in Members : OnCard(loan, m) <= MaxBooks
  /\ \A d \in Desks : CardOK(desk[d], loan)

LEMMA CardCounts ==
  ASSUME NEW T, T \subseteq Loans
  PROVE  /\ IsFiniteSet(T) /\ Cardinality(T) \in Nat /\ MaxBooks \in Nat
         /\ \A S : S \subseteq T => Cardinality(S) \in Nat /\ Cardinality(S) <= Cardinality(T)
  <1>1. MaxLoans \in Nat /\ MaxBooks \in Nat
    BY CirculationAssumption
  <1>2. IsFiniteSet(Loans)
    BY <1>1, FS_Interval DEF Loans
  <1>3. IsFiniteSet(T)
    BY <1>2, FS_Subset
  <1>4. ASSUME NEW S, S \subseteq T PROVE Cardinality(S) \in Nat /\ Cardinality(S) <= Cardinality(T)
    BY <1>3, <1>4, FS_Subset, FS_CardinalityType
  <1> QED
    BY <1>1, <1>3, <1>4, FS_CardinalityType

LEMMA FewerOnCard ==
  ASSUME NEW L, NEW K, \A l \in Loans : K[l].open => L[l] = K[l], NEW m
  PROVE  OnCard(K, m) \in Nat /\ OnCard(L, m) \in Nat /\ OnCard(K, m) <= OnCard(L, m)
  <1>1. WithoutOverride(L, m) \subseteq Loans /\ WithoutOverride(K, m) \subseteq WithoutOverride(L, m)
    BY DEF WithoutOverride
  <1> QED
    BY <1>1, CardCounts DEF OnCard

\* Steps that open no loan.
LEMMA OthersKeepCard ==
  ASSUME CardInvariant, QueueInvariant', NEW d \in Desks,
         \A e \in Desks \ {d} : desk'[e] = desk[e],
         desk'[d].op \in Ops[d] \cup {"none"}, CardOK(desk'[d], loan),
         \A l \in Loans : loan'[l].open => loan[l] = loan'[l]
  PROVE  CardInvariant'
  <1>2. \A m : /\ OnCard(loan', m) \in Nat /\ OnCard(loan, m) \in Nat
               /\ OnCard(loan', m) <= OnCard(loan, m)
    BY FewerOnCard
  <1>3. MaxBooks \in Nat
    BY CirculationAssumption
  <1>4. \A m \in Members : OnCard(loan', m) <= MaxBooks
    BY <1>2, <1>3 DEF CardInvariant
  <1>5. ASSUME NEW q, CardOK(q, loan) PROVE CardOK(q, loan')
    BY <1>2, <1>3, <1>5 DEF CardOK
  <1>6. \A e \in Desks : CardOK(desk'[e], loan') /\ desk'[e].op \in Ops[e] \cup {"none"}
    BY <1>5 DEF CardInvariant
  <1> QED
    BY <1>4, <1>6 DEF CardInvariant

LEMMA LendingKeepsCard ==
  ASSUME OneLender, CardInvariant, QueueInvariant', NEW d \in Desks, IssueCommits(d)
  PROVE  CardInvariant'
  <1>1. PICK r : r = Idle
    OBVIOUS
  <1>2. PICK c, m, o : c = desk[d].copy /\ m = desk[d].member /\ o = desk[d].override
    OBVIOUS
  <1>3. /\ Becomes(d, r) /\ r.op = "none" /\ desk[d].op = "issue" /\ "issue" \in Ops[d]
        /\ RequestOK(desk[d], hold) /\ CardOK(desk[d], loan) /\ loan \in [Loans -> LoanRow]
        /\ \A k \in Members : OnCard(loan, k) <= MaxBooks
    BY <1>1 DEF IssueCommits, Ends, Does, Idle, CardInvariant, QueueInvariant, TypeOK
  <1>4. o \in BOOLEAN
    BY <1>2, <1>3 DEF RequestOK, Request
  <1>5. PICK l \in Loans :
          loan' = [loan EXCEPT ![l] = [copy |-> c, member |-> m, open |-> TRUE, override |-> o]]
    BY <1>2 DEF IssueCommits
  <1>6. /\ loan'[l].member = m /\ loan'[l].open /\ loan'[l].override = o
        /\ \A k \in Loans \ {l} : loan'[k] = loan[k]
    BY <1>3, <1>5
  <1>7. ASSUME NEW k \in Members PROVE OnCard(loan', k) <= MaxBooks
    <2>0. PICK S, T : S = WithoutOverride(loan', k) /\ T = WithoutOverride(loan, k)
      OBVIOUS
    <2>1. /\ T \subseteq Loans /\ IsFiniteSet(T) /\ Cardinality(T) \in Nat /\ MaxBooks \in Nat
          /\ Cardinality(T) <= MaxBooks /\ IsFiniteSet(S)
      BY <1>3, <2>0, CardCounts DEF WithoutOverride, OnCard
    <2>2. CASE k = m /\ ~o
      <3>1. S \subseteq T \cup {l}
        BY <1>6, <2>0 DEF WithoutOverride
      <3>2. Cardinality(T) < MaxBooks
        BY <1>2, <1>3, <2>0, <2>2 DEF CardOK, OnCard
      <3>3. /\ IsFiniteSet(T \cup {l}) /\ Cardinality(T \cup {l}) \in Nat
            /\ Cardinality(T \cup {l}) <= Cardinality(T) + 1
        <4>1. IsFiniteSet(T \cup {l})
          BY <2>1, FS_AddElement
        <4>2. Cardinality(T \cup {l}) = Cardinality(T) \/ Cardinality(T \cup {l}) = Cardinality(T) + 1
          BY <2>1, FS_AddElement
        <4> QED
          BY <2>1, <4>1, <4>2, FS_CardinalityType
      <3>4. Cardinality(S) \in Nat /\ Cardinality(S) <= Cardinality(T \cup {l})
        BY <2>1, <3>1, <3>3, FS_Subset, FS_CardinalityType
      <3>5. Cardinality(S) <= MaxBooks
        BY <2>1, <3>2, <3>3, <3>4
      <3> QED
        BY <2>0, <3>5 DEF OnCard
    <2>3. CASE ~(k = m /\ ~o)
      <3>1. S \subseteq T
        BY <1>4, <1>6, <2>0, <2>3 DEF WithoutOverride
      <3>2. Cardinality(S) \in Nat /\ Cardinality(S) <= Cardinality(T)
        BY <2>1, <3>1, CardCounts
      <3> QED
        BY <2>0, <2>1, <3>2 DEF OnCard
    <2> QED
      BY <2>2, <2>3
  <1>8. desk'[d] = r /\ \A e \in Desks \ {d} : desk'[e] = desk[e]
    BY <1>3, BecomesOne DEF CardInvariant
  <1>9. ASSUME NEW e \in Desks PROVE CardOK(desk'[e], loan') /\ desk'[e].op \in Ops[e] \cup {"none"}
    <2>1. CASE e = d
      BY <1>3, <1>8, <2>1 DEF CardOK
    <2>2. CASE e # d
      <3>1. desk[e].op \in Ops[e] \cup {"none"} /\ desk[e].op # "issue"
        BY <1>3, <2>2 DEF CardInvariant, OneLender
      <3> QED
        BY <1>8, <2>2, <3>1 DEF CardOK
    <2> QED
      BY <2>1, <2>2
  <1> QED
    BY <1>7, <1>9 DEF CardInvariant

\* What is asked at a desk, and the verdict.
LEMMA VerdictKeepsCard ==
  ASSUME CardInvariant, QueueInvariant', NEW d \in Desks, IssueVerdict(d)
  PROVE  CardInvariant'
  <1>1. PICK c \in Copies, m \in Members, o \in BOOLEAN :
          /\ MayBorrow(c, m, o)
          /\ Becomes(d, [Idle EXCEPT !.op = "issue", !.at = "read", !.copy = c,
                                     !.member = m, !.override = o])
    BY DEF IssueVerdict
  <1>2. PICK r : r = [Idle EXCEPT !.op = "issue", !.at = "read", !.copy = c,
                                  !.member = m, !.override = o]
    OBVIOUS
  <1>3. /\ Becomes(d, r) /\ r.op = "issue" /\ r.member = m /\ r.override = o
        /\ "issue" \in Ops[d] /\ loan' = loan
        /\ desk'[d] = r /\ \A e \in Desks \ {d} : desk'[e] = desk[e]
    BY <1>1, <1>2, BecomesOne DEF IssueVerdict, Asks, Idle, CardInvariant
  <1>4. CASE o
    BY <1>3, <1>4, OthersKeepCard DEF CardOK
  <1>5. CASE ~o
    <2>1. ~(Cardinality(Borrowed(m)) >= MaxBooks)
      BY <1>1, <1>5 DEF MayBorrow, AtLimit
    <2>2. WithoutOverride(loan, m) \subseteq Borrowed(m) /\ Borrowed(m) \subseteq Loans
      BY DEF WithoutOverride, Borrowed
    <2>3. OnCard(loan, m) < MaxBooks
      <3>1. PICK S, T : S = WithoutOverride(loan, m) /\ T = Borrowed(m)
        OBVIOUS
      <3>2. /\ Cardinality(T) \in Nat /\ MaxBooks \in Nat
            /\ Cardinality(S) \in Nat /\ Cardinality(S) <= Cardinality(T)
        BY <2>2, <3>1, CardCounts
      <3> QED
        BY <2>1, <3>1, <3>2 DEF OnCard
    <2> QED
      BY <1>3, <2>3, OthersKeepCard DEF CardOK
  <1> QED
    BY <1>4, <1>5

LEMMA RestKeepsCard ==
  ASSUME CardInvariant, QueueInvariant', NEW d \in Desks,
         \/ IssueLends(d) \/ ReturnFinds(d) \/ ReturnLocks(d) \/ ReturnCommits(d)
         \/ MarkReads(d) \/ MarkLocks(d) \/ MarkCommits(d)
         \/ RemoveCounts(d) \/ RemoveDeletes(d) \/ ReserveReads(d) \/ ReserveInserts(d)
         \/ CancelReads(d) \/ CancelLocks(d) \/ CancelCommits(d)
         \/ SweepReads(d) \/ SweepLocks(d) \/ SweepCommits(d) \/ Abandon(d)
  PROVE  CardInvariant'
  <1>0. /\ desk \in [Desks -> Request] /\ loan \in [Loans -> LoanRow]
        /\ RequestOK(desk[d], hold) /\ CardOK(desk[d], loan)
        /\ desk[d].op \in Ops[d] \cup {"none"} /\ desk[d] \in Request
    BY DEF CardInvariant, QueueInvariant, TypeOK
  <1>1. \A l \in Loans : loan'[l].open => loan[l] = loan'[l]
    <2>1. CASE loan' = loan
      BY <2>1
    <2>2. CASE ReturnCommits(d) \/ (MarkCommits(d) /\ desk[d].loan # 0)
      <3>1. PICK k : k = desk[d].loan
        OBVIOUS
      <3>2. k \in Loans /\ loan' = Closed(k)
        BY <1>0, <2>2, <3>1 DEF ReturnCommits, MarkCommits, Does, RequestOK, Request
      <3> QED
        BY <1>0, <3>2 DEF Closed, LoanRow
    <2> QED
      BY <2>1, <2>2 DEF IssueLends, ReturnFinds, ReturnLocks, MarkReads, MarkLocks, MarkCommits,
           RemoveCounts, RemoveDeletes, ReserveReads, ReserveInserts, CancelReads, CancelLocks,
           CancelCommits, SweepReads, SweepLocks, SweepCommits, Abandon, Ending, EndHold
  <1>2. ASSUME NEW r, Becomes(d, r), r.op \in Ops[d] \cup {"none"}, CardOK(r, loan)
        PROVE  CardInvariant'
    <2>1. desk'[d] = r /\ \A e \in Desks \ {d} : desk'[e] = desk[e]
      BY <1>2, BecomesOne DEF CardInvariant
    <2> QED
      BY <1>1, <1>2, <2>1, OthersKeepCard
  <1>3. CASE Ends(d)
    <2>1. PICK r : r = Idle
      OBVIOUS
    <2>2. Becomes(d, r) /\ r.op = "none"
      BY <1>3, <2>1 DEF Ends, Idle
    <2> QED
      BY <1>2, <2>2 DEF CardOK
  <1>4. CASE IssueLends(d)
    <2>1. PICK q, n : q = desk[d] /\ n = HeldFor(desk[d].copy)
      OBVIOUS
    <2>2. PICK r : r = [q EXCEPT !.at = "tx", !.next = n]
      OBVIOUS
    <2>3. /\ Becomes(d, r) /\ r.op = q.op /\ r.override = q.override /\ r.member = q.member
      BY <1>0, <1>4, <2>1, <2>2 DEF IssueLends, Request
    <2> QED
      BY <1>0, <1>2, <2>1, <2>3 DEF CardOK
  <1>5. CASE ReturnFinds(d) \/ MarkReads(d) \/ RemoveCounts(d) \/ ReserveReads(d)
             \/ CancelReads(d) \/ SweepReads(d)
    BY <1>0, <1>1, <1>5, ReadersAsk, OthersKeepCard DEF CardOK
  <1>6. CASE ReturnLocks(d) \/ MarkLocks(d) \/ CancelLocks(d) \/ SweepLocks(d)
    BY <1>0, <1>1, <1>6, LockersGoOn, OthersKeepCard DEF CardOK
  <1>7. CASE SweepCommits(d)
    <2>1. PICK left : Becomes(d, IF left = {} THEN Idle
                                 ELSE [Idle EXCEPT !.op = "sweep", !.at = "read", !.todo = left])
      BY <1>7 DEF SweepCommits
    <2>2. PICK r : r = IF left = {} THEN Idle
                       ELSE [Idle EXCEPT !.op = "sweep", !.at = "read", !.todo = left]
      OBVIOUS
    <2>3. Becomes(d, r) /\ r.op \in {"none", "sweep"} /\ desk[d].op = "sweep"
      BY <1>7, <2>1, <2>2 DEF Idle, SweepCommits
    <2> QED
      BY <1>0, <1>2, <2>3 DEF CardOK
  <1> QED
    BY <1>3, <1>4, <1>5, <1>6, <1>7 DEF ReturnCommits, MarkCommits, RemoveDeletes,
       ReserveInserts, CancelCommits, Abandon

LEMMA CardNext == OneLender /\ CardInvariant /\ [Next]_vars => CardInvariant'
  <1> SUFFICES ASSUME OneLender, CardInvariant, [Next]_vars PROVE CardInvariant'
    OBVIOUS
  <1>1. QueueInvariant'
    BY QueueNext DEF CardInvariant
  <1>2. CASE UNCHANGED vars
    BY <1>1, <1>2 DEF vars, CardInvariant
  <1>3. ASSUME NEW d \in Desks, Generate(d) PROVE CardInvariant'
    BY <1>1, <1>3 DEF Generate, CardInvariant
  <1>4. CASE Next
    BY <1>1, <1>3, <1>4, VerdictKeepsCard, LendingKeepsCard, RestKeepsCard DEF Next
  <1> QED
    BY <1>2, <1>4

\* While one counter lends, nobody has more books than their card allows,
\* those lent by override not counted; any number may take books in.
THEOREM CardsAreKept == OneLender => (Spec => []LoansWithinLimit)
  <1> SUFFICES ASSUME OneLender PROVE Spec => []LoansWithinLimit
    OBVIOUS
  <1>1. Init => CardInvariant
    <2> SUFFICES ASSUME Init PROVE CardInvariant
      OBVIOUS
    <2>1. ASSUME NEW m PROVE OnCard(loan, m) <= MaxBooks
      <3>1. WithoutOverride(loan, m) = {}
        BY DEF Init, NoLoan, WithoutOverride
      <3> QED
        BY <3>1, FS_EmptySet, CirculationAssumption DEF OnCard
    <2>2. \A d \in Desks : desk[d].op = "none"
      BY DEF Init, Idle
    <2> QED
      BY <2>1, <2>2, QueueInit DEF CardInvariant, CardOK
  <1>2. CardInvariant /\ [Next]_vars => CardInvariant'
    BY CardNext
  <1>3. CardInvariant => LoansWithinLimit
    <2>1. \A m : {l \in Borrowed(m) : ~loan[l].override} = WithoutOverride(loan, m)
      BY DEF Borrowed, WithoutOverride
    <2> QED
      BY <2>1 DEF CardInvariant, LoansWithinLimit, OnCard
  <1> QED
    BY <1>1, <1>2, <1>3, PTL DEF Spec
=============================================================================
