-------------------- MODULE NotificationDelivery_proofs --------------------
(***************************************************************************)
(* What holds of messages and SMS credit for every number of rows, jobs,   *)
(* attempts, errors and crashes.                                           *)
(*                                                                         *)
(* The argument has one idea: where a worker is says what is still owed.   *)
(* A worker that has not reached the gateway may still send its row, one   *)
(* that has and has not stored the outcome owes a bill or a mark, and a    *)
(* dispatch cut short there is counted in broken.                          *)
(***************************************************************************)
EXTENDS NotificationDelivery, FiniteSetTheorems, TLAPS

\* A worker that is busy holds a job that is in the queue and marked active,
\* and no two hold the same.
HoldsItsJob ==
  /\ \A w \in Workers : ~At(w, "idle") =>
       /\ worker[w].job \in JobIds
       /\ jobs[worker[w].job] # None /\ jobs[worker[w].job].active
  /\ \A w, x \in Workers :
       w # x /\ ~At(w, "idle") /\ ~At(x, "idle") => worker[w].job # worker[x].job

\* The gateway has taken the row of a worker that is past it.
WasAccepted ==
  \A w \in Workers :
    worker[w].at \in {"consume", "charge", "mark"} => \E k \in DOMAIN sent : sent[k].row = RowOf(w)

IsLatest(k, r) ==
  k \in DOMAIN sent /\ sent[k].row = r /\ \A l \in DOMAIN sent : sent[l].row = r => l <= k

LatestKnown ==
  \A r \in Rows : (\E k \in DOMAIN sent : sent[k].row = r) => \E k \in DOMAIN sent : IsLatest(k, r)

DeliveryInv ==
  /\ TypeOK
  /\ HoldsItsJob
  /\ WasAccepted
  /\ LatestKnown

-----------------------------------------------------------------------------
(* What one statement of a worker does to the records. *)

LEMMA IdleTyped ==
  /\ IdleWorker \in Worker /\ IdleWorker.at = "idle" /\ IdleWorker.metered = FALSE
  /\ IdleCaller \in Caller
  BY DEF IdleWorker, Worker, IdleCaller, Caller

LEMMA BusyHasRow ==
  ASSUME TypeOK, HoldsItsJob, NEW w \in Workers, ~At(w, "idle")
  PROVE  /\ RowOf(w) \in Rows
         /\ worker[w].job \in JobIds
         /\ jobs[worker[w].job] \in Job
  <1>1. worker[w].job \in JobIds /\ jobs[worker[w].job] # None
    BY DEF HoldsItsJob
  <1>2. jobs[worker[w].job] \in Job
    BY <1>1 DEF TypeOK
  <1> QED
    BY <1>1, <1>2 DEF RowOf, Job

\* A busy worker that goes on with its job: the others and the row stay.
LEMMA WorkerSteps ==
  ASSUME TypeOK, HoldsItsJob, NEW w \in Workers, ~At(w, "idle"),
         NEW one \in Worker, one.job = worker[w].job, one.at # "idle",
         worker' = [worker EXCEPT ![w] = one], UNCHANGED jobs
  PROVE  /\ worker' \in [Workers -> Worker]
         /\ HoldsItsJob'
         /\ \A x \in Workers : /\ worker'[x] = IF x = w THEN one ELSE worker[x]
                               /\ RowOf(x)' = RowOf(x)
  <1>1. worker \in [Workers -> Worker]
    BY DEF TypeOK
  <1>2. worker' \in [Workers -> Worker] /\ \A x \in Workers : worker'[x] = IF x = w THEN one ELSE worker[x]
    BY <1>1
  <1>3. HoldsItsJob'
    <2> SUFFICES ASSUME NEW x \in Workers, ~At(x, "idle")'
                 PROVE  /\ worker'[x].job \in JobIds
                        /\ jobs'[worker'[x].job] # None /\ jobs'[worker'[x].job].active
                        /\ \A y \in Workers : x # y /\ ~At(y, "idle")'
                             => worker'[x].job # worker'[y].job
      BY DEF HoldsItsJob
    <2>1. \A y \in Workers : ~At(y, "idle")' => ~At(y, "idle") /\ worker'[y].job = worker[y].job
      BY <1>2 DEF At
    <2>2. jobs' = jobs
      OBVIOUS
    <2> QED
      BY <2>1, <2>2 DEF HoldsItsJob
  <1>4. \A x \in Workers : worker'[x].job = worker[x].job
    BY <1>2
  <1> QED
    BY <1>2, <1>3, <1>4 DEF RowOf

LEMMA GoesMoves ==
  ASSUME TypeOK, HoldsItsJob, NEW w \in Workers, ~At(w, "idle"),
         NEW place \in Places, Goes(w, place), UNCHANGED jobs
  PROVE  /\ worker' \in [Workers -> Worker]
         /\ HoldsItsJob'
         /\ \A x \in Workers :
              /\ worker'[x].at = IF x = w THEN place ELSE worker[x].at
              /\ worker'[x].metered = worker[x].metered
              /\ RowOf(x)' = RowOf(x)
  <1> DEFINE one == [worker[w] EXCEPT !.at = place]
  <1>1. worker[w] \in Worker
    BY DEF TypeOK
  <1>2. /\ one \in Worker /\ one.at = place /\ one.at # "idle"
        /\ one.job = worker[w].job /\ one.metered = worker[w].metered
    BY <1>1 DEF Worker, Places
  <1>3. worker' = [worker EXCEPT ![w] = one]
    BY DEF Goes
  <1> HIDE DEF one
  <1>4. /\ worker' \in [Workers -> Worker]
        /\ HoldsItsJob'
        /\ \A x \in Workers : /\ worker'[x] = IF x = w THEN one ELSE worker[x]
                              /\ RowOf(x)' = RowOf(x)
    BY <1>2, <1>3, WorkerSteps
  <1> QED
    BY <1>2, <1>4

\* Gate also notes whether the account is metered.
LEMMA GateMoves ==
  ASSUME TypeOK, HoldsItsJob, NEW w \in Workers, Gate(w)
  PROVE  LET place == IF IsMetered /\ Balance < Parts[RowOf(w)] THEN "fail" ELSE "send"
         IN  /\ worker' \in [Workers -> Worker]
             /\ HoldsItsJob'
             /\ \A x \in Workers :
                  /\ worker'[x].at = IF x = w THEN place ELSE worker[x].at
                  /\ worker'[x].metered = IF x = w THEN IsMetered ELSE worker[x].metered
                  /\ RowOf(x)' = RowOf(x)
  <1> DEFINE place == IF IsMetered /\ Balance < Parts[RowOf(w)] THEN "fail" ELSE "send"
             one == [worker[w] EXCEPT !.at = place, !.metered = IsMetered]
  <1>1. worker[w] \in Worker /\ ~At(w, "idle")
    BY DEF TypeOK, Gate, At
  <1>2. place \in Places /\ place # "idle" /\ IsMetered \in BOOLEAN
    BY DEF Places, IsMetered
  <1>3. worker' = [worker EXCEPT ![w] = one]
    BY DEF Gate
  <1> HIDE DEF place
  <1>4. /\ one \in Worker /\ one.at = place /\ one.at # "idle"
        /\ one.job = worker[w].job /\ one.metered = IsMetered
    BY <1>1, <1>2 DEF Worker
  <1> HIDE DEF one
  <1>5. /\ worker' \in [Workers -> Worker]
        /\ HoldsItsJob'
        /\ \A x \in Workers : /\ worker'[x] = IF x = w THEN one ELSE worker[x]
                              /\ RowOf(x)' = RowOf(x)
    BY <1>1, <1>3, <1>4, WorkerSteps DEF Gate
  <1> QED
    BY <1>4, <1>5 DEF place

\* Giving the job up, whether it leaves the queue or waits there again.
LEMMA GivesUp ==
  ASSUME TypeOK, HoldsItsJob, NEW w \in Workers, ~At(w, "idle"),
         NEW left \in Job \cup {None},
         jobs' = [jobs EXCEPT ![worker[w].job] = left],
         worker' = [worker EXCEPT ![w] = IdleWorker]
  PROVE  /\ worker' \in [Workers -> Worker]
         /\ jobs' \in [JobIds -> Job \cup {None}]
         /\ HoldsItsJob'
         /\ At(w, "idle")'
         /\ \A x \in Workers : x # w =>
              /\ worker'[x] = worker[x]
              /\ ~At(x, "idle") => RowOf(x)' = RowOf(x)
  <1>1. worker \in [Workers -> Worker] /\ jobs \in [JobIds -> Job \cup {None}]
    BY DEF TypeOK
  <1>2. \A x \in Workers : worker'[x] = IF x = w THEN IdleWorker ELSE worker[x]
    BY <1>1
  <1>3. At(w, "idle")'
    BY <1>2, IdleTyped DEF At
  <1>4. \A x \in Workers : x # w /\ ~At(x, "idle") =>
          worker[x].job \in JobIds /\ jobs'[worker[x].job] = jobs[worker[x].job]
    <2> SUFFICES ASSUME NEW x \in Workers, x # w, ~At(x, "idle")
                 PROVE  worker[x].job \in JobIds /\ jobs'[worker[x].job] = jobs[worker[x].job]
      OBVIOUS
    <2>1. worker[x].job \in JobIds /\ worker[x].job # worker[w].job
      BY DEF HoldsItsJob
    <2> QED
      BY <1>1, <2>1
  <1>5. HoldsItsJob'
    <2>1. \A x \in Workers : ~At(x, "idle")' => x # w /\ ~At(x, "idle") /\ worker'[x] = worker[x]
      BY <1>2, <1>3 DEF At
    <2> QED
      BY <1>4, <2>1 DEF HoldsItsJob
  <1>6. worker' \in [Workers -> Worker] /\ jobs' \in [JobIds -> Job \cup {None}]
    BY <1>1, IdleTyped
  <1> QED
    BY <1>2, <1>3, <1>4, <1>5, <1>6 DEF RowOf

\* One more message the gateway has taken.
LEMMA TakesAppends ==
  ASSUME TypeOK, NEW w \in Workers, RowOf(w) \in Rows, GatewayTakes(w)
  PROVE  /\ sent' \in Seq(Accepted)
         /\ Len(sent) \in Nat
         /\ DOMAIN sent = 1..Len(sent) /\ DOMAIN sent' = 1..(Len(sent) + 1)
         /\ \A k \in DOMAIN sent : sent'[k] = sent[k]
         /\ sent'[Len(sent) + 1].row = RowOf(w)
         /\ sent'[Len(sent) + 1].metered = worker[w].metered
         /\ sent'[Len(sent) + 1].reported = FALSE
  <1> DEFINE one == [row |-> RowOf(w), metered |-> worker[w].metered, reported |-> FALSE]
  <1>1. sent \in Seq(Accepted) /\ worker[w].metered \in BOOLEAN
    BY DEF TypeOK, Worker
  <1>2. /\ one \in Accepted
        /\ one.row = RowOf(w) /\ one.metered = worker[w].metered /\ one.reported = FALSE
    BY <1>1 DEF Accepted
  <1>3. sent' = Append(sent, one)
    BY DEF GatewayTakes
  <1> HIDE DEF one
  <1>4. Len(sent) \in Nat /\ DOMAIN sent = 1..Len(sent)
    BY <1>1
  <1>5. sent' \in Seq(Accepted) /\ Len(sent') = Len(sent) + 1
    BY <1>1, <1>2, <1>3
  <1>6. DOMAIN sent' = 1..(Len(sent) + 1)
    BY <1>5
  <1>7. (\A k \in DOMAIN sent : sent'[k] = sent[k]) /\ sent'[Len(sent) + 1] = one
    BY <1>1, <1>3, <1>4
  <1> QED
    BY <1>2, <1>4, <1>5, <1>6, <1>7

LEMMA LatestOfAppended ==
  ASSUME TypeOK, LatestKnown, NEW w \in Workers, RowOf(w) \in Rows, GatewayTakes(w)
  PROVE  LatestKnown' /\ \E k \in DOMAIN sent' : sent'[k].row = RowOf(w)
  <1> DEFINE n == Len(sent) + 1
  <1>1. /\ Len(sent) \in Nat
        /\ DOMAIN sent = 1..Len(sent) /\ DOMAIN sent' = 1..n
        /\ \A k \in DOMAIN sent : sent'[k] = sent[k]
        /\ sent'[n].row = RowOf(w)
    BY TakesAppends
  <1>2. n \in DOMAIN sent' /\ \A l \in DOMAIN sent' : l <= n /\ (l # n => l \in DOMAIN sent)
    BY <1>1
  <1>3. ASSUME NEW r \in Rows, \E k \in DOMAIN sent' : sent'[k].row = r
        PROVE  \E k \in DOMAIN sent' : IsLatest(k, r)'
    <2>1. CASE r = RowOf(w)
      BY <1>1, <1>2, <2>1 DEF IsLatest
    <2>2. CASE r # RowOf(w)
      <3>1. \E k \in DOMAIN sent : sent[k].row = r
        BY <1>1, <1>2, <1>3, <2>2
      <3>2. PICK k \in DOMAIN sent : IsLatest(k, r)
        BY <3>1 DEF LatestKnown
      <3>3. IsLatest(k, r)'
        BY <1>1, <1>2, <2>2, <3>2 DEF IsLatest
      <3> QED
        BY <1>1, <3>2, <3>3
    <2> QED
      BY <2>1, <2>2
  <1> QED
    BY <1>1, <1>2, <1>3 DEF LatestKnown

\* A step that takes no message and keeps the rows of those that were taken.
LEMMA RowsOfSentKept ==
  ASSUME DOMAIN sent' = DOMAIN sent,
         \A k \in DOMAIN sent : sent'[k].row = sent[k].row
  PROVE  /\ LatestKnown => LatestKnown'
         /\ \A r : (\E k \in DOMAIN sent : sent[k].row = r) => \E k \in DOMAIN sent' : sent'[k].row = r
  <1>1. \A k, r : IsLatest(k, r) => IsLatest(k, r)'
    BY DEF IsLatest
  <1> QED
    BY <1>1 DEF LatestKnown

\* A delivery report changes what is reported of one message.
LEMMA ReportTyped ==
  ASSUME TypeOK, NEW k \in DOMAIN sent, NEW reported \in BOOLEAN,
         sent' = [sent EXCEPT ![k].reported = reported]
  PROVE  /\ sent' \in Seq(Accepted)
         /\ DOMAIN sent' = DOMAIN sent
         /\ \A l \in DOMAIN sent :
              /\ sent'[l].row = sent[l].row /\ sent'[l].metered = sent[l].metered
              /\ sent'[l].reported = IF l = k THEN reported ELSE sent[l].reported
  <1> DEFINE told == [sent[k] EXCEPT !.reported = reported]
  <1>1. sent \in Seq(Accepted) /\ sent[k] \in Accepted
    BY DEF TypeOK
  <1>2. told \in Accepted
    BY <1>1 DEF Accepted
  <1>3. told.row = sent[k].row /\ told.metered = sent[k].metered /\ told.reported = reported
    BY <1>1 DEF Accepted
  <1>4. sent' = [sent EXCEPT ![k] = told]
    OBVIOUS
  <1> HIDE DEF told
  <1>5. DOMAIN sent' = DOMAIN sent /\ \A l \in DOMAIN sent : sent'[l] = IF l = k THEN told ELSE sent[l]
    BY <1>4
  <1>6. sent' \in Seq(Accepted)
    BY <1>1, <1>2, <1>4
  <1> QED
    BY <1>3, <1>5, <1>6

LEMMA BalanceTyped ==
  ASSUME TypeOK
  PROVE  Balance \in Nat
  <1>1. credit # <<>> => Len(credit) \in DOMAIN credit
    BY DEF TypeOK
  <1>2. credit # <<>> => credit[Len(credit)] \in CreditRow
    BY <1>1 DEF TypeOK
  <1> QED
    BY <1>2 DEF Balance, CreditRow

LEMMA CreditTyped ==
  ASSUME TypeOK, NEW ref \in Rows \cup {None}, NEW qty \in Int, Covers(qty), Moves(ref, qty)
  PROVE  /\ Balance \in Nat
         /\ credit' \in Seq(CreditRow)
         /\ Balance' = Balance + qty
         /\ Len(credit) \in Nat
         /\ DOMAIN credit = 1..Len(credit) /\ DOMAIN credit' = 1..(Len(credit) + 1)
         /\ \A n \in DOMAIN credit : credit'[n] = credit[n]
         /\ credit'[Len(credit) + 1].ref = ref
  <1> DEFINE one == [ref |-> ref, qty |-> qty, balance |-> Balance + qty]
  <1>1. credit \in Seq(CreditRow) /\ Len(credit) \in Nat /\ DOMAIN credit = 1..Len(credit)
    BY DEF TypeOK
  <1>2. Balance \in Nat
    BY BalanceTyped
  <1>3. one \in CreditRow /\ one.ref = ref /\ one.balance = Balance + qty
    BY <1>2 DEF CreditRow, Covers
  <1>4. credit' = Append(credit, one)
    BY DEF Moves
  <1> HIDE DEF one
  <1>5. /\ credit' \in Seq(CreditRow)
        /\ Len(credit') = Len(credit) + 1 /\ DOMAIN credit' = 1..(Len(credit) + 1)
        /\ \A n \in DOMAIN credit : credit'[n] = credit[n]
        /\ credit'[Len(credit) + 1] = one
    BY <1>1, <1>3, <1>4
  <1>6. Balance' = Balance + qty
    BY <1>1, <1>3, <1>5 DEF Balance
  <1> QED
    BY <1>1, <1>2, <1>3, <1>5, <1>6

LEMMA MarksTyped ==
  ASSUME TypeOK, NEW r \in Rows,
         NEW status \in {"absent", "QUEUED", "SENT", "DELIVERED", "FAILED"}, Marks(r, status)
  PROVE  /\ note' \in [Rows -> NoteRow]
         /\ \A q \in Rows : /\ note'[q].status = IF q = r THEN status ELSE note[q].status
                            /\ note'[q].pid = note[q].pid
  <1> DEFINE row == [note[r] EXCEPT !.status = status]
  <1>1. note \in [Rows -> NoteRow]
    BY DEF TypeOK
  <1>2. row \in NoteRow /\ row.status = status /\ row.pid = note[r].pid
    BY <1>1 DEF NoteRow
  <1>3. note' = [note EXCEPT ![r] = row]
    BY DEF Marks
  <1> HIDE DEF row
  <1>4. note' \in [Rows -> NoteRow] /\ \A q \in Rows : note'[q] = IF q = r THEN row ELSE note[q]
    BY <1>1, <1>2, <1>3
  <1> QED
    BY <1>2, <1>4

LEMMA HappensTyped ==
  ASSUME TypeOK, NEW what \in {"credits", "throws", "crashes", "lost"}, NEW max, Happens(what, max)
  PROVE  counts' \in Counts
  BY DEF TypeOK, Happens, Counts

LEMMA BreaksOffTyped ==
  ASSUME TypeOK, NEW w \in Workers, RowOf(w) \in Rows, BreaksOff(w)
  PROVE  /\ broken' \in [Rows -> Nat]
         /\ \A r \in Rows : broken'[r] = IF r = RowOf(w) THEN broken[r] + 1 ELSE broken[r]
  BY DEF TypeOK, BreaksOff

\* What a caller has in hand.
LEMMA CallerTyped ==
  ASSUME TypeOK, NEW c \in Callers, NEW found \in SUBSET Rows, NEW adding \in Rows \cup {None}
  PROVE  /\ [found |-> found, adding |-> adding] \in Caller
         /\ [caller[c] EXCEPT !.found = found] \in Caller
         /\ [caller[c] EXCEPT !.adding = adding] \in Caller
         /\ caller[c].found \in SUBSET Rows
         /\ caller[c].adding \in Rows \cup {None}
  BY DEF TypeOK, Caller

LEMMA CallersTyped ==
  ASSUME TypeOK, NEW c \in Callers, NEW one \in Caller, caller' = [caller EXCEPT ![c] = one]
  PROVE  caller' \in [Callers -> Caller]
  BY DEF TypeOK

\* Steps that touch neither a job a worker holds, nor a worker, nor what was taken.
LEMMA WorkersLeftAlone ==
  ASSUME DeliveryInv, UNCHANGED <<worker, sent>>,
         \A j \in JobIds : jobs[j] # None => jobs'[j] = jobs[j]
  PROVE  /\ HoldsItsJob' /\ WasAccepted' /\ LatestKnown'
         /\ \A w \in Workers : ~At(w, "idle") => RowOf(w)' = RowOf(w)
  <1>1. \A w \in Workers : ~At(w, "idle") =>
          worker[w].job \in JobIds /\ jobs[worker[w].job] # None
            /\ jobs'[worker[w].job] = jobs[worker[w].job]
    BY DEF DeliveryInv, HoldsItsJob
  <1>2. HoldsItsJob'
    BY <1>1 DEF DeliveryInv, HoldsItsJob, At
  <1>3. \A w \in Workers : ~At(w, "idle") => RowOf(w)' = RowOf(w)
    BY <1>1 DEF RowOf
  <1>4. WasAccepted'
    BY <1>3 DEF DeliveryInv, WasAccepted, At
  <1>5. LatestKnown'
    BY DEF DeliveryInv, LatestKnown, IsLatest
  <1> QED
    BY <1>2, <1>3, <1>4, <1>5

THEOREM DeliveryInit == Init => DeliveryInv
  <1> SUFFICES ASSUME Init PROVE DeliveryInv
    OBVIOUS
  <1>1. TypeOK
    <2>1. [status |-> "absent", pid |-> 0] \in NoteRow
      BY DEF NoteRow
    <2> QED
      BY <2>1, IdleTyped DEF Init, TypeOK, Counts
  <1>2. HoldsItsJob /\ WasAccepted
    BY IdleTyped DEF Init, HoldsItsJob, WasAccepted, At
  <1>3. LatestKnown
    BY DEF Init, LatestKnown
  <1> QED
    BY <1>1, <1>2, <1>3 DEF DeliveryInv

-----------------------------------------------------------------------------
(* Requests, listeners and the administrator. *)

LEMMA CallsKeepInv ==
  ASSUME DeliveryInv, NEW c \in Callers, Call(c)
  PROVE  DeliveryInv' /\ \A w \in Workers : ~At(w, "idle") => RowOf(w)' = RowOf(w)
  <1>0. TypeOK /\ worker' = worker /\ sent' = sent
    BY DEF DeliveryInv, Call, Compose, Enqueue, EnqueueFails, FindFailed, Requeue
  <1>1. CASE Compose(c)
    <2>1. PICK r \in Rows : Marks(r, "QUEUED") /\ caller' = [caller EXCEPT ![c].adding = r]
      BY <1>1 DEF Compose
    <2>2. note' \in [Rows -> NoteRow]
      BY <1>0, <2>1, MarksTyped
    <2>3. caller' \in [Callers -> Caller]
      <3> DEFINE one == [caller[c] EXCEPT !.adding = r]
      <3>1. one \in Caller
        BY <1>0, CallerTyped
      <3>2. caller' = [caller EXCEPT ![c] = one]
        BY <2>1
      <3> HIDE DEF one
      <3> QED
        BY <1>0, <3>1, <3>2, CallersTyped
    <2>4. TypeOK'
      BY <1>0, <1>1, <2>2, <2>3 DEF TypeOK, Compose
    <2> QED
      BY <1>0, <1>1, <2>4, WorkersLeftAlone DEF DeliveryInv, Compose
  <1>2. CASE Enqueue(c)
    <2>1. PICK j \in JobIds :
            /\ jobs[j] = None
            /\ jobs' = [jobs EXCEPT ![j] = [row |-> caller[c].adding, made |-> 0,
                                            stalls |-> 0, active |-> FALSE]]
      BY <1>2, Zenon DEF Enqueue
    <2>2. caller[c].adding \in Rows
      BY <1>0, <1>2 DEF TypeOK, Caller, Enqueue
    <2> DEFINE job == [row |-> caller[c].adding, made |-> 0, stalls |-> 0, active |-> FALSE]
    <2>3. job \in Job
      BY <2>2, DeliveryAssumption DEF Job
    <2>4. jobs' = [jobs EXCEPT ![j] = job]
      BY <2>1
    <2> HIDE DEF job
    <2>5. jobs' \in [JobIds -> Job \cup {None}] /\ \A i \in JobIds : jobs[i] # None => jobs'[i] = jobs[i]
      BY <1>0, <2>1, <2>3, <2>4 DEF TypeOK
    <2>6. caller' \in [Callers -> Caller]
      <3> DEFINE one == [caller[c] EXCEPT !.adding = None]
      <3>1. one \in Caller
        BY <1>0, CallerTyped
      <3>2. caller' = [caller EXCEPT ![c] = one]
        BY <1>2 DEF Enqueue
      <3> HIDE DEF one
      <3> QED
        BY <1>0, <3>1, <3>2, CallersTyped
    <2>7. TypeOK'
      BY <1>0, <1>2, <2>5, <2>6 DEF TypeOK, Enqueue
    <2> QED
      BY <1>0, <2>5, <2>7, WorkersLeftAlone DEF DeliveryInv
  <1>3. CASE EnqueueFails(c)
    <2>1. caller' \in [Callers -> Caller]
      BY <1>0, <1>3, IdleTyped, CallersTyped DEF EnqueueFails
    <2>2. counts' \in Counts
      BY <1>0, <1>3, HappensTyped DEF EnqueueFails, Mishap
    <2>3. TypeOK'
      BY <1>0, <1>3, <2>1, <2>2 DEF TypeOK, EnqueueFails
    <2> QED
      BY <1>0, <1>3, <2>3, WorkersLeftAlone DEF DeliveryInv, EnqueueFails
  <1>4. CASE FindFailed(c)
    <2>1. PICK found \in SUBSET Rows : caller' = [caller EXCEPT ![c].found = found]
      BY <1>4 DEF FindFailed
    <2>2. caller' \in [Callers -> Caller]
      <3> DEFINE one == [caller[c] EXCEPT !.found = found]
      <3>1. one \in Caller
        BY <1>0, CallerTyped
      <3>2. caller' = [caller EXCEPT ![c] = one]
        BY <2>1
      <3> HIDE DEF one
      <3> QED
        BY <1>0, <3>1, <3>2, CallersTyped
    <2>3. TypeOK'
      BY <1>0, <1>4, <2>2 DEF TypeOK, FindFailed
    <2> QED
      BY <1>0, <1>4, <2>3, WorkersLeftAlone DEF DeliveryInv, FindFailed
  <1>5. CASE Requeue(c)
    <2>1. PICK r \in caller[c].found :
            /\ again' = [again EXCEPT ![r] = @ + 1]
            /\ Marks(r, "QUEUED")
            /\ caller' = [caller EXCEPT ![c] = [found |-> @.found \ {r}, adding |-> r]]
      BY <1>5 DEF Requeue
    <2>2. r \in Rows
      BY <1>0, CallerTyped
    <2>3. note' \in [Rows -> NoteRow]
      BY <1>0, <2>1, <2>2, MarksTyped
    <2>4. caller' \in [Callers -> Caller]
      <3> DEFINE one == [found |-> caller[c].found \ {r}, adding |-> r]
      <3>1. one \in Caller
        BY <1>0, <2>2, CallerTyped
      <3>2. caller' = [caller EXCEPT ![c] = one]
        BY <2>1
      <3> HIDE DEF one
      <3> QED
        BY <1>0, <3>1, <3>2, CallersTyped
    <2>5. again' \in [Rows -> Nat]
      BY <1>0, <2>1, <2>2 DEF TypeOK
    <2>6. TypeOK'
      BY <1>0, <1>5, <2>3, <2>4, <2>5 DEF TypeOK, Requeue
    <2> QED
      BY <1>0, <1>5, <2>6, WorkersLeftAlone DEF DeliveryInv, Requeue
  <1> QED
    BY <1>1, <1>2, <1>3, <1>4, <1>5 DEF Call

LEMMA CreditKeepsInv ==
  ASSUME DeliveryInv, Credit
  PROVE  DeliveryInv'
  <1>1. TypeOK /\ UNCHANGED <<note, jobs, worker, caller, sent, again, broken>>
    BY DEF DeliveryInv, Credit
  <1>2. PICK qty \in Movements : Covers(qty) /\ Moves(None, qty)
    BY DEF Credit
  <1>3. credit' \in Seq(CreditRow)
    BY <1>1, <1>2, CreditTyped, DeliveryAssumption
  <1>4. counts' \in Counts
    BY <1>1, HappensTyped DEF Credit
  <1>5. TypeOK'
    BY <1>1, <1>3, <1>4 DEF TypeOK
  <1> QED
    BY <1>1, <1>5, WorkersLeftAlone DEF DeliveryInv

-----------------------------------------------------------------------------
(* Workers. *)

\* A worker that goes on without the gateway: what it has been accepted for
\* before is accepted still.
LEMMA GoesOn ==
  ASSUME DeliveryInv, NEW w \in Workers, ~At(w, "idle"),
         NEW place \in Places, Goes(w, place), UNCHANGED <<jobs, sent>>,
         place \in {"consume", "charge", "mark"} => worker[w].at \in {"consume", "charge", "mark"}
  PROVE  /\ worker' \in [Workers -> Worker]
         /\ HoldsItsJob' /\ WasAccepted' /\ LatestKnown'
  <1>1. /\ worker' \in [Workers -> Worker]
        /\ HoldsItsJob'
        /\ \A x \in Workers : /\ worker'[x].at = IF x = w THEN place ELSE worker[x].at
                              /\ RowOf(x)' = RowOf(x)
    BY GoesMoves DEF DeliveryInv
  <1>2. WasAccepted'
    BY <1>1 DEF DeliveryInv, WasAccepted
  <1>3. LatestKnown'
    BY DEF DeliveryInv, LatestKnown, IsLatest
  <1> QED
    BY <1>1, <1>2, <1>3

LEMMA TakeKeepsInv ==
  ASSUME DeliveryInv, NEW w \in Workers, Take(w)
  PROVE  DeliveryInv' /\ \A x \in Workers : x # w =>
           worker'[x] = worker[x] /\ (~At(x, "idle") => RowOf(x)' = RowOf(x))
  <1>1. PICK j \in JobIds :
          /\ jobs[j] # None /\ ~jobs[j].active
          /\ jobs' = [jobs EXCEPT ![j].active = TRUE]
          /\ worker' = [worker EXCEPT ![w] = [at |-> "load", job |-> j, metered |-> FALSE]]
    BY DEF Take
  <1>2. TypeOK /\ HoldsItsJob /\ UNCHANGED <<note, caller, credit, sent, again, broken, counts>>
    BY DEF DeliveryInv, Take
  <1> DEFINE taken == [jobs[j] EXCEPT !.active = TRUE]
             busy == [at |-> "load", job |-> j, metered |-> FALSE]
  <1>3. jobs[j] \in Job
    BY <1>1, <1>2 DEF TypeOK
  <1>4. /\ taken \in Job /\ taken.active = TRUE /\ taken.row = jobs[j].row
        /\ busy \in Worker /\ busy.at = "load" /\ busy.job = j
    BY <1>3 DEF Job, Worker, Places
  <1>5. jobs' = [jobs EXCEPT ![j] = taken] /\ worker' = [worker EXCEPT ![w] = busy]
    BY <1>1
  <1>6. taken # None
    BY <1>4, NoneIsNoJob
  <1> HIDE DEF taken, busy
  <1>7. /\ jobs' \in [JobIds -> Job \cup {None}]
        /\ worker' \in [Workers -> Worker]
        /\ \A i \in JobIds : jobs'[i] = IF i = j THEN taken ELSE jobs[i]
        /\ \A x \in Workers : worker'[x] = IF x = w THEN busy ELSE worker[x]
    BY <1>2, <1>4, <1>5 DEF TypeOK
  <1>8. \A x \in Workers : ~At(x, "idle") => worker[x].job \in JobIds /\ worker[x].job # j
    BY <1>1, <1>2 DEF HoldsItsJob
  <1>9. HoldsItsJob'
    <2>1. \A x \in Workers : ~At(x, "idle")' =>
            /\ x = w => worker'[x].job = j
            /\ x # w => /\ ~At(x, "idle") /\ worker'[x] = worker[x]
                        /\ worker[x].job \in JobIds /\ worker[x].job # j
                        /\ jobs'[worker[x].job] = jobs[worker[x].job]
      BY <1>4, <1>7, <1>8 DEF At
    <2>2. jobs'[j] # None /\ jobs'[j].active
      BY <1>4, <1>6, <1>7
    <2> QED
      BY <1>2, <2>1, <2>2 DEF HoldsItsJob
  <1>10. \A x \in Workers : x # w /\ ~At(x, "idle") => RowOf(x)' = RowOf(x)
    BY <1>7, <1>8 DEF RowOf
  <1>11. WasAccepted'
    BY <1>2, <1>4, <1>7, <1>10 DEF DeliveryInv, WasAccepted, At
  <1>12. LatestKnown'
    BY <1>2 DEF DeliveryInv, LatestKnown, IsLatest
  <1>13. TypeOK'
    BY <1>2, <1>7 DEF TypeOK
  <1> QED
    BY <1>7, <1>9, <1>10, <1>11, <1>12, <1>13 DEF DeliveryInv

LEMMA SendKeepsInv ==
  ASSUME DeliveryInv, NEW w \in Workers, Send(w)
  PROVE  DeliveryInv'
  <1>1. /\ TypeOK /\ HoldsItsJob /\ ~At(w, "idle") /\ RowOf(w) \in Rows
        /\ UNCHANGED <<note, jobs, caller, credit, again>>
    BY BusyHasRow DEF DeliveryInv, Send, At
  <1>2. PICK place \in {"consume", "mark", "fail", "throw"} :
          /\ Goes(w, place)
          /\ \/ GatewayTakes(w) /\ (UNCHANGED broken \/ BreaksOff(w))
             \/ UNCHANGED <<sent, broken>> /\ place \in {"fail", "throw"}
          /\ UNCHANGED counts \/ Mishap("throws", MaxThrows)
    BY DEF Send, AfterAccepted
  <1>3. place \in Places
    BY <1>2 DEF Places
  <1>4. /\ worker' \in [Workers -> Worker]
        /\ HoldsItsJob'
        /\ \A x \in Workers : /\ worker'[x].at = IF x = w THEN place ELSE worker[x].at
                              /\ RowOf(x)' = RowOf(x)
    BY <1>1, <1>2, <1>3, GoesMoves
  <1>5. broken' \in [Rows -> Nat]
    BY <1>1, <1>2, BreaksOffTyped DEF TypeOK
  <1>6. counts' \in Counts
    BY <1>1, <1>2, HappensTyped DEF TypeOK, Mishap
  <1>7. CASE GatewayTakes(w)
    <2>1. sent' \in Seq(Accepted) /\ \A k \in DOMAIN sent : k \in DOMAIN sent' /\ sent'[k] = sent[k]
      <3>1. /\ sent' \in Seq(Accepted) /\ Len(sent) \in Nat
            /\ DOMAIN sent = 1..Len(sent) /\ DOMAIN sent' = 1..(Len(sent) + 1)
            /\ \A k \in DOMAIN sent : sent'[k] = sent[k]
        BY <1>1, <1>7, TakesAppends
      <3> QED
        BY <3>1
    <2>2. LatestKnown' /\ \E k \in DOMAIN sent' : sent'[k].row = RowOf(w)
      BY <1>1, <1>7, LatestOfAppended DEF DeliveryInv
    <2>3. WasAccepted'
      BY <1>4, <2>1, <2>2 DEF DeliveryInv, WasAccepted
    <2>4. TypeOK'
      BY <1>1, <1>4, <1>5, <1>6, <2>1 DEF TypeOK
    <2> QED
      BY <1>4, <2>2, <2>3, <2>4 DEF DeliveryInv
  <1>8. CASE UNCHANGED sent /\ place \in {"fail", "throw"}
    <2>1. WasAccepted' /\ LatestKnown'
      BY <1>1, <1>2, <1>3, <1>8, GoesOn
    <2>2. TypeOK'
      BY <1>1, <1>4, <1>5, <1>6, <1>8 DEF TypeOK
    <2> QED
      BY <1>4, <2>1, <2>2 DEF DeliveryInv
  <1> QED
    BY <1>2, <1>7, <1>8

LEMMA ChargeKeepsInv ==
  ASSUME DeliveryInv, NEW w \in Workers, Charge(w)
  PROVE  DeliveryInv'
  <1>1. /\ TypeOK /\ HoldsItsJob /\ ~At(w, "idle") /\ RowOf(w) \in Rows
        /\ UNCHANGED <<note, jobs, caller, sent, again, counts>>
    BY BusyHasRow DEF DeliveryInv, Charge, At
  <1>2. Parts[RowOf(w)] \in Nat
    BY <1>1, DeliveryAssumption
  <1>3. PICK place \in {"mark", "throw"} :
          /\ Goes(w, place)
          /\ \/ Covers(-Parts[RowOf(w)]) /\ Moves(RowOf(w), -Parts[RowOf(w)]) /\ UNCHANGED broken
             \/ BreaksOff(w) /\ UNCHANGED credit
    BY DEF Charge
  <1>4. worker[w].at = "charge" /\ place \in Places
    BY <1>3 DEF Charge, At, Places
  <1>5. worker' \in [Workers -> Worker] /\ HoldsItsJob' /\ WasAccepted' /\ LatestKnown'
    BY <1>1, <1>3, <1>4, GoesOn
  <1>6. credit' \in Seq(CreditRow) /\ broken' \in [Rows -> Nat]
    <2>1. CASE Covers(-Parts[RowOf(w)]) /\ Moves(RowOf(w), -Parts[RowOf(w)]) /\ UNCHANGED broken
      <3>1. -Parts[RowOf(w)] \in Int
        BY <1>2
      <3> QED
        BY <1>1, <2>1, <3>1, CreditTyped DEF TypeOK
    <2>2. CASE BreaksOff(w) /\ UNCHANGED credit
      BY <1>1, <2>2, BreaksOffTyped DEF TypeOK
    <2> QED
      BY <1>3, <2>1, <2>2
  <1>7. TypeOK'
    BY <1>1, <1>5, <1>6 DEF TypeOK
  <1> QED
    BY <1>5, <1>7 DEF DeliveryInv

LEMMA MarkTyped ==
  ASSUME DeliveryInv, NEW w \in Workers, Mark(w)
  PROVE  /\ RowOf(w) \in Rows /\ ~At(w, "idle")
         /\ IsLatest(LatestOf(RowOf(w)), RowOf(w))
         /\ LatestOf(RowOf(w)) \in Nat
         /\ note' \in [Rows -> NoteRow]
         /\ \A r \in Rows : /\ note'[r].status = IF r = RowOf(w) THEN "SENT" ELSE note[r].status
                            /\ note'[r].pid = IF r = RowOf(w) THEN LatestOf(RowOf(w)) ELSE note[r].pid
  <1>1. TypeOK /\ ~At(w, "idle") /\ RowOf(w) \in Rows /\ worker[w].at = "mark"
    BY BusyHasRow DEF DeliveryInv, Mark, At
  <1> DEFINE r == RowOf(w)
  <1> HIDE DEF r
  <1>2. r \in Rows /\ \E k \in DOMAIN sent : sent[k].row = r
    BY <1>1 DEF DeliveryInv, WasAccepted, r
  <1>3. \E k \in DOMAIN sent : IsLatest(k, r)
    BY <1>2 DEF DeliveryInv, LatestKnown
  <1>4. IsLatest(LatestOf(r), r)
    BY <1>3 DEF IsLatest, LatestOf
  <1>5. LatestOf(r) \in Nat
    <2>1. sent \in Seq(Accepted)
      BY <1>1 DEF TypeOK
    <2>2. DOMAIN sent \subseteq Nat
      BY <2>1
    <2> QED
      BY <1>4, <2>2 DEF IsLatest
  <1> DEFINE marked == [status |-> "SENT", pid |-> LatestOf(r)]
  <1>6. marked \in NoteRow /\ marked.status = "SENT" /\ marked.pid = LatestOf(r)
    BY <1>5 DEF NoteRow
  <1>7. note' = [note EXCEPT ![r] = marked]
    BY DEF Mark, r
  <1> HIDE DEF marked
  <1>8. note' \in [Rows -> NoteRow] /\ \A q \in Rows : note'[q] = IF q = r THEN marked ELSE note[q]
    BY <1>1, <1>2, <1>6, <1>7 DEF TypeOK
  <1>9. \A q \in Rows : /\ note'[q].status = IF q = r THEN "SENT" ELSE note[q].status
                        /\ note'[q].pid = IF q = r THEN LatestOf(r) ELSE note[q].pid
    BY <1>6, <1>8
  <1> QED
    BY <1>1, <1>4, <1>5, <1>8, <1>9 DEF r

\* A busy worker lets its job go: it is done, waits for another attempt or
\* waits for another worker.
LEMMA ReleaseKeepsInv ==
  ASSUME DeliveryInv, NEW w \in Workers, ~At(w, "idle"), UNCHANGED <<note, caller, credit, sent, again>>,
         NEW left \in Job \cup {None},
         jobs' = [jobs EXCEPT ![worker[w].job] = left],
         worker' = [worker EXCEPT ![w] = IdleWorker],
         broken' \in [Rows -> Nat], counts' \in Counts
  PROVE  /\ DeliveryInv'
         /\ At(w, "idle")'
         /\ \A x \in Workers : x # w =>
              worker'[x] = worker[x] /\ (~At(x, "idle") => RowOf(x)' = RowOf(x))
  <1>0. TypeOK /\ HoldsItsJob
    BY DEF DeliveryInv
  <1>1. /\ worker' \in [Workers -> Worker]
        /\ jobs' \in [JobIds -> Job \cup {None}]
        /\ HoldsItsJob'
        /\ At(w, "idle")'
        /\ \A x \in Workers : x # w =>
              worker'[x] = worker[x] /\ (~At(x, "idle") => RowOf(x)' = RowOf(x))
    BY <1>0, GivesUp
  <1>2. WasAccepted'
    <2> SUFFICES ASSUME NEW x \in Workers, worker'[x].at \in {"consume", "charge", "mark"}
                 PROVE  \E k \in DOMAIN sent : sent[k].row = RowOf(x)'
      BY DEF WasAccepted
    <2>1. x # w
      BY <1>1 DEF At
    <2>2. worker[x].at \in {"consume", "charge", "mark"} /\ RowOf(x)' = RowOf(x)
      BY <1>1, <2>1 DEF At
    <2> QED
      BY <2>2 DEF DeliveryInv, WasAccepted
  <1>3. LatestKnown'
    BY DEF DeliveryInv, LatestKnown, IsLatest
  <1>4. TypeOK'
    BY <1>0, <1>1 DEF TypeOK
  <1> QED
    BY <1>1, <1>2, <1>3, <1>4 DEF DeliveryInv

\* The job that waits again after Throw or Crash, or nothing when it is dropped.
LEMMA LeftTyped ==
  ASSUME NEW job \in Job
  PROVE  /\ job.made + 1 < Attempts => [job EXCEPT !.made = @ + 1, !.active = FALSE] \in Job
         /\ [job EXCEPT !.stalls = 1, !.active = FALSE] \in Job
  <1>1. /\ job.row \in Rows /\ job.made \in 0..(Attempts - 1) /\ Attempts \in Nat
        /\ job.stalls \in 0..1 /\ job.active \in BOOLEAN
    BY DeliveryAssumption DEF Job
  <1>2. job.made + 1 < Attempts => job.made + 1 \in 0..(Attempts - 1)
    BY <1>1
  <1>3. \A made \in 0..(Attempts - 1) : [job EXCEPT !.made = made, !.active = FALSE] \in Job
    BY DEF Job
  <1>4. \A stalls \in 0..1 : [job EXCEPT !.stalls = stalls, !.active = FALSE] \in Job
    BY DEF Job
  <1>5. 1 \in 0..1
    OBVIOUS
  <1> QED
    BY <1>2, <1>3, <1>4, <1>5

LEMMA ThrowReleases ==
  ASSUME TypeOK, HoldsItsJob, NEW w \in Workers, ~At(w, "idle"), AttemptLeft(worker[w].job),
         jobs' = [jobs EXCEPT ![worker[w].job].made = @ + 1, ![worker[w].job].active = FALSE]
  PROVE  \E left \in Job \cup {None} : jobs' = [jobs EXCEPT ![worker[w].job] = left]
  <1> DEFINE j == worker[w].job
             left == [jobs[j] EXCEPT !.made = @ + 1, !.active = FALSE]
  <1>1. j \in JobIds /\ left \in Job
    BY BusyHasRow, LeftTyped DEF AttemptLeft
  <1>2. jobs' = [jobs EXCEPT ![j] = left]
    BY <1>1 DEF TypeOK
  <1> QED
    BY <1>1, <1>2

LEMMA ThrowGoes ==
  ASSUME TypeOK, HoldsItsJob, NEW w \in Workers, Throw(w)
  PROVE  worker'[w].at \in {"idle", "fail", "finish"}
  <1>1. ~At(w, "idle")
    BY DEF Throw, At
  <1>2. CASE worker' = [worker EXCEPT ![w] = IdleWorker]
    BY <1>2, IdleTyped DEF TypeOK
  <1>3. CASE Goes(w, AfterLastAttempt(w)) /\ UNCHANGED jobs
    <2>1. AfterLastAttempt(w) \in {"fail", "finish"}
      BY DEF AfterLastAttempt
    <2> QED
      BY <1>1, <1>3, <2>1, GoesMoves DEF Places
  <1> QED
    BY <1>2, <1>3 DEF Throw

LEMMA CrashReleases ==
  ASSUME TypeOK, HoldsItsJob, NEW w \in Workers, Crash(w)
  PROVE  \E left \in Job \cup {None} : jobs' = [jobs EXCEPT ![worker[w].job] = left]
  <1> DEFINE j == worker[w].job
             left == IF jobs[j].stalls = 1 THEN None ELSE [jobs[j] EXCEPT !.stalls = 1, !.active = FALSE]
  <1>1. ~At(w, "idle") /\ jobs' = [jobs EXCEPT ![j] = left]
    BY DEF Crash
  <1>2. left \in Job \cup {None}
    BY <1>1, BusyHasRow, LeftTyped
  <1> QED
    BY <1>1, <1>2

LEMMA CrashKeepsInv ==
  ASSUME DeliveryInv, NEW w \in Workers, Crash(w)
  PROVE  /\ DeliveryInv'
         /\ At(w, "idle")'
         /\ \A x \in Workers : x # w =>
              worker'[x] = worker[x] /\ (~At(x, "idle") => RowOf(x)' = RowOf(x))
  <1>1. TypeOK /\ HoldsItsJob /\ ~At(w, "idle") /\ RowOf(w) \in Rows
    BY BusyHasRow DEF DeliveryInv, Crash
  <1>2. PICK left \in Job \cup {None} : jobs' = [jobs EXCEPT ![worker[w].job] = left]
    BY <1>1, CrashReleases
  <1>3. broken' \in [Rows -> Nat]
    BY <1>1, BreaksOffTyped DEF Crash, TypeOK
  <1>4. counts' \in Counts
    BY <1>1, HappensTyped DEF Crash, Mishap
  <1> QED
    BY <1>1, <1>2, <1>3, <1>4, ReleaseKeepsInv DEF Crash

LEMMA DispatchKeepsInv ==
  ASSUME DeliveryInv, NEW w \in Workers, Dispatch(w)
  PROVE  DeliveryInv'
  <1>0. TypeOK /\ HoldsItsJob
    BY DEF DeliveryInv
  <1>1. CASE Take(w)
    BY <1>1, TakeKeepsInv
  <1>2. CASE Load(w)
    <2>1. PICK place \in {"finish", "send", "gate"} : Goes(w, place)
      BY <1>2 DEF Load
    <2>2. worker' \in [Workers -> Worker] /\ HoldsItsJob' /\ WasAccepted' /\ LatestKnown'
      BY <1>2, <2>1, GoesOn DEF Load, At, Places
    <2> QED
      BY <1>0, <1>2, <2>2 DEF DeliveryInv, TypeOK, Load
  <1>3. CASE Gate(w)
    <2>1. /\ worker' \in [Workers -> Worker] /\ HoldsItsJob'
          /\ \A x \in Workers : /\ worker'[x].at \in {"fail", "send", worker[x].at}
                                /\ RowOf(x)' = RowOf(x)
      BY <1>0, <1>3, GateMoves
    <2>2. WasAccepted' /\ LatestKnown'
      BY <1>3, <2>1 DEF DeliveryInv, WasAccepted, LatestKnown, IsLatest, Gate
    <2> QED
      BY <1>0, <1>3, <2>1, <2>2 DEF DeliveryInv, TypeOK, Gate
  <1>4. CASE Send(w)
    BY <1>4, SendKeepsInv
  <1>5. CASE Consume(w)
    <2>1. PICK place \in {"mark", "charge"} : Goes(w, place)
      BY <1>5 DEF Consume
    <2>2. worker' \in [Workers -> Worker] /\ HoldsItsJob' /\ WasAccepted' /\ LatestKnown'
      BY <1>5, <2>1, GoesOn DEF Consume, At, Places
    <2> QED
      BY <1>0, <1>5, <2>2 DEF DeliveryInv, TypeOK, Consume
  <1>6. CASE Charge(w)
    BY <1>6, ChargeKeepsInv
  <1>7. CASE Mark(w)
    <2>1. note' \in [Rows -> NoteRow] /\ ~At(w, "idle")
      BY <1>7, MarkTyped
    <2>2. worker' \in [Workers -> Worker] /\ HoldsItsJob' /\ WasAccepted' /\ LatestKnown'
      BY <1>7, <2>1, GoesOn DEF Mark, Places
    <2> QED
      BY <1>0, <1>7, <2>1, <2>2 DEF DeliveryInv, TypeOK, Mark
  <1>8. CASE FailRow(w)
    <2>1. ~At(w, "idle") /\ RowOf(w) \in Rows
      BY <1>0, <1>8, BusyHasRow DEF FailRow, At
    <2>2. note' \in [Rows -> NoteRow]
      BY <1>0, <1>8, <2>1, MarksTyped DEF FailRow
    <2>3. worker' \in [Workers -> Worker] /\ HoldsItsJob' /\ WasAccepted' /\ LatestKnown'
      BY <1>8, <2>1, GoesOn DEF FailRow, Places
    <2> QED
      BY <1>0, <1>8, <2>2, <2>3 DEF DeliveryInv, TypeOK, FailRow
  <1>9. CASE Throw(w)
    <2>1. ~At(w, "idle")
      BY <1>9 DEF Throw, At
    <2>2. CASE /\ AttemptLeft(worker[w].job)
               /\ jobs' = [jobs EXCEPT ![worker[w].job].made = @ + 1, ![worker[w].job].active = FALSE]
               /\ worker' = [worker EXCEPT ![w] = IdleWorker]
      <3>1. PICK left \in Job \cup {None} : jobs' = [jobs EXCEPT ![worker[w].job] = left]
        BY <1>0, <2>1, <2>2, ThrowReleases
      <3> QED
        BY <1>0, <1>9, <2>1, <2>2, <3>1, ReleaseKeepsInv DEF Throw, TypeOK
    <2>3. CASE Goes(w, AfterLastAttempt(w)) /\ UNCHANGED jobs
      <3>1. AfterLastAttempt(w) \in {"fail", "finish"}
        BY DEF AfterLastAttempt
      <3>2. worker' \in [Workers -> Worker] /\ HoldsItsJob' /\ WasAccepted' /\ LatestKnown'
        BY <1>9, <2>1, <2>3, <3>1, GoesOn DEF Throw, Places
      <3> QED
        BY <1>0, <1>9, <2>3, <3>2 DEF DeliveryInv, TypeOK, Throw
    <2> QED
      BY <1>9, <2>2, <2>3 DEF Throw
  <1>10. CASE Finish(w)
    BY <1>0, <1>10, ReleaseKeepsInv DEF Finish, Finishes, TypeOK, At
  <1> QED
    BY <1>1, <1>2, <1>3, <1>4, <1>5, <1>6, <1>7, <1>8, <1>9, <1>10 DEF Dispatch

LEMMA ReportKeepsInv ==
  ASSUME DeliveryInv, NEW k, ReportComes(k) \/ ReportApplies(k)
  PROVE  DeliveryInv'
  <1>0. /\ TypeOK /\ k \in DOMAIN sent
        /\ UNCHANGED <<jobs, worker, caller, credit, again, broken, counts>>
    BY DEF DeliveryInv, ReportComes, ReportApplies
  <1>1. PICK reported \in BOOLEAN : sent' = [sent EXCEPT ![k].reported = reported]
    BY DEF ReportComes, ReportApplies
  <1>2. /\ sent' \in Seq(Accepted) /\ DOMAIN sent' = DOMAIN sent
        /\ \A l \in DOMAIN sent : sent'[l].row = sent[l].row
    BY <1>0, <1>1, ReportTyped
  <1>3. sent[k].row \in Rows
    <2>1. sent[k] \in Accepted
      BY <1>0 DEF TypeOK
    <2> QED
      BY <2>1 DEF Accepted
  <1>4. note' \in [Rows -> NoteRow]
    BY <1>0, <1>3, MarksTyped DEF ReportComes, ReportApplies, TypeOK
  <1>5. LatestKnown'
    BY <1>2, RowsOfSentKept DEF DeliveryInv
  <1>6. WasAccepted'
    BY <1>0, <1>2 DEF DeliveryInv, WasAccepted, RowOf
  <1>7. HoldsItsJob'
    BY <1>0 DEF DeliveryInv, HoldsItsJob, At
  <1>8. TypeOK'
    BY <1>0, <1>2, <1>4 DEF TypeOK
  <1> QED
    BY <1>5, <1>6, <1>7, <1>8 DEF DeliveryInv

LEMMA StutterKeepsInv == DeliveryInv /\ UNCHANGED vars => DeliveryInv'
  <1> SUFFICES ASSUME DeliveryInv, UNCHANGED vars PROVE DeliveryInv'
    OBVIOUS
  <1>1. TypeOK'
    BY DEF DeliveryInv, TypeOK, vars
  <1>2. HoldsItsJob' /\ WasAccepted' /\ LatestKnown'
    BY DEF DeliveryInv, HoldsItsJob, WasAccepted, LatestKnown, IsLatest, RowOf, At, vars
  <1> QED
    BY <1>1, <1>2 DEF DeliveryInv

THEOREM DeliveryStep == DeliveryInv /\ [Next]_vars => DeliveryInv'
  <1> SUFFICES ASSUME DeliveryInv, [Next]_vars PROVE DeliveryInv'
    OBVIOUS
  <1>1. CASE \E c \in Callers : Call(c)
    BY <1>1, CallsKeepInv
  <1>2. CASE Credit
    BY <1>2, CreditKeepsInv
  <1>3. CASE \E w \in Workers : Dispatch(w) \/ Crash(w)
    BY <1>3, DispatchKeepsInv, CrashKeepsInv
  <1>4. CASE \E k \in 1..MaxSends : ReportComes(k) \/ ReportApplies(k)
    BY <1>4, ReportKeepsInv
  <1>5. CASE UNCHANGED vars
    BY <1>5, StutterKeepsInv
  <1> QED
    BY <1>1, <1>2, <1>3, <1>4, <1>5 DEF Next

\* Every record the queue, the workers, the callers, the gateway and the ledger
\* hold has its type, the balance of every movement is at least 0, and a worker
\* that stores what the gateway said has a message the gateway took.
THEOREM DeliveryInvariant == Spec => []DeliveryInv
  BY DeliveryInit, DeliveryStep, PTL DEF Spec

THEOREM TypeCorrect == Spec => []TypeOK
  <1>1. DeliveryInv => TypeOK
    BY DEF DeliveryInv
  <1> QED
    BY <1>1, DeliveryInvariant, PTL

-----------------------------------------------------------------------------
(* One worker, as the processor has: no message goes out more often than it *)
(* was asked for and dispatches broke off.                                  *)

OneWorker == \A w, x \in Workers : w = x

\* A worker is on its way to the gateway with r, or past it.
Nearing(r) == \E w \in Workers : worker[w].at \in {"gate", "send"} /\ RowOf(w) = r
Past(r) == \E w \in Workers : worker[w].at \in {"consume", "charge", "mark"} /\ RowOf(w) = r

\* r may still go out without anybody asking again.
MaySend(r) == (Status(r) = "QUEUED" \/ Nearing(r)) /\ ~Past(r)

SentOf(r) == {n \in DOMAIN sent : sent[n].row = r}
Owed(r) == IF MaySend(r) THEN 1 ELSE 0
AskedOnce(r) == IF Status(r) = "absent" THEN 0 ELSE 1
AskedFor(r) == Cardinality(SentOf(r)) + Owed(r) <= AskedOnce(r) + again[r] + broken[r]

AskingInv ==
  /\ DeliveryInv
  /\ \A r \in Rows : AskedFor(r)

LEMMA Counted ==
  ASSUME NEW n \in Nat, NEW S \in SUBSET (1..n)
  PROVE  /\ IsFiniteSet(S) /\ Cardinality(S) \in Nat
         /\ Cardinality(S \cup {n + 1}) = Cardinality(S) + 1
  <1>1. IsFiniteSet(1..n)
    BY FS_Interval
  <1>2. IsFiniteSet(S)
    BY <1>1, FS_Subset
  <1>3. n + 1 \notin S
    OBVIOUS
  <1> QED
    BY <1>2, <1>3, FS_CardinalityType, FS_AddElement

LEMMA SentCounted ==
  ASSUME TypeOK, NEW r
  PROVE  Cardinality(SentOf(r)) \in Nat
  <1>1. DOMAIN sent = 1..Len(sent) /\ Len(sent) \in Nat
    BY DEF TypeOK
  <1>2. SentOf(r) \in SUBSET (1..Len(sent))
    BY <1>1 DEF SentOf
  <1> QED
    BY <1>1, <1>2, Counted

LEMMA SentGrows ==
  ASSUME TypeOK, NEW w \in Workers, RowOf(w) \in Rows, GatewayTakes(w), NEW r \in Rows
  PROVE  Cardinality(SentOf(r)') = Cardinality(SentOf(r)) + (IF r = RowOf(w) THEN 1 ELSE 0)
  <1>1. /\ Len(sent) \in Nat
        /\ DOMAIN sent = 1..Len(sent) /\ DOMAIN sent' = 1..(Len(sent) + 1)
        /\ \A k \in DOMAIN sent : sent'[k] = sent[k]
        /\ sent'[Len(sent) + 1].row = RowOf(w)
    BY TakesAppends
  <1>2. SentOf(r) \in SUBSET (1..Len(sent))
    BY <1>1 DEF SentOf
  <1>3. CASE r = RowOf(w)
    <2>1. SentOf(r)' = SentOf(r) \cup {Len(sent) + 1}
      <3>1. 1..(Len(sent) + 1) = (1..Len(sent)) \cup {Len(sent) + 1}
        BY <1>1
      <3> QED
        BY <1>1, <1>3, <3>1 DEF SentOf
    <2> QED
      BY <1>1, <1>2, <1>3, <2>1, Counted
  <1>4. CASE r # RowOf(w)
    <2>1. SentOf(r)' = SentOf(r)
      BY <1>1, <1>4 DEF SentOf
    <2> QED
      BY <1>1, <1>2, <1>4, <2>1, SentCounted
  <1> QED
    BY <1>3, <1>4

\* A step in which nothing goes out: r is owed no more than before, unless it
\* was asked for again or a dispatch of it broke off.
LEMMA OwesNoMore ==
  ASSUME TypeOK, TypeOK', NEW r \in Rows, AskedFor(r),
         SentOf(r)' = SentOf(r),
         Status(r) # "absent" => Status(r)' # "absent",
         again[r] <= again'[r], broken[r] <= broken'[r],
         MaySend(r)' => \/ MaySend(r)
                        \/ again'[r] = again[r] + 1 \/ broken'[r] = broken[r] + 1
                        \/ AskedOnce(r)' = AskedOnce(r) + 1
  PROVE  AskedFor(r)'
  <1>1. /\ Cardinality(SentOf(r)) \in Nat /\ Cardinality(SentOf(r))' = Cardinality(SentOf(r))
        /\ {again[r], again'[r], broken[r], broken'[r]} \subseteq Nat
    BY SentCounted DEF TypeOK
  <1>2. /\ AskedOnce(r) \in {0, 1} /\ AskedOnce(r)' \in {0, 1} /\ AskedOnce(r) <= AskedOnce(r)'
        /\ Owed(r) \in {0, 1} /\ Owed(r)' \in {0, 1}
    BY DEF AskedOnce, Owed
  <1>3. \/ Owed(r)' <= Owed(r)
        \/ again'[r] = again[r] + 1 \/ broken'[r] = broken[r] + 1
        \/ AskedOnce(r)' = AskedOnce(r) + 1
    BY DEF Owed
  <1> QED
    BY <1>1, <1>2, <1>3 DEF AskedFor

\* With one worker, where it is decides.
LEMMA TheWorker ==
  ASSUME OneWorker, NEW w \in Workers, NEW r
  PROVE  /\ Nearing(r) <=> worker[w].at \in {"gate", "send"} /\ RowOf(w) = r
         /\ Past(r) <=> worker[w].at \in {"consume", "charge", "mark"} /\ RowOf(w) = r
         /\ Nearing(r)' <=> worker'[w].at \in {"gate", "send"} /\ RowOf(w)' = r
         /\ Past(r)' <=> worker'[w].at \in {"consume", "charge", "mark"} /\ RowOf(w)' = r
  BY DEF OneWorker, Nearing, Past

\* A step of a caller, the administrator or the gateway: where the worker is
\* does not change.
LEMMA WorkerWaits ==
  ASSUME DeliveryInv, OneWorker, worker' = worker,
         \A w \in Workers : ~At(w, "idle") => RowOf(w)' = RowOf(w),
         NEW r
  PROVE  (Nearing(r)' <=> Nearing(r)) /\ (Past(r)' <=> Past(r))
  BY DEF Nearing, Past, At

LEMMA CallsAsk ==
  ASSUME AskingInv, OneWorker, NEW c \in Callers, Call(c), NEW r \in Rows
  PROVE  AskedFor(r)'
  <1>0. /\ DeliveryInv /\ TypeOK /\ AskedFor(r)
        /\ worker' = worker /\ sent' = sent /\ broken' = broken
    BY DEF AskingInv, DeliveryInv, Call, Compose, Enqueue, EnqueueFails, FindFailed, Requeue
  <1>1. DeliveryInv' /\ TypeOK' /\ \A w \in Workers : ~At(w, "idle") => RowOf(w)' = RowOf(w)
    BY <1>0, CallsKeepInv DEF DeliveryInv
  <1>2. (Nearing(r)' <=> Nearing(r)) /\ (Past(r)' <=> Past(r))
    BY <1>0, <1>1, WorkerWaits
  <1>3. SentOf(r)' = SentOf(r) /\ broken[r] <= broken'[r] /\ again[r] \in Nat
    BY <1>0 DEF SentOf, TypeOK
  <1>4. CASE Compose(c)
    <2>1. PICK s \in Rows : Status(s) = "absent" /\ Marks(s, "QUEUED")
      BY <1>4 DEF Compose
    <2>2. note'[r].status = IF r = s THEN "QUEUED" ELSE note[r].status
      BY <1>0, <2>1, MarksTyped
    <2>3. again' = again
      BY <1>4 DEF Compose
    <2> QED
      BY <1>0, <1>1, <1>2, <1>3, <2>1, <2>2, <2>3, OwesNoMore DEF MaySend, Status, AskedOnce
  <1>5. CASE Requeue(c)
    <2>1. PICK s \in caller[c].found : again' = [again EXCEPT ![s] = @ + 1] /\ Marks(s, "QUEUED")
      BY <1>5 DEF Requeue
    <2>2. s \in Rows
      BY <1>0, CallerTyped
    <2>3. note'[r].status = IF r = s THEN "QUEUED" ELSE note[r].status
      BY <1>0, <2>1, <2>2, MarksTyped
    <2>4. again'[r] = IF r = s THEN again[r] + 1 ELSE again[r]
      BY <1>0, <2>1, <2>2 DEF TypeOK
    <2> QED
      BY <1>0, <1>1, <1>2, <1>3, <2>3, <2>4, OwesNoMore DEF MaySend, Status
  <1>6. CASE UNCHANGED <<note, again>>
    BY <1>0, <1>1, <1>2, <1>3, <1>6, OwesNoMore DEF MaySend, Status
  <1> QED
    BY <1>4, <1>5, <1>6 DEF Call, Enqueue, EnqueueFails, FindFailed

LEMMA OthersAsk ==
  ASSUME AskingInv, OneWorker, DeliveryInv',
         Credit \/ \E k \in 1..MaxSends : ReportComes(k) \/ ReportApplies(k),
         NEW r \in Rows
  PROVE  AskedFor(r)'
  <1>0. /\ DeliveryInv /\ TypeOK /\ TypeOK' /\ AskedFor(r)
        /\ UNCHANGED <<worker, jobs, again, broken>>
    BY DEF AskingInv, DeliveryInv, Credit, ReportComes, ReportApplies
  <1>1. (Nearing(r)' <=> Nearing(r)) /\ (Past(r)' <=> Past(r))
    BY <1>0, WorkerWaits DEF RowOf
  <1>2. again[r] <= again'[r] /\ broken[r] <= broken'[r]
    BY <1>0 DEF TypeOK
  <1>3. CASE Credit
    <2>1. SentOf(r)' = SentOf(r) /\ Status(r)' = Status(r)
      BY <1>3 DEF Credit, SentOf, Status
    <2> QED
      BY <1>0, <1>1, <1>2, <2>1, OwesNoMore DEF MaySend
  <1>4. ASSUME NEW k \in 1..MaxSends, ReportComes(k) \/ ReportApplies(k) PROVE AskedFor(r)'
    <2>1. k \in DOMAIN sent /\ \E reported \in BOOLEAN : sent' = [sent EXCEPT ![k].reported = reported]
      BY <1>4 DEF ReportComes, ReportApplies
    <2>2. DOMAIN sent' = DOMAIN sent /\ \A l \in DOMAIN sent : sent'[l].row = sent[l].row
      BY <1>0, <2>1, ReportTyped
    <2>3. SentOf(r)' = SentOf(r)
      BY <2>2 DEF SentOf
    <2>4. sent[k] \in Accepted
      BY <1>0, <2>1 DEF TypeOK
    <2>5. sent[k].row \in Rows
      BY <2>4 DEF Accepted
    <2>6. Status(r)' = Status(r) \/ Status(r)' \in {"DELIVERED", "FAILED"}
      BY <1>0, <1>4, <2>5, MarksTyped DEF ReportComes, ReportApplies, Status
    <2> QED
      BY <1>0, <1>1, <1>2, <2>3, <2>6, OwesNoMore DEF MaySend
  <1> QED
    BY <1>3, <1>4

\* The gateway takes the row the worker was on its way with, or nothing goes out.
LEMMA SendAsks ==
  ASSUME AskingInv, OneWorker, DeliveryInv', NEW w \in Workers, Send(w), NEW r \in Rows
  PROVE  AskedFor(r)'
  <1>0. /\ DeliveryInv /\ TypeOK /\ TypeOK' /\ HoldsItsJob /\ AskedFor(r)
        /\ ~At(w, "idle") /\ worker[w].at = "send" /\ RowOf(w) \in Rows
        /\ UNCHANGED <<note, jobs, caller, credit, again>>
    BY BusyHasRow DEF AskingInv, DeliveryInv, Send, At
  <1>1. PICK place \in {"consume", "mark", "fail", "throw"} :
          /\ Goes(w, place)
          /\ \/ GatewayTakes(w) /\ UNCHANGED broken /\ place \in {"consume", "mark"}
             \/ GatewayTakes(w) /\ BreaksOff(w) /\ place = "throw"
             \/ UNCHANGED <<sent, broken>> /\ place \in {"fail", "throw"}
    BY DEF Send, AfterAccepted
  <1>2. place \in Places
    BY <1>1 DEF Places
  <1>3. worker'[w].at = place /\ RowOf(w)' = RowOf(w)
    BY <1>0, <1>1, <1>2, GoesMoves
  <1>4. /\ MaySend(r) <=> (Status(r) = "QUEUED" \/ RowOf(w) = r)
        /\ MaySend(r)' => MaySend(r)
        /\ place \in {"consume", "mark"} /\ RowOf(w) = r => ~MaySend(r)'
    BY <1>0, <1>1, <1>3, TheWorker DEF MaySend, Status
  <1>5. /\ Cardinality(SentOf(r)) \in Nat /\ again'[r] = again[r] /\ AskedOnce(r)' = AskedOnce(r)
        /\ AskedOnce(r) \in {0, 1} /\ again[r] \in Nat /\ broken[r] \in Nat
    BY <1>0, SentCounted DEF TypeOK, AskedOnce, Status
  <1>6. CASE UNCHANGED <<sent, broken>>
    <2>1. SentOf(r)' = SentOf(r)
      BY <1>6 DEF SentOf
    <2> QED
      BY <1>0, <1>4, <1>5, <1>6, <2>1 DEF AskedFor, Owed
  <1>7. CASE GatewayTakes(w)
    <2>1. Cardinality(SentOf(r)') = Cardinality(SentOf(r)) + (IF r = RowOf(w) THEN 1 ELSE 0)
      BY <1>0, <1>7, SentGrows
    <2>2. CASE r # RowOf(w)
      <3>1. broken'[r] = broken[r]
        BY <1>0, <1>1, <2>2, BreaksOffTyped
      <3> QED
        BY <1>0, <1>4, <1>5, <2>1, <2>2, <3>1 DEF AskedFor, Owed
    <2>3. CASE r = RowOf(w) /\ UNCHANGED broken /\ place \in {"consume", "mark"}
      BY <1>0, <1>4, <1>5, <2>1, <2>3 DEF AskedFor, Owed
    <2>4. CASE r = RowOf(w) /\ BreaksOff(w)
      <3>1. broken'[r] = broken[r] + 1
        BY <1>0, <2>4, BreaksOffTyped
      <3> QED
        BY <1>0, <1>4, <1>5, <2>1, <2>4, <3>1 DEF AskedFor, Owed
    <2>5. CASE r = RowOf(w) /\ UNCHANGED <<sent, broken>>
      BY <1>6, <2>5
    <2> QED
      BY <1>1, <2>2, <2>3, <2>4, <2>5
  <1> QED
    BY <1>1, <1>6, <1>7

\* A worker's step that takes nothing through the gateway: it is on its way only
\* with a row that was QUEUED or that it was on its way with, and it leaves the
\* places past the gateway only by storing SENT or by breaking off.
LEMMA WorkerAsks ==
  ASSUME AskingInv, OneWorker, DeliveryInv', NEW w \in Workers,
         UNCHANGED <<sent, again>>, NEW r \in Rows,
         note'[r].status \in {note[r].status, "SENT", "FAILED"},
         broken'[r] \in {broken[r], broken[r] + 1},
         worker'[w].at \in {"gate", "send"} /\ RowOf(w)' = r
           => \/ worker[w].at = "load" /\ RowOf(w) = r /\ Status(r) = "QUEUED"
              \/ worker[w].at = "gate" /\ RowOf(w) = r,
         worker[w].at \in {"consume", "charge", "mark"} /\ RowOf(w) = r
           => \/ worker'[w].at \in {"consume", "charge", "mark"} /\ RowOf(w)' = r
              \/ broken'[r] = broken[r] + 1
              \/ worker'[w].at \notin {"gate", "send"} /\ note'[r].status = "SENT"
  PROVE  AskedFor(r)'
  <1>0. /\ TypeOK /\ TypeOK' /\ AskedFor(r)
    BY DEF AskingInv, DeliveryInv
  <1>1. SentOf(r)' = SentOf(r) /\ again[r] <= again'[r] /\ broken[r] <= broken'[r]
    BY <1>0 DEF SentOf, TypeOK
  <1>2. Status(r) # "absent" => Status(r)' # "absent"
    BY DEF Status
  <1>3. MaySend(r)' => MaySend(r) \/ broken'[r] = broken[r] + 1
    BY TheWorker DEF MaySend, Status
  <1> QED
    BY <1>0, <1>1, <1>2, <1>3, OwesNoMore

LEMMA DispatchAsks ==
  ASSUME AskingInv, OneWorker, NEW w \in Workers, Dispatch(w) \/ Crash(w), NEW r \in Rows
  PROVE  AskedFor(r)'
  <1>0. /\ DeliveryInv /\ TypeOK /\ HoldsItsJob /\ DeliveryInv'
        /\ broken[r] \in Nat
    BY DispatchKeepsInv, CrashKeepsInv DEF AskingInv, DeliveryInv, TypeOK
  <1>1. CASE Take(w)
    <2>1. UNCHANGED <<note, sent, again, broken>>
      BY <1>1 DEF Take
    <2>2. At(w, "idle") /\ worker'[w].at = "load"
      BY <1>0, <1>1 DEF Take, TypeOK
    <2> QED
      BY <1>0, <2>1, <2>2, WorkerAsks DEF At
  <1>2. CASE Load(w)
    <2>1. UNCHANGED <<note, sent, again, broken, jobs>> /\ worker[w].at = "load" /\ ~At(w, "idle")
      BY <1>2 DEF Load, At
    <2>2. PICK place \in {"finish", "send", "gate"} :
            Goes(w, place) /\ (place # "finish" => Status(RowOf(w)) = "QUEUED")
      BY <1>2 DEF Load, StillToSend
    <2>3. worker'[w].at = place /\ RowOf(w)' = RowOf(w)
      BY <1>0, <2>1, <2>2, GoesMoves DEF Places
    <2> QED
      BY <1>0, <2>1, <2>2, <2>3, WorkerAsks
  <1>3. CASE Gate(w)
    <2>1. UNCHANGED <<note, sent, again, broken>> /\ worker[w].at = "gate"
      BY <1>3 DEF Gate, At
    <2>2. RowOf(w)' = RowOf(w)
      BY <1>0, <1>3, GateMoves
    <2> QED
      BY <1>0, <2>1, <2>2, WorkerAsks
  <1>4. CASE Send(w)
    BY <1>0, <1>4, SendAsks
  <1>5. CASE Consume(w)
    <2>1. UNCHANGED <<note, sent, again, broken, jobs>> /\ worker[w].at = "consume" /\ ~At(w, "idle")
      BY <1>5 DEF Consume, At
    <2>2. PICK place \in {"mark", "charge"} : Goes(w, place)
      BY <1>5 DEF Consume
    <2>3. worker'[w].at = place /\ RowOf(w)' = RowOf(w)
      BY <1>0, <2>1, <2>2, GoesMoves DEF Places
    <2> QED
      BY <1>0, <2>1, <2>2, <2>3, WorkerAsks
  <1>6. CASE Charge(w)
    <2>1. /\ UNCHANGED <<note, sent, again, jobs>> /\ worker[w].at = "charge"
          /\ ~At(w, "idle") /\ RowOf(w) \in Rows
      BY <1>0, <1>6, BusyHasRow DEF Charge, At
    <2>2. PICK place \in {"mark", "throw"} :
            /\ Goes(w, place)
            /\ \/ place = "mark" /\ UNCHANGED broken
               \/ BreaksOff(w)
      BY <1>6 DEF Charge
    <2>3. worker'[w].at = place /\ RowOf(w)' = RowOf(w)
      BY <1>0, <2>1, <2>2, GoesMoves DEF Places
    <2>4. /\ broken'[r] \in {broken[r], broken[r] + 1}
          /\ place = "throw" /\ r = RowOf(w) => broken'[r] = broken[r] + 1
      BY <1>0, <2>1, <2>2, BreaksOffTyped
    <2> QED
      BY <1>0, <2>1, <2>2, <2>3, <2>4, WorkerAsks
  <1>7. CASE Mark(w)
    <2>1. UNCHANGED <<jobs, sent, again, broken>> /\ ~At(w, "idle") /\ Goes(w, "finish")
      BY <1>0, <1>7, MarkTyped DEF Mark
    <2>2. note'[r].status = IF r = RowOf(w) THEN "SENT" ELSE note[r].status
      BY <1>0, <1>7, MarkTyped
    <2>3. worker'[w].at = "finish" /\ RowOf(w)' = RowOf(w)
      BY <1>0, <2>1, GoesMoves DEF Places
    <2> QED
      BY <1>0, <2>1, <2>2, <2>3, WorkerAsks
  <1>8. CASE FailRow(w)
    <2>1. /\ UNCHANGED <<jobs, sent, again, broken>> /\ ~At(w, "idle") /\ worker[w].at = "fail"
          /\ Goes(w, "finish") /\ RowOf(w) \in Rows
      BY <1>0, <1>8, BusyHasRow DEF FailRow, At
    <2>2. note'[r].status \in {note[r].status, "FAILED"}
      BY <1>0, <1>8, <2>1, MarksTyped DEF FailRow
    <2>3. worker'[w].at = "finish"
      BY <1>0, <2>1, GoesMoves DEF Places
    <2> QED
      BY <1>0, <2>1, <2>2, <2>3, WorkerAsks
  <1>9. CASE Throw(w)
    <2>1. UNCHANGED <<note, sent, again, broken>> /\ worker[w].at = "throw" /\ ~At(w, "idle")
      BY <1>9 DEF Throw, At
    <2>2. worker'[w].at \in {"idle", "fail", "finish"}
      BY <1>0, <1>9, ThrowGoes
    <2> QED
      BY <1>0, <2>1, <2>2, WorkerAsks
  <1>10. CASE Finish(w)
    <2>1. UNCHANGED <<note, sent, again, broken>> /\ worker[w].at = "finish"
      BY <1>10 DEF Finish, At
    <2>2. worker'[w].at = "idle"
      BY <1>0, <1>10, IdleTyped DEF Finish, Finishes, TypeOK
    <2> QED
      BY <1>0, <2>1, <2>2, WorkerAsks
  <1>11. CASE Crash(w)
    <2>1. UNCHANGED <<note, sent, again>> /\ RowOf(w) \in Rows
      BY <1>0, <1>11, BusyHasRow DEF Crash
    <2>2. worker'[w].at = "idle"
      BY <1>0, <1>11, CrashKeepsInv DEF At
    <2>3. /\ broken'[r] \in {broken[r], broken[r] + 1}
          /\ worker[w].at \in {"consume", "charge", "mark"} /\ r = RowOf(w)
               => broken'[r] = broken[r] + 1
      BY <1>0, <1>11, <2>1, BreaksOffTyped DEF Crash
    <2> QED
      BY <1>0, <2>1, <2>2, <2>3, WorkerAsks
  <1> QED
    BY <1>1, <1>2, <1>3, <1>4, <1>5, <1>6, <1>7, <1>8, <1>9, <1>10, <1>11 DEF Dispatch

LEMMA AskingInit == Init => AskingInv
  <1> SUFFICES ASSUME Init PROVE AskingInv
    OBVIOUS
  <1>1. DeliveryInv
    BY DeliveryInit
  <1>2. ASSUME NEW r \in Rows PROVE AskedFor(r)
    <2>1. SentOf(r) = {} /\ Status(r) = "absent" /\ ~Nearing(r) /\ again[r] = 0 /\ broken[r] = 0
      BY IdleTyped DEF Init, SentOf, Status, Nearing
    <2> QED
      BY <2>1, FS_EmptySet DEF AskedFor, Owed, MaySend, AskedOnce
  <1> QED
    BY <1>1, <1>2 DEF AskingInv

LEMMA AskingStep ==
  ASSUME OneWorker
  PROVE  AskingInv /\ [Next]_vars => AskingInv'
  <1> SUFFICES ASSUME AskingInv, [Next]_vars PROVE AskingInv'
    OBVIOUS
  <1>1. DeliveryInv'
    BY DeliveryStep DEF AskingInv
  <1>2. ASSUME NEW r \in Rows PROVE AskedFor(r)'
    <2>1. CASE \E c \in Callers : Call(c)
      BY <2>1, CallsAsk
    <2>2. CASE Credit
      BY <1>1, <2>2, OthersAsk
    <2>3. CASE \E w \in Workers : Dispatch(w) \/ Crash(w)
      BY <2>3, DispatchAsks
    <2>4. CASE \E k \in 1..MaxSends : ReportComes(k) \/ ReportApplies(k)
      BY <1>1, <2>4, OthersAsk
    <2>5. CASE UNCHANGED vars
      BY <2>5 DEF AskingInv, AskedFor, SentOf, Owed, MaySend, Nearing, Past, Status, RowOf,
                  AskedOnce, vars
    <2> QED
      BY <2>1, <2>2, <2>3, <2>4, <2>5 DEF Next
  <1> QED
    BY <1>1, <1>2 DEF AskingInv

\* dispatch is idempotent: with one worker, whatever errors, crashes, retries
\* and reports do, a message goes out once for each time it was asked for and
\* for each dispatch that broke off after the gateway had taken it.
THEOREM SentOnce == ASSUME OneWorker PROVE Spec => []SentOncePerAsking
  <1>1. AskingInv => SentOncePerAsking
    <2> SUFFICES ASSUME AskingInv, NEW r \in Rows
                 PROVE  Times(sent, LAMBDA s : s.row = r) <= 1 + again[r] + broken[r]
      BY DEF SentOncePerAsking
    <2>1. Times(sent, LAMBDA s : s.row = r) = Cardinality(SentOf(r))
      BY DEF Times, SentOf
    <2>2. /\ Cardinality(SentOf(r)) \in Nat /\ again[r] \in Nat /\ broken[r] \in Nat
          /\ Owed(r) \in {0, 1} /\ AskedOnce(r) \in {0, 1}
      BY SentCounted DEF AskingInv, DeliveryInv, TypeOK, Owed, AskedOnce
    <2> QED
      BY <2>1, <2>2 DEF AskingInv, AskedFor
  <1> QED
    BY <1>1, AskingInit, AskingStep, PTL DEF Spec

-----------------------------------------------------------------------------
(* One worker, and an administrator who adds credit and takes none away:    *)
(* what Gate saw is there when Charge bills it.                             *)

OnlyTopsUp == Movements \subseteq Nat

Funded(w) ==
  /\ worker[w].at \in {"load", "gate"} => ~worker[w].metered
  /\ worker[w].at \in {"consume", "charge"} => worker[w].metered
  /\ worker[w].metered /\ worker[w].at \in {"send", "consume", "charge"}
       => Balance >= Parts[RowOf(w)]

BilledOf(r) == {n \in DOMAIN credit : credit[n].ref = r}
MeteredOf(r) == {n \in DOMAIN sent : sent[n].row = r /\ sent[n].metered}
ToBill(r) == Cardinality(Billing(r))

BillsFollow(r) ==
  /\ Cardinality(BilledOf(r)) + ToBill(r) <= Cardinality(MeteredOf(r))
  /\ Cardinality(MeteredOf(r)) <= Cardinality(BilledOf(r)) + ToBill(r) + broken[r]

BillingInv ==
  /\ DeliveryInv
  /\ \A w \in Workers : Funded(w)
  /\ \A r \in Rows : BillsFollow(r)

LEMMA BillsCounted ==
  ASSUME TypeOK, NEW r
  PROVE  Cardinality(BilledOf(r)) \in Nat /\ Cardinality(MeteredOf(r)) \in Nat
  <1>1. /\ DOMAIN sent = 1..Len(sent) /\ Len(sent) \in Nat
        /\ DOMAIN credit = 1..Len(credit) /\ Len(credit) \in Nat
    BY DEF TypeOK
  <1>2. BilledOf(r) \in SUBSET (1..Len(credit)) /\ MeteredOf(r) \in SUBSET (1..Len(sent))
    BY <1>1 DEF BilledOf, MeteredOf
  <1> QED
    BY <1>1, <1>2, Counted

LEMMA MeteredGrows ==
  ASSUME TypeOK, NEW w \in Workers, RowOf(w) \in Rows, GatewayTakes(w), NEW r \in Rows
  PROVE  Cardinality(MeteredOf(r)')
           = Cardinality(MeteredOf(r)) + (IF r = RowOf(w) /\ worker[w].metered THEN 1 ELSE 0)
  <1> DEFINE n == Len(sent) + 1
             mine == r = RowOf(w) /\ worker[w].metered
  <1>1. /\ Len(sent) \in Nat
        /\ DOMAIN sent = 1..Len(sent) /\ DOMAIN sent' = 1..n
        /\ \A k \in DOMAIN sent : sent'[k] = sent[k]
        /\ sent'[n].row = RowOf(w) /\ sent'[n].metered = worker[w].metered
    BY TakesAppends
  <1>2. MeteredOf(r) \in SUBSET (1..Len(sent))
    BY <1>1 DEF MeteredOf
  <1>3. 1..n = (1..Len(sent)) \cup {n}
    BY <1>1
  <1>4. CASE mine
    <2>1. MeteredOf(r)' = MeteredOf(r) \cup {n}
      BY <1>1, <1>3, <1>4 DEF MeteredOf
    <2> QED
      BY <1>1, <1>2, <1>4, <2>1, Counted
  <1>5. CASE ~mine
    <2>1. MeteredOf(r)' = MeteredOf(r)
      BY <1>1, <1>3, <1>5 DEF MeteredOf
    <2> QED
      BY <1>5, <2>1, BillsCounted
  <1> QED
    BY <1>4, <1>5

LEMMA BilledGrows ==
  ASSUME TypeOK, NEW ref \in Rows \cup {None}, NEW qty \in Int, Covers(qty), Moves(ref, qty),
         NEW r \in Rows
  PROVE  Cardinality(BilledOf(r)') = Cardinality(BilledOf(r)) + (IF r = ref THEN 1 ELSE 0)
  <1> DEFINE n == Len(credit) + 1
  <1>1. /\ Len(credit) \in Nat
        /\ DOMAIN credit = 1..Len(credit) /\ DOMAIN credit' = 1..n
        /\ \A k \in DOMAIN credit : credit'[k] = credit[k]
        /\ credit'[n].ref = ref
    BY CreditTyped
  <1>2. BilledOf(r) \in SUBSET (1..Len(credit))
    BY <1>1 DEF BilledOf
  <1>3. 1..n = (1..Len(credit)) \cup {n}
    BY <1>1
  <1>4. CASE r = ref
    <2>1. BilledOf(r)' = BilledOf(r) \cup {n}
      BY <1>1, <1>3, <1>4 DEF BilledOf
    <2> QED
      BY <1>1, <1>2, <1>4, <2>1, Counted
  <1>5. CASE r # ref
    <2>1. BilledOf(r)' = BilledOf(r)
      BY <1>1, <1>3, <1>5 DEF BilledOf
    <2> QED
      BY <1>5, <2>1, BillsCounted
  <1> QED
    BY <1>4, <1>5

LEMMA ToBillIs ==
  ASSUME OneWorker, NEW w \in Workers, NEW r
  PROVE  /\ ToBill(r) = IF worker[w].at \in {"consume", "charge"} /\ RowOf(w) = r THEN 1 ELSE 0
         /\ ToBill(r)' = IF worker'[w].at \in {"consume", "charge"} /\ RowOf(w)' = r THEN 1 ELSE 0
  <1>1. /\ Billing(r) = IF worker[w].at \in {"consume", "charge"} /\ RowOf(w) = r THEN {w} ELSE {}
        /\ Billing(r)' = IF worker'[w].at \in {"consume", "charge"} /\ RowOf(w)' = r THEN {w} ELSE {}
    BY DEF OneWorker, Billing
  <1>2. Cardinality({}) = 0 /\ Cardinality({w}) = 1
    BY FS_EmptySet, FS_Singleton
  <1> QED
    BY <1>1, <1>2 DEF ToBill

\* Nothing is taken and nothing billed: a message still to be billed stays so or
\* its dispatch breaks off.
LEMMA BillsStand ==
  ASSUME TypeOK, TypeOK', NEW r \in Rows, BillsFollow(r),
         BilledOf(r)' = BilledOf(r), MeteredOf(r)' = MeteredOf(r),
         \/ ToBill(r)' = ToBill(r) /\ broken'[r] \in {broken[r], broken[r] + 1}
         \/ ToBill(r) = 1 /\ ToBill(r)' = 0 /\ broken'[r] = broken[r] + 1,
         ToBill(r) \in Nat
  PROVE  BillsFollow(r)'
  <1>1. Cardinality(BilledOf(r)) \in Nat /\ Cardinality(MeteredOf(r)) \in Nat /\ broken[r] \in Nat
    BY BillsCounted DEF TypeOK
  <1>2. Cardinality(BilledOf(r))' = Cardinality(BilledOf(r))
        /\ Cardinality(MeteredOf(r))' = Cardinality(MeteredOf(r))
    OBVIOUS
  <1> QED
    BY <1>1, <1>2 DEF BillsFollow

\* What callers, the administrator and the gateway do leaves the worker its funds.
LEMMA OthersBill ==
  ASSUME BillingInv, OneWorker, OnlyTopsUp, DeliveryInv',
         \/ \E c \in Callers : Call(c)
         \/ Credit
         \/ \E k \in 1..MaxSends : ReportComes(k) \/ ReportApplies(k)
  PROVE  BillingInv'
  <1>0. /\ DeliveryInv /\ TypeOK /\ TypeOK' /\ worker' = worker /\ broken' = broken
    BY DEF BillingInv, DeliveryInv, Call, Compose, Enqueue, EnqueueFails, FindFailed, Requeue,
           Credit, ReportComes, ReportApplies
  <1>1. \A w \in Workers : ~At(w, "idle") => RowOf(w)' = RowOf(w)
    BY <1>0, CallsKeepInv DEF Credit, ReportComes, ReportApplies, RowOf
  <1>2. \A r \in Rows : Billing(r)' = Billing(r)
    BY <1>0, <1>1 DEF Billing, At
  <1>3. /\ Balance' >= Balance /\ Balance \in Nat /\ Balance' \in Nat
        /\ \A r \in Rows : BilledOf(r)' = BilledOf(r)
    <2>1. CASE Credit
      <3>1. PICK qty \in Movements : Covers(qty) /\ Moves(None, qty)
        BY <2>1 DEF Credit
      <3>2. qty \in Nat /\ qty \in Int /\ \A r \in Rows : r # None
        BY DeliveryAssumption DEF OnlyTopsUp
      <3>3. /\ Balance \in Nat /\ Balance' = Balance + qty
            /\ Len(credit) \in Nat
            /\ DOMAIN credit = 1..Len(credit) /\ DOMAIN credit' = 1..(Len(credit) + 1)
            /\ \A n \in DOMAIN credit : credit'[n] = credit[n]
            /\ credit'[Len(credit) + 1].ref = None
        BY <1>0, <3>1, <3>2, CreditTyped
      <3>4. 1..(Len(credit) + 1) = (1..Len(credit)) \cup {Len(credit) + 1}
        BY <3>3
      <3>5. \A r \in Rows : BilledOf(r)' = BilledOf(r)
        BY <3>2, <3>3, <3>4 DEF BilledOf
      <3> QED
        BY <3>2, <3>3, <3>5
    <2>2. CASE UNCHANGED credit
      <3>1. Balance \in Nat
        BY <1>0, BalanceTyped
      <3>2. Balance' = Balance /\ \A r \in Rows : BilledOf(r)' = BilledOf(r)
        BY <2>2 DEF Balance, BilledOf
      <3> QED
        BY <3>1, <3>2
    <2> QED
      BY <2>1, <2>2 DEF Call, Compose, Enqueue, EnqueueFails, FindFailed, Requeue, ReportComes,
                        ReportApplies
  <1>4. \A r \in Rows : MeteredOf(r)' = MeteredOf(r)
    <2>1. CASE UNCHANGED sent
      BY <2>1 DEF MeteredOf
    <2>2. ASSUME NEW k \in 1..MaxSends, ReportComes(k) \/ ReportApplies(k)
          PROVE  \A r \in Rows : MeteredOf(r)' = MeteredOf(r)
      <3>1. k \in DOMAIN sent /\ \E reported \in BOOLEAN : sent' = [sent EXCEPT ![k].reported = reported]
        BY <2>2 DEF ReportComes, ReportApplies
      <3>2. /\ DOMAIN sent' = DOMAIN sent
            /\ \A l \in DOMAIN sent : sent'[l].row = sent[l].row /\ sent'[l].metered = sent[l].metered
        BY <1>0, <3>1, ReportTyped
      <3> QED
        BY <3>2 DEF MeteredOf
    <2> QED
      BY <2>1, <2>2 DEF Call, Compose, Enqueue, EnqueueFails, FindFailed, Requeue, Credit
  <1>5. \A r \in Rows : BillsFollow(r)'
    BY <1>0, <1>2, <1>3, <1>4 DEF BillingInv, BillsFollow, ToBill
  <1>6. ASSUME NEW w \in Workers PROVE Funded(w)'
    <2>1. Funded(w) /\ worker'[w] = worker[w]
      BY <1>0 DEF BillingInv
    <2>2. CASE At(w, "idle")
      BY <2>1, <2>2 DEF Funded, At
    <2>3. CASE ~At(w, "idle")
      <3>1. RowOf(w)' = RowOf(w) /\ Parts[RowOf(w)] \in Nat
        BY <1>0, <1>1, <2>3, BusyHasRow, DeliveryAssumption DEF DeliveryInv
      <3> QED
        BY <1>3, <2>1, <3>1 DEF Funded
    <2> QED
      BY <2>2, <2>3
  <1> QED
    BY <1>5, <1>6 DEF BillingInv

\* A worker's step in which the gateway takes nothing and nothing is billed.
LEMMA QuietBill ==
  ASSUME BillingInv, OneWorker, DeliveryInv', NEW w \in Workers,
         UNCHANGED <<sent, credit>>,
         \A r \in Rows : broken'[r] \in {broken[r], broken[r] + 1},
         Funded(w)',
         \/ /\ worker[w].at \notin {"consume", "charge"} /\ worker'[w].at \notin {"consume", "charge"}
         \/ /\ worker[w].at = "consume" /\ worker'[w].at = "charge" /\ RowOf(w)' = RowOf(w)
         \/ /\ worker[w].at \in {"consume", "charge"} /\ worker'[w].at \notin {"consume", "charge"}
            /\ broken'[RowOf(w)] = broken[RowOf(w)] + 1
  PROVE  BillingInv'
  <1>1. TypeOK /\ TypeOK'
    BY DEF BillingInv, DeliveryInv
  <1>2. ASSUME NEW r \in Rows PROVE BillsFollow(r)'
    <2>1. BilledOf(r)' = BilledOf(r) /\ MeteredOf(r)' = MeteredOf(r) /\ BillsFollow(r)
      BY DEF BilledOf, MeteredOf, BillingInv
    <2>2. /\ ToBill(r) \in {0, 1}
          /\ \/ ToBill(r)' = ToBill(r) /\ broken'[r] \in {broken[r], broken[r] + 1}
             \/ ToBill(r) = 1 /\ ToBill(r)' = 0 /\ broken'[r] = broken[r] + 1
      BY ToBillIs
    <2> QED
      BY <1>1, <2>1, <2>2, BillsStand
  <1>3. \A x \in Workers : Funded(x)'
    BY DEF OneWorker
  <1> QED
    BY <1>2, <1>3 DEF BillingInv

LEMMA SendBills ==
  ASSUME BillingInv, OneWorker, DeliveryInv', NEW w \in Workers, Send(w)
  PROVE  BillingInv'
  <1>0. /\ DeliveryInv /\ TypeOK /\ TypeOK' /\ HoldsItsJob /\ Funded(w)
        /\ ~At(w, "idle") /\ worker[w].at = "send" /\ RowOf(w) \in Rows
        /\ UNCHANGED <<note, jobs, caller, credit, again>>
    BY BusyHasRow DEF BillingInv, DeliveryInv, Send, At
  <1>1. PICK place \in {"consume", "mark", "fail", "throw"} :
          /\ Goes(w, place)
          /\ \/ GatewayTakes(w) /\ UNCHANGED broken /\ place = AfterAccepted(w)
             \/ GatewayTakes(w) /\ BreaksOff(w) /\ place = "throw"
             \/ UNCHANGED <<sent, broken>> /\ place \in {"fail", "throw"}
    BY DEF Send, AfterAccepted
  <1>2. place \in Places
    BY <1>1 DEF Places
  <1>3. worker'[w].at = place /\ worker'[w].metered = worker[w].metered /\ RowOf(w)' = RowOf(w)
    BY <1>0, <1>1, <1>2, GoesMoves
  <1>4. Funded(w)'
    BY <1>0, <1>1, <1>3 DEF Funded, Balance, AfterAccepted
  <1>5. \A x \in Workers : Funded(x)'
    BY <1>4 DEF OneWorker
  <1>6. CASE UNCHANGED <<sent, broken>> /\ place \in {"fail", "throw"}
    BY <1>0, <1>3, <1>4, <1>6, QuietBill
  <1>7. CASE GatewayTakes(w)
    <2>1. SUFFICES ASSUME NEW r \in Rows PROVE BillsFollow(r)'
      BY <1>5 DEF BillingInv
    <2>2. Cardinality(MeteredOf(r)') =
            Cardinality(MeteredOf(r)) + (IF r = RowOf(w) /\ worker[w].metered THEN 1 ELSE 0)
      BY <1>0, <1>7, MeteredGrows
    <2>3. BilledOf(r)' = BilledOf(r) /\ BillsFollow(r)
      BY <1>0 DEF BilledOf, BillingInv
    <2>4. Cardinality(BilledOf(r)) \in Nat /\ Cardinality(MeteredOf(r)) \in Nat /\ broken[r] \in Nat
      BY <1>0, BillsCounted DEF TypeOK
    <2>5. /\ ToBill(r) = 0
          /\ ToBill(r)' = IF place = "consume" /\ r = RowOf(w) THEN 1 ELSE 0
      BY <1>0, <1>1, <1>3, ToBillIs
    <2>6. \/ /\ broken'[r] = broken[r]
             /\ place = "consume" <=> worker[w].metered
          \/ /\ broken'[r] = (IF r = RowOf(w) THEN broken[r] + 1 ELSE broken[r])
             /\ place = "throw"
          \/ UNCHANGED <<sent, broken>> /\ place \in {"fail", "throw"}
      BY <1>0, <1>1, BreaksOffTyped DEF AfterAccepted
    <2>7. CASE UNCHANGED <<sent, broken>> /\ place \in {"fail", "throw"}
      BY <1>6, <2>7 DEF BillingInv
    <2>8. worker[w].metered \in BOOLEAN
      BY <1>0 DEF TypeOK, Worker
    <2> QED
      BY <2>2, <2>3, <2>4, <2>5, <2>6, <2>7, <2>8 DEF BillsFollow
  <1> QED
    BY <1>1, <1>6, <1>7

\* What Gate saw is still there: the CHECK lets the bill through.
LEMMA ChargeBills ==
  ASSUME BillingInv, OneWorker, DeliveryInv', NEW w \in Workers, Charge(w)
  PROVE  BillingInv'
  <1>0. /\ DeliveryInv /\ TypeOK /\ TypeOK' /\ HoldsItsJob /\ Funded(w)
        /\ ~At(w, "idle") /\ worker[w].at = "charge" /\ RowOf(w) \in Rows
        /\ UNCHANGED <<note, jobs, caller, sent, again, counts>>
    BY BusyHasRow DEF BillingInv, DeliveryInv, Charge, At
  <1>1. Parts[RowOf(w)] \in Nat /\ Balance \in Nat /\ Balance >= Parts[RowOf(w)]
    BY <1>0, BalanceTyped, DeliveryAssumption DEF Funded
  <1>2. /\ Covers(-Parts[RowOf(w)]) /\ Moves(RowOf(w), -Parts[RowOf(w)])
        /\ Goes(w, "mark") /\ UNCHANGED broken
    BY <1>1 DEF Charge, Covers
  <1>3. worker'[w].at = "mark"
    BY <1>0, <1>2, GoesMoves DEF Places
  <1>4. \A x \in Workers : Funded(x)'
    BY <1>3 DEF OneWorker, Funded
  <1>5. ASSUME NEW r \in Rows PROVE BillsFollow(r)'
    <2>0. -Parts[RowOf(w)] \in Int
      BY <1>1
    <2>1. Cardinality(BilledOf(r)') = Cardinality(BilledOf(r)) + (IF r = RowOf(w) THEN 1 ELSE 0)
      BY <1>0, <1>2, <2>0, BilledGrows
    <2>2. MeteredOf(r)' = MeteredOf(r) /\ BillsFollow(r) /\ broken'[r] = broken[r]
      BY <1>0, <1>2 DEF MeteredOf, BillingInv
    <2>3. Cardinality(BilledOf(r)) \in Nat /\ Cardinality(MeteredOf(r)) \in Nat /\ broken[r] \in Nat
      BY <1>0, BillsCounted DEF TypeOK
    <2>4. ToBill(r) = (IF r = RowOf(w) THEN 1 ELSE 0) /\ ToBill(r)' = 0
      BY <1>0, <1>3, ToBillIs
    <2> QED
      BY <2>1, <2>2, <2>3, <2>4 DEF BillsFollow
  <1> QED
    BY <1>4, <1>5 DEF BillingInv

LEMMA DispatchBills ==
  ASSUME BillingInv, OneWorker, NEW w \in Workers, Dispatch(w) \/ Crash(w)
  PROVE  BillingInv'
  <1>0. /\ DeliveryInv /\ TypeOK /\ HoldsItsJob /\ DeliveryInv' /\ Funded(w)
        /\ \A r \in Rows : broken[r] \in Nat
    BY DispatchKeepsInv, CrashKeepsInv DEF BillingInv, DeliveryInv, TypeOK
  <1>1. CASE Take(w)
    <2>1. UNCHANGED <<sent, credit, broken>> /\ worker[w].at = "idle"
      BY <1>1 DEF Take, At
    <2>2. worker'[w].at = "load" /\ worker'[w].metered = FALSE
      BY <1>0, <1>1 DEF Take, TypeOK
    <2>3. Funded(w)'
      BY <2>2 DEF Funded
    <2> QED
      BY <1>0, <2>1, <2>2, <2>3, QuietBill
  <1>2. CASE Load(w)
    <2>1. UNCHANGED <<sent, credit, broken, jobs>> /\ worker[w].at = "load" /\ ~At(w, "idle")
      BY <1>2 DEF Load, At
    <2>2. PICK place \in {"finish", "send", "gate"} : Goes(w, place)
      BY <1>2 DEF Load
    <2>3. worker'[w].at = place /\ worker'[w].metered = worker[w].metered
      BY <1>0, <2>1, <2>2, GoesMoves DEF Places
    <2>4. Funded(w)'
      BY <1>0, <2>1, <2>3 DEF Funded
    <2> QED
      BY <1>0, <2>1, <2>3, <2>4, QuietBill
  <1>3. CASE Gate(w)
    <2>1. UNCHANGED <<sent, credit, broken>> /\ worker[w].at = "gate" /\ ~At(w, "idle")
      BY <1>3 DEF Gate, At
    <2>2. RowOf(w) \in Rows /\ Parts[RowOf(w)] \in Nat /\ Balance \in Nat
      BY <1>0, <2>1, BusyHasRow, BalanceTyped, DeliveryAssumption
    <2>3. /\ worker'[w].at = IF IsMetered /\ Balance < Parts[RowOf(w)] THEN "fail" ELSE "send"
          /\ worker'[w].metered = IsMetered /\ RowOf(w)' = RowOf(w)
      BY <1>0, <1>3, GateMoves
    <2>4. Balance' = Balance
      BY <2>1 DEF Balance
    <2>5. Funded(w)'
      BY <2>2, <2>3, <2>4 DEF Funded
    <2> QED
      BY <1>0, <2>1, <2>3, <2>5, QuietBill
  <1>4. CASE Send(w)
    BY <1>0, <1>4, SendBills
  <1>5. CASE Consume(w)
    <2>1. UNCHANGED <<sent, credit, broken, jobs>> /\ worker[w].at = "consume" /\ ~At(w, "idle")
      BY <1>5 DEF Consume, At
    <2>2. RowOf(w) \in Rows /\ Parts[RowOf(w)] \in Nat /\ Balance \in Nat /\ Balance >= Parts[RowOf(w)]
      BY <1>0, <2>1, BusyHasRow, BalanceTyped, DeliveryAssumption DEF Funded
    <2>3. Goes(w, "charge")
      BY <1>5, <2>2 DEF Consume
    <2>4. worker'[w].at = "charge" /\ worker'[w].metered = worker[w].metered /\ RowOf(w)' = RowOf(w)
      BY <1>0, <2>1, <2>3, GoesMoves DEF Places
    <2>5. Funded(w)'
      BY <1>0, <2>1, <2>2, <2>4 DEF Funded, Balance
    <2> QED
      BY <1>0, <2>1, <2>4, <2>5, QuietBill
  <1>6. CASE Charge(w)
    BY <1>0, <1>6, ChargeBills
  <1>7. CASE Mark(w)
    <2>1. /\ UNCHANGED <<sent, credit, broken, jobs>> /\ worker[w].at = "mark" /\ ~At(w, "idle")
          /\ Goes(w, "finish")
      BY <1>7 DEF Mark, At
    <2>2. worker'[w].at = "finish"
      BY <1>0, <2>1, GoesMoves DEF Places
    <2>3. Funded(w)'
      BY <2>2 DEF Funded
    <2> QED
      BY <1>0, <2>1, <2>2, <2>3, QuietBill
  <1>8. CASE FailRow(w)
    <2>1. /\ UNCHANGED <<sent, credit, broken, jobs>> /\ worker[w].at = "fail" /\ ~At(w, "idle")
          /\ Goes(w, "finish")
      BY <1>8 DEF FailRow, At
    <2>2. worker'[w].at = "finish"
      BY <1>0, <2>1, GoesMoves DEF Places
    <2>3. Funded(w)'
      BY <2>2 DEF Funded
    <2> QED
      BY <1>0, <2>1, <2>2, <2>3, QuietBill
  <1>9. CASE Throw(w)
    <2>1. UNCHANGED <<sent, credit, broken>> /\ worker[w].at = "throw" /\ ~At(w, "idle")
      BY <1>9 DEF Throw, At
    <2>2. worker'[w].at \in {"idle", "fail", "finish"}
      BY <1>0, <1>9, <2>1, ThrowGoes
    <2>3. Funded(w)'
      BY <2>2 DEF Funded
    <2> QED
      BY <1>0, <2>1, <2>2, <2>3, QuietBill
  <1>10. CASE Finish(w)
    <2>1. UNCHANGED <<sent, credit, broken>> /\ worker[w].at = "finish"
      BY <1>10 DEF Finish, At
    <2>2. worker'[w].at = "idle"
      BY <1>0, <1>10, IdleTyped DEF Finish, Finishes, TypeOK
    <2>3. Funded(w)'
      BY <2>2 DEF Funded
    <2> QED
      BY <1>0, <2>1, <2>2, <2>3, QuietBill
  <1>11. CASE Crash(w)
    <2>1. UNCHANGED <<sent, credit>> /\ RowOf(w) \in Rows /\ ~At(w, "idle")
      BY <1>0, <1>11, BusyHasRow DEF Crash
    <2>2. worker'[w].at = "idle"
      BY <1>0, <1>11, CrashKeepsInv DEF At
    <2>3. Funded(w)'
      BY <2>2 DEF Funded
    <2>4. /\ \A r \in Rows : broken'[r] \in {broken[r], broken[r] + 1}
          /\ worker[w].at \in {"consume", "charge"} => broken'[RowOf(w)] = broken[RowOf(w)] + 1
      BY <1>0, <1>11, <2>1, BreaksOffTyped DEF Crash
    <2> QED
      BY <1>0, <2>1, <2>2, <2>3, <2>4, QuietBill
  <1> QED
    BY <1>1, <1>2, <1>3, <1>4, <1>5, <1>6, <1>7, <1>8, <1>9, <1>10, <1>11 DEF Dispatch

LEMMA BillingInit == Init => BillingInv
  <1> SUFFICES ASSUME Init PROVE BillingInv
    OBVIOUS
  <1>1. DeliveryInv
    BY DeliveryInit
  <1>2. \A w \in Workers : Funded(w)
    BY IdleTyped DEF Init, Funded
  <1>3. ASSUME NEW r \in Rows PROVE BillsFollow(r)
    <2>1. BilledOf(r) = {} /\ MeteredOf(r) = {} /\ Billing(r) = {} /\ broken[r] = 0
      BY IdleTyped DEF Init, BilledOf, MeteredOf, Billing
    <2> QED
      BY <2>1, FS_EmptySet DEF BillsFollow, ToBill
  <1> QED
    BY <1>1, <1>2, <1>3 DEF BillingInv

LEMMA BillingStep ==
  ASSUME OneWorker, OnlyTopsUp
  PROVE  BillingInv /\ [Next]_vars => BillingInv'
  <1> SUFFICES ASSUME BillingInv, [Next]_vars PROVE BillingInv'
    OBVIOUS
  <1>1. DeliveryInv'
    BY DeliveryStep DEF BillingInv
  <1>2. CASE \E c \in Callers : Call(c)
    BY <1>1, <1>2, OthersBill
  <1>3. CASE Credit
    BY <1>1, <1>3, OthersBill
  <1>4. CASE \E w \in Workers : Dispatch(w) \/ Crash(w)
    BY <1>4, DispatchBills
  <1>5. CASE \E k \in 1..MaxSends : ReportComes(k) \/ ReportApplies(k)
    BY <1>1, <1>5, OthersBill
  <1>6. CASE UNCHANGED vars
    BY <1>1, <1>6 DEF BillingInv, Funded, BillsFollow, BilledOf, MeteredOf, ToBill, Billing, RowOf,
                      Balance, vars
  <1> QED
    BY <1>2, <1>3, <1>4, <1>5, <1>6 DEF Next

\* With one worker, and corrections that only add credit, what the gateway takes
\* on a metered account is billed once: what is not was cut short by a crash or
\* an error, or is just being billed, and nothing is billed that was not taken.
THEOREM BilledOnce == ASSUME OneWorker, OnlyTopsUp PROVE Spec => []BilledAsSent
  <1>1. BillingInv => BilledAsSent
    <2> SUFFICES ASSUME BillingInv, NEW r \in Rows
                 PROVE  LET taken == Times(sent, LAMBDA s : s.row = r /\ s.metered)
                            billed == Times(credit, LAMBDA c : c.ref = r)
                        IN  billed <= taken /\ taken <= billed + broken[r] + Cardinality(Billing(r))
      BY DEF BilledAsSent
    <2>1. /\ Times(sent, LAMBDA s : s.row = r /\ s.metered) = Cardinality(MeteredOf(r))
          /\ Times(credit, LAMBDA c : c.ref = r) = Cardinality(BilledOf(r))
      BY DEF Times, MeteredOf, BilledOf
    <2>2. /\ Cardinality(BilledOf(r)) \in Nat /\ Cardinality(MeteredOf(r)) \in Nat
          /\ broken[r] \in Nat
      BY BillsCounted DEF BillingInv, DeliveryInv, TypeOK
    <2>3. ToBill(r) \in Nat
      <3>1. CASE Workers = {}
        BY <3>1, FS_EmptySet DEF ToBill, Billing
      <3>2. CASE Workers # {}
        BY <3>2, ToBillIs
      <3> QED
        BY <3>1, <3>2
    <2> QED
      BY <2>1, <2>2, <2>3 DEF BillingInv, BillsFollow, ToBill
  <1> QED
    BY <1>1, BillingInit, BillingStep, PTL DEF Spec

-----------------------------------------------------------------------------
(* A row nobody has asked for again has one job, from the caller that wrote *)
(* it to the worker that ends it, whatever the workers, callers, crashes    *)
(* and reports; so a delivered one is no worker's business any more.        *)

\* Where a worker still means to send the row, or to write what became of it.
Undecided == {"gate", "send", "consume", "charge", "mark", "fail", "throw"}
Deciding(r) == {w \in Workers : worker[w].at \in Undecided /\ RowOf(w) = r}

JobsOf(r) == {j \in JobIds : jobs[j] # None /\ jobs[j].row = r}
AddedBy(r) == {c \in Callers : caller[c].adding = r}
ReportsOn(r) == {k \in DOMAIN sent : sent[k].row = r /\ sent[k].reported}

HasOneJob(r) ==
  /\ \A i, j \in JobsOf(r) : i = j
  /\ \A c, d \in AddedBy(r) : c = d
  /\ AddedBy(r) # {} => JobsOf(r) = {}
  /\ Status(r) = "absent" => JobsOf(r) = {} /\ AddedBy(r) = {}

\* Its provider id is stored when it is decided, and reports need that id.
IsDecidedOnce(r) ==
  /\ Deciding(r) # {} => Status(r) = "QUEUED" /\ note[r].pid = 0
  /\ note[r].pid # 0 => Status(r) \notin {"absent", "QUEUED"}
  /\ ReportsOn(r) # {} => note[r].pid # 0

Undisturbed(r) == HasOneJob(r) /\ IsDecidedOnce(r)

DeliveredInv ==
  /\ DeliveryInv
  /\ \A r \in Rows : again[r] = 0 => Undisturbed(r)

KeepsDelivered ==
  \A r \in Rows : TakesBack(r) =>
    \/ again'[r] > 0
    \/ SaysOtherwise(r) /\ note'[r].status = "FAILED" /\ worker' = worker

\* A step that gives the row no job, no caller and no report, and to which only
\* a worker that found the row QUEUED is new.
LEMMA LeftUndisturbed ==
  ASSUME NEW r \in Rows, Undisturbed(r),
         note'[r] = note[r],
         JobsOf(r)' \subseteq JobsOf(r), AddedBy(r)' \subseteq AddedBy(r),
         ReportsOn(r)' \subseteq ReportsOn(r),
         Deciding(r)' \subseteq Deciding(r) \/ Status(r) = "QUEUED"
  PROVE  Undisturbed(r)'
  <1>1. Status(r)' = Status(r)
    BY DEF Status
  <1>2. HasOneJob(r)'
    BY <1>1 DEF Undisturbed, HasOneJob
  <1>3. IsDecidedOnce(r)'
    BY <1>1 DEF Undisturbed, IsDecidedOnce
  <1> QED
    BY <1>2, <1>3 DEF Undisturbed

\* A worker that decides on a row nobody asked for again is the only one.
LEMMA DecidesAlone ==
  ASSUME DeliveryInv, NEW r \in Rows, HasOneJob(r),
         NEW w \in Deciding(r), NEW x \in Deciding(r)
  PROVE  x = w
  <1>1. HoldsItsJob
    BY DEF DeliveryInv
  <1>2. w \in Workers /\ x \in Workers /\ ~At(w, "idle") /\ ~At(x, "idle")
    BY DEF Deciding, Undecided, At
  <1>3. worker[w].job \in JobsOf(r) /\ worker[x].job \in JobsOf(r)
    BY <1>1, <1>2 DEF HoldsItsJob, JobsOf, Deciding, RowOf
  <1>4. worker[w].job = worker[x].job
    BY <1>3 DEF HasOneJob
  <1> QED
    BY <1>1, <1>2, <1>4 DEF HoldsItsJob

\* Where no worker decides, none does after a step of somebody else.
LEMMA NobodyDecides ==
  ASSUME DeliveryInv, worker' = worker,
         \A w \in Workers : ~At(w, "idle") => RowOf(w)' = RowOf(w),
         NEW r
  PROVE  Deciding(r)' = Deciding(r)
  BY DEF Deciding, Undecided, At

LEMMA CallsDeliver ==
  ASSUME DeliveredInv, NEW c \in Callers, Call(c)
  PROVE  DeliveredInv' /\ KeepsDelivered
  <1>0. /\ DeliveryInv /\ TypeOK /\ DeliveryInv' /\ worker' = worker /\ sent' = sent
        /\ \A w \in Workers : ~At(w, "idle") => RowOf(w)' = RowOf(w)
    BY CallsKeepInv DEF DeliveredInv, DeliveryInv, Call, Compose, Enqueue, EnqueueFails, FindFailed, Requeue
  <1>1. \A r \in Rows : Deciding(r)' = Deciding(r)
    BY <1>0, NobodyDecides
  <1>2. \A r \in Rows : ReportsOn(r)' = ReportsOn(r)
    BY <1>0 DEF ReportsOn
  <1>3. \A r \in Rows : again[r] \in Nat /\ (again[r] = 0 => Undisturbed(r))
    BY <1>0 DEF DeliveredInv, TypeOK
  <1>4. CASE Compose(c)
    <2>1. PICK s \in Rows :
            /\ Status(s) = "absent" /\ Marks(s, "QUEUED")
            /\ caller' = [caller EXCEPT ![c].adding = s]
      BY <1>4 DEF Compose
    <2>2. \A r \in Rows : /\ note'[r].status = IF r = s THEN "QUEUED" ELSE note[r].status
                          /\ note'[r].pid = note[r].pid
                          /\ r # s => note'[r] = note[r]
      BY <1>0, <2>1, MarksTyped DEF Marks, TypeOK
    <2>3. jobs' = jobs /\ again' = again /\ caller[c].adding = None
      BY <1>4, IdleTyped DEF Compose, IdleCaller
    <2>4. \A r \in Rows : JobsOf(r)' = JobsOf(r)
      BY <2>3 DEF JobsOf
    <2>5. \A r \in Rows : AddedBy(r)' = IF r = s THEN AddedBy(r) \cup {c} ELSE AddedBy(r)
      <3>1. \A d \in Callers : caller'[d].adding = IF d = c THEN s ELSE caller[d].adding
        BY <1>0, <2>1 DEF TypeOK, Caller
      <3>2. \A r \in Rows : r # None
        BY DeliveryAssumption
      <3> QED
        BY <2>3, <3>1, <3>2 DEF AddedBy
    <2>6. ASSUME NEW r \in Rows, again'[r] = 0 PROVE Undisturbed(r)'
      <3>1. Undisturbed(r)
        BY <1>3, <2>3, <2>6
      <3>2. CASE r = s
        <4>1. /\ JobsOf(r) = {} /\ AddedBy(r) = {} /\ Deciding(r) = {}
              /\ ReportsOn(r) = {} /\ note[r].pid = 0
          BY <2>1, <3>1, <3>2 DEF Undisturbed, HasOneJob, IsDecidedOnce, Status
        <4>2. Status(r)' = "QUEUED" /\ note'[r].pid = 0
          BY <2>2, <3>2, <4>1 DEF Status
        <4>3. AddedBy(r)' = {c} /\ JobsOf(r)' = {} /\ Deciding(r)' = {} /\ ReportsOn(r)' = {}
          BY <1>1, <1>2, <2>4, <2>5, <3>2, <4>1
        <4> QED
          BY <4>2, <4>3 DEF Undisturbed, HasOneJob, IsDecidedOnce
      <3>3. CASE r # s
        BY <1>1, <1>2, <2>2, <2>4, <2>5, <3>1, <3>3, LeftUndisturbed
      <3> QED
        BY <3>2, <3>3
    <2>7. KeepsDelivered
      BY <2>1, <2>2 DEF KeepsDelivered, TakesBack, Status
    <2> QED
      BY <1>0, <2>6, <2>7 DEF DeliveredInv
  <1>5. CASE Enqueue(c)
    <2>1. PICK j \in JobIds :
            /\ jobs[j] = None
            /\ jobs' = [jobs EXCEPT ![j] = [row |-> caller[c].adding, made |-> 0,
                                            stalls |-> 0, active |-> FALSE]]
      BY <1>5, Zenon DEF Enqueue
    <2>2. note' = note /\ again' = again /\ caller' = [caller EXCEPT ![c].adding = None]
      BY <1>5 DEF Enqueue
    <2> DEFINE s == caller[c].adding
    <2>3. \A d \in Callers : caller'[d].adding = IF d = c THEN None ELSE caller[d].adding
      BY <1>0, <2>2 DEF TypeOK, Caller
    <2>4. \A r \in Rows : r # None
      BY DeliveryAssumption
    <2>5. \A r \in Rows : AddedBy(r)' = AddedBy(r) \ {c}
      BY <2>3, <2>4 DEF AddedBy
    <2>6. \A r \in Rows : r = s => c \in AddedBy(r)
      BY DEF AddedBy
    <2>7. \A i \in JobIds : (i # j => jobs'[i] = jobs[i]) /\ (i = j => jobs'[i].row = s)
      BY <1>0, <2>1 DEF TypeOK
    <2> HIDE DEF s
    <2>8. \A r \in Rows : r # s => JobsOf(r)' \subseteq JobsOf(r)
      BY <2>7 DEF JobsOf
    <2>9. \A r \in Rows : r = s => JobsOf(r)' \subseteq JobsOf(r) \cup {j}
      BY <2>7 DEF JobsOf
    <2>10. ASSUME NEW r \in Rows, again'[r] = 0 PROVE Undisturbed(r)'
      <3>1. Undisturbed(r)
        BY <1>3, <2>2, <2>10
      <3>2. CASE r = s
        <4>1. /\ JobsOf(r) = {} /\ AddedBy(r) = {c} /\ Status(r) # "absent"
          BY <2>6, <3>1, <3>2 DEF Undisturbed, HasOneJob
        <4>2. AddedBy(r)' = {} /\ JobsOf(r)' \subseteq {j}
          BY <2>5, <2>9, <3>2, <4>1
        <4>3. Status(r)' = Status(r) /\ note'[r] = note[r]
          BY <2>2 DEF Status
        <4>4. HasOneJob(r)'
          BY <4>1, <4>2, <4>3 DEF HasOneJob
        <4>5. IsDecidedOnce(r)'
          BY <1>1, <1>2, <3>1, <4>3 DEF Undisturbed, IsDecidedOnce
        <4> QED
          BY <4>4, <4>5 DEF Undisturbed
      <3>3. CASE r # s
        BY <1>1, <1>2, <2>2, <2>5, <2>8, <3>1, <3>3, LeftUndisturbed
      <3> QED
        BY <3>2, <3>3
    <2> QED
      BY <1>0, <2>2, <2>10 DEF DeliveredInv, KeepsDelivered, TakesBack, Status
  <1>6. CASE EnqueueFails(c) \/ FindFailed(c)
    <2>1. note' = note /\ again' = again /\ jobs' = jobs
      BY <1>6 DEF EnqueueFails, FindFailed
    <2>2. \A d \in Callers : caller'[d].adding \in {None, caller[d].adding}
      <3>1. caller \in [Callers -> Caller] /\ IdleCaller.adding = None
        BY <1>0 DEF TypeOK, IdleCaller
      <3>2. CASE EnqueueFails(c)
        BY <3>1, <3>2 DEF EnqueueFails
      <3>3. CASE FindFailed(c)
        <4>1. PICK found : caller' = [caller EXCEPT ![c].found = found]
          BY <3>3 DEF FindFailed
        <4> QED
          BY <3>1, <4>1 DEF Caller
      <3> QED
        BY <1>6, <3>2, <3>3
    <2>3. \A r \in Rows : r # None
      BY DeliveryAssumption
    <2>4. \A r \in Rows : AddedBy(r)' \subseteq AddedBy(r) /\ JobsOf(r)' = JobsOf(r)
      BY <2>1, <2>2, <2>3 DEF AddedBy, JobsOf
    <2>5. \A r \in Rows : again'[r] = 0 => Undisturbed(r)'
      BY <1>1, <1>2, <1>3, <2>1, <2>4, LeftUndisturbed
    <2> QED
      BY <1>0, <2>1, <2>5 DEF DeliveredInv, KeepsDelivered, TakesBack, Status
  <1>7. CASE Requeue(c)
    <2>1. PICK s \in caller[c].found :
            /\ again' = [again EXCEPT ![s] = @ + 1]
            /\ Marks(s, "QUEUED")
            /\ caller' = [caller EXCEPT ![c] = [found |-> @.found \ {s}, adding |-> s]]
      BY <1>7 DEF Requeue
    <2>2. s \in Rows /\ jobs' = jobs
      BY <1>0, <1>7, <2>1, CallerTyped DEF Requeue
    <2>3. /\ again'[s] = again[s] + 1
          /\ \A r \in Rows : r # s => again'[r] = again[r] /\ note'[r] = note[r]
      BY <1>0, <2>1, <2>2 DEF Marks, TypeOK
    <2>4. again'[s] > 0
      BY <1>3, <2>2, <2>3
    <2>5. \A d \in Callers : caller'[d].adding = IF d = c THEN s ELSE caller[d].adding
      BY <1>0, <2>1 DEF TypeOK, Caller
    <2>6. \A r \in Rows : r # s => AddedBy(r)' \subseteq AddedBy(r) /\ JobsOf(r)' = JobsOf(r)
      BY <2>2, <2>5 DEF AddedBy, JobsOf
    <2>7. \A r \in Rows : again'[r] = 0 => Undisturbed(r)'
      BY <1>1, <1>2, <1>3, <2>3, <2>4, <2>6, LeftUndisturbed
    <2>8. KeepsDelivered
      BY <2>3, <2>4 DEF KeepsDelivered, TakesBack, Status
    <2> QED
      BY <1>0, <2>7, <2>8 DEF DeliveredInv
  <1> QED
    BY <1>4, <1>5, <1>6, <1>7 DEF Call

LEMMA CreditDelivers ==
  ASSUME DeliveredInv, Credit
  PROVE  DeliveredInv' /\ KeepsDelivered
  <1>0. /\ DeliveryInv /\ DeliveryInv'
        /\ UNCHANGED <<note, jobs, worker, caller, sent, again>>
    BY CreditKeepsInv DEF DeliveredInv, Credit
  <1>1. ASSUME NEW r \in Rows, again'[r] = 0 PROVE Undisturbed(r)'
    <2>1. /\ JobsOf(r)' = JobsOf(r) /\ AddedBy(r)' = AddedBy(r)
          /\ ReportsOn(r)' = ReportsOn(r) /\ Deciding(r)' = Deciding(r)
      BY <1>0 DEF JobsOf, AddedBy, ReportsOn, Deciding, RowOf
    <2> QED
      BY <1>0, <1>1, <2>1, LeftUndisturbed DEF DeliveredInv
  <1> QED
    BY <1>0, <1>1 DEF DeliveredInv, KeepsDelivered, TakesBack, Status

\* A report comes for a row that has been decided; one that is applied says
\* DELIVERED or FAILED, whatever the row says.
LEMMA ReportsDeliver ==
  ASSUME DeliveredInv, NEW k, ReportComes(k) \/ ReportApplies(k)
  PROVE  DeliveredInv' /\ KeepsDelivered
  <1>0. /\ DeliveryInv /\ TypeOK /\ DeliveryInv' /\ k \in DOMAIN sent
        /\ UNCHANGED <<jobs, worker, caller, again>>
    BY ReportKeepsInv DEF DeliveredInv, DeliveryInv, ReportComes, ReportApplies
  <1> DEFINE s == sent[k].row
  <1> HIDE DEF s
  <1>1. s \in Rows /\ k # 0
    <2>1. sent \in Seq(Accepted) /\ DOMAIN sent = 1..Len(sent) /\ Len(sent) \in Nat
      BY <1>0 DEF TypeOK
    <2>2. sent[k] \in Accepted
      BY <1>0, <2>1
    <2> QED
      BY <1>0, <2>1, <2>2 DEF Accepted, s
  <1>2. \A r \in Rows : /\ JobsOf(r)' = JobsOf(r) /\ AddedBy(r)' = AddedBy(r)
                        /\ Deciding(r)' = Deciding(r)
    BY <1>0 DEF JobsOf, AddedBy, Deciding, RowOf
  <1>3. \E reported \in BOOLEAN : sent' = [sent EXCEPT ![k].reported = reported]
    BY DEF ReportComes, ReportApplies
  <1>4. /\ DOMAIN sent' = DOMAIN sent
        /\ \A l \in DOMAIN sent : /\ sent'[l].row = sent[l].row
                                  /\ l # k => sent'[l].reported = sent[l].reported
    BY <1>0, <1>3, ReportTyped
  <1>5. \A r \in Rows : ReportsOn(r)' \subseteq IF r = s THEN ReportsOn(r) \cup {k} ELSE ReportsOn(r)
    BY <1>4 DEF ReportsOn, s
  <1>6. CASE ReportComes(k)
    <2>1. note' = note /\ note[s].pid = k
      BY <1>6 DEF ReportComes, s
    <2>2. ASSUME NEW r \in Rows, again'[r] = 0 PROVE Undisturbed(r)'
      <3>1. Undisturbed(r)
        BY <1>0, <2>2 DEF DeliveredInv
      <3>2. CASE r = s
        <4>1. note'[r] = note[r] /\ note'[r].pid # 0 /\ Status(r)' = Status(r)
          BY <1>1, <2>1, <3>2 DEF Status
        <4>2. HasOneJob(r)'
          BY <1>2, <3>1, <4>1 DEF Undisturbed, HasOneJob
        <4>3. IsDecidedOnce(r)'
          BY <1>2, <3>1, <4>1 DEF Undisturbed, IsDecidedOnce
        <4> QED
          BY <4>2, <4>3 DEF Undisturbed
      <3>3. CASE r # s
        BY <1>2, <1>5, <2>1, <3>1, <3>3, LeftUndisturbed
      <3> QED
        BY <3>2, <3>3
    <2> QED
      BY <1>0, <2>1, <2>2 DEF DeliveredInv, KeepsDelivered, TakesBack, Status
  <1>7. CASE ReportApplies(k)
    <2>1. PICK status \in {"DELIVERED", "FAILED"} : Marks(s, status)
      BY <1>7 DEF ReportApplies, s
    <2>2. \A r \in Rows : /\ note'[r].status = IF r = s THEN status ELSE note[r].status
                          /\ note'[r].pid = note[r].pid
                          /\ r # s => note'[r] = note[r]
      BY <1>0, <1>1, <2>1, MarksTyped DEF Marks, TypeOK
    <2>3. k \in ReportsOn(s)
      BY <1>0, <1>7 DEF ReportApplies, ReportsOn, s
    <2>4. ASSUME NEW r \in Rows, again'[r] = 0 PROVE Undisturbed(r)'
      <3>1. Undisturbed(r)
        BY <1>0, <2>4 DEF DeliveredInv
      <3>2. CASE r = s
        <4>1. note[r].pid # 0 /\ Status(r) # "absent" /\ Deciding(r) = {}
          BY <2>3, <3>1, <3>2 DEF Undisturbed, IsDecidedOnce
        <4>2. note'[r].pid # 0 /\ Status(r)' \in {"DELIVERED", "FAILED"}
          BY <2>2, <3>2, <4>1 DEF Status
        <4>3. HasOneJob(r)'
          BY <1>2, <3>1, <4>2 DEF Undisturbed, HasOneJob
        <4>4. IsDecidedOnce(r)'
          BY <1>2, <4>1, <4>2 DEF IsDecidedOnce
        <4> QED
          BY <4>3, <4>4 DEF Undisturbed
      <3>3. CASE r # s
        BY <1>2, <1>5, <2>2, <3>1, <3>3, LeftUndisturbed
      <3> QED
        BY <3>2, <3>3
    <2>5. SaysOtherwise(s)
      BY <2>3 DEF ReportsOn, SaysOtherwise
    <2>6. KeepsDelivered
      <3> SUFFICES ASSUME NEW r \in Rows, TakesBack(r)
                   PROVE  SaysOtherwise(r) /\ note'[r].status = "FAILED" /\ worker' = worker
        BY DEF KeepsDelivered
      <3>1. r = s /\ note'[r].status = status /\ status # "DELIVERED"
        BY <2>2 DEF TakesBack, Status
      <3> QED
        BY <1>0, <2>5, <3>1
    <2> QED
      BY <1>0, <2>4, <2>6 DEF DeliveredInv
  <1> QED
    BY <1>6, <1>7

\* A worker's step that writes no row: what it decides it found QUEUED.
LEMMA WorksQuietly ==
  ASSUME DeliveredInv, DeliveryInv', UNCHANGED <<note, caller, again>>,
         NEW w \in Workers,
         \A x \in Workers : x # w => worker'[x] = worker[x] /\ (~At(x, "idle") => RowOf(x)' = RowOf(x)),
         \A j \in JobIds : jobs'[j] # None => jobs[j] # None /\ jobs'[j].row = jobs[j].row,
         \A r \in Rows : ReportsOn(r)' \subseteq ReportsOn(r),
         worker'[w].at \in Undecided =>
           RowOf(w)' = RowOf(w) /\ (worker[w].at \in Undecided \/ StillToSend(RowOf(w)))
  PROVE  DeliveredInv' /\ KeepsDelivered
  <1>1. ASSUME NEW r \in Rows, again'[r] = 0 PROVE Undisturbed(r)'
    <2>1. Undisturbed(r)
      BY <1>1 DEF DeliveredInv
    <2>2. JobsOf(r)' \subseteq JobsOf(r) /\ AddedBy(r)' = AddedBy(r)
      BY DEF JobsOf, AddedBy
    <2>3. \A x \in Deciding(r)' : x \in Deciding(r) \/ Status(r) = "QUEUED"
      <3> SUFFICES ASSUME NEW x \in Workers, worker'[x].at \in Undecided, RowOf(x)' = r
                   PROVE  x \in Deciding(r) \/ Status(r) = "QUEUED"
        BY DEF Deciding
      <3>1. CASE x = w
        BY <3>1 DEF Deciding, StillToSend
      <3>2. CASE x # w
        BY <3>2 DEF Deciding, Undecided, At
      <3> QED
        BY <3>1, <3>2
    <2> QED
      BY <2>1, <2>2, <2>3, LeftUndisturbed
  <1> QED
    BY <1>1 DEF DeliveredInv, KeepsDelivered, TakesBack, Status

\* Whoever writes SENT or FAILED writes it over QUEUED, unless somebody has
\* asked for the row again, and then moves on.
LEMMA DecidesQueued ==
  ASSUME DeliveredInv, DeliveryInv', UNCHANGED <<jobs, caller, sent, again>>,
         NEW w \in Workers, worker[w].at \in {"mark", "fail"}, Goes(w, "finish"),
         NEW s \in Rows, s = RowOf(w),
         \A r \in Rows : r # s => note'[r] = note[r],
         note'[s].status \in {"SENT", "FAILED"},
         \/ note'[s].pid = note[s].pid /\ note'[s].status = "FAILED"
         \/ note'[s].pid # 0
  PROVE  DeliveredInv' /\ KeepsDelivered
  <1>0. /\ DeliveryInv /\ TypeOK /\ HoldsItsJob /\ ~At(w, "idle")
        /\ \A r \in Rows : again[r] \in Nat
    BY DEF DeliveredInv, DeliveryInv, TypeOK, At
  <1>1. \A x \in Workers : /\ worker'[x].at = IF x = w THEN "finish" ELSE worker[x].at
                           /\ RowOf(x)' = RowOf(x)
    BY <1>0, GoesMoves DEF Places
  <1>2. w \in Deciding(s)
    BY DEF Deciding, Undecided
  <1>3. \A r \in Rows : /\ Deciding(r)' \subseteq Deciding(r) \ {w}
                        /\ JobsOf(r)' = JobsOf(r) /\ AddedBy(r)' = AddedBy(r)
                        /\ ReportsOn(r)' = ReportsOn(r)
    BY <1>1 DEF Deciding, Undecided, JobsOf, AddedBy, ReportsOn
  <1>4. again[s] = 0 => Undisturbed(s) /\ Status(s) = "QUEUED"
    BY <1>2 DEF DeliveredInv, Undisturbed, IsDecidedOnce
  <1>5. ASSUME NEW r \in Rows, again'[r] = 0 PROVE Undisturbed(r)'
    <2>1. Undisturbed(r)
      BY <1>5 DEF DeliveredInv
    <2>2. CASE r = s
      <3>1. Deciding(r)' = {}
        BY <1>0, <1>2, <1>3, <2>1, <2>2, DecidesAlone DEF Undisturbed
      <3>2. ReportsOn(r) = {}
        BY <1>2, <2>1, <2>2 DEF Undisturbed, IsDecidedOnce
      <3>3. Status(r)' \in {"SENT", "FAILED"}
        BY <2>2 DEF Status
      <3>4. HasOneJob(r)'
        BY <1>3, <2>1, <3>3 DEF Undisturbed, HasOneJob
      <3>5. IsDecidedOnce(r)'
        BY <1>3, <3>1, <3>2, <3>3 DEF IsDecidedOnce
      <3> QED
        BY <3>4, <3>5 DEF Undisturbed
    <2>3. CASE r # s
      BY <1>3, <2>1, <2>3, LeftUndisturbed
    <2> QED
      BY <2>2, <2>3
  <1>6. KeepsDelivered
    <2> SUFFICES ASSUME NEW r \in Rows, TakesBack(r) PROVE again'[r] > 0
      BY DEF KeepsDelivered
    <2>1. r = s /\ Status(r) = "DELIVERED"
      BY DEF TakesBack, Status
    <2>2. again[r] # 0
      BY <1>4, <2>1
    <2> QED
      BY <1>0, <2>2
  <1> QED
    BY <1>5, <1>6 DEF DeliveredInv

\* A busy worker goes on with its job, and nothing but the gateway's list grows.
LEMMA GoesQuietly ==
  ASSUME DeliveredInv, DeliveryInv', UNCHANGED <<note, jobs, caller, again>>,
         NEW w \in Workers, NEW place \in Places, Goes(w, place),
         ~At(w, "idle"),
         place \in Undecided => worker[w].at \in Undecided \/ StillToSend(RowOf(w)),
         \A r \in Rows : ReportsOn(r)' \subseteq ReportsOn(r)
  PROVE  DeliveredInv' /\ KeepsDelivered
  <1>1. TypeOK /\ HoldsItsJob
    BY DEF DeliveredInv, DeliveryInv
  <1>2. \A x \in Workers : RowOf(x)' = RowOf(x) /\ (x # w => worker'[x] = worker[x])
    BY <1>1, GoesMoves DEF Goes, TypeOK
  <1>3. worker'[w].at = place
    BY <1>1, GoesMoves
  <1> QED
    BY <1>2, <1>3, WorksQuietly

\* What the gateway takes has no report yet.
LEMMA NoReportYet ==
  ASSUME TypeOK, NEW w \in Workers, RowOf(w) \in Rows, GatewayTakes(w) \/ UNCHANGED sent
  PROVE  \A r \in Rows : ReportsOn(r)' \subseteq ReportsOn(r)
  <1>1. CASE GatewayTakes(w)
    <2>1. /\ Len(sent) \in Nat
          /\ DOMAIN sent = 1..Len(sent) /\ DOMAIN sent' = 1..(Len(sent) + 1)
          /\ \A k \in DOMAIN sent : sent'[k] = sent[k]
          /\ sent'[Len(sent) + 1].reported = FALSE
      BY <1>1, TakesAppends
    <2>2. \A k \in DOMAIN sent' : k = Len(sent) + 1 \/ k \in DOMAIN sent
      BY <2>1
    <2> QED
      BY <2>1, <2>2 DEF ReportsOn
  <1>2. CASE UNCHANGED sent
    BY <1>2 DEF ReportsOn
  <1> QED
    BY <1>1, <1>2

\* A busy worker lets its job go.
LEMMA LetsGo ==
  ASSUME DeliveredInv, NEW w \in Workers, ~At(w, "idle"), UNCHANGED <<note, caller, credit, sent, again>>,
         NEW left \in Job \cup {None}, left # None => left.row = jobs[worker[w].job].row,
         jobs' = [jobs EXCEPT ![worker[w].job] = left],
         worker' = [worker EXCEPT ![w] = IdleWorker],
         broken' \in [Rows -> Nat], counts' \in Counts
  PROVE  DeliveredInv' /\ KeepsDelivered
  <1>1. DeliveryInv /\ TypeOK /\ HoldsItsJob
    BY DEF DeliveredInv, DeliveryInv
  <1>2. /\ DeliveryInv' /\ At(w, "idle")'
        /\ \A x \in Workers : x # w =>
              worker'[x] = worker[x] /\ (~At(x, "idle") => RowOf(x)' = RowOf(x))
    BY <1>1, ReleaseKeepsInv
  <1>3. worker[w].job \in JobIds /\ jobs[worker[w].job] # None
    BY <1>1 DEF HoldsItsJob
  <1>4. \A j \in JobIds : jobs'[j] # None => jobs[j] # None /\ jobs'[j].row = jobs[j].row
    BY <1>1, <1>3 DEF TypeOK
  <1>5. worker'[w].at \notin Undecided /\ \A r \in Rows : ReportsOn(r)' \subseteq ReportsOn(r)
    BY <1>2 DEF At, Undecided, ReportsOn
  <1> QED
    BY <1>2, <1>4, <1>5, WorksQuietly

LEMMA CrashDelivers ==
  ASSUME DeliveredInv, NEW w \in Workers, Crash(w)
  PROVE  DeliveredInv' /\ KeepsDelivered
  <1> DEFINE j == worker[w].job
             left == IF jobs[j].stalls = 1 THEN None ELSE [jobs[j] EXCEPT !.stalls = 1, !.active = FALSE]
  <1>1. /\ TypeOK /\ HoldsItsJob /\ ~At(w, "idle") /\ RowOf(w) \in Rows
        /\ jobs[j] \in Job /\ jobs' = [jobs EXCEPT ![j] = left]
        /\ worker' = [worker EXCEPT ![w] = IdleWorker]
        /\ UNCHANGED <<note, caller, credit, sent, again>>
    BY BusyHasRow DEF DeliveredInv, DeliveryInv, Crash
  <1>2. left \in Job \cup {None}
    BY <1>1, LeftTyped
  <1>3. left # None => left.row = jobs[j].row
    BY <1>1 DEF Job
  <1>4. broken' \in [Rows -> Nat]
    BY <1>1, BreaksOffTyped DEF Crash, TypeOK
  <1>5. counts' \in Counts
    BY <1>1, HappensTyped DEF Crash, Mishap
  <1> HIDE DEF left
  <1> QED
    BY <1>1, <1>2, <1>3, <1>4, <1>5, LetsGo

LEMMA DispatchDelivers ==
  ASSUME DeliveredInv, NEW w \in Workers, Dispatch(w)
  PROVE  DeliveredInv' /\ KeepsDelivered
  <1>0. DeliveryInv /\ TypeOK /\ HoldsItsJob /\ DeliveryInv'
    BY DispatchKeepsInv DEF DeliveredInv, DeliveryInv
  <1>1. CASE Take(w)
    <2>1. PICK j \in JobIds :
            /\ jobs[j] # None
            /\ jobs' = [jobs EXCEPT ![j].active = TRUE]
            /\ worker' = [worker EXCEPT ![w] = [at |-> "load", job |-> j, metered |-> FALSE]]
      BY <1>1 DEF Take
    <2>2. UNCHANGED <<note, caller, again, sent>>
      BY <1>1 DEF Take
    <2>3. jobs[j] \in Job
      BY <1>0, <2>1 DEF TypeOK
    <2>4. \A i \in JobIds : jobs'[i] # None => jobs[i] # None /\ jobs'[i].row = jobs[i].row
      BY <1>0, <2>1, <2>3 DEF TypeOK, Job
    <2>5. worker'[w].at \notin Undecided
      BY <1>0, <2>1 DEF TypeOK, Undecided
    <2>6. \A r \in Rows : ReportsOn(r)' \subseteq ReportsOn(r)
      BY <2>2 DEF ReportsOn
    <2>7. \A x \in Workers : x # w => worker'[x] = worker[x] /\ (~At(x, "idle") => RowOf(x)' = RowOf(x))
      BY <1>0, <1>1, TakeKeepsInv
    <2> QED
      BY <1>0, <2>2, <2>4, <2>5, <2>6, <2>7, WorksQuietly
  <1>2. CASE Load(w)
    <2>1. PICK place \in {"finish", "send", "gate"} :
            Goes(w, place) /\ (place # "finish" => StillToSend(RowOf(w)))
      BY <1>2 DEF Load
    <2>2. /\ UNCHANGED <<note, jobs, caller, again, sent>> /\ ~At(w, "idle")
          /\ place \in Places /\ (place \in Undecided => place # "finish")
      BY <1>2, <2>1 DEF Load, At, Places, Undecided
    <2>3. \A r \in Rows : ReportsOn(r)' \subseteq ReportsOn(r)
      BY <2>2 DEF ReportsOn
    <2> QED
      BY <1>0, <2>1, <2>2, <2>3, GoesQuietly
  <1>3. CASE Gate(w)
    <2>1. \A x \in Workers : RowOf(x)' = RowOf(x) /\ (x # w => worker'[x] = worker[x])
      BY <1>0, <1>3, GateMoves DEF Gate, TypeOK
    <2>2. UNCHANGED <<note, jobs, caller, again, sent>> /\ worker[w].at \in Undecided
      BY <1>3 DEF Gate, At, Undecided
    <2>3. \A r \in Rows : ReportsOn(r)' \subseteq ReportsOn(r)
      BY <2>2 DEF ReportsOn
    <2> QED
      BY <1>0, <2>1, <2>2, <2>3, WorksQuietly
  <1>4. CASE Send(w) \/ Consume(w) \/ Charge(w)
    <2>1. PICK place \in Places : Goes(w, place)
      BY <1>4 DEF Send, AfterAccepted, Consume, Charge, Places
    <2>2. /\ UNCHANGED <<note, jobs, caller, again>> /\ worker[w].at \in Undecided
          /\ GatewayTakes(w) \/ UNCHANGED sent
      BY <1>4 DEF Send, Consume, Charge, At, Undecided
    <2>3. ~At(w, "idle")
      BY <2>2 DEF At, Undecided
    <2>4. \A r \in Rows : ReportsOn(r)' \subseteq ReportsOn(r)
      BY <1>0, <2>2, <2>3, BusyHasRow, NoReportYet
    <2> QED
      BY <1>0, <2>1, <2>2, <2>3, <2>4, GoesQuietly
  <1>5. CASE Mark(w)
    <2> DEFINE s == RowOf(w)
    <2>1. /\ s \in Rows /\ IsLatest(LatestOf(s), s)
          /\ note'[s].status = "SENT" /\ note'[s].pid = LatestOf(s)
      BY <1>0, <1>5, MarkTyped
    <2>2. LatestOf(s) # 0
      <3>1. sent \in Seq(Accepted) /\ DOMAIN sent = 1..Len(sent) /\ Len(sent) \in Nat
        BY <1>0 DEF TypeOK
      <3> QED
        BY <2>1, <3>1 DEF IsLatest
    <2>3. /\ UNCHANGED <<jobs, caller, sent, again>> /\ worker[w].at = "mark" /\ Goes(w, "finish")
          /\ \A r \in Rows : r # s => note'[r] = note[r]
      BY <1>0, <1>5 DEF Mark, At, TypeOK
    <2> HIDE DEF s
    <2>4. s = RowOf(w)
      BY DEF s
    <2> QED
      BY <1>0, <2>1, <2>2, <2>3, <2>4, DecidesQueued
  <1>6. CASE FailRow(w)
    <2> DEFINE s == RowOf(w)
    <2>1. s \in Rows
      BY <1>0, <1>6, BusyHasRow DEF FailRow, At
    <2>2. /\ UNCHANGED <<jobs, caller, sent, again>> /\ worker[w].at = "fail" /\ Goes(w, "finish")
          /\ Marks(s, "FAILED")
      BY <1>6 DEF FailRow, At
    <2> HIDE DEF s
    <2>3. /\ note'[s].status = "FAILED" /\ note'[s].pid = note[s].pid
          /\ \A r \in Rows : r # s => note'[r] = note[r]
      BY <1>0, <2>1, <2>2, MarksTyped DEF Marks, TypeOK
    <2>4. s = RowOf(w)
      BY DEF s
    <2> QED
      BY <1>0, <2>1, <2>2, <2>3, <2>4, DecidesQueued
  <1>7. CASE Throw(w)
    <2>1. /\ worker[w].at = "throw" /\ ~At(w, "idle")
          /\ UNCHANGED <<note, caller, credit, sent, again, broken, counts>>
      BY <1>7 DEF Throw, At
    <2>2. \A r \in Rows : ReportsOn(r)' \subseteq ReportsOn(r)
      BY <2>1 DEF ReportsOn
    <2>3. CASE /\ AttemptLeft(worker[w].job)
               /\ jobs' = [jobs EXCEPT ![worker[w].job].made = @ + 1, ![worker[w].job].active = FALSE]
               /\ worker' = [worker EXCEPT ![w] = IdleWorker]
      <3> DEFINE j == worker[w].job
                 left == [jobs[j] EXCEPT !.made = @ + 1, !.active = FALSE]
      <3>1. j \in JobIds /\ jobs[j] \in Job
        BY <1>0, <2>1, BusyHasRow
      <3>2. left \in Job \cup {None} /\ left.row = jobs[j].row
        BY <2>3, <3>1, LeftTyped DEF AttemptLeft, Job
      <3>3. jobs' = [jobs EXCEPT ![j] = left]
        BY <1>0, <2>3, <3>1 DEF TypeOK
      <3> HIDE DEF left
      <3> QED
        BY <1>0, <2>1, <2>3, <3>2, <3>3, LetsGo DEF TypeOK
    <2>4. CASE Goes(w, AfterLastAttempt(w)) /\ UNCHANGED jobs
      <3>1. AfterLastAttempt(w) \in Places /\ worker[w].at \in Undecided
        BY <2>1 DEF AfterLastAttempt, Places, Undecided
      <3> QED
        BY <1>0, <2>1, <2>2, <2>4, <3>1, GoesQuietly
    <2> QED
      BY <1>7, <2>3, <2>4 DEF Throw
  <1>8. CASE Finish(w)
    <2>1. /\ ~At(w, "idle") /\ UNCHANGED <<note, caller, credit, sent, again, broken, counts>>
          /\ jobs' = [jobs EXCEPT ![worker[w].job] = None]
          /\ worker' = [worker EXCEPT ![w] = IdleWorker]
      BY <1>8 DEF Finish, Finishes, At
    <2>2. broken' \in [Rows -> Nat] /\ counts' \in Counts
      BY <1>0, <2>1 DEF TypeOK
    <2> QED
      BY <2>1, <2>2, LetsGo
  <1> QED
    BY <1>1, <1>2, <1>3, <1>4, <1>5, <1>6, <1>7, <1>8 DEF Dispatch

LEMMA DeliveredInit == Init => DeliveredInv
  <1> SUFFICES ASSUME Init PROVE DeliveredInv
    OBVIOUS
  <1>1. ASSUME NEW r \in Rows PROVE Undisturbed(r)
    <2>1. Status(r) = "absent" /\ note[r].pid = 0
      BY DEF Init, Status
    <2>2. JobsOf(r) = {} /\ Deciding(r) = {} /\ ReportsOn(r) = {}
      BY IdleTyped DEF Init, JobsOf, Deciding, Undecided, ReportsOn
    <2>3. AddedBy(r) = {}
      BY DeliveryAssumption DEF Init, AddedBy, IdleCaller
    <2> QED
      BY <2>1, <2>2, <2>3 DEF Undisturbed, HasOneJob, IsDecidedOnce
  <1> QED
    BY <1>1, DeliveryInit DEF DeliveredInv

LEMMA DeliveredStep ==
  ASSUME DeliveredInv, [Next]_vars
  PROVE  DeliveredInv' /\ KeepsDelivered
  <1>1. CASE \E c \in Callers : Call(c)
    BY <1>1, CallsDeliver
  <1>2. CASE Credit
    BY <1>2, CreditDelivers
  <1>3. CASE \E w \in Workers : Dispatch(w) \/ Crash(w)
    BY <1>3, DispatchDelivers, CrashDelivers
  <1>4. CASE \E k \in 1..MaxSends : ReportComes(k) \/ ReportApplies(k)
    BY <1>4, ReportsDeliver
  <1>5. CASE UNCHANGED vars
    <2>1. DeliveryInv'
      BY <1>5, StutterKeepsInv DEF DeliveredInv
    <2>2. ASSUME NEW r \in Rows, again'[r] = 0 PROVE Undisturbed(r)'
      <3>1. /\ JobsOf(r)' = JobsOf(r) /\ AddedBy(r)' = AddedBy(r)
            /\ ReportsOn(r)' = ReportsOn(r) /\ Deciding(r)' = Deciding(r)
        BY <1>5 DEF vars, JobsOf, AddedBy, ReportsOn, Deciding, RowOf
      <3> QED
        BY <1>5, <2>2, <3>1, LeftUndisturbed DEF DeliveredInv, vars
    <2> QED
      BY <1>5, <2>1, <2>2 DEF vars, DeliveredInv, KeepsDelivered, TakesBack, Status
  <1> QED
    BY <1>1, <1>2, <1>3, <1>4, <1>5 DEF Next

\* Whatever the number of workers and callers, however the dispatches, crashes,
\* second attempts and reports interleave, a row that was reported DELIVERED and
\* that nobody has asked for again loses that status only to another report on
\* one of its messages: no job, no worker and no retry comes back to it.
THEOREM DeliveredForGood == Spec => OnlyReportsUndoDelivery
  <1>1. DeliveredInv /\ [Next]_vars => DeliveredInv'
    BY DeliveredStep
  <1>2. DeliveredInv /\ [Next]_vars => [KeepsDelivered]_vars
    BY DeliveredStep
  <1>3. Spec => [][KeepsDelivered]_vars
    BY <1>1, <1>2, DeliveredInit, PTL DEF Spec
  <1> QED
    BY <1>3 DEF OnlyReportsUndoDelivery, KeepsDelivered
=============================================================================
