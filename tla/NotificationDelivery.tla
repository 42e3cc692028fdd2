------------------------ MODULE NotificationDelivery ------------------------
(***************************************************************************)
(* A message from the row that asks for it to the gateway that takes it,   *)
(* and the SMS credit it is billed against.                                *)
(*                                                                         *)
(* Callers write a QUEUED row and then put a job in the queue; workers     *)
(* take jobs and go through dispatch one await at a time; the gateway      *)
(* reports later what became of what it accepted.  The ledger of credit is *)
(* append-only and each append holds an advisory lock, so it is one step.  *)
(*                                                                         *)
(* The queue is BullMQ: a job a dead worker held is given out again, once. *)
(* A send refused before it has a row (no template, no destination, a      *)
(* dedupe key in use) changes nothing and is not here; in-app rows never   *)
(* see the queue.                                                          *)
(***************************************************************************)
EXTENDS Integers, Sequences, FiniteSets

CONSTANTS
  Rows,        \* notifications that can ever exist (bounds the run)
  Emails,      \* those of them that are e-mails: never metered
  Parts,       \* Parts[r]: SMS segments of r
  Workers,     \* queue workers
  Callers,     \* requests and listeners in flight at once
  Attempts,    \* attempts of a job
  Movements,   \* what an administrator may purchase or adjust by
  MaxJobs,     \* bound: jobs in the queue at once
  MaxSends,    \* bound: messages the gateway accepts
  MaxCredits,  \* bound: purchases and adjustments
  MaxAgain,    \* MaxAgain[r], bound: times r is queued again
  MaxThrows,   \* bound: calls of the gateway that end in an error
  MaxCrashes,  \* bound: workers that die
  MaxLost,     \* bound: enqueues that fail
  MaxMishaps,  \* bound: those three together
  None

ASSUME DeliveryAssumption ==
  /\ Emails \subseteq Rows /\ None \notin Rows
  /\ Parts \in [Rows -> Nat \ {0}]
  /\ Movements \subseteq Int
  /\ {Attempts, MaxJobs} \subseteq Nat \ {0}
  /\ MaxAgain \in [Rows -> Nat]
  /\ {MaxSends, MaxCredits, MaxThrows, MaxCrashes, MaxLost, MaxMishaps} \subseteq Nat

VARIABLES
  note,     \* notifications
  jobs,     \* the queue
  worker,   \* where each worker is
  caller,   \* where each caller is
  credit,   \* sms_credits, in the order written
  sent,     \* what the gateway has accepted, in that order
  again,    \* times each row was queued again
  broken,   \* dispatches of each row cut short after the gateway accepted it
  counts    \* how often each bounded thing has happened

vars == <<note, jobs, worker, caller, credit, sent, again, broken, counts>>

NoteRow == [status : {"absent", "QUEUED", "SENT", "DELIVERED", "FAILED"}, pid : Nat]

JobIds == 1..MaxJobs
Job == [row : Rows, made : 0..(Attempts - 1), stalls : 0..1, active : BOOLEAN]
ASSUME NoneIsNoJob == None \notin Job

Places == {"load", "gate", "send", "consume", "charge", "mark", "fail", "throw", "finish"}
Worker == [at : Places \cup {"idle"}, job : JobIds \cup {0}, metered : BOOLEAN]
IdleWorker == [at |-> "idle", job |-> 0, metered |-> FALSE]

Caller == [found : SUBSET Rows, adding : Rows \cup {None}]
IdleCaller == [found |-> {}, adding |-> None]

CreditRow == [ref : Rows \cup {None}, qty : Int, balance : Nat]

\* A message the gateway accepted.  reported: a delivery report on it has found
\* its row and has not been applied yet; how many of them have makes no difference.
Accepted == [row : Rows, metered : BOOLEAN, reported : BOOLEAN]

Counts == [{"credits", "throws", "crashes", "lost"} -> Nat]
Happens(what, max) ==
  /\ counts[what] < max
  /\ counts' = [counts EXCEPT ![what] = @ + 1]
Mishap(what, max) ==
  /\ counts["throws"] + counts["crashes"] + counts["lost"] < MaxMishaps
  /\ Happens(what, max)

-----------------------------------------------------------------------------
(* What is read. *)

\* balance: of the latest row, 0 when there is none.
Balance == IF credit = <<>> THEN 0 ELSE credit[Len(credit)].balance

\* isMetered: any movement has ever been recorded.
IsMetered == credit # <<>>

RowOf(w) == jobs[worker[w].job].row
Status(r) == note[r].status

-----------------------------------------------------------------------------
Init ==
  /\ note = [r \in Rows |-> [status |-> "absent", pid |-> 0]]
  /\ jobs = [j \in JobIds |-> None]
  /\ worker = [w \in Workers |-> IdleWorker]
  /\ caller = [c \in Callers |-> IdleCaller]
  /\ credit = <<>>
  /\ sent = <<>>
  /\ again = [r \in Rows |-> 0]
  /\ broken = [r \in Rows |-> 0]
  /\ counts = [what \in {"credits", "throws", "crashes", "lost"} |-> 0]

-----------------------------------------------------------------------------
(* Callers. *)

Marks(r, status) == note' = [note EXCEPT ![r].status = status]

\* send: the row, then the job.
Compose(c) ==
  /\ caller[c] = IdleCaller
  /\ \E r \in Rows :
       /\ Status(r) = "absent"
       /\ Marks(r, "QUEUED")
       /\ caller' = [caller EXCEPT ![c].adding = r]
  /\ UNCHANGED <<jobs, worker, credit, sent, again, broken, counts>>

Enqueue(c) ==
  /\ caller[c].adding # None
  /\ \E j \in JobIds :
       /\ jobs[j] = None /\ \A i \in 1..(j - 1) : jobs[i] # None
       /\ jobs' = [jobs EXCEPT ![j] = [row |-> caller[c].adding, made |-> 0,
                                       stalls |-> 0, active |-> FALSE]]
  /\ caller' = [caller EXCEPT ![c].adding = None]
  /\ UNCHANGED <<note, worker, credit, sent, again, broken, counts>>

\* send swallows the error; in requeue it ends the request, with what it had
\* still found.
EnqueueFails(c) ==
  /\ caller[c].adding # None
  /\ Mishap("lost", MaxLost)
  /\ caller' = [caller EXCEPT ![c] = IdleCaller]
  /\ UNCHANGED <<note, jobs, worker, credit, sent, again, broken>>

\* retryFailed: reads the failed rows it was given,
FindFailed(c) ==
  /\ caller[c] = IdleCaller
  /\ \E found \in (SUBSET {r \in Rows : Status(r) = "FAILED"}) \ {{}} :
       caller' = [caller EXCEPT ![c].found = found]
  /\ UNCHANGED <<note, jobs, worker, credit, sent, again, broken, counts>>

\* and queues them again one by one, whatever they have become.
Requeue(c) ==
  /\ caller[c].adding = None
  /\ \E r \in caller[c].found :
       /\ again[r] < MaxAgain[r]
       /\ again' = [again EXCEPT ![r] = @ + 1]
       /\ Marks(r, "QUEUED")
       /\ caller' = [caller EXCEPT ![c] = [found |-> @.found \ {r}, adding |-> r]]
  /\ UNCHANGED <<jobs, worker, credit, sent, broken, counts>>

\* A movement of credit: the CHECK refuses one that would overdraw.
Covers(qty) == Balance + qty >= 0
Moves(ref, qty) ==
  credit' = Append(credit, [ref |-> ref, qty |-> qty, balance |-> Balance + qty])

\* purchase and adjust.
Credit ==
  /\ Happens("credits", MaxCredits)
  /\ \E qty \in Movements : Covers(qty) /\ Moves(None, qty)
  /\ UNCHANGED <<note, jobs, worker, caller, sent, again, broken>>

-----------------------------------------------------------------------------
(* Workers: NotificationsProcessor.process and dispatch. *)

At(w, place) == worker[w].at = place
Goes(w, place) == worker' = [worker EXCEPT ![w].at = place]

\* The job leaves the queue and the worker is free.
Finishes(w) ==
  /\ jobs' = [jobs EXCEPT ![worker[w].job] = None]
  /\ worker' = [worker EXCEPT ![w] = IdleWorker]

Take(w) ==
  /\ At(w, "idle")
  /\ \E j \in JobIds :
       /\ jobs[j] # None /\ ~jobs[j].active
       /\ jobs' = [jobs EXCEPT ![j].active = TRUE]
       /\ worker' = [worker EXCEPT ![w] = [at |-> "load", job |-> j, metered |-> FALSE]]
  /\ UNCHANGED <<note, caller, credit, sent, again, broken, counts>>

\* dispatch: a row that is no longer QUEUED was handled already.
StillToSendUnlessFailed(r) == Status(r) # "FAILED"
StillToSend(r) == Status(r) = "QUEUED"

Load(w) ==
  /\ At(w, "load")
  /\ Goes(w, IF ~StillToSend(RowOf(w)) THEN "finish"
             ELSE IF RowOf(w) \in Emails THEN "send" ELSE "gate")
  /\ UNCHANGED <<note, jobs, caller, credit, sent, again, broken, counts>>

\* dispatchSms refuses before sending on a metered account that cannot pay.
Gate(w) ==
  /\ At(w, "gate")
  /\ worker' = [worker EXCEPT ![w].at =
                  IF IsMetered /\ Balance < Parts[RowOf(w)] THEN "fail" ELSE "send",
                              ![w].metered = IsMetered]
  /\ UNCHANGED <<note, jobs, caller, credit, sent, again, broken, counts>>

\* What follows an accepted message.
MarkAtOnce(w) == "mark"
AfterAccepted(w) == IF worker[w].metered THEN "consume" ELSE "mark"

GatewayTakes(w) ==
  /\ Len(sent) < MaxSends
  /\ sent' = Append(sent, [row |-> RowOf(w), metered |-> worker[w].metered,
                           reported |-> FALSE])

BreaksOff(w) == broken' = [broken EXCEPT ![RowOf(w)] = @ + 1]

\* The gateway accepts, rejects, is out of reach, or accepts and the answer is lost.
Send(w) ==
  /\ At(w, "send")
  /\ \/ /\ GatewayTakes(w) /\ Goes(w, AfterAccepted(w))
        /\ UNCHANGED <<broken, counts>>
     \/ /\ Goes(w, "fail")
        /\ UNCHANGED <<sent, broken, counts>>
     \/ /\ Mishap("throws", MaxThrows) /\ Goes(w, "throw")
        /\ \/ UNCHANGED <<sent, broken>>
           \/ GatewayTakes(w) /\ BreaksOff(w)
  /\ UNCHANGED <<note, jobs, caller, credit, again>>

\* consume: too little credit by now is reported, and dispatchSms does not look.
Consume(w) ==
  /\ At(w, "consume")
  /\ Goes(w, IF Balance < Parts[RowOf(w)] THEN "mark" ELSE "charge")
  /\ UNCHANGED <<note, jobs, caller, credit, sent, again, broken, counts>>

\* append, in its own transaction: the CHECK may still refuse it.
Charge(w) ==
  /\ At(w, "charge")
  /\ LET parts == Parts[RowOf(w)]
     IN  \/ Covers(-parts) /\ Moves(RowOf(w), -parts) /\ Goes(w, "mark") /\ UNCHANGED broken
         \/ ~Covers(-parts) /\ Goes(w, "throw") /\ BreaksOff(w) /\ UNCHANGED credit
  /\ UNCHANGED <<note, jobs, caller, sent, again, counts>>

LatestOf(r) ==
  CHOOSE k \in DOMAIN sent : sent[k].row = r /\ \A l \in DOMAIN sent : sent[l].row = r => l <= k

Mark(w) ==
  /\ At(w, "mark")
  /\ note' = [note EXCEPT ![RowOf(w)] = [status |-> "SENT", pid |-> LatestOf(RowOf(w))]]
  /\ Goes(w, "finish")
  /\ UNCHANGED <<jobs, caller, credit, sent, again, broken, counts>>

FailRow(w) ==
  /\ At(w, "fail")
  /\ Marks(RowOf(w), "FAILED")
  /\ Goes(w, "finish")
  /\ UNCHANGED <<jobs, caller, credit, sent, again, broken, counts>>

Finish(w) ==
  /\ At(w, "finish")
  /\ Finishes(w)
  /\ UNCHANGED <<note, caller, credit, sent, again, broken, counts>>

\* A thrown error: the job waits for its next attempt, or after the last one
\* forceFail marks a row that is still QUEUED.
LastAttemptJustEnds(w) == "finish"
AfterLastAttempt(w) == IF StillToSend(RowOf(w)) THEN "fail" ELSE "finish"

AttemptLeftOffByOne(j) == jobs[j].made < Attempts
AttemptLeft(j) == jobs[j].made + 1 < Attempts

Throw(w) ==
  /\ At(w, "throw")
  /\ LET j == worker[w].job
     IN  \/ /\ AttemptLeft(j)
            /\ jobs' = [jobs EXCEPT ![j].made = @ + 1, ![j].active = FALSE]
            /\ worker' = [worker EXCEPT ![w] = IdleWorker]
         \/ /\ ~AttemptLeft(j)
            /\ Goes(w, AfterLastAttempt(w)) /\ UNCHANGED jobs
  /\ UNCHANGED <<note, caller, credit, sent, again, broken, counts>>

\* A worker dies.  Its job stalls and goes back to the queue, once; a job that
\* stalls again is dropped, and nothing of the application runs for it.
Crash(w) ==
  /\ ~At(w, "idle")
  /\ Mishap("crashes", MaxCrashes)
  /\ LET j == worker[w].job
     IN  jobs' = [jobs EXCEPT ![j] = IF @.stalls = 1 THEN None
                                     ELSE [@ EXCEPT !.stalls = 1, !.active = FALSE]]
  /\ IF worker[w].at \in {"consume", "charge", "mark"} THEN BreaksOff(w) ELSE UNCHANGED broken
  /\ worker' = [worker EXCEPT ![w] = IdleWorker]
  /\ UNCHANGED <<note, caller, credit, sent, again>>

-----------------------------------------------------------------------------
(* Delivery reports (DlrService.handle): any number for each message, saying  *)
(* anything, whatever the row has become.                                    *)

\* The row is looked up by the id Mark stored; a report on an unknown id is
\* acknowledged and changes nothing.
ReportComes(k) ==
  /\ k \in DOMAIN sent /\ note[sent[k].row].pid = k
  /\ sent' = [sent EXCEPT ![k].reported = TRUE]
  /\ UNCHANGED <<note, jobs, worker, caller, credit, again, broken, counts>>

\* Anything but the words for delivered counts as failed; there may be more.
ReportApplies(k) ==
  /\ k \in DOMAIN sent /\ sent[k].reported
  /\ \E more \in BOOLEAN : sent' = [sent EXCEPT ![k].reported = more]
  /\ \E status \in {"DELIVERED", "FAILED"} : Marks(sent[k].row, status)
  /\ UNCHANGED <<jobs, worker, caller, credit, again, broken, counts>>

-----------------------------------------------------------------------------
Dispatch(w) ==
  \/ Take(w) \/ Load(w) \/ Gate(w) \/ Send(w) \/ Consume(w) \/ Charge(w)
  \/ Mark(w) \/ FailRow(w) \/ Throw(w) \/ Finish(w)

Call(c) == Compose(c) \/ Enqueue(c) \/ EnqueueFails(c) \/ FindFailed(c) \/ Requeue(c)

Next ==
  \/ \E c \in Callers : Call(c)
  \/ Credit
  \/ \E w \in Workers : Dispatch(w) \/ Crash(w)
  \/ \E k \in 1..MaxSends : ReportComes(k) \/ ReportApplies(k)

Spec == Init /\ [][Next]_vars

\* A request goes on to its enqueue, and a worker that has something to do does it.
FairSpec ==
  /\ Spec
  /\ \A c \in Callers : WF_vars(Enqueue(c))
  /\ \A w \in Workers : WF_vars(Dispatch(w))

-----------------------------------------------------------------------------
(* Properties. *)

TypeOK ==
  /\ note \in [Rows -> NoteRow]
  /\ jobs \in [JobIds -> Job \cup {None}]
  /\ worker \in [Workers -> Worker]
  /\ caller \in [Callers -> Caller]
  /\ credit \in Seq(CreditRow)
  /\ sent \in Seq(Accepted)
  /\ again \in [Rows -> Nat]
  /\ broken \in [Rows -> Nat]
  /\ counts \in Counts

Times(seq, Test(_)) == Cardinality({n \in DOMAIN seq : Test(seq[n])})

\* Workers between the gateway's acceptance of r and its bill.
Billing(r) == {w \in Workers : worker[w].at \in {"consume", "charge"} /\ RowOf(w) = r}

\* Every acceptance of a message on a metered account is billed, once: what is
\* not was cut short by a crash or an error, or is just being billed.  (dispatchSms:
\* consuming first leaves "no window where the message is sent but unbilled".)
BilledAsSent ==
  \A r \in Rows :
    LET taken == Times(sent, LAMBDA s : s.row = r /\ s.metered)
        billed == Times(credit, LAMBDA c : c.ref = r)
    IN  billed <= taken /\ taken <= billed + broken[r] + Cardinality(Billing(r))

\* A message goes out once for each time it was asked for, but for the dispatches
\* that broke off after the gateway had taken it: dispatch is "idempotent".
SentOncePerAsking ==
  \A r \in Rows : Times(sent, LAMBDA s : s.row = r) <= 1 + again[r] + broken[r]

\* A message reported delivered is not taken up again by a dispatch, a crash, a
\* second attempt or a retry: its row stays DELIVERED unless someone has asked for
\* it once more, or until another report on it says FAILED (DlrService looks at no
\* status).  "DELIVERED only ever arrives from a provider DLR webhook; the queue
\* worker moves QUEUED -> SENT/FAILED" (schema.prisma:594).
SaysOtherwise(r) == \E k \in DOMAIN sent : sent[k].row = r /\ sent[k].reported
TakesBack(r) == Status(r) = "DELIVERED" /\ note'[r].status # "DELIVERED"
OnlyReportsUndoDelivery ==
  [][\A r \in Rows : TakesBack(r) =>
       \/ again'[r] > 0
       \/ SaysOtherwise(r) /\ note'[r].status = "FAILED" /\ worker' = worker]_vars

\* A row whose job waits in the queue "never lingers QUEUED": the message is sent
\* or the row fails, through errors, retries and a worker's death.
Waits(r) == \E j \in JobIds : jobs[j] # None /\ jobs[j].row = r /\ ~jobs[j].active
EveryMessageSettles ==
  \A r \in Rows : Status(r) = "QUEUED" /\ Waits(r) ~> Status(r) # "QUEUED"

\* A SENT row on a metered account is "a guarantee the ledger already moved".
SentIsBilled ==
  \A r \in Rows :
    Status(r) = "SENT" /\ sent[note[r].pid].metered
      => \E n \in DOMAIN credit : credit[n].ref = r
=============================================================================
