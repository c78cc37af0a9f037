------------------------------ MODULE Reminders ------------------------------
(***************************************************************************)
(* The mails that Celery sends by the clock (backend/app/workers): a       *)
(* reminder of each kind before a visit and a review request after it.     *)
(*                                                                         *)
(* Beat enqueues a task at fixed times.  A worker that takes it reads the  *)
(* clock and the appointments, mails one customer after the other, and     *)
(* commits the flags of all of them at the end, so that a failure takes    *)
(* the flags back and not the mails.  A reminder goes to who has no flag   *)
(* yet; a review request has no flag and relies on the date alone.  One    *)
(* unit of time is 15 minutes or less.                                     *)
(***************************************************************************)
EXTENDS Integers, FiniteSets

CONSTANTS
    Appts, Workers,
    StartOf, EndOf,  \* of an appointment
    Kinds,           \* reminders: 24 hours and 2 hours before
    Lead, Every,     \* how long before the visit, and how often beat enqueues it
    Slack,           \* half of the window a run looks at
    DayLength,
    AskHour,         \* when beat enqueues the review requests
    Retries,         \* max_retries of each task
    MaxNow,          \* bound on the clock
    MaxFailures,     \* bound on the failed runs of each task
    MaxQueue,        \* bound on the tasks that beat leaves waiting
    NoRun

Tasks == Kinds \cup {"reviews"}

ASSUME ReminderAssumption ==
    /\ StartOf \in [Appts -> Nat] /\ EndOf \in [Appts -> Nat]
    /\ "reviews" \notin Kinds
    /\ Lead \in [Kinds -> Nat] /\ Every \in [Kinds -> Nat \ {0}]
    /\ Slack \in Nat
    /\ DayLength \in Nat \ {0} /\ AskHour \in 0 .. DayLength - 1
    /\ Retries \in [Tasks -> Nat]
    /\ MaxNow \in Nat /\ MaxFailures \in Nat /\ MaxQueue \in Nat

\* Beat enqueues a reminder at least once while a window passes over a visit: every
\* 30 minutes, or every 15, against 15 minutes on either side.
ASSUME BeatAssumption ==
    \A k \in Kinds : \A t \in 1 .. MaxNow :
        \E b \in t .. t + 2 * Slack : b % Every[k] = 0

VARIABLES
    now,
    status,     \* appointments.status, as far as the tasks look at it
    steady,     \* history: appointments that qualified when a task's window opened, and do since
    flagged,    \* reminder_24h_sent, reminder_2h_sent
    queue,      \* tasks that wait for a worker
    run,        \* what each worker is running
    mails,      \* history: how often a customer was mailed
    failures,   \* history: runs that did not commit
    late,       \* history: tasks of which a run was not done in the unit it was due
    overlapped  \* history: tasks of which two runs ran at once

vars == <<now, status, steady, flagged, queue, run, mails, failures, late, overlapped>>

Job == [task : Tasks, at : Nat, tries : Nat]
Run == [job : Job, todo : SUBSET Appts, done : SUBSET Appts]

ASSUME RunAssumption == NoRun \notin Run

\* The status a task looks for, and the first and the last moment at which beat
\* may enqueue it for an appointment.
Wanted(t) == IF t = "reviews" THEN "COMPLETED" ELSE "CONFIRMED"
Opens(t, a) == IF t = "reviews" THEN (EndOf[a] \div DayLength + 1) * DayLength + AskHour
               ELSE StartOf[a] - Lead[t] - Slack
Closes(t, a) == IF t = "reviews" THEN Opens(t, a) ELSE Opens(t, a) + 2 * Slack

Running(w, t) == run[w] # NoRun /\ run[w].job.task = t

Init ==
    /\ now = 0
    /\ status = [a \in Appts |-> "OTHER"]
    /\ steady = [t \in Tasks |-> {}]
    /\ flagged = [k \in Kinds |-> {}]
    /\ queue = {}
    /\ run = [w \in Workers |-> NoRun]
    /\ mails = [t \in Tasks |-> [a \in Appts |-> 0]]
    /\ failures = [t \in Tasks |-> 0]
    /\ late = {}
    /\ overlapped = {}

(***************************************************************************)
(* Beat and the clock                                                      *)
(***************************************************************************)
\* beat_schedule.
DueAt(time) ==
    {k \in Kinds : time % Every[k] = 0}
        \cup (IF time % DayLength = AskHour THEN {"reviews"} ELSE {})

\* Beat may be down.
Tick(sent) ==
    /\ now < MaxNow
    /\ now' = now + 1
    /\ sent \subseteq DueAt(now + 1)
    /\ queue' = queue \cup {[task |-> t, at |-> now + 1, tries |-> 0] : t \in sent}
    /\ Cardinality(queue') <= MaxQueue
    /\ late' = late \cup (DueAt(now + 1) \ sent) \cup {j.task : j \in queue}
                    \cup {t \in Tasks : \E w \in Workers : Running(w, t)}
    /\ steady' = [t \in Tasks |-> steady[t] \cup
                    {a \in Appts : status[a] = Wanted(t) /\ Opens(t, a) = now + 1}]
    /\ UNCHANGED <<status, flagged, run, mails, failures, overlapped>>

\* Bookings are confirmed, completed, cancelled and rescheduled.
ChangeStatus(a, s) ==
    /\ status[a] # s
    /\ status' = [status EXCEPT ![a] = s]
    /\ steady' = [t \in Tasks |-> steady[t] \ {a}]
    /\ UNCHANGED <<now, flagged, queue, run, mails, failures, late, overlapped>>

(***************************************************************************)
(* The worker                                                              *)
(***************************************************************************)
\* Mutant: the window without its ends.
InsideWindow(k) == now + Lead[k] - Slack + 1 .. now + Lead[k] + Slack - 1

\* window_start and window_end; between takes in both.
Window(k) == now + Lead[k] - Slack .. now + Lead[k] + Slack

\* Mutant: the flag is not looked at.
AllUpcoming(k) == {a \in Appts : status[a] = "CONFIRMED" /\ StartOf[a] \in Window(k)}

Upcoming(k) ==
    {a \in Appts : status[a] = "CONFIRMED" /\ StartOf[a] \in Window(k) /\ a \notin flagged[k]}

\* Mutant: everything that has ended by today.
EndedByMidnight == 0 .. now - (now % DayLength)

\* Mutant: today in the place of yesterday.
Today == now - (now % DayLength) .. now

\* yesterday_start and yesterday_end, two midnights, both taken in.
Yesterday == LET midnight == now - (now % DayLength) IN midnight - DayLength .. midnight

Finished == {a \in Appts : status[a] = "COMPLETED" /\ EndOf[a] \in Yesterday}

\* _send_reminders_async and _send_review_requests_async read the clock and the rows.
StartRun(w, job) ==
    /\ job \in queue
    /\ run[w] = NoRun
    /\ queue' = queue \ {job}
    /\ run' = [run EXCEPT ![w] =
                [job |-> job, done |-> {},
                 todo |-> IF job.task = "reviews" THEN Finished ELSE Upcoming(job.task)]]
    /\ overlapped' = IF \E v \in Workers : Running(v, job.task) THEN overlapped \cup {job.task}
                     ELSE overlapped
    /\ UNCHANGED <<now, status, steady, flagged, mails, failures, late>>

\* The mail is handed to the provider.  A provider that fails is only logged,
\* and the flag is set all the same.
Send(w, a) ==
    /\ run[w] # NoRun /\ a \in run[w].todo
    /\ run' = [run EXCEPT ![w] = [job |-> run[w].job, todo |-> run[w].todo \ {a},
                                  done |-> run[w].done \cup {a}]]
    /\ mails' = [mails EXCEPT ![run[w].job.task][a] = @ + 1]
    /\ UNCHANGED <<now, status, steady, flagged, queue, failures, late, overlapped>>

\* Mutant: the flag of everyone the run found is set whether or not their turn came.
CommitAll(w) ==
    /\ run[w] # NoRun
    /\ flagged' = [k \in Kinds |-> IF Running(w, k) THEN flagged[k] \cup run[w].done \cup run[w].todo
                                   ELSE flagged[k]]
    /\ run' = [run EXCEPT ![w] = NoRun]
    /\ UNCHANGED <<now, status, steady, queue, mails, failures, late, overlapped>>

\* get_db_context commits the flags of everyone at once.
Commit(w) ==
    /\ run[w] # NoRun /\ run[w].todo = {}
    /\ flagged' = [k \in Kinds |-> IF Running(w, k) THEN flagged[k] \cup run[w].done
                                   ELSE flagged[k]]
    /\ run' = [run EXCEPT ![w] = NoRun]
    /\ UNCHANGED <<now, status, steady, queue, mails, failures, late, overlapped>>

\* The run ends without a commit, and its task is enqueued again or lost.
Abort(w, again) ==
    /\ run[w] # NoRun
    /\ LET t == run[w].job.task
       IN  /\ failures[t] < MaxFailures
           /\ failures' = [failures EXCEPT ![t] = @ + 1]
           /\ late' = IF again = {} THEN late \cup {t} ELSE late
    /\ queue' = queue \cup again
    /\ run' = [run EXCEPT ![w] = NoRun]
    /\ UNCHANGED <<now, status, steady, flagged, mails, overlapped>>

\* An exception, from the database for the most part: self.retry, while there
\* are retries left.
Fail(w) ==
    /\ run[w] # NoRun
    /\ LET job == run[w].job
       IN  Abort(w, IF job.tries < Retries[job.task]
                    THEN {[task |-> job.task, at |-> job.at, tries |-> job.tries + 1]} ELSE {})

\* The process dies.  With task_acks_late the broker delivers the task again when
\* nobody acknowledged it; a pool that lost a child acknowledges it.
Crash(w) == run[w] # NoRun /\ (Abort(w, {}) \/ Abort(w, {run[w].job}))

Work(w) ==
    \/ \E job \in queue : StartRun(w, job)
    \/ \E a \in Appts : Send(w, a)
    \/ Commit(w) \/ Fail(w) \/ Crash(w)

Next ==
    \/ \E sent \in SUBSET DueAt(now + 1) : Tick(sent)
    \/ \E a \in Appts : \E s \in {"CONFIRMED", "COMPLETED", "OTHER"} : ChangeStatus(a, s)
    \/ \E w \in Workers : Work(w)

Spec == Init /\ [][Next]_vars

(***************************************************************************)
(* Properties                                                              *)
(***************************************************************************)
\* Types, and what is enqueued: tasks that were due, within their retries.
TypeOK ==
    /\ now \in 0 .. MaxNow
    /\ status \in [Appts -> {"CONFIRMED", "COMPLETED", "OTHER"}]
    /\ steady \in [Tasks -> SUBSET Appts]
    /\ flagged \in [Kinds -> SUBSET Appts]
    /\ queue \subseteq Job
    /\ run \in [Workers -> Run \cup {NoRun}]
    /\ \A j \in queue \cup {run[w].job : w \in {v \in Workers : run[v] # NoRun}} :
          j.task \in DueAt(j.at) /\ j.at <= now /\ j.tries <= Retries[j.task]
    /\ \A w \in Workers : run[w] # NoRun => run[w].todo \cap run[w].done = {}
    /\ mails \in [Tasks -> [Appts -> Nat]]
    /\ failures \in [Tasks -> Nat]
    /\ late \subseteq Tasks /\ overlapped \subseteq Tasks

\* The flag is set with a whole run, after its mails: who is marked was mailed,
\* also when runs overlap, fail in the middle and are delivered again.
FlaggedWasMailed == \A k \in Kinds : \A a \in flagged[k] : mails[k][a] >= 1

\* "Mark reminder as sent": the windows of successive runs overlap, and a
\* customer still gets one reminder of a kind, and one more at most for every
\* run that failed, as long as no two runs of the task overlap.
OneReminderPerSuccess ==
    \A k \in Kinds \ overlapped : \A a \in Appts : mails[k][a] <= 1 + failures[k]

\* Beat's period and the window fit: when beat and the workers are on time, no
\* visit that was confirmed before its window opened falls between two runs.
NobodyIsForgotten ==
    \A k \in Kinds \ late : \A a \in steady[k] : now > Closes(k, a) => a \in flagged[k]

\* The date alone keeps review requests apart while every run is on time: one
\* for a visit, and one more if it ended at midnight, or for every failed run.
OneRequestPerVisit ==
    "reviews" \notin late =>
        \A a \in Appts : mails["reviews"][a] <=
            failures["reviews"] + IF EndOf[a] % DayLength = 0 THEN 2 ELSE 1

\* A visit that was completed before the run of the next day is asked about.
EveryVisitIsAskedAbout ==
    "reviews" \notin late =>
        \A a \in steady["reviews"] : now > Closes("reviews", a) => mails["reviews"][a] >= 1

\* What the documents say, and the code does not do: "Celery tasks are idempotent
\* (safe to retry)".  A task that runs again, after a failure or because the broker
\* delivered it twice, mails nobody for a second time; the two other reasons for a
\* second mail are left aside (runs that were late or overlapped, and both midnights).
SafeToRetry ==
    \A t \in Tasks \ (late \cup overlapped) : \A a \in Appts :
        EndOf[a] % DayLength # 0 => mails[t][a] <= 1

\* The inductive form of the first: a run counts who it mailed.
MailInv ==
    /\ FlaggedWasMailed
    /\ \A w \in Workers : run[w] # NoRun => \A a \in run[w].done : mails[run[w].job.task][a] >= 1

\* Of the second: a mail is accounted for by a flag, by the run that is under way,
\* or by a run that failed.
Accounted(k, a) == a \in flagged[k] \/ \E w \in Workers : Running(w, k) /\ a \in run[w].done

SerialFor(k) ==
    /\ \A v, w \in Workers : Running(v, k) /\ Running(w, k) => v = w
    /\ \A w \in Workers : Running(w, k) => run[w].todo \cap flagged[k] = {}
    /\ \A a \in Appts : mails[k][a] <= failures[k] + IF Accounted(k, a) THEN 1 ELSE 0

SerialInv == \A k \in Kinds \ overlapped : SerialFor(k)

\* Of the third: once beat enqueued the task within the window of a visit, the visit
\* is flagged, or in the hands of a run, or the task still waits.
InHand(k, a) ==
    \/ \E j \in queue : j.task = k
    \/ \E w \in Workers : Running(w, k) /\ a \in run[w].todo \cup run[w].done

PunctualFor(k, a) ==
    /\ status[a] = "CONFIRMED"
    /\ Opens(k, a) \in 1 .. MaxNow /\ Opens(k, a) <= now
    /\ \A b \in Opens(k, a) .. Closes(k, a) : b % Every[k] = 0 /\ b <= now =>
          a \in flagged[k] \/ (b = now /\ InHand(k, a))

PunctualInv == \A k \in Kinds \ late : \A a \in steady[k] : PunctualFor(k, a)

\* Of the last two: a visit whose time has come was asked about, or is going to be.
AskInHand(a) ==
    \/ \E j \in queue : j.task = "reviews"
    \/ \E w \in Workers : Running(w, "reviews") /\ a \in run[w].todo

AskedFor(a) ==
    /\ status[a] = "COMPLETED" /\ Opens("reviews", a) <= now
    /\ mails["reviews"][a] >= 1 \/ (Opens("reviews", a) = now /\ AskInHand(a))

AskInv == "reviews" \notin late => \A a \in steady["reviews"] : AskedFor(a)

\* One task at most waits or runs, that of this very moment; and the mails of a visit,
\* with the one it may be about to get, are paid for by failures and by the days on which
\* it is yesterday's.
TwiceYesterday(a) == EndOf[a] % DayLength = 0
AskedToday(a) ==
    now = Opens("reviews", a) \/ (TwiceYesterday(a) /\ now = Opens("reviews", a) - DayLength)
Budget(a) ==
    (IF Opens("reviews", a) <= now THEN 1 ELSE 0)
        + (IF TwiceYesterday(a) /\ Opens("reviews", a) - DayLength <= now THEN 1 ELSE 0)
Awaiting(a) ==
    \/ AskedToday(a) /\ \E j \in queue : j.task = "reviews"
    \/ \E w \in Workers : Running(w, "reviews") /\ a \in run[w].todo

OneAsk ==
    /\ \A i, j \in queue : i.task = "reviews" /\ j.task = "reviews" => i = j
    /\ \A v, w \in Workers : Running(v, "reviews") /\ Running(w, "reviews") => v = w
    /\ \A j \in queue, w \in Workers : j.task = "reviews" => ~ Running(w, "reviews")
    /\ \A j \in queue : j.task = "reviews" => j.at = now
    /\ \A w \in Workers : Running(w, "reviews") => run[w].job.at = now

PaidFor(a) ==
    mails["reviews"][a] + (IF Awaiting(a) THEN 1 ELSE 0) <= failures["reviews"] + Budget(a)

OnceInv == "reviews" \notin late => OneAsk /\ \A a \in Appts : PaidFor(a)
=============================================================================
