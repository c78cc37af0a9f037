--------------------------- MODULE RemindersProofs ---------------------------
(***************************************************************************)
(* What the mails by the clock guarantee for any number of workers,        *)
(* appointments and kinds of reminders, any schedule and any failures.     *)
(***************************************************************************)
EXTENDS Reminders, TLAPS

LEMMA RunType ==
    ASSUME TypeOK, NEW w \in Workers, run[w] # NoRun
    PROVE  /\ run[w] \in Run
           /\ run[w].job \in Job /\ run[w].job.task \in Tasks
           /\ run[w].todo \subseteq Appts /\ run[w].done \subseteq Appts
           /\ run[w].job.task \in DueAt(run[w].job.at)
           /\ run[w].job.at <= now /\ run[w].job.tries <= Retries[run[w].job.task]
           /\ run[w].todo \cap run[w].done = {}
<1>1. run[w] \in Run /\ run[w].todo \cap run[w].done = {}
  BY DEF TypeOK
<1>2. run[w].job \in {run[v].job : v \in {v \in Workers : run[v] # NoRun}}
  OBVIOUS
<1> QED
  BY <1>1, <1>2 DEF Run, Job, TypeOK

LEMMA RunIsSomething == \A r \in Run : r # NoRun
BY RunAssumption

LEMMA TypeInit == Init => TypeOK
BY ReminderAssumption DEF Init, TypeOK

LEMMA TypeTick ==
    ASSUME TypeOK, NEW sent \in SUBSET DueAt(now + 1), Tick(sent)
    PROVE  TypeOK'
<1> USE DEF Tick
<1>1. now \in Nat /\ now' \in 0 .. MaxNow /\ now <= now'
  BY ReminderAssumption DEF TypeOK
<1>2. sent \subseteq Tasks
  BY DEF DueAt, Tasks
<1>3. \A j \in queue' : j \in Job /\ j.task \in DueAt(j.at) /\ j.at <= now' /\ j.tries <= Retries[j.task]
  <2>1. \A j \in queue : j \in Job /\ j.task \in DueAt(j.at) /\ j.at <= now /\ j.tries <= Retries[j.task]
    BY DEF TypeOK
  <2>2. \A t \in sent : [task |-> t, at |-> now + 1, tries |-> 0] \in Job /\ 0 <= Retries[t]
    BY <1>1, <1>2, ReminderAssumption DEF Job
  <2>3. \A j \in queue : j.at \in Nat
    BY <2>1 DEF Job
  <2> QED
    BY <1>1, <2>1, <2>2, <2>3
<1>4. \A w \in Workers : run'[w] # NoRun =>
         /\ run'[w].job.task \in DueAt(run'[w].job.at) /\ run'[w].job.at <= now'
         /\ run'[w].job.tries <= Retries[run'[w].job.task]
  BY <1>1, RunType DEF Run, Job
<1>5. late' \subseteq Tasks
  BY <1>2 DEF TypeOK, DueAt, Tasks, Job
<1>6. steady' \in [Tasks -> SUBSET Appts]
  BY DEF TypeOK
<1> QED
  BY <1>1, <1>3, <1>4, <1>5, <1>6 DEF TypeOK

LEMMA TypeStart ==
    ASSUME TypeOK, NEW w \in Workers, NEW job \in queue, StartRun(w, job)
    PROVE  TypeOK'
<1> USE DEF StartRun
<1>1. job \in Job /\ job.task \in Tasks /\ job.task \in DueAt(job.at) /\ job.at <= now
      /\ job.tries <= Retries[job.task]
  BY DEF TypeOK, Job
<1>2. PICK r : /\ r = [job |-> job, done |-> {},
                       todo |-> IF job.task = "reviews" THEN Finished ELSE Upcoming(job.task)]
               /\ run' = [run EXCEPT ![w] = r]
  OBVIOUS
<1>3. r \in Run /\ r.job = job /\ r.todo \cap r.done = {} /\ r # NoRun
  BY <1>1, <1>2, RunIsSomething DEF Run, Finished, Upcoming
<1>4. run' \in [Workers -> Run \cup {NoRun}]
  BY <1>2, <1>3 DEF TypeOK
<1>5. \A v \in Workers : run'[v] # NoRun =>
         /\ run'[v].job.task \in DueAt(run'[v].job.at) /\ run'[v].job.at <= now
         /\ run'[v].job.tries <= Retries[run'[v].job.task]
         /\ run'[v].todo \cap run'[v].done = {}
  <2> TAKE v \in Workers
  <2>1. CASE v = w
    BY <1>1, <1>2, <1>3, <2>1 DEF TypeOK
  <2>2. CASE v # w
    BY <1>2, <2>2, RunType DEF TypeOK
  <2> QED
    BY <2>1, <2>2
<1>6. overlapped' \subseteq Tasks
  BY <1>1 DEF TypeOK
<1> QED
  BY <1>4, <1>5, <1>6 DEF TypeOK

LEMMA SendEffect ==
    ASSUME TypeOK, NEW w \in Workers, NEW a \in Appts, Send(w, a)
    PROVE  /\ run[w] # NoRun /\ a \in run[w].todo /\ run[w].job.task \in Tasks
           /\ run' \in [Workers -> Run \cup {NoRun}]
           /\ \A v \in Workers \ {w} : run'[v] = run[v]
           /\ run'[w] # NoRun /\ run'[w].job = run[w].job
           /\ run'[w].todo = run[w].todo \ {a} /\ run'[w].done = run[w].done \cup {a}
           /\ mails' \in [Tasks -> [Appts -> Nat]]
           /\ \A t \in Tasks : \A b \in Appts :
                 mails'[t][b] = IF t = run[w].job.task /\ b = a THEN mails[t][b] + 1 ELSE mails[t][b]
           /\ UNCHANGED <<now, status, steady, flagged, queue, failures, late, overlapped>>
<1> USE DEF Send
<1>1. run[w] # NoRun /\ a \in run[w].todo
  OBVIOUS
<1>2. PICK r : /\ r = [job |-> run[w].job, todo |-> run[w].todo \ {a}, done |-> run[w].done \cup {a}]
               /\ run' = [run EXCEPT ![w] = r]
  OBVIOUS
<1>3. r \in Run /\ r # NoRun
  BY <1>1, <1>2, RunType, RunIsSomething DEF Run
<1>4. run' \in [Workers -> Run \cup {NoRun}] /\ run'[w] = r
  BY <1>2, <1>3 DEF TypeOK
<1>5. PICK t \in Tasks : t = run[w].job.task
  BY <1>1, RunType
<1>6. mails' = [mails EXCEPT ![t][a] = @ + 1]
  BY <1>5
<1>7. mails \in [Tasks -> [Appts -> Nat]]
  BY DEF TypeOK
<1>8. mails' \in [Tasks -> [Appts -> Nat]]
  BY <1>6, <1>7
<1>9. \A u \in Tasks : \A b \in Appts :
         mails'[u][b] = IF u = run[w].job.task /\ b = a THEN mails[u][b] + 1 ELSE mails[u][b]
  BY <1>5, <1>6, <1>7
<1>10. \A v \in Workers \ {w} : run'[v] = run[v]
  BY <1>2 DEF TypeOK
<1>11. /\ run'[w] # NoRun /\ run'[w].job = run[w].job
       /\ run'[w].todo = run[w].todo \ {a} /\ run'[w].done = run[w].done \cup {a}
  BY <1>2, <1>3, <1>4
<1>12. UNCHANGED <<now, status, steady, flagged, queue, failures, late, overlapped>>
  OBVIOUS
<1>13. run[w].job.task \in Tasks
  BY <1>5
<1> HIDE DEF Send
<1> QED
  BY <1>1, <1>4, <1>8, <1>9, <1>10, <1>11, <1>12, <1>13

LEMMA TypeSend ==
    ASSUME TypeOK, NEW w \in Workers, NEW a \in Appts, Send(w, a)
    PROVE  TypeOK'
<1>1. \A v \in Workers : run'[v] # NoRun =>
         /\ run'[v].job.task \in DueAt(run'[v].job.at) /\ run'[v].job.at <= now
         /\ run'[v].job.tries <= Retries[run'[v].job.task]
         /\ run'[v].todo \cap run'[v].done = {}
  <2> TAKE v \in Workers
  <2>1. CASE v = w
    <3>1. run[w] # NoRun /\ run'[w].job = run[w].job
      BY SendEffect
    <3>2. run'[w].todo \cap run'[w].done = {}
      BY <3>1, SendEffect, RunType
    <3> QED
      BY <2>1, <3>1, <3>2, RunType
  <2>2. CASE v # w
    BY <2>2, SendEffect, RunType
  <2> QED
    BY <2>1, <2>2
<1> QED
  BY <1>1, SendEffect DEF TypeOK

\* A run that ends leaves the others alone.
LEMMA EndEffect ==
    ASSUME TypeOK, NEW w \in Workers, run' = [run EXCEPT ![w] = NoRun]
    PROVE  /\ run' \in [Workers -> Run \cup {NoRun}]
           /\ run'[w] = NoRun /\ \A v \in Workers \ {w} : run'[v] = run[v]
           /\ \A v \in Workers : run'[v] # NoRun => v # w /\ run'[v] = run[v]
BY DEF TypeOK

LEMMA TypeCommit ==
    ASSUME TypeOK, NEW w \in Workers, Commit(w)
    PROVE  TypeOK'
<1> USE DEF Commit
<1>1. flagged' \in [Kinds -> SUBSET Appts]
  BY RunType DEF TypeOK, Running
<1>2. \A v \in Workers : run'[v] # NoRun =>
         /\ run'[v].job.task \in DueAt(run'[v].job.at) /\ run'[v].job.at <= now
         /\ run'[v].job.tries <= Retries[run'[v].job.task]
         /\ run'[v].todo \cap run'[v].done = {}
  BY EndEffect, RunType DEF TypeOK
<1> QED
  BY <1>1, <1>2, EndEffect DEF TypeOK

\* What Fail and Crash leave behind.
LEMMA AbortEffect ==
    ASSUME TypeOK, NEW w \in Workers, Fail(w) \/ Crash(w)
    PROVE  /\ run[w] # NoRun
           /\ run' = [run EXCEPT ![w] = NoRun]
           /\ failures' = [failures EXCEPT ![run[w].job.task] = @ + 1]
           /\ UNCHANGED <<now, status, steady, flagged, mails, overlapped>>
           /\ \E again : /\ queue' = queue \cup again
                         /\ late' = IF again = {} THEN late \cup {run[w].job.task} ELSE late
                         /\ \A j \in again : /\ j \in Job /\ j.task = run[w].job.task
                                             /\ j.at = run[w].job.at
                                             /\ j.tries <= Retries[j.task]
<1> DEFINE job == run[w].job
           next == [task |-> job.task, at |-> job.at, tries |-> job.tries + 1]
<1>1. run[w] # NoRun
  BY DEF Fail, Crash
<1>2. job \in Job /\ job.task \in Tasks /\ job.tries <= Retries[job.task] /\ Retries[job.task] \in Nat
  BY <1>1, RunType, ReminderAssumption
<1>3. PICK again : /\ Abort(w, again)
                   /\ again \in {{}, {job}} \/ (again = {next} /\ job.tries < Retries[job.task])
  BY DEF Fail, Crash
<1>4. \A j \in again : j \in Job /\ j.task = job.task /\ j.at = job.at /\ j.tries <= Retries[j.task]
  BY <1>2, <1>3 DEF Job
<1> QED
  BY <1>1, <1>3, <1>4 DEF Abort

LEMMA TypeAbort ==
    ASSUME TypeOK, NEW w \in Workers, Fail(w) \/ Crash(w)
    PROVE  TypeOK'
<1>1. run[w] # NoRun /\ run' = [run EXCEPT ![w] = NoRun]
  BY AbortEffect
<1>2. run[w].job.task \in Tasks /\ run[w].job.task \in DueAt(run[w].job.at) /\ run[w].job.at <= now
  BY <1>1, RunType
<1>3. failures' \in [Tasks -> Nat]
  <2>1. failures' = [failures EXCEPT ![run[w].job.task] = @ + 1]
    BY AbortEffect
  <2> QED
    BY <1>2, <2>1 DEF TypeOK
<1>6. PICK again : /\ queue' = queue \cup again
                   /\ late' = IF again = {} THEN late \cup {run[w].job.task} ELSE late
                   /\ \A j \in again : /\ j \in Job /\ j.task = run[w].job.task
                                       /\ j.at = run[w].job.at /\ j.tries <= Retries[j.task]
  BY AbortEffect
<1>7. late' \subseteq Tasks
  BY <1>2, <1>6 DEF TypeOK
<1>4. \A j \in queue' : /\ j \in Job /\ j.task \in DueAt(j.at) /\ j.at <= now
                        /\ j.tries <= Retries[j.task]
  BY <1>2, <1>6 DEF TypeOK
<1>5. \A v \in Workers : run'[v] # NoRun =>
         /\ run'[v].job.task \in DueAt(run'[v].job.at) /\ run'[v].job.at <= now
         /\ run'[v].job.tries <= Retries[run'[v].job.task]
         /\ run'[v].todo \cap run'[v].done = {}
  BY <1>1, EndEffect, RunType DEF TypeOK
<1> QED
  BY <1>1, <1>3, <1>4, <1>5, <1>7, EndEffect, AbortEffect DEF TypeOK

LEMMA TypeStep == TypeOK /\ [Next]_vars => TypeOK'
<1> SUFFICES ASSUME TypeOK, [Next]_vars
             PROVE  TypeOK'
  OBVIOUS
<1>1. ASSUME NEW a \in Appts, NEW s \in {"CONFIRMED", "COMPLETED", "OTHER"}, ChangeStatus(a, s)
      PROVE  TypeOK'
  BY <1>1 DEF ChangeStatus, TypeOK
<1>2. CASE UNCHANGED vars
  BY <1>2 DEF vars, TypeOK
<1>3. ASSUME NEW w \in Workers, Work(w)
      PROVE  TypeOK'
  BY <1>3, TypeStart, TypeSend, TypeCommit, TypeAbort DEF Work
<1> QED
  BY <1>1, <1>2, <1>3, TypeTick DEF Next

\* What is enqueued and what runs was due, within its retries.
THEOREM TypeCorrect == Spec => []TypeOK
BY TypeInit, TypeStep, PTL DEF Spec

(***************************************************************************)
(* A flag stands for a mail                                                *)
(***************************************************************************)
LEMMA StartEffect ==
    ASSUME TypeOK, NEW w \in Workers, NEW job \in queue, StartRun(w, job)
    PROVE  /\ run[w] = NoRun /\ run'[w] # NoRun /\ run'[w].job = job /\ run'[w].done = {}
           /\ run'[w].todo = IF job.task = "reviews" THEN Finished ELSE Upcoming(job.task)
           /\ \A v \in Workers \ {w} : run'[v] = run[v]
           /\ job.task \in Tasks /\ queue' = queue \ {job}
           /\ overlapped' = IF \E v \in Workers : Running(v, job.task)
                            THEN overlapped \cup {job.task} ELSE overlapped
           /\ UNCHANGED <<now, status, steady, flagged, mails, failures, late>>
<1> USE DEF StartRun
<1>1. job \in Job /\ job.task \in Tasks
  BY DEF TypeOK, Job
<1>2. PICK r : /\ r = [job |-> job, done |-> {},
                       todo |-> IF job.task = "reviews" THEN Finished ELSE Upcoming(job.task)]
               /\ run' = [run EXCEPT ![w] = r]
  OBVIOUS
<1>3. r \in Run /\ r # NoRun
  BY <1>1, <1>2, RunIsSomething DEF Run, Finished, Upcoming
<1>4. run'[w] = r /\ \A v \in Workers \ {w} : run'[v] = run[v]
  BY <1>2 DEF TypeOK
<1> QED
  BY <1>1, <1>2, <1>3, <1>4

LEMMA MailStep == TypeOK /\ MailInv /\ [Next]_vars => MailInv'
<1> SUFFICES ASSUME TypeOK, MailInv, [Next]_vars
             PROVE  MailInv'
  OBVIOUS
<1> DEFINE Mailed(v) == run[v] # NoRun => \A a \in run[v].done : mails[run[v].job.task][a] >= 1
<1>0. \A v \in Workers : Mailed(v)
  BY DEF MailInv
<1>1. ASSUME UNCHANGED <<flagged, run, mails>>
      PROVE  MailInv'
  BY <1>1 DEF MailInv, FlaggedWasMailed
<1>2. ASSUME NEW w \in Workers, NEW job \in queue, StartRun(w, job)
      PROVE  MailInv'
  <2>1. UNCHANGED <<flagged, mails>> /\ run'[w].done = {}
        /\ \A v \in Workers \ {w} : run'[v] = run[v]
    BY <1>2, StartEffect
  <2> QED
    BY <2>1 DEF MailInv, FlaggedWasMailed
<1>3. ASSUME NEW w \in Workers, NEW a \in Appts, Send(w, a)
      PROVE  MailInv'
  <2>1. /\ UNCHANGED flagged
        /\ run[w] # NoRun /\ run[w].job.task \in Tasks /\ a \in run[w].todo
        /\ run'[w].job = run[w].job /\ run'[w].done = run[w].done \cup {a}
        /\ \A v \in Workers \ {w} : run'[v] = run[v]
    BY <1>3, SendEffect
  <2>2. \A t \in Tasks : \A b \in Appts :
           /\ mails[t][b] \in Nat /\ mails'[t][b] >= mails[t][b]
           /\ t = run[w].job.task /\ b = a => mails'[t][b] >= 1
    <3>1. \A t \in Tasks : \A b \in Appts :
             mails'[t][b] = IF t = run[w].job.task /\ b = a THEN mails[t][b] + 1 ELSE mails[t][b]
      BY <1>3, SendEffect
    <3>2. \A t \in Tasks : \A b \in Appts : mails[t][b] \in Nat
      BY DEF TypeOK
    <3> QED
      BY <3>1, <3>2
  <2>3. FlaggedWasMailed'
    <3>1. ASSUME NEW k \in Kinds, NEW b \in flagged[k]
          PROVE  mails'[k][b] >= 1
      <4>1. k \in Tasks /\ b \in Appts
        BY <3>1 DEF TypeOK, Tasks
      <4>2. mails[k][b] >= 1
        BY <3>1 DEF MailInv, FlaggedWasMailed
      <4>3. mails[k][b] \in Nat /\ mails'[k][b] >= mails[k][b] /\ mails'[k][b] \in Nat
        <5>1. mails' \in [Tasks -> [Appts -> Nat]]
          BY <1>3, SendEffect
        <5> QED
          BY <2>2, <4>1, <5>1
      <4> QED
        BY <4>2, <4>3
    <3> QED
      BY <2>1, <3>1 DEF FlaggedWasMailed
  <2>4. ASSUME NEW v \in Workers, run'[v] # NoRun, NEW b \in run'[v].done
        PROVE  mails'[run'[v].job.task][b] >= 1
    <3>1. run[v] # NoRun /\ run'[v].job = run[v].job /\ run[v].job.task \in Tasks
      BY <2>1, <2>4, RunType
    <3>2. PICK t \in Tasks : t = run[v].job.task
      BY <3>1
    <3>3. mails'[t][b] >= 1
      <4>1. CASE v = w /\ b = a
        BY <2>2, <3>2, <4>1
      <4>2. CASE b \in run[v].done
        <5>1. b \in Appts /\ mails[t][b] >= 1
          BY <1>0, <3>1, <3>2, <4>2, RunType
        <5>2. mails[t][b] \in Nat /\ mails'[t][b] >= mails[t][b] /\ mails'[t][b] \in Nat
          <6>1. mails' \in [Tasks -> [Appts -> Nat]]
            BY <1>3, SendEffect
          <6> QED
            BY <2>2, <5>1, <6>1
        <5> QED
          BY <5>1, <5>2
      <4> QED
        BY <2>1, <2>4, <4>1, <4>2
    <3> QED
      BY <3>1, <3>2, <3>3
  <2> QED
    BY <2>3, <2>4 DEF MailInv
<1>4. ASSUME NEW w \in Workers, Commit(w)
      PROVE  MailInv'
  <2>1. /\ UNCHANGED mails
        /\ \A v \in Workers : run'[v] # NoRun => run'[v] = run[v] /\ run[v] # NoRun
        /\ \A k \in Kinds : flagged'[k] = IF Running(w, k) THEN flagged[k] \cup run[w].done
                                          ELSE flagged[k]
    BY <1>4, EndEffect DEF Commit
  <2> QED
    BY <2>1, <1>0 DEF MailInv, FlaggedWasMailed, Running
<1>5. ASSUME NEW w \in Workers, Fail(w) \/ Crash(w)
      PROVE  MailInv'
  <2>1. UNCHANGED <<flagged, mails>> /\ run' = [run EXCEPT ![w] = NoRun]
    BY <1>5, AbortEffect
  <2>2. \A v \in Workers : run'[v] # NoRun => run'[v] = run[v] /\ run[v] # NoRun
    BY <2>1, EndEffect
  <2> QED
    BY <2>1, <2>2, <1>0 DEF MailInv, FlaggedWasMailed
<1> HIDE DEF Mailed
<1> QED
  BY <1>1, <1>2, <1>3, <1>4, <1>5 DEF Next, Work, Tick, ChangeStatus, vars

\* Whoever is marked as reminded was mailed, whatever fails and however runs overlap.
THEOREM FlaggedWereMailed == Spec => []FlaggedWasMailed
<1>1. Init => MailInv
  BY DEF Init, MailInv, FlaggedWasMailed
<1>2. MailInv => FlaggedWasMailed
  BY DEF MailInv
<1> QED
  BY <1>1, <1>2, TypeCorrect, MailStep, PTL DEF Spec

(***************************************************************************)
(* One reminder, and one more for every run that failed                    *)
(***************************************************************************)
\* What the runs of one kind depend on.
SameRuns(k) ==
    /\ \A v \in Workers : Running(v, k)' <=> Running(v, k)
    /\ \A v \in Workers : Running(v, k) => run'[v] = run[v]

LEMMA SerialUntouched ==
    ASSUME NEW k \in Kinds, SerialFor(k), SameRuns(k),
           flagged'[k] = flagged[k], mails'[k] = mails[k], failures'[k] = failures[k]
    PROVE  SerialFor(k)'
<1>1. \A a \in Appts : Accounted(k, a)' <=> Accounted(k, a)
  BY DEF Accounted, SameRuns
<1>2. \A v \in Workers : Running(v, k)' => Running(v, k) /\ run'[v] = run[v]
  BY DEF SameRuns
<1>3. \A v, w \in Workers : Running(v, k)' /\ Running(w, k)' => v = w
  BY <1>2 DEF SerialFor
<1>4. \A w \in Workers : Running(w, k)' => run'[w].todo \cap flagged'[k] = {}
  BY <1>2 DEF SerialFor
<1>5. \A a \in Appts : mails'[k][a] <= failures'[k] + IF Accounted(k, a)' THEN 1 ELSE 0
  BY <1>1 DEF SerialFor
<1> QED
  BY <1>3, <1>4, <1>5 DEF SerialFor

LEMMA SerialStart ==
    ASSUME TypeOK, SerialInv, NEW w \in Workers, NEW job \in queue, StartRun(w, job),
           NEW k \in Kinds \ overlapped'
    PROVE  SerialFor(k)'
<1>1. /\ run[w] = NoRun /\ run'[w] # NoRun /\ run'[w].job = job /\ run'[w].done = {}
      /\ run'[w].todo = IF job.task = "reviews" THEN Finished ELSE Upcoming(job.task)
      /\ \A v \in Workers \ {w} : run'[v] = run[v]
      /\ overlapped' = IF \E v \in Workers : Running(v, job.task)
                       THEN overlapped \cup {job.task} ELSE overlapped
      /\ UNCHANGED <<flagged, mails, failures>>
  BY StartEffect
<1>2. k \in Kinds \ overlapped /\ SerialFor(k)
  BY <1>1 DEF SerialInv
<1>3. CASE job.task # k
  BY <1>1, <1>2, <1>3, SerialUntouched DEF SameRuns, Running
<1>4. CASE job.task = k
  <2>1. \A v \in Workers : ~ Running(v, k)
    BY <1>1, <1>4
  <2>2. \A v \in Workers : Running(v, k)' => v = w
    BY <1>1, <2>1 DEF Running
  <2>3. run'[w].todo \cap flagged'[k] = {}
    BY <1>1, <1>4, ReminderAssumption DEF Upcoming
  <2>4. \A a \in Appts : Accounted(k, a)' <=> Accounted(k, a)
    BY <1>1, <2>1, <2>2 DEF Accounted
  <2>5. \A a \in Appts : mails'[k][a] <= failures'[k] + IF Accounted(k, a)' THEN 1 ELSE 0
    BY <1>1, <1>2, <2>4 DEF SerialFor
  <2> QED
    BY <2>2, <2>3, <2>5 DEF SerialFor
<1> QED
  BY <1>3, <1>4

LEMMA SerialSend ==
    ASSUME TypeOK, SerialInv, NEW w \in Workers, NEW a \in Appts, Send(w, a),
           NEW k \in Kinds \ overlapped'
    PROVE  SerialFor(k)'
<1>1. /\ run[w] # NoRun /\ a \in run[w].todo /\ run[w].job.task \in Tasks
      /\ \A v \in Workers \ {w} : run'[v] = run[v]
      /\ run'[w] # NoRun /\ run'[w].job = run[w].job
      /\ run'[w].todo = run[w].todo \ {a} /\ run'[w].done = run[w].done \cup {a}
      /\ UNCHANGED <<flagged, failures, overlapped>>
  BY SendEffect
<1>2. \A t \in Tasks : \A b \in Appts :
         mails'[t][b] = IF t = run[w].job.task /\ b = a THEN mails[t][b] + 1 ELSE mails[t][b]
  BY SendEffect
<1>3. k \in Kinds /\ k \in Tasks /\ SerialFor(k)
  BY <1>1 DEF SerialInv, Tasks
<1>4. \A v \in Workers : Running(v, k)' <=> Running(v, k)
  BY <1>1 DEF Running
<1>5. CASE run[w].job.task # k
  <2>1. \A b \in Appts : mails'[k][b] = mails[k][b]
    BY <1>2, <1>3, <1>5
  <2>2. mails'[k] = mails[k]
    <3>1. mails'[k] \in [Appts -> Nat] /\ mails[k] \in [Appts -> Nat]
      BY <1>3, SendEffect DEF TypeOK
    <3> QED
      BY <2>1, <3>1
  <2> QED
    BY <1>1, <1>3, <1>4, <1>5, <2>2, SerialUntouched DEF SameRuns, Running
<1>6. CASE run[w].job.task = k
  <2>1. \A v \in Workers : Running(v, k) => v = w
    BY <1>1, <1>3, <1>6 DEF SerialFor, Running
  <2>2. Running(w, k) /\ Running(w, k)'
    BY <1>1, <1>6 DEF Running
  <2>3. run'[w].todo \cap flagged'[k] = {}
    BY <1>1, <1>3, <2>2 DEF SerialFor
  <2>4. ~ Accounted(k, a)
    <3>1. a \notin flagged[k]
      BY <1>1, <1>3, <2>2 DEF SerialFor
    <3>2. a \notin run[w].done
      BY <1>1, RunType
    <3> QED
      BY <2>1, <3>1, <3>2 DEF Accounted
  <2>5. Accounted(k, a)'
    BY <1>1, <2>2 DEF Accounted
  <2>6. \A b \in Appts \ {a} : Accounted(k, b)' <=> Accounted(k, b)
    BY <1>1, <1>4, <2>1 DEF Accounted
  <2>7. \A b \in Appts : mails'[k][b] <= failures'[k] + IF Accounted(k, b)' THEN 1 ELSE 0
    <3>1. failures'[k] = failures[k] /\ failures[k] \in Nat
      BY <1>1, <1>3 DEF TypeOK
    <3>2. \A b \in Appts : mails[k][b] \in Nat
      BY <1>3 DEF TypeOK
    <3>3. \A b \in Appts : mails[k][b] <= failures[k] + IF Accounted(k, b) THEN 1 ELSE 0
      BY <1>3 DEF SerialFor
    <3> TAKE b \in Appts
    <3>4. CASE b = a
      <4>1. mails[k][b] <= failures[k]
        BY <2>4, <3>1, <3>2, <3>3, <3>4
      <4>2. mails'[k][b] = mails[k][b] + 1
        BY <1>2, <1>3, <1>6, <3>4
      <4> QED
        BY <2>5, <3>1, <3>2, <3>4, <4>1, <4>2
    <3>5. CASE b # a
      <4>1. mails'[k][b] = mails[k][b]
        BY <1>2, <1>3, <3>5
      <4> QED
        BY <2>6, <3>1, <3>3, <3>5, <4>1
    <3> QED
      BY <3>4, <3>5
  <2> QED
    BY <1>4, <2>1, <2>3, <2>7 DEF SerialFor
<1> QED
  BY <1>5, <1>6

LEMMA SerialCommit ==
    ASSUME TypeOK, SerialInv, NEW w \in Workers, Commit(w), NEW k \in Kinds \ overlapped'
    PROVE  SerialFor(k)'
<1>1. /\ run[w] # NoRun
      /\ \A j \in Kinds : flagged'[j] = IF Running(w, j) THEN flagged[j] \cup run[w].done
                                        ELSE flagged[j]
      /\ UNCHANGED <<mails, failures, overlapped>>
  BY DEF Commit
<1>2. run'[w] = NoRun /\ \A v \in Workers \ {w} : run'[v] = run[v]
  BY EndEffect DEF Commit
<1>3. k \in Kinds /\ SerialFor(k)
  BY <1>1 DEF SerialInv
<1>4. CASE ~ Running(w, k)
  BY <1>1, <1>2, <1>3, <1>4, SerialUntouched DEF SameRuns, Running
<1>5. CASE Running(w, k)
  <2>1. \A v \in Workers : ~ Running(v, k)'
    BY <1>2, <1>3, <1>5 DEF SerialFor, Running
  <2>2. \A a \in Appts : Accounted(k, a) => Accounted(k, a)'
    BY <1>1, <1>3, <1>5 DEF Accounted, SerialFor
  <2>3. \A a \in Appts : mails'[k][a] <= failures'[k] + IF Accounted(k, a)' THEN 1 ELSE 0
    <3>1. failures'[k] = failures[k] /\ failures[k] \in Nat
      BY <1>1, <1>3 DEF TypeOK, Tasks
    <3>2. \A a \in Appts : mails'[k][a] = mails[k][a] /\ mails[k][a] \in Nat
      BY <1>1, <1>3 DEF TypeOK, Tasks
    <3>3. \A a \in Appts : mails[k][a] <= failures[k] + IF Accounted(k, a) THEN 1 ELSE 0
      BY <1>3 DEF SerialFor
    <3> QED
      BY <2>2, <3>1, <3>2, <3>3
  <2> QED
    BY <2>1, <2>3 DEF SerialFor
<1> QED
  BY <1>4, <1>5

LEMMA SerialAbort ==
    ASSUME TypeOK, SerialInv, NEW w \in Workers, Fail(w) \/ Crash(w),
           NEW k \in Kinds \ overlapped'
    PROVE  SerialFor(k)'
<1>1. /\ run[w] # NoRun
      /\ failures' = [failures EXCEPT ![run[w].job.task] = @ + 1]
      /\ UNCHANGED <<flagged, mails, overlapped>>
  BY AbortEffect
<1>2. run'[w] = NoRun /\ \A v \in Workers \ {w} : run'[v] = run[v]
  BY AbortEffect, EndEffect
<1>3. k \in Kinds /\ k \in Tasks /\ SerialFor(k)
  BY <1>1 DEF SerialInv, Tasks
<1>4. CASE ~ Running(w, k)
  <2>1. failures'[k] = failures[k]
    BY <1>1, <1>3, <1>4 DEF TypeOK, Running
  <2> QED
    BY <1>1, <1>2, <1>3, <1>4, <2>1, SerialUntouched DEF SameRuns, Running
<1>5. CASE Running(w, k)
  <2>1. \A v \in Workers : ~ Running(v, k)'
    BY <1>2, <1>3, <1>5 DEF SerialFor, Running
  <2>2. failures'[k] = failures[k] + 1 /\ failures[k] \in Nat
    BY <1>1, <1>3, <1>5 DEF TypeOK, Running
  <2>3. \A a \in Appts : mails'[k][a] = mails[k][a] /\ mails[k][a] \in Nat
    BY <1>1, <1>3 DEF TypeOK
  <2>4. \A a \in Appts : mails[k][a] <= failures[k] + 1
    BY <1>3, <2>2, <2>3 DEF SerialFor
  <2>5. \A a \in Appts : mails'[k][a] <= failures'[k] + IF Accounted(k, a)' THEN 1 ELSE 0
    BY <2>2, <2>3, <2>4
  <2> QED
    BY <2>1, <2>5 DEF SerialFor
<1> QED
  BY <1>4, <1>5

LEMMA SerialStep == TypeOK /\ SerialInv /\ [Next]_vars => SerialInv'
<1> SUFFICES ASSUME TypeOK, SerialInv, [Next]_vars, NEW k \in Kinds \ overlapped'
             PROVE  SerialFor(k)'
  BY DEF SerialInv
<1>1. ASSUME UNCHANGED <<flagged, run, mails, failures, overlapped>>
      PROVE  SerialFor(k)'
  BY <1>1, SerialUntouched DEF SerialInv, SameRuns, Running
<1> QED
  BY <1>1, SerialStart, SerialSend, SerialCommit, SerialAbort
  DEF Next, Work, Tick, ChangeStatus, vars

LEMMA SerialInit == Init => SerialInv
<1> SUFFICES ASSUME Init, NEW k \in Kinds
             PROVE  SerialFor(k)
  BY DEF SerialInv
<1>1. \A w \in Workers : ~ Running(w, k)
  BY DEF Init, Running
<1>2. failures[k] = 0 /\ \A a \in Appts : mails[k][a] = 0
  BY DEF Init, Tasks
<1> QED
  BY <1>1, <1>2 DEF SerialFor

\* A customer is reminded once, and once more at most for every run that failed,
\* as long as the runs of the task do not overlap.
THEOREM RemindedOnce == Spec => []OneReminderPerSuccess
<1>1. TypeOK /\ SerialInv => OneReminderPerSuccess
  <2> SUFFICES ASSUME TypeOK, SerialInv, NEW k \in Kinds \ overlapped, NEW a \in Appts
               PROVE  mails[k][a] <= 1 + failures[k]
    BY DEF OneReminderPerSuccess
  <2>1. mails[k][a] \in Nat /\ failures[k] \in Nat
    BY DEF TypeOK, Tasks
  <2>2. mails[k][a] <= failures[k] + IF Accounted(k, a) THEN 1 ELSE 0
    BY DEF SerialInv, SerialFor
  <2> QED
    BY <2>1, <2>2
<1> QED
  BY <1>1, TypeCorrect, SerialInit, SerialStep, PTL DEF Spec

(***************************************************************************)
(* Nobody falls between two runs                                           *)
(***************************************************************************)
LEMMA WindowTimes ==
    ASSUME NEW k \in Kinds, NEW a \in Appts
    PROVE  /\ Wanted(k) = "CONFIRMED"
           /\ StartOf[a] \in Nat /\ Lead[k] \in Nat /\ Slack \in Nat
           /\ Opens(k, a) = StartOf[a] - Lead[k] - Slack
           /\ Closes(k, a) = Opens(k, a) + 2 * Slack
           /\ Opens(k, a) \in Int /\ Closes(k, a) \in Int
<1>1. k # "reviews"
  BY ReminderAssumption
<1>2. StartOf[a] \in Nat /\ Lead[k] \in Nat /\ Slack \in Nat
  BY ReminderAssumption
<1> QED
  BY <1>1, <1>2 DEF Wanted, Opens, Closes

\* A run that starts within the window of a confirmed visit finds it.
LEMMA RunFindsVisit ==
    ASSUME TypeOK, NEW k \in Kinds, NEW a \in Appts, status[a] = "CONFIRMED",
           now \in Opens(k, a) .. Closes(k, a), a \notin flagged[k]
    PROVE  a \in Upcoming(k)
<1>1. now \in Nat
  BY ReminderAssumption DEF TypeOK
<1>2. PICK n \in Nat : n = now
  BY <1>1
<1>3. n \in Opens(k, a) .. Closes(k, a)
  BY <1>2
<1>4. PICK l \in Nat, s \in Nat : l = Lead[k] /\ s = StartOf[a]
  BY WindowTimes
<1>5. n >= s - l - Slack /\ n <= s - l - Slack + 2 * Slack
  BY <1>3, <1>4, WindowTimes
<1>6. s \in n + l - Slack .. n + l + Slack
  BY <1>4, <1>5, WindowTimes
<1> QED
  BY <1>2, <1>4, <1>6 DEF Upcoming, Window

\* While the clock stands still, an appointment in hand must not be dropped.
LEMMA PunctualUntouched ==
    ASSUME NEW k \in Kinds, NEW a \in Appts, PunctualFor(k, a),
           UNCHANGED <<now, status>>,
           a \in flagged[k] => a \in flagged'[k],
           now \in Opens(k, a) .. Closes(k, a) /\ InHand(k, a) =>
              a \in flagged'[k] \/ InHand(k, a)'
    PROVE  PunctualFor(k, a)'
<1>1. status'[a] = "CONFIRMED" /\ Opens(k, a) \in 1 .. MaxNow /\ Opens(k, a) <= now'
  BY DEF PunctualFor
<1>2. ASSUME NEW b \in Opens(k, a) .. Closes(k, a), b % Every[k] = 0, b <= now'
      PROVE  a \in flagged'[k] \/ (b = now' /\ InHand(k, a)')
  <2>1. a \in flagged[k] \/ (b = now /\ InHand(k, a))
    BY <1>2 DEF PunctualFor
  <2> QED
    BY <1>2, <2>1
<1> QED
  BY <1>1, <1>2 DEF PunctualFor, Opens, Closes

LEMMA PunctualTick ==
    ASSUME TypeOK, PunctualInv, NEW sent \in SUBSET DueAt(now + 1), Tick(sent),
           NEW k \in Kinds \ late', NEW a \in steady'[k]
    PROVE  PunctualFor(k, a)'
<1>1. now \in Nat /\ MaxNow \in Nat /\ now < MaxNow /\ now' = now + 1
      /\ UNCHANGED <<status, flagged, run>>
  BY ReminderAssumption DEF Tick, TypeOK
<1>2. k \in Tasks /\ k \in Kinds /\ k \notin late /\ (k \in DueAt(now + 1) => k \in sent)
  BY DEF Tick, Tasks
<1>3. \A j \in queue : j.task # k
  BY DEF Tick
<1>4. \A w \in Workers : ~ Running(w, k)
  BY <1>2 DEF Tick
<1>5. steady'[k] = steady[k] \cup {b \in Appts : status[b] = Wanted(k) /\ Opens(k, b) = now + 1}
  BY <1>2 DEF Tick
<1>6. a \in Appts
  BY <1>2, <1>5 DEF TypeOK
<1>7. PICK n \in Nat : n = now
  BY <1>1
<1>8. /\ status[a] = "CONFIRMED" /\ Opens(k, a) \in 1 .. MaxNow /\ Opens(k, a) <= n + 1
      /\ \A b \in Opens(k, a) .. Closes(k, a) : b % Every[k] = 0 /\ b <= n => a \in flagged[k]
  <2>1. CASE a \in steady[k]
    <3>1. PunctualFor(k, a) /\ ~ InHand(k, a)
      BY <1>2, <1>3, <1>4, <2>1 DEF PunctualInv, InHand
    <3> QED
      BY <1>7, <3>1, WindowTimes, <1>6 DEF PunctualFor
  <2>2. CASE status[a] = Wanted(k) /\ Opens(k, a) = n + 1
    <3>1. n + 1 \in 1 .. MaxNow
      BY <1>1, <1>7
    <3>2. \A b \in n + 1 .. Closes(k, a) : ~ b <= n
      BY <1>6, WindowTimes
    <3> QED
      BY <1>6, <2>2, <3>1, <3>2, WindowTimes
  <2> QED
    BY <1>5, <1>7, <2>1, <2>2
<1>9. (n + 1) % Every[k] = 0 => InHand(k, a)'
  <2>1. ASSUME (n + 1) % Every[k] = 0
        PROVE  k \in sent
    BY <1>2, <1>7, <2>1 DEF DueAt
  <2>2. ASSUME k \in sent
        PROVE  \E j \in queue' : j.task = k
    <3>1. PICK j : j = [task |-> k, at |-> now + 1, tries |-> 0]
      OBVIOUS
    <3>2. j \in queue' /\ j.task = k
      BY <2>2, <3>1 DEF Tick
    <3> QED
      BY <3>2
  <2> QED
    BY <2>1, <2>2 DEF InHand
<1>10. ASSUME NEW b \in Opens(k, a) .. Closes(k, a), b % Every[k] = 0, b <= n + 1
       PROVE  a \in flagged[k] \/ (b = n + 1 /\ InHand(k, a)')
  <2>1. b \in Int /\ (b <= n \/ b = n + 1)
    BY <1>6, <1>10, WindowTimes
  <2> QED
    BY <1>8, <1>9, <1>10, <2>1
<1>11. now' = n + 1
  BY <1>1, <1>7
<1> HIDE DEF Tick
<1> QED
  BY <1>1, <1>8, <1>10, <1>11 DEF PunctualFor, Opens, Closes

LEMMA PunctualStart ==
    ASSUME TypeOK, PunctualInv, NEW w \in Workers, NEW job \in queue, StartRun(w, job),
           NEW k \in Kinds \ late', NEW a \in steady'[k]
    PROVE  PunctualFor(k, a)'
<1>1. /\ run[w] = NoRun /\ run'[w] # NoRun /\ run'[w].job = job
      /\ run'[w].todo = IF job.task = "reviews" THEN Finished ELSE Upcoming(job.task)
      /\ \A v \in Workers \ {w} : run'[v] = run[v]
      /\ queue' = queue \ {job}
      /\ UNCHANGED <<now, status, steady, flagged, late>>
  BY StartEffect
<1>2. k \in Kinds /\ k \in Tasks /\ a \in Appts /\ PunctualFor(k, a)
  BY <1>1 DEF PunctualInv, TypeOK, Tasks
<1>3. ASSUME now \in Opens(k, a) .. Closes(k, a), InHand(k, a)
      PROVE  a \in flagged'[k] \/ InHand(k, a)'
  <2>1. CASE job.task = k
    <3>1. a \in flagged[k] \/ a \in Upcoming(k)
      BY <1>2, <1>3, RunFindsVisit DEF PunctualFor
    <3>2. run'[w].todo = Upcoming(k) /\ Running(w, k)'
      BY <1>1, <1>2, <2>1, ReminderAssumption DEF Running
    <3> QED
      BY <1>1, <3>1, <3>2 DEF InHand
  <2>2. CASE job.task # k
    BY <1>1, <1>3, <2>2 DEF InHand, Running
  <2> QED
    BY <2>1, <2>2
<1> QED
  BY <1>1, <1>2, <1>3, PunctualUntouched

LEMMA PunctualSend ==
    ASSUME TypeOK, PunctualInv, NEW w \in Workers, NEW x \in Appts, Send(w, x),
           NEW k \in Kinds \ late', NEW a \in steady'[k]
    PROVE  PunctualFor(k, a)'
<1>1. /\ run[w] # NoRun /\ x \in run[w].todo
      /\ \A v \in Workers \ {w} : run'[v] = run[v]
      /\ run'[w] # NoRun /\ run'[w].job = run[w].job
      /\ run'[w].todo = run[w].todo \ {x} /\ run'[w].done = run[w].done \cup {x}
      /\ UNCHANGED <<now, status, steady, flagged, queue, late>>
  BY SendEffect
<1>2. k \in Kinds /\ a \in Appts /\ PunctualFor(k, a)
  BY <1>1 DEF PunctualInv, TypeOK, Tasks
<1>3. InHand(k, a) => InHand(k, a)'
  BY <1>1 DEF InHand, Running
<1> QED
  BY <1>1, <1>2, <1>3, PunctualUntouched

LEMMA PunctualCommit ==
    ASSUME TypeOK, PunctualInv, NEW w \in Workers, Commit(w),
           NEW k \in Kinds \ late', NEW a \in steady'[k]
    PROVE  PunctualFor(k, a)'
<1>1. /\ run[w] # NoRun /\ run[w].todo = {}
      /\ \A j \in Kinds : flagged'[j] = IF Running(w, j) THEN flagged[j] \cup run[w].done
                                        ELSE flagged[j]
      /\ UNCHANGED <<now, status, steady, queue, late>>
  BY DEF Commit
<1>2. run'[w] = NoRun /\ \A v \in Workers \ {w} : run'[v] = run[v]
  BY EndEffect DEF Commit
<1>3. k \in Kinds /\ a \in Appts /\ PunctualFor(k, a)
  BY <1>1 DEF PunctualInv, TypeOK, Tasks
<1>4. InHand(k, a) => a \in flagged'[k] \/ InHand(k, a)'
  BY <1>1, <1>2, <1>3 DEF InHand, Running
<1> QED
  BY <1>1, <1>3, <1>4, PunctualUntouched

LEMMA PunctualAbort ==
    ASSUME TypeOK, PunctualInv, NEW w \in Workers, Fail(w) \/ Crash(w),
           NEW k \in Kinds \ late', NEW a \in steady'[k]
    PROVE  PunctualFor(k, a)'
<1>1. run[w] # NoRun /\ UNCHANGED <<now, status, steady, flagged>>
  BY AbortEffect
<1>2. PICK again : /\ queue' = queue \cup again
                   /\ late' = IF again = {} THEN late \cup {run[w].job.task} ELSE late
                   /\ \A j \in again : j.task = run[w].job.task
  BY AbortEffect
<1>3. run'[w] = NoRun /\ \A v \in Workers \ {w} : run'[v] = run[v]
  BY AbortEffect, EndEffect
<1>4. k \in Kinds /\ k \notin late /\ a \in Appts /\ PunctualFor(k, a)
  BY <1>1, <1>2 DEF PunctualInv, TypeOK, Tasks
<1>5. InHand(k, a) => InHand(k, a)'
  <2>1. CASE Running(w, k)
    <3>1. PICK j \in again : j.task = k
      BY <1>2, <2>1 DEF Running
    <3> QED
      BY <1>2, <3>1 DEF InHand
  <2>2. CASE ~ Running(w, k)
    BY <1>2, <1>3, <2>2 DEF InHand, Running
  <2> QED
    BY <2>1, <2>2
<1> QED
  BY <1>1, <1>4, <1>5, PunctualUntouched

LEMMA PunctualStep == TypeOK /\ PunctualInv /\ [Next]_vars => PunctualInv'
<1> SUFFICES ASSUME TypeOK, PunctualInv, [Next]_vars,
                    NEW k \in Kinds \ late', NEW a \in steady'[k]
             PROVE  PunctualFor(k, a)'
  BY DEF PunctualInv
<1>1. ASSUME NEW x \in Appts, NEW s \in {"CONFIRMED", "COMPLETED", "OTHER"}, ChangeStatus(x, s)
      PROVE  PunctualFor(k, a)'
  <2>1. UNCHANGED <<now, flagged, queue, run, late>> /\ k \in Kinds \ late
    BY <1>1 DEF ChangeStatus
  <2>2. a \in steady[k] /\ a # x /\ a \in Appts
    BY <1>1, <2>1 DEF ChangeStatus, TypeOK, Tasks
  <2>3. status'[a] = status[a]
    BY <1>1, <2>2 DEF ChangeStatus, TypeOK
  <2>4. InHand(k, a)' <=> InHand(k, a)
    BY <2>1 DEF InHand, Running
  <2>5. PunctualFor(k, a)
    BY <2>1, <2>2 DEF PunctualInv
  <2> QED
    BY <2>1, <2>3, <2>4, <2>5 DEF PunctualFor, Opens, Closes
<1>2. CASE UNCHANGED vars
  <2>1. PunctualFor(k, a) /\ (InHand(k, a)' <=> InHand(k, a))
    BY <1>2 DEF vars, PunctualInv, InHand, Running
  <2> QED
    BY <1>2, <2>1 DEF vars, PunctualFor, Opens, Closes
<1> QED
  BY <1>1, <1>2, PunctualTick, PunctualStart, PunctualSend, PunctualCommit, PunctualAbort
  DEF Next, Work

\* When beat and the workers are on time, every visit that was confirmed before its
\* window opened is marked as reminded when the window closes.
THEOREM EverybodyIsReminded == Spec => []NobodyIsForgotten
<1>1. Init => PunctualInv
  BY DEF Init, PunctualInv, Tasks
<1>2. TypeOK /\ PunctualInv => NobodyIsForgotten
  <2> SUFFICES ASSUME TypeOK, PunctualInv,
                      NEW k \in Kinds \ late, NEW a \in steady[k], now > Closes(k, a)
               PROVE  a \in flagged[k]
    BY DEF NobodyIsForgotten
  <2>1. a \in Appts /\ PunctualFor(k, a)
    BY DEF PunctualInv, TypeOK, Tasks
  <2>2. PICK n \in Nat : n = now
    BY ReminderAssumption DEF TypeOK
  <2>3. PICK b \in Opens(k, a) .. Opens(k, a) + 2 * Slack : b % Every[k] = 0
    BY <2>1, BeatAssumption DEF PunctualFor
  <2>4. b \in Opens(k, a) .. Closes(k, a) /\ b <= n /\ b # n
    BY <2>1, <2>2, <2>3, WindowTimes
  <2> QED
    BY <2>1, <2>2, <2>3, <2>4 DEF PunctualFor
<1> QED
  BY <1>1, <1>2, TypeCorrect, PunctualStep, PTL DEF Spec

(***************************************************************************)
(* Days                                                                    *)
(***************************************************************************)
LEMMA DivMod ==
    ASSUME NEW n \in Nat, NEW d \in Nat \ {0}
    PROVE  \E q \in Nat, r \in 0 .. d - 1 : q = n \div d /\ r = n % d /\ n = q * d + r
<1>1. PICK q \in Int, r \in 0 .. d - 1 : q = n \div d /\ r = n % d
  OBVIOUS
<1>2. n - r = d * q
  BY <1>1
<1>3. n = q * d + r
  BY <1>2
<1>4. ASSUME q <= -1
      PROVE  FALSE
  <2>1. q * d <= -1 * d
    BY <1>4
  <2> QED
    BY <1>3, <2>1
<1>5. q \in Nat
  BY <1>4
<1> WITNESS q \in Nat, r \in 0 .. d - 1
<1> QED
  BY <1>1, <1>3

LEMMA ModUnique ==
    ASSUME NEW k \in Nat, NEW d \in Nat \ {0}, NEW h \in 0 .. d - 1
    PROVE  (k * d + h) % d = h
OBVIOUS

\* When beat asks about a visit: at AskHour of the day after the one it ended on.
LEMMA AskTime ==
    ASSUME NEW a \in Appts
    PROVE  \E q \in Nat, e \in Nat :
              /\ e = EndOf[a] /\ q * DayLength <= e /\ e < q * DayLength + DayLength
              /\ Opens("reviews", a) = q * DayLength + DayLength + AskHour
              /\ TwiceYesterday(a) <=> e = q * DayLength
              /\ Opens("reviews", a) % DayLength = AskHour
<1>1. DayLength \in Nat \ {0} /\ AskHour \in 0 .. DayLength - 1
  BY ReminderAssumption
<1>2. PICK e \in Nat : e = EndOf[a]
  BY ReminderAssumption
<1>3. PICK q \in Nat, r \in 0 .. DayLength - 1 :
         q = e \div DayLength /\ r = e % DayLength /\ e = q * DayLength + r
  BY <1>1, DivMod
<1>4. PICK x \in Nat : x = q * DayLength /\ (q + 1) * DayLength = x + DayLength
  BY <1>1
<1>5. e = x + r /\ Opens("reviews", a) = (q + 1) * DayLength + AskHour
      /\ (TwiceYesterday(a) <=> r = 0)
  BY <1>2, <1>3, <1>4 DEF Opens, TwiceYesterday
<1>6. Opens("reviews", a) % DayLength = AskHour
  <2>1. q + 1 \in Nat
    OBVIOUS
  <2> QED
    BY <1>1, <1>5, <2>1, ModUnique
<1>7. x <= e /\ e < x + DayLength /\ Opens("reviews", a) = x + DayLength + AskHour
      /\ (TwiceYesterday(a) <=> e = x)
  <2>1. r \in Nat /\ r < DayLength
    BY <1>1
  <2> QED
    BY <1>1, <1>4, <1>5, <2>1
<1> QED
  BY <1>2, <1>4, <1>6, <1>7

\* At AskHour, yesterday lies between two midnights.
LEMMA AskDay ==
    ASSUME NEW n \in Nat, n % DayLength = AskHour
    PROVE  \E m \in Nat : n = m * DayLength + AskHour /\ n - (n % DayLength) = m * DayLength
<1>1. DayLength \in Nat \ {0} /\ AskHour \in 0 .. DayLength - 1
  BY ReminderAssumption
<1>2. PICK m \in Nat, r \in 0 .. DayLength - 1 :
         r = n % DayLength /\ n = m * DayLength + r
  BY <1>1, DivMod
<1>3. m * DayLength \in Nat
  BY <1>1
<1> WITNESS m \in Nat
<1> QED
  BY <1>1, <1>2, <1>3

LEMMA MultMono ==
    ASSUME NEW i \in Int, NEW j \in Int, NEW d \in Nat, i <= j
    PROVE  i * d <= j * d
OBVIOUS

\* The query of the review requests finds a visit when its time has come.
LEMMA AskFindsVisit ==
    ASSUME TypeOK, NEW a \in Appts, status[a] = "COMPLETED", now = Opens("reviews", a)
    PROVE  a \in Finished
<1>1. PICK q \in Nat, e \in Nat :
         /\ e = EndOf[a] /\ q * DayLength <= e /\ e < q * DayLength + DayLength
         /\ Opens("reviews", a) = q * DayLength + DayLength + AskHour
         /\ Opens("reviews", a) % DayLength = AskHour
  BY AskTime
<1>2. DayLength \in Nat \ {0} /\ AskHour \in 0 .. DayLength - 1
  BY ReminderAssumption
<1>3. PICK x \in Nat : x = q * DayLength
  BY <1>2
<1>4. now - (now % DayLength) = x + DayLength
  BY <1>1, <1>2, <1>3
<1>5. PICK y \in Nat : y = x + DayLength
  BY <1>2, <1>3
<1>6. e \in y - DayLength .. y
  BY <1>1, <1>2, <1>3, <1>5
<1>7. Yesterday = y - DayLength .. y
  BY <1>4, <1>5 DEF Yesterday
<1> QED
  BY <1>1, <1>6, <1>7 DEF Finished

\* It finds no other, but for those that ended at midnight, a day early.
LEMMA AskFindsNoOther ==
    ASSUME TypeOK, NEW a \in Finished, now % DayLength = AskHour
    PROVE  a \in Appts /\ AskedToday(a)
<1>1. a \in Appts /\ EndOf[a] \in Yesterday /\ now \in Nat
  BY ReminderAssumption DEF Finished, TypeOK
<1>2. PICK q \in Nat, e \in Nat :
         /\ e = EndOf[a] /\ q * DayLength <= e /\ e < q * DayLength + DayLength
         /\ Opens("reviews", a) = q * DayLength + DayLength + AskHour
         /\ TwiceYesterday(a) <=> e = q * DayLength
  BY <1>1, AskTime
<1>3. PICK m \in Nat : now = m * DayLength + AskHour /\ now - (now % DayLength) = m * DayLength
  BY <1>1, AskDay
<1>4. DayLength \in Nat \ {0} /\ AskHour \in 0 .. DayLength - 1
  BY ReminderAssumption
<1>5. PICK x \in Nat, y \in Nat : x = q * DayLength /\ y = m * DayLength
  BY <1>4
<1>6. y - DayLength <= e /\ e <= y
  BY <1>1, <1>2, <1>3, <1>4, <1>5 DEF Yesterday
<1>7. CASE m <= q - 1
  <2>1. m * DayLength <= (q - 1) * DayLength
    BY <1>4, <1>7, MultMono
  <2>2. (q - 1) * DayLength = x - DayLength
    BY <1>4, <1>5
  <2> QED
    BY <1>2, <1>4, <1>5, <1>6, <2>1, <2>2
<1>8. CASE m = q
  BY <1>1, <1>2, <1>3, <1>4, <1>5, <1>6, <1>8 DEF AskedToday
<1>9. CASE m = q + 1
  <2>1. y = x + DayLength
    BY <1>4, <1>5, <1>9
  <2> QED
    BY <1>1, <1>2, <1>3, <1>5, <2>1 DEF AskedToday
<1>10. CASE m >= q + 2
  <2>1. (q + 2) * DayLength <= m * DayLength
    BY <1>4, <1>10, MultMono
  <2>2. (q + 2) * DayLength = x + DayLength + DayLength
    BY <1>4, <1>5
  <2> QED
    BY <1>2, <1>4, <1>5, <1>6, <2>1, <2>2
<1> QED
  BY <1>7, <1>8, <1>9, <1>10
(***************************************************************************)
(* Review requests                                                         *)
(***************************************************************************)
\* Beat enqueues the task when the time of a visit has come.
LEMMA AskIsSent ==
    ASSUME TypeOK, NEW sent \in SUBSET DueAt(now + 1), Tick(sent), "reviews" \notin late'
    PROVE  /\ now \in Nat /\ now' = now + 1 /\ "reviews" \notin late
           /\ \A j \in queue : j.task # "reviews"
           /\ \A w \in Workers : ~ Running(w, "reviews")
           /\ UNCHANGED <<status, run, mails, failures>>
           /\ \A j \in queue' : j.task = "reviews" => j = [task |-> "reviews", at |-> now + 1, tries |-> 0]
           /\ (now + 1) % DayLength = AskHour => \E j \in queue' : j.task = "reviews"
           /\ steady'["reviews"] = steady["reviews"] \cup
                {a \in Appts : status[a] = "COMPLETED" /\ Opens("reviews", a) = now + 1}
<1>1. "reviews" \in Tasks /\ "reviews" \notin Kinds
  BY ReminderAssumption DEF Tasks
<1>2. now \in Nat /\ now' = now + 1 /\ UNCHANGED <<status, run, mails, failures>>
  BY ReminderAssumption DEF Tick, TypeOK
<1>3. /\ "reviews" \notin late
      /\ \A j \in queue : j.task # "reviews"
      /\ \A w \in Workers : ~ Running(w, "reviews")
      /\ "reviews" \in DueAt(now + 1) => "reviews" \in sent
  BY <1>1 DEF Tick
<1>4. queue' = queue \cup {[task |-> t, at |-> now + 1, tries |-> 0] : t \in sent}
  BY DEF Tick
<1>5. \A j \in queue' : j.task = "reviews" => j = [task |-> "reviews", at |-> now + 1, tries |-> 0]
  BY <1>3, <1>4
<1>6. "reviews" \in sent => \E j \in queue' : j.task = "reviews"
  <2> DEFINE j == [task |-> "reviews", at |-> now + 1, tries |-> 0]
  <2>1. "reviews" \in sent => j \in queue' /\ j.task = "reviews"
    BY <1>4
  <2> HIDE DEF j
  <2> QED
    BY <2>1
<1>7. (now + 1) % DayLength = AskHour => "reviews" \in DueAt(now + 1)
  BY DEF DueAt
<1>8. steady'["reviews"] = steady["reviews"] \cup
        {a \in Appts : status[a] = "COMPLETED" /\ Opens("reviews", a) = now + 1}
  BY <1>1 DEF Tick, Wanted
<1> QED
  BY <1>2, <1>3, <1>5, <1>6, <1>7, <1>8

\* While the clock stands still, a visit in hand must not be dropped.
LEMMA AskUntouched ==
    ASSUME AskInv, NEW a \in steady["reviews"], "reviews" \notin late,
           UNCHANGED now, status'[a] = status[a],
           mails["reviews"][a] >= 1 => mails'["reviews"][a] >= 1,
           Opens("reviews", a) = now /\ AskInHand(a) =>
              mails'["reviews"][a] >= 1 \/ AskInHand(a)'
    PROVE  AskedFor(a)'
<1>1. AskedFor(a)
  BY DEF AskInv
<1> QED
  BY <1>1 DEF AskedFor, Opens

LEMMA AskStep == TypeOK /\ AskInv /\ [Next]_vars => AskInv'
<1> SUFFICES ASSUME TypeOK, AskInv, [Next]_vars, "reviews" \notin late', NEW a \in steady'["reviews"]
             PROVE  AskedFor(a)'
  BY DEF AskInv
<1>0. "reviews" \in Tasks /\ "reviews" \notin Kinds /\ steady["reviews"] \subseteq Appts
  BY ReminderAssumption DEF Tasks, TypeOK
<1>1. ASSUME NEW sent \in SUBSET DueAt(now + 1), Tick(sent)
      PROVE  AskedFor(a)'
  <2>1. CASE a \in steady["reviews"]
    <3>1. AskedFor(a) /\ ~ AskInHand(a)
      BY <1>1, <2>1, AskIsSent DEF AskInv, AskInHand
    <3>2. PICK o \in Nat : o = Opens("reviews", a)
      <4>1. a \in Appts
        BY <1>0, <2>1
      <4> QED
        BY <4>1, AskTime, ReminderAssumption DEF Opens
    <3>3. o <= now /\ status[a] = "COMPLETED" /\ mails["reviews"][a] >= 1
      BY <3>1, <3>2 DEF AskedFor
    <3>4. o <= now + 1
      BY <1>1, <3>3, AskIsSent
    <3> QED
      BY <1>1, <3>2, <3>3, <3>4, AskIsSent DEF AskedFor, Opens
  <2>2. CASE a \in Appts /\ status[a] = "COMPLETED" /\ Opens("reviews", a) = now + 1
    <3>1. (now + 1) % DayLength = AskHour
      BY <2>2, AskTime
    <3>2. now' = now + 1 /\ status' = status /\ AskInHand(a)'
      BY <1>1, <3>1, AskIsSent DEF AskInHand
    <3>3. now + 1 <= now + 1
      BY <1>1, AskIsSent
    <3> QED
      BY <2>2, <3>2, <3>3 DEF AskedFor, Opens
  <2> QED
    BY <1>1, <2>1, <2>2, AskIsSent
<1>2. ASSUME NEW x \in Appts, NEW s \in {"CONFIRMED", "COMPLETED", "OTHER"}, ChangeStatus(x, s)
      PROVE  AskedFor(a)'
  <2>1. UNCHANGED <<now, queue, run, mails, late>> /\ a \in steady["reviews"] /\ a # x
    BY <1>0, <1>2 DEF ChangeStatus
  <2>2. status'[a] = status[a]
    BY <1>0, <1>2, <2>1 DEF ChangeStatus, TypeOK
  <2>3. AskInHand(a)' <=> AskInHand(a)
    BY <2>1 DEF AskInHand, Running
  <2> QED
    BY <2>1, <2>2, <2>3, AskUntouched
<1>3. ASSUME NEW w \in Workers, NEW job \in queue, StartRun(w, job)
      PROVE  AskedFor(a)'
  <2>1. /\ run[w] = NoRun /\ run'[w] # NoRun /\ run'[w].job = job
        /\ run'[w].todo = IF job.task = "reviews" THEN Finished ELSE Upcoming(job.task)
        /\ \A v \in Workers \ {w} : run'[v] = run[v]
        /\ queue' = queue \ {job}
        /\ UNCHANGED <<now, status, steady, mails, late>>
    BY <1>3, StartEffect
  <2>2. a \in Appts /\ AskedFor(a)
    BY <1>0, <2>1 DEF AskInv
  <2>3. ASSUME Opens("reviews", a) = now, AskInHand(a)
        PROVE  AskInHand(a)'
    <3>1. CASE job.task = "reviews"
      <4>1. a \in Finished
        BY <2>2, <2>3, AskFindsVisit DEF AskedFor
      <4> QED
        BY <2>1, <3>1, <4>1 DEF AskInHand, Running
    <3>2. CASE job.task # "reviews"
      BY <2>1, <2>3, <3>2 DEF AskInHand, Running
    <3> QED
      BY <3>1, <3>2
  <2> QED
    BY <2>1, <2>3, AskUntouched
<1>4. ASSUME NEW w \in Workers, NEW x \in Appts, Send(w, x)
      PROVE  AskedFor(a)'
  <2>1. /\ run[w] # NoRun /\ x \in run[w].todo
        /\ \A v \in Workers \ {w} : run'[v] = run[v]
        /\ run'[w] # NoRun /\ run'[w].job = run[w].job
        /\ run'[w].todo = run[w].todo \ {x}
        /\ UNCHANGED <<now, status, steady, queue, late>>
    BY <1>4, SendEffect
  <2>2. a \in Appts
    BY <1>0, <2>1
  <2>3. PICK m \in Nat : m = mails["reviews"][a]
    BY <1>0, <2>2 DEF TypeOK
  <2>4. mails'["reviews"][a] = IF "reviews" = run[w].job.task /\ a = x THEN m + 1 ELSE m
    BY <1>0, <1>4, <2>2, <2>3, SendEffect
  <2>5. m >= 1 => mails'["reviews"][a] >= 1
    BY <2>4
  <2>6. AskInHand(a) => mails'["reviews"][a] >= 1 \/ AskInHand(a)'
    <3>1. CASE run[w].job.task = "reviews" /\ a = x
      BY <2>4, <3>1
    <3>2. CASE ~(run[w].job.task = "reviews" /\ a = x)
      BY <2>1, <3>2 DEF AskInHand, Running
    <3> QED
      BY <3>1, <3>2
  <2> QED
    BY <2>1, <2>3, <2>5, <2>6, AskUntouched
<1>5. ASSUME NEW w \in Workers, Commit(w)
      PROVE  AskedFor(a)'
  <2>1. /\ run[w] # NoRun /\ run[w].todo = {}
        /\ UNCHANGED <<now, status, steady, queue, mails, late>>
    BY <1>5 DEF Commit
  <2>2. run'[w] = NoRun /\ \A v \in Workers \ {w} : run'[v] = run[v]
    BY <1>5, EndEffect DEF Commit
  <2>3. AskInHand(a) => AskInHand(a)'
    BY <2>1, <2>2 DEF AskInHand, Running
  <2> QED
    BY <2>1, <2>3, AskUntouched
<1>6. ASSUME NEW w \in Workers, Fail(w) \/ Crash(w)
      PROVE  AskedFor(a)'
  <2>1. run[w] # NoRun /\ UNCHANGED <<now, status, steady, mails>>
    BY <1>6, AbortEffect
  <2>2. PICK again : /\ queue' = queue \cup again
                     /\ late' = IF again = {} THEN late \cup {run[w].job.task} ELSE late
                     /\ \A j \in again : j.task = run[w].job.task
    BY <1>6, AbortEffect
  <2>3. run'[w] = NoRun /\ \A v \in Workers \ {w} : run'[v] = run[v]
    BY <1>6, AbortEffect, EndEffect
  <2>4. AskInHand(a) => AskInHand(a)'
    <3>1. CASE Running(w, "reviews")
      <4>1. PICK j \in again : j.task = "reviews"
        BY <2>2, <3>1 DEF Running
      <4> QED
        BY <2>2, <4>1 DEF AskInHand
    <3>2. CASE ~ Running(w, "reviews")
      BY <2>2, <2>3, <3>2 DEF AskInHand, Running
    <3> QED
      BY <3>1, <3>2
  <2>5. "reviews" \notin late
    BY <2>2
  <2> QED
    BY <2>1, <2>4, <2>5, AskUntouched
<1>7. CASE UNCHANGED vars
  <2>1. AskInHand(a) => AskInHand(a)'
    BY <1>7 DEF vars, AskInHand, Running
  <2> QED
    BY <1>7, <2>1, AskUntouched DEF vars
<1> QED
  BY <1>1, <1>2, <1>3, <1>4, <1>5, <1>6, <1>7 DEF Next, Work

\* When beat and the workers are on time, every visit that was completed before the
\* review requests of the next day were sent is asked about.
THEOREM EveryVisitIsAsked == Spec => []EveryVisitIsAskedAbout
<1>1. Init => AskInv
  BY DEF Init, AskInv, Tasks
<1>2. TypeOK /\ AskInv => EveryVisitIsAskedAbout
  <2> SUFFICES ASSUME TypeOK, AskInv, "reviews" \notin late, NEW a \in steady["reviews"],
                      now > Closes("reviews", a)
               PROVE  mails["reviews"][a] >= 1
    BY DEF EveryVisitIsAskedAbout
  <2>1. AskedFor(a) /\ Closes("reviews", a) = Opens("reviews", a) /\ now \in Nat
    BY ReminderAssumption DEF AskInv, Closes, TypeOK
  <2> QED
    BY <2>1 DEF AskedFor
<1> QED
  BY <1>1, <1>2, TypeCorrect, AskStep, PTL DEF Spec
\* The number of days on which a visit has been yesterday's grows with the clock.
LEMMA BudgetGrows ==
    ASSUME TypeOK, NEW a \in Appts, now' = now + 1
    PROVE  /\ Budget(a) \in Nat /\ Budget(a)' \in Nat
           /\ Budget(a)' >= Budget(a) + (IF AskedToday(a)' THEN 1 ELSE 0)
<1>1. PICK n \in Nat : n = now
  BY ReminderAssumption DEF TypeOK
<1>2. DayLength \in Nat \ {0} /\ AskHour \in 0 .. DayLength - 1
  BY ReminderAssumption
<1>3. PICK o \in Nat : o = Opens("reviews", a)
  BY <1>2, AskTime
<1>4. now' = n + 1
  BY <1>1
<1>5. Budget(a) = (IF o <= n THEN 1 ELSE 0) + (IF TwiceYesterday(a) /\ o - DayLength <= n THEN 1 ELSE 0)
  BY <1>1, <1>3 DEF Budget
<1>6. Budget(a)' = (IF o <= n + 1 THEN 1 ELSE 0)
                      + (IF TwiceYesterday(a) /\ o - DayLength <= n + 1 THEN 1 ELSE 0)
  BY <1>3, <1>4 DEF Budget, Opens, TwiceYesterday
<1>7. AskedToday(a)' <=> (n + 1 = o \/ (TwiceYesterday(a) /\ n + 1 = o - DayLength))
  BY <1>3, <1>4 DEF AskedToday, Opens, TwiceYesterday
<1>8. CASE TwiceYesterday(a)
  BY <1>2, <1>5, <1>6, <1>7, <1>8 DEF TwiceYesterday
<1>9. CASE ~ TwiceYesterday(a)
  BY <1>2, <1>5, <1>6, <1>7, <1>9 DEF TwiceYesterday
<1> QED
  BY <1>8, <1>9

\* While the clock stands still, a request that is not awaited any more, or a failure,
\* pays for a mail.
LEMMA PaidForUntouched ==
    ASSUME TypeOK, NEW a \in Appts, PaidFor(a), UNCHANGED now,
           NEW m \in Nat, mails'["reviews"][a] = m,
           NEW f \in Nat, failures'["reviews"] = f,
           \/ m = mails["reviews"][a] /\ f = failures["reviews"] /\ (Awaiting(a)' => Awaiting(a))
           \/ m = mails["reviews"][a] + 1 /\ f = failures["reviews"] /\ Awaiting(a) /\ ~ Awaiting(a)'
           \/ m = mails["reviews"][a] /\ f = failures["reviews"] + 1
    PROVE  PaidFor(a)'
<1>1. "reviews" \in Tasks
  BY DEF Tasks
<1>2. PICK m0 \in Nat, f0 \in Nat : m0 = mails["reviews"][a] /\ f0 = failures["reviews"]
  BY <1>1 DEF TypeOK
<1>3. PICK b \in Nat : b = Budget(a)
  BY DEF Budget
<1>4. Budget(a)' = b
  BY <1>3 DEF Budget, Opens, TwiceYesterday
<1>5. m0 + (IF Awaiting(a) THEN 1 ELSE 0) <= f0 + b
  BY <1>2, <1>3 DEF PaidFor
<1>6. m + (IF Awaiting(a)' THEN 1 ELSE 0) <= f + b
  <2>1. CASE Awaiting(a)
    BY <1>2, <1>5, <2>1
  <2>2. CASE ~ Awaiting(a)
    BY <1>2, <1>5, <2>2
  <2> QED
    BY <2>1, <2>2
<1> QED
  BY <1>4, <1>6 DEF PaidFor

\* A run for the review requests is on the day beat enqueued it.
LEMMA RunsToday ==
    ASSUME TypeOK, OneAsk, NEW j \in queue, j.task = "reviews"
    PROVE  now % DayLength = AskHour
<1>1. j.task \in DueAt(j.at) /\ j.at = now /\ "reviews" \notin Kinds
  BY ReminderAssumption DEF TypeOK, OneAsk
<1> QED
  BY <1>1 DEF DueAt

LEMMA OnceTick ==
    ASSUME TypeOK, OnceInv, NEW sent \in SUBSET DueAt(now + 1), Tick(sent), "reviews" \notin late'
    PROVE  OneAsk' /\ \A a \in Appts : PaidFor(a)'
<1>1. /\ now' = now + 1 /\ "reviews" \notin late
      /\ \A j \in queue : j.task # "reviews"
      /\ \A w \in Workers : ~ Running(w, "reviews")
      /\ UNCHANGED <<run, mails, failures>>
      /\ \A j \in queue' : j.task = "reviews" => j = [task |-> "reviews", at |-> now + 1, tries |-> 0]
  BY AskIsSent
<1>2. \A w \in Workers : ~ Running(w, "reviews")'
  BY <1>1 DEF Running
<1>3. OneAsk'
  <2>1. \A j \in queue' : j.task = "reviews" => j.at = now'
    BY <1>1
  <2>2. \A i, j \in queue' : i.task = "reviews" /\ j.task = "reviews" => i = j
    BY <1>1
  <2> QED
    BY <1>2, <2>1, <2>2 DEF OneAsk
<1>4. ASSUME NEW a \in Appts
      PROVE  PaidFor(a)'
  <2>1. "reviews" \in Tasks
    BY DEF Tasks
  <2>2. PICK m \in Nat, f \in Nat : m = mails["reviews"][a] /\ f = failures["reviews"]
    BY <2>1 DEF TypeOK
  <2>3. PICK b \in Nat, c \in Nat : b = Budget(a) /\ c = Budget(a)'
    BY <1>1, BudgetGrows
  <2>4. m <= f + b
    <3>1. CASE Awaiting(a)
      BY <1>1, <2>2, <2>3, <3>1 DEF OnceInv, PaidFor
    <3>2. CASE ~ Awaiting(a)
      BY <1>1, <2>2, <2>3, <3>2 DEF OnceInv, PaidFor
    <3> QED
      BY <3>1, <3>2
  <2>5. Awaiting(a)' => AskedToday(a)'
    BY <1>2 DEF Awaiting
  <2>6. m + (IF Awaiting(a)' THEN 1 ELSE 0) <= f + c
    <3>1. c >= b + (IF AskedToday(a)' THEN 1 ELSE 0)
      BY <1>1, <2>3, BudgetGrows
    <3>2. CASE Awaiting(a)'
      BY <2>4, <2>5, <3>1, <3>2
    <3>3. CASE ~ Awaiting(a)'
      BY <2>4, <3>1, <3>3
    <3> QED
      BY <3>2, <3>3
  <2> QED
    BY <1>1, <2>2, <2>3, <2>6 DEF PaidFor
<1> QED
  BY <1>3, <1>4

LEMMA OnceStart ==
    ASSUME TypeOK, OnceInv, NEW w \in Workers, NEW job \in queue, StartRun(w, job),
           "reviews" \notin late'
    PROVE  OneAsk' /\ \A a \in Appts : PaidFor(a)'
<1>1. /\ run[w] = NoRun /\ run'[w] # NoRun /\ run'[w].job = job
      /\ run'[w].todo = IF job.task = "reviews" THEN Finished ELSE Upcoming(job.task)
      /\ \A v \in Workers \ {w} : run'[v] = run[v]
      /\ queue' = queue \ {job}
      /\ UNCHANGED <<now, mails, failures, late>>
  BY StartEffect
<1>2. OneAsk /\ \A a \in Appts : PaidFor(a)
  BY <1>1 DEF OnceInv
<1>3. \A v \in Workers : Running(v, "reviews")' <=>
         IF v = w THEN job.task = "reviews" ELSE Running(v, "reviews")
  BY <1>1 DEF Running
<1>4. OneAsk'
  <2>1. \A i, j \in queue' : i.task = "reviews" /\ j.task = "reviews" => i = j
    BY <1>1, <1>2 DEF OneAsk
  <2>2. \A u, v \in Workers : Running(u, "reviews")' /\ Running(v, "reviews")' => u = v
    BY <1>2, <1>3 DEF OneAsk
  <2>3. \A j \in queue', v \in Workers : j.task = "reviews" => ~ Running(v, "reviews")'
    BY <1>1, <1>2, <1>3 DEF OneAsk
  <2>4. \A j \in queue' : j.task = "reviews" => j.at = now'
    BY <1>1, <1>2 DEF OneAsk
  <2>5. \A v \in Workers : Running(v, "reviews")' => run'[v].job.at = now'
    BY <1>1, <1>2, <1>3 DEF OneAsk
  <2> QED
    BY <2>1, <2>2, <2>3, <2>4, <2>5 DEF OneAsk
<1>5. ASSUME NEW a \in Appts
      PROVE  PaidFor(a)'
  <2>1. Awaiting(a)' => Awaiting(a)
    <3>1. AskedToday(a)' <=> AskedToday(a)
      BY <1>1 DEF AskedToday, Opens, TwiceYesterday
    <3>2. CASE job.task = "reviews"
      <4>1. a \in Finished => AskedToday(a)
        BY <1>2, <3>2, RunsToday, AskFindsNoOther
      <4> QED
        BY <1>1, <1>3, <3>1, <3>2, <4>1 DEF Awaiting
    <3>3. CASE job.task # "reviews"
      BY <1>1, <1>3, <3>1, <3>3 DEF Awaiting
    <3> QED
      BY <3>2, <3>3
  <2>2. "reviews" \in Tasks
    BY DEF Tasks
  <2>3. mails["reviews"][a] \in Nat /\ failures["reviews"] \in Nat
    BY <2>2 DEF TypeOK
  <2> QED
    BY <1>1, <1>2, <2>1, <2>3, PaidForUntouched
<1> QED
  BY <1>4, <1>5

LEMMA OnceSend ==
    ASSUME TypeOK, OnceInv, NEW w \in Workers, NEW x \in Appts, Send(w, x), "reviews" \notin late'
    PROVE  OneAsk' /\ \A a \in Appts : PaidFor(a)'
<1>1. /\ run[w] # NoRun /\ x \in run[w].todo
      /\ \A v \in Workers \ {w} : run'[v] = run[v]
      /\ run'[w] # NoRun /\ run'[w].job = run[w].job
      /\ run'[w].todo = run[w].todo \ {x}
      /\ UNCHANGED <<now, queue, failures, late>>
  BY SendEffect
<1>2. OneAsk /\ \A a \in Appts : PaidFor(a)
  BY <1>1 DEF OnceInv
<1>3. \A v \in Workers : /\ Running(v, "reviews")' <=> Running(v, "reviews")
                         /\ run'[v].job = run[v].job
  BY <1>1 DEF Running
<1>4. OneAsk'
  BY <1>1, <1>2, <1>3 DEF OneAsk
<1>5. ASSUME NEW a \in Appts
      PROVE  PaidFor(a)'
  <2>1. "reviews" \in Tasks
    BY DEF Tasks
  <2>2. PICK m \in Nat : m = mails["reviews"][a]
    BY <2>1 DEF TypeOK
  <2>3. failures["reviews"] \in Nat
    BY <2>1 DEF TypeOK
  <2>4. mails'["reviews"][a] = IF "reviews" = run[w].job.task /\ a = x THEN m + 1 ELSE m
    BY <2>1, <2>2, SendEffect
  <2>5. AskedToday(a)' <=> AskedToday(a)
    BY <1>1 DEF AskedToday, Opens, TwiceYesterday
  <2>6. CASE "reviews" = run[w].job.task /\ a = x
    <3>1. Running(w, "reviews")
      BY <1>1, <2>6 DEF Running
    <3>2. Awaiting(a)
      BY <1>1, <2>6, <3>1 DEF Awaiting
    <3>3. ~ Awaiting(a)'
      BY <1>1, <1>2, <1>3, <2>6, <3>1 DEF Awaiting, OneAsk
    <3> QED
      BY <1>1, <1>2, <2>2, <2>3, <2>4, <2>6, <3>2, <3>3, PaidForUntouched
  <2>7. CASE ~("reviews" = run[w].job.task /\ a = x)
    <3>1. Awaiting(a)' => Awaiting(a)
      BY <1>1, <1>3, <2>5 DEF Awaiting
    <3> QED
      BY <1>1, <1>2, <2>2, <2>3, <2>4, <2>7, <3>1, PaidForUntouched
  <2> QED
    BY <2>6, <2>7
<1> QED
  BY <1>4, <1>5

LEMMA OnceCommit ==
    ASSUME TypeOK, OnceInv, NEW w \in Workers, Commit(w), "reviews" \notin late'
    PROVE  OneAsk' /\ \A a \in Appts : PaidFor(a)'
<1>1. UNCHANGED <<now, queue, mails, failures, late>>
  BY DEF Commit
<1>2. run'[w] = NoRun /\ \A v \in Workers \ {w} : run'[v] = run[v]
  BY EndEffect DEF Commit
<1>3. OneAsk /\ \A a \in Appts : PaidFor(a)
  BY <1>1 DEF OnceInv
<1>4. \A v \in Workers : Running(v, "reviews")' => Running(v, "reviews") /\ run'[v] = run[v]
  BY <1>2 DEF Running
<1>5. OneAsk'
  BY <1>1, <1>3, <1>4 DEF OneAsk
<1>6. ASSUME NEW a \in Appts
      PROVE  PaidFor(a)'
  <2>1. AskedToday(a)' <=> AskedToday(a)
    BY <1>1 DEF AskedToday, Opens, TwiceYesterday
  <2>2. Awaiting(a)' => Awaiting(a)
    BY <1>1, <1>4, <2>1 DEF Awaiting
  <2>3. "reviews" \in Tasks
    BY DEF Tasks
  <2>4. mails["reviews"][a] \in Nat /\ failures["reviews"] \in Nat
    BY <2>3 DEF TypeOK
  <2> QED
    BY <1>1, <1>3, <2>2, <2>4, PaidForUntouched
<1> QED
  BY <1>5, <1>6

LEMMA OnceAbort ==
    ASSUME TypeOK, OnceInv, NEW w \in Workers, Fail(w) \/ Crash(w), "reviews" \notin late'
    PROVE  OneAsk' /\ \A a \in Appts : PaidFor(a)'
<1>1. /\ run[w] # NoRun /\ UNCHANGED <<now, mails>>
      /\ failures' = [failures EXCEPT ![run[w].job.task] = @ + 1]
  BY AbortEffect
<1>2. PICK again : /\ queue' = queue \cup again
                   /\ late' = IF again = {} THEN late \cup {run[w].job.task} ELSE late
                   /\ \A j \in again : j.task = run[w].job.task /\ j.at = run[w].job.at
                   /\ \A i, j \in again : i = j
  <2> DEFINE job == run[w].job
             next == [task |-> job.task, at |-> job.at, tries |-> job.tries + 1]
  <2>1. PICK again : Abort(w, again) /\ (again = {} \/ again = {job} \/ again = {next})
    BY DEF Fail, Crash
  <2>2. next.task = job.task /\ next.at = job.at
    OBVIOUS
  <2> HIDE DEF next, job
  <2>3. \A j \in again : j.task = job.task /\ j.at = job.at
    BY <2>1, <2>2
  <2>4. \A i, j \in again : i = j
    BY <2>1
  <2>5. queue' = queue \cup again /\ late' = IF again = {} THEN late \cup {job.task} ELSE late
    BY <2>1 DEF Abort, job
  <2> QED
    BY <2>3, <2>4, <2>5 DEF job
<1>3. run'[w] = NoRun /\ \A v \in Workers \ {w} : run'[v] = run[v]
  BY AbortEffect, EndEffect
<1>4. "reviews" \notin late /\ OneAsk /\ \A a \in Appts : PaidFor(a)
  BY <1>2 DEF OnceInv
<1>5. \A v \in Workers : Running(v, "reviews")' => v # w /\ Running(v, "reviews") /\ run'[v] = run[v]
  BY <1>3 DEF Running
<1>6. (\E j \in again : j.task = "reviews") => Running(w, "reviews")
  BY <1>1, <1>2 DEF Running
<1>7. OneAsk'
  <2>1. \A i, j \in queue' : i.task = "reviews" /\ j.task = "reviews" => i = j
    BY <1>2, <1>4, <1>6 DEF OneAsk
  <2>2. \A u, v \in Workers : Running(u, "reviews")' /\ Running(v, "reviews")' => u = v
    BY <1>4, <1>5 DEF OneAsk
  <2>3. \A j \in queue', v \in Workers : j.task = "reviews" => ~ Running(v, "reviews")'
    BY <1>2, <1>4, <1>5, <1>6 DEF OneAsk
  <2>4. \A j \in queue' : j.task = "reviews" => j.at = now'
    BY <1>1, <1>2, <1>4, <1>6 DEF OneAsk
  <2>5. \A v \in Workers : Running(v, "reviews")' => run'[v].job.at = now'
    BY <1>1, <1>4, <1>5 DEF OneAsk
  <2> QED
    BY <2>1, <2>2, <2>3, <2>4, <2>5 DEF OneAsk
<1>8. ASSUME NEW a \in Appts
      PROVE  PaidFor(a)'
  <2>1. "reviews" \in Tasks
    BY DEF Tasks
  <2>2. mails["reviews"][a] \in Nat
    BY <2>1 DEF TypeOK
  <2>3. PICK f \in Nat : f = failures["reviews"]
    BY <2>1 DEF TypeOK
  <2>4. CASE Running(w, "reviews")
    <3>1. failures'["reviews"] = f + 1
      BY <1>1, <2>1, <2>3, <2>4 DEF TypeOK, Running
    <3> QED
      BY <1>1, <1>4, <2>2, <2>3, <3>1, PaidForUntouched
  <2>5. CASE ~ Running(w, "reviews")
    <3>1. failures'["reviews"] = f
      BY <1>1, <2>1, <2>3, <2>5 DEF TypeOK, Running
    <3>2. AskedToday(a)' <=> AskedToday(a)
      BY <1>1 DEF AskedToday, Opens, TwiceYesterday
    <3>3. Awaiting(a)' => Awaiting(a)
      BY <1>2, <1>5, <1>6, <2>5, <3>2 DEF Awaiting
    <3> QED
      BY <1>1, <1>4, <2>2, <2>3, <3>1, <3>3, PaidForUntouched
  <2> QED
    BY <2>4, <2>5
<1> QED
  BY <1>7, <1>8

LEMMA OnceStep == TypeOK /\ OnceInv /\ [Next]_vars => OnceInv'
<1> SUFFICES ASSUME TypeOK, OnceInv, [Next]_vars, "reviews" \notin late'
             PROVE  OneAsk' /\ \A a \in Appts : PaidFor(a)'
  BY DEF OnceInv
<1>1. ASSUME UNCHANGED <<now, queue, run, mails, failures, late>>
      PROVE  OneAsk' /\ \A a \in Appts : PaidFor(a)'
  BY <1>1 DEF OnceInv, OneAsk, PaidFor, Awaiting, AskedToday, Budget, Running, Opens, TwiceYesterday
<1>2. ASSUME NEW x \in Appts, NEW s \in {"CONFIRMED", "COMPLETED", "OTHER"}, ChangeStatus(x, s)
      PROVE  OneAsk' /\ \A a \in Appts : PaidFor(a)'
  BY <1>1, <1>2 DEF ChangeStatus
<1>3. CASE UNCHANGED vars
  BY <1>1, <1>3 DEF vars
<1> QED
  BY <1>2, <1>3, OnceTick, OnceStart, OnceSend, OnceCommit, OnceAbort DEF Next, Work

\* While beat and the workers are on time, the date keeps the review requests of a visit
\* apart: one, or two for a visit that ended at midnight, and one more for every run
\* that failed.
THEOREM RequestedOnce == Spec => []OneRequestPerVisit
<1>1. Init => OnceInv
  <2> SUFFICES ASSUME Init PROVE OneAsk /\ \A a \in Appts : PaidFor(a)
    BY DEF OnceInv
  <2>1. queue = {} /\ now = 0 /\ \A w \in Workers : ~ Running(w, "reviews")
    BY DEF Init, Running
  <2>2. OneAsk
    BY <2>1 DEF OneAsk
  <2>3. ASSUME NEW a \in Appts
        PROVE  PaidFor(a)
    <3>1. ~ Awaiting(a) /\ mails["reviews"][a] = 0 /\ failures["reviews"] = 0
      BY <2>1 DEF Init, Awaiting, Tasks
    <3>2. PICK b \in Nat : b = Budget(a)
      BY DEF Budget
    <3> QED
      BY <3>1, <3>2 DEF PaidFor
  <2> QED
    BY <2>2, <2>3
<1>2. TypeOK /\ OnceInv => OneRequestPerVisit
  <2> SUFFICES ASSUME TypeOK, OnceInv, "reviews" \notin late, NEW a \in Appts
               PROVE  mails["reviews"][a] <=
                         failures["reviews"] + IF EndOf[a] % DayLength = 0 THEN 2 ELSE 1
    BY DEF OneRequestPerVisit
  <2>1. "reviews" \in Tasks
    BY DEF Tasks
  <2>2. PICK m \in Nat, f \in Nat : m = mails["reviews"][a] /\ f = failures["reviews"]
    BY <2>1 DEF TypeOK
  <2>3. PICK b \in Nat : b = Budget(a)
    BY DEF Budget
  <2>4. m <= f + b
    <3>1. CASE Awaiting(a)
      BY <2>2, <2>3, <3>1 DEF OnceInv, PaidFor
    <3>2. CASE ~ Awaiting(a)
      BY <2>2, <2>3, <3>2 DEF OnceInv, PaidFor
    <3> QED
      BY <3>1, <3>2
  <2>5. b <= IF EndOf[a] % DayLength = 0 THEN 2 ELSE 1
    BY <2>3 DEF Budget, TwiceYesterday
  <2> QED
    BY <2>2, <2>4, <2>5
<1> QED
  BY <1>1, <1>2, TypeCorrect, OnceStep, PTL DEF Spec
=============================================================================
