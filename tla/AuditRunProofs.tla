------------------------------ MODULE AuditRunProofs ------------------------------
(***************************************************************************)
(* Proofs about the audit, for any number of audits, schedules, requests,  *)
(* processing slots, attempts, repeats and faults. The invariant says who  *)
(* a geo_audit row belongs to (a request, then one job and its run), and   *)
(* what a run at each query has already left in the tables for that row.   *)
(***************************************************************************)
EXTENDS AuditRun, TLAPS

-----------------------------------------------------------------------------
(* The invariant: whose a row is *)

\* a run that is going on holds the lock of its job, whose data names its row or none
JobsHeld ==
  \A w \in Workers :
    IF worker[w].pc = "idle" THEN worker[w].row = None
    ELSE /\ worker[w].job \in JobId
         /\ job[worker[w].job].state = "active" /\ job[worker[w].job].lock = w
         /\ job[worker[w].job].row \in {None, worker[w].row}

\* no two jobs name the same row, and one asked for by hand names its own
RowsOfJobs ==
  /\ \A j \in JobId : job[j].state = "none" => job[j] = NoJob
  /\ \A j \in JobId : job[j].row # None => audit[job[j].row] # "none"
  /\ \A j, k \in JobId : job[j].row # None /\ job[j].row = job[k].row => j = k
  /\ \A a \in Audits : job[Manual(a)].state # "none" => job[Manual(a)].row = a

\* nor do two runs, and a run shares its row with no job but its own
RowsOfRuns ==
  \A w \in Workers : worker[w].row # None =>
    /\ audit[worker[w].row] # "none"
    /\ \A j \in JobId : job[j].row = worker[w].row => j = worker[w].job
    /\ \A v \in Workers : worker[v].row = worker[w].row => v = w

\* the row of a request is a run's only through the job the request queued
RowsOfRequests ==
  \A r \in Requests :
    /\ req[r].row # None =>
         /\ audit[req[r].row] # "none"
         /\ \A j \in JobId : job[j].row = req[r].row => j = Manual(req[r].row)
         /\ \A w \in Workers : worker[w].row = req[r].row => worker[w].job = Manual(req[r].row)
         /\ \A q \in Requests : req[q].row = req[r].row => q = r
    /\ req[r].pc \in {"enqueue", "mark"} =>
         /\ req[r].row # None /\ audit[req[r].row] = "pending" /\ scores[req[r].row] = 0
         /\ job[Manual(req[r].row)].state = "none"

FreshRows == \A a \in Audits : audit[a] = "none" => scores[a] = 0

\* a repeat measures into a row of its own
RepeatsHaveOrigins ==
  /\ \A j \in JobId : IsRepeat(j) /\ job[j].state # "none"
       => audit[j[2]] # "none" /\ job[j].row # j[2]
  /\ \A w \in Workers : worker[w].pc # "idle" /\ IsRepeat(worker[w].job)
       => worker[w].row # worker[w].job[2]

Ownership == JobsHeld /\ RowsOfJobs /\ RowsOfRuns /\ RowsOfRequests /\ FreshRows /\ RepeatsHaveOrigins
-----------------------------------------------------------------------------
(* The invariant: what a run at a query has left behind *)

Before == {"insert", "update_data", "mark_running"}
Measuring == {"cap", "panel", "probe", "refuse", "score", "complete"}
Settling == {"plan", "enqueue", "record"}

\* a row whose scores all come from runs that were cut short
Spare(a) == scores[a] <= cut[a] /\ (audit[a] = "complete" => cut[a] > 0)
Paid(a) == a \in charged \/ a \in escaped

RowAtHand(w) ==
  /\ worker[w].pc = "insert" => worker[w].row = None
  /\ worker[w].pc \notin {"idle", "insert", "catch", "finish"} => worker[w].row # None
  /\ worker[w].pc = "finish" /\ worker[w].fails = "no" => worker[w].row # None
  /\ worker[w].pc = "update_data" => job[worker[w].job].row = None

FlagsAtHand(w) ==
  /\ worker[w].pc \in Before \cup Measuring \cup {"charge"} => worker[w].ready
  /\ worker[w].pc \notin {"idle", "catch", "finish"} => worker[w].fails = "no"
  /\ worker[w].pc = "catch" => worker[w].fails # "no"

StatusAtHand(w) ==
  /\ worker[w].pc = "update_data" => audit[worker[w].row] = "pending"
  /\ worker[w].pc \in Measuring \cup {"unrun"} => audit[worker[w].row] = "running"
  /\ worker[w].pc \in Settling /\ ~worker[w].ready => audit[worker[w].row] = "running"

ScoreAtHand(w) ==
  /\ worker[w].pc \in {"complete", "charge"} => scores[worker[w].row] > 0
  /\ worker[w].pc \in Settling /\ worker[w].ready => Paid(worker[w].row)
  /\ worker[w].pc = "finish" /\ worker[w].fails = "no" /\ audit[worker[w].row] = "complete"
       => Paid(worker[w].row)
  /\ worker[w].row # None /\ (worker[w].pc \notin {"complete", "charge", "finish"} \cup Settling
                                \/ ~worker[w].ready \/ worker[w].fails # "no")
       => Spare(worker[w].row)

RepeatAtHand(w) ==
  /\ worker[w].pc \in {"complete", "charge"} \cup Settling /\ worker[w].ready /\ worker[w].full
       => <<worker[w].job, worker[w].row>> \in comparable
  /\ worker[w].pc = "enqueue" => worker[w].next.status = "scheduled"
  /\ worker[w].pc \in {"enqueue", "record"} /\ worker[w].next.status = "scheduled"
       => worker[w].next.attempt \in 1 .. MaxRepeats
  /\ worker[w].pc = "record" /\ worker[w].next.status = "scheduled"
       => job[Repeat(Origin(w), worker[w].next.attempt)].state # "none"
  /\ worker[w].pc = "record" /\ worker[w].next.status = "recovered"
       => /\ IsRepeat(worker[w].job) /\ worker[w].next.attempt = worker[w].job[3]
          /\ <<worker[w].job, worker[w].row>> \in comparable

RunInv(w) == RowAtHand(w) /\ FlagsAtHand(w) /\ StatusAtHand(w) /\ ScoreAtHand(w) /\ RepeatAtHand(w)

HasRun(j) == \E w \in Workers : worker[w].pc # "idle" /\ worker[w].job = j
Naming(j) == \E w \in Workers : worker[w].pc = "update_data" /\ worker[w].job = j

\* what BullMQ runs again has no score but those of runs cut short; what it completed is paid
JobInv(j) ==
  /\ job[j].row # None /\ ~HasRun(j) /\ job[j].state \in {"waiting", "active"} => Spare(job[j].row)
  /\ job[j].row # None /\ job[j].state = "completed" /\ audit[job[j].row] = "complete"
       => Paid(job[j].row)

\* rows a job made that its data does not name
RowsInv(j) ==
  /\ rowsOf[j] <= 1 + unsaved[j]
  /\ job[j].row = None /\ ~Naming(j) => rowsOf[j] <= unsaved[j]

RetryInv ==
  /\ \A a \in Audits : retry[a].status = "scheduled" =>
       retry[a].attempt \in 1 .. MaxRepeats /\ job[Repeat(a, retry[a].attempt)].state # "none"
  /\ RecoveredIsMeasured

ChargedIsScored == \A a \in charged : scores[a] > 0

AInv ==
  /\ TypeOK /\ Ownership
  /\ \A w \in Workers : RunInv(w)
  /\ \A j \in JobId : JobInv(j)
  /\ \A j \in JobId : RowsInv(j)
  /\ RetryInv /\ ScoresExplained /\ ChargedIsScored

-----------------------------------------------------------------------------
(* Job ids *)

LEMMA JobKinds ==
  /\ \A a \in Audits : Manual(a) \in JobId /\ ~IsRepeat(Manual(a))
  /\ \A c \in Crons : Cron(c) \in JobId /\ ~IsRepeat(Cron(c)) /\ \A a \in Audits : Cron(c) # Manual(a)
  /\ \A a \in Audits, k \in 1 .. MaxRepeats :
       Repeat(a, k) \in JobId /\ IsRepeat(Repeat(a, k)) /\ Repeat(a, k)[2] = a
  /\ \A j \in JobId : IsRepeat(j) =>
       j[2] \in Audits /\ j[3] \in 1 .. MaxRepeats /\ j = Repeat(j[2], j[3])
  /\ \A a, b \in Audits : Manual(a) = Manual(b) => a = b
<1>1. \A a \in Audits : Manual(a) \in JobId /\ ~IsRepeat(Manual(a))
  BY DEF JobId, Manual, IsRepeat
<1>2. \A c \in Crons : Cron(c) \in JobId /\ ~IsRepeat(Cron(c)) /\ \A a \in Audits : Cron(c) # Manual(a)
  BY DEF JobId, Manual, IsRepeat, Cron
<1>3. \A a \in Audits, k \in 1 .. MaxRepeats :
       Repeat(a, k) \in JobId /\ IsRepeat(Repeat(a, k)) /\ Repeat(a, k)[2] = a
  BY DEF JobId, Repeat, IsRepeat
<1>4. ASSUME NEW j \in JobId, IsRepeat(j)
      PROVE  j[2] \in Audits /\ j[3] \in 1 .. MaxRepeats /\ j = Repeat(j[2], j[3])
  BY <1>4 DEF JobId, Repeat, IsRepeat, Manual, Cron
<1>5. \A a, b \in Audits : Manual(a) = Manual(b) => a = b
  BY DEF Manual
<1> QED BY <1>1, <1>2, <1>3, <1>4, <1>5

LEMMA NewAuditIsFresh == FreshAudit # {} => NewAudit \in Audits /\ audit[NewAudit] = "none"
BY DEF FreshAudit, NewAudit

-----------------------------------------------------------------------------
(* Types *)

LEMMA TypesInit == Init => TypeOK
<1> SUFFICES ASSUME Init PROVE TypeOK
  OBVIOUS
<1>1. job \in [JobId -> JobRec]
  BY DEF Init, NoJob, JobRec
<1>2. worker \in [Workers -> WorkerRec]
  BY DEF Init, IdleWorker, WorkerRec, WorkerPc, NoRetry, RetryState
<1>3. audit \in [Audits -> AuditStatus] /\ retry \in [Audits -> RetryState]
  BY DEF Init, AuditStatus, NoRetry, RetryState
<1>4. req \in [Requests -> [pc : ReqPc, row : Audits \cup {None}]]
  BY DEF Init, ReqPc
<1>5. faults \in 0 .. MaxFaults
  BY ConstantsAssumption DEF Init
<1> QED BY <1>1, <1>2, <1>3, <1>4, <1>5 DEF Init, TypeOK

LEMMA FaultTypes == TypeOK /\ Fault => faults' \in 0 .. MaxFaults
BY ConstantsAssumption DEF TypeOK, Fault

LEMMA GotoTypes ==
  ASSUME TypeOK, NEW w \in Workers, NEW pc \in WorkerPc, Goto(w, pc)
  PROVE  worker' \in [Workers -> WorkerRec]
<1>1. worker[w] \in WorkerRec /\ worker \in [Workers -> WorkerRec]
  BY DEF TypeOK
<1>2. [worker[w] EXCEPT !.pc = pc] \in WorkerRec
  BY <1>1 DEF WorkerRec
<1>3. worker' = [worker EXCEPT ![w] = [worker[w] EXCEPT !.pc = pc]]
  BY DEF Goto
<1> QED BY <1>1, <1>2, <1>3

LEMMA SetAuditTypes ==
  ASSUME TypeOK, NEW a, NEW s \in AuditStatus, SetAudit(a, s)
  PROVE  audit' \in [Audits -> AuditStatus]
BY DEF TypeOK, SetAudit

LEMMA AddTypes ==
  ASSUME TypeOK, NEW j, NEW a \in Audits \cup {None}, Add(j, a)
  PROVE  job' \in [JobId -> JobRec]
BY DEF TypeOK, Add, JobRec, NoJob

LEMMA CutShortTypes ==
  ASSUME TypeOK, NEW w \in Workers, CutShort(w)
  PROVE  cut' \in [Audits -> Nat]
<1>1. cut \in [Audits -> Nat]
  BY DEF TypeOK
<1>2. \/ worker[w].row # None /\ cut' = [cut EXCEPT ![worker[w].row] = cut[worker[w].row] + 1]
      \/ cut' = cut
  BY DEF CutShort
<1>3. CASE worker[w].row # None /\ cut' = [cut EXCEPT ![worker[w].row] = cut[worker[w].row] + 1]
  <2>1. worker[w].row \in Audits
    BY <1>3 DEF TypeOK, WorkerRec
  <2>2. cut[worker[w].row] + 1 \in Nat
    BY <1>1, <2>1
  <2> QED BY <1>1, <1>3, <2>1, <2>2
<1> QED BY <1>1, <1>2, <1>3

LEMMA CronTypes ==
  ASSUME TypeOK, NEW c \in Crons, CronFires(c)
  PROVE  TypeOK'
<1>1. job' \in [JobId -> JobRec]
  BY AddTypes DEF CronFires
<1> QED BY <1>1 DEF CronFires, TypeOK, tables, history

LEMMA AskTypes ==
  ASSUME TypeOK, NEW r \in Requests, NEW pc \in ReqPc, AskAt(r, pc)
  PROVE  req' \in [Requests -> [pc : ReqPc, row : Audits \cup {None}]]
BY DEF TypeOK, AskAt

\* What a request does keeps the types.
LEMMA RequestTypes ==
  ASSUME TypeOK, NEW r \in Requests, RequestChecks(r) \/ RequestStep(r) \/ RequestDies(r)
  PROVE  TypeOK'
<1>2. CASE RequestChecks(r)
  BY <1>2, AskTypes DEF RequestChecks, TypeOK, tables, history, ReqPc
<1>7. CASE RequestWindow(r)
  BY <1>7, AskTypes DEF RequestWindow, TypeOK, tables, history, ReqPc
<1>8. CASE RequestMonth(r)
  <2>1. req' \in [Requests -> [pc : ReqPc, row : Audits \cup {None}]]
    BY <1>8, AskTypes DEF RequestMonth, ReqPc
  <2>2. faults' \in 0 .. MaxFaults
    BY <1>8, FaultTypes DEF RequestMonth, TypeOK
  <2> QED BY <1>8, <2>1, <2>2 DEF RequestMonth, TypeOK, tables, history
<1>3. CASE RequestInserts(r)
  <2>1. NewAudit \in Audits
    BY <1>3, NewAuditIsFresh DEF RequestInserts
  <2>2. audit' \in [Audits -> AuditStatus]
    BY <1>3, SetAuditTypes DEF RequestInserts, AuditStatus
  <2>3. req' \in [Requests -> [pc : ReqPc, row : Audits \cup {None}]]
    BY <1>3, <2>1 DEF RequestInserts, TypeOK, ReqPc
  <2> QED BY <1>3, <2>2, <2>3 DEF RequestInserts, TypeOK, history
<1>4. CASE RequestEnqueues(r)
  <2>1. req[r].row \in Audits \cup {None}
    BY DEF TypeOK
  <2>2. req' \in [Requests -> [pc : ReqPc, row : Audits \cup {None}]]
    BY <1>4 DEF RequestEnqueues, TypeOK, ReqPc
  <2>3. job' \in [JobId -> JobRec] /\ faults' \in 0 .. MaxFaults
    BY <1>4, <2>1, AddTypes, FaultTypes DEF RequestEnqueues, TypeOK
  <2> QED BY <1>4, <2>2, <2>3 DEF RequestEnqueues, TypeOK, tables, history
<1>5. CASE RequestMarks(r)
  <2>1. audit' \in [Audits -> AuditStatus]
    BY <1>5, SetAuditTypes DEF RequestMarks, AuditStatus
  <2>2. req' \in [Requests -> [pc : ReqPc, row : Audits \cup {None}]]
    BY <1>5 DEF RequestMarks, TypeOK, ReqPc
  <2> QED BY <1>5, <2>1, <2>2 DEF RequestMarks, TypeOK, history
<1>6. CASE RequestDies(r)
  <2>1. req' \in [Requests -> [pc : ReqPc, row : Audits \cup {None}]]
    BY <1>6 DEF RequestDies, TypeOK, ReqPc
  <2>2. lost' \subseteq Audits
    BY <1>6 DEF RequestDies, TypeOK
  <2>3. faults' \in 0 .. MaxFaults
    BY <1>6, FaultTypes DEF RequestDies
  <2> QED BY <1>6, <2>1, <2>2, <2>3 DEF RequestDies, TypeOK, tables
<1> QED BY <1>2, <1>3, <1>4, <1>5, <1>6, <1>7, <1>8 DEF RequestStep

\* What the queue does to a run keeps the types.
LEMMA QueueTypes ==
  ASSUME TypeOK, JobsHeld, NEW w \in Workers, NEW j \in JobId, Take(w, j) \/ Finish(w)
  PROVE  TypeOK'
<1>1. CASE Take(w, j)
  <2>1. job[j].row \in Audits \cup {None}
    BY DEF TypeOK, JobRec
  <2>2. worker' \in [Workers -> WorkerRec]
    BY <1>1, <2>1 DEF Take, TypeOK, IdleWorker, WorkerRec, WorkerPc, NoRetry, RetryState
  <2>3. job' \in [JobId -> JobRec]
    <3>1. [job[j] EXCEPT !.state = "active", !.lock = w] \in JobRec
      <4>1. job[j] \in JobRec
        BY DEF TypeOK
      <4> QED BY <4>1 DEF JobRec
    <3>2. job' = [job EXCEPT ![j] = [job[j] EXCEPT !.state = "active", !.lock = w]]
      BY <1>1 DEF Take, TypeOK
    <3> QED BY <3>1, <3>2 DEF TypeOK
  <2> QED BY <1>1, <2>2, <2>3 DEF Take, TypeOK, tables, history
<1>2. CASE Finish(w)
  <2>1. worker' \in [Workers -> WorkerRec]
    BY <1>2 DEF Finish, TypeOK, IdleWorker, WorkerRec, WorkerPc, NoRetry, RetryState
  <2>2. job' \in [JobId -> JobRec]
    <3> DEFINE k == worker[w].job
    <3>1. k \in JobId /\ job[k] \in JobRec
      BY <1>2 DEF JobsHeld, Finish, TypeOK
    <3>2. job[k].attempts + 1 \in Nat
      BY <3>1 DEF JobRec
    <3>3. PICK n \in Nat, s \in {"completed", "waiting", "failed"} :
            job' = [job EXCEPT ![k].lock = None, ![k].attempts = n, ![k].state = s]
      BY <1>2, <3>2 DEF Finish
    <3>4. [job[k] EXCEPT !.lock = None, !.attempts = n, !.state = s] \in JobRec
      BY <3>1 DEF JobRec
    <3>5. job' = [job EXCEPT ![k] = [job[k] EXCEPT !.lock = None, !.attempts = n, !.state = s]]
      BY <3>1, <3>3 DEF TypeOK
    <3> QED BY <3>1, <3>4, <3>5 DEF TypeOK
  <2> QED BY <1>2, <2>1, <2>2 DEF Finish, TypeOK, tables, history
<1> QED BY <1>1, <1>2

LEMMA StalledTypes ==
  ASSUME TypeOK, NEW j \in JobId, StalledCheck(j)
  PROVE  TypeOK'
<1>1. job[j] \in JobRec /\ job \in [JobId -> JobRec] /\ lost \subseteq Audits
  BY DEF TypeOK
<1>2. job' \in [JobId -> JobRec] /\ lost' \subseteq Audits
  BY <1>1 DEF StalledCheck, JobRec
<1> QED BY <1>2 DEF StalledCheck, TypeOK, tables

\* The queries of a run up to its score keep the types.
LEMMA MeasuringTypes ==
  ASSUME TypeOK, JobsHeld, NEW w \in Workers, RowAtHand(w),
         \/ InsertRow(w) \/ UpdateData(w) \/ MarkRunning(w) \/ CheckCap(w) \/ CheckPanel(w)
         \/ Probe(w) \/ Refuse(w) \/ WriteScore(w)
  PROVE  TypeOK'
<1>t. worker \in [Workers -> WorkerRec] /\ worker[w] \in WorkerRec
  BY DEF TypeOK
<1>1. CASE InsertRow(w)
  <2>1. NewAudit \in Audits /\ worker[w].job \in JobId
    BY <1>1, NewAuditIsFresh DEF InsertRow, JobsHeld
  <2>2. audit' \in [Audits -> AuditStatus]
    BY <1>1, SetAuditTypes DEF InsertRow, AuditStatus
  <2>3. [worker[w] EXCEPT !.pc = "update_data", !.row = NewAudit] \in WorkerRec
    BY <1>t, <2>1 DEF WorkerRec, WorkerPc
  <2>4. worker' \in [Workers -> WorkerRec]
    BY <1>t, <1>1, <2>3 DEF InsertRow
  <2>5. rowsOf' \in [JobId -> Nat]
    BY <1>1, <2>1 DEF InsertRow, TypeOK
  <2> QED BY <1>1, <2>2, <2>4, <2>5 DEF InsertRow, TypeOK
<1>2. CASE UpdateData(w)
  <2>1. worker[w].job \in JobId /\ worker[w].row \in Audits \cup {None}
    BY <1>2, <1>t DEF UpdateData, JobsHeld, WorkerRec
  <2>2. PICK still \in BOOLEAN :
          worker' = [worker EXCEPT ![w] = [@ EXCEPT !.pc = "mark_running", !.scheduled = still]]
    BY <1>2 DEF UpdateData
  <2>3. [worker[w] EXCEPT !.pc = "mark_running", !.scheduled = still] \in WorkerRec
    BY <1>t DEF WorkerRec, WorkerPc
  <2>4. worker' \in [Workers -> WorkerRec]
    BY <1>t, <2>2, <2>3
  <2>5. job' \in [JobId -> JobRec]
    <3>1. job[worker[w].job] \in JobRec
      BY <2>1 DEF TypeOK
    <3>2. [job[worker[w].job] EXCEPT !.row = worker[w].row] \in JobRec
      BY <2>1, <3>1 DEF JobRec
    <3>3. job' = job \/ job' = [job EXCEPT ![worker[w].job] = [job[worker[w].job] EXCEPT !.row = worker[w].row]]
      BY <1>2 DEF UpdateData
    <3> QED BY <2>1, <3>2, <3>3 DEF TypeOK
  <2>6. unsaved' \in [JobId -> Nat]
    <3>1. unsaved \in [JobId -> Nat]
      BY DEF TypeOK
    <3>2. unsaved' = unsaved \/ unsaved' = [unsaved EXCEPT ![worker[w].job] = unsaved[worker[w].job] + 1]
      BY <1>2 DEF UpdateData
    <3> QED BY <2>1, <3>1, <3>2
  <2>7. faults' \in 0 .. MaxFaults
    BY <1>2, FaultTypes DEF UpdateData, TypeOK
  <2> QED BY <1>2, <2>4, <2>5, <2>6, <2>7 DEF UpdateData, TypeOK, tables
<1>3. CASE MarkRunning(w)
  <2>1. worker' \in [Workers -> WorkerRec]
    BY <1>3, GotoTypes DEF MarkRunning, AfterCap, WorkerPc
  <2>2. audit' \in [Audits -> AuditStatus]
    BY <1>3, SetAuditTypes DEF MarkRunning, AuditStatus
  <2> QED BY <1>3, <2>1, <2>2 DEF MarkRunning, TypeOK, history
<1>4. CASE CheckCap(w)
  <2>1. worker' \in [Workers -> WorkerRec]
    <3>1. [worker[w] EXCEPT !.pc = "unrun", !.ready = FALSE] \in WorkerRec
      BY <1>t DEF WorkerRec, WorkerPc
    <3>2. \/ worker' = [worker EXCEPT ![w] = [worker[w] EXCEPT !.pc = "unrun", !.ready = FALSE]]
          \/ Goto(w, AfterCap(w))
      BY <1>4 DEF CheckCap
    <3>3. AfterCap(w) \in WorkerPc
      BY DEF AfterCap, WorkerPc
    <3> QED BY <1>t, <3>1, <3>2, <3>3, GotoTypes
  <2>2. faults' \in 0 .. MaxFaults
    BY <1>4, FaultTypes DEF CheckCap, TypeOK
  <2> QED BY <1>4, <2>1, <2>2 DEF CheckCap, TypeOK, tables, history
<1>5. CASE CheckPanel(w)
  <2>1. [worker[w] EXCEPT !.pc = "plan", !.ready = FALSE, !.full = FALSE] \in WorkerRec
    BY <1>t DEF WorkerRec, WorkerPc
  <2>2. worker' \in [Workers -> WorkerRec]
    BY <1>t, <1>5, <2>1, GotoTypes DEF CheckPanel, WorkerPc
  <2> QED BY <1>5, <2>2 DEF CheckPanel, TypeOK, tables, history
<1>6. CASE Probe(w)
  <2>1. \A full \in BOOLEAN : [worker[w] EXCEPT !.pc = "score", !.full = full] \in WorkerRec
    BY <1>t DEF WorkerRec, WorkerPc
  <2>2. worker' \in [Workers -> WorkerRec]
    BY <1>t, <1>6, <2>1, GotoTypes DEF Probe, WorkerPc
  <2> QED BY <1>6, <2>2 DEF Probe, TypeOK, tables, history
<1>7. CASE Refuse(w)
  <2>1. [worker[w] EXCEPT !.pc = "catch", !.fails = "final"] \in WorkerRec
    BY <1>t DEF WorkerRec, WorkerPc
  <2>2. worker' \in [Workers -> WorkerRec] /\ audit' \in [Audits -> AuditStatus]
    BY <1>t, <1>7, <2>1, SetAuditTypes DEF Refuse, AuditStatus
  <2> QED BY <1>7, <2>2 DEF Refuse, TypeOK, history
<1>8. CASE WriteScore(w)
  <2>1. worker' \in [Workers -> WorkerRec]
    BY <1>8, GotoTypes DEF WriteScore, WorkerPc
  <2>2. worker[w].row \in Audits /\ worker[w].job \in JobId
    BY <1>8, <1>t DEF WriteScore, RowAtHand, WorkerRec, JobsHeld
  <2>3. scores' \in [Audits -> Nat]
    <3>1. scores \in [Audits -> Nat] /\ scores' = [scores EXCEPT ![worker[w].row] = scores[worker[w].row] + 1]
      BY <1>8 DEF TypeOK, WriteScore
    <3> QED BY <2>2, <3>1
  <2>4. comparable' \subseteq JobId \X Audits
    BY <1>8, <2>2 DEF WriteScore, TypeOK
  <2> QED BY <1>8, <2>1, <2>3, <2>4 DEF WriteScore, TypeOK
<1> QED BY <1>1, <1>2, <1>3, <1>4, <1>5, <1>6, <1>7, <1>8

\* And so do its queries afterwards.
LEMMA SettlingTypes ==
  ASSUME TypeOK, JobsHeld, NEW w \in Workers, RowAtHand(w),
         \/ Complete(w) \/ Charge(w) \/ Plan(w) \/ EnqueueRepeat(w) \/ RecordRepeat(w)
         \/ MarkUnrun(w) \/ MarkFailed(w) \/ CallFails(w) \/ Crash(w)
  PROVE  TypeOK'
<1>t. worker \in [Workers -> WorkerRec] /\ worker[w] \in WorkerRec
  BY DEF TypeOK
<1>a. worker[w].row # None => worker[w].row \in Audits
  BY <1>t DEF WorkerRec
<1>1. CASE Complete(w)
  <2>1. worker' \in [Workers -> WorkerRec] /\ audit' \in [Audits -> AuditStatus]
    BY <1>1, GotoTypes, SetAuditTypes DEF Complete, WorkerPc, AuditStatus
  <2> QED BY <1>1, <2>1 DEF Complete, TypeOK, history
<1>2. CASE Charge(w)
  <2>1. worker' \in [Workers -> WorkerRec] /\ worker[w].row \in Audits
    BY <1>2, <1>a, GotoTypes DEF Charge, WorkerPc, RowAtHand
  <2>2. charged' \subseteq Audits /\ escaped' \subseteq Audits /\ faults' \in 0 .. MaxFaults
    BY <1>2, <2>1, FaultTypes DEF Charge, TypeOK
  <2> QED BY <1>2, <2>1, <2>2 DEF Charge, TypeOK
<1>3. CASE Plan(w)
  <2>1. worker[w].job \in JobId
    BY <1>3 DEF Plan, JobsHeld
  <2>2. AttemptsUsed(worker[w].job) \in Nat
    BY <2>1, JobKinds DEF AttemptsUsed
  <2>3. PICK used \in Nat : used = AttemptsUsed(worker[w].job)
    BY <2>2
  <2>4. AfterPlan(w) \in WorkerPc
    BY DEF AfterPlan, WorkerPc
  <2> DEFINE Recorded(pc, s, k) == [worker[w] EXCEPT !.pc = pc, !.next = [status |-> s, attempt |-> k]]
  <2>5. /\ Recorded("record", "recovered", used) \in WorkerRec
        /\ Recorded("enqueue", "scheduled", used + 1) \in WorkerRec
        /\ Recorded("record", "exhausted", used) \in WorkerRec
    <3>1. \A k \in Nat, s \in {"scheduled", "exhausted", "recovered"} :
            [status |-> s, attempt |-> k] \in RetryState
      BY DEF RetryState
    <3>2. \A pc \in WorkerPc, n \in RetryState : [worker[w] EXCEPT !.pc = pc, !.next = n] \in WorkerRec
      BY <1>t DEF WorkerRec
    <3>3. "record" \in WorkerPc /\ "enqueue" \in WorkerPc /\ used + 1 \in Nat
      BY DEF WorkerPc
    <3> QED BY <3>1, <3>2, <3>3
  <2>6. worker' \in [Workers -> WorkerRec]
    <3>1. \/ Goto(w, AfterPlan(w))
          \/ worker' = [worker EXCEPT ![w] = Recorded("record", "recovered", used)]
          \/ worker' = [worker EXCEPT ![w] = Recorded("enqueue", "scheduled", used + 1)]
          \/ worker' = [worker EXCEPT ![w] = Recorded("record", "exhausted", used)]
      BY <1>3, <2>3 DEF Plan
    <3>2. CASE Goto(w, AfterPlan(w))
      BY <2>4, <3>2, GotoTypes
    <3> HIDE DEF Recorded
    <3>3. CASE ~ Goto(w, AfterPlan(w))
      BY <1>t, <2>5, <3>1, <3>3
    <3> QED BY <3>2, <3>3
  <2> QED BY <1>3, <2>6 DEF Plan, TypeOK, tables, history
<1>4. CASE EnqueueRepeat(w)
  <2>1. worker' \in [Workers -> WorkerRec] /\ job' \in [JobId -> JobRec]
    BY <1>4, GotoTypes, AddTypes DEF EnqueueRepeat, WorkerPc
  <2> QED BY <1>4, <2>1 DEF EnqueueRepeat, TypeOK, tables, history
<1>5. CASE RecordRepeat(w)
  <2>1. AfterPlan(w) \in WorkerPc
    BY DEF AfterPlan, WorkerPc
  <2>2. [worker[w] EXCEPT !.pc = AfterPlan(w), !.next = NoRetry] \in WorkerRec
    BY <1>t, <2>1 DEF WorkerRec, NoRetry, RetryState
  <2>3. worker' \in [Workers -> WorkerRec]
    BY <1>t, <1>5, <2>2 DEF RecordRepeat
  <2>4. worker[w].next \in RetryState
    BY <1>t DEF WorkerRec
  <2>5. retry' \in [Audits -> RetryState]
    BY <1>5, <2>4 DEF RecordRepeat, TypeOK
  <2> QED BY <1>5, <2>3, <2>5 DEF RecordRepeat, TypeOK, history
<1>6. CASE MarkUnrun(w)
  <2>1. worker' \in [Workers -> WorkerRec] /\ audit' \in [Audits -> AuditStatus]
    BY <1>6, GotoTypes, SetAuditTypes DEF MarkUnrun, WorkerPc, AuditStatus
  <2> QED BY <1>6, <2>1 DEF MarkUnrun, TypeOK, history
<1>7. CASE MarkFailed(w)
  <2>1. worker' \in [Workers -> WorkerRec]
    BY <1>7, GotoTypes DEF MarkFailed, WorkerPc
  <2>2. audit' \in [Audits -> AuditStatus]
    BY <1>7 DEF MarkFailed, TypeOK, AuditStatus
  <2>3. lost' \subseteq Audits /\ faults' \in 0 .. MaxFaults
    BY <1>7, <1>a, FaultTypes DEF MarkFailed, TypeOK
  <2> QED BY <1>7, <2>1, <2>2, <2>3 DEF MarkFailed, TypeOK
<1>8. CASE CallFails(w)
  <2>1. \A kind \in {"retry", "final"} : [worker[w] EXCEPT !.pc = "catch", !.fails = kind] \in WorkerRec
    BY <1>t DEF WorkerRec, WorkerPc
  <2>2. AfterPlan(w) \in WorkerPc
    BY DEF AfterPlan, WorkerPc
  <2>3. worker' \in [Workers -> WorkerRec]
    BY <1>t, <1>8, <2>1, <2>2, GotoTypes DEF CallFails
  <2>4. cut' \in [Audits -> Nat]
    BY <1>8, CutShortTypes DEF CallFails, TypeOK
  <2>5. faults' \in 0 .. MaxFaults
    BY <1>8, FaultTypes DEF CallFails
  <2> QED BY <1>8, <2>3, <2>4, <2>5 DEF CallFails, TypeOK, tables
<1>9. CASE Crash(w)
  <2>1. IdleWorker \in WorkerRec
    BY DEF IdleWorker, WorkerRec, WorkerPc, NoRetry, RetryState
  <2>2. worker' \in [Workers -> WorkerRec]
    BY <1>t, <1>9, <2>1 DEF Crash
  <2>3. cut' \in [Audits -> Nat]
    BY <1>9, CutShortTypes DEF Crash
  <2>4. faults' \in 0 .. MaxFaults /\ lost' \subseteq Audits
    BY <1>9, <1>a, FaultTypes DEF Crash, TypeOK
  <2>5. unsaved' \in [JobId -> Nat]
    <3>1. unsaved \in [JobId -> Nat] /\ worker[w].job \in JobId
      BY <1>9 DEF TypeOK, Crash, JobsHeld
    <3>2. unsaved' = unsaved \/ unsaved' = [unsaved EXCEPT ![worker[w].job] = unsaved[worker[w].job] + 1]
      BY <1>9 DEF Crash
    <3> QED BY <3>1, <3>2
  <2> QED BY <1>9, <2>2, <2>3, <2>4, <2>5 DEF Crash, TypeOK, tables
<1> QED BY <1>1, <1>2, <1>3, <1>4, <1>5, <1>6, <1>7, <1>8, <1>9

-----------------------------------------------------------------------------
(* A query of a run touches nothing of another run, job or request *)

\* run w goes on with its row and its job, and may queue a repeat of a row that exists
Moves(w) ==
  /\ worker[w].pc # "idle" /\ worker'[w].pc # "idle"
  /\ worker'[w].job = worker[w].job /\ worker'[w].row = worker[w].row
  /\ \A v \in Workers \ {w} : worker'[v] = worker[v]
  /\ req' = req /\ rowsOf' = rowsOf /\ unsaved' = unsaved
  /\ \A j \in JobId : \/ job'[j] = job[j]
                      \/ /\ job[j].state = "none" /\ job'[j].state = "waiting" /\ job'[j].row = None
                         /\ IsRepeat(j) /\ audit[j[2]] # "none"
  /\ \A a \in Audits \ {worker[w].row} :
       audit'[a] = audit[a] /\ scores'[a] = scores[a] /\ cut'[a] = cut[a]
  /\ worker[w].row # None => audit'[worker[w].row] # "none"
  /\ charged \subseteq charged' /\ charged' \subseteq charged \cup {worker[w].row}
  /\ escaped \subseteq escaped' /\ comparable \subseteq comparable'

\* no job is forgotten, and what the tables say of row a is as it was or is paid by now
JobsStay == \A j \in JobId : job[j].state # "none" => job'[j].state # "none"
AsItWas(a) ==
  /\ audit'[a] = audit[a] /\ scores'[a] = scores[a] /\ cut'[a] = cut[a]
  /\ a \in charged \cup escaped => a \in charged' \cup escaped'
Untouched(v) ==
  /\ worker'[v] = worker[v] /\ comparable \subseteq comparable'
  /\ worker[v].row # None => AsItWas(worker[v].row)
  /\ worker[v].pc # "idle" => job'[worker[v].job].row = job[worker[v].job].row

LEMMA MovesKeepOwnership ==
  ASSUME TypeOK, TypeOK', Ownership, NEW w \in Workers, Moves(w)
  PROVE  Ownership'
<1>1. \A v \in Workers : worker'[v].row = worker[v].row /\ worker'[v].job = worker[v].job
                           /\ (worker'[v].pc = "idle" <=> worker[v].pc = "idle")
  BY DEF Moves
<1>2. \A a \in Audits : audit'[a] = "none" => audit[a] = "none" /\ a # worker[w].row
  BY ConstantsAssumption DEF Moves
<1>3. \A a \in Audits : audit[a] # "none" => audit'[a] # "none"
  BY <1>2
<1>4. \A j \in JobId : job'[j].row = job[j].row
                         /\ (job[j].state # "none" => job'[j] = job[j])
                         /\ (job'[j].state = "none" => job'[j] = job[j])
  BY DEF Moves, Ownership, RowsOfJobs, NoJob
<1>5. JobsHeld'
  BY <1>1, <1>4 DEF Ownership, JobsHeld
<1>6. RowsOfJobs'
  <2>1. \A j \in JobId : job'[j].row # None => job'[j].row \in Audits
    BY DEF TypeOK, JobRec
  <2>2. \A a \in Audits : job'[Manual(a)] = job[Manual(a)]
    BY JobKinds DEF Moves
  <2> QED BY <1>3, <1>4, <2>1, <2>2 DEF Ownership, RowsOfJobs
<1>7. RowsOfRuns'
  <2>1. \A v \in Workers : worker[v].row # None => worker[v].row \in Audits
    BY DEF TypeOK, WorkerRec
  <2> QED BY <1>1, <1>3, <1>4, <2>1 DEF Ownership, RowsOfRuns
<1>8. RowsOfRequests'
  <2> SUFFICES ASSUME NEW r \in Requests, req[r].row # None \/ req[r].pc \in {"enqueue", "mark"}
               PROVE  /\ req[r].row # None =>
                         /\ audit'[req[r].row] # "none"
                         /\ \A j \in JobId : job'[j].row = req[r].row => j = Manual(req[r].row)
                         /\ \A v \in Workers : worker'[v].row = req[r].row => worker'[v].job = Manual(req[r].row)
                         /\ \A q \in Requests : req[q].row = req[r].row => q = r
                      /\ req[r].pc \in {"enqueue", "mark"} =>
                         /\ req[r].row # None /\ audit'[req[r].row] = "pending" /\ scores'[req[r].row] = 0
                         /\ job'[Manual(req[r].row)].state = "none"
    BY DEF Moves, RowsOfRequests
  <2>1. req[r].row # None /\ req[r].row \in Audits
    BY DEF TypeOK, Ownership, RowsOfRequests
  <2>2. /\ audit'[req[r].row] # "none"
        /\ \A j \in JobId : job'[j].row = req[r].row => j = Manual(req[r].row)
        /\ \A v \in Workers : worker'[v].row = req[r].row => worker'[v].job = Manual(req[r].row)
        /\ \A q \in Requests : req[q].row = req[r].row => q = r
    BY <1>1, <1>3, <1>4, <2>1 DEF Ownership, RowsOfRequests
  <2>3. ASSUME req[r].pc \in {"enqueue", "mark"}
        PROVE  audit'[req[r].row] = "pending" /\ scores'[req[r].row] = 0 /\ job'[Manual(req[r].row)].state = "none"
    <3>1. audit[req[r].row] = "pending" /\ scores[req[r].row] = 0 /\ job[Manual(req[r].row)].state = "none"
      BY <2>3 DEF Ownership, RowsOfRequests
    <3>2. worker[w].row # req[r].row
      BY <2>1, <3>1 DEF Ownership, RowsOfRequests, JobsHeld, Moves
    <3>3. job'[Manual(req[r].row)] = job[Manual(req[r].row)]
      BY <2>1, JobKinds DEF Moves
    <3> QED BY <2>1, <3>1, <3>2, <3>3 DEF Moves
  <2> QED BY <2>1, <2>2, <2>3
<1>9. FreshRows'
  BY <1>2 DEF Moves, Ownership, FreshRows
<1>10. RepeatsHaveOrigins'
  <2>1. ASSUME NEW j \in JobId, IsRepeat(j), job'[j].state # "none"
        PROVE  audit'[j[2]] # "none" /\ job'[j].row # j[2]
    <3>1. j[2] \in Audits
      BY <2>1, JobKinds
    <3>2. audit[j[2]] # "none" /\ (job'[j].row = None \/ job[j].state # "none")
      BY <2>1 DEF Moves, Ownership, RepeatsHaveOrigins
    <3> QED BY <1>3, <1>4, <2>1, <3>1, <3>2, ConstantsAssumption DEF Ownership, RepeatsHaveOrigins
  <2>2. \A v \in Workers : worker'[v].pc # "idle" /\ IsRepeat(worker'[v].job)
          => worker'[v].row # worker'[v].job[2]
    BY <1>1 DEF Ownership, RepeatsHaveOrigins
  <2> QED BY <2>1, <2>2 DEF RepeatsHaveOrigins
<1> QED BY <1>5, <1>6, <1>7, <1>8, <1>9, <1>10 DEF Ownership

\* A run is as it was when its record, its row and the row of its job are.
LEMMA UntouchedRunKeeps ==
  ASSUME TypeOK, Ownership, NEW v \in Workers, RunInv(v), Untouched(v), JobsStay
  PROVE  RunInv(v)'
<1>1. worker'[v] = worker[v]
  BY DEF Untouched
<1>2. worker[v].row # None =>
        /\ worker[v].row \in Audits
        /\ audit'[worker[v].row] = audit[worker[v].row]
        /\ scores'[worker[v].row] = scores[worker[v].row]
        /\ cut'[worker[v].row] = cut[worker[v].row]
        /\ (Paid(worker[v].row) => Paid(worker[v].row)')
  BY DEF Untouched, AsItWas, TypeOK, WorkerRec, Paid
<1>3. worker[v].pc # "idle" =>
        worker[v].job \in JobId /\ job'[worker[v].job].row = job[worker[v].job].row
  BY DEF Untouched, Ownership, JobsHeld
<1>4. RowAtHand(v)'
  BY <1>1, <1>3 DEF RunInv, RowAtHand
<1>5. FlagsAtHand(v)'
  BY <1>1 DEF RunInv, FlagsAtHand
<1>6. StatusAtHand(v)'
  BY <1>1, <1>2 DEF RunInv, StatusAtHand, RowAtHand, Measuring, Settling
<1>7. ScoreAtHand(v)'
  BY <1>1, <1>2 DEF RunInv, ScoreAtHand, RowAtHand, Settling, Spare, Paid
<1>8. RepeatAtHand(v)'
  <2>1. worker[v].pc = "record" /\ worker[v].next.status = "scheduled"
          => Repeat(Origin(v), worker[v].next.attempt) \in JobId /\ Origin(v)' = Origin(v)
    BY <1>1, <1>2, <1>3, JobKinds DEF RunInv, RepeatAtHand, Origin, RowAtHand
  <2>2. comparable \subseteq comparable'
    BY DEF Untouched
  <2> QED BY <1>1, <1>2, <2>1, <2>2 DEF RunInv, RepeatAtHand, RowAtHand, Settling, JobsStay
<1> QED BY <1>4, <1>5, <1>6, <1>7, <1>8 DEF RunInv

\* A job is as it was when its row and its state are, and no run of it has ended.
LEMMA UntouchedJobKeeps ==
  ASSUME NEW j \in JobId, JobInv(j), HasRun(j) => HasRun(j)',
         job'[j].state = job[j].state /\ job'[j].row = job[j].row,
         job[j].row # None => AsItWas(job[j].row)
  PROVE  JobInv(j)'
BY DEF JobInv, AsItWas, Spare, Paid

\* What the repeats of an audit say, when the step records none.
LEMMA RetriesKeep ==
  ASSUME RetryInv, JobsStay, retry' = retry, comparable \subseteq comparable'
  PROVE  RetryInv'
<1>1. \A a \in Audits : retry[a].status = "scheduled" =>
        retry[a].attempt \in 1 .. MaxRepeats /\ job'[Repeat(a, retry[a].attempt)].state # "none"
  BY JobKinds DEF RetryInv, JobsStay
<1> QED BY <1>1 DEF RetryInv, RecoveredIsMeasured

\* The other runs: their rows and their jobs are as they were.
LEMMA MovesKeepRuns ==
  ASSUME TypeOK, TypeOK', Ownership, NEW w \in Workers, Moves(w),
         NEW v \in Workers, v # w, RunInv(v)
  PROVE  RunInv(v)'
<1>1. JobsStay
  BY DEF Moves, JobsStay
<1>2. worker'[v] = worker[v] /\ comparable \subseteq comparable'
  BY DEF Moves
<1>3. ASSUME worker[v].row # None PROVE AsItWas(worker[v].row)
  <2>1. worker[v].row \in Audits
    BY <1>3 DEF TypeOK, WorkerRec
  <2>2. worker[v].row # worker[w].row
    BY <1>3 DEF Ownership, RowsOfRuns
  <2> QED BY <2>1, <2>2 DEF Moves, AsItWas
<1>4. ASSUME worker[v].pc # "idle" PROVE job'[worker[v].job].row = job[worker[v].job].row
  <2>1. worker[v].job \in JobId /\ job[worker[v].job].state = "active"
    BY <1>4 DEF Ownership, JobsHeld
  <2> QED BY <2>1 DEF Moves
<1>5. Untouched(v)
  BY <1>2, <1>3, <1>4 DEF Untouched
<1> QED BY <1>1, <1>5, UntouchedRunKeeps

\* The jobs: a step of a run leaves what BullMQ would run again, or has completed, as it is.
LEMMA MovesKeepJobs ==
  ASSUME TypeOK, TypeOK', Ownership, NEW w \in Workers, Moves(w),
         NEW j \in JobId, JobInv(j)
  PROVE  JobInv(j)'
<1>1. \A v \in Workers : worker'[v].row = worker[v].row /\ worker'[v].job = worker[v].job
                           /\ (worker'[v].pc = "idle" <=> worker[v].pc = "idle")
  BY DEF Moves
<1>2. HasRun(j)' <=> HasRun(j)
  BY <1>1 DEF HasRun
<1>3. CASE job'[j].row = None
  BY <1>3 DEF JobInv
<1>4. CASE job'[j].row # None
  <2>1. job'[j] = job[j] /\ job[j].row \in Audits
    BY <1>4 DEF Moves, TypeOK, JobRec
  <2>2. CASE job[j].row = worker[w].row
    <3>1. j = worker[w].job /\ job[j].state = "active" /\ HasRun(j)
      BY <1>4, <2>1, <2>2 DEF Ownership, RowsOfRuns, JobsHeld, HasRun, Moves
    <3> QED BY <1>2, <2>1, <3>1 DEF JobInv
  <2>3. CASE job[j].row # worker[w].row
    <3>1. AsItWas(job[j].row)
      BY <2>1, <2>3 DEF Moves, AsItWas
    <3> QED BY <1>2, <2>1, <3>1, UntouchedJobKeeps
  <2> QED BY <2>2, <2>3
<1> QED BY <1>3, <1>4

LEMMA MovesKeepRowCounts ==
  ASSUME TypeOK, Ownership, NEW w \in Workers, Moves(w),
         worker[w].pc # "update_data" \/ worker'[w].pc = "update_data",
         NEW j \in JobId, RowsInv(j)
  PROVE  RowsInv(j)'
<1>1. Naming(j) => Naming(j)'
  BY DEF Naming, Moves
<1>2. job'[j].row = job[j].row
  BY DEF Moves, Ownership, RowsOfJobs, NoJob
<1>3. rowsOf' = rowsOf /\ unsaved' = unsaved
  BY DEF Moves
<1> QED BY <1>1, <1>2, <1>3 DEF RowsInv

LEMMA MovesKeepRetries ==
  ASSUME NEW w \in Workers, Moves(w), RetryInv, UNCHANGED retry
  PROVE  RetryInv'
<1>1. JobsStay /\ comparable \subseteq comparable'
  BY DEF Moves, JobsStay
<1> QED BY <1>1, RetriesKeep

\* So a step of a run that moves owes the invariant only what it says of its own run.
LEMMA MovesKeep ==
  ASSUME AInv, TypeOK', NEW w \in Workers, Moves(w), RunInv(w)', RetryInv',
         worker[w].pc # "update_data" \/ worker'[w].pc = "update_data",
         worker[w].row # None => scores'[worker[w].row] <= 1 + cut'[worker[w].row],
         worker[w].row \in charged' => scores'[worker[w].row] > 0
  PROVE  AInv'
<1>1. Ownership'
  BY MovesKeepOwnership DEF AInv
<1>2. \A v \in Workers : RunInv(v)'
  BY MovesKeepRuns DEF AInv
<1>3. \A j \in JobId : JobInv(j)'
  BY MovesKeepJobs DEF AInv
<1>4. \A j \in JobId : RowsInv(j)'
  BY MovesKeepRowCounts DEF AInv
<1>5. ScoresExplained'
  BY ConstantsAssumption DEF AInv, ScoresExplained, Moves
<1>6. ChargedIsScored'
  BY DEF AInv, ChargedIsScored, Moves, TypeOK
<1> QED BY <1>1, <1>2, <1>3, <1>4, <1>5, <1>6 DEF AInv

-----------------------------------------------------------------------------
(* The queries of a run, one by one *)

\* What a run is known to have, and what Goto changes of it.
LEMMA RunAtHand ==
  ASSUME AInv, NEW w \in Workers, worker[w].pc # "idle"
  PROVE  /\ RunInv(w) /\ worker[w].job \in JobId
         /\ job[worker[w].job].state = "active" /\ job[worker[w].job].lock = w
         /\ job[worker[w].job].row \in {None, worker[w].row}
         /\ worker[w].row # None =>
              worker[w].row \in Audits /\ audit[worker[w].row] # "none"
              /\ scores[worker[w].row] \in Nat /\ cut[worker[w].row] \in Nat
              /\ scores[worker[w].row] <= 1 + cut[worker[w].row]
         /\ worker[w].row \notin Audits => worker[w].row = None
<1>1. worker[w].row \in Audits \cup {None}
  BY DEF AInv, TypeOK, WorkerRec
<1> QED BY <1>1 DEF AInv, Ownership, JobsHeld, RowsOfRuns, ScoresExplained, TypeOK

LEMMA GotoChanges ==
  ASSUME TypeOK, NEW w \in Workers, NEW pc, Goto(w, pc)
  PROVE  /\ \A v \in Workers \ {w} : worker'[v] = worker[v]
         /\ worker'[w] = [worker[w] EXCEPT !.pc = pc]
         /\ worker'[w].pc = pc /\ worker'[w].job = worker[w].job /\ worker'[w].row = worker[w].row
         /\ worker'[w].ready = worker[w].ready /\ worker'[w].full = worker[w].full
         /\ worker'[w].next = worker[w].next /\ worker'[w].fails = worker[w].fails
         /\ worker'[w].scheduled = worker[w].scheduled
<1>1. worker \in [Workers -> WorkerRec]
  BY DEF TypeOK
<1>2. worker[w] \in WorkerRec
  BY <1>1
<1> QED BY <1>1, <1>2 DEF Goto, WorkerRec

LEMMA MarkRunningKeeps ==
  ASSUME AInv, TypeOK', NEW w \in Workers, MarkRunning(w)
  PROVE  AInv'
<1>1. worker[w].pc = "mark_running"
  BY DEF MarkRunning
<1>2. RunInv(w) /\ worker[w].row \in Audits /\ worker[w].job \in JobId
  BY <1>1, RunAtHand DEF RunInv, RowAtHand
<1>3. PICK pc \in {"cap", "panel", "probe"} : Goto(w, pc)
  BY DEF MarkRunning, AfterCap
<1>g. /\ \A v \in Workers \ {w} : worker'[v] = worker[v]
      /\ worker'[w].pc = pc /\ worker'[w].job = worker[w].job /\ worker'[w].row = worker[w].row
      /\ worker'[w].ready = worker[w].ready /\ worker'[w].fails = worker[w].fails
  BY <1>3, GotoChanges DEF AInv
<1>4. /\ audit' = [audit EXCEPT ![worker[w].row] = "running"]
      /\ UNCHANGED <<scores, retry, charged, job, req, history>>
  BY DEF MarkRunning, SetAudit
<1>5. audit'[worker[w].row] = "running" /\ \A a \in Audits \ {worker[w].row} : audit'[a] = audit[a]
  BY <1>2, <1>4 DEF AInv, TypeOK
<1>6. Moves(w)
  BY <1>1, <1>g, <1>4, <1>5 DEF Moves, history
<1>7. RunInv(w)'
  <2>1. RowAtHand(w)' /\ FlagsAtHand(w)' /\ StatusAtHand(w)'
    BY <1>1, <1>2, <1>g, <1>5, ConstantsAssumption
    DEF RunInv, RowAtHand, FlagsAtHand, StatusAtHand, Before, Measuring, Settling
  <2>2. ScoreAtHand(w)'
    BY <1>1, <1>2, <1>g, <1>4, <1>5
    DEF RunInv, ScoreAtHand, FlagsAtHand, Settling, Spare, Before, RowAtHand, history
  <2>3. RepeatAtHand(w)'
    BY <1>g DEF RepeatAtHand, Settling
  <2> QED BY <2>1, <2>2, <2>3 DEF RunInv
<1>8. RetryInv'
  BY <1>4, <1>6, MovesKeepRetries DEF AInv
<1> QED BY <1>1, <1>2, <1>4, <1>6, <1>7, <1>8, RunAtHand, MovesKeep DEF AInv, ChargedIsScored, history

LEMMA CheckCapKeeps ==
  ASSUME AInv, TypeOK', NEW w \in Workers, CheckCap(w)
  PROVE  AInv'
<1>1. worker[w].pc = "cap" /\ worker[w] \in WorkerRec /\ worker \in [Workers -> WorkerRec]
  BY DEF CheckCap, AInv, TypeOK
<1>2. RunInv(w) /\ worker[w].row \in Audits /\ worker[w].job \in JobId /\ audit[worker[w].row] # "none"
  BY <1>1, RunAtHand DEF RunInv, RowAtHand
<1>g. /\ \A v \in Workers \ {w} : worker'[v] = worker[v]
      /\ worker'[w].job = worker[w].job /\ worker'[w].row = worker[w].row
      /\ worker'[w].fails = worker[w].fails
      /\ \/ worker'[w].pc \in {"panel", "probe"} /\ worker'[w].ready = worker[w].ready
         \/ worker'[w].pc = "unrun" /\ ~worker'[w].ready
  <2>1. CASE Goto(w, AfterCap(w))
    BY <2>1, GotoChanges DEF AInv, AfterCap
  <2>2. CASE worker' = [worker EXCEPT ![w] = [@ EXCEPT !.pc = "unrun", !.ready = FALSE]]
    BY <1>1, <2>2 DEF WorkerRec
  <2> QED BY <2>1, <2>2 DEF CheckCap
<1>4. UNCHANGED <<audit, scores, retry, charged, job, req, history>>
  BY DEF CheckCap, tables
<1>6. Moves(w)
  BY <1>1, <1>2, <1>g, <1>4 DEF Moves, history
<1>7. RunInv(w)'
  <2>1. RowAtHand(w)' /\ FlagsAtHand(w)' /\ StatusAtHand(w)'
    BY <1>1, <1>2, <1>g, <1>4, ConstantsAssumption
    DEF RunInv, RowAtHand, FlagsAtHand, StatusAtHand, Before, Measuring, Settling
  <2>2. ScoreAtHand(w)'
    BY <1>1, <1>2, <1>g, <1>4
    DEF RunInv, ScoreAtHand, FlagsAtHand, Settling, Spare, Before, RowAtHand, history
  <2>3. RepeatAtHand(w)'
    BY <1>g DEF RepeatAtHand, Settling
  <2> QED BY <2>1, <2>2, <2>3 DEF RunInv
<1>8. RetryInv'
  BY <1>4, <1>6, MovesKeepRetries DEF AInv
<1> QED BY <1>1, <1>2, <1>4, <1>6, <1>7, <1>8, RunAtHand, MovesKeep DEF AInv, ChargedIsScored, history

LEMMA CheckPanelKeeps ==
  ASSUME AInv, TypeOK', NEW w \in Workers, CheckPanel(w)
  PROVE  AInv'
<1>1. worker[w].pc = "panel" /\ worker[w] \in WorkerRec /\ worker \in [Workers -> WorkerRec]
  BY DEF CheckPanel, AInv, TypeOK
<1>2. RunInv(w) /\ worker[w].row \in Audits /\ worker[w].job \in JobId /\ audit[worker[w].row] # "none"
  BY <1>1, RunAtHand DEF RunInv, RowAtHand
<1>g. /\ \A v \in Workers \ {w} : worker'[v] = worker[v]
      /\ worker'[w].job = worker[w].job /\ worker'[w].row = worker[w].row
      /\ worker'[w].fails = worker[w].fails
      /\ \/ worker'[w].pc = "probe" /\ worker'[w].ready = worker[w].ready
         \/ worker'[w].pc = "plan" /\ ~worker'[w].ready
  <2>1. CASE Goto(w, "probe")
    BY <2>1, GotoChanges DEF AInv
  <2>2. CASE worker' = [worker EXCEPT ![w] = [@ EXCEPT !.pc = "plan", !.ready = FALSE, !.full = FALSE]]
    BY <1>1, <2>2 DEF WorkerRec
  <2> QED BY <2>1, <2>2 DEF CheckPanel
<1>4. UNCHANGED <<audit, scores, retry, charged, job, req, history>>
  BY DEF CheckPanel, tables
<1>6. Moves(w)
  BY <1>1, <1>2, <1>g, <1>4 DEF Moves, history
<1>7. RunInv(w)'
  <2>1. RowAtHand(w)' /\ FlagsAtHand(w)' /\ StatusAtHand(w)'
    BY <1>1, <1>2, <1>g, <1>4, ConstantsAssumption
    DEF RunInv, RowAtHand, FlagsAtHand, StatusAtHand, Before, Measuring, Settling
  <2>2. ScoreAtHand(w)'
    BY <1>1, <1>2, <1>g, <1>4
    DEF RunInv, ScoreAtHand, FlagsAtHand, Settling, Spare, Before, RowAtHand, history
  <2>3. RepeatAtHand(w)'
    BY <1>g DEF RepeatAtHand, Settling
  <2> QED BY <2>1, <2>2, <2>3 DEF RunInv
<1>8. RetryInv'
  BY <1>4, <1>6, MovesKeepRetries DEF AInv
<1> QED BY <1>1, <1>2, <1>4, <1>6, <1>7, <1>8, RunAtHand, MovesKeep DEF AInv, ChargedIsScored, history

LEMMA ProbeKeeps ==
  ASSUME AInv, TypeOK', NEW w \in Workers, Probe(w)
  PROVE  AInv'
<1>1. worker[w].pc = "probe" /\ worker[w] \in WorkerRec /\ worker \in [Workers -> WorkerRec]
  BY DEF Probe, AInv, TypeOK
<1>2. RunInv(w) /\ worker[w].row \in Audits /\ worker[w].job \in JobId /\ audit[worker[w].row] # "none"
  BY <1>1, RunAtHand DEF RunInv, RowAtHand
<1>g. /\ \A v \in Workers \ {w} : worker'[v] = worker[v]
      /\ worker'[w].job = worker[w].job /\ worker'[w].row = worker[w].row
      /\ worker'[w].ready = worker[w].ready /\ worker'[w].fails = worker[w].fails
      /\ worker'[w].pc \in {"score", "refuse"}
  <2>1. CASE Goto(w, "refuse")
    BY <2>1, GotoChanges DEF AInv
  <2>2. CASE \E full \in BOOLEAN :
               worker' = [worker EXCEPT ![w] = [@ EXCEPT !.pc = "score", !.full = full]]
    BY <1>1, <2>2 DEF WorkerRec
  <2> QED BY <2>1, <2>2 DEF Probe
<1>4. UNCHANGED <<audit, scores, retry, charged, job, req, history>>
  BY DEF Probe, tables
<1>6. Moves(w)
  BY <1>1, <1>2, <1>g, <1>4 DEF Moves, history
<1>7. RunInv(w)'
  <2>1. RowAtHand(w)' /\ FlagsAtHand(w)' /\ StatusAtHand(w)'
    BY <1>1, <1>2, <1>g, <1>4, ConstantsAssumption
    DEF RunInv, RowAtHand, FlagsAtHand, StatusAtHand, Before, Measuring, Settling
  <2>2. ScoreAtHand(w)'
    BY <1>1, <1>2, <1>g, <1>4
    DEF RunInv, ScoreAtHand, FlagsAtHand, Settling, Spare, Before, RowAtHand, history
  <2>3. RepeatAtHand(w)'
    BY <1>g DEF RepeatAtHand, Settling
  <2> QED BY <2>1, <2>2, <2>3 DEF RunInv
<1>8. RetryInv'
  BY <1>4, <1>6, MovesKeepRetries DEF AInv
<1> QED BY <1>1, <1>2, <1>4, <1>6, <1>7, <1>8, RunAtHand, MovesKeep DEF AInv, ChargedIsScored, history

LEMMA RefuseKeeps ==
  ASSUME AInv, TypeOK', NEW w \in Workers, Refuse(w)
  PROVE  AInv'
<1>1. worker[w].pc = "refuse" /\ worker[w] \in WorkerRec /\ worker \in [Workers -> WorkerRec]
  BY DEF Refuse, AInv, TypeOK
<1>2. RunInv(w) /\ worker[w].row \in Audits /\ worker[w].job \in JobId /\ audit[worker[w].row] # "none"
  BY <1>1, RunAtHand DEF RunInv, RowAtHand
<1>g. /\ \A v \in Workers \ {w} : worker'[v] = worker[v]
      /\ worker'[w].job = worker[w].job /\ worker'[w].row = worker[w].row
      /\ worker'[w].ready = worker[w].ready /\ worker'[w].fails = "final"
      /\ worker'[w].pc = "catch"
  BY <1>1 DEF Refuse, WorkerRec
<1>4. /\ audit' = [audit EXCEPT ![worker[w].row] = "failed"]
      /\ UNCHANGED <<scores, retry, charged, job, req, history>>
  BY DEF Refuse, SetAudit
<1>5. audit'[worker[w].row] = "failed" /\ \A a \in Audits \ {worker[w].row} : audit'[a] = audit[a]
  BY <1>2, <1>4 DEF AInv, TypeOK
<1>6. Moves(w)
  BY <1>1, <1>g, <1>4, <1>5 DEF Moves, history
<1>7. RunInv(w)'
  <2>1. RowAtHand(w)' /\ FlagsAtHand(w)' /\ StatusAtHand(w)'
    BY <1>2, <1>g DEF RowAtHand, FlagsAtHand, StatusAtHand, Before, Measuring, Settling
  <2>2. ScoreAtHand(w)'
    BY <1>1, <1>2, <1>g, <1>4, <1>5
    DEF RunInv, ScoreAtHand, Settling, Spare, Before, RowAtHand, history
  <2>3. RepeatAtHand(w)'
    BY <1>g DEF RepeatAtHand, Settling
  <2> QED BY <2>1, <2>2, <2>3 DEF RunInv
<1>8. RetryInv'
  BY <1>4, <1>6, MovesKeepRetries DEF AInv
<1> QED BY <1>1, <1>2, <1>4, <1>6, <1>7, <1>8, RunAtHand, MovesKeep DEF AInv, ChargedIsScored, history

LEMMA WriteScoreKeeps ==
  ASSUME AInv, TypeOK', NEW w \in Workers, WriteScore(w)
  PROVE  AInv'
<1>1. worker[w].pc = "score" /\ worker[w].full \in BOOLEAN
  BY DEF WriteScore, AInv, TypeOK, WorkerRec
<1>2. /\ RunInv(w) /\ worker[w].row \in Audits /\ worker[w].job \in JobId /\ audit[worker[w].row] # "none"
      /\ scores[worker[w].row] \in Nat /\ cut[worker[w].row] \in Nat
  BY <1>1, RunAtHand DEF RunInv, RowAtHand
<1>g. /\ \A v \in Workers \ {w} : worker'[v] = worker[v]
      /\ worker'[w].pc = "complete" /\ worker'[w].job = worker[w].job /\ worker'[w].row = worker[w].row
      /\ worker'[w].ready = worker[w].ready /\ worker'[w].fails = worker[w].fails
      /\ worker'[w].full = worker[w].full
  BY GotoChanges DEF WriteScore, AInv
<1>4. /\ scores' = [scores EXCEPT ![worker[w].row] = scores[worker[w].row] + 1]
      /\ comparable' = IF worker[w].full THEN comparable \cup {<<worker[w].job, worker[w].row>>} ELSE comparable
      /\ UNCHANGED <<audit, retry, charged, job, req, cut, escaped, rowsOf, unsaved>>
  BY DEF WriteScore
<1>5. /\ scores'[worker[w].row] = scores[worker[w].row] + 1
      /\ \A a \in Audits \ {worker[w].row} : scores'[a] = scores[a]
  BY <1>2, <1>4 DEF AInv, TypeOK
<1>6. Moves(w)
  BY <1>1, <1>2, <1>g, <1>4, <1>5 DEF Moves
<1>s. Spare(worker[w].row)
  BY <1>1, <1>2, ConstantsAssumption DEF RunInv, ScoreAtHand, Settling
<1>7. RunInv(w)'
  <2>1. RowAtHand(w)' /\ FlagsAtHand(w)' /\ StatusAtHand(w)'
    BY <1>1, <1>2, <1>g, <1>4, ConstantsAssumption
    DEF RunInv, RowAtHand, FlagsAtHand, StatusAtHand, Before, Measuring, Settling
  <2>2. scores'[worker[w].row] > 0 /\ worker[w].ready /\ worker[w].fails = "no"
    BY <1>1, <1>2, <1>5 DEF RunInv, FlagsAtHand, Measuring, Before
  <2>3. ScoreAtHand(w)'
    BY <1>g, <2>2 DEF ScoreAtHand, Settling
  <2>4. RepeatAtHand(w)'
    BY <1>1, <1>g, <1>4 DEF RepeatAtHand, Settling
  <2> QED BY <2>1, <2>3, <2>4 DEF RunInv
<1>8. RetryInv'
  BY <1>4, <1>6, MovesKeepRetries DEF AInv
<1>9. scores'[worker[w].row] <= 1 + cut'[worker[w].row]
  BY <1>2, <1>4, <1>5, <1>s DEF Spare
<1>10. scores'[worker[w].row] > 0
  BY <1>2, <1>5
<1> QED BY <1>1, <1>6, <1>7, <1>8, <1>9, <1>10, MovesKeep

LEMMA CompleteKeeps ==
  ASSUME AInv, TypeOK', NEW w \in Workers, Complete(w)
  PROVE  AInv'
<1>1. worker[w].pc = "complete"
  BY DEF Complete
<1>2. RunInv(w) /\ worker[w].row \in Audits /\ worker[w].job \in JobId
  BY <1>1, RunAtHand DEF RunInv, RowAtHand
<1>g. /\ \A v \in Workers \ {w} : worker'[v] = worker[v]
      /\ worker'[w].pc = "charge" /\ worker'[w].job = worker[w].job /\ worker'[w].row = worker[w].row
      /\ worker'[w].ready = worker[w].ready /\ worker'[w].fails = worker[w].fails
      /\ worker'[w].full = worker[w].full
  BY GotoChanges DEF Complete, AInv
<1>4. /\ audit' = [audit EXCEPT ![worker[w].row] = "complete"]
      /\ UNCHANGED <<scores, retry, charged, job, req, history>>
  BY DEF Complete, SetAudit
<1>5. audit'[worker[w].row] = "complete" /\ \A a \in Audits \ {worker[w].row} : audit'[a] = audit[a]
  BY <1>2, <1>4 DEF AInv, TypeOK
<1>6. Moves(w)
  BY <1>1, <1>g, <1>4, <1>5 DEF Moves, history
<1>7. RunInv(w)'
  <2>1. RowAtHand(w)' /\ FlagsAtHand(w)' /\ StatusAtHand(w)'
    BY <1>1, <1>2, <1>g, ConstantsAssumption
    DEF RunInv, RowAtHand, FlagsAtHand, StatusAtHand, Before, Measuring, Settling
  <2>2. ScoreAtHand(w)'
    BY <1>1, <1>2, <1>g, <1>4
    DEF RunInv, ScoreAtHand, FlagsAtHand, Settling, Before, Measuring
  <2>3. RepeatAtHand(w)'
    BY <1>1, <1>2, <1>g, <1>4 DEF RunInv, RepeatAtHand, Settling, history
  <2> QED BY <2>1, <2>2, <2>3 DEF RunInv
<1>8. RetryInv'
  BY <1>4, <1>6, MovesKeepRetries DEF AInv
<1> QED BY <1>1, <1>2, <1>4, <1>6, <1>7, <1>8, RunAtHand, MovesKeep DEF AInv, ChargedIsScored, history

LEMMA ChargeKeeps ==
  ASSUME AInv, TypeOK', NEW w \in Workers, Charge(w)
  PROVE  AInv'
<1>1. worker[w].pc = "charge"
  BY DEF Charge
<1>2. RunInv(w) /\ worker[w].row \in Audits /\ worker[w].job \in JobId /\ audit[worker[w].row] # "none"
  BY <1>1, RunAtHand DEF RunInv, RowAtHand
<1>g. /\ \A v \in Workers \ {w} : worker'[v] = worker[v]
      /\ worker'[w].pc = "plan" /\ worker'[w].job = worker[w].job /\ worker'[w].row = worker[w].row
      /\ worker'[w].ready = worker[w].ready /\ worker'[w].fails = worker[w].fails
      /\ worker'[w].full = worker[w].full
  BY GotoChanges DEF Charge, AInv
<1>4. UNCHANGED <<audit, scores, retry, job, req, comparable, cut, rowsOf, unsaved>>
  BY DEF Charge
<1>5. /\ worker[w].row \in charged' \cup escaped'
      /\ charged \subseteq charged' /\ charged' \subseteq charged \cup {worker[w].row}
      /\ escaped \subseteq escaped'
  BY DEF Charge
<1>6. Moves(w)
  BY <1>1, <1>2, <1>g, <1>4, <1>5 DEF Moves
<1>7. RunInv(w)'
  <2>1. RowAtHand(w)' /\ FlagsAtHand(w)' /\ StatusAtHand(w)'
    BY <1>1, <1>2, <1>g, ConstantsAssumption
    DEF RunInv, RowAtHand, FlagsAtHand, StatusAtHand, Before, Measuring, Settling
  <2>2. ScoreAtHand(w)'
    BY <1>1, <1>2, <1>g, <1>4, <1>5
    DEF RunInv, ScoreAtHand, FlagsAtHand, Settling, Before, Measuring, Paid
  <2>3. RepeatAtHand(w)'
    BY <1>1, <1>2, <1>g, <1>4 DEF RunInv, RepeatAtHand, Settling
  <2> QED BY <2>1, <2>2, <2>3 DEF RunInv
<1>8. RetryInv'
  BY <1>4, <1>6, MovesKeepRetries DEF AInv
<1>9. scores'[worker[w].row] <= 1 + cut'[worker[w].row] /\ scores'[worker[w].row] > 0
  <2>1. scores[worker[w].row] <= 1 + cut[worker[w].row]
    BY <1>2 DEF AInv, ScoresExplained
  <2>2. scores[worker[w].row] > 0
    BY <1>1, <1>2 DEF RunInv, ScoreAtHand
  <2> QED BY <1>4, <2>1, <2>2
<1> QED BY <1>1, <1>6, <1>7, <1>8, <1>9, MovesKeep

\* The audit a repeat is for exists, and is not the row the run works on when it is one.
LEMMA OriginExists ==
  ASSUME AInv, NEW w \in Workers, worker[w].pc # "idle", worker[w].row # None
  PROVE  /\ Origin(w) \in Audits /\ audit[Origin(w)] # "none"
         /\ IsRepeat(worker[w].job) => worker[w].row # Origin(w)
<1>1. worker[w].row \in Audits /\ audit[worker[w].row] # "none" /\ worker[w].job \in JobId
      /\ job[worker[w].job].state = "active"
  BY RunAtHand
<1>2. CASE IsRepeat(worker[w].job)
  BY <1>1, <1>2, JobKinds DEF AInv, Ownership, RepeatsHaveOrigins, Origin
<1>3. CASE ~IsRepeat(worker[w].job)
  BY <1>1, <1>3 DEF Origin
<1> QED BY <1>2, <1>3

LEMMA PlanKeeps ==
  ASSUME AInv, TypeOK', NEW w \in Workers, Plan(w)
  PROVE  AInv'
<1>1. worker[w].pc = "plan" /\ worker \in [Workers -> WorkerRec] /\ worker[w] \in WorkerRec
  BY DEF Plan, AInv, TypeOK
<1>2. RunInv(w) /\ worker[w].row \in Audits /\ worker[w].job \in JobId /\ audit[worker[w].row] # "none"
  BY <1>1, RunAtHand DEF RunInv, RowAtHand
<1>3. PICK used \in Nat : used = AttemptsUsed(worker[w].job)
  BY <1>2, JobKinds DEF AttemptsUsed
<1> DEFINE Decided(pc, s, k) ==
      worker' = [worker EXCEPT ![w] = [worker[w] EXCEPT !.pc = pc, !.next = [status |-> s, attempt |-> k]]]
<1>d. ASSUME NEW pc, NEW s, NEW k, Decided(pc, s, k)
      PROVE  /\ \A v \in Workers \ {w} : worker'[v] = worker[v]
             /\ worker'[w].pc = pc /\ worker'[w].job = worker[w].job /\ worker'[w].row = worker[w].row
             /\ worker'[w].ready = worker[w].ready /\ worker'[w].fails = worker[w].fails
             /\ worker'[w].full = worker[w].full
             /\ worker'[w].next.status = s /\ worker'[w].next.attempt = k
  BY <1>1, <1>d DEF WorkerRec
<1>g. /\ \A v \in Workers \ {w} : worker'[v] = worker[v]
      /\ worker'[w].job = worker[w].job /\ worker'[w].row = worker[w].row
      /\ worker'[w].ready = worker[w].ready /\ worker'[w].fails = worker[w].fails
      /\ worker'[w].full = worker[w].full
      /\ \/ /\ worker'[w].pc = "record" /\ worker'[w].next.status = "recovered" /\ Repaired(w)
            /\ worker'[w].next.attempt = used
         \/ /\ worker'[w].pc = "enqueue" /\ worker'[w].next.status = "scheduled"
            /\ worker'[w].next.attempt \in 1 .. MaxRepeats
         \/ worker'[w].pc = "record" /\ worker'[w].next.status = "exhausted"
         \/ worker'[w].pc = AfterPlan(w)
  <2>1. CASE Repaired(w) /\ Decided("record", "recovered", used)
    <3> HIDE DEF Decided
    <3> QED BY <2>1, <1>d
  <2>2. CASE used < MaxRepeats /\ Decided("enqueue", "scheduled", used + 1)
    <3>1. used + 1 \in 1 .. MaxRepeats
      BY <2>2, ConstantsAssumption
    <3> HIDE DEF Decided
    <3> QED BY <2>2, <3>1, <1>d
  <2>3. CASE Decided("record", "exhausted", used)
    <3> HIDE DEF Decided
    <3> QED BY <2>3, <1>d
  <2>4. CASE Goto(w, AfterPlan(w))
    BY <2>4, GotoChanges DEF AInv
  <2> QED BY <2>1, <2>2, <2>3, <2>4, <1>3 DEF Plan
<1>4. UNCHANGED <<audit, scores, retry, charged, job, req, history>>
  BY DEF Plan, tables
<1>5. \/ worker'[w].pc \in {"record", "enqueue"}
      \/ worker'[w].pc = "finish" /\ worker[w].ready
      \/ worker'[w].pc = "unrun" /\ ~worker[w].ready
  <2>1. \/ worker'[w].pc \in {"record", "enqueue"}
        \/ worker'[w].pc = AfterPlan(w)
    BY <1>g
  <2>2. \/ AfterPlan(w) = "finish" /\ worker[w].ready
        \/ AfterPlan(w) = "unrun" /\ ~worker[w].ready
    BY DEF AfterPlan
  <2> QED BY <2>1, <2>2
<1>6. Moves(w)
  BY <1>1, <1>2, <1>g, <1>4, <1>5 DEF Moves, history
<1>7. RunInv(w)'
  <2>1. RowAtHand(w)' /\ FlagsAtHand(w)' /\ StatusAtHand(w)'
    BY <1>1, <1>2, <1>g, <1>4, <1>5, ConstantsAssumption
    DEF RunInv, RowAtHand, FlagsAtHand, StatusAtHand, Before, Measuring, Settling
  <2>2. ScoreAtHand(w)'
    BY <1>1, <1>2, <1>g, <1>4, <1>5
    DEF RunInv, ScoreAtHand, FlagsAtHand, Settling, Before, Measuring, Paid, history, Spare
  <2>3. RepeatAtHand(w)'
    <3>1. worker[w].ready /\ worker[w].full => <<worker[w].job, worker[w].row>> \in comparable'
      BY <1>1, <1>2, <1>4 DEF RunInv, RepeatAtHand, Settling, history
    <3>2. AfterPlan(w) \notin {"record", "enqueue"}
      BY DEF AfterPlan
    <3>3. /\ worker'[w].pc = "enqueue" =>
               worker'[w].next.status = "scheduled" /\ worker'[w].next.attempt \in 1 .. MaxRepeats
          /\ worker'[w].pc = "record" =>
               \/ /\ worker'[w].next.status = "recovered" /\ Repaired(w)
                  /\ worker'[w].next.attempt = used
               \/ worker'[w].next.status = "exhausted"
      BY <1>g, <3>2
    <3>4. worker'[w].pc \notin {"complete", "charge"}
      BY <1>5
    <3>5. Repaired(w) => /\ worker[w].ready /\ worker[w].full /\ IsRepeat(worker[w].job)
                         /\ used = worker[w].job[3]
      BY <1>3 DEF Repaired, AttemptsUsed
    <3>6. worker'[w].ready = worker[w].ready /\ worker'[w].full = worker[w].full
          /\ worker'[w].row = worker[w].row /\ worker'[w].job = worker[w].job
      BY <1>g
    <3> QED BY <3>1, <3>3, <3>4, <3>5, <3>6 DEF RepeatAtHand, Settling
  <2> QED BY <2>1, <2>2, <2>3 DEF RunInv
<1>8. RetryInv'
  BY <1>4, <1>6, MovesKeepRetries DEF AInv
<1> QED BY <1>1, <1>2, <1>4, <1>6, <1>7, <1>8, RunAtHand, MovesKeep DEF AInv, ChargedIsScored, history

LEMMA EnqueueRepeatKeeps ==
  ASSUME AInv, TypeOK', NEW w \in Workers, EnqueueRepeat(w)
  PROVE  AInv'
<1>1. worker[w].pc = "enqueue" /\ worker[w] \in WorkerRec
  BY DEF EnqueueRepeat, AInv, TypeOK
<1>2. /\ RunInv(w) /\ worker[w].row \in Audits /\ worker[w].row # None /\ worker[w].job \in JobId
      /\ audit[worker[w].row] # "none" /\ job[worker[w].job].state = "active"
  BY <1>1, RunAtHand DEF RunInv, RowAtHand
<1>g. /\ \A v \in Workers \ {w} : worker'[v] = worker[v]
      /\ worker'[w].pc = "record" /\ worker'[w].job = worker[w].job /\ worker'[w].row = worker[w].row
      /\ worker'[w].ready = worker[w].ready /\ worker'[w].fails = worker[w].fails
      /\ worker'[w].full = worker[w].full /\ worker'[w].next = worker[w].next
  BY GotoChanges DEF EnqueueRepeat, AInv
<1>4. UNCHANGED <<audit, scores, retry, charged, req, history>>
  BY DEF EnqueueRepeat, tables
<1>o. Origin(w) \in Audits /\ audit[Origin(w)] # "none"
  BY <1>1, <1>2, OriginExists
<1>k. PICK k \in 1 .. MaxRepeats : k = worker[w].next.attempt
  BY <1>1, <1>2 DEF RunInv, RepeatAtHand
<1>r. PICK r \in JobId : r = Repeat(Origin(w), k)
  BY <1>o, JobKinds
<1>j. /\ \A j \in JobId \ {r} : job'[j] = job[j]
      /\ job[r].state # "none" => job'[r] = job[r]
      /\ job[r].state = "none" => job'[r].state = "waiting" /\ job'[r].row = None
      /\ IsRepeat(r) /\ r[2] = Origin(w)
  <2>1. job' = [job EXCEPT ![r] =
          IF @.state = "none" THEN [NoJob EXCEPT !.state = "waiting", !.row = None] ELSE @]
    BY <1>k, <1>r DEF EnqueueRepeat, Add
  <2>2. job \in [JobId -> JobRec]
    BY DEF AInv, TypeOK
  <2> QED BY <2>1, <2>2, <1>o, <1>r, JobKinds DEF NoJob
<1>6. Moves(w)
  BY <1>1, <1>2, <1>g, <1>4, <1>j, <1>o DEF Moves, history
<1>7. RunInv(w)'
  <2>1. RowAtHand(w)' /\ FlagsAtHand(w)' /\ StatusAtHand(w)'
    BY <1>1, <1>2, <1>g, <1>4, ConstantsAssumption
    DEF RunInv, RowAtHand, FlagsAtHand, StatusAtHand, Before, Measuring, Settling
  <2>2. ScoreAtHand(w)'
    BY <1>1, <1>2, <1>g, <1>4
    DEF RunInv, ScoreAtHand, FlagsAtHand, Settling, Before, Measuring, Paid, history, Spare
  <2>3. job'[Repeat(Origin(w)', worker'[w].next.attempt)].state # "none"
    <3>1. Origin(w)' = Origin(w) /\ worker'[w].next.attempt = k
      BY <1>g, <1>k DEF Origin
    <3> QED BY <3>1, <1>r, <1>j
  <2>4. RepeatAtHand(w)'
    BY <1>1, <1>2, <1>g, <1>4, <2>3 DEF RunInv, RepeatAtHand, Settling, history
  <2> QED BY <2>1, <2>2, <2>4 DEF RunInv
<1>8. RetryInv'
  BY <1>4, <1>6, MovesKeepRetries DEF AInv
<1> QED BY <1>1, <1>2, <1>4, <1>6, <1>7, <1>8, RunAtHand, MovesKeep DEF AInv, ChargedIsScored, history

LEMMA RecordRepeatKeeps ==
  ASSUME AInv, TypeOK', NEW w \in Workers, RecordRepeat(w)
  PROVE  AInv'
<1>1. worker[w].pc = "record" /\ worker \in [Workers -> WorkerRec] /\ worker[w] \in WorkerRec
  BY DEF RecordRepeat, AInv, TypeOK
<1>2. /\ RunInv(w) /\ worker[w].row \in Audits /\ worker[w].row # None /\ worker[w].job \in JobId
      /\ audit[worker[w].row] # "none"
  BY <1>1, RunAtHand DEF RunInv, RowAtHand
<1>g. /\ \A v \in Workers \ {w} : worker'[v] = worker[v]
      /\ worker'[w].pc = AfterPlan(w) /\ worker'[w].job = worker[w].job /\ worker'[w].row = worker[w].row
      /\ worker'[w].ready = worker[w].ready /\ worker'[w].fails = worker[w].fails
  BY <1>1 DEF RecordRepeat, WorkerRec
<1>4. UNCHANGED <<audit, scores, charged, job, req, history>>
  BY DEF RecordRepeat
<1>5. \/ worker'[w].pc = "finish" /\ worker[w].ready
      \/ worker'[w].pc = "unrun" /\ ~worker[w].ready
  <2>1. worker'[w].pc = AfterPlan(w)
    BY <1>g
  <2>2. \/ AfterPlan(w) = "finish" /\ worker[w].ready
        \/ AfterPlan(w) = "unrun" /\ ~worker[w].ready
    BY DEF AfterPlan
  <2> QED BY <2>1, <2>2
<1>6. Moves(w)
  BY <1>1, <1>2, <1>g, <1>4, <1>5 DEF Moves, history
<1>7. RunInv(w)'
  <2>1. RowAtHand(w)' /\ FlagsAtHand(w)' /\ StatusAtHand(w)'
    BY <1>1, <1>2, <1>g, <1>4, <1>5, ConstantsAssumption
    DEF RunInv, RowAtHand, FlagsAtHand, StatusAtHand, Before, Measuring, Settling
  <2>2. ScoreAtHand(w)'
    BY <1>1, <1>2, <1>g, <1>4, <1>5
    DEF RunInv, ScoreAtHand, FlagsAtHand, Settling, Before, Measuring, Paid, history, Spare
  <2>3. RepeatAtHand(w)'
    BY <1>5 DEF RepeatAtHand, Settling
  <2> QED BY <2>1, <2>2, <2>3 DEF RunInv
<1>8. RetryInv'
  <2>1. Origin(w) \in Audits /\ (IsRepeat(worker[w].job) => worker[w].row # Origin(w))
    BY <1>1, <1>2, OriginExists
  <2>2. PICK o \in Audits : o = Origin(w)
    BY <2>1
  <2>3. /\ \A a \in Audits \ {o} : retry'[a] = retry[a]
        /\ retry'[o] = retry[o] \/ retry'[o] = worker[w].next
    BY <2>2 DEF RecordRepeat, AInv, TypeOK
  <2>4. worker[w].next.status = "scheduled" =>
          worker[w].next.attempt \in 1 .. MaxRepeats /\ job[Repeat(o, worker[w].next.attempt)].state # "none"
    BY <1>1, <1>2, <2>2 DEF RunInv, RepeatAtHand
  <2>5. worker[w].next.status = "recovered" =>
          \E b \in Audits \ {o} : <<Repeat(o, worker[w].next.attempt), b>> \in comparable
    <3> HAVE worker[w].next.status = "recovered"
    <3>1. /\ IsRepeat(worker[w].job) /\ worker[w].next.attempt = worker[w].job[3]
          /\ <<worker[w].job, worker[w].row>> \in comparable
      BY <1>1, <1>2 DEF RunInv, RepeatAtHand
    <3>2. worker[w].job = Repeat(o, worker[w].next.attempt)
      BY <1>2, <2>2, <3>1, JobKinds DEF Origin
    <3>3. worker[w].row \in Audits \ {o}
      BY <1>2, <2>1, <2>2, <3>1
    <3> QED BY <3>1, <3>2, <3>3
  <2>6. \A a \in Audits : retry'[a].status = "scheduled" =>
          retry'[a].attempt \in 1 .. MaxRepeats /\ job[Repeat(a, retry'[a].attempt)].state # "none"
    BY <2>3, <2>4 DEF AInv, RetryInv
  <2>7. \A a \in Audits : retry'[a].status = "recovered" =>
          \E b \in Audits \ {a} : <<Repeat(a, retry'[a].attempt), b>> \in comparable
    BY <2>3, <2>5 DEF AInv, RetryInv, RecoveredIsMeasured
  <2> QED BY <1>4, <2>6, <2>7 DEF RetryInv, RecoveredIsMeasured, history
<1> QED BY <1>1, <1>2, <1>4, <1>6, <1>7, <1>8, RunAtHand, MovesKeep DEF AInv, ChargedIsScored, history

LEMMA MarkUnrunKeeps ==
  ASSUME AInv, TypeOK', NEW w \in Workers, MarkUnrun(w)
  PROVE  AInv'
<1>1. worker[w].pc = "unrun"
  BY DEF MarkUnrun
<1>2. RunInv(w) /\ worker[w].row \in Audits /\ worker[w].job \in JobId
  BY <1>1, RunAtHand DEF RunInv, RowAtHand
<1>g. /\ \A v \in Workers \ {w} : worker'[v] = worker[v]
      /\ worker'[w].pc = "finish" /\ worker'[w].job = worker[w].job /\ worker'[w].row = worker[w].row
      /\ worker'[w].ready = worker[w].ready /\ worker'[w].fails = worker[w].fails
  BY GotoChanges DEF MarkUnrun, AInv
<1>4. /\ audit' = [audit EXCEPT ![worker[w].row] = "failed"]
      /\ UNCHANGED <<scores, retry, charged, job, req, history>>
  BY DEF MarkUnrun, SetAudit
<1>5. audit'[worker[w].row] = "failed" /\ \A a \in Audits \ {worker[w].row} : audit'[a] = audit[a]
  BY <1>2, <1>4 DEF AInv, TypeOK
<1>6. Moves(w)
  BY <1>1, <1>g, <1>4, <1>5 DEF Moves, history
<1>7. RunInv(w)'
  <2>1. RowAtHand(w)' /\ FlagsAtHand(w)' /\ StatusAtHand(w)'
    BY <1>1, <1>2, <1>g, ConstantsAssumption
    DEF RunInv, RowAtHand, FlagsAtHand, StatusAtHand, Before, Measuring, Settling
  <2>2. ScoreAtHand(w)'
    BY <1>1, <1>2, <1>g, <1>4, <1>5
    DEF RunInv, ScoreAtHand, FlagsAtHand, Settling, Before, Measuring, history, Spare
  <2>3. RepeatAtHand(w)'
    BY <1>g DEF RepeatAtHand, Settling
  <2> QED BY <2>1, <2>2, <2>3 DEF RunInv
<1>8. RetryInv'
  BY <1>4, <1>6, MovesKeepRetries DEF AInv
<1> QED BY <1>1, <1>2, <1>4, <1>6, <1>7, <1>8, RunAtHand, MovesKeep DEF AInv, ChargedIsScored, history

LEMMA MarkFailedKeeps ==
  ASSUME AInv, TypeOK', NEW w \in Workers, MarkFailed(w)
  PROVE  AInv'
<1>1. worker[w].pc = "catch"
  BY DEF MarkFailed
<1>2. RunInv(w) /\ (worker[w].row # None => worker[w].row \in Audits) /\ worker[w].job \in JobId
  BY <1>1, RunAtHand
<1>g. /\ \A v \in Workers \ {w} : worker'[v] = worker[v]
      /\ worker'[w].pc = "finish" /\ worker'[w].job = worker[w].job /\ worker'[w].row = worker[w].row
      /\ worker'[w].ready = worker[w].ready /\ worker'[w].fails = worker[w].fails
  BY GotoChanges DEF MarkFailed, AInv
<1>4. UNCHANGED <<scores, retry, charged, job, req, comparable, cut, escaped, rowsOf, unsaved>>
  BY DEF MarkFailed
<1>5. /\ \A a \in Audits \ {worker[w].row} : audit'[a] = audit[a]
      /\ worker[w].row # None =>
           audit'[worker[w].row] \in {audit[worker[w].row], "failed"} /\ audit'[worker[w].row] # "none"
  <2>1. worker[w].row # None => audit[worker[w].row] # "none"
    BY <1>1, RunAtHand
  <2>2. audit' = audit \/ audit' = [audit EXCEPT ![worker[w].row] = "failed"]
    BY DEF MarkFailed
  <2> QED BY <1>2, <2>1, <2>2 DEF AInv, TypeOK
<1>6. Moves(w)
  BY <1>1, <1>g, <1>4, <1>5 DEF Moves
<1>7. RunInv(w)'
  <2>1. worker'[w].fails # "no"
    BY <1>1, <1>2, <1>g DEF RunInv, FlagsAtHand
  <2>2. RowAtHand(w)' /\ FlagsAtHand(w)' /\ StatusAtHand(w)'
    BY <1>g, <2>1 DEF RowAtHand, FlagsAtHand, StatusAtHand, Before, Measuring, Settling
  <2>3. worker[w].row # None => Spare(worker[w].row)
    BY <1>1, <1>2 DEF RunInv, ScoreAtHand, Settling
  <2>4. worker[w].row # None => Spare(worker[w].row)'
    BY <1>g, <1>4, <1>5, <2>3 DEF Spare
  <2>5. ScoreAtHand(w)'
    BY <1>g, <2>1, <2>4 DEF ScoreAtHand, Settling, Spare
  <2>6. RepeatAtHand(w)'
    BY <1>g DEF RepeatAtHand, Settling
  <2> QED BY <2>2, <2>5, <2>6 DEF RunInv
<1>8. RetryInv'
  BY <1>4, <1>6, MovesKeepRetries DEF AInv
<1> QED BY <1>1, <1>2, <1>4, <1>6, <1>7, <1>8, RunAtHand, MovesKeep DEF AInv, ChargedIsScored

\* A row whose run has ended early counts that run.
LEMMA CutCounts ==
  ASSUME AInv, NEW w \in Workers, worker[w].pc # "idle", CutShort(w)
  PROVE  /\ \A a \in Audits \ {worker[w].row} : cut'[a] = cut[a]
         /\ worker[w].row # None => cut'[worker[w].row] \in {cut[worker[w].row], cut[worker[w].row] + 1}
         /\ worker[w].row # None /\ Scored(w)
              => cut'[worker[w].row] = cut[worker[w].row] + 1
<1>1. worker[w].row # None => worker[w].row \in Audits
  BY RunAtHand
<1>2. cut \in [Audits -> Nat]
  BY DEF AInv, TypeOK
<1>3. CASE worker[w].row # None /\ Scored(w)
  <2>1. cut' = [cut EXCEPT ![worker[w].row] = cut[worker[w].row] + 1]
    BY <1>3 DEF CutShort
  <2> QED BY <1>1, <1>2, <1>3, <2>1
<1>4. CASE ~(worker[w].row # None /\ Scored(w))
  <2>1. cut' = cut
    BY <1>4 DEF CutShort
  <2> QED BY <1>4, <2>1
<1> QED BY <1>3, <1>4

LEMMA ThrowKeeps ==
  ASSUME AInv, TypeOK', NEW w \in Workers, CallFails(w),
         worker[w].pc \in {"insert", "mark_running", "refuse", "score", "complete", "charge"}
  PROVE  AInv'
<1>1. worker[w].pc # "idle" /\ worker \in [Workers -> WorkerRec] /\ worker[w] \in WorkerRec
  BY DEF AInv, TypeOK
<1>2. /\ RunInv(w) /\ worker[w].job \in JobId
      /\ worker[w].row # None => /\ worker[w].row \in Audits /\ audit[worker[w].row] # "none"
                                 /\ scores[worker[w].row] \in Nat /\ cut[worker[w].row] \in Nat
                                 /\ scores[worker[w].row] <= 1 + cut[worker[w].row]
  BY <1>1, RunAtHand
<1>3. /\ worker' = [worker EXCEPT ![w] = [@ EXCEPT !.pc = "catch", !.fails = "retry"]]
      /\ CutShort(w)
  BY DEF CallFails
<1>g. /\ \A v \in Workers \ {w} : worker'[v] = worker[v]
      /\ worker'[w].job = worker[w].job /\ worker'[w].row = worker[w].row
      /\ worker'[w].fails = "retry" /\ worker'[w].pc = "catch"
  BY <1>1, <1>3 DEF WorkerRec
<1>4. UNCHANGED <<audit, scores, retry, charged, job, req, comparable, escaped, rowsOf, unsaved>>
  BY DEF CallFails, tables
<1>5. /\ \A a \in Audits \ {worker[w].row} : cut'[a] = cut[a]
      /\ worker[w].row # None => cut'[worker[w].row] \in {cut[worker[w].row], cut[worker[w].row] + 1}
      /\ worker[w].row # None /\ Scored(w)
           => cut'[worker[w].row] = cut[worker[w].row] + 1
  BY <1>1, <1>3, CutCounts
<1>6. Moves(w)
  BY <1>1, <1>2, <1>g, <1>4, <1>5 DEF Moves
<1>7. worker[w].row # None => Spare(worker[w].row)'
  <2> HAVE worker[w].row # None
  <2>1. PICK c \in Nat, s \in Nat : c = cut[worker[w].row] /\ s = scores[worker[w].row] /\ s <= 1 + c
    BY <1>2
  <2>2. CASE worker[w].pc \in {"complete", "charge"}
    <3>1. Scored(w)
      BY <1>2, <2>2 DEF RunInv, FlagsAtHand, Measuring, Scored
    <3>2. cut'[worker[w].row] = c + 1
      BY <1>5, <2>1, <3>1
    <3>3. s <= c + 1 /\ c + 1 > 0
      BY <2>1
    <3> QED BY <1>4, <1>g, <2>1, <3>2, <3>3 DEF Spare
  <2>3. CASE worker[w].pc \notin {"complete", "charge"}
    <3>1. s <= c /\ (audit[worker[w].row] = "complete" => c > 0)
      BY <1>2, <2>1, <2>3 DEF RunInv, ScoreAtHand, Settling, Spare
    <3>2. cut'[worker[w].row] \in {c, c + 1}
      BY <1>5, <2>1
    <3>3. s <= cut'[worker[w].row] /\ (audit[worker[w].row] = "complete" => cut'[worker[w].row] > 0)
      BY <2>1, <3>1, <3>2
    <3> QED BY <1>4, <1>g, <2>1, <3>3 DEF Spare
  <2> QED BY <2>2, <2>3
<1>8. RunInv(w)'
  <2>1. RowAtHand(w)' /\ FlagsAtHand(w)' /\ StatusAtHand(w)'
    BY <1>g DEF RowAtHand, FlagsAtHand, StatusAtHand, Before, Measuring, Settling
  <2>2. ScoreAtHand(w)'
    BY <1>g, <1>7 DEF ScoreAtHand, Settling, Spare
  <2>3. RepeatAtHand(w)'
    BY <1>g DEF RepeatAtHand, Settling
  <2> QED BY <2>1, <2>2, <2>3 DEF RunInv
<1>9. RetryInv'
  BY <1>4, <1>6, MovesKeepRetries DEF AInv
<1>10. worker[w].row # None => scores'[worker[w].row] <= 1 + cut'[worker[w].row]
  BY <1>2, <1>4, <1>5
<1>11. worker[w].row \in charged' => scores'[worker[w].row] > 0
  BY <1>4 DEF AInv, ChargedIsScored
<1> QED BY <1>6, <1>8, <1>9, <1>10, <1>11, MovesKeep

LEMMA CaughtCallKeeps ==
  ASSUME AInv, TypeOK', NEW w \in Workers, CallFails(w), worker[w].pc \in {"enqueue", "record", "unrun"}
  PROVE  AInv'
<1>1. worker[w].pc # "idle" /\ worker \in [Workers -> WorkerRec] /\ worker[w] \in WorkerRec
  BY DEF AInv, TypeOK
<1>2. /\ RunInv(w) /\ worker[w].job \in JobId /\ worker[w].row # None /\ worker[w].row \in Audits
      /\ audit[worker[w].row] # "none"
  BY <1>1, RunAtHand DEF RunInv, RowAtHand
<1>4. UNCHANGED <<audit, scores, retry, charged, job, req, comparable, cut, escaped, rowsOf, unsaved>>
  BY DEF CallFails, tables
<1>g. /\ \A v \in Workers \ {w} : worker'[v] = worker[v]
      /\ worker'[w].job = worker[w].job /\ worker'[w].row = worker[w].row
      /\ worker'[w].ready = worker[w].ready
      /\ \/ /\ worker[w].pc = "unrun" /\ worker'[w].pc = "catch" /\ worker'[w].fails = "final"
         \/ /\ worker[w].pc \in {"enqueue", "record"} /\ worker'[w].pc = AfterPlan(w)
            /\ worker'[w].fails = worker[w].fails
  <2>1. CASE worker[w].pc = "unrun"
    <3>1. worker' = [worker EXCEPT ![w] = [@ EXCEPT !.pc = "catch", !.fails = "final"]]
      BY <2>1 DEF CallFails
    <3> QED BY <1>1, <2>1, <3>1 DEF WorkerRec
  <2>2. CASE worker[w].pc \in {"enqueue", "record"}
    <3>1. Goto(w, AfterPlan(w))
      BY <2>2 DEF CallFails
    <3> QED BY <2>2, <3>1, GotoChanges DEF AInv
  <2> QED BY <2>1, <2>2
<1>5. \/ worker[w].pc = "unrun" /\ worker'[w].pc = "catch" /\ worker'[w].fails = "final"
      \/ /\ worker[w].pc \in {"enqueue", "record"} /\ worker'[w].fails = worker[w].fails
         /\ \/ worker'[w].pc = "finish" /\ worker[w].ready
            \/ worker'[w].pc = "unrun" /\ ~worker[w].ready
  <2>1. \/ AfterPlan(w) = "finish" /\ worker[w].ready
        \/ AfterPlan(w) = "unrun" /\ ~worker[w].ready
    BY DEF AfterPlan
  <2> QED BY <1>g, <2>1
<1>6. Moves(w)
  <2>1. worker'[w].pc # "idle" /\ (worker[w].pc # "update_data")
    BY <1>5
  <2> QED BY <1>1, <1>2, <1>g, <1>4, <2>1 DEF Moves
<1>7. RunInv(w)'
  <2>1. RowAtHand(w)' /\ FlagsAtHand(w)' /\ StatusAtHand(w)'
    BY <1>2, <1>g, <1>4, <1>5, ConstantsAssumption
    DEF RunInv, RowAtHand, FlagsAtHand, StatusAtHand, Before, Measuring, Settling
  <2>2. ScoreAtHand(w)'
    BY <1>2, <1>g, <1>4, <1>5
    DEF RunInv, ScoreAtHand, FlagsAtHand, Settling, Paid, Spare
  <2>3. RepeatAtHand(w)'
    BY <1>5 DEF RepeatAtHand, Settling
  <2> QED BY <2>1, <2>2, <2>3 DEF RunInv
<1>8. RetryInv'
  BY <1>4, <1>6, MovesKeepRetries DEF AInv
<1>9. worker[w].pc # "update_data"
  OBVIOUS
<1> QED BY <1>1, <1>2, <1>4, <1>6, <1>7, <1>8, <1>9, RunAtHand, MovesKeep DEF AInv, ChargedIsScored

-----------------------------------------------------------------------------
(* Who has a row changes *)

\* a run that has no row has none that anybody else has, and every row had is in the table
LEMMA FreshRowIsNobodys ==
  ASSUME TypeOK, Ownership, NEW n \in Audits, audit[n] = "none"
  PROVE  /\ \A w \in Workers : worker[w].row # n
         /\ \A j \in JobId : job[j].row # n
         /\ \A r \in Requests : req[r].row # n
         /\ \A j \in JobId : IsRepeat(j) /\ job[j].state # "none" => j[2] # n
         /\ job[Manual(n)].state = "none"
<1>1. n # None
  BY ConstantsAssumption
<1>2. \A j \in JobId : job[j].row # n
  BY <1>1 DEF Ownership, RowsOfJobs
<1> QED BY <1>1, <1>2, JobKinds DEF Ownership, RowsOfJobs, RowsOfRuns, RowsOfRequests, RepeatsHaveOrigins

\* a new row of the table, pending
Opens(n) ==
  /\ n \in Audits /\ audit[n] = "none" /\ audit'[n] = "pending"
  /\ \A a \in Audits \ {n} : audit'[a] = audit[a]
  /\ UNCHANGED <<scores, retry, charged, job, comparable, cut, escaped, unsaved>>

LEMMA OpeningKeepsTheRest ==
  ASSUME AInv, TypeOK', NEW n, Opens(n)
  PROVE  /\ \A v \in Workers : worker'[v] = worker[v] => RunInv(v)'
         /\ \A j \in JobId : (HasRun(j) => HasRun(j)') => JobInv(j)'
         /\ RetryInv' /\ ScoresExplained' /\ ChargedIsScored' /\ RowsOfJobs' /\ FreshRows'
         /\ \A a \in Audits : audit[a] # "none" => audit'[a] = audit[a]
<1>1. n \in Audits /\ audit[n] = "none" /\ audit'[n] = "pending"
  BY DEF Opens
<1>2. \A a \in Audits : audit[a] # "none" => audit'[a] = audit[a]
  BY DEF Opens
<1>3. /\ \A w \in Workers : worker[w].row # n
      /\ \A j \in JobId : job[j].row # n
  BY <1>1, FreshRowIsNobodys DEF AInv
<1>4. ASSUME NEW v \in Workers, worker'[v] = worker[v] PROVE RunInv(v)'
  <2>1. worker[v].row # None => worker[v].row \in Audits
    BY DEF AInv, TypeOK, WorkerRec
  <2>2. Untouched(v) /\ JobsStay
    BY <1>3, <1>4, <2>1 DEF Untouched, AsItWas, JobsStay, Opens
  <2> QED BY <2>2, UntouchedRunKeeps DEF AInv
<1>5. ASSUME NEW j \in JobId, HasRun(j) => HasRun(j)' PROVE JobInv(j)'
  <2>1. job[j].row # None => job[j].row \in Audits
    BY DEF AInv, TypeOK, JobRec
  <2>2. job[j].row # None => AsItWas(job[j].row)
    BY <1>3, <2>1 DEF AsItWas, Opens
  <2>3. job'[j].state = job[j].state /\ job'[j].row = job[j].row /\ JobInv(j)
    BY DEF Opens, AInv
  <2> QED BY <1>5, <2>2, <2>3, UntouchedJobKeeps
<1>6. RetryInv'
  BY RetriesKeep DEF AInv, JobsStay, Opens
<1>7. ScoresExplained' /\ ChargedIsScored'
  BY DEF AInv, ScoresExplained, ChargedIsScored, Opens
<1>8. RowsOfJobs'
  <2>1. \A j \in JobId : job[j].row # None => job[j].row \in Audits
    BY DEF AInv, TypeOK, JobRec
  <2> QED BY <1>2, <2>1 DEF AInv, Ownership, RowsOfJobs, Opens
<1>9. FreshRows'
  BY <1>1, <1>2 DEF AInv, Ownership, FreshRows, Opens
<1> QED BY <1>2, <1>4, <1>5, <1>6, <1>7, <1>8, <1>9

LEMMA InsertRowKeeps ==
  ASSUME AInv, TypeOK', NEW w \in Workers, InsertRow(w)
  PROVE  AInv'
<1>1. worker[w].pc = "insert" /\ worker \in [Workers -> WorkerRec] /\ worker[w] \in WorkerRec
  BY DEF InsertRow, AInv, TypeOK
<1>2. /\ RunInv(w) /\ worker[w].job \in JobId /\ worker[w].row = None
      /\ job[worker[w].job].state = "active" /\ job[worker[w].job].lock = w
      /\ job[worker[w].job].row = None
  BY <1>1, RunAtHand DEF RunInv, RowAtHand
<1>3. PICK n \in Audits : n = NewAudit /\ audit[n] = "none"
  BY NewAuditIsFresh DEF InsertRow
<1>4. Opens(n) /\ req' = req
  BY <1>3 DEF InsertRow, SetAudit, Opens, AInv, TypeOK
<1>g. /\ \A v \in Workers \ {w} : worker'[v] = worker[v]
      /\ worker'[w].job = worker[w].job /\ worker'[w].row = n
      /\ worker'[w].ready = worker[w].ready /\ worker'[w].fails = worker[w].fails
      /\ worker'[w].pc = "update_data"
  <2>1. worker' = [worker EXCEPT ![w] = [@ EXCEPT !.pc = "update_data", !.row = n]]
    BY <1>3 DEF InsertRow
  <2> QED BY <1>1, <2>1 DEF WorkerRec
<1>h. \A j \in JobId : HasRun(j) <=> HasRun(j)'
  BY <1>1, <1>g DEF HasRun
<1>n. /\ n # None /\ \A v \in Workers : worker[v].row # n
      /\ \A j \in JobId : job[j].row # n
      /\ \A r \in Requests : req[r].row # n
      /\ \A j \in JobId : IsRepeat(j) /\ job[j].state # "none" => j[2] # n
  BY <1>3, FreshRowIsNobodys, ConstantsAssumption DEF AInv
<1>k. job' = job /\ scores' = scores /\ cut' = cut
  BY <1>4 DEF Opens
<1>a. /\ audit'[n] = "pending"
      /\ \A a \in Audits : audit[a] # "none" => audit'[a] = audit[a]
  BY <1>4, OpeningKeepsTheRest DEF Opens
<1>5. Ownership'
  <2>1. JobsHeld'
    BY <1>1, <1>2, <1>g, <1>k DEF AInv, Ownership, JobsHeld
  <2>2. RowsOfJobs' /\ FreshRows'
    BY <1>4, OpeningKeepsTheRest
  <2>3. RowsOfRuns'
    <3>1. \A v \in Workers : worker[v].row # None => worker[v].row \in Audits
      BY DEF AInv, TypeOK, WorkerRec
    <3> QED BY <1>2, <1>g, <1>k, <1>a, <1>n, <3>1 DEF AInv, Ownership, RowsOfRuns
  <2>4. RowsOfRequests'
    <3>1. \A r \in Requests : req[r].row # None => req[r].row \in Audits
      BY DEF AInv, TypeOK
    <3> QED BY <1>2, <1>4, <1>g, <1>k, <1>a, <1>n, <3>1 DEF AInv, Ownership, RowsOfRequests
  <2>5. RepeatsHaveOrigins'
    BY <1>2, <1>g, <1>k, <1>a, <1>n, JobKinds DEF AInv, Ownership, RepeatsHaveOrigins
  <2> QED BY <2>1, <2>2, <2>3, <2>4, <2>5 DEF Ownership
<1>6. RunInv(w)'
  <2>1. scores[n] = 0 /\ cut[n] \in Nat
    BY <1>3 DEF AInv, TypeOK, Ownership, FreshRows
  <2>2. RowAtHand(w)' /\ FlagsAtHand(w)' /\ StatusAtHand(w)' /\ RepeatAtHand(w)'
    BY <1>1, <1>2, <1>g, <1>k, <1>a, <1>n
    DEF RunInv, RowAtHand, FlagsAtHand, StatusAtHand, RepeatAtHand, Before, Measuring, Settling
  <2>3. Spare(worker[w].row)'
    BY <1>g, <1>k, <1>a, <2>1 DEF Spare
  <2>4. ScoreAtHand(w)'
    BY <1>g, <2>3 DEF ScoreAtHand, Settling, Spare
  <2> QED BY <2>2, <2>4 DEF RunInv
<1>7. \A v \in Workers : RunInv(v)'
  BY <1>4, <1>6, <1>g, OpeningKeepsTheRest
<1>8. \A j \in JobId : JobInv(j)'
  BY <1>4, <1>h, OpeningKeepsTheRest
<1>9. \A j \in JobId : RowsInv(j)'
  <2> TAKE j \in JobId
  <2>1. rowsOf' = [rowsOf EXCEPT ![worker[w].job] = rowsOf[worker[w].job] + 1]
        /\ unsaved' = unsaved
    BY DEF InsertRow
  <2>2. rowsOf \in [JobId -> Nat] /\ unsaved \in [JobId -> Nat]
    BY DEF AInv, TypeOK
  <2>3. CASE j = worker[w].job
    <3>1. ~Naming(j)
      BY <1>1, <1>2, <2>3 DEF Naming, AInv, Ownership, JobsHeld
    <3>2. rowsOf[j] <= unsaved[j]
      BY <1>2, <2>3, <3>1 DEF AInv, RowsInv
    <3>3. Naming(j)'
      BY <1>g, <2>3 DEF Naming
    <3>4. rowsOf'[j] = rowsOf[j] + 1
      BY <2>1, <2>2, <2>3
    <3> QED BY <2>1, <2>2, <3>2, <3>3, <3>4 DEF RowsInv
  <2>4. CASE j # worker[w].job
    <3>1. Naming(j) => Naming(j)'
      BY <1>1, <1>g DEF Naming
    <3>2. rowsOf'[j] = rowsOf[j]
      BY <2>1, <2>2, <2>4
    <3> QED BY <1>k, <2>1, <3>1, <3>2 DEF AInv, RowsInv
  <2> QED BY <2>3, <2>4
<1> QED BY <1>4, <1>5, <1>7, <1>8, <1>9, OpeningKeepsTheRest DEF AInv

LEMMA UpdateDataKeeps ==
  ASSUME AInv, TypeOK', NEW w \in Workers, UpdateData(w)
  PROVE  AInv'
<1>1. worker[w].pc = "update_data" /\ worker \in [Workers -> WorkerRec] /\ worker[w] \in WorkerRec
  BY DEF UpdateData, AInv, TypeOK
<1>2. /\ RunInv(w) /\ worker[w].job \in JobId /\ worker[w].row # None /\ worker[w].row \in Audits
      /\ job[worker[w].job].state = "active" /\ job[worker[w].job].lock = w
      /\ job[worker[w].job].row = None /\ audit[worker[w].row] # "none"
  BY <1>1, RunAtHand DEF RunInv, RowAtHand
<1>3. PICK i \in JobId, n \in Audits : i = worker[w].job /\ n = worker[w].row
  BY <1>2
<1>g. /\ \A v \in Workers \ {w} : worker'[v] = worker[v]
      /\ worker'[w].job = i /\ worker'[w].row = n
      /\ worker'[w].ready = worker[w].ready /\ worker'[w].fails = worker[w].fails
      /\ worker'[w].pc = "mark_running"
  <2>1. PICK still \in BOOLEAN :
          worker' = [worker EXCEPT ![w] = [@ EXCEPT !.pc = "mark_running", !.scheduled = still]]
    BY DEF UpdateData
  <2> QED BY <1>1, <1>3, <2>1 DEF WorkerRec
<1>4. UNCHANGED <<audit, scores, retry, charged, req, comparable, cut, escaped, rowsOf>>
  BY DEF UpdateData, tables
<1>j. /\ \A j \in JobId : j # i => job'[j] = job[j]
      /\ job'[i].state = "active" /\ job'[i].lock = w
      /\ \/ job'[i].row = n /\ unsaved' = unsaved
         \/ job'[i].row = None /\ unsaved' = [unsaved EXCEPT ![i] = unsaved[i] + 1]
  <2>1. job \in [JobId -> JobRec] /\ job[i] \in JobRec
    BY DEF AInv, TypeOK
  <2>2. \/ job' = [job EXCEPT ![i].row = n] /\ unsaved' = unsaved
        \/ job' = job /\ unsaved' = [unsaved EXCEPT ![i] = unsaved[i] + 1]
    BY <1>3 DEF UpdateData
  <2> QED BY <1>2, <1>3, <2>1, <2>2 DEF JobRec
<1>h. \A j \in JobId : HasRun(j) <=> HasRun(j)'
  BY <1>1, <1>3, <1>g DEF HasRun
<1>i. \A a \in Audits : Manual(a) # i
  <2>1. \A a \in Audits : job[Manual(a)].state # "none" => job[Manual(a)].row = a
    BY DEF AInv, Ownership, RowsOfJobs
  <2> QED BY <1>2, <1>3, <2>1, ConstantsAssumption
<1>o. \A j \in JobId : job[j].row # n
  BY <1>2, <1>3 DEF AInv, Ownership, RowsOfRuns
<1>5. Ownership'
  <2>1. JobsHeld'
    BY <1>1, <1>2, <1>3, <1>g, <1>j DEF AInv, Ownership, JobsHeld
  <2>2. RowsOfJobs'
    <3>1. \A j \in JobId : job'[j].state = "none" => job'[j] = NoJob
      BY <1>j DEF AInv, Ownership, RowsOfJobs
    <3>2. \A j \in JobId : job'[j].row # None => audit[job'[j].row] # "none"
      BY <1>2, <1>3, <1>j DEF AInv, Ownership, RowsOfJobs
    <3>3. \A j, k \in JobId : job'[j].row # None /\ job'[j].row = job'[k].row => j = k
      BY <1>o, <1>j DEF AInv, Ownership, RowsOfJobs
    <3>4. \A a \in Audits : job'[Manual(a)].state # "none" => job'[Manual(a)].row = a
      BY <1>i, <1>j, JobKinds DEF AInv, Ownership, RowsOfJobs
    <3> QED BY <1>4, <3>1, <3>2, <3>3, <3>4 DEF RowsOfJobs
  <2>3. RowsOfRuns'
    BY <1>2, <1>3, <1>4, <1>g, <1>j DEF AInv, Ownership, RowsOfRuns
  <2>4. RowsOfRequests'
    <3>1. \A r \in Requests : req[r].row # None => req[r].row # n
      BY <1>2, <1>3, <1>i DEF AInv, Ownership, RowsOfRequests
    <3>2. \A r \in Requests : req[r].row # None =>
            req[r].row \in Audits /\ Manual(req[r].row) \in JobId /\ Manual(req[r].row) # i
      BY <1>i, JobKinds DEF AInv, TypeOK
    <3>3. \A v \in Workers : worker'[v].row = worker[v].row /\ worker'[v].job = worker[v].job
      BY <1>3, <1>g
    <3>4. \A j \in JobId : job'[j].row # n => job'[j].row = job[j].row
      BY <1>2, <1>3, <1>j
    <3> QED BY <1>4, <1>j, <3>1, <3>2, <3>3, <3>4 DEF AInv, Ownership, RowsOfRequests
  <2>5. FreshRows'
    BY <1>4 DEF AInv, Ownership, FreshRows
  <2>6. RepeatsHaveOrigins'
    <3>1. IsRepeat(i) => n # i[2] /\ audit[i[2]] # "none" /\ i[2] # None
      BY <1>1, <1>2, <1>3, JobKinds, ConstantsAssumption DEF AInv, Ownership, RepeatsHaveOrigins
    <3>2. \A v \in Workers : worker'[v].row = worker[v].row /\ worker'[v].job = worker[v].job
                               /\ (worker'[v].pc = "idle" <=> worker[v].pc = "idle")
      BY <1>1, <1>3, <1>g
    <3> QED BY <1>4, <1>j, <3>1, <3>2 DEF AInv, Ownership, RepeatsHaveOrigins
  <2> QED BY <2>1, <2>2, <2>3, <2>4, <2>5, <2>6 DEF Ownership
<1>6. RunInv(w)'
  <2>1. RowAtHand(w)' /\ FlagsAtHand(w)' /\ StatusAtHand(w)' /\ RepeatAtHand(w)'
    BY <1>1, <1>2, <1>3, <1>g, <1>4
    DEF RunInv, RowAtHand, FlagsAtHand, StatusAtHand, RepeatAtHand, Before, Measuring, Settling
  <2>2. ScoreAtHand(w)'
    BY <1>1, <1>2, <1>3, <1>g, <1>4 DEF RunInv, ScoreAtHand, Settling, Spare
  <2> QED BY <2>1, <2>2 DEF RunInv
<1>7. \A v \in Workers : RunInv(v)'
  <2> SUFFICES ASSUME NEW v \in Workers, v # w PROVE RunInv(v)'
    BY <1>6
  <2>1. worker[v].pc # "idle" => worker[v].job \in JobId /\ worker[v].job # i
    BY <1>2, <1>3 DEF AInv, Ownership, JobsHeld
  <2>2. Untouched(v) /\ JobsStay
    BY <1>4, <1>g, <1>j, <2>1 DEF Untouched, AsItWas, JobsStay
  <2> QED BY <2>2, UntouchedRunKeeps DEF AInv
<1>8. \A j \in JobId : JobInv(j)'
  <2> TAKE j \in JobId
  <2>1. CASE j = i
    BY <1>1, <1>3, <1>h, <1>j, <2>1 DEF JobInv, HasRun
  <2>2. CASE j # i
    BY <1>4, <1>h, <1>j, <2>2, UntouchedJobKeeps DEF AInv, AsItWas
  <2> QED BY <2>1, <2>2
<1>9. \A j \in JobId : RowsInv(j)'
  <2> TAKE j \in JobId
  <2>1. rowsOf[j] \in Nat /\ unsaved[j] \in Nat /\ unsaved \in [JobId -> Nat] /\ RowsInv(j)
    BY DEF AInv, TypeOK
  <2>2. CASE j = i
    <3>1. CASE job'[i].row = n /\ unsaved' = unsaved
      BY <1>2, <1>3, <1>4, <2>1, <2>2, <3>1 DEF RowsInv
    <3>2. CASE job'[i].row = None /\ unsaved' = [unsaved EXCEPT ![i] = unsaved[i] + 1]
      <4>1. unsaved'[j] = unsaved[j] + 1
        BY <2>1, <2>2, <3>2
      <4> QED BY <1>4, <2>1, <4>1 DEF RowsInv
    <3> QED BY <1>j, <3>1, <3>2
  <2>3. CASE j # i
    <3>1. Naming(j) => Naming(j)'
      BY <1>3, <1>g, <2>3 DEF Naming
    <3>2. unsaved'[j] = unsaved[j] /\ job'[j] = job[j]
      BY <1>j, <2>1, <2>3
    <3> QED BY <1>4, <2>1, <3>1, <3>2 DEF RowsInv
  <2> QED BY <2>2, <2>3
<1>10. RetryInv' /\ ScoresExplained' /\ ChargedIsScored'
  <2>1. JobsStay /\ comparable \subseteq comparable'
    BY <1>4, <1>j DEF JobsStay
  <2> QED BY <1>4, <2>1, RetriesKeep DEF AInv, ScoresExplained, ChargedIsScored
<1> QED BY <1>5, <1>7, <1>8, <1>9, <1>10 DEF AInv

LEMMA TakeKeeps ==
  ASSUME AInv, TypeOK', NEW w \in Workers, NEW i \in JobId, Take(w, i)
  PROVE  AInv'
<1>1. /\ worker[w].pc = "idle" /\ worker \in [Workers -> WorkerRec] /\ worker[w].row = None
      /\ job[i].state = "waiting" /\ job \in [JobId -> JobRec] /\ job[i] \in JobRec
  BY DEF Take, AInv, TypeOK, Ownership, JobsHeld
<1>2. UNCHANGED <<audit, scores, retry, charged, req, history>>
  BY DEF Take, tables
<1>g. /\ \A v \in Workers \ {w} : worker'[v] = worker[v]
      /\ worker'[w].job = i /\ worker'[w].row = job[i].row
      /\ worker'[w].ready /\ worker'[w].fails = "no"
      /\ job[i].row = None => worker'[w].pc = "insert"
      /\ job[i].row # None => worker'[w].pc = "mark_running"
  BY <1>1 DEF Take, IdleWorker
<1>p. worker'[w].pc \in {"insert", "mark_running"}
  BY <1>g
<1>j. /\ \A j \in JobId : j # i => job'[j] = job[j]
      /\ job'[i].state = "active" /\ job'[i].lock = w /\ job'[i].row = job[i].row
  BY <1>1 DEF Take, JobRec
<1>r. \A j \in JobId : job'[j].row = job[j].row
  BY <1>j
<1>n. ~HasRun(i) /\ \A v \in Workers : worker[v].pc # "idle" => worker[v].job # i
  BY <1>1 DEF HasRun, AInv, Ownership, JobsHeld
<1>h. \A j \in JobId : j # i => (HasRun(j) => HasRun(j)')
  BY <1>1, <1>g DEF HasRun
<1>o. job[i].row # None => \A v \in Workers : worker[v].row # job[i].row
  BY <1>n DEF AInv, Ownership, RowsOfRuns, JobsHeld
<1>5. Ownership'
  <2>1. JobsHeld'
    BY <1>n, <1>g, <1>p, <1>j DEF AInv, Ownership, JobsHeld
  <2>2. RowsOfJobs'
    <3>1. \A j \in JobId : job'[j].state = "none" => job'[j] = NoJob
      BY <1>j DEF AInv, Ownership, RowsOfJobs
    <3>2. \A a \in Audits : job'[Manual(a)].state # "none" => job'[Manual(a)].row = a
      BY <1>1, <1>j, JobKinds DEF AInv, Ownership, RowsOfJobs
    <3> QED BY <1>2, <1>r, <3>1, <3>2 DEF AInv, Ownership, RowsOfJobs
  <2>3. RowsOfRuns'
    BY <1>2, <1>g, <1>r, <1>o DEF AInv, Ownership, RowsOfRuns, RowsOfJobs
  <2>4. RowsOfRequests'
    <3>1. \A r \in Requests : req[r].row = job[i].row /\ req[r].row # None => i = Manual(req[r].row)
      BY DEF AInv, Ownership, RowsOfRequests
    <3>2. \A v \in Workers : \/ worker'[v].row = worker[v].row /\ worker'[v].job = worker[v].job
                             \/ worker'[v].row = job[i].row /\ worker'[v].job = i
      BY <1>g
    <3>3. \A r \in Requests : req[r].pc \in {"enqueue", "mark"} =>
            req[r].row # None /\ req[r].row \in Audits /\ Manual(req[r].row) \in JobId
            /\ Manual(req[r].row) # i
      BY <1>1, JobKinds DEF AInv, TypeOK, Ownership, RowsOfRequests
    <3> QED BY <1>2, <1>r, <1>j, <3>1, <3>2, <3>3 DEF AInv, Ownership, RowsOfRequests
  <2>5. FreshRows'
    BY <1>2 DEF AInv, Ownership, FreshRows
  <2>6. RepeatsHaveOrigins'
    BY <1>1, <1>2, <1>g, <1>j DEF AInv, Ownership, RepeatsHaveOrigins
  <2> QED BY <2>1, <2>2, <2>3, <2>4, <2>5, <2>6 DEF Ownership
<1>6. RunInv(w)'
  <2>1. RowAtHand(w)' /\ FlagsAtHand(w)' /\ StatusAtHand(w)' /\ RepeatAtHand(w)'
    BY <1>g, <1>p DEF RowAtHand, FlagsAtHand, StatusAtHand, RepeatAtHand, Before, Measuring, Settling
  <2>2. job[i].row # None => Spare(job[i].row)
    BY <1>1, <1>n DEF AInv, JobInv
  <2>3. ScoreAtHand(w)'
    BY <1>2, <1>g, <1>p, <2>2 DEF ScoreAtHand, Settling, Spare, history
  <2> QED BY <2>1, <2>3 DEF RunInv
<1>7. \A v \in Workers : RunInv(v)'
  <2> SUFFICES ASSUME NEW v \in Workers, v # w PROVE RunInv(v)'
    BY <1>6
  <2>1. Untouched(v) /\ JobsStay
    BY <1>2, <1>g, <1>j, <1>r DEF AInv, Ownership, JobsHeld, Untouched, AsItWas, JobsStay, history
  <2> QED BY <2>1, UntouchedRunKeeps DEF AInv
<1>8. \A j \in JobId : JobInv(j)'
  <2> TAKE j \in JobId
  <2>1. CASE j = i
    <3>1. HasRun(j)'
      BY <1>g, <1>p, <2>1 DEF HasRun
    <3> QED BY <1>j, <2>1, <3>1 DEF JobInv
  <2>2. CASE j # i
    BY <1>2, <1>h, <1>j, <2>2, UntouchedJobKeeps DEF AInv, AsItWas, history
  <2> QED BY <2>1, <2>2
<1>9. \A j \in JobId : RowsInv(j)'
  <2> TAKE j \in JobId
  <2>1. Naming(j) => Naming(j)'
    BY <1>1, <1>g DEF Naming
  <2> QED BY <1>2, <1>r, <2>1 DEF AInv, RowsInv, history
<1>10. RetryInv' /\ ScoresExplained' /\ ChargedIsScored'
  <2>1. JobsStay /\ comparable \subseteq comparable'
    BY <1>2, <1>j DEF JobsStay, history
  <2> QED BY <1>2, <2>1, RetriesKeep DEF AInv, ScoresExplained, ChargedIsScored, history
<1> QED BY <1>5, <1>7, <1>8, <1>9, <1>10 DEF AInv

LEMMA FinishKeeps ==
  ASSUME AInv, TypeOK', NEW w \in Workers, Finish(w)
  PROVE  AInv'
<1>1. worker[w].pc = "finish" /\ worker \in [Workers -> WorkerRec] /\ job \in [JobId -> JobRec]
  BY DEF Finish, AInv, TypeOK
<1>2. /\ RunInv(w) /\ worker[w].job \in JobId
      /\ job[worker[w].job].state = "active" /\ job[worker[w].job].lock = w
      /\ job[worker[w].job].row \in {None, worker[w].row}
  BY <1>1, RunAtHand
<1>3. PICK i \in JobId : i = worker[w].job
  BY <1>2
<1>4. UNCHANGED <<audit, scores, retry, charged, req, history>>
  BY DEF Finish, tables
<1>g. /\ \A v \in Workers \ {w} : worker'[v] = worker[v]
      /\ worker'[w].pc = "idle" /\ worker'[w].row = None
  BY <1>1 DEF Finish, IdleWorker
<1>j. /\ \A j \in JobId : j # i => job'[j] = job[j]
      /\ job'[i].row = job[i].row
      /\ \/ job'[i].state = "completed" /\ worker[w].fails = "no"
         \/ job'[i].state \in {"waiting", "failed"} /\ worker[w].fails # "no"
  <2>1. job[i] \in JobRec
    BY <1>1
  <2> QED BY <1>1, <1>3, <2>1 DEF Finish, JobRec
<1>s. job'[i].state # "none" /\ job'[i].state # "active"
  BY <1>j
<1>r. \A j \in JobId : job'[j].row = job[j].row
  BY <1>j
<1>n. \A v \in Workers \ {w} : worker[v].pc # "idle" => worker[v].job # i
  BY <1>2, <1>3 DEF AInv, Ownership, JobsHeld
<1>h. \A j \in JobId : j # i => (HasRun(j) => HasRun(j)')
  BY <1>3, <1>g DEF HasRun
<1>5. Ownership'
  <2>1. JobsHeld'
    BY <1>n, <1>g, <1>j DEF AInv, Ownership, JobsHeld
  <2>2. RowsOfJobs'
    <3>1. \A j \in JobId : job'[j].state = "none" => job'[j] = NoJob
      BY <1>j, <1>s DEF AInv, Ownership, RowsOfJobs
    <3>2. \A a \in Audits : job'[Manual(a)].state # "none" => job'[Manual(a)].row = a
      BY <1>2, <1>3, <1>j, JobKinds DEF AInv, Ownership, RowsOfJobs
    <3> QED BY <1>4, <1>r, <3>1, <3>2 DEF AInv, Ownership, RowsOfJobs
  <2>3. RowsOfRuns'
    BY <1>4, <1>g, <1>r DEF AInv, Ownership, RowsOfRuns
  <2>4. RowsOfRequests'
    <3>1. \A r \in Requests : req[r].pc \in {"enqueue", "mark"} =>
            req[r].row # None /\ req[r].row \in Audits /\ Manual(req[r].row) \in JobId
            /\ Manual(req[r].row) # i
      BY <1>2, <1>3, JobKinds DEF AInv, TypeOK, Ownership, RowsOfRequests
    <3> QED BY <1>4, <1>r, <1>j, <1>g, <3>1 DEF AInv, Ownership, RowsOfRequests
  <2>5. FreshRows'
    BY <1>4 DEF AInv, Ownership, FreshRows
  <2>6. RepeatsHaveOrigins'
    BY <1>2, <1>3, <1>4, <1>g, <1>j DEF AInv, Ownership, RepeatsHaveOrigins
  <2> QED BY <2>1, <2>2, <2>3, <2>4, <2>5, <2>6 DEF Ownership
<1>7. \A v \in Workers : RunInv(v)'
  <2> TAKE v \in Workers
  <2>1. CASE v = w
    BY <1>g, <2>1 DEF RunInv, RowAtHand, FlagsAtHand, StatusAtHand, ScoreAtHand, RepeatAtHand, Before, Measuring, Settling
  <2>2. CASE v # w
    <3>1. Untouched(v) /\ JobsStay
      BY <1>4, <1>g, <1>j, <1>r, <1>s, <2>2
      DEF AInv, Ownership, JobsHeld, Untouched, AsItWas, JobsStay, history
    <3> QED BY <3>1, UntouchedRunKeeps DEF AInv
  <2> QED BY <2>1, <2>2
<1>8. \A j \in JobId : JobInv(j)'
  <2> TAKE j \in JobId
  <2>1. CASE j = i
    <3> SUFFICES ASSUME job[j].row # None PROVE JobInv(j)'
      BY <1>r DEF JobInv
    <3>1. job[j].row = worker[w].row
      BY <1>2, <1>3, <2>1
    <3>2. worker[w].fails # "no" => Spare(job[j].row)
      BY <1>2, <3>1 DEF RunInv, ScoreAtHand
    <3>3. worker[w].fails = "no" => (audit[job[j].row] = "complete" => Paid(job[j].row))
      BY <1>1, <1>2, <3>1 DEF RunInv, ScoreAtHand
    <3> QED BY <1>4, <1>j, <1>s, <2>1, <3>2, <3>3 DEF JobInv, Spare, Paid, history
  <2>2. CASE j # i
    BY <1>4, <1>h, <1>j, <2>2, UntouchedJobKeeps DEF AInv, AsItWas, history
  <2> QED BY <2>1, <2>2
<1>9. \A j \in JobId : RowsInv(j)'
  <2> TAKE j \in JobId
  <2>1. Naming(j) => Naming(j)'
    BY <1>1, <1>g DEF Naming
  <2> QED BY <1>4, <1>r, <2>1 DEF AInv, RowsInv, history
<1>10. RetryInv' /\ ScoresExplained' /\ ChargedIsScored'
  <2>1. JobsStay /\ comparable \subseteq comparable'
    BY <1>4, <1>j, <1>s DEF JobsStay, history
  <2> QED BY <1>4, <2>1, RetriesKeep DEF AInv, ScoresExplained, ChargedIsScored, history
<1> QED BY <1>5, <1>7, <1>8, <1>9, <1>10 DEF AInv

LEMMA CrashKeeps ==
  ASSUME AInv, TypeOK', NEW w \in Workers, Crash(w)
  PROVE  AInv'
<1>1. worker[w].pc # "idle" /\ worker \in [Workers -> WorkerRec] /\ CutShort(w)
  BY DEF Crash, AInv, TypeOK
<1>2. /\ RunInv(w) /\ worker[w].job \in JobId
      /\ job[worker[w].job].state = "active" /\ job[worker[w].job].lock = w
      /\ job[worker[w].job].row \in {None, worker[w].row}
      /\ worker[w].row # None => /\ worker[w].row \in Audits
                                 /\ scores[worker[w].row] \in Nat /\ cut[worker[w].row] \in Nat
                                 /\ scores[worker[w].row] <= 1 + cut[worker[w].row]
  BY <1>1, RunAtHand
<1>3. PICK i \in JobId : i = worker[w].job
  BY <1>2
<1>4. UNCHANGED <<audit, scores, retry, charged, job, req, comparable, escaped, rowsOf>>
  BY DEF Crash, tables
<1>g. /\ \A v \in Workers \ {w} : worker'[v] = worker[v]
      /\ worker'[w].pc = "idle" /\ worker'[w].row = None
  BY <1>1 DEF Crash, IdleWorker
<1>c. /\ \A a \in Audits \ {worker[w].row} : cut'[a] = cut[a]
      /\ worker[w].row # None => cut'[worker[w].row] \in {cut[worker[w].row], cut[worker[w].row] + 1}
      /\ worker[w].row # None /\ Scored(w)
           => cut'[worker[w].row] = cut[worker[w].row] + 1
  BY <1>1, CutCounts
<1>h. \A j \in JobId : j # i => (HasRun(j) => HasRun(j)')
  BY <1>3, <1>g DEF HasRun
<1>s. worker[w].row # None => scores[worker[w].row] <= cut'[worker[w].row]
                                /\ (audit[worker[w].row] = "complete" => cut'[worker[w].row] > 0)
  <2> HAVE worker[w].row # None
  <2>1. PICK a \in Audits, c \in Nat, s \in Nat :
          a = worker[w].row /\ c = cut[a] /\ s = scores[a] /\ s <= 1 + c
    BY <1>2
  <2>2. CASE Scored(w)
    <3>1. cut'[a] = c + 1
      BY <1>c, <2>1, <2>2
    <3> QED BY <2>1, <3>1
  <2>3. CASE ~Scored(w)
    <3>1. Spare(a)
      BY <1>2, <2>1, <2>3 DEF RunInv, ScoreAtHand, Scored, Settling
    <3>2. cut'[a] \in {c, c + 1}
      BY <1>c, <2>1
    <3>3. s <= c /\ (audit[a] = "complete" => c > 0)
      BY <2>1, <3>1 DEF Spare
    <3> QED BY <2>1, <3>2, <3>3
  <2> QED BY <2>2, <2>3
<1>5. Ownership'
  <2>1. JobsHeld'
    BY <1>g, <1>4 DEF AInv, Ownership, JobsHeld
  <2>2. RowsOfJobs' /\ FreshRows'
    BY <1>4 DEF AInv, Ownership, RowsOfJobs, FreshRows
  <2>3. RowsOfRuns' /\ RowsOfRequests'
    BY <1>4, <1>g DEF AInv, Ownership, RowsOfRuns, RowsOfRequests
  <2>4. RepeatsHaveOrigins'
    BY <1>4, <1>g DEF AInv, Ownership, RepeatsHaveOrigins
  <2> QED BY <2>1, <2>2, <2>3, <2>4 DEF Ownership
<1>7. \A v \in Workers : RunInv(v)'
  <2> TAKE v \in Workers
  <2>1. CASE v = w
    BY <1>g, <2>1 DEF RunInv, RowAtHand, FlagsAtHand, StatusAtHand, ScoreAtHand, RepeatAtHand, Before, Measuring, Settling
  <2>2. CASE v # w
    <3>1. worker[v].row # None => worker[v].row \in Audits \ {worker[w].row}
      BY <2>2 DEF AInv, TypeOK, WorkerRec, Ownership, RowsOfRuns
    <3>2. Untouched(v) /\ JobsStay
      BY <1>4, <1>g, <1>c, <2>2, <3>1 DEF Untouched, AsItWas, JobsStay
    <3> QED BY <3>2, UntouchedRunKeeps DEF AInv
  <2> QED BY <2>1, <2>2
<1>8. \A j \in JobId : JobInv(j)'
  <2> TAKE j \in JobId
  <2>1. CASE j = i
    <3>1. job[j].row # None => Spare(job[j].row)'
      <4>1. job[j].row # None => job[j].row = worker[w].row
        BY <1>2, <1>3, <2>1
      <4> QED BY <1>4, <4>1, <1>s DEF Spare
    <3>2. job'[j] = job[j] /\ job[j].state = "active"
      BY <1>2, <1>3, <1>4, <2>1
    <3>3. job'[j].row # None => scores'[job'[j].row] <= cut'[job'[j].row]
            /\ (audit'[job'[j].row] = "complete" => cut'[job'[j].row] > 0)
      BY <3>1, <3>2 DEF Spare
    <3> QED BY <3>2, <3>3 DEF JobInv, Spare
  <2>2. CASE j # i
    <3>1. job[j].row # None => job[j].row \in Audits \ {worker[w].row}
      BY <1>3, <2>2 DEF AInv, TypeOK, JobRec, Ownership, RowsOfRuns
    <3>2. job[j].row # None => AsItWas(job[j].row)
      BY <1>4, <1>c, <3>1 DEF AsItWas
    <3> QED BY <1>4, <1>h, <2>2, <3>2, UntouchedJobKeeps DEF AInv
  <2> QED BY <2>1, <2>2
<1>9. \A j \in JobId : RowsInv(j)'
  <2> TAKE j \in JobId
  <2>1. rowsOf[j] \in Nat /\ unsaved[j] \in Nat /\ unsaved \in [JobId -> Nat] /\ RowsInv(j)
    BY DEF AInv, TypeOK
  <2>2. CASE worker[w].pc = "update_data"
    <3>1. unsaved' = [unsaved EXCEPT ![i] = unsaved[i] + 1]
      BY <1>3, <2>2 DEF Crash
    <3>2. CASE j = i
      <4>1. unsaved'[j] = unsaved[j] + 1
        BY <2>1, <3>1, <3>2
      <4> QED BY <1>4, <2>1, <4>1 DEF RowsInv
    <3>3. CASE j # i
      <4>1. unsaved'[j] = unsaved[j]
        BY <2>1, <3>1, <3>3
      <4>2. Naming(j) => Naming(j)'
        BY <1>3, <1>g, <3>3 DEF Naming
      <4> QED BY <1>4, <2>1, <4>1, <4>2 DEF RowsInv
    <3> QED BY <3>2, <3>3
  <2>3. CASE worker[w].pc # "update_data"
    <3>1. unsaved' = unsaved
      BY <2>3 DEF Crash
    <3>2. Naming(j) => Naming(j)'
      BY <1>g, <2>3 DEF Naming
    <3> QED BY <1>4, <2>1, <3>1, <3>2 DEF RowsInv
  <2> QED BY <2>2, <2>3
<1>10. RetryInv' /\ ChargedIsScored'
  <2>1. JobsStay /\ comparable \subseteq comparable'
    BY <1>4 DEF JobsStay
  <2> QED BY <1>4, <2>1, RetriesKeep DEF AInv, ChargedIsScored
<1>11. ScoresExplained'
  <2> SUFFICES ASSUME NEW a \in Audits PROVE scores[a] <= 1 + cut'[a]
    BY <1>4 DEF ScoresExplained
  <2>1. scores[a] \in Nat /\ cut[a] \in Nat /\ scores[a] <= 1 + cut[a]
    BY DEF AInv, TypeOK, ScoresExplained
  <2>2. cut'[a] \in {cut[a], cut[a] + 1}
    BY <1>c, ConstantsAssumption
  <2> QED BY <2>1, <2>2
<1> QED BY <1>5, <1>7, <1>8, <1>9, <1>10, <1>11 DEF AInv

\* A job that no run has is given another state, and a row if it had none: the runs, the
\* other jobs and the tables are as they were.
LEMMA JobAloneKeepsTheRest ==
  ASSUME AInv, NEW i \in JobId, ~HasRun(i), worker' = worker,
         \A j \in JobId : j # i => job'[j] = job[j], job'[i].state # "none",
         UNCHANGED <<audit, scores, retry, charged, comparable, cut, escaped, rowsOf, unsaved>>
  PROVE  /\ JobsHeld' /\ FreshRows'
         /\ \A v \in Workers : RunInv(v)'
         /\ \A j \in JobId : j # i => JobInv(j)' /\ RowsInv(j)'
         /\ job'[i].row = job[i].row => RowsInv(i)'
         /\ RetryInv' /\ ScoresExplained' /\ ChargedIsScored'
<1>1. \A v \in Workers : worker[v].pc # "idle" => worker[v].job # i
  BY DEF HasRun
<1>2. JobsHeld' /\ FreshRows'
  BY <1>1 DEF AInv, Ownership, JobsHeld, FreshRows
<1>3. ASSUME NEW v \in Workers PROVE RunInv(v)'
  <2>1. Untouched(v) /\ JobsStay
    BY <1>1 DEF AInv, Ownership, JobsHeld, Untouched, AsItWas, JobsStay
  <2> QED BY <2>1, UntouchedRunKeeps DEF AInv
<1>4. ASSUME NEW j \in JobId, j # i PROVE JobInv(j)' /\ RowsInv(j)'
  <2>1. HasRun(j) => HasRun(j)'
    BY DEF HasRun
  <2>2. Naming(j) => Naming(j)'
    BY DEF Naming
  <2>3. JobInv(j)'
    BY <1>4, <2>1, UntouchedJobKeeps DEF AInv, AsItWas
  <2>4. RowsInv(j)'
    BY <1>4, <2>2 DEF AInv, RowsInv
  <2> QED BY <2>3, <2>4
<1>5. job'[i].row = job[i].row => RowsInv(i)'
  <2>1. Naming(i) => Naming(i)'
    BY DEF Naming
  <2> QED BY <2>1 DEF AInv, RowsInv
<1>6. RetryInv' /\ ScoresExplained' /\ ChargedIsScored'
  <2>1. JobsStay /\ comparable \subseteq comparable'
    BY DEF JobsStay
  <2> QED BY <2>1, RetriesKeep DEF AInv, ScoresExplained, ChargedIsScored
<1> QED BY <1>2, <1>3, <1>4, <1>5, <1>6

LEMMA StalledCheckKeeps ==
  ASSUME AInv, TypeOK', NEW i \in JobId, StalledCheck(i)
  PROVE  AInv'
<1>1. job \in [JobId -> JobRec] /\ job[i] \in JobRec /\ job[i].state = "active"
  BY DEF StalledCheck, AInv, TypeOK
<1>2. ~HasRun(i)
  BY <1>1 DEF StalledCheck, HasRun, AInv, Ownership, JobsHeld
<1>j. /\ \A j \in JobId : j # i => job'[j] = job[j]
      /\ job'[i].row = job[i].row
      /\ job'[i].state \in {"waiting", "failed"}
  BY <1>1 DEF StalledCheck, JobRec
<1>r. \A j \in JobId : job'[j].row = job[j].row
  BY <1>j
<1>4. UNCHANGED <<audit, scores, retry, charged, worker, req, comparable, cut, escaped, rowsOf, unsaved>>
  BY DEF StalledCheck, tables
<1>5. /\ JobsHeld' /\ FreshRows'
      /\ \A v \in Workers : RunInv(v)'
      /\ \A j \in JobId : j # i => JobInv(j)' /\ RowsInv(j)'
      /\ RowsInv(i)'
      /\ RetryInv' /\ ScoresExplained' /\ ChargedIsScored'
  <2>1. job'[i].state # "none"
    BY <1>j
  <2> QED BY <1>2, <1>4, <1>j, <2>1, JobAloneKeepsTheRest
<1>6. JobInv(i)'
  <2>1. job[i].row # None => Spare(job[i].row)
    BY <1>1, <1>2 DEF AInv, JobInv
  <2> QED BY <1>4, <1>j, <2>1 DEF JobInv, Spare
<1>7. RowsOfJobs'
  <2>1. \A j \in JobId : job'[j].state = "none" => job'[j] = NoJob
    BY <1>j DEF AInv, Ownership, RowsOfJobs
  <2>2. \A a \in Audits : job'[Manual(a)].state # "none" => job'[Manual(a)].row = a
    BY <1>1, <1>j, JobKinds DEF AInv, Ownership, RowsOfJobs
  <2> QED BY <1>4, <1>r, <2>1, <2>2 DEF AInv, Ownership, RowsOfJobs
<1>8. RowsOfRuns'
  BY <1>4, <1>r DEF AInv, Ownership, RowsOfRuns
<1>9. RowsOfRequests'
  <2>1. \A r \in Requests : req[r].pc \in {"enqueue", "mark"} =>
          req[r].row # None /\ req[r].row \in Audits /\ Manual(req[r].row) \in JobId
          /\ Manual(req[r].row) # i
    BY <1>1, JobKinds DEF AInv, TypeOK, Ownership, RowsOfRequests
  <2> QED BY <1>4, <1>r, <1>j, <2>1 DEF AInv, Ownership, RowsOfRequests
<1>10. RepeatsHaveOrigins'
  BY <1>1, <1>4, <1>j DEF AInv, Ownership, RepeatsHaveOrigins
<1> QED BY <1>5, <1>6, <1>7, <1>8, <1>9, <1>10 DEF AInv, Ownership

LEMMA CronFiresKeeps ==
  ASSUME AInv, TypeOK', NEW c \in Crons, CronFires(c)
  PROVE  AInv'
<1>1. PICK i \in JobId : i = Cron(c) /\ ~IsRepeat(i) /\ \A a \in Audits : i # Manual(a)
  BY JobKinds
<1>2. job \in [JobId -> JobRec] /\ job[i].state = "none" /\ job[i].row = None
  BY <1>1 DEF CronFires, AInv, TypeOK, Ownership, RowsOfJobs, NoJob
<1>j. /\ \A j \in JobId : j # i => job'[j] = job[j]
      /\ job'[i].row = None /\ job'[i].state = "waiting"
  <2>1. job' = [job EXCEPT ![i] = [NoJob EXCEPT !.state = "waiting", !.row = None]]
    BY <1>1, <1>2 DEF CronFires, Add
  <2> QED BY <1>2, <2>1 DEF NoJob
<1>n. ~HasRun(i)
  BY <1>2 DEF HasRun, AInv, Ownership, JobsHeld
<1>r. \A j \in JobId : job'[j].row = job[j].row
  BY <1>2, <1>j
<1>4. UNCHANGED <<audit, scores, retry, charged, worker, req, comparable, cut, escaped, rowsOf, unsaved>>
  BY DEF CronFires, tables, history
<1>5. /\ JobsHeld' /\ FreshRows'
      /\ \A v \in Workers : RunInv(v)'
      /\ \A j \in JobId : j # i => JobInv(j)' /\ RowsInv(j)'
      /\ RowsInv(i)'
      /\ RetryInv' /\ ScoresExplained' /\ ChargedIsScored'
  <2>1. job'[i].state # "none" /\ job'[i].row = job[i].row
    BY <1>2, <1>j
  <2> QED BY <1>n, <1>4, <1>j, <2>1, JobAloneKeepsTheRest
<1>6. JobInv(i)'
  BY <1>j DEF JobInv
<1>7. RowsOfJobs'
  <2>1. \A j \in JobId : job'[j].state = "none" => job'[j] = NoJob
    BY <1>j DEF AInv, Ownership, RowsOfJobs
  <2>2. \A a \in Audits : job'[Manual(a)] = job[Manual(a)]
    BY <1>1, <1>j, JobKinds
  <2> QED BY <1>4, <1>r, <2>1, <2>2 DEF AInv, Ownership, RowsOfJobs
<1>8. RowsOfRuns'
  BY <1>4, <1>r DEF AInv, Ownership, RowsOfRuns
<1>9. RowsOfRequests'
  <2>1. \A r \in Requests : req[r].pc \in {"enqueue", "mark"} =>
          req[r].row # None /\ req[r].row \in Audits /\ Manual(req[r].row) \in JobId
          /\ Manual(req[r].row) # i
    BY <1>1, JobKinds DEF AInv, TypeOK, Ownership, RowsOfRequests
  <2> QED BY <1>4, <1>r, <1>j, <2>1 DEF AInv, Ownership, RowsOfRequests
<1>10. RepeatsHaveOrigins'
  BY <1>1, <1>4, <1>j DEF AInv, Ownership, RepeatsHaveOrigins
<1> QED BY <1>5, <1>6, <1>7, <1>8, <1>9, <1>10 DEF AInv, Ownership

-----------------------------------------------------------------------------
(* The requests *)

LEMMA RequestInsertsKeeps ==
  ASSUME AInv, TypeOK', NEW r \in Requests, RequestInserts(r)
  PROVE  AInv'
<1>1. PICK n \in Audits : n = NewAudit /\ audit[n] = "none"
  BY NewAuditIsFresh DEF RequestInserts
<1>2. Opens(n) /\ worker' = worker /\ rowsOf' = rowsOf
  BY <1>1 DEF RequestInserts, SetAudit, Opens, AInv, TypeOK, history
<1>g. /\ req'[r].pc = "enqueue" /\ req'[r].row = n
      /\ \A q \in Requests : q # r => req'[q] = req[q]
  BY <1>1 DEF RequestInserts, AInv, TypeOK
<1>n. /\ n # None /\ \A v \in Workers : worker[v].row # n
      /\ \A j \in JobId : job[j].row # n
      /\ \A q \in Requests : req[q].row # n
      /\ job[Manual(n)].state = "none" /\ scores[n] = 0
  BY <1>1, FreshRowIsNobodys, ConstantsAssumption DEF AInv, Ownership, FreshRows
<1>k. job' = job /\ scores' = scores /\ cut' = cut /\ unsaved' = unsaved
  BY <1>2 DEF Opens
<1>a. /\ audit'[n] = "pending"
      /\ \A a \in Audits : audit[a] # "none" => audit'[a] = audit[a]
  BY <1>2, OpeningKeepsTheRest DEF Opens
<1>5. Ownership'
  <2>1. JobsHeld'
    BY <1>2, <1>k DEF AInv, Ownership, JobsHeld
  <2>2. RowsOfJobs' /\ FreshRows'
    BY <1>2, OpeningKeepsTheRest
  <2>3. RowsOfRuns'
    <3>1. \A v \in Workers : worker[v].row # None => worker[v].row \in Audits
      BY DEF AInv, TypeOK, WorkerRec
    <3> QED BY <1>2, <1>k, <1>a, <3>1 DEF AInv, Ownership, RowsOfRuns
  <2>4. RowsOfRequests'
    <3>1. \A q \in Requests : req[q].row # None => req[q].row \in Audits
      BY DEF AInv, TypeOK
    <3>2. ASSUME NEW q \in Requests, q # r
          PROVE  /\ req'[q].row # None =>
                    /\ audit'[req'[q].row] # "none"
                    /\ \A j \in JobId : job[j].row = req'[q].row => j = Manual(req'[q].row)
                    /\ \A v \in Workers : worker[v].row = req'[q].row => worker[v].job = Manual(req'[q].row)
                    /\ \A p \in Requests : req'[p].row = req'[q].row => p = q
                 /\ req'[q].pc \in {"enqueue", "mark"} =>
                    /\ req'[q].row # None /\ audit'[req'[q].row] = "pending" /\ scores[req'[q].row] = 0
                    /\ job[Manual(req'[q].row)].state = "none"
      BY <1>g, <1>n, <1>a, <3>1, <3>2 DEF AInv, Ownership, RowsOfRequests
    <3>3. \A p \in Requests : req'[p].row = n => p = r
      BY <1>g, <1>n
    <3> QED BY <1>2, <1>g, <1>n, <1>k, <1>a, <3>2, <3>3 DEF RowsOfRequests
  <2>5. RepeatsHaveOrigins'
    BY <1>2, <1>k, <1>a, JobKinds DEF AInv, Ownership, RepeatsHaveOrigins
  <2> QED BY <2>1, <2>2, <2>3, <2>4, <2>5 DEF Ownership
<1>6. \A v \in Workers : RunInv(v)'
  BY <1>2, OpeningKeepsTheRest
<1>7. \A j \in JobId : JobInv(j)' /\ RowsInv(j)'
  <2> TAKE j \in JobId
  <2>1. (HasRun(j) => HasRun(j)') /\ (Naming(j) => Naming(j)')
    BY <1>2 DEF HasRun, Naming
  <2> QED BY <1>2, <1>k, <2>1, OpeningKeepsTheRest DEF AInv, RowsInv
<1> QED BY <1>2, <1>5, <1>6, <1>7, OpeningKeepsTheRest DEF AInv

\* The row of a request that is queueing it is in no job yet, and nobody works on it.
LEMMA QueueingRow ==
  ASSUME AInv, NEW r \in Requests, req[r].pc \in {"enqueue", "mark"}
  PROVE  /\ req[r].row \in Audits /\ req[r].row # None
         /\ audit[req[r].row] = "pending" /\ scores[req[r].row] = 0
         /\ Manual(req[r].row) \in JobId /\ job[Manual(req[r].row)].state = "none"
         /\ job[Manual(req[r].row)].row = None
         /\ \A j \in JobId : job[j].row # req[r].row
         /\ \A v \in Workers : worker[v].row # req[r].row
         /\ \A q \in Requests : req[q].row = req[r].row => q = r
<1>1. /\ req[r].row \in Audits /\ req[r].row # None
      /\ audit[req[r].row] = "pending" /\ scores[req[r].row] = 0
      /\ Manual(req[r].row) \in JobId /\ job[Manual(req[r].row)].state = "none"
      /\ \A q \in Requests : req[q].row = req[r].row => q = r
  BY JobKinds DEF AInv, TypeOK, Ownership, RowsOfRequests
<1>2. job[Manual(req[r].row)].row = None
  BY <1>1 DEF AInv, Ownership, RowsOfJobs, NoJob
<1>3. \A j \in JobId : job[j].row # req[r].row
  BY <1>1, <1>2 DEF AInv, Ownership, RowsOfRequests
<1>4. \A v \in Workers : worker[v].row # req[r].row
  BY <1>1 DEF AInv, Ownership, RowsOfRequests, JobsHeld
<1> QED BY <1>1, <1>2, <1>3, <1>4

LEMMA RequestEnqueuesKeeps ==
  ASSUME AInv, TypeOK', NEW r \in Requests, RequestEnqueues(r), req'[r].pc = "finished"
  PROVE  AInv'
<1>1. PICK a \in Audits, i \in JobId : a = req[r].row /\ i = Manual(a)
  BY QueueingRow DEF RequestEnqueues
<1>2. /\ a # None /\ audit[a] = "pending" /\ scores[a] = 0 /\ job[i].state = "none" /\ job[i].row = None
      /\ \A j \in JobId : job[j].row # a
      /\ \A v \in Workers : worker[v].row # a
      /\ \A q \in Requests : req[q].row = a => q = r
  BY <1>1, QueueingRow DEF RequestEnqueues
<1>3. Add(i, a) /\ req' = [req EXCEPT ![r].pc = "finished"]
  BY <1>1 DEF RequestEnqueues, AInv, TypeOK
<1>g. /\ req'[r].pc = "finished" /\ req'[r].row = a
      /\ \A q \in Requests : q # r => req'[q] = req[q]
  BY <1>1, <1>3 DEF AInv, TypeOK
<1>j. /\ \A j \in JobId : j # i => job'[j] = job[j]
      /\ job'[i].row = a /\ job'[i].state = "waiting"
  <2>1. job \in [JobId -> JobRec]
    BY DEF AInv, TypeOK
  <2>2. job' = [job EXCEPT ![i] = [NoJob EXCEPT !.state = "waiting", !.row = a]]
    BY <1>2, <1>3 DEF Add
  <2> QED BY <2>1, <2>2 DEF NoJob
<1>n. ~HasRun(i)
  BY <1>2 DEF HasRun, AInv, Ownership, JobsHeld
<1>m. ~IsRepeat(i) /\ \A b \in Audits : b # a => Manual(b) # i /\ Manual(b) \in JobId
  BY <1>1, JobKinds
<1>4. UNCHANGED <<audit, scores, retry, charged, worker, comparable, cut, escaped, rowsOf, unsaved>>
  BY DEF RequestEnqueues, tables, history
<1>5. /\ JobsHeld' /\ FreshRows'
      /\ \A v \in Workers : RunInv(v)'
      /\ \A j \in JobId : j # i => JobInv(j)' /\ RowsInv(j)'
      /\ RetryInv' /\ ScoresExplained' /\ ChargedIsScored'
  <2>1. job'[i].state # "none"
    BY <1>j
  <2> QED BY <1>n, <1>4, <1>j, <2>1, JobAloneKeepsTheRest
<1>6. JobInv(i)' /\ RowsInv(i)'
  <2>1. cut[a] \in Nat
    BY DEF AInv, TypeOK
  <2> QED BY <1>2, <1>4, <1>j, <2>1 DEF JobInv, Spare, AInv, RowsInv
<1>7. RowsOfJobs'
  <2>1. \A j \in JobId : job'[j].state = "none" => job'[j] = NoJob
    BY <1>j DEF AInv, Ownership, RowsOfJobs
  <2>2. \A b \in Audits : job'[Manual(b)].state # "none" => job'[Manual(b)].row = b
    BY <1>1, <1>j, <1>m DEF AInv, Ownership, RowsOfJobs
  <2>3. \A j \in JobId : job'[j].row # None => audit[job'[j].row] # "none"
    BY <1>2, <1>j DEF AInv, Ownership, RowsOfJobs
  <2>4. \A j, k \in JobId : job'[j].row # None /\ job'[j].row = job'[k].row => j = k
    BY <1>2, <1>j DEF AInv, Ownership, RowsOfJobs
  <2> QED BY <1>4, <2>1, <2>2, <2>3, <2>4 DEF RowsOfJobs
<1>8. RowsOfRuns'
  BY <1>2, <1>4, <1>j DEF AInv, Ownership, RowsOfRuns
<1>9. RowsOfRequests'
  <2>1. \A q \in Requests : req'[q].row = req[q].row
    BY <1>1, <1>g
  <2>2. \A q \in Requests : req'[q].pc \in {"enqueue", "mark"} => q # r /\ req'[q] = req[q]
    BY <1>g
  <2>3. \A q \in Requests : q # r /\ req[q].pc \in {"enqueue", "mark"} =>
          req[q].row # None /\ req[q].row \in Audits /\ Manual(req[q].row) \in JobId
          /\ Manual(req[q].row) # i
    BY <1>2, <1>m DEF AInv, TypeOK, Ownership, RowsOfRequests
  <2>4. \A j \in JobId : \/ job'[j].row = job[j].row
                         \/ j = i /\ job'[j].row = a
    BY <1>j
  <2> QED BY <1>1, <1>4, <1>j, <2>1, <2>2, <2>3, <2>4 DEF AInv, Ownership, RowsOfRequests
<1>10. RepeatsHaveOrigins'
  BY <1>m, <1>4, <1>j DEF AInv, Ownership, RepeatsHaveOrigins
<1> QED BY <1>5, <1>6, <1>7, <1>8, <1>9, <1>10 DEF AInv, Ownership

\* A request gets on: nothing but the place it has reached changes.
LEMMA RequestOnlyKeeps ==
  ASSUME AInv, TypeOK', NEW r \in Requests, NEW pc, req' = [req EXCEPT ![r].pc = pc],
         pc \in {"enqueue", "mark"} => req[r].pc \in {"enqueue", "mark"},
         UNCHANGED <<tables, job, worker, comparable, cut, escaped, rowsOf, unsaved>>
  PROVE  AInv'
<1>1. UNCHANGED <<audit, scores, retry, charged, job, worker, comparable, cut, escaped, rowsOf, unsaved>>
  BY DEF tables
<1>2. \A q \in Requests : req'[q].row = req[q].row
        /\ (req'[q].pc \in {"enqueue", "mark"} => req[q].pc \in {"enqueue", "mark"})
  BY DEF AInv, TypeOK
<1>3. RowsOfRequests'
  BY <1>1, <1>2 DEF AInv, Ownership, RowsOfRequests
<1>4. JobsHeld' /\ RowsOfJobs' /\ RowsOfRuns' /\ FreshRows' /\ RepeatsHaveOrigins'
  BY <1>1 DEF AInv, Ownership, JobsHeld, RowsOfJobs, RowsOfRuns, FreshRows, RepeatsHaveOrigins
<1>5. ASSUME NEW v \in Workers PROVE RunInv(v)'
  <2>1. Untouched(v) /\ JobsStay
    BY <1>1 DEF Untouched, AsItWas, JobsStay
  <2> QED BY <2>1, UntouchedRunKeeps DEF AInv
<1>6. ASSUME NEW j \in JobId PROVE JobInv(j)' /\ RowsInv(j)'
  BY <1>1 DEF AInv, JobInv, RowsInv, HasRun, Naming, Spare, Paid
<1>7. RetryInv' /\ ScoresExplained' /\ ChargedIsScored'
  BY <1>1 DEF AInv, RetryInv, RecoveredIsMeasured, ScoresExplained, ChargedIsScored
<1> QED BY <1>3, <1>4, <1>5, <1>6, <1>7 DEF AInv, Ownership

LEMMA RequestMarksKeeps ==
  ASSUME AInv, TypeOK', NEW r \in Requests, RequestMarks(r)
  PROVE  AInv'
<1>1. PICK a \in Audits : a = req[r].row
  BY QueueingRow DEF RequestMarks
<1>2. /\ a # None /\ audit[a] = "pending"
      /\ \A j \in JobId : job[j].row # a
      /\ \A v \in Workers : worker[v].row # a
      /\ \A q \in Requests : req[q].row = a => q = r
  BY <1>1, QueueingRow DEF RequestMarks
<1>3. UNCHANGED <<scores, retry, charged, job, worker, comparable, cut, escaped, rowsOf, unsaved>>
  BY DEF RequestMarks, history
<1>a. audit'[a] = "failed" /\ \A b \in Audits \ {a} : audit'[b] = audit[b]
  BY <1>1 DEF RequestMarks, SetAudit, AInv, TypeOK
<1>g. /\ req'[r].pc = "finished" /\ req'[r].row = a
      /\ \A q \in Requests : q # r => req'[q] = req[q]
  BY <1>1 DEF RequestMarks, AInv, TypeOK
<1>n. \A b \in Audits : audit[b] # "none" => audit'[b] # "none"
  BY <1>a
<1>4. JobsHeld'
  BY <1>3 DEF AInv, Ownership, JobsHeld
<1>5. RowsOfJobs'
  <2>1. \A j \in JobId : job[j].row # None => job[j].row \in Audits
    BY DEF AInv, TypeOK, JobRec
  <2> QED BY <1>3, <1>n, <2>1 DEF AInv, Ownership, RowsOfJobs
<1>6. RowsOfRuns'
  <2>1. \A v \in Workers : worker[v].row # None => worker[v].row \in Audits
    BY DEF AInv, TypeOK, WorkerRec
  <2> QED BY <1>3, <1>n, <2>1 DEF AInv, Ownership, RowsOfRuns
<1>7. RowsOfRequests'
  <2>1. \A q \in Requests : req[q].row # None => req[q].row \in Audits
    BY DEF AInv, TypeOK
  <2>2. \A q \in Requests : req'[q].row = req[q].row
    BY <1>1, <1>g
  <2>3. \A q \in Requests : req'[q].pc \in {"enqueue", "mark"} => req[q].pc = req'[q].pc /\ req[q].row # a
    BY <1>2, <1>g
  <2> QED BY <1>3, <1>n, <1>a, <2>1, <2>2, <2>3 DEF AInv, Ownership, RowsOfRequests
<1>8. FreshRows' /\ RepeatsHaveOrigins'
  <2>1. FreshRows'
    BY <1>3, <1>a DEF AInv, Ownership, FreshRows
  <2>2. RepeatsHaveOrigins'
    BY <1>3, <1>n, JobKinds DEF AInv, Ownership, RepeatsHaveOrigins
  <2> QED BY <2>1, <2>2
<1>9. ASSUME NEW v \in Workers PROVE RunInv(v)'
  <2>1. worker[v].row # None => worker[v].row \in Audits \ {a}
    BY <1>2 DEF AInv, TypeOK, WorkerRec
  <2>2. Untouched(v) /\ JobsStay
    BY <1>3, <1>a, <2>1 DEF Untouched, AsItWas, JobsStay
  <2> QED BY <2>2, UntouchedRunKeeps DEF AInv
<1>10. ASSUME NEW j \in JobId PROVE JobInv(j)' /\ RowsInv(j)'
  <2>1. job[j].row # None => job[j].row \in Audits \ {a}
    BY <1>2 DEF AInv, TypeOK, JobRec
  <2>2. HasRun(j) => HasRun(j)'
    BY <1>3 DEF HasRun
  <2>3. JobInv(j)'
    BY <1>3, <1>a, <2>1, <2>2, UntouchedJobKeeps DEF AInv, AsItWas
  <2>4. RowsInv(j)'
    BY <1>3 DEF AInv, RowsInv, Naming
  <2> QED BY <2>3, <2>4
<1>11. RetryInv' /\ ScoresExplained' /\ ChargedIsScored'
  BY <1>3 DEF AInv, RetryInv, RecoveredIsMeasured, ScoresExplained, ChargedIsScored
<1> QED BY <1>4, <1>5, <1>6, <1>7, <1>8, <1>9, <1>10, <1>11 DEF AInv, Ownership

-----------------------------------------------------------------------------
(* The invariant holds *)

LEMMA AInvInit == Init => AInv
<1> SUFFICES ASSUME Init PROVE AInv
  OBVIOUS
<1>1. \A w \in Workers : worker[w].pc = "idle" /\ worker[w].row = None
  BY DEF Init, IdleWorker
<1>2. \A j \in JobId : job[j] = NoJob /\ job[j].state = "none" /\ job[j].row = None
  BY DEF Init, NoJob
<1>3. \A r \in Requests : req[r].row = None /\ req[r].pc = "idle"
  BY DEF Init
<1>4. Ownership
  <2>1. \A a \in Audits : Manual(a) \in JobId
    BY JobKinds
  <2>2. FreshRows
    BY DEF Init, FreshRows
  <2> QED BY <1>1, <1>2, <1>3, <2>1, <2>2
          DEF Ownership, JobsHeld, RowsOfJobs, RowsOfRuns, RowsOfRequests, RepeatsHaveOrigins
<1>5. \A w \in Workers : RunInv(w)
  BY <1>1 DEF RunInv, RowAtHand, FlagsAtHand, StatusAtHand, ScoreAtHand, RepeatAtHand, Before, Measuring, Settling
<1>6. \A j \in JobId : JobInv(j) /\ RowsInv(j)
  BY <1>2 DEF Init, JobInv, RowsInv
<1>7. RetryInv
  BY DEF Init, RetryInv, RecoveredIsMeasured, NoRetry
<1>8. ScoresExplained /\ ChargedIsScored
  BY DEF Init, ScoresExplained, ChargedIsScored
<1> QED BY TypesInit, <1>4, <1>5, <1>6, <1>7, <1>8 DEF AInv

LEMMA RequestKeeps ==
  ASSUME AInv, NEW r \in Requests, RequestChecks(r) \/ RequestStep(r) \/ RequestDies(r)
  PROVE  AInv'
<1>t. TypeOK'
  BY RequestTypes DEF AInv
<1>1. CASE RequestChecks(r) \/ RequestWindow(r) \/ RequestMonth(r)
  <2>1. UNCHANGED <<tables, job, worker, comparable, cut, escaped, rowsOf, unsaved>>
    BY <1>1 DEF RequestChecks, RequestWindow, RequestMonth, history
  <2>2. PICK pc \in {"window", "month", "insert", "finished"} : req' = [req EXCEPT ![r].pc = pc]
    BY <1>1 DEF RequestChecks, RequestWindow, RequestMonth, AskAt
  <2> QED BY <1>t, <2>1, <2>2, RequestOnlyKeeps
<1>2. CASE RequestInserts(r)
  BY <1>t, <1>2, RequestInsertsKeeps
<1>3. CASE RequestEnqueues(r)
  <2>1. CASE req' = [req EXCEPT ![r].pc = "finished"]
    BY <1>t, <1>3, <2>1, RequestEnqueuesKeeps DEF AInv, TypeOK
  <2>2. CASE req' = [req EXCEPT ![r].pc = "mark"] /\ UNCHANGED job
    <3>1. UNCHANGED <<tables, job, worker, comparable, cut, escaped, rowsOf, unsaved>>
      BY <1>3, <2>2 DEF RequestEnqueues, history
    <3>2. req[r].pc \in {"enqueue", "mark"}
      BY <1>3 DEF RequestEnqueues
    <3> QED BY <1>t, <2>2, <3>1, <3>2, RequestOnlyKeeps
  <2> QED BY <1>3, <2>1, <2>2 DEF RequestEnqueues
<1>4. CASE RequestMarks(r)
  BY <1>t, <1>4, RequestMarksKeeps
<1>5. CASE RequestDies(r)
  <2>1. req' = [req EXCEPT ![r].pc = "finished"]
        /\ UNCHANGED <<tables, job, worker, comparable, cut, escaped, rowsOf, unsaved>>
    BY <1>5 DEF RequestDies
  <2> QED BY <1>t, <2>1, RequestOnlyKeeps
<1> QED BY <1>1, <1>2, <1>3, <1>4, <1>5 DEF RequestStep

LEMMA RunKeeps ==
  ASSUME AInv, NEW w \in Workers, RunStep(w) \/ CallFails(w) \/ Crash(w)
  PROVE  AInv'
<1>h. TypeOK /\ JobsHeld /\ RowAtHand(w)
  BY DEF AInv, Ownership, RunInv
<1>1. CASE \/ InsertRow(w) \/ UpdateData(w) \/ MarkRunning(w) \/ CheckCap(w) \/ CheckPanel(w)
           \/ Probe(w) \/ Refuse(w) \/ WriteScore(w)
  <2>1. TypeOK'
    BY <1>h, <1>1, MeasuringTypes
  <2> QED BY <1>1, <2>1, InsertRowKeeps, UpdateDataKeeps, MarkRunningKeeps, CheckCapKeeps,
             CheckPanelKeeps, ProbeKeeps, RefuseKeeps, WriteScoreKeeps
<1>2. CASE \/ Complete(w) \/ Charge(w) \/ Plan(w) \/ EnqueueRepeat(w) \/ RecordRepeat(w)
           \/ MarkUnrun(w) \/ MarkFailed(w) \/ CallFails(w) \/ Crash(w)
  <2>1. TypeOK'
    BY <1>h, <1>2, SettlingTypes
  <2>2. CASE CallFails(w)
    <3>1. worker[w].pc \in {"insert", "mark_running", "refuse", "score", "complete", "charge"}
          \/ worker[w].pc \in {"enqueue", "record", "unrun"}
      BY <2>2 DEF CallFails
    <3> QED BY <2>1, <2>2, <3>1, ThrowKeeps, CaughtCallKeeps
  <2> QED BY <1>2, <2>1, <2>2, CompleteKeeps, ChargeKeeps, PlanKeeps, EnqueueRepeatKeeps,
             RecordRepeatKeeps, MarkUnrunKeeps, MarkFailedKeeps, CrashKeeps
<1>3. CASE Finish(w)
  <2>1. PICK j \in JobId : j = worker[w].job
    BY <1>3, RunAtHand DEF Finish
  <2>2. TypeOK'
    BY <1>h, <1>3, <2>1, QueueTypes
  <2> QED BY <1>3, <2>2, FinishKeeps
<1> QED BY <1>1, <1>2, <1>3 DEF RunStep

LEMMA StutterKeeps == AInv /\ UNCHANGED vars => AInv'
<1> SUFFICES ASSUME AInv, UNCHANGED vars PROVE AInv'
  OBVIOUS
<1>1. UNCHANGED <<audit, scores, retry, charged, job, worker, req, faults>>
      /\ UNCHANGED <<comparable, cut, escaped, rowsOf, unsaved, lost>>
  BY DEF vars, tables, history
<1>2. TypeOK'
  BY <1>1 DEF AInv, TypeOK
<1>3. Ownership'
  BY <1>1 DEF AInv, Ownership, JobsHeld, RowsOfJobs, RowsOfRuns, RowsOfRequests, FreshRows, RepeatsHaveOrigins
<1>4. ASSUME NEW v \in Workers PROVE RunInv(v)'
  <2>1. Untouched(v) /\ JobsStay
    BY <1>1 DEF Untouched, AsItWas, JobsStay
  <2> QED BY <2>1, UntouchedRunKeeps DEF AInv
<1>5. ASSUME NEW j \in JobId PROVE JobInv(j)' /\ RowsInv(j)'
  BY <1>1 DEF AInv, JobInv, RowsInv, HasRun, Naming, Spare, Paid
<1>6. RetryInv' /\ ScoresExplained' /\ ChargedIsScored'
  BY <1>1 DEF AInv, RetryInv, RecoveredIsMeasured, ScoresExplained, ChargedIsScored
<1> QED BY <1>2, <1>3, <1>4, <1>5, <1>6 DEF AInv

LEMMA AInvStep == AInv /\ [Next]_vars => AInv'
<1> SUFFICES ASSUME AInv, [Next]_vars PROVE AInv'
  OBVIOUS
<1>1. ASSUME NEW c \in Crons, CronFires(c) PROVE AInv'
  BY <1>1, CronTypes, CronFiresKeeps DEF AInv
<1>2. ASSUME NEW r \in Requests, RequestChecks(r) \/ RequestStep(r) \/ RequestDies(r) PROVE AInv'
  BY <1>2, RequestKeeps
<1>3. ASSUME NEW w \in Workers, NEW j \in JobId, Take(w, j) PROVE AInv'
  <2>1. TypeOK'
    BY <1>3, QueueTypes DEF AInv, Ownership
  <2> QED BY <1>3, <2>1, TakeKeeps
<1>4. ASSUME NEW w \in Workers, RunStep(w) \/ CallFails(w) \/ Crash(w) PROVE AInv'
  BY <1>4, RunKeeps
<1>5. ASSUME NEW j \in JobId, StalledCheck(j) PROVE AInv'
  <2>1. TypeOK'
    BY <1>5, StalledTypes DEF AInv
  <2> QED BY <1>5, <2>1, StalledCheckKeeps
<1>6. CASE UNCHANGED vars
  BY <1>6, StutterKeeps
<1> QED BY <1>1, <1>2, <1>3, <1>4, <1>5, <1>6 DEF Next

LEMMA AInvAlways == Spec => []AInv
BY AInvInit, AInvStep, PTL DEF Spec

-----------------------------------------------------------------------------
(* The theorems *)

\* Every variable keeps its type: a run or a job names a row of the table or none, and what
\* a repeat records is a state planCoverageRetry knows.
THEOREM AuditTypesHold == Spec => []TypeOK
<1>1. AInv => TypeOK
  BY DEF AInv
<1> QED BY <1>1, AInvAlways, PTL

\* Only a scored audit is charged, and one that BullMQ completed is, unless its debit failed:
\* whatever the workers, retries and crashes of processAuditJob.
THEOREM DeliveriesAreCharged == Spec => []DeliveredIsCharged
<1>1. AInv => DeliveredIsCharged
  BY DEF AInv, ChargedIsScored, DeliveredIsCharged, JobInv, Paid
<1> QED BY <1>1, AInvAlways, PTL

\* An audit has one score row, and one more at most for each of its runs cut short after
\* it had written one: two runs never measure into the same audit.
THEOREM ScoresAreExplained == Spec => []ScoresExplained
<1>1. AInv => ScoresExplained
  BY DEF AInv
<1> QED BY <1>1, AInvAlways, PTL

\* The breakdown of an audit says scheduled only of a repeat that is in the queue.
THEOREM ScheduledRepeatsAreQueued == Spec => []ScheduledIsQueued
<1>1. AInv => ScheduledIsQueued
  BY DEF AInv, RetryInv, ScheduledIsQueued
<1> QED BY <1>1, AInvAlways, PTL

\* An audit is recorded as recovered only when that repeat of it was scored on the full
\* panel, in a row other than its own: a run's record can only speak of the score it wrote.
THEOREM RecoveryIsMeasured == Spec => []RecoveredIsMeasured
<1>1. AInv => RecoveredIsMeasured
  BY DEF AInv, RetryInv
<1> QED BY <1>1, AInvAlways, PTL

\* A scheduled job makes one row, and one more for each its data never came to name.
THEOREM JobsMakeOneRow == Spec => []OneRowPerJob
<1>1. AInv => OneRowPerJob
  BY DEF AInv, RowsInv, OneRowPerJob
<1> QED BY <1>1, AInvAlways, PTL

\* A complete audit stays complete, but for a run of it that BullMQ starts again after one
\* cut short: no mark of a failure, of the catch or of the API, ever replaces it.
THEOREM CompleteAuditsStand == Spec => CompleteStands
<1>1. ASSUME AInv, [Next]_vars, NEW a \in Audits, audit[a] = "complete", audit'[a] # "complete"
      PROVE  audit'[a] = "running" /\ cut[a] > 0
  <2>t. audit \in [Audits -> AuditStatus]
    BY <1>1 DEF AInv, TypeOK
  <2>1. audit' # audit
    BY <1>1
  <2>2. ASSUME NEW r \in Requests, RequestInserts(r) PROVE FALSE
    BY <1>1, <2>t, <2>2, NewAuditIsFresh DEF RequestInserts, SetAudit
  <2>3. ASSUME NEW r \in Requests, RequestMarks(r) PROVE FALSE
    <3>1. audit[req[r].row] = "pending"
      BY <1>1, <2>3, QueueingRow DEF RequestMarks
    <3> QED BY <1>1, <2>t, <2>3, <3>1 DEF RequestMarks, SetAudit
  <2>4. ASSUME NEW w \in Workers, InsertRow(w) PROVE FALSE
    BY <1>1, <2>t, <2>4, NewAuditIsFresh DEF InsertRow, SetAudit
  <2>5. ASSUME NEW w \in Workers, MarkRunning(w) PROVE audit'[a] = "running" /\ cut[a] > 0
    <3>1. worker[w].row # None /\ Spare(worker[w].row)
      BY <1>1, <2>5 DEF AInv, RunInv, RowAtHand, ScoreAtHand, Settling, MarkRunning
    <3>2. a = worker[w].row /\ audit'[a] = "running"
      BY <1>1, <2>t, <2>5 DEF MarkRunning, SetAudit
    <3> QED BY <1>1, <3>1, <3>2 DEF Spare
  <2>6. ASSUME NEW w \in Workers, Refuse(w) \/ MarkUnrun(w) PROVE FALSE
    <3>1. audit[worker[w].row] = "running"
      BY <1>1, <2>6 DEF AInv, RunInv, StatusAtHand, Measuring, Refuse, MarkUnrun
    <3> QED BY <1>1, <2>t, <2>6, <3>1 DEF Refuse, MarkUnrun, SetAudit
  <2>7. ASSUME NEW w \in Workers, Complete(w) PROVE FALSE
    BY <1>1, <2>t, <2>7 DEF Complete, SetAudit
  <2>8. ASSUME NEW w \in Workers, MarkFailed(w) PROVE FALSE
    BY <1>1, <2>t, <2>8 DEF MarkFailed, Undecided
  <2>9. ASSUME NEW c \in Crons, CronFires(c) PROVE FALSE
    BY <2>1, <2>9 DEF CronFires, tables
  <2>10. ASSUME NEW r \in Requests,
                \/ RequestChecks(r) \/ RequestWindow(r) \/ RequestMonth(r)
                \/ RequestEnqueues(r) \/ RequestDies(r)
         PROVE FALSE
    BY <2>1, <2>10 DEF RequestChecks, RequestWindow, RequestMonth, RequestEnqueues, RequestDies, tables
  <2>11. ASSUME NEW w \in Workers, NEW j \in JobId, Take(w, j) PROVE FALSE
    BY <2>1, <2>11 DEF Take, tables
  <2>12. ASSUME NEW w \in Workers, CallFails(w) \/ Crash(w) PROVE FALSE
    BY <2>1, <2>12 DEF CallFails, Crash, tables
  <2>13. ASSUME NEW w \in Workers,
                \/ UpdateData(w) \/ CheckCap(w) \/ CheckPanel(w) \/ Probe(w) \/ WriteScore(w) \/ Charge(w)
                \/ Plan(w) \/ EnqueueRepeat(w) \/ RecordRepeat(w) \/ Finish(w)
         PROVE FALSE
    BY <2>1, <2>13 DEF UpdateData, CheckCap, CheckPanel, Probe, WriteScore, Charge, Plan, EnqueueRepeat,
       RecordRepeat, Finish, tables
  <2>14. ASSUME NEW j \in JobId, StalledCheck(j) PROVE FALSE
    BY <2>1, <2>14 DEF StalledCheck, tables
  <2>15. CASE UNCHANGED vars
    BY <2>1, <2>15 DEF vars, tables
  <2> QED BY <1>1, <2>2, <2>3, <2>4, <2>5, <2>6, <2>7, <2>8, <2>9, <2>10, <2>11, <2>12, <2>13, <2>14, <2>15
          DEF Next, RequestStep, RunStep
<1>2. AInv /\ [Next]_vars
        => (\A a \in Audits : audit[a] = "complete" /\ audit'[a] # "complete"
              => audit'[a] = "running" /\ cut[a] > 0)
  BY <1>1
<1> QED BY <1>2, AInvAlways, PTL DEF Spec, CompleteStands

=============================================================================
