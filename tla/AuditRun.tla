------------------------------- MODULE AuditRun -------------------------------
(***************************************************************************)
(* The AI visibility audit of one brand: a customer or the weekly monitor  *)
(* asks for it, a pool of BullMQ workers runs it, and its score, its       *)
(* charge and the repeat of a run with an incomplete panel are written     *)
(* one query at a time.                                                    *)
(*                                                                         *)
(*   worker   apps/worker/src/jobs/audit-run.ts, apps/worker/src/index.ts  *)
(*   repeat   packages/shared/src/coverage-retry.ts                        *)
(*   queue    packages/shared/src/audit-queue.ts, and BullMQ as it is used *)
(*   API      apps/api/src/routes/audits.ts, POST /api/brands/:id/audit    *)
(*                                                                         *)
(* Every query, queue call and mail is one action; runs, requests, crashes *)
(* and BullMQ's redelivery fall between any two. All of it happens within  *)
(* one calendar month and one manual-audit window.                         *)
(***************************************************************************)
EXTENDS Naturals, FiniteSets

CONSTANTS
  Audits,        \* geo_audit ids the database can hand out
  Crons,         \* firings of the weekly or daily schedule
  Requests,      \* manual requests that may be made
  Workers,       \* processing slots of the pool
  Attempts,      \* AUDIT_ATTEMPTS
  MaxRepeats,    \* COVERAGE_RETRY_MAX_ATTEMPTS
  MonthlyCap,    \* monthly_audits_total of the plan
  MaxStalled,    \* BullMQ maxStalledCount, left at its default by the worker
  MaxFaults,     \* bound: failed calls and crashes together
  None

ASSUME ConstantsAssumption ==
  /\ None \notin Audits \cup Workers
  /\ Attempts \in Nat \ {0} /\ MaxRepeats \in Nat /\ MonthlyCap \in Nat
  /\ MaxStalled \in Nat /\ MaxFaults \in Nat

\* what a job is for; BullMQ ignores an add under an id it knows
Manual(a) == <<"manual", a, 0>>
Cron(c) == <<"cron", c, 0>>
Repeat(a, k) == <<"repeat", a, k>>
JobId == {Manual(a) : a \in Audits} \cup {Cron(c) : c \in Crons}
           \cup {Repeat(a, k) : a \in Audits, k \in 1 .. MaxRepeats}
IsRepeat(j) == j[1] = "repeat"

VARIABLES
  audit,     \* geo_audit.status
  scores,    \* geo_score rows of an audit
  retry,     \* coverage_retry of an audit's breakdown
  charged,   \* audits with a row in credit_ledger
  job,       \* BullMQ: state, audit_id of the data, attempts of a live job, stalls, lock
  worker, req, faults,
  \* what happened, for the properties to speak about
  comparable,  \* <<job, audit>>: a run of the job scored the audit on the full panel
  cut,         \* runs of an audit that ended early after writing their score
  escaped,     \* audits whose debit failed
  rowsOf,      \* geo_audit rows a job has inserted
  unsaved,     \* those of them the job's data never came to name
  lost         \* undecided rows nobody is left to decide

tables == <<audit, scores, retry, charged>>
history == <<comparable, cut, escaped, rowsOf, unsaved, lost>>
vars == <<tables, job, worker, req, faults, history>>

AuditStatus == {"none", "pending", "running", "complete", "failed"}
Undecided == {"pending", "running"}
NoRetry == [status |-> "none", attempt |-> 0]
RetryState == [status : {"none", "scheduled", "exhausted", "recovered"}, attempt : Nat]
NoJob == [state |-> "none", row |-> None, attempts |-> 0, stalls |-> 0, lock |-> None]
JobRec == [state : {"none", "waiting", "active", "completed", "failed"},
           row : Audits \cup {None}, attempts : Nat, stalls : Nat, lock : Workers \cup {None}]

WorkerPc == {"idle", "insert", "update_data", "mark_running", "cap", "panel", "probe", "refuse",
             "score", "complete", "charge", "plan", "enqueue", "record", "unrun",
             "catch", "finish"}
\* row: audit_id; scheduled: job.data has no audit_id; ready: the run goes on to probe;
\* full: the panel answered in full; next: repeat state to record; fails: nothing, a throw
\* BullMQ retries, or one it does not
IdleWorker == [pc |-> "idle", job |-> None, row |-> None, scheduled |-> FALSE, ready |-> TRUE,
               full |-> TRUE, next |-> NoRetry, fails |-> "no"]
WorkerRec == [pc : WorkerPc, job : JobId \cup {None}, row : Audits \cup {None},
              scheduled : BOOLEAN, ready : BOOLEAN, full : BOOLEAN,
              next : RetryState, fails : {"no", "retry", "final"}]
ReqPc == {"idle", "window", "month", "insert", "enqueue", "mark", "finished"}

TypeOK ==
  /\ audit \in [Audits -> AuditStatus] /\ scores \in [Audits -> Nat]
  /\ retry \in [Audits -> RetryState] /\ charged \subseteq Audits
  /\ job \in [JobId -> JobRec] /\ worker \in [Workers -> WorkerRec]
  /\ req \in [Requests -> [pc : ReqPc, row : Audits \cup {None}]]
  /\ faults \in 0 .. MaxFaults
  /\ comparable \subseteq JobId \X Audits /\ cut \in [Audits -> Nat] /\ escaped \subseteq Audits
  /\ rowsOf \in [JobId -> Nat] /\ unsaved \in [JobId -> Nat] /\ lost \subseteq Audits

Init ==
  /\ audit = [a \in Audits |-> "none"] /\ scores = [a \in Audits |-> 0]
  /\ retry = [a \in Audits |-> NoRetry] /\ charged = {}
  /\ job = [j \in JobId |-> NoJob] /\ worker = [w \in Workers |-> IdleWorker]
  /\ req = [r \in Requests |-> [pc |-> "idle", row |-> None]]
  /\ faults = 0
  /\ comparable = {} /\ cut = [a \in Audits |-> 0] /\ escaped = {}
  /\ rowsOf = [j \in JobId |-> 0] /\ unsaved = [j \in JobId |-> 0] /\ lost = {}

Fault == faults < MaxFaults /\ faults' = faults + 1
Goto(w, pc) == worker' = [worker EXCEPT ![w].pc = pc]
SetAudit(a, status) == audit' = [audit EXCEPT ![a] = status]
\* queue.add: a job that is new waits, one BullMQ knows stays as it is
Add(j, row) ==
  job' = [job EXCEPT ![j] =
    IF @.state = "none" THEN [NoJob EXCEPT !.state = "waiting", !.row = row] ELSE @]
CompletedThisMonth == {a \in Audits : audit[a] = "complete"}
FreshAudit == {a \in Audits : audit[a] = "none"}
\* randomUUID: any id not in use yet, and it does not matter which
NewAudit == CHOOSE a \in FreshAudit : TRUE
-----------------------------------------------------------------------------
(* Who asks: the schedule, and POST /api/brands/:id/audit *)

CronFires(c) ==
  /\ job[Cron(c)].state = "none" /\ Add(Cron(c), None)
  /\ UNCHANGED <<tables, worker, req, faults, history>>

AskAt(r, pc) == req' = [req EXCEPT ![r].pc = pc]

\* no audit of the brand in flight; a super_admin passes by the quotas
RequestChecks(r) ==
  /\ req[r].pc = "idle"
  /\ \A a \in Audits : audit[a] \notin Undecided
  /\ AskAt(r, "window") \/ AskAt(r, "insert")
  /\ UNCHANGED <<tables, job, worker, faults, history>>

\* none by hand in this window, whatever became of it
RequestWindow(r) ==
  /\ req[r].pc = "window"
  /\ AskAt(r, IF \A q \in Requests : req[q].row = None THEN "month" ELSE "finished")
  /\ UNCHANGED <<tables, job, worker, faults, history>>

\* the month is not used up; a count that fails lets the request pass
RequestMonth(r) ==
  /\ req[r].pc = "month"
  /\ \/ /\ AskAt(r, IF Cardinality(CompletedThisMonth) < MonthlyCap THEN "insert" ELSE "finished")
        /\ UNCHANGED faults
     \/ Fault /\ AskAt(r, "insert")
  /\ UNCHANGED <<tables, job, worker, history>>

RequestInserts(r) ==
  /\ req[r].pc = "insert"
  /\ FreshAudit # {}
  /\ SetAudit(NewAudit, "pending")
  /\ req' = [req EXCEPT ![r] = [pc |-> "enqueue", row |-> NewAudit]]
  /\ UNCHANGED <<scores, retry, charged, job, worker, faults, history>>

RequestEnqueues(r) ==
  /\ req[r].pc = "enqueue"
  /\ \/ /\ Add(Manual(req[r].row), req[r].row)
        /\ req' = [req EXCEPT ![r].pc = "finished"] /\ UNCHANGED faults
     \/ /\ Fault /\ req' = [req EXCEPT ![r].pc = "mark"] /\ UNCHANGED job
  /\ UNCHANGED <<tables, worker, history>>

\* the row of a job that could not be queued
RequestMarks(r) ==
  /\ req[r].pc = "mark"
  /\ SetAudit(req[r].row, "failed")
  /\ req' = [req EXCEPT ![r].pc = "finished"]
  /\ UNCHANGED <<scores, retry, charged, job, worker, faults, history>>

\* the API process dies, or the UPDATE of the mark fails
RequestDies(r) ==
  /\ req[r].pc \in {"window", "month", "insert", "enqueue", "mark"} /\ Fault
  /\ lost' = IF req[r].row = None THEN lost ELSE lost \cup {req[r].row}
  /\ req' = [req EXCEPT ![r].pc = "finished"]
  /\ UNCHANGED <<tables, job, worker, comparable, cut, escaped, rowsOf, unsaved>>
-----------------------------------------------------------------------------
(* processAuditJob: the row of the run *)

\* a job without audit_id comes from the schedule and makes its row itself
Take(w, j) ==
  /\ worker[w].pc = "idle" /\ job[j].state = "waiting"
  /\ job[j].row = None => FreshAudit # {}
  /\ job' = [job EXCEPT ![j].state = "active", ![j].lock = w]
  /\ worker' = [worker EXCEPT ![w] = [IdleWorker EXCEPT !.job = j, !.row = job[j].row,
       !.scheduled = job[j].row = None,
       !.pc = IF job[j].row = None THEN "insert" ELSE "mark_running"]]
  /\ UNCHANGED <<tables, req, faults, history>>

InsertRow(w) ==
  /\ worker[w].pc = "insert"
  /\ FreshAudit # {}
  /\ SetAudit(NewAudit, "pending")
  /\ worker' = [worker EXCEPT ![w] = [@ EXCEPT !.pc = "update_data", !.row = NewAudit]]
  /\ rowsOf' = [rowsOf EXCEPT ![worker[w].job] = @ + 1]
  /\ UNCHANGED <<scores, retry, charged, job, req, faults, comparable, cut, escaped,
                 unsaved, lost>>

\* mutant: the job's data keeps what it was queued with
UpdateData_Skipped(w) ==
  /\ worker[w].pc = "update_data"
  /\ Goto(w, "mark_running")
  /\ UNCHANGED <<tables, job, req, faults, history>>

\* job.updateData writes the queue's copy, and the run goes on when the call fails.
\* Whether the run still looks like one without audit_id depends on what the library does
\* with its copy in memory: BullMQ 5 overwrites it, the stub of the tests does not.
UpdateData(w) ==
  /\ worker[w].pc = "update_data"
  /\ \E still \in BOOLEAN :
       worker' = [worker EXCEPT ![w] = [@ EXCEPT !.pc = "mark_running", !.scheduled = still]]
  /\ \/ /\ job' = [job EXCEPT ![worker[w].job].row = worker[w].row]
        /\ UNCHANGED <<faults, unsaved>>
     \/ /\ Fault /\ UNCHANGED job
        /\ unsaved' = [unsaved EXCEPT ![worker[w].job] = @ + 1]
  /\ UNCHANGED <<tables, req, comparable, cut, escaped, rowsOf, lost>>

\* only a repeat looks at the panel before it measures
AfterCap(w) == IF IsRepeat(worker[w].job) THEN "panel" ELSE "probe"

MarkRunning(w) ==
  /\ worker[w].pc = "mark_running"
  /\ SetAudit(worker[w].row, "running")
  /\ Goto(w, IF worker[w].scheduled THEN "cap" ELSE AfterCap(w))
  /\ UNCHANGED <<scores, retry, charged, job, req, faults, history>>

\* the month's ceiling, for a run without audit_id; a count that fails lets it pass
CheckCap(w) ==
  /\ worker[w].pc = "cap"
  /\ \/ /\ IF Cardinality(CompletedThisMonth) >= MonthlyCap
             THEN worker' = [worker EXCEPT ![w] = [@ EXCEPT !.pc = "unrun", !.ready = FALSE]]
             ELSE Goto(w, AfterCap(w))
        /\ UNCHANGED faults
     \/ Fault /\ Goto(w, AfterCap(w))
  /\ UNCHANGED <<tables, job, req, history>>
-----------------------------------------------------------------------------
(* The measurement, its score and its charge *)

\* a repeat of an audit whose engines are still missing does not measure
CheckPanel(w) ==
  /\ worker[w].pc = "panel"
  /\ \/ Goto(w, "probe")
     \/ worker' = [worker EXCEPT ![w] = [@ EXCEPT !.pc = "plan", !.ready = FALSE, !.full = FALSE]]
  /\ UNCHANGED <<tables, job, req, faults, history>>

\* the engines answer in full, well enough for a score, or too few of them did (or a
\* citation could not be verified)
Probe(w) ==
  /\ worker[w].pc = "probe"
  /\ \/ \E full \in BOOLEAN :
          worker' = [worker EXCEPT ![w] = [@ EXCEPT !.pc = "score", !.full = full]]
     \/ Goto(w, "refuse")
  /\ UNCHANGED <<tables, job, req, faults, history>>

\* the reason on the row, and a throw no retry follows
Refuse(w) ==
  /\ worker[w].pc = "refuse"
  /\ SetAudit(worker[w].row, "failed")
  /\ worker' = [worker EXCEPT ![w] = [@ EXCEPT !.pc = "catch", !.fails = "final"]]
  /\ UNCHANGED <<scores, retry, charged, job, req, faults, history>>

\* geo_score has no unique key on audit_id
WriteScore(w) ==
  LET a == worker[w].row IN
  /\ worker[w].pc = "score"
  /\ scores' = [scores EXCEPT ![a] = @ + 1]
  /\ comparable' = IF worker[w].full THEN comparable \cup {<<worker[w].job, a>>} ELSE comparable
  /\ Goto(w, "complete")
  /\ UNCHANGED <<audit, retry, charged, job, req, faults, cut, escaped, rowsOf,
                 unsaved, lost>>

\* mutant: the charge comes with the end of the row and not after it
Complete_SkipsCharge(w) ==
  /\ worker[w].pc = "complete"
  /\ SetAudit(worker[w].row, "complete") /\ Goto(w, "plan")
  /\ UNCHANGED <<scores, retry, charged, job, req, faults, history>>

Complete(w) ==
  /\ worker[w].pc = "complete"
  /\ SetAudit(worker[w].row, "complete") /\ Goto(w, "charge")
  /\ UNCHANGED <<scores, retry, charged, job, req, faults, history>>

\* mutant: a debit that fails is thrown to the queue
Charge_FailsClosed(w) ==
  /\ worker[w].pc = "charge"
  /\ \/ /\ charged' = charged \cup {worker[w].row} /\ Goto(w, "plan") /\ UNCHANGED faults
     \/ /\ Fault /\ UNCHANGED charged
        /\ worker' = [worker EXCEPT ![w] = [@ EXCEPT !.pc = "catch", !.fails = "retry"]]
  /\ UNCHANGED <<audit, scores, retry, job, req, history>>

\* INSERT ... ON CONFLICT DO NOTHING, and a failure is only logged
Charge(w) ==
  /\ worker[w].pc = "charge" /\ Goto(w, "plan")
  /\ \/ /\ charged' = charged \cup {worker[w].row} /\ UNCHANGED <<faults, escaped>>
     \/ /\ Fault /\ escaped' = escaped \cup {worker[w].row} /\ UNCHANGED charged
  /\ UNCHANGED <<audit, scores, retry, job, req, comparable, cut, rowsOf, unsaved,
                 lost>>
-----------------------------------------------------------------------------
(* The repeat of a scheduled run with an incomplete panel: planCoverageRetry and
   applyCoverageRetry. Brands on the weekly schedule; a daily one plans none. *)

AttemptsUsed(j) == IF IsRepeat(j) THEN j[3] ELSE 0
Origin(w) == IF IsRepeat(worker[w].job) THEN worker[w].job[2] ELSE worker[w].row
\* a repeat that did not probe still has its own row to mark
AfterPlan(w) == IF worker[w].ready THEN "finish" ELSE "unrun"

\* mutant: any repeat that ran has repaired its origin
Repaired_Always(w) == worker[w].ready /\ IsRepeat(worker[w].job)
Repaired(w) == worker[w].ready /\ IsRepeat(worker[w].job) /\ worker[w].full
PlansRepeat(w) == ~worker[w].full /\ (worker[w].scheduled \/ ~worker[w].ready)

\* mutant: the repeat is recorded and nothing queues it
Plan_OnlyRecords(w) ==
  LET used == AttemptsUsed(worker[w].job)
      Record(pc, status, k) == worker' = [worker EXCEPT ![w] =
        [@ EXCEPT !.pc = pc, !.next = [status |-> status, attempt |-> k]]] IN
  /\ worker[w].pc = "plan"
  /\ \/ Repaired(w) /\ Record("record", "recovered", used)
     \/ /\ ~Repaired(w) /\ PlansRepeat(w)
        /\ \/ used < MaxRepeats /\ Record("record", "scheduled", used + 1)
           \/ used >= MaxRepeats /\ Record("record", "exhausted", used)
     \/ ~Repaired(w) /\ ~PlansRepeat(w) /\ Goto(w, AfterPlan(w))
  /\ UNCHANGED <<tables, job, req, faults, history>>

Plan(w) ==
  LET used == AttemptsUsed(worker[w].job)
      Record(pc, status, k) == worker' = [worker EXCEPT ![w] =
        [@ EXCEPT !.pc = pc, !.next = [status |-> status, attempt |-> k]]] IN
  /\ worker[w].pc = "plan"
  /\ \/ Repaired(w) /\ Record("record", "recovered", used)
     \/ /\ ~Repaired(w) /\ PlansRepeat(w)
        /\ \/ used < MaxRepeats /\ Record("enqueue", "scheduled", used + 1)
           \/ used >= MaxRepeats /\ Record("record", "exhausted", used)
     \/ ~Repaired(w) /\ ~PlansRepeat(w) /\ Goto(w, AfterPlan(w))
  /\ UNCHANGED <<tables, job, req, faults, history>>

EnqueueRepeat(w) ==
  /\ worker[w].pc = "enqueue" /\ Goto(w, "record")
  /\ Add(Repeat(Origin(w), worker[w].next.attempt), None)
  /\ UNCHANGED <<tables, req, faults, history>>

\* an UPDATE of the origin's score rows, when it has one
RecordRepeat(w) ==
  /\ worker[w].pc = "record"
  /\ worker' = [worker EXCEPT ![w] = [@ EXCEPT !.pc = AfterPlan(w), !.next = NoRetry]]
  /\ retry' = [retry EXCEPT ![Origin(w)] =
       IF scores[Origin(w)] = 0 THEN @ ELSE worker[w].next]
  /\ UNCHANGED <<audit, scores, charged, job, req, faults, history>>

\* mutant: a status geo_audit does not know
MarkUnrun_Skipped(w) ==
  /\ worker[w].pc = "unrun"
  /\ SetAudit(worker[w].row, "skipped") /\ Goto(w, "finish")
  /\ UNCHANGED <<scores, retry, charged, job, req, faults, history>>

\* the row of a run that did not probe, over the cap or for want of the panel
MarkUnrun(w) ==
  /\ worker[w].pc = "unrun"
  /\ SetAudit(worker[w].row, "failed") /\ Goto(w, "finish")
  /\ UNCHANGED <<scores, retry, charged, job, req, faults, history>>
-----------------------------------------------------------------------------
(* How a run ends *)

\* mutant: the row of a job that threw is left as it is
MarkFailed_Never(w) ==
  /\ worker[w].pc = "catch" /\ Goto(w, "finish")
  /\ UNCHANGED <<tables, job, req, faults, history>>

\* mutant: the mark does not look at the status it replaces
MarkFailed_Any(w) ==
  LET a == worker[w].row IN
  /\ worker[w].pc = "catch" /\ Goto(w, "finish")
  /\ audit' = IF a # None THEN [audit EXCEPT ![a] = "failed"] ELSE audit
  /\ UNCHANGED <<scores, retry, charged, job, req, faults, history>>

\* markAuditFailedOnThrow; its own failure is logged
MarkFailed(w) ==
  LET a == worker[w].row IN
  /\ worker[w].pc = "catch" /\ Goto(w, "finish")
  /\ \/ /\ audit' = IF a # None /\ audit[a] \in Undecided
                      THEN [audit EXCEPT ![a] = "failed"] ELSE audit
        /\ UNCHANGED <<faults, lost>>
     \/ /\ Fault /\ lost' = IF a = None THEN lost ELSE lost \cup {a}
        /\ UNCHANGED audit
  /\ UNCHANGED <<scores, retry, charged, job, req, comparable, cut, escaped, rowsOf,
                 unsaved>>

\* BullMQ: completed, another attempt after the backoff, or failed for good
Finish(w) ==
  LET j == worker[w].job
      again == worker[w].fails = "retry" /\ job[j].attempts + 1 < Attempts IN
  /\ worker[w].pc = "finish"
  /\ job' = [job EXCEPT ![j].lock = None, ![j].attempts = IF again THEN @ + 1 ELSE 0,
       ![j].state = IF worker[w].fails = "no" THEN "completed"
                    ELSE IF again THEN "waiting" ELSE "failed"]
  /\ worker' = [worker EXCEPT ![w] = IdleWorker]
  /\ UNCHANGED <<tables, req, faults, history>>

\* the run has written its score: it went on to probe, and past the INSERT, and has not
\* been refused or ended before
Scored(w) ==
  /\ worker[w].ready /\ worker[w].fails = "no"
  /\ worker[w].pc \in {"complete", "charge", "plan", "enqueue", "record", "finish"}
CutShort(w) ==
  cut' = IF worker[w].row # None /\ Scored(w)
           THEN [cut EXCEPT ![worker[w].row] = @ + 1] ELSE cut

\* a query of the run throws. Most leave the processor (at "charge" it is the stamp of the
\* methodology before the debit), those about the repeat are caught, and an unrun row that
\* cannot be marked ends the job.
CallFails(w) ==
  LET Throws(kind) == worker' = [worker EXCEPT ![w] = [@ EXCEPT !.pc = "catch", !.fails = kind]]
  IN
  /\ Fault
  /\ \/ /\ worker[w].pc \in {"insert", "mark_running", "refuse", "score", "complete", "charge"}
        /\ Throws("retry") /\ CutShort(w)
     \/ worker[w].pc \in {"enqueue", "record"} /\ Goto(w, AfterPlan(w)) /\ UNCHANGED cut
     \/ worker[w].pc = "unrun" /\ Throws("final") /\ UNCHANGED cut
  /\ UNCHANGED <<tables, job, req, comparable, escaped, rowsOf, unsaved, lost>>

\* the worker process dies; a row only the dead run knew of is nobody's
Crash(w) ==
  LET a == worker[w].row IN
  /\ worker[w].pc # "idle" /\ Fault
  /\ CutShort(w)
  /\ lost' = IF a # None /\ job[worker[w].job].row # a THEN lost \cup {a} ELSE lost
  /\ unsaved' = IF worker[w].pc = "update_data"
                  THEN [unsaved EXCEPT ![worker[w].job] = @ + 1] ELSE unsaved
  /\ worker' = [worker EXCEPT ![w] = IdleWorker]
  /\ UNCHANGED <<tables, job, req, comparable, escaped, rowsOf>>

\* BullMQ finds the lock of a dead run expired
StalledCheck(j) ==
  /\ job[j].state = "active" /\ worker[job[j].lock].job # j
  /\ job' = [job EXCEPT ![j].lock = None, ![j].stalls = @ + 1,
       ![j].state = IF job[j].stalls < MaxStalled THEN "waiting" ELSE "failed"]
  /\ lost' = IF job[j].stalls >= MaxStalled /\ job[j].row # None
               THEN lost \cup {job[j].row} ELSE lost
  /\ UNCHANGED <<tables, worker, req, faults, comparable, cut, escaped, rowsOf,
                 unsaved>>
-----------------------------------------------------------------------------
RequestStep(r) ==
  \/ RequestWindow(r) \/ RequestMonth(r)
  \/ RequestInserts(r) \/ RequestEnqueues(r) \/ RequestMarks(r)

RunStep(w) ==
  \/ InsertRow(w) \/ UpdateData(w) \/ MarkRunning(w) \/ CheckCap(w) \/ CheckPanel(w) \/ Probe(w)
  \/ Refuse(w) \/ WriteScore(w) \/ Complete(w) \/ Charge(w)
  \/ Plan(w) \/ EnqueueRepeat(w) \/ RecordRepeat(w) \/ MarkUnrun(w) \/ MarkFailed(w) \/ Finish(w)

Next ==
  \/ \E c \in Crons : CronFires(c)
  \/ \E r \in Requests : RequestChecks(r) \/ RequestStep(r) \/ RequestDies(r)
  \/ \E w \in Workers, j \in JobId : Take(w, j)
  \/ \E w \in Workers : RunStep(w) \/ CallFails(w) \/ Crash(w)
  \/ \E j \in JobId : StalledCheck(j)

Spec == Init /\ [][Next]_vars

\* what the system does when nobody asks for anything and nothing fails: requests and runs
\* in progress go on, the pool polls, the stalled check comes round
SystemStep ==
  \/ \E r \in Requests : RequestStep(r)
  \/ \E w \in Workers : RunStep(w) \/ \E j \in JobId : Take(w, j)
  \/ \E j \in JobId : StalledCheck(j)

\* jobs, attempts and stalls are bounded, so it is enough that some such step is taken as
\* long as there is one; schedule, customers and faults owe nothing
Fairness == WF_vars(SystemStep)

FairSpec == Spec /\ Fairness
-----------------------------------------------------------------------------
(* Properties *)

\* "A run that fails, or that the margin guard skips, must not consume credits": only a
\* scored audit is charged, and one that BullMQ completed is, unless the debit failed. What
\* BullMQ completed is the row the job's data names; the rows it does not name are counted
\* by OneRowPerJob.
DeliveredIsCharged ==
  /\ \A a \in charged : scores[a] > 0
  /\ \A j \in JobId : job[j].state = "completed" /\ job[j].row # None
       => (audit[job[j].row] = "complete" => job[j].row \in charged \cup escaped)

\* An audit has one score row, and one more for each run that had written one and was cut
\* short before its end.
ScoresExplained == \A a \in Audits : scores[a] <= 1 + cut[a]

\* "A repeat that was never queued while the breakdown says scheduled" does not happen,
\* whatever fails between the decision, the queue and the record.
ScheduledIsQueued ==
  \A a \in Audits : retry[a].status = "scheduled" => job[Repeat(a, retry[a].attempt)].state # "none"

\* "Recovered" is said of an audit only when that very repeat of it, the one the record
\* numbers, has been scored on the full panel, in a row of its own.
RecoveredIsMeasured ==
  \A a \in Audits : retry[a].status = "recovered" =>
    \E b \in Audits \ {a} : <<Repeat(a, retry[a].attempt), b>> \in comparable

\* "A retry of THIS job must reuse THIS row": a scheduled job makes one row, and one more
\* for each row its data never came to name.
OneRowPerJob == \A j \in JobId : rowsOf[j] <= 1 + unsaved[j]

\* A complete audit is never failed by the run that completed it, whatever that run does
\* afterwards: it only goes back to running, when BullMQ runs a job again that was cut short.
CompleteStands ==
  [][\A a \in Audits : audit[a] = "complete" /\ audit'[a] # "complete"
       => audit'[a] = "running" /\ cut[a] > 0]_vars

\* No zombies: when the schedule and the customers stop asking, every row ends up decided,
\* except those nobody is left to decide (their request or last allowed run died, or the
\* mark itself failed).
RowsAreDecided == <>[](\A a \in Audits : audit[a] \in Undecided => a \in lost)
=============================================================================
