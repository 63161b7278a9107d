----------------------- MODULE PublishPipelineProofs -----------------------
(***************************************************************************)
(* The safety of posts and records in PublishPipeline, for every number of *)
(* drafts, accounts, jobs, workers, requests and slots and every bound.    *)
(*                                                                         *)
(* The argument: BullMQ gives a job's lock to one run at a time. A run     *)
(* that has the lock and is past the guard finds no record of a post, and  *)
(* the post it makes is answered for by that run until it either records   *)
(* it or ends, which is then an excuse. So a job has at most one post that *)
(* is not excused.                                                         *)
(***************************************************************************)
EXTENDS PublishPipelineTypes

\* only an active job is locked, and a job about to be enqueued is not in the queue yet
LockIsActive == \A j \in Jobs : bull[j] # "active" => lock[j] = None

EnqueueOnce ==
  \A r \in Requests : req[r].pc = "s_enqueue" =>
    /\ bull[req[r].job] = "none"
    /\ \A q \in Requests \ {r} : req[q].pc = "s_enqueue" => req[q].job # req[r].job

QueueInv == LockIsActive /\ EnqueueOnce

\* a run has posted from its dispatch to its end
PostedPc ==
  \A w \in Workers :
    /\ worker[w].posted => worker[w].pc \notin PrePost \cup {"idle", "fetch_job"}
    /\ worker[w].pc = "mark_done" => worker[w].posted

\* a recorded post is out of the queue's reach: its row is settled, and a run that has
\* the job's lock made the post itself or has not got past the guard
RecordedRow == \A j \in Jobs : recorded[j] => status[j] \notin ActiveRow
RecordedRun ==
  \A j \in Jobs, w \in Workers : recorded[j] /\ Holds(w, j) =>
    worker[w].posted \/ worker[w].pc \in {"fetch_job", "finish"}

\* a post beyond the excused ones is recorded, or its run is still in progress
Accounted(j) == recorded[j] \/ \E w \in Workers : Holds(w, j) /\ worker[w].posted
PostsAccounted ==
  \A j \in Jobs : posts[j] <= excuse[j] + (IF Accounted(j) THEN 1 ELSE 0)

PostInv == PostedPc /\ RecordedRow /\ RecordedRun /\ PostsAccounted

IInv == LinkInv /\ QueueInv /\ PostInv

USE DEF draftVars, accountVars, rowVars, queueVars, history
-----------------------------------------------------------------------------
(* The queue: a job is enqueued once and locked only while it is active *)

\* the request r goes on, and not to the enqueueing of a job
GoesOn(r) ==
  req'[r].pc \notin {"s_enqueue", "s_mark_queued"} /\ \A q \in Requests \ {r} : req'[q] = req[q]

\* A request that does not come to enqueue a job leaves the queue's invariant as it is.
LEMMA QuietRequest ==
  ASSUME QueueInv, NEW r \in Requests, GoesOn(r), UNCHANGED <<bull, lock>>
  PROVE  QueueInv'
BY DEF QueueInv, LockIsActive, EnqueueOnce, GoesOn

\* Only the insertion of a row leads a request to an enqueueing.
LEMMA RequestsGoOn ==
  ASSUME LinkInv, NEW r \in Requests
  PROVE  /\ \A d \in Drafts, accts \in SUBSET Accounts : ScheduleCheckDraft(r, d, accts) => GoesOn(r)
         /\ \A d \in Drafts : ApproveCheck(r, d) \/ RegenerateFetch(r, d) => GoesOn(r)
         /\ \A j \in Jobs : CancelCheck(r, j) => GoesOn(r)
         /\ ScheduleCheckAccounts(r) \/ ScheduleMarkQueued(r) \/ ScheduleMarkDraft(r) => GoesOn(r)
         /\ CancelUpdate(r) \/ CancelRemove(r) \/ CancelCount(r) \/ CancelRevert(r) => GoesOn(r)
         /\ ApproveUpdate(r) \/ RegenerateUpdate(r) \/ EraseSubject(r) \/ RequestFails(r) => GoesOn(r)
         /\ \A a \in Accounts : DisconnectAccount(r, a) => GoesOn(r)
<1>0. Ends(r) => GoesOn(r)
  BY StateTypes DEF Ends, GoesOn, IdleReq
<1>1. ASSUME NEW d \in Drafts, NEW accts \in SUBSET Accounts, ScheduleCheckDraft(r, d, accts)
      PROVE  GoesOn(r)
  BY StateTypes, <1>1 DEF ScheduleCheckDraft, GoesOn, ReqRec
<1>2. ASSUME ScheduleCheckAccounts(r)
      PROVE  GoesOn(r)
  BY <1>0, StateTypes, <1>2 DEF ScheduleCheckAccounts, GoesOn, ReqRec
<1>4. ASSUME ScheduleMarkQueued(r)
      PROVE  GoesOn(r)
  BY StateTypes, <1>4 DEF ScheduleMarkQueued, GoesOn, ReqRec
<1>5. ASSUME ScheduleMarkDraft(r)
      PROVE  GoesOn(r)
  BY <1>0, <1>5 DEF ScheduleMarkDraft
<1>6. ASSUME NEW j \in Jobs, CancelCheck(r, j)
      PROVE  GoesOn(r)
  BY StateTypes, <1>6 DEF CancelCheck, GoesOn, ReqRec
<1>7. ASSUME CancelUpdate(r)
      PROVE  GoesOn(r)
  BY StateTypes, <1>7 DEF CancelUpdate, GoesOn, ReqRec
<1>8. ASSUME CancelRemove(r)
      PROVE  GoesOn(r)
  BY StateTypes, <1>8 DEF CancelRemove, GoesOn, ReqRec
<1>9. ASSUME CancelCount(r)
      PROVE  GoesOn(r)
  BY <1>0, StateTypes, <1>9 DEF CancelCount, GoesOn, ReqRec
<1>10. ASSUME CancelRevert(r)
      PROVE  GoesOn(r)
  BY <1>0, <1>10 DEF CancelRevert
<1>11. ASSUME NEW d \in Drafts, ApproveCheck(r, d)
      PROVE  GoesOn(r)
  BY StateTypes, <1>11 DEF ApproveCheck, GoesOn, ReqRec
<1>12. ASSUME ApproveUpdate(r)
      PROVE  GoesOn(r)
  BY <1>0, <1>12 DEF ApproveUpdate
<1>13. ASSUME NEW d \in Drafts, RegenerateFetch(r, d)
      PROVE  GoesOn(r)
  BY StateTypes, <1>13 DEF RegenerateFetch, GoesOn, ReqRec
<1>14. ASSUME RegenerateUpdate(r)
      PROVE  GoesOn(r)
  BY <1>0, <1>14 DEF RegenerateUpdate
<1>15. ASSUME NEW a \in Accounts, DisconnectAccount(r, a)
      PROVE  GoesOn(r)
  BY <1>0, <1>15 DEF DisconnectAccount
<1>16. ASSUME EraseSubject(r)
      PROVE  GoesOn(r)
  BY <1>0, <1>16 DEF EraseSubject
<1>17. ASSUME RequestFails(r)
      PROVE  GoesOn(r)
  BY <1>0, <1>17 DEF RequestFails
<1>. QED
  BY <1>1, <1>2, <1>4, <1>5, <1>6, <1>7, <1>8, <1>9, <1>10, <1>11, <1>12, <1>13, <1>14, <1>15, <1>16, <1>17

\* No step locks a job that is not active or enqueues one twice.
LEMMA QueueKept ==
  ASSUME LinkInv, QueueInv, Next
  PROVE  QueueInv'
<1>0. TypeOK /\ FreshIds /\ RequestsLinked /\ LockIsActive /\ EnqueueOnce
  BY DEF LinkInv, Links, QueueInv
<1>1. ASSUME NEW r \in Requests, ScheduleInsertJob(r)
      PROVE  QueueInv'
  <2>1. CASE Ends(r)
    <3>1. GoesOn(r)
      BY <2>1, StateTypes DEF Ends, GoesOn, IdleReq
    <3>. QED
      BY Zenon, <3>1, QuietRequest, <1>1 DEF ScheduleInsertJob
  <2>2. ASSUME NEW a \in req[r].todo, NEW j \in Jobs, status[j] = "none",
               req' = [req EXCEPT ![r] = [@ EXCEPT !.pc = "s_enqueue", !.job = j,
                                          !.todo = req[r].todo \ {a}]]
        PROVE  QueueInv'
    <3>1. /\ req'[r].job = j
          /\ \A q \in Requests \ {r} : req'[q] = req[q]
      BY StateTypes, <2>2 DEF ReqRec
    <3>2. bull[j] = "none" /\ \A q \in Requests : req[q].job # j
      BY <1>0, <2>2 DEF FreshIds
    <3>3. UNCHANGED <<bull, lock>>
      BY Zenon, <1>1 DEF ScheduleInsertJob
    <3>. QED
      BY <1>0, <3>1, <3>2, <3>3 DEF QueueInv, LockIsActive, EnqueueOnce
  <2>. QED
    BY Zenon, <2>1, <2>2, <1>1 DEF ScheduleInsertJob
<1>2. ASSUME NEW r \in Requests, ScheduleEnqueue(r)
      PROVE  QueueInv'
  <2>1. req'[r].pc # "s_enqueue" /\ \A q \in Requests \ {r} : req'[q] = req[q]
    BY <1>2, StateTypes DEF ScheduleEnqueue, ReqRec
  <2>. QED
    BY <1>0, <2>1, <1>2 DEF ScheduleEnqueue, QueueInv, LockIsActive, EnqueueOnce, TypeOK
<1>3. ASSUME NEW r \in Requests, CancelRemove(r)
      PROVE  QueueInv'
  <2>1. GoesOn(r)
    BY <1>3, RequestsGoOn
  <2>2. lock' = lock
    BY <1>3 DEF CancelRemove
  <2>3. CASE bull' = bull
    BY <2>1, <2>2, <2>3, QuietRequest
  <2>4. CASE bull[req[r].job] \notin {"none", "active"} /\ bull' = [bull EXCEPT ![req[r].job] = "removed"]
    <3>1. LockIsActive'
      BY <1>0, <2>2, <2>4 DEF LockIsActive, TypeOK
    <3>2. req'[r].pc # "s_enqueue" /\ \A q \in Requests \ {r} : req'[q] = req[q]
      BY <2>1 DEF GoesOn
    <3>3. \A j \in Jobs : bull[j] = "none" => bull'[j] = "none"
      BY <1>0, <2>4 DEF TypeOK
    <3>4. EnqueueOnce'
      BY <1>0, <3>2, <3>3 DEF EnqueueOnce, RequestsLinked
    <3>. QED
      BY <3>1, <3>4 DEF QueueInv
  <2>. QED
    BY <2>3, <2>4, <1>3 DEF CancelRemove
<1>4. ASSUME NEW w \in Workers, NEW j \in Jobs, Take(w, j)
      PROVE  QueueInv'
  BY <1>0, <1>4 DEF Take, QueueInv, LockIsActive, EnqueueOnce, TypeOK
<1>5. ASSUME NEW w \in Workers, Finish(w)
      PROVE  QueueInv'
  <2>1. req' = req
    BY <1>5 DEF Finish
  <2>2. CASE lock[worker[w].job] = w
    <3>1. worker[w].job \in Jobs /\ bull[worker[w].job] = "active"
      BY ConstantsAssumption, RunTypes, <1>0, <2>2, <1>5 DEF Finish, Working, LockIsActive
    <3>2. /\ lock' = [lock EXCEPT ![worker[w].job] = None]
          /\ \E b \in BullState \ {"none", "active"} : bull' = [bull EXCEPT ![worker[w].job] = b]
      BY <2>2, <1>5 DEF Finish, BullState
    <3>. QED
      BY <1>0, <2>1, <3>1, <3>2 DEF QueueInv, LockIsActive, EnqueueOnce, TypeOK
  <2>3. CASE lock[worker[w].job] # w
    BY <1>0, <2>1, <2>3, <1>5 DEF Finish, QueueInv, LockIsActive, EnqueueOnce
  <2>. QED
    BY <2>2, <2>3
<1>6. ASSUME NEW j \in Jobs, StalledCheck(j)
      PROVE  QueueInv'
  BY <1>0, <1>6 DEF StalledCheck, QueueInv, LockIsActive, EnqueueOnce, TypeOK
<1>7. ASSUME UNCHANGED <<bull, lock, req>>
      PROVE  QueueInv'
  BY <1>0, <1>7 DEF QueueInv, LockIsActive, EnqueueOnce
<1>8. ASSUME NEW r \in Requests, GoesOn(r), UNCHANGED <<bull, lock>>
      PROVE  QueueInv'
  BY <1>8, QuietRequest
<1>9. CASE ApiStep
  <2>1. ASSUME NEW r \in Requests, NEW d \in Drafts, NEW accts \in SUBSET Accounts, ScheduleCheckDraft(r, d, accts)
        PROVE  QueueInv'
    BY Zenon, <1>8, <2>1, RequestsGoOn DEF ScheduleCheckDraft
  <2>2. ASSUME NEW r \in Requests, ScheduleCheckAccounts(r)
        PROVE  QueueInv'
    BY <1>8, <2>2, RequestsGoOn DEF ScheduleCheckAccounts
  <2>3. ASSUME NEW r \in Requests, ScheduleMarkQueued(r)
        PROVE  QueueInv'
    BY <1>8, <2>3, RequestsGoOn DEF ScheduleMarkQueued
  <2>4. ASSUME NEW r \in Requests, ScheduleMarkDraft(r)
        PROVE  QueueInv'
    BY <1>8, <2>4, RequestsGoOn DEF ScheduleMarkDraft
  <2>5. ASSUME NEW r \in Requests, NEW j \in Jobs, CancelCheck(r, j)
        PROVE  QueueInv'
    BY Zenon, <1>8, <2>5, RequestsGoOn DEF CancelCheck
  <2>6. ASSUME NEW r \in Requests, CancelUpdate(r)
        PROVE  QueueInv'
    BY <1>8, <2>6, RequestsGoOn DEF CancelUpdate
  <2>7. ASSUME NEW r \in Requests, CancelCount(r)
        PROVE  QueueInv'
    BY <1>8, <2>7, RequestsGoOn DEF CancelCount
  <2>8. ASSUME NEW r \in Requests, CancelRevert(r)
        PROVE  QueueInv'
    BY <1>8, <2>8, RequestsGoOn DEF CancelRevert
  <2>9. ASSUME NEW r \in Requests, NEW d \in Drafts, ApproveCheck(r, d)
        PROVE  QueueInv'
    BY Zenon, <1>8, <2>9, RequestsGoOn DEF ApproveCheck
  <2>10. ASSUME NEW r \in Requests, ApproveUpdate(r)
        PROVE  QueueInv'
    BY <1>8, <2>10, RequestsGoOn DEF ApproveUpdate
  <2>11. ASSUME NEW r \in Requests, NEW d \in Drafts, RegenerateFetch(r, d)
        PROVE  QueueInv'
    BY Zenon, <1>8, <2>11, RequestsGoOn DEF RegenerateFetch
  <2>12. ASSUME NEW r \in Requests, RegenerateUpdate(r)
        PROVE  QueueInv'
    BY <1>8, <2>12, RequestsGoOn DEF RegenerateUpdate
  <2>13. ASSUME NEW r \in Requests, NEW a \in Accounts, DisconnectAccount(r, a)
        PROVE  QueueInv'
    BY <1>8, <2>13, RequestsGoOn DEF DisconnectAccount
  <2>14. ASSUME NEW r \in Requests, EraseSubject(r)
        PROVE  QueueInv'
    BY <1>8, <2>14, RequestsGoOn DEF EraseSubject
  <2>. QED
    BY <1>1, <1>2, <1>3, <1>9, <2>1, <2>2, <2>3, <2>4, <2>5, <2>6, <2>7, <2>8, <2>9, <2>10, <2>11, <2>12, <2>13, <2>14 DEF ApiStep
<1>10. CASE WorkerStep
  <2>1. ASSUME NEW w \in Workers, FetchJob(w) \/ AcquireSlot(w) \/ MarkProcessing(w) \/ FetchDraft(w) \/ FetchAccount(w)
        PROVE  QueueInv'
    BY <1>7, <2>1 DEF FetchJob, AcquireSlot, MarkProcessing, FetchDraft, FetchAccount
  <2>2. ASSUME NEW w \in Workers, Dispatch(w) \/ MarkDone(w) \/ MarkPublished(w) \/ AuditLog(w)
        PROVE  QueueInv'
    BY <1>7, <2>2 DEF Dispatch, MarkDone, MarkPublished, AuditLog
  <2>3. ASSUME NEW w \in Workers, CatchRead(w) \/ CatchWrite(w) \/ ReleaseGet(w) \/ ReleaseDel(w)
        PROVE  QueueInv'
    BY <1>7, <2>3 DEF CatchRead, CatchWrite, ReleaseGet, ReleaseDel
  <2>. QED
    BY <1>4, <1>5, <1>10, <2>1, <2>2, <2>3 DEF WorkerStep, RunStep
<1>11. CASE FaultStep
  BY Zenon, <1>6, <1>7, <1>8, <1>11, RequestsGoOn
  DEF FaultStep, CallFails, Crash, SlotExpires, TokenExpires, RequestFails
<1>. QED
  BY <1>9, <1>10, <1>11 DEF Next
-----------------------------------------------------------------------------
(* Runs: where each action takes the run that makes it *)

\* the run w goes on to the point p, on the same job
GoesTo(w, p) ==
  /\ worker'[w].pc = p /\ worker'[w].job = worker[w].job
  /\ \A v \in Workers \ {w} : worker'[v] = worker[v]
\* and still knows whether it has posted
MovesTo(w, p) == GoesTo(w, p) /\ worker'[w].posted = worker[w].posted

\* A run that writes its point and one more field of its record moves to that point.
LEMMA FieldMoves ==
  ASSUME LinkInv, NEW w \in Workers, NEW p, NEW x
  PROVE  /\ worker' = [worker EXCEPT ![w].pc = p] => MovesTo(w, p)
         /\ worker' = [worker EXCEPT ![w] = [@ EXCEPT !.pc = p, !.retry = x]] => MovesTo(w, p)
         /\ worker' = [worker EXCEPT ![w] = [@ EXCEPT !.pc = p, !.slot = x]] => MovesTo(w, p)
         /\ worker' = [worker EXCEPT ![w] = [@ EXCEPT !.pc = p, !.text = x]] => MovesTo(w, p)
         /\ worker' = [worker EXCEPT ![w] = [@ EXCEPT !.pc = p, !.count = x]] => MovesTo(w, p)
         /\ worker' = [worker EXCEPT ![w] = [@ EXCEPT !.pc = p, !.throws = x]] => MovesTo(w, p)
         /\ worker' = [worker EXCEPT ![w] = [@ EXCEPT !.pc = p, !.posted = TRUE]]
              => GoesTo(w, p) /\ worker'[w].posted
<1>1. worker' = [worker EXCEPT ![w].pc = p] => MovesTo(w, p)
  BY StateTypes DEF MovesTo, GoesTo, WorkerRec
<1>2. worker' = [worker EXCEPT ![w] = [@ EXCEPT !.pc = p, !.retry = x]] => MovesTo(w, p)
  BY StateTypes DEF MovesTo, GoesTo, WorkerRec
<1>3. worker' = [worker EXCEPT ![w] = [@ EXCEPT !.pc = p, !.slot = x]] => MovesTo(w, p)
  BY StateTypes DEF MovesTo, GoesTo, WorkerRec
<1>4. worker' = [worker EXCEPT ![w] = [@ EXCEPT !.pc = p, !.text = x]] => MovesTo(w, p)
  BY StateTypes DEF MovesTo, GoesTo, WorkerRec
<1>5. worker' = [worker EXCEPT ![w] = [@ EXCEPT !.pc = p, !.count = x]] => MovesTo(w, p)
  BY StateTypes DEF MovesTo, GoesTo, WorkerRec
<1>6. worker' = [worker EXCEPT ![w] = [@ EXCEPT !.pc = p, !.throws = x]] => MovesTo(w, p)
  BY StateTypes DEF MovesTo, GoesTo, WorkerRec
<1>7. worker' = [worker EXCEPT ![w] = [@ EXCEPT !.pc = p, !.posted = TRUE]]
        => GoesTo(w, p) /\ worker'[w].posted
  BY StateTypes DEF GoesTo, WorkerRec
<1>. QED
  BY <1>1, <1>2, <1>3, <1>4, <1>5, <1>6, <1>7

\* The points the actions of a run take it to.
LEMMA RunsGoOn ==
  ASSUME LinkInv, NEW w \in Workers
  PROVE  /\ FetchJob(w) => MovesTo(w, "finish") \/ MovesTo(w, "acquire")
         /\ AcquireSlot(w) => \/ MovesTo(w, "mark_processing") \/ MovesTo(w, "acquire")
                              \/ MovesTo(w, "catch_read")
         /\ MarkProcessing(w) => MovesTo(w, "fetch_draft")
         /\ FetchDraft(w) => MovesTo(w, "fetch_account") \/ MovesTo(w, "catch_read")
         /\ FetchAccount(w) => MovesTo(w, "dispatch") \/ MovesTo(w, "catch_read")
         /\ MarkDone(w) => MovesTo(w, "mark_published")
         /\ MarkPublished(w) => MovesTo(w, "audit")
         /\ AuditLog(w) \/ CatchWrite(w) => MovesTo(w, "release_get") \/ MovesTo(w, "finish")
         /\ CatchRead(w) => MovesTo(w, "catch_write")
         /\ ReleaseGet(w) => MovesTo(w, "release_del") \/ MovesTo(w, "finish")
         /\ ReleaseDel(w) => MovesTo(w, "finish")
         /\ CallFails(w) => \/ MovesTo(w, "finish")
                            \/ worker[w].pc \notin {"fetch_job", "finish"} /\ MovesTo(w, "catch_read")
                            \/ worker[w].pc \notin {"fetch_job", "finish"} /\ MovesTo(w, "catch_write")
                            \/ worker[w].pc \notin {"fetch_job", "finish"} /\ MovesTo(w, "release_get")
<1>1. \A b : Fail(w, b) => MovesTo(w, "catch_read")
  BY Zenon, FieldMoves DEF Fail
<1>2. FetchJob(w) => MovesTo(w, "finish") \/ MovesTo(w, "acquire")
  BY Zenon, FieldMoves DEF FetchJob
<1>3. AcquireSlot(w) => \/ MovesTo(w, "mark_processing") \/ MovesTo(w, "acquire")
                        \/ MovesTo(w, "catch_read")
  <2>1. \A x : worker' = [worker EXCEPT ![w] = [@ EXCEPT !.pc = "mark_processing", !.slot = x]]
                => MovesTo(w, "mark_processing")
    BY Zenon, FieldMoves
  <2>2. \A x : worker' = [worker EXCEPT ![w] = [@ EXCEPT !.pc = "acquire", !.count = x]]
                => MovesTo(w, "acquire")
    BY Zenon, FieldMoves
  <2>. QED
    BY Zenon, <1>1, <2>1, <2>2 DEF AcquireSlot
<1>4. MarkProcessing(w) => MovesTo(w, "fetch_draft")
  BY Zenon, FieldMoves DEF MarkProcessing
<1>5. FetchDraft(w) => MovesTo(w, "fetch_account") \/ MovesTo(w, "catch_read")
  <2>1. \A x : worker' = [worker EXCEPT ![w] = [@ EXCEPT !.pc = "fetch_account", !.text = x]]
                => MovesTo(w, "fetch_account")
    BY Zenon, FieldMoves
  <2>. QED
    BY Zenon, <1>1, <2>1 DEF FetchDraft
<1>6. FetchAccount(w) => MovesTo(w, "dispatch") \/ MovesTo(w, "catch_read")
  BY Zenon, <1>1, FieldMoves DEF FetchAccount
<1>7. MarkDone(w) => MovesTo(w, "mark_published")
  BY Zenon, FieldMoves DEF MarkDone
<1>8. MarkPublished(w) => MovesTo(w, "audit")
  BY Zenon, FieldMoves DEF MarkPublished
<1>9. AuditLog(w) => MovesTo(w, "release_get") \/ MovesTo(w, "finish")
  BY Zenon, FieldMoves DEF AuditLog, Leaving
<1>10. worker' = [worker EXCEPT ![w] = [@ EXCEPT !.pc = Leaving(w), !.throws = Requeues(w)]]
         => MovesTo(w, "release_get") \/ MovesTo(w, "finish")
  BY Zenon, FieldMoves DEF Leaving
<1>11. CatchWrite(w) => MovesTo(w, "release_get") \/ MovesTo(w, "finish")
  BY <1>10 DEF CatchWrite
<1>12. CatchRead(w) => MovesTo(w, "catch_write")
  BY Zenon, FieldMoves DEF CatchRead
<1>13. ReleaseGet(w) => MovesTo(w, "release_del") \/ MovesTo(w, "finish")
  BY Zenon, FieldMoves DEF ReleaseGet
<1>14. ReleaseDel(w) => MovesTo(w, "finish")
  BY Zenon, FieldMoves DEF ReleaseDel
<1>15. CallFails(w) => \/ MovesTo(w, "finish")
                       \/ worker[w].pc \notin {"fetch_job", "finish"} /\ MovesTo(w, "catch_read")
                       \/ worker[w].pc \notin {"fetch_job", "finish"} /\ MovesTo(w, "catch_write")
                       \/ worker[w].pc \notin {"fetch_job", "finish"} /\ MovesTo(w, "release_get")
  <2>1. worker' = [worker EXCEPT ![w] = [@ EXCEPT !.pc = "catch_write", !.count = 0]]
          => MovesTo(w, "catch_write")
    BY Zenon, FieldMoves
  <2>2. worker' = [worker EXCEPT ![w] = [@ EXCEPT !.pc = "finish", !.throws = TRUE]]
          => MovesTo(w, "finish")
    BY Zenon, FieldMoves
  <2>3. worker' = [worker EXCEPT ![w].pc = "finish"] => MovesTo(w, "finish")
    BY Zenon, FieldMoves
  <2>. QED
    BY <1>1, <1>10, <2>1, <2>2, <2>3 DEF CallFails, InTry
<1>. QED
  BY <1>2, <1>3, <1>4, <1>5, <1>6, <1>7, <1>8, <1>9, <1>11, <1>12, <1>13, <1>14, <1>15

\* Runs, locks and jobs being the same, so is what they answer for.
LEMMA SameHolders ==
  ASSUME NEW w \in Workers, NEW p, MovesTo(w, p), UNCHANGED lock
  PROVE  \A v \in Workers : /\ worker'[v].posted = worker[v].posted
                            /\ \A j \in Jobs : Holds(v, j)' = Holds(v, j)
BY DEF MovesTo, GoesTo, Holds

\* A run that moves on past the guard carries no post into the part before the dispatch.
LEMMA PostedKept ==
  ASSUME PostedPc, NEW w \in Workers, NEW p, MovesTo(w, p),
         p \notin {"idle", "fetch_job", "mark_done"},
         p \in PrePost => worker[w].pc \in PrePost \cup {"fetch_job"}
  PROVE  PostedPc'
BY DEF PostedPc, MovesTo, GoesTo

\* A run that moves on, nothing new being recorded, meets no record but its own.
LEMMA RecordedRunKept ==
  ASSUME RecordedRun, NEW w \in Workers, NEW p, MovesTo(w, p), UNCHANGED lock,
         \A j \in Jobs : recorded'[j] => recorded[j],
         worker[w].pc # "finish",
         worker[w].pc = "fetch_job" => p = "finish" \/ ~recorded[worker[w].job]
  PROVE  RecordedRun'
<1>. SUFFICES ASSUME NEW j \in Jobs, NEW v \in Workers, recorded'[j], Holds(v, j)'
              PROVE  worker'[v].posted \/ worker'[v].pc \in {"fetch_job", "finish"}
  BY DEF RecordedRun
<1>1. recorded[j] /\ Holds(v, j) /\ worker'[v].posted = worker[v].posted
  BY SameHolders
<1>2. worker[v].posted \/ worker[v].pc \in {"fetch_job", "finish"}
  BY <1>1 DEF RecordedRun
<1>. QED
  BY <1>1, <1>2 DEF MovesTo, GoesTo, Holds

\* A run that moves on answers for the post it answered for.
LEMMA AccountedKept ==
  ASSUME PostsAccounted, NEW w \in Workers, NEW p, MovesTo(w, p),
         UNCHANGED <<lock, recorded, posts, excuse>>
  PROVE  PostsAccounted'
<1>1. \A j \in Jobs : Accounted(j)' <=> Accounted(j)
  BY SameHolders DEF Accounted
<1>. QED
  BY <1>1 DEF PostsAccounted

\* A run that moves on and writes no row, no record and no post keeps the invariant.
LEMMA QuietRun ==
  ASSUME PostInv, NEW w \in Workers, NEW p, MovesTo(w, p),
         UNCHANGED <<status, lock, recorded, posts, excuse>>,
         p \notin {"idle", "fetch_job", "mark_done"},
         p \in PrePost => worker[w].pc \in PrePost \cup {"fetch_job"},
         worker[w].pc # "finish",
         worker[w].pc = "fetch_job" => p = "finish" \/ ~recorded[worker[w].job]
  PROVE  PostInv'
<1>1. PostedPc'
  BY PostedKept DEF PostInv
<1>2. RecordedRow'
  BY DEF PostInv, RecordedRow
<1>3. RecordedRun'
  BY RecordedRunKept DEF PostInv
<1>4. PostsAccounted'
  BY AccountedKept DEF PostInv
<1>. QED
  BY <1>1, <1>2, <1>3, <1>4 DEF PostInv

\* A row that is opened again behind a recorded post is an excuse, unless its run still
\* answers for the post.
LEMMA ReopenedCounts ==
  ASSUME TypeOK, PostInv, NEW j \in Jobs, NEW guarded \in BOOLEAN, Reopened(j, guarded),
         UNCHANGED posts,
         \A v \in Workers : /\ worker'[v].posted = worker[v].posted
                            /\ \A k \in Jobs : Holds(v, k)' = Holds(v, k),
         guarded => \E w \in Workers : Holds(w, j) /\ worker[w].pc \notin {"fetch_job", "finish"}
  PROVE  /\ PostsAccounted'
         /\ ~recorded'[j] /\ \A k \in Jobs : recorded'[k] => recorded[k]
<1>1. ~recorded'[j] /\ \A k \in Jobs \ {j} : recorded'[k] = recorded[k] /\ excuse'[k] = excuse[k]
  BY DEF TypeOK, Reopened
<1>2. excuse[j] \in Nat /\ excuse'[j] \in {excuse[j], excuse[j] + 1}
  BY DEF TypeOK, Reopened
<1>3. \A k \in Jobs \ {j} : Accounted(k)' <=> Accounted(k)
  BY <1>1 DEF Accounted
<1>4. posts'[j] <= excuse'[j] + (IF Accounted(j)' THEN 1 ELSE 0)
  <2>1. posts[j] \in Nat /\ posts[j] <= excuse[j] + (IF Accounted(j) THEN 1 ELSE 0)
    BY DEF TypeOK, PostInv, PostsAccounted
  <2>2. CASE ~Accounted(j)
    BY <1>2, <2>1, <2>2
  <2>3. CASE \E w \in Workers : Holds(w, j) /\ worker[w].posted
    <3>1. Accounted(j)'
      BY <2>3 DEF Accounted
    <3>. QED
      BY <1>2, <2>1, <3>1
  <2>4. CASE recorded[j] /\ ~\E w \in Workers : Holds(w, j) /\ worker[w].posted
    <3>1. ~guarded
      <4>1. SUFFICES ASSUME guarded PROVE FALSE
        OBVIOUS
      <4>2. PICK w \in Workers : Holds(w, j) /\ worker[w].pc \notin {"fetch_job", "finish"}
        BY <4>1
      <4>. QED
        BY <2>4, <4>2 DEF PostInv, RecordedRun
    <3>2. excuse'[j] = excuse[j] + 1
      BY <2>4, <3>1 DEF TypeOK, Reopened
    <3>. QED
      BY <2>1, <3>2, <1>2
  <2>. QED
    BY <2>2, <2>3, <2>4 DEF Accounted
<1>. QED
  BY <1>1, <1>3, <1>4 DEF PostInv, PostsAccounted

\* A run that ends leaves its unrecorded post behind as an excuse.
LEMMA LostCounts ==
  ASSUME TypeOK, PostsAccounted, NEW w, NEW j \in Jobs, RunLost(w, j),
         UNCHANGED <<posts, recorded>>,
         \A v \in Workers, k \in Jobs :
           Holds(v, k) /\ worker[v].posted /\ ~(v = w /\ k = j)
             => Holds(v, k)' /\ worker'[v].posted
  PROVE  PostsAccounted'
<1>1. \A k \in Jobs \ {j} : excuse'[k] = excuse[k]
  BY DEF TypeOK, RunLost
<1>2. \A k \in Jobs \ {j} : Accounted(k) => Accounted(k)'
  BY DEF Accounted
<1>3. posts[j] \in Nat /\ excuse[j] \in Nat
      /\ posts[j] <= excuse[j] + (IF Accounted(j) THEN 1 ELSE 0)
  BY DEF TypeOK, PostsAccounted
<1>4. posts'[j] <= excuse'[j] + (IF Accounted(j)' THEN 1 ELSE 0)
  <2>1. CASE Holds(w, j) /\ worker[w].posted /\ ~recorded[j]
    <3>1. excuse'[j] = excuse[j] + 1
      BY <2>1 DEF TypeOK, RunLost
    <3>. QED
      BY <1>3, <3>1
  <2>2. CASE ~(Holds(w, j) /\ worker[w].posted /\ ~recorded[j])
    <3>1. excuse'[j] = excuse[j]
      BY <2>2 DEF TypeOK, RunLost
    <3>2. Accounted(j) => Accounted(j)'
      BY <2>2 DEF Accounted, Holds
    <3>. QED
      BY <1>3, <3>1, <3>2
  <2>. QED
    BY <2>1, <2>2
<1>5. \A k \in Jobs : posts[k] \in Nat /\ excuse[k] \in Nat
  BY DEF TypeOK
<1>. QED
  BY <1>1, <1>2, <1>4, <1>5 DEF PostsAccounted
-----------------------------------------------------------------------------
(* One step of Next keeps PostInv *)

\* A request answers for no post: only the row of a recorded job matters to it.
LEMMA QuietApi ==
  ASSUME PostInv, UNCHANGED <<worker, lock, recorded, posts, excuse>>, RecordedRow'
  PROVE  PostInv'
<1>1. \A v \in Workers, j \in Jobs : Holds(v, j)' = Holds(v, j)
  BY DEF Holds
<1>2. PostedPc' /\ RecordedRun'
  BY <1>1 DEF PostInv, PostedPc, RecordedRun
<1>3. \A j \in Jobs : Accounted(j)' <=> Accounted(j)
  BY <1>1 DEF Accounted
<1>. QED
  BY <1>2, <1>3 DEF PostInv, PostsAccounted

\* No request makes a recorded post repeatable without leaving an excuse.
LEMMA ApiKeeps ==
  ASSUME LinkInv, PostInv, ApiStep
  PROVE  PostInv'
<1>0. TypeOK /\ RecordedRow /\ FreshIds
  BY DEF LinkInv, Links, PostInv
<1>1. ASSUME NEW r \in Requests, ScheduleInsertJob(r)
      PROVE  PostInv'
  <2>1. RecordedRow'
    BY Zenon, <1>0, <1>1 DEF ScheduleInsertJob, RecordedRow, FreshIds, TypeOK
  <2>. QED
    BY Zenon, <2>1, <1>1, QuietApi DEF ScheduleInsertJob
<1>2. ASSUME NEW r \in Requests, ScheduleMarkQueued(r)
      PROVE  PostInv'
  <2>. DEFINE j == req[r].job
  <2>1. j \in Jobs
    BY <1>2 DEF ScheduleMarkQueued, LinkInv, Links, RequestsLinked
  <2>2. /\ UNCHANGED <<worker, lock, posts>> /\ SetRow(j, "queued") /\ Reopened(j, FALSE)
    BY <1>2 DEF ScheduleMarkQueued
  <2>. HIDE DEF j
  <2>3. \A v \in Workers : /\ worker'[v].posted = worker[v].posted
                           /\ \A k \in Jobs : Holds(v, k)' = Holds(v, k)
    BY <2>2 DEF Holds
  <2>4. PostsAccounted' /\ ~recorded'[j] /\ \A k \in Jobs : recorded'[k] => recorded[k]
    BY <1>0, <2>1, <2>2, <2>3, ReopenedCounts
  <2>5. RecordedRow'
    BY <1>0, <2>1, <2>2, <2>4 DEF SetRow, RecordedRow, TypeOK
  <2>6. PostedPc' /\ RecordedRun'
    BY <2>2, <2>3, <2>4 DEF PostInv, PostedPc, RecordedRun
  <2>. QED
    BY <2>4, <2>5, <2>6 DEF PostInv
<1>3. ASSUME NEW r \in Requests, CancelUpdate(r)
      PROVE  PostInv'
  <2>1. RecordedRow'
    BY <1>0, <1>3 DEF CancelUpdate, SetRow, RecordedRow, ActiveRow, TypeOK
  <2>. QED
    BY <2>1, <1>3, QuietApi DEF CancelUpdate
<1>4. ASSUME NEW r \in Requests, EraseSubject(r)
      PROVE  PostInv'
  <2>1. RecordedRow'
    BY <1>0, <1>4 DEF EraseSubject, RecordedRow, ActiveRow, TypeOK
  <2>. QED
    BY <2>1, <1>4, QuietApi DEF EraseSubject
<1>5. ASSUME UNCHANGED <<status, worker, lock, recorded, posts, excuse>>
      PROVE  PostInv'
  BY <1>0, <1>5, QuietApi DEF RecordedRow
<1>6. ASSUME NEW r \in Requests, NEW d \in Drafts,
             ApproveCheck(r, d) \/ RegenerateFetch(r, d)
               \/ \E accts \in SUBSET Accounts : ScheduleCheckDraft(r, d, accts)
      PROVE  PostInv'
  BY Zenon, <1>5, <1>6 DEF ApproveCheck, RegenerateFetch, ScheduleCheckDraft
<1>7. ASSUME NEW r \in Requests,
             \/ ScheduleCheckAccounts(r) \/ ScheduleEnqueue(r) \/ ScheduleMarkDraft(r)
             \/ CancelRemove(r) \/ CancelCount(r) \/ CancelRevert(r)
      PROVE  PostInv'
  BY <1>5, <1>7
  DEF ScheduleCheckAccounts, ScheduleEnqueue, ScheduleMarkDraft, CancelRemove, CancelCount, CancelRevert
<1>8. ASSUME NEW r \in Requests,
             \/ ApproveUpdate(r) \/ RegenerateUpdate(r)
             \/ \E a \in Accounts : DisconnectAccount(r, a)
             \/ \E j \in Jobs : CancelCheck(r, j)
      PROVE  PostInv'
  BY Zenon, <1>5, <1>8 DEF ApproveUpdate, RegenerateUpdate, DisconnectAccount, CancelCheck
<1>. QED
  BY <1>1, <1>2, <1>3, <1>4, <1>6, <1>7, <1>8 DEF ApiStep

\* No run past the guard posts over a record, and none ends without answering for its post.
LEMMA RunKeeps ==
  ASSUME LinkInv, QueueInv, PostInv, NEW w \in Workers, RunStep(w)
  PROVE  PostInv'
<1>. DEFINE j == worker[w].job
<1>0. TypeOK /\ j \in Jobs /\ PostedPc /\ RecordedRow /\ RecordedRun /\ PostsAccounted
  <2>1. Working(w)
    BY DEF RunStep, FetchJob, AcquireSlot, MarkProcessing, FetchDraft, FetchAccount, Dispatch,
           MarkDone, MarkPublished, AuditLog, CatchRead, CatchWrite, ReleaseGet, ReleaseDel,
           Finish, Working
  <2>. QED
    BY <2>1, RunTypes DEF LinkInv, PostInv
<1>1. CASE FetchJob(w)
  <2>1. /\ worker[w].pc = "fetch_job" /\ UNCHANGED <<status, lock, recorded, posts, excuse>>
        /\ MovesTo(w, "finish") \/ MovesTo(w, "acquire")
    BY <1>1, RunsGoOn DEF FetchJob
  <2>2. MovesTo(w, "acquire") => ~recorded[j]
    <3>1. SUFFICES ASSUME worker'[w].pc = "acquire" PROVE ~recorded[j]
      BY DEF MovesTo, GoesTo
    <3>2. InTable(j) /\ status[j] \notin TerminalRow
      BY <1>1, <3>1, StateTypes DEF FetchJob, WorkerRec
    <3>3. status[j] \in ActiveRow
      BY <1>0, <3>2 DEF TypeOK, RowStatus, InTable, TerminalRow, ActiveRow
    <3>. QED
      BY <1>0, <3>3 DEF RecordedRow
  <2>3. CASE MovesTo(w, "finish")
    BY <2>1, <2>3, QuietRun DEF PrePost
  <2>4. CASE MovesTo(w, "acquire")
    BY <2>1, <2>2, <2>4, QuietRun DEF PrePost
  <2>. QED
    BY <2>1, <2>3, <2>4
<1>2. CASE AcquireSlot(w)
  <2>1. /\ worker[w].pc = "acquire" /\ UNCHANGED <<status, lock, recorded, posts, excuse>>
        /\ \/ MovesTo(w, "mark_processing") \/ MovesTo(w, "acquire")
           \/ MovesTo(w, "catch_read")
    BY Zenon, <1>2, RunsGoOn DEF AcquireSlot
  <2>. QED
    BY <2>1, QuietRun DEF PrePost
<1>3. CASE MarkProcessing(w)
  <2>1. /\ worker[w].pc = "mark_processing" /\ UNCHANGED <<lock, posts>>
        /\ MovesTo(w, "fetch_draft") /\ SetRow(j, "processing") /\ Reopened(j, Holds(w, j))
    BY <1>3, RunsGoOn DEF MarkProcessing
  <2>. HIDE DEF j
  <2>2. PostsAccounted' /\ ~recorded'[j] /\ \A k \in Jobs : recorded'[k] => recorded[k]
    <3>1. Holds(w, j) \in BOOLEAN
      BY DEF Holds
    <3>. QED
      BY <1>0, <2>1, <3>1, SameHolders, ReopenedCounts
  <2>3. RecordedRow'
    BY <1>0, <2>1, <2>2 DEF SetRow, RecordedRow, TypeOK
  <2>4. PostedPc'
    BY <1>0, <2>1, PostedKept DEF PrePost
  <2>5. RecordedRun'
    BY <1>0, <2>1, <2>2, RecordedRunKept
  <2>. QED
    BY <2>2, <2>3, <2>4, <2>5 DEF PostInv
<1>4. CASE FetchDraft(w)
  <2>1. /\ worker[w].pc = "fetch_draft" /\ UNCHANGED <<status, lock, recorded, posts, excuse>>
        /\ MovesTo(w, "fetch_account") \/ MovesTo(w, "catch_read")
    BY Zenon, <1>4, RunsGoOn DEF FetchDraft
  <2>. QED
    BY <2>1, QuietRun DEF PrePost
<1>5. CASE FetchAccount(w)
  <2>1. /\ worker[w].pc = "fetch_account" /\ UNCHANGED <<status, lock, recorded, posts, excuse>>
        /\ MovesTo(w, "dispatch") \/ MovesTo(w, "catch_read")
    BY <1>5, RunsGoOn DEF FetchAccount
  <2>. QED
    BY <2>1, QuietRun DEF PrePost
<1>6. CASE Dispatch(w)
  <2>1. worker[w].pc = "dispatch" /\ UNCHANGED <<status, lock, recorded>>
    BY <1>6 DEF Dispatch
  <2>2. PICK unacked \in Nat :
          \/ /\ posts' = [posts EXCEPT ![j] = @ + unacked + 1]
             /\ excuse' = [excuse EXCEPT ![j] = @ + unacked + IF Holds(w, j) THEN 0 ELSE 1]
             /\ GoesTo(w, "mark_done") /\ worker'[w].posted
          \/ /\ posts' = [posts EXCEPT ![j] = @ + unacked]
             /\ excuse' = [excuse EXCEPT ![j] = @ + unacked]
             /\ MovesTo(w, "catch_read")
    <3>1. \A b : Fail(w, b) => MovesTo(w, "catch_read")
      BY Zenon, FieldMoves DEF Fail
    <3>2. worker' = [worker EXCEPT ![w] = [@ EXCEPT !.pc = "mark_done", !.posted = TRUE]]
            => GoesTo(w, "mark_done") /\ worker'[w].posted
      BY Zenon, FieldMoves
    <3>3. PICK n \in 0 .. MaxRetries + 1 :
            \/ /\ posts' = [posts EXCEPT ![j] = @ + n + 1]
               /\ excuse' = [excuse EXCEPT ![j] = @ + n + IF Holds(w, j) THEN 0 ELSE 1]
               /\ worker' = [worker EXCEPT ![w] = [@ EXCEPT !.pc = "mark_done", !.posted = TRUE]]
            \/ /\ posts' = [posts EXCEPT ![j] = @ + n]
               /\ excuse' = [excuse EXCEPT ![j] = @ + n]
               /\ \E b \in BOOLEAN : Fail(w, b)
      BY Zenon, <1>6 DEF Dispatch
    <3>4. n \in Nat
      BY DEF MaxRetries
    <3>. QED
      BY Zenon, <3>1, <3>2, <3>3, <3>4
  <2>. HIDE DEF j
  <2>3. RecordedRow'
    BY <1>0, <2>1 DEF RecordedRow
  <2>4. posts \in [Jobs -> Nat] /\ excuse \in [Jobs -> Nat]
    BY <1>0 DEF TypeOK
  <2>5. CASE /\ posts' = [posts EXCEPT ![j] = @ + unacked]
             /\ excuse' = [excuse EXCEPT ![j] = @ + unacked]
             /\ MovesTo(w, "catch_read")
    <3>1. PostedPc' /\ RecordedRun'
      BY <1>0, <2>1, <2>5, PostedKept, RecordedRunKept DEF PrePost
    <3>2. \A k \in Jobs : Accounted(k)' <=> Accounted(k)
      BY <2>1, <2>5, SameHolders DEF Accounted
    <3>3. PostsAccounted'
      BY <1>0, <2>4, <2>5, <3>2 DEF PostsAccounted
    <3>. QED
      BY <2>3, <3>1, <3>3 DEF PostInv
  <2>6. CASE /\ posts' = [posts EXCEPT ![j] = @ + unacked + 1]
             /\ excuse' = [excuse EXCEPT ![j] = @ + unacked + IF Holds(w, j) THEN 0 ELSE 1]
             /\ GoesTo(w, "mark_done") /\ worker'[w].posted
    <3>1. \A v \in Workers, k \in Jobs : Holds(v, k)' = Holds(v, k)
      BY <2>1, <2>6 DEF GoesTo, Holds
    <3>2. PostedPc'
      BY <1>0, <2>6 DEF PostedPc, GoesTo, PrePost
    <3>3. RecordedRun'
      BY <1>0, <2>1, <2>6, <3>1 DEF RecordedRun, GoesTo
    <3>4. \A k \in Jobs : Accounted(k) => Accounted(k)'
      BY <2>1, <2>6, <3>1 DEF Accounted, GoesTo
    <3>5. \A k \in Jobs \ {j} : posts'[k] = posts[k] /\ excuse'[k] = excuse[k]
      BY <2>4, <2>6
    <3>6. posts'[j] = posts[j] + unacked + 1
      BY <1>0, <2>4, <2>6
    <3>7. ASSUME NEW k \in Jobs, k = j
          PROVE  posts'[k] <= excuse'[k] + (IF Accounted(k)' THEN 1 ELSE 0)
      <4>1. CASE Holds(w, j)
        <5>1. ~worker[w].posted
          BY <1>0, <2>1 DEF PostedPc, PrePost
        <5>2. ~Accounted(k)
          BY <1>0, <2>1, <3>7, <4>1, <5>1 DEF Accounted, RecordedRun, Holds
        <5>3. posts[j] <= excuse[j] /\ posts[j] \in Nat /\ excuse[j] \in Nat
          BY <1>0, <2>4, <3>7, <5>2 DEF PostsAccounted
        <5>4. Accounted(k)'
          BY <1>0, <2>6, <3>1, <3>7, <4>1 DEF Accounted
        <5>5. excuse'[j] = excuse[j] + unacked
          BY <1>0, <2>4, <2>6, <4>1
        <5>. QED
          BY <3>6, <3>7, <5>3, <5>4, <5>5
      <4>2. CASE ~Holds(w, j)
        <5>1. excuse'[j] = excuse[j] + unacked + 1
          BY <1>0, <2>4, <2>6, <4>2
        <5>2. posts[j] <= excuse[j] + (IF Accounted(k) THEN 1 ELSE 0) /\ posts[j] \in Nat
              /\ excuse[j] \in Nat
          BY <1>0, <2>4, <3>7 DEF PostsAccounted
        <5>3. Accounted(k) => Accounted(k)'
          BY <1>0, <3>4
        <5>4. unacked \in Nat
          BY <2>2
        <5>5. CASE Accounted(k)
          BY <3>6, <3>7, <5>1, <5>2, <5>3, <5>4, <5>5
        <5>6. CASE ~Accounted(k)
          BY <3>6, <3>7, <5>1, <5>2, <5>4, <5>6
        <5>. QED
          BY <5>5, <5>6
      <4>. QED
        BY <4>1, <4>2
    <3>8. PostsAccounted'
      <4>1. ASSUME NEW k \in Jobs \ {j}
            PROVE  posts'[k] <= excuse'[k] + (IF Accounted(k)' THEN 1 ELSE 0)
        <5>1. posts[k] <= excuse[k] + (IF Accounted(k) THEN 1 ELSE 0)
          BY <1>0 DEF PostsAccounted
        <5>2. posts'[k] = posts[k] /\ excuse'[k] = excuse[k] /\ (Accounted(k) => Accounted(k)')
          BY <3>4, <3>5
        <5>3. posts[k] \in Nat /\ excuse[k] \in Nat
          BY <2>4
        <5>. QED
          BY <5>1, <5>2, <5>3
      <4>. QED
        BY <3>7, <4>1 DEF PostsAccounted
    <3>. QED
      BY <2>3, <3>2, <3>3, <3>8 DEF PostInv
  <2>. QED
    BY <2>2, <2>5, <2>6
<1>7. CASE MarkDone(w)
  <2>1. /\ worker[w].pc = "mark_done" /\ UNCHANGED <<lock, posts, excuse>>
        /\ MovesTo(w, "mark_published") /\ SetRow(j, "done")
        /\ recorded' = [recorded EXCEPT ![j] = @ \/ Holds(w, j)]
    BY <1>7, RunsGoOn DEF MarkDone
  <2>. HIDE DEF j
  <2>2. worker[w].posted
    BY <1>0, <2>1 DEF PostedPc
  <2>3. PostedPc'
    BY <1>0, <2>1, PostedKept DEF PrePost
  <2>4. RecordedRow'
    BY <1>0, <2>1 DEF SetRow, InTable, RecordedRow, ActiveRow, TypeOK
  <2>5. \A k \in Jobs : recorded'[k] => recorded[k] \/ (k = j /\ Holds(w, j))
    BY <1>0, <2>1 DEF TypeOK
  <2>6. RecordedRun'
    <3>. SUFFICES ASSUME NEW k \in Jobs, NEW v \in Workers, recorded'[k], Holds(v, k)'
                  PROVE  worker'[v].posted \/ worker'[v].pc \in {"fetch_job", "finish"}
      BY DEF RecordedRun
    <3>1. Holds(v, k) /\ worker'[v].posted = worker[v].posted
      BY <2>1, SameHolders
    <3>2. CASE v = w
      BY <2>2, <3>1, <3>2
    <3>3. CASE v # w
      <4>1. recorded[k] /\ worker'[v] = worker[v]
        BY <2>1, <2>5, <3>1, <3>3 DEF Holds, MovesTo, GoesTo
      <4>. QED
        BY <1>0, <3>1, <4>1 DEF RecordedRun
    <3>. QED
      BY <3>2, <3>3
  <2>7. \A k \in Jobs : Accounted(k) => Accounted(k)'
    <3>1. \A k \in Jobs : recorded[k] => recorded'[k]
      BY <1>0, <2>1 DEF TypeOK
    <3>. QED
      BY <2>1, <3>1, SameHolders DEF Accounted
  <2>8. PostsAccounted'
    BY <1>0, <2>1, <2>7 DEF PostsAccounted, TypeOK
  <2>. QED
    BY <2>3, <2>4, <2>6, <2>8 DEF PostInv
<1>8. CASE MarkPublished(w) \/ AuditLog(w) \/ CatchRead(w)
  <2>1. /\ worker[w].pc \in {"mark_published", "audit", "catch_read"}
        /\ UNCHANGED <<status, lock, recorded, posts, excuse>>
        /\ \E p \in {"audit", "release_get", "finish", "catch_write"} : MovesTo(w, p)
    BY Zenon, <1>8, RunsGoOn DEF MarkPublished, AuditLog, CatchRead
  <2>. QED
    BY <2>1, QuietRun DEF PrePost
<1>9. CASE CatchWrite(w)
  <2>1. /\ worker[w].pc = "catch_write" /\ UNCHANGED <<lock, posts>>
        /\ MovesTo(w, "release_get") \/ MovesTo(w, "finish")
    BY Zenon, <1>9, RunsGoOn DEF CatchWrite
  <2>2. \/ SetRow(j, "queued") /\ Reopened(j, Holds(w, j))
        \/ SetRow(j, "failed") /\ UNCHANGED <<recorded, excuse>>
    BY <1>9 DEF CatchWrite
  <2>. HIDE DEF j
  <2>3. \A v \in Workers : /\ worker'[v].posted = worker[v].posted
                           /\ \A k \in Jobs : Holds(v, k)' = Holds(v, k)
    BY <2>1, SameHolders
  <2>4. PostedPc'
    BY <1>0, <2>1, PostedKept DEF PrePost
  <2>5. CASE SetRow(j, "queued") /\ Reopened(j, Holds(w, j))
    <3>1. Holds(w, j) \in BOOLEAN
      BY DEF Holds
    <3>2. PostsAccounted' /\ ~recorded'[j] /\ \A k \in Jobs : recorded'[k] => recorded[k]
      BY <1>0, <2>1, <2>3, <2>5, <3>1, ReopenedCounts
    <3>3. RecordedRow'
      BY <1>0, <2>5, <3>2 DEF SetRow, RecordedRow, TypeOK
    <3>4. RecordedRun'
      BY <1>0, <2>1, <3>2, RecordedRunKept
    <3>. QED
      BY <2>4, <3>2, <3>3, <3>4 DEF PostInv
  <2>6. CASE SetRow(j, "failed") /\ UNCHANGED <<recorded, excuse>>
    <3>1. RecordedRow'
      BY <1>0, <2>6 DEF SetRow, RecordedRow, ActiveRow, TypeOK
    <3>2. RecordedRun' /\ PostsAccounted'
      BY <1>0, <2>1, <2>6, RecordedRunKept, AccountedKept
    <3>. QED
      BY <2>4, <3>1, <3>2 DEF PostInv
  <2>. QED
    BY <2>2, <2>5, <2>6
<1>10. CASE ReleaseGet(w) \/ ReleaseDel(w)
  <2>1. /\ worker[w].pc \in {"release_get", "release_del"}
        /\ UNCHANGED <<status, lock, recorded, posts, excuse>>
        /\ MovesTo(w, "release_del") \/ MovesTo(w, "finish")
    BY <1>10, RunsGoOn DEF ReleaseGet, ReleaseDel
  <2>. QED
    BY <2>1, QuietRun DEF PrePost
<1>11. CASE Finish(w)
  <2>1. /\ UNCHANGED <<status, recorded, posts>> /\ RunLost(w, j)
        /\ worker' = [worker EXCEPT ![w] = IdleWorker]
        /\ \A k \in Jobs : lock'[k] = lock[k] \/ (k = j /\ lock[j] = w)
    BY <1>0, <1>11 DEF Finish, TypeOK
  <2>2. lock[j] = w => lock'[j] = None
    BY <1>0, <1>11 DEF Finish, TypeOK
  <2>. HIDE DEF j
  <2>3. /\ worker'[w] = IdleWorker /\ \A v \in Workers \ {w} : worker'[v] = worker[v]
    BY <2>1, StateTypes
  <2>4. /\ ~worker'[w].posted /\ worker'[w].pc = "idle" /\ \A k \in Jobs : ~Holds(w, k)'
    BY <2>3, ConstantsAssumption DEF IdleWorker, Holds
  <2>5. \A v \in Workers \ {w}, k \in Jobs : Holds(v, k)' = Holds(v, k)
    BY ConstantsAssumption, <2>1, <2>2, <2>3 DEF Holds
  <2>6. PostedPc' /\ RecordedRow' /\ RecordedRun'
    BY <1>0, <2>1, <2>3, <2>4, <2>5 DEF PostedPc, RecordedRow, RecordedRun
  <2>7. PostsAccounted'
    <3>1. \A k \in Jobs \ {j} : ~Holds(w, k)
      BY DEF Holds, j
    <3>. QED
      BY <1>0, <2>1, <2>3, <2>5, <3>1, LostCounts
  <2>. QED
    BY <2>6, <2>7 DEF PostInv
<1>. QED
  BY <1>1, <1>2, <1>3, <1>4, <1>5, <1>6, <1>7, <1>8, <1>9, <1>10, <1>11 DEF RunStep

\* A run that starts has not posted, and the job it takes had no run with its lock.
LEMMA TakeKeeps ==
  ASSUME LinkInv, QueueInv, PostInv, NEW w \in Workers, NEW j \in Jobs, Take(w, j)
  PROVE  PostInv'
<1>0. TypeOK /\ LockIsActive /\ PostedPc /\ RecordedRow /\ RecordedRun /\ PostsAccounted
  BY DEF LinkInv, QueueInv, PostInv
<1>1. /\ UNCHANGED <<status, recorded, posts, excuse>>
      /\ worker[w].pc = "idle" /\ bull[j] = "waiting" /\ lock' = [lock EXCEPT ![j] = w]
  BY DEF Take
<1>2. lock[j] = None
  BY <1>0, <1>1 DEF LockIsActive
<1>3. /\ \A v \in Workers \ {w} : worker'[v] = worker[v]
      /\ worker'[w].pc = "fetch_job" /\ ~worker'[w].posted
  BY StateTypes DEF Take, IdleWorker
<1>4. ~worker[w].posted
  BY <1>0, <1>1 DEF PostedPc
<1>5. \A v \in Workers \ {w}, k \in Jobs : Holds(v, k) => Holds(v, k)'
  BY ConstantsAssumption, <1>0, <1>1, <1>2, <1>3 DEF Holds, TypeOK
<1>6. \A v \in Workers \ {w}, k \in Jobs : Holds(v, k)' => Holds(v, k)
  BY <1>0, <1>1, <1>3 DEF Holds, TypeOK
<1>7. PostedPc' /\ RecordedRow' /\ RecordedRun'
  BY <1>0, <1>1, <1>3, <1>6 DEF PostedPc, PrePost, RecordedRow, RecordedRun
<1>8. \A k \in Jobs : Accounted(k) => Accounted(k)'
  BY <1>1, <1>3, <1>4, <1>5 DEF Accounted
<1>9. PostsAccounted'
  BY <1>0, <1>1, <1>8 DEF PostsAccounted, TypeOK
<1>. QED
  BY <1>7, <1>9 DEF PostInv

\* Whatever fails, a post whose record is lost becomes an excuse.
LEMMA FaultKeeps ==
  ASSUME LinkInv, QueueInv, PostInv, FaultStep
  PROVE  PostInv'
<1>0. TypeOK /\ PostedPc /\ RecordedRow /\ RecordedRun /\ PostsAccounted
  BY DEF LinkInv, PostInv
<1>1. ASSUME NEW w \in Workers, CallFails(w)
      PROVE  PostInv'
  <2>1. /\ UNCHANGED <<status, lock, recorded, posts, excuse>>
        /\ worker[w].pc # "finish"
    BY <1>1 DEF CallFails, InTry
  <2>2. PICK p \in {"finish", "catch_read", "catch_write", "release_get"} :
          MovesTo(w, p) /\ (worker[w].pc = "fetch_job" => p = "finish")
    BY <1>1, RunsGoOn
  <2>. QED
    BY <2>1, <2>2, QuietRun DEF PrePost
<1>2. ASSUME NEW w \in Workers, Crash(w)
      PROVE  PostInv'
  <2>1. /\ worker[w].job \in Jobs /\ UNCHANGED <<status, lock, recorded, posts>>
        /\ RunLost(w, worker[w].job)
    BY <1>2, RunTypes DEF Crash
  <2>2. /\ worker'[w] = IdleWorker /\ \A v \in Workers \ {w} : worker'[v] = worker[v]
    BY <1>2, StateTypes DEF Crash
  <2>3. /\ ~worker'[w].posted /\ worker'[w].pc = "idle" /\ \A k \in Jobs : ~Holds(w, k)'
    BY <2>2, ConstantsAssumption DEF IdleWorker, Holds
  <2>4. \A v \in Workers \ {w}, k \in Jobs : Holds(v, k)' = Holds(v, k)
    BY <2>1, <2>2 DEF Holds
  <2>5. PostedPc' /\ RecordedRow' /\ RecordedRun'
    BY <1>0, <2>1, <2>2, <2>3, <2>4 DEF PostedPc, RecordedRow, RecordedRun
  <2>6. PostsAccounted'
    <3>1. \A k \in Jobs : k # worker[w].job => ~Holds(w, k)
      BY DEF Holds
    <3>. QED
      BY <1>0, <2>1, <2>2, <2>4, <3>1, LostCounts
  <2>. QED
    BY <2>5, <2>6 DEF PostInv
<1>3. ASSUME NEW j \in Jobs, StalledCheck(j)
      PROVE  PostInv'
  <2>1. /\ UNCHANGED <<status, worker, recorded, posts>> /\ lock' = [lock EXCEPT ![j] = None]
        /\ RunLost(lock[j], j)
    BY <1>3 DEF StalledCheck
  <2>2. \A v \in Workers, k \in Jobs : Holds(v, k)' <=> Holds(v, k) /\ k # j
    BY ConstantsAssumption, <1>0, <2>1 DEF Holds, TypeOK
  <2>3. PostedPc' /\ RecordedRow' /\ RecordedRun'
    BY <1>0, <2>1, <2>2 DEF PostedPc, RecordedRow, RecordedRun
  <2>4. \A v \in Workers, k \in Jobs :
          Holds(v, k) /\ worker[v].posted /\ ~(v = lock[j] /\ k = j)
            => Holds(v, k)' /\ worker'[v].posted
    BY <2>1, <2>2 DEF Holds
  <2>5. PostsAccounted'
    BY <1>0, <2>1, <2>4, LostCounts
  <2>. QED
    BY <2>3, <2>5 DEF PostInv
<1>4. ASSUME UNCHANGED <<status, worker, lock, recorded, posts, excuse>>
      PROVE  PostInv'
  BY <1>0, <1>4, QuietApi DEF RecordedRow
<1>. QED
  BY <1>1, <1>2, <1>3, <1>4 DEF FaultStep, SlotExpires, TokenExpires, RequestFails
-----------------------------------------------------------------------------
(* The inductive invariant and what it gives *)

\* The invariant holds before anything is scheduled.
LEMMA IInvInit == Init => IInv
<1>. SUFFICES ASSUME Init PROVE IInv
  OBVIOUS
<1>1. QueueInv
  BY DEF Init, QueueInv, LockIsActive, EnqueueOnce, IdleReq
<1>2. PostInv
  BY DEF Init, PostInv, PostedPc, RecordedRow, RecordedRun, PostsAccounted, IdleWorker
<1>. QED
  BY <1>1, <1>2, LinkInit DEF IInv

\* Every step of the pipeline keeps the invariant.
LEMMA IInvStep == IInv /\ [Next]_vars => IInv'
<1>. SUFFICES ASSUME IInv, [Next]_vars PROVE IInv'
  OBVIOUS
<1>1. LinkInv'
  BY LinkStep DEF IInv
<1>2. CASE Next
  <2>1. QueueInv'
    BY <1>2, QueueKept DEF IInv
  <2>2. PostInv'
    BY <1>2, ApiKeeps, TakeKeeps, RunKeeps, FaultKeeps DEF IInv, Next, WorkerStep
  <2>. QED
    BY <1>1, <2>1, <2>2 DEF IInv
<1>3. CASE UNCHANGED vars
  <2>1. QueueInv'
    BY <1>3 DEF vars, IInv, QueueInv, LockIsActive, EnqueueOnce
  <2>2. PostInv'
    BY <1>3, QuietApi DEF vars, IInv, PostInv, RecordedRow
  <2>. QED
    BY <1>1, <2>1, <2>2 DEF IInv
<1>. QED
  BY <1>2, <1>3

\* The invariant holds in every reachable state.
THEOREM Invariance == Spec => []IInv
BY IInvInit, IInvStep, PTL DEF Spec

\* Retries, redeliveries, cancellations and rescheduling never make a job post twice: every
\* post beyond the first is one whose answer or whose record was lost on the way.
THEOREM NoDuplicate == Spec => []NoUnexplainedDuplicate
<1>1. IInv => NoUnexplainedDuplicate
  <2>. SUFFICES ASSUME IInv, NEW j \in Jobs PROVE posts[j] <= 1 + excuse[j]
    BY DEF NoUnexplainedDuplicate
  <2>1. posts[j] \in Nat /\ excuse[j] \in Nat
        /\ posts[j] <= excuse[j] + (IF Accounted(j) THEN 1 ELSE 0)
    BY DEF IInv, LinkInv, TypeOK, PostInv, PostsAccounted
  <2>. QED
    BY <2>1
<1>. QED
  BY Invariance, <1>1, PTL

\* The terminal-status guard of processPublishJob is enough: no run with the job's lock is
\* past it while the acknowledged post of the job stands recorded.
THEOREM RecordedSettled == Spec => []RecordedIsSettled
<1>1. IInv => RecordedIsSettled
  <2>. SUFFICES ASSUME IInv, NEW j \in Jobs, recorded[j], NEW w \in Workers, Holds(w, j),
                       worker[w].pc \in PrePost
                PROVE  FALSE
    BY DEF RecordedIsSettled, IInv, PostInv, RecordedRow
  <2>1. worker[w].posted
    BY DEF IInv, PostInv, RecordedRun, PrePost
  <2>. QED
    BY <2>1 DEF IInv, PostInv, PostedPc
<1>. QED
  BY Invariance, <1>1, PTL
=============================================================================
