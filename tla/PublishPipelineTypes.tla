------------------------ MODULE PublishPipelineTypes ------------------------
(***************************************************************************)
(* Type correctness of PublishPipeline, for every number of drafts,        *)
(* accounts, jobs, workers, requests and slots and every value of the      *)
(* bounds. TypeOK is not inductive by itself: a run writes the row its     *)
(* `job` names, a request the row it inserted, a run reads the draft a row *)
(* points at. LinkInv adds that those names are names of something.        *)
(***************************************************************************)
EXTENDS PublishPipeline, TLAPS

\* a row names the draft and the account it was inserted with
RowsLinked ==
  \A j \in Jobs : status[j] # "none" =>
    target[j].draft \in Drafts /\ target[j].account \in Accounts

\* an id that is not in use yet is known to nobody
FreshIds ==
  \A j \in Jobs : status[j] = "none" =>
    /\ bull[j] = "none" /\ ~recorded[j]
    /\ \A w \in Workers : worker[w].job # j
    /\ \A r \in Requests : req[r].job # j

RunsLinked == \A w \in Workers : Working(w) => worker[w].job \in Jobs

RequestsLinked ==
  \A r \in Requests :
    /\ req[r].pc \in {"s_enqueue", "s_mark_queued", "c_update", "c_remove"}
         => req[r].job \in Jobs
    /\ req[r].pc \notin {"idle", "finished"} => req[r].draft \in Drafts

Links == RowsLinked /\ FreshIds /\ RunsLinked /\ RequestsLinked
LinkInv == TypeOK /\ Links

USE DEF draftVars, accountVars, rowVars, queueVars, history
-----------------------------------------------------------------------------
(* What an update of a local record keeps, and what LinkInv says of one record *)

\* Every update the worker makes of a run's record leaves it a run's record.
LEMMA WorkerFields ==
  ASSUME NEW x \in WorkerRec, NEW p \in WorkerPc
  PROVE  /\ [x EXCEPT !.pc = p] \in WorkerRec
         /\ \A b \in BOOLEAN : /\ [x EXCEPT !.pc = p, !.retry = b] \in WorkerRec
                               /\ [x EXCEPT !.pc = p, !.posted = b] \in WorkerRec
                               /\ [x EXCEPT !.pc = p, !.throws = b] \in WorkerRec
         /\ \A n \in Nat : [x EXCEPT !.pc = p, !.count = n] \in WorkerRec
         /\ \A v \in Versions : [x EXCEPT !.pc = p, !.text = v] \in WorkerRec
         /\ \A s \in Slots : [x EXCEPT !.pc = p, !.slot = s] \in WorkerRec
BY Zenon DEF WorkerRec

\* Every update a request makes of its local state leaves it a request's state.
LEMMA ReqFields ==
  ASSUME NEW x \in ReqRec, NEW p \in ReqPc
  PROVE  /\ [x EXCEPT !.pc = p] \in ReqRec
         /\ \A d \in Drafts : [x EXCEPT !.pc = p, !.draft = d] \in ReqRec
         /\ \A d \in Drafts, v \in Versions :
              [x EXCEPT !.pc = p, !.draft = d, !.text = v] \in ReqRec
         /\ \A d \in Drafts, t \in SUBSET Accounts :
              [x EXCEPT !.pc = p, !.draft = d, !.todo = t] \in ReqRec
         /\ \A d \in Drafts \cup {None}, j \in Jobs :
              [x EXCEPT !.pc = p, !.job = j, !.draft = d] \in ReqRec
         /\ \A j \in Jobs : \A t : [x EXCEPT !.pc = p, !.job = j, !.todo = x.todo \ t] \in ReqRec
BY Zenon DEF ReqRec

\* The records runs and requests start from and end in are well typed.
LEMMA FreshRecords ==
  /\ IdleWorker \in WorkerRec /\ IdleReq \in ReqRec
  /\ [IdleReq EXCEPT !.pc = "finished"] \in ReqRec
  /\ \A j \in Jobs : [IdleWorker EXCEPT !.pc = "fetch_job", !.job = j] \in WorkerRec
<1>1. 0 \in Versions
  BY ConstantsAssumption DEF Versions
<1>2. IdleWorker \in WorkerRec
  BY <1>1 DEF IdleWorker, WorkerRec, WorkerPc
<1>3. IdleReq \in ReqRec
  BY <1>1 DEF IdleReq, ReqRec, ReqPc
<1>4. [IdleReq EXCEPT !.pc = "finished"] \in ReqRec
  BY Zenon, <1>3, ReqFields DEF ReqPc
<1>5. \A j \in Jobs : [IdleWorker EXCEPT !.pc = "fetch_job", !.job = j] \in WorkerRec
  BY <1>2 DEF WorkerRec, WorkerPc
<1>. QED
  BY Zenon, <1>2, <1>3, <1>4, <1>5

\* The local records are typed in every state of LinkInv.
LEMMA StateTypes ==
  ASSUME LinkInv
  PROVE  worker \in [Workers -> WorkerRec] /\ req \in [Requests -> ReqRec]
BY DEF LinkInv, TypeOK

\* A run in progress names a job that has a row, a text and a slot.
LEMMA RunTypes ==
  ASSUME LinkInv, NEW w \in Workers, Working(w)
  PROVE  /\ worker[w].job \in Jobs /\ worker[w].text \in Versions /\ worker[w].count \in Nat
         /\ worker[w].slot \in Slots \cup {None} /\ worker[w].retry \in BOOLEAN
         /\ status[worker[w].job] # "none"
         /\ target[worker[w].job].draft \in Drafts
BY DEF LinkInv, Links, TypeOK, RunsLinked, WorkerRec, RowsLinked, FreshIds
-----------------------------------------------------------------------------
(* One step of Next keeps the types, variable by variable *)

\* No step leaves a run's local state outside its type.
LEMMA WorkersTyped ==
  ASSUME LinkInv, Next
  PROVE  worker' \in [Workers -> WorkerRec]
<1>1. ASSUME NEW w \in Workers, NEW j \in Jobs, Take(w, j)
      PROVE  worker' \in [Workers -> WorkerRec]
  BY Zenon, StateTypes, WorkerFields, FreshRecords, <1>1
  DEF Take, WorkerPc
<1>2. ASSUME NEW w \in Workers, FetchJob(w)
      PROVE  worker' \in [Workers -> WorkerRec]
  BY Zenon, StateTypes, WorkerFields, FreshRecords, <1>2
  DEF FetchJob, WorkerPc
<1>3. ASSUME NEW w \in Workers, AcquireSlot(w)
      PROVE  worker' \in [Workers -> WorkerRec]
  <2>1. \A s \in Slots : [worker[w] EXCEPT !.pc = "mark_processing", !.slot = s] \in WorkerRec
    BY Zenon, StateTypes, WorkerFields DEF WorkerPc
  <2>2. [worker[w] EXCEPT !.pc = "catch_read", !.retry = TRUE] \in WorkerRec
    BY Zenon, StateTypes, WorkerFields DEF WorkerPc
  <2>3. worker[w].count + 1 \in Nat
    BY StateTypes DEF WorkerRec
  <2>4. [worker[w] EXCEPT !.pc = "acquire", !.count = worker[w].count + 1] \in WorkerRec
    BY Zenon, <2>3, StateTypes, WorkerFields DEF WorkerPc
  <2>. QED
    BY Zenon, StateTypes, <2>1, <2>2, <2>4, <1>3 DEF AcquireSlot, Fail
<1>4. ASSUME NEW w \in Workers, MarkProcessing(w)
      PROVE  worker' \in [Workers -> WorkerRec]
  BY Zenon, StateTypes, WorkerFields, FreshRecords, <1>4
  DEF MarkProcessing, WorkerPc
<1>5. ASSUME NEW w \in Workers, FetchDraft(w)
      PROVE  worker' \in [Workers -> WorkerRec]
  <2>1. body[target[worker[w].job].draft] \in Versions
    BY RunTypes, <1>5 DEF FetchDraft, Working, LinkInv, TypeOK
  <2>2. \A v \in Versions : [worker[w] EXCEPT !.pc = "fetch_account", !.text = v] \in WorkerRec
    BY Zenon, StateTypes, WorkerFields DEF WorkerPc
  <2>3. [worker[w] EXCEPT !.pc = "catch_read", !.retry = FALSE] \in WorkerRec
    BY Zenon, StateTypes, WorkerFields DEF WorkerPc
  <2>. QED
    BY Zenon, StateTypes, <2>1, <2>2, <2>3, <1>5 DEF FetchDraft, Fail
<1>6. ASSUME NEW w \in Workers, FetchAccount(w)
      PROVE  worker' \in [Workers -> WorkerRec]
  <2>1. \A b \in BOOLEAN : [worker[w] EXCEPT !.pc = "catch_read", !.retry = b] \in WorkerRec
    BY Zenon, StateTypes, WorkerFields DEF WorkerPc
  <2>2. [worker[w] EXCEPT !.pc = "dispatch"] \in WorkerRec
    BY Zenon, StateTypes, WorkerFields DEF WorkerPc
  <2>. QED
    BY Zenon, StateTypes, <2>1, <2>2, <1>6 DEF FetchAccount, Fail
<1>7. ASSUME NEW w \in Workers, Dispatch(w)
      PROVE  worker' \in [Workers -> WorkerRec]
  <2>1. \A b \in BOOLEAN : [worker[w] EXCEPT !.pc = "catch_read", !.retry = b] \in WorkerRec
    BY StateTypes, WorkerFields DEF WorkerPc
  <2>2. [worker[w] EXCEPT !.pc = "mark_done", !.posted = TRUE] \in WorkerRec
    BY Zenon, StateTypes, WorkerFields DEF WorkerPc
  <2>. QED
    BY Zenon, StateTypes, <2>1, <2>2, <1>7 DEF Dispatch, Fail
<1>8. ASSUME NEW w \in Workers, MarkDone(w)
      PROVE  worker' \in [Workers -> WorkerRec]
  BY Zenon, StateTypes, WorkerFields, FreshRecords, <1>8
  DEF MarkDone, WorkerPc
<1>9. ASSUME NEW w \in Workers, MarkPublished(w)
      PROVE  worker' \in [Workers -> WorkerRec]
  BY Zenon, StateTypes, WorkerFields, FreshRecords, <1>9
  DEF MarkPublished, WorkerPc
<1>10. ASSUME NEW w \in Workers, AuditLog(w)
      PROVE  worker' \in [Workers -> WorkerRec]
  BY Zenon, StateTypes, WorkerFields, FreshRecords, <1>10
  DEF AuditLog, WorkerPc, Leaving
<1>11. ASSUME NEW w \in Workers, CatchRead(w)
      PROVE  worker' \in [Workers -> WorkerRec]
  <2>1. (IF InTable(worker[w].job) THEN attemptCount[worker[w].job] ELSE 0) \in Nat
    BY RunTypes, <1>11 DEF CatchRead, Working, LinkInv, TypeOK
  <2>. QED
    BY Zenon, StateTypes, WorkerFields, <2>1, <1>11 DEF CatchRead, WorkerPc
<1>12. ASSUME NEW w \in Workers, CatchWrite(w)
      PROVE  worker' \in [Workers -> WorkerRec]
  BY Zenon, StateTypes, WorkerFields, FreshRecords, <1>12
  DEF CatchWrite, WorkerPc, Leaving, Requeues
<1>13. ASSUME NEW w \in Workers, ReleaseGet(w)
      PROVE  worker' \in [Workers -> WorkerRec]
  BY Zenon, StateTypes, WorkerFields, FreshRecords, <1>13
  DEF ReleaseGet, WorkerPc
<1>14. ASSUME NEW w \in Workers, ReleaseDel(w)
      PROVE  worker' \in [Workers -> WorkerRec]
  BY Zenon, StateTypes, WorkerFields, FreshRecords, <1>14
  DEF ReleaseDel, WorkerPc
<1>15. ASSUME NEW w \in Workers, Finish(w)
      PROVE  worker' \in [Workers -> WorkerRec]
  BY Zenon, StateTypes, WorkerFields, FreshRecords, <1>15
  DEF Finish, WorkerPc
<1>16. ASSUME NEW w \in Workers, CallFails(w)
      PROVE  worker' \in [Workers -> WorkerRec]
  <2>1. /\ [worker[w] EXCEPT !.pc = "finish", !.throws = TRUE] \in WorkerRec
        /\ [worker[w] EXCEPT !.pc = "catch_read", !.retry = TRUE] \in WorkerRec
        /\ [worker[w] EXCEPT !.pc = "catch_write", !.count = 0] \in WorkerRec
        /\ [worker[w] EXCEPT !.pc = "finish"] \in WorkerRec
    BY Zenon, StateTypes, WorkerFields DEF WorkerPc
  <2>2. [worker[w] EXCEPT !.pc = Leaving(w), !.throws = Requeues(w)] \in WorkerRec
    <3>1. Leaving(w) \in WorkerPc /\ Requeues(w) \in BOOLEAN
      BY DEF Leaving, Requeues, WorkerPc
    <3>. QED
      BY Zenon, StateTypes, WorkerFields, <3>1
  <2>. QED
    BY StateTypes, <2>1, <2>2, <1>16 DEF CallFails, Fail
<1>17. ASSUME NEW w \in Workers, Crash(w)
      PROVE  worker' \in [Workers -> WorkerRec]
  BY Zenon, StateTypes, WorkerFields, FreshRecords, <1>17
  DEF Crash, WorkerPc
<1>18. CASE ApiStep
  BY Zenon, StateTypes, <1>18
  DEF ApiStep, ScheduleCheckDraft, ScheduleCheckAccounts, ScheduleInsertJob, ScheduleEnqueue, ScheduleMarkQueued, ScheduleMarkDraft, CancelCheck, CancelUpdate, CancelRemove, CancelCount, CancelRevert, ApproveCheck, ApproveUpdate, RegenerateFetch, RegenerateUpdate, DisconnectAccount, EraseSubject
<1>19. CASE (\E j \in Jobs : StalledCheck(j)) \/ (\E s \in Slots : SlotExpires(s))
            \/ (\E a \in Accounts : TokenExpires(a)) \/ (\E r \in Requests : RequestFails(r))
  BY StateTypes, <1>19 DEF StalledCheck, SlotExpires, TokenExpires, RequestFails
<1>. QED
  BY <1>1, <1>2, <1>3, <1>4, <1>5, <1>6, <1>7, <1>8, <1>9, <1>10, <1>11, <1>12, <1>13, <1>14, <1>15, <1>16, <1>17, <1>18, <1>19
  DEF Next, WorkerStep, RunStep, FaultStep

\* No step leaves a request's local state outside its type.
LEMMA RequestsTyped ==
  ASSUME LinkInv, Next
  PROVE  req' \in [Requests -> ReqRec]
<1>1. ASSUME NEW r \in Requests, NEW d \in Drafts, NEW accts \in SUBSET Accounts, ScheduleCheckDraft(r, d, accts)
      PROVE  req' \in [Requests -> ReqRec]
  BY Zenon, StateTypes, ReqFields, FreshRecords, <1>1 DEF ScheduleCheckDraft, ReqPc
<1>2. ASSUME NEW r \in Requests, ScheduleCheckAccounts(r)
      PROVE  req' \in [Requests -> ReqRec]
  <2>1. [req[r] EXCEPT !.pc = "s_insert"] \in ReqRec
    BY Zenon, StateTypes, ReqFields DEF ReqPc
  <2>. QED
    BY Zenon, StateTypes, FreshRecords, <2>1, <1>2 DEF ScheduleCheckAccounts, Ends
<1>3. ASSUME NEW r \in Requests, ScheduleInsertJob(r)
      PROVE  req' \in [Requests -> ReqRec]
  <2>1. \A j \in Jobs : \A t :
          [req[r] EXCEPT !.pc = "s_enqueue", !.job = j, !.todo = req[r].todo \ t] \in ReqRec
    BY Zenon, StateTypes, ReqFields DEF ReqPc
  <2>2. CASE Ends(r)
    BY Zenon, StateTypes, FreshRecords, <2>2 DEF Ends
  <2>3. ASSUME NEW a \in Accounts, NEW j \in Jobs,
               req' = [req EXCEPT ![r] = [@ EXCEPT !.pc = "s_enqueue", !.job = j,
                                          !.todo = req[r].todo \ {a}]]
        PROVE  req' \in [Requests -> ReqRec]
    <3>1. [req[r] EXCEPT !.pc = "s_enqueue", !.job = j, !.todo = req[r].todo \ {a}] \in ReqRec
      BY Zenon, <2>1
    <3>. QED
      BY StateTypes, <3>1, <2>3
  <2>4. req[r].todo \subseteq Accounts
    BY StateTypes DEF ReqRec
  <2>. QED
    BY Zenon, <2>2, <2>3, <2>4, <1>3 DEF ScheduleInsertJob
<1>4. ASSUME NEW r \in Requests, ScheduleEnqueue(r)
      PROVE  req' \in [Requests -> ReqRec]
  BY Zenon, StateTypes, ReqFields, FreshRecords, <1>4 DEF ScheduleEnqueue, ReqPc
<1>5. ASSUME NEW r \in Requests, ScheduleMarkQueued(r)
      PROVE  req' \in [Requests -> ReqRec]
  BY Zenon, StateTypes, ReqFields, FreshRecords, <1>5 DEF ScheduleMarkQueued, ReqPc
<1>6. ASSUME NEW r \in Requests, ScheduleMarkDraft(r)
      PROVE  req' \in [Requests -> ReqRec]
  BY Zenon, StateTypes, ReqFields, FreshRecords, <1>6 DEF ScheduleMarkDraft, ReqPc, Ends
<1>7. ASSUME NEW r \in Requests, NEW j \in Jobs, CancelCheck(r, j)
      PROVE  req' \in [Requests -> ReqRec]
  <2>1. target[j].draft \in Drafts
    BY <1>7 DEF CancelCheck, LinkInv, Links, RowsLinked
  <2>. QED
    BY Zenon, StateTypes, ReqFields, <2>1, <1>7 DEF CancelCheck, ReqPc
<1>8. ASSUME NEW r \in Requests, CancelUpdate(r)
      PROVE  req' \in [Requests -> ReqRec]
  BY Zenon, StateTypes, ReqFields, FreshRecords, <1>8 DEF CancelUpdate, ReqPc
<1>9. ASSUME NEW r \in Requests, CancelRemove(r)
      PROVE  req' \in [Requests -> ReqRec]
  BY Zenon, StateTypes, ReqFields, FreshRecords, <1>9 DEF CancelRemove, ReqPc
<1>10. ASSUME NEW r \in Requests, CancelCount(r)
      PROVE  req' \in [Requests -> ReqRec]
  <2>1. [req[r] EXCEPT !.pc = "c_revert"] \in ReqRec
    BY Zenon, StateTypes, ReqFields DEF ReqPc
  <2>. QED
    BY Zenon, StateTypes, FreshRecords, <2>1, <1>10 DEF CancelCount, Ends
<1>11. ASSUME NEW r \in Requests, CancelRevert(r)
      PROVE  req' \in [Requests -> ReqRec]
  BY Zenon, StateTypes, ReqFields, FreshRecords, <1>11 DEF CancelRevert, ReqPc, Ends
<1>12. ASSUME NEW r \in Requests, NEW d \in Drafts, ApproveCheck(r, d)
      PROVE  req' \in [Requests -> ReqRec]
  <2>1. body[d] \in Versions
    BY DEF LinkInv, TypeOK
  <2>. QED
    BY Zenon, StateTypes, ReqFields, <2>1, <1>12 DEF ApproveCheck, ReqPc
<1>13. ASSUME NEW r \in Requests, ApproveUpdate(r)
      PROVE  req' \in [Requests -> ReqRec]
  BY Zenon, StateTypes, ReqFields, FreshRecords, <1>13 DEF ApproveUpdate, ReqPc, Ends
<1>14. ASSUME NEW r \in Requests, NEW d \in Drafts, RegenerateFetch(r, d)
      PROVE  req' \in [Requests -> ReqRec]
  BY Zenon, StateTypes, ReqFields, FreshRecords, <1>14 DEF RegenerateFetch, ReqPc
<1>15. ASSUME NEW r \in Requests, RegenerateUpdate(r)
      PROVE  req' \in [Requests -> ReqRec]
  BY Zenon, StateTypes, ReqFields, FreshRecords, <1>15 DEF RegenerateUpdate, ReqPc, Ends
<1>16. ASSUME NEW r \in Requests, NEW a \in Accounts, DisconnectAccount(r, a)
      PROVE  req' \in [Requests -> ReqRec]
  BY Zenon, StateTypes, ReqFields, FreshRecords, <1>16 DEF DisconnectAccount, ReqPc, Ends
<1>17. ASSUME NEW r \in Requests, EraseSubject(r)
      PROVE  req' \in [Requests -> ReqRec]
  BY Zenon, StateTypes, ReqFields, FreshRecords, <1>17 DEF EraseSubject, ReqPc, Ends
<1>18. ASSUME NEW r \in Requests, RequestFails(r)
      PROVE  req' \in [Requests -> ReqRec]
  BY Zenon, StateTypes, ReqFields, FreshRecords, <1>18 DEF RequestFails, ReqPc, Ends
<1>19. CASE WorkerStep
  BY Zenon, StateTypes, <1>19
  DEF WorkerStep, RunStep, Take, FetchJob, AcquireSlot, MarkProcessing, FetchDraft, FetchAccount, Dispatch, MarkDone, MarkPublished, AuditLog, CatchRead, CatchWrite, ReleaseGet, ReleaseDel, Finish
<1>20. CASE (\E w \in Workers : CallFails(w) \/ Crash(w)) \/ (\E j \in Jobs : StalledCheck(j))
            \/ (\E s \in Slots : SlotExpires(s)) \/ (\E a \in Accounts : TokenExpires(a))
  BY Zenon, StateTypes, <1>20 DEF CallFails, Crash, StalledCheck, SlotExpires, TokenExpires
<1>. QED
  BY <1>1, <1>2, <1>3, <1>4, <1>5, <1>6, <1>7, <1>8, <1>9, <1>10, <1>11, <1>12, <1>13, <1>14, <1>15, <1>16, <1>17, <1>18, <1>19, <1>20
  DEF Next, ApiStep, FaultStep

\* TypeOK without the local records
TablesTyped ==
  /\ draftStatus \in [Drafts -> DraftStatus] /\ body \in [Drafts -> Versions]
  /\ revoked \in [Accounts -> BOOLEAN] /\ expired \in [Accounts -> BOOLEAN]
  /\ status \in [Jobs -> RowStatus] /\ attemptCount \in [Jobs -> Nat]
  /\ target \in [Jobs -> [draft : Drafts \cup {None}, account : Accounts \cup {None}]]
  /\ bull \in [Jobs -> BullState] /\ lock \in [Jobs -> Workers \cup {None}]
  /\ bullAttempts \in [Jobs -> Nat] /\ stalls \in [Jobs -> Nat]
  /\ slot \in [Slots -> Jobs \cup {None}]
  /\ faults \in Nat
  /\ posts \in [Jobs -> Nat] /\ excuse \in [Jobs -> Nat] /\ recorded \in [Jobs -> BOOLEAN]
  /\ called \subseteq Jobs /\ late \subseteq Jobs /\ withdrawn \subseteq Jobs
  /\ sentTexts \subseteq Versions

\* No step leaves a table, the queue, a slot or the history outside its type.
LEMMA TablesKept ==
  ASSUME LinkInv, Next
  PROVE  TablesTyped'
<1>0. TablesTyped
  BY DEF LinkInv, TypeOK, TablesTyped
<1>1. ASSUME NEW r \in Requests, ScheduleInsertJob(r)
      PROVE  TablesTyped'
  <2>1. req[r].todo \subseteq Accounts /\ req[r].draft \in Drafts
    BY Zenon, StateTypes, <1>1 DEF ScheduleInsertJob, LinkInv, Links, RequestsLinked, ReqRec
  <2>2. CASE UNCHANGED rowVars
    BY Zenon, <1>0, <2>2, <1>1 DEF ScheduleInsertJob, TablesTyped
  <2>3. ASSUME NEW a \in req[r].todo, NEW j \in Jobs,
               status' = [status EXCEPT ![j] = "pending"],
               target' = [target EXCEPT ![j] = [draft |-> req[r].draft, account |-> a]],
               UNCHANGED attemptCount
        PROVE  TablesTyped'
    <3>1. status' \in [Jobs -> RowStatus]
      BY <1>0, <2>3 DEF TablesTyped, RowStatus
    <3>2. target' \in [Jobs -> [draft : Drafts \cup {None}, account : Accounts \cup {None}]]
      BY <1>0, <2>1, <2>3 DEF TablesTyped
    <3>. QED
      BY Zenon, <1>0, <3>1, <3>2, <2>3, <1>1 DEF ScheduleInsertJob, TablesTyped
  <2>. QED
    BY Zenon, <2>2, <2>3, <1>1 DEF ScheduleInsertJob
<1>2. ASSUME NEW r \in Requests, ScheduleEnqueue(r)
      PROVE  TablesTyped'
  BY <1>0, <1>2
  DEF ScheduleEnqueue, TablesTyped, BullState
<1>3. ASSUME NEW r \in Requests, ScheduleMarkQueued(r)
      PROVE  TablesTyped'
  BY <1>0, StateTypes, <1>3
  DEF ScheduleMarkQueued, TablesTyped, RowStatus, SetRow, InTable, Reopened, LinkInv, Links, RequestsLinked
<1>4. ASSUME NEW r \in Requests, ScheduleMarkDraft(r)
      PROVE  TablesTyped'
  BY <1>0, <1>4
  DEF ScheduleMarkDraft, TablesTyped, DraftStatus, SetDraft
<1>5. ASSUME NEW r \in Requests, CancelUpdate(r)
      PROVE  TablesTyped'
  BY <1>0, StateTypes, <1>5
  DEF CancelUpdate, TablesTyped, RowStatus, SetRow, InTable, LinkInv, Links, RequestsLinked
<1>6. ASSUME NEW r \in Requests, CancelRemove(r)
      PROVE  TablesTyped'
  BY <1>0, <1>6
  DEF CancelRemove, TablesTyped, BullState
<1>7. ASSUME NEW r \in Requests, CancelRevert(r)
      PROVE  TablesTyped'
  BY <1>0, <1>7
  DEF CancelRevert, TablesTyped, DraftStatus
<1>8. ASSUME NEW r \in Requests, ApproveUpdate(r)
      PROVE  TablesTyped'
  BY <1>0, <1>8
  DEF ApproveUpdate, TablesTyped, DraftStatus, SetDraft
<1>9. ASSUME NEW r \in Requests, RegenerateUpdate(r)
      PROVE  TablesTyped'
  <2>. DEFINE d == req[r].draft
  <2>1. body \in [Drafts -> Versions] /\ d \in Drafts
    BY <1>0, <1>9 DEF RegenerateUpdate, TablesTyped, LinkInv, Links, RequestsLinked
  <2>2. \A v \in Versions : v < MaxVersion => v + 1 \in Versions
    BY ConstantsAssumption DEF Versions
  <2>3. body' = [body EXCEPT ![d] =
           IF draftStatus[d] # "deleted" /\ body[d] < MaxVersion THEN @ + 1 ELSE @]
    BY <1>9 DEF RegenerateUpdate
  <2>. HIDE DEF d
  <2>4. body' \in [Drafts -> Versions]
    BY <2>1, <2>2, <2>3
  <2>. QED
    BY <1>0, <2>4, <1>9 DEF RegenerateUpdate, TablesTyped
<1>10. ASSUME NEW r \in Requests, NEW a \in Accounts, DisconnectAccount(r, a)
      PROVE  TablesTyped'
  BY <1>0, <1>10
  DEF DisconnectAccount, TablesTyped
<1>11. ASSUME NEW r \in Requests, EraseSubject(r)
      PROVE  TablesTyped'
  BY <1>0, <1>11
  DEF EraseSubject, TablesTyped, DraftStatus, RowStatus
<1>12. ASSUME NEW w \in Workers, NEW j \in Jobs, Take(w, j)
      PROVE  TablesTyped'
  BY <1>0, <1>12
  DEF Take, TablesTyped, BullState
<1>13. ASSUME NEW w \in Workers, AcquireSlot(w)
      PROVE  TablesTyped'
  BY <1>0, RunTypes, <1>13
  DEF AcquireSlot, TablesTyped, Working
<1>14. ASSUME NEW w \in Workers, MarkProcessing(w)
      PROVE  TablesTyped'
  BY <1>0, RunTypes, <1>14
  DEF MarkProcessing, TablesTyped, RowStatus, SetRow, InTable, Reopened, Working
<1>15. ASSUME NEW w \in Workers, Dispatch(w)
      PROVE  TablesTyped'
  <2>. DEFINE j == worker[w].job
  <2>1. j \in Jobs /\ worker[w].text \in Versions
    BY RunTypes, <1>15 DEF Dispatch, Working
  <2>2. PICK unacked \in Nat :
          /\ faults' = faults + unacked
          /\ \/ /\ posts' = [posts EXCEPT ![j] = @ + unacked + 1]
                /\ excuse' = [excuse EXCEPT ![j] = @ + unacked + IF Holds(w, j) THEN 0 ELSE 1]
             \/ /\ posts' = [posts EXCEPT ![j] = @ + unacked]
                /\ excuse' = [excuse EXCEPT ![j] = @ + unacked]
    BY <1>15 DEF Dispatch, MaxRetries
  <2>. HIDE DEF j
  <2>3. posts' \in [Jobs -> Nat] /\ excuse' \in [Jobs -> Nat] /\ faults' \in Nat
    <3>1. posts \in [Jobs -> Nat] /\ excuse \in [Jobs -> Nat] /\ faults \in Nat
      BY <1>0 DEF TablesTyped
    <3>2. posts' \in [Jobs -> Nat] /\ faults' \in Nat
      BY <2>1, <2>2, <3>1
    <3>3. excuse' \in [Jobs -> Nat]
      <4>1. (IF Holds(w, j) THEN 0 ELSE 1) \in Nat
        OBVIOUS
      <4>2. ASSUME NEW n \in Nat
            PROVE  [excuse EXCEPT ![j] = @ + unacked + n] \in [Jobs -> Nat]
        BY <2>1, <2>2, <3>1
      <4>3. [excuse EXCEPT ![j] = @ + unacked] \in [Jobs -> Nat]
        BY <2>1, <2>2, <3>1
      <4>. QED
        BY <2>2, <4>1, <4>2, <4>3
    <3>. QED
      BY <3>2, <3>3
  <2>4. called' \subseteq Jobs /\ sentTexts' \subseteq Versions
    BY <1>0, <2>1, <1>15 DEF TablesTyped, Dispatch, j
  <2>. QED
    BY <1>0, <2>3, <2>4, <1>15 DEF TablesTyped, Dispatch
<1>16. ASSUME NEW w \in Workers, MarkDone(w)
      PROVE  TablesTyped'
  BY <1>0, RunTypes, <1>16
  DEF MarkDone, TablesTyped, RowStatus, SetRow, InTable, Working
<1>17. ASSUME NEW w \in Workers, MarkPublished(w)
      PROVE  TablesTyped'
  BY <1>0, RunTypes, <1>17
  DEF MarkPublished, TablesTyped, DraftStatus, SetDraft, Working
<1>18. ASSUME NEW w \in Workers, CatchWrite(w)
      PROVE  TablesTyped'
  <2>1. worker[w].job \in Jobs /\ worker[w].count \in Nat
    BY RunTypes, <1>18 DEF CatchWrite, Working
  <2>2. status' \in [Jobs -> RowStatus]
    BY <1>0, <2>1, <1>18 DEF CatchWrite, SetRow, TablesTyped, RowStatus
  <2>3. attemptCount' \in [Jobs -> Nat]
    BY <1>0, <2>1, <1>18 DEF CatchWrite, TablesTyped
  <2>4. excuse' \in [Jobs -> Nat] /\ recorded' \in [Jobs -> BOOLEAN]
    <3>1. CASE Requeues(w)
      <4>1. Reopened(worker[w].job, Holds(w, worker[w].job))
        BY <3>1, <1>18 DEF CatchWrite
      <4>2. excuse' \in [Jobs -> Nat]
        BY <1>0, <2>1, <4>1 DEF Reopened, TablesTyped
      <4>3. recorded' \in [Jobs -> BOOLEAN]
        BY <1>0, <2>1, <4>1 DEF Reopened, TablesTyped
      <4>. QED
        BY <4>2, <4>3
    <3>2. CASE ~Requeues(w)
      BY <1>0, <3>2, <1>18 DEF CatchWrite, TablesTyped
    <3>. QED
      BY <3>1, <3>2
  <2>. QED
    BY <1>0, <2>2, <2>3, <2>4, <1>18 DEF CatchWrite, TablesTyped
<1>19. ASSUME NEW w \in Workers, ReleaseDel(w)
      PROVE  TablesTyped'
  BY <1>0, RunTypes, <1>19
  DEF ReleaseDel, TablesTyped, Working
<1>20. ASSUME NEW w \in Workers, Finish(w)
      PROVE  TablesTyped'
  <2>1. worker[w].job \in Jobs
    BY RunTypes, <1>20 DEF Finish, Working
  <2>2. CASE lock[worker[w].job] = w
    <3>1. bull' \in [Jobs -> BullState]
      BY <1>0, <2>1, <2>2, <1>20 DEF Finish, TablesTyped, BullState
    <3>2. lock' \in [Jobs -> Workers \cup {None}] /\ bullAttempts' \in [Jobs -> Nat]
      <4>1. lock' = [lock EXCEPT ![worker[w].job] = None]
        BY <2>2, <1>20 DEF Finish
      <4>2. bullAttempts' = [bullAttempts EXCEPT ![worker[w].job] =
                               IF worker[w].throws THEN @ + 1 ELSE @]
        BY <2>2, <1>20 DEF Finish
      <4>. QED
        BY <1>0, <2>1, <4>1, <4>2 DEF TablesTyped
    <3>3. excuse' \in [Jobs -> Nat]
      BY <1>0, <2>1, <1>20 DEF Finish, RunLost, TablesTyped
    <3>. QED
      BY <1>0, <3>1, <3>2, <3>3, <1>20 DEF Finish, TablesTyped
  <2>3. CASE lock[worker[w].job] # w
    BY <1>0, <2>1, <2>3, <1>20 DEF Finish, RunLost, TablesTyped
  <2>. QED
    BY <2>2, <2>3
<1>21. ASSUME NEW w \in Workers, CallFails(w)
      PROVE  TablesTyped'
  BY <1>0, RunTypes, <1>21
  DEF CallFails, TablesTyped, Working
<1>22. ASSUME NEW w \in Workers, Crash(w)
      PROVE  TablesTyped'
  <2>1. worker[w].job \in Jobs
    BY RunTypes, <1>22 DEF Crash
  <2>2. excuse' \in [Jobs -> Nat]
    BY <1>0, <2>1, <1>22 DEF Crash, RunLost, TablesTyped
  <2>. QED
    BY <1>0, <2>2, <1>22 DEF Crash, TablesTyped
<1>23. ASSUME NEW j \in Jobs, StalledCheck(j)
      PROVE  TablesTyped'
  <2>1. bull' \in [Jobs -> BullState]
    BY <1>0, <1>23 DEF StalledCheck, TablesTyped, BullState
  <2>2. lock' \in [Jobs -> Workers \cup {None}] /\ stalls' \in [Jobs -> Nat] /\ faults' \in Nat
    BY <1>0, <1>23 DEF StalledCheck, TablesTyped
  <2>3. excuse' \in [Jobs -> Nat]
    BY <1>0, <1>23 DEF StalledCheck, RunLost, TablesTyped
  <2>. QED
    BY <1>0, <2>1, <2>2, <2>3, <1>23 DEF StalledCheck, TablesTyped
<1>24. ASSUME NEW s \in Slots, SlotExpires(s)
      PROVE  TablesTyped'
  BY <1>0, <1>24
  DEF SlotExpires, TablesTyped
<1>27. ASSUME NEW a \in Accounts, TokenExpires(a)
      PROVE  TablesTyped'
  BY <1>0, <1>27
  DEF TokenExpires, TablesTyped
<1>25. ASSUME NEW r \in Requests, RequestFails(r)
      PROVE  TablesTyped'
  BY <1>0, <1>25
  DEF RequestFails, TablesTyped
<1>26. ASSUME UNCHANGED <<draftVars, accountVars, rowVars, queueVars, slot, faults, history>>
      PROVE  TablesTyped'
  BY <1>0, <1>26 DEF TablesTyped
<1>. QED
  BY Zenon, <1>1, <1>2, <1>3, <1>4, <1>5, <1>6, <1>7, <1>8, <1>9, <1>10, <1>11, <1>12, <1>13, <1>14, <1>15, <1>16, <1>17, <1>18, <1>19, <1>20, <1>21, <1>22, <1>23, <1>24, <1>25, <1>26, <1>27
  DEF Next, ApiStep, WorkerStep, RunStep, FaultStep,
      ScheduleCheckDraft, ScheduleCheckAccounts, CancelCheck, CancelCount, ApproveCheck, RegenerateFetch, FetchJob, FetchDraft, FetchAccount, AuditLog, CatchRead, ReleaseGet
-----------------------------------------------------------------------------
(* One step of Next keeps the links *)

\* the rows in use stay the rows in use, and the ids that are not stay unknown to the queue
TablesLinked ==
  /\ UNCHANGED target
  /\ \A j \in Jobs : (status'[j] = "none") <=> (status[j] = "none")
  /\ \A j \in Jobs : status[j] = "none" => bull'[j] = bull[j] /\ (recorded'[j] => recorded[j])

\* A row's status is set to another status of a row in use.
LEMMA SetRowLinks ==
  ASSUME LinkInv, NEW j \in Jobs, NEW s, s # "none", SetRow(j, s)
  PROVE  \A k \in Jobs : (status'[k] = "none") <=> (status[k] = "none")
BY DEF SetRow, InTable, LinkInv, TypeOK

\* The queue's view of a job in use is no unused id's.
LEMMA BullLinks ==
  ASSUME LinkInv, NEW j \in Jobs, status[j] # "none", NEW b, bull' = [bull EXCEPT ![j] = b]
  PROVE  \A k \in Jobs : status[k] = "none" => bull'[k] = bull[k]
BY DEF LinkInv, TypeOK

\* Reopening a job's record records nothing.
LEMMA ReopenedLinks ==
  ASSUME LinkInv, NEW j \in Jobs, NEW b, Reopened(j, b)
  PROVE  \A k \in Jobs : recorded'[k] => recorded[k]
BY DEF Reopened, LinkInv, TypeOK

\* A step that only moves runs along, or ends them, breaks no link.
LEMMA RunsMoveOn ==
  ASSUME LinkInv, TablesLinked, UNCHANGED req,
         \A w \in Workers :
           \/ worker'[w].job = worker[w].job /\ (Working(w)' => Working(w))
           \/ worker'[w] = IdleWorker
  PROVE  Links'
<1>0. RowsLinked /\ FreshIds /\ RunsLinked /\ RequestsLinked
  BY DEF LinkInv, Links
<1>1. RowsLinked' /\ RequestsLinked'
  BY <1>0 DEF RowsLinked, RequestsLinked, TablesLinked
<1>2. FreshIds'
  BY <1>0, ConstantsAssumption DEF FreshIds, TablesLinked, IdleWorker
<1>3. RunsLinked'
  BY <1>0 DEF RunsLinked, Working, IdleWorker
<1>. QED
  BY <1>1, <1>2, <1>3 DEF Links

\* A run that goes on keeps its job, whatever else of its record changes.
LEMMA RunGoesOn ==
  ASSUME LinkInv, TablesLinked, UNCHANGED req, NEW w \in Workers, worker[w].pc # "idle",
         worker'[w].job = worker[w].job, \A v \in Workers \ {w} : worker'[v] = worker[v]
  PROVE  Links'
BY RunsMoveOn DEF Working

\* A failure inside the try block leaves the run on its job.
LEMMA FailKeepsJob ==
  ASSUME LinkInv, NEW w \in Workers, NEW b, Fail(w, b)
  PROVE  worker'[w].job = worker[w].job /\ \A v \in Workers \ {w} : worker'[v] = worker[v]
BY StateTypes DEF Fail, WorkerRec

\* So does a step that changes where the run stands.
LEMMA PcKeepsJob ==
  ASSUME LinkInv, NEW w \in Workers, NEW p, worker' = [worker EXCEPT ![w].pc = p]
  PROVE  worker'[w].job = worker[w].job /\ \A v \in Workers \ {w} : worker'[v] = worker[v]
BY StateTypes DEF WorkerRec

\* A request keeps its job, lets it go or takes one that has a row.
LEMMA RequestGoesOn ==
  ASSUME LinkInv, TablesLinked, UNCHANGED worker, NEW r \in Requests,
         \A q \in Requests \ {r} : req'[q] = req[q],
         \/ req'[r].job = req[r].job
         \/ req'[r].job = None
         \/ req'[r].job \in Jobs /\ status[req'[r].job] # "none",
         req'[r].pc \in {"s_enqueue", "s_mark_queued", "c_update", "c_remove"}
           => req'[r].job \in Jobs,
         req'[r].pc \notin {"idle", "finished"} => req'[r].draft \in Drafts
  PROVE  Links'
<1>0. RowsLinked /\ FreshIds /\ RunsLinked /\ RequestsLinked
  BY DEF LinkInv, Links
<1>1. RowsLinked' /\ RunsLinked'
  BY <1>0 DEF RowsLinked, RunsLinked, TablesLinked, Working
<1>2. RequestsLinked'
  BY <1>0 DEF RequestsLinked
<1>3. FreshIds'
  <2>1. ASSUME NEW j \in Jobs, status'[j] = "none"
        PROVE  bull'[j] = "none" /\ ~recorded'[j] /\ \A w \in Workers : worker'[w].job # j
    BY <1>0, <2>1 DEF FreshIds, TablesLinked
  <2>2. ASSUME NEW j \in Jobs, status'[j] = "none", NEW q \in Requests
        PROVE  req'[q].job # j
    BY <1>0, <2>2, ConstantsAssumption DEF FreshIds, TablesLinked
  <2>. QED
    BY <2>1, <2>2 DEF FreshIds
<1>. QED
  BY <1>1, <1>2, <1>3 DEF Links

\* A step that ends the request r breaks no link.
LEMMA RequestEnds ==
  ASSUME LinkInv, TablesLinked, UNCHANGED worker, NEW r \in Requests, Ends(r)
  PROVE  Links'
<1>1. req'[r] = [IdleReq EXCEPT !.pc = "finished"] /\ \A q \in Requests \ {r} : req'[q] = req[q]
  BY StateTypes DEF Ends
<1>. QED
  BY <1>1, RequestGoesOn DEF IdleReq

\* A step that only moves the request r along breaks no link.
LEMMA RequestMoves ==
  ASSUME LinkInv, TablesLinked, UNCHANGED worker, NEW r \in Requests, NEW p,
         req' = [req EXCEPT ![r].pc = p], req[r].pc \notin {"idle", "finished"},
         p \in {"s_enqueue", "s_mark_queued", "c_update", "c_remove"} => req[r].job \in Jobs
  PROVE  Links'
<1>1. /\ req'[r].job = req[r].job /\ req'[r].draft = req[r].draft /\ req'[r].pc = p
      /\ \A q \in Requests \ {r} : req'[q] = req[q]
  BY StateTypes DEF ReqRec
<1>2. req[r].draft \in Drafts
  BY DEF LinkInv, Links, RequestsLinked
<1>. QED
  BY <1>1, <1>2, RequestGoesOn

\* The job of a request that is to write or enqueue one has a row.
LEMMA RequestJob ==
  ASSUME LinkInv, NEW r \in Requests,
         req[r].pc \in {"s_enqueue", "s_mark_queued", "c_update", "c_remove"}
  PROVE  req[r].job \in Jobs /\ status[req[r].job] # "none"
BY DEF LinkInv, Links, RequestsLinked, FreshIds

\* No request leaves a name that names nothing.
LEMMA RequestsKeepLinks ==
  ASSUME LinkInv
  PROVE  \A r \in Requests :
         /\ \A d \in Drafts, accts \in SUBSET Accounts : ScheduleCheckDraft(r, d, accts) => Links'
         /\ \A d \in Drafts : ApproveCheck(r, d) \/ RegenerateFetch(r, d) => Links'
         /\ \A j \in Jobs : CancelCheck(r, j) => Links'
         /\ ScheduleCheckAccounts(r) \/ ScheduleInsertJob(r) \/ ScheduleEnqueue(r) => Links'
         /\ ScheduleMarkQueued(r) \/ ScheduleMarkDraft(r) => Links'
         /\ CancelUpdate(r) \/ CancelRemove(r) \/ CancelCount(r) \/ CancelRevert(r) => Links'
         /\ ApproveUpdate(r) \/ RegenerateUpdate(r) \/ EraseSubject(r) \/ RequestFails(r) => Links'
         /\ \A a \in Accounts : DisconnectAccount(r, a) => Links'
<1>0. /\ UNCHANGED <<status, target, bull, recorded>> => TablesLinked
      /\ RowsLinked
  BY DEF TablesLinked, LinkInv, Links
<1>1. ASSUME NEW r \in Requests, NEW d \in Drafts, NEW accts \in SUBSET Accounts, ScheduleCheckDraft(r, d, accts)
      PROVE  Links'
  <2>1. /\ req'[r].job = req[r].job /\ req'[r].draft = d /\ req'[r].pc = "s_accounts"
        /\ \A q \in Requests \ {r} : req'[q] = req[q]
    BY <1>1, StateTypes DEF ScheduleCheckDraft, ReqRec
  <2>. QED
    BY <1>0, <1>1, <2>1, RequestGoesOn DEF ScheduleCheckDraft
<1>2. ASSUME NEW r \in Requests, NEW d \in Drafts, ApproveCheck(r, d)
      PROVE  Links'
  <2>1. /\ req'[r].job = req[r].job /\ req'[r].draft = d /\ req'[r].pc = "a_update"
        /\ \A q \in Requests \ {r} : req'[q] = req[q]
    BY <1>2, StateTypes DEF ApproveCheck, ReqRec
  <2>. QED
    BY <1>0, <1>2, <2>1, RequestGoesOn DEF ApproveCheck
<1>3. ASSUME NEW r \in Requests, NEW d \in Drafts, RegenerateFetch(r, d)
      PROVE  Links'
  <2>1. /\ req'[r].job = req[r].job /\ req'[r].draft = d /\ req'[r].pc = "g_update"
        /\ \A q \in Requests \ {r} : req'[q] = req[q]
    BY <1>3, StateTypes DEF RegenerateFetch, ReqRec
  <2>. QED
    BY <1>0, <1>3, <2>1, RequestGoesOn DEF RegenerateFetch
<1>4. ASSUME NEW r \in Requests, NEW j \in Jobs, CancelCheck(r, j)
      PROVE  Links'
  <2>1. /\ req'[r].job = j /\ req'[r].draft = target[j].draft /\ req'[r].pc = "c_update"
        /\ \A q \in Requests \ {r} : req'[q] = req[q]
    BY <1>4, StateTypes DEF CancelCheck, ReqRec
  <2>2. status[j] # "none" /\ target[j].draft \in Drafts
    BY <1>0, <1>4 DEF CancelCheck, RowsLinked
  <2>. QED
    BY <1>0, <1>4, <2>1, <2>2, RequestGoesOn DEF CancelCheck
<1>5. ASSUME NEW r \in Requests, ScheduleCheckAccounts(r)
      PROVE  Links'
  BY <1>0, <1>5, RequestEnds, RequestMoves DEF ScheduleCheckAccounts
<1>6. ASSUME NEW r \in Requests, ScheduleInsertJob(r)
      PROVE  Links'
  <2>1. CASE Ends(r) /\ UNCHANGED rowVars
    BY Zenon, <1>0, RequestEnds, <2>1, <1>6 DEF ScheduleInsertJob
  <2>2. ASSUME NEW a \in req[r].todo, NEW j \in Jobs,
               status' = [status EXCEPT ![j] = "pending"],
               target' = [target EXCEPT ![j] = [draft |-> req[r].draft, account |-> a]],
               req' = [req EXCEPT ![r] = [@ EXCEPT !.pc = "s_enqueue", !.job = j,
                                          !.todo = req[r].todo \ {a}]]
        PROVE  Links'
    <3>0. FreshIds /\ RunsLinked /\ RequestsLinked
      BY DEF LinkInv, Links
    <3>1. a \in Accounts /\ req[r].draft \in Drafts
      BY Zenon, <3>0, StateTypes, <1>6 DEF ScheduleInsertJob, RequestsLinked, ReqRec
    <3>2. RowsLinked'
      BY <1>0, <3>1, <2>2 DEF RowsLinked, LinkInv, TypeOK
    <3>3. \A k \in Jobs : status'[k] = "none" => status[k] = "none" /\ k # j
      BY <2>2 DEF LinkInv, TypeOK
    <3>4. \A q \in Requests : IF q = r THEN req'[q].job = j /\ req'[q].draft = req[r].draft
                                            /\ req'[q].pc = "s_enqueue"
                              ELSE req'[q] = req[q]
      BY StateTypes, <2>2 DEF ReqRec
    <3>5. UNCHANGED <<bull, recorded, worker>>
      BY Zenon, <1>6 DEF ScheduleInsertJob
    <3>6. FreshIds'
      BY <3>0, <3>3, <3>4, <3>5 DEF FreshIds
    <3>7. RunsLinked' /\ RequestsLinked'
      BY <3>0, <3>1, <3>4, <3>5 DEF RunsLinked, RequestsLinked, Working
    <3>. QED
      BY <3>2, <3>6, <3>7 DEF Links
  <2>. QED
    BY Zenon, <2>1, <2>2, <1>6 DEF ScheduleInsertJob
<1>7. ASSUME NEW r \in Requests, ScheduleEnqueue(r)
      PROVE  Links'
  <2>1. req[r].job \in Jobs /\ status[req[r].job] # "none"
    BY <1>7, RequestJob DEF ScheduleEnqueue
  <2>2. TablesLinked
    BY <1>7, <2>1, BullLinks DEF ScheduleEnqueue, TablesLinked
  <2>. QED
    BY <1>7, <2>1, <2>2, RequestMoves DEF ScheduleEnqueue
<1>8. ASSUME NEW r \in Requests, ScheduleMarkQueued(r)
      PROVE  Links'
  <2>1. req[r].job \in Jobs
    BY <1>8, RequestJob DEF ScheduleMarkQueued
  <2>2. TablesLinked
    BY <1>8, <2>1, SetRowLinks, ReopenedLinks DEF ScheduleMarkQueued, TablesLinked
  <2>. QED
    BY <1>8, <2>1, <2>2, RequestMoves DEF ScheduleMarkQueued
<1>9. ASSUME NEW r \in Requests, ScheduleMarkDraft(r)
      PROVE  Links'
  BY <1>0, <1>9, RequestEnds DEF ScheduleMarkDraft
<1>10. ASSUME NEW r \in Requests, CancelUpdate(r)
      PROVE  Links'
  <2>1. req[r].job \in Jobs
    BY <1>10, RequestJob DEF CancelUpdate
  <2>2. TablesLinked
    BY <1>10, <2>1, SetRowLinks DEF CancelUpdate, TablesLinked
  <2>. QED
    BY <1>10, <2>1, <2>2, RequestMoves DEF CancelUpdate
<1>11. ASSUME NEW r \in Requests, CancelRemove(r)
      PROVE  Links'
  <2>1. req[r].job \in Jobs /\ status[req[r].job] # "none"
    BY <1>11, RequestJob DEF CancelRemove
  <2>2. TablesLinked
    BY <1>11, <2>1, BullLinks DEF CancelRemove, TablesLinked
  <2>. QED
    BY <1>11, <2>1, <2>2, RequestMoves DEF CancelRemove
<1>12. ASSUME NEW r \in Requests, CancelCount(r)
      PROVE  Links'
  BY <1>0, <1>12, RequestEnds, RequestMoves DEF CancelCount
<1>13. ASSUME NEW r \in Requests, CancelRevert(r) \/ ApproveUpdate(r) \/ RegenerateUpdate(r) \/ RequestFails(r)
      PROVE  Links'
  BY <1>0, <1>13, RequestEnds DEF CancelRevert, ApproveUpdate, RegenerateUpdate, RequestFails
<1>14. ASSUME NEW r \in Requests, EraseSubject(r)
      PROVE  Links'
  <2>1. TablesLinked
    BY <1>14 DEF EraseSubject, TablesLinked
  <2>. QED
    BY <1>14, <2>1, RequestEnds DEF EraseSubject
<1>15. ASSUME NEW r \in Requests, NEW a \in Accounts, DisconnectAccount(r, a)
      PROVE  Links'
  BY <1>0, <1>15, RequestEnds DEF DisconnectAccount
<1>. QED
  BY <1>1, <1>2, <1>3, <1>4, <1>5, <1>6, <1>7, <1>8, <1>9, <1>10, <1>11, <1>12, <1>13, <1>14, <1>15

\* The job of a run in progress has a row.
LEMMA RunJob ==
  ASSUME LinkInv, NEW w \in Workers, worker[w].pc # "idle"
  PROVE  worker[w].job \in Jobs /\ status[worker[w].job] # "none"
BY RunTypes DEF Working

\* No run of the worker leaves a name that names nothing.
LEMMA RunsKeepLinks ==
  ASSUME LinkInv
  PROVE  \A w \in Workers :
         /\ \A j \in Jobs : Take(w, j) => Links'
         /\ RunStep(w) \/ CallFails(w) \/ Crash(w) => Links'
<1>0. UNCHANGED <<status, target, bull, recorded>> => TablesLinked
  BY DEF TablesLinked
<1>1. ASSUME NEW w \in Workers, NEW j \in Jobs, Take(w, j)
      PROVE  Links'
  <2>0. RowsLinked /\ FreshIds /\ RunsLinked /\ RequestsLinked
    BY DEF LinkInv, Links
  <2>1. /\ worker'[w].job = j /\ \A v \in Workers \ {w} : worker'[v] = worker[v]
        /\ UNCHANGED <<status, target, recorded, req>>
    BY <1>1, StateTypes DEF Take, IdleWorker
  <2>2. status[j] # "none"
    BY <1>1, <2>0 DEF Take, FreshIds
  <2>3. \A k \in Jobs : status[k] = "none" => bull'[k] = bull[k]
    BY <1>1, <2>2, BullLinks DEF Take
  <2>4. RowsLinked' /\ RequestsLinked'
    BY <2>0, <2>1 DEF RowsLinked, RequestsLinked
  <2>5. FreshIds' /\ RunsLinked'
    BY <2>0, <2>1, <2>2, <2>3 DEF FreshIds, RunsLinked, Working
  <2>. QED
    BY <2>4, <2>5 DEF Links
<1>2. ASSUME NEW w \in Workers, FetchJob(w) \/ FetchAccount(w) \/ MarkPublished(w) 
               \/ AuditLog(w) \/ ReleaseGet(w) \/ ReleaseDel(w)
      PROVE  Links'
  <2>1. /\ worker[w].pc # "idle" /\ UNCHANGED <<status, target, bull, recorded, req>>
        /\ (\E p : worker' = [worker EXCEPT ![w].pc = p]) \/ \E b : Fail(w, b)
    BY <1>2
    DEF FetchJob, FetchAccount, MarkPublished, AuditLog, ReleaseGet, ReleaseDel
  <2>. QED
    BY <1>0, <2>1, PcKeepsJob, FailKeepsJob, RunGoesOn
<1>3. ASSUME NEW w \in Workers, AcquireSlot(w)
      PROVE  Links'
  <2>1. worker'[w].job = worker[w].job /\ \A v \in Workers \ {w} : worker'[v] = worker[v]
    <3>1. CASE Fail(w, TRUE)
      BY <3>1, FailKeepsJob
    <3>2. CASE \E s \in Slots : worker' = [worker EXCEPT ![w] = [@ EXCEPT !.pc = "mark_processing", !.slot = s]]
      BY <3>2, StateTypes DEF WorkerRec
    <3>3. CASE \E n : worker' = [worker EXCEPT ![w] = [@ EXCEPT !.pc = "acquire", !.count = n]]
      BY <3>3, StateTypes DEF WorkerRec
    <3>. QED
      BY Zenon, <3>1, <3>2, <3>3, <1>3 DEF AcquireSlot
  <2>. QED
    BY <1>0, <2>1, RunGoesOn, <1>3 DEF AcquireSlot
<1>4. ASSUME NEW w \in Workers, MarkProcessing(w)
      PROVE  Links'
  <2>1. worker[w].pc # "idle" /\ worker[w].job \in Jobs
    BY <1>4, RunJob DEF MarkProcessing
  <2>2. TablesLinked
    BY <1>4, <2>1, SetRowLinks, ReopenedLinks DEF MarkProcessing, TablesLinked
  <2>. QED
    BY <1>4, <2>1, <2>2, PcKeepsJob, RunGoesOn DEF MarkProcessing
<1>5. ASSUME NEW w \in Workers, FetchDraft(w)
      PROVE  Links'
  <2>1. worker'[w].job = worker[w].job /\ \A v \in Workers \ {w} : worker'[v] = worker[v]
    <3>1. CASE Fail(w, FALSE)
      BY <3>1, FailKeepsJob
    <3>2. CASE \E t : worker' = [worker EXCEPT ![w] = [@ EXCEPT !.pc = "fetch_account", !.text = t]]
      BY <3>2, StateTypes DEF WorkerRec
    <3>. QED
      BY Zenon, <3>1, <3>2, <1>5 DEF FetchDraft
  <2>. QED
    BY <1>0, <2>1, RunGoesOn, <1>5 DEF FetchDraft
<1>6. ASSUME NEW w \in Workers, Dispatch(w)
      PROVE  Links'
  <2>1. worker'[w].job = worker[w].job /\ \A v \in Workers \ {w} : worker'[v] = worker[v]
    <3>1. CASE \E b \in BOOLEAN : Fail(w, b)
      BY <3>1, FailKeepsJob
    <3>2. CASE worker' = [worker EXCEPT ![w] = [@ EXCEPT !.pc = "mark_done", !.posted = TRUE]]
      BY <3>2, StateTypes DEF WorkerRec
    <3>. QED
      BY <3>1, <3>2, <1>6 DEF Dispatch
  <2>. QED
    BY <1>0, <2>1, RunGoesOn, <1>6 DEF Dispatch
<1>7. ASSUME NEW w \in Workers, MarkDone(w)
      PROVE  Links'
  <2>1. /\ worker[w].pc # "idle" /\ worker[w].job \in Jobs
        /\ status[worker[w].job] # "none"
    BY <1>7, RunJob DEF MarkDone
  <2>2. \A k \in Jobs : status[k] = "none" => recorded'[k] = recorded[k]
    BY <1>7, <2>1 DEF MarkDone, LinkInv, TypeOK
  <2>3. TablesLinked
    BY <1>7, <2>1, <2>2, SetRowLinks DEF MarkDone, TablesLinked
  <2>. QED
    BY <1>7, <2>1, <2>3, PcKeepsJob, RunGoesOn DEF MarkDone
<1>8. ASSUME NEW w \in Workers, CatchRead(w)
      PROVE  Links'
  <2>1. worker'[w].job = worker[w].job /\ \A v \in Workers \ {w} : worker'[v] = worker[v]
    BY <1>8, StateTypes DEF CatchRead, WorkerRec
  <2>. QED
    BY <1>0, <2>1, RunGoesOn, <1>8 DEF CatchRead
<1>9. ASSUME NEW w \in Workers, CatchWrite(w)
      PROVE  Links'
  <2>1. worker[w].pc # "idle" /\ worker[w].job \in Jobs
    BY <1>9, RunJob DEF CatchWrite
  <2>2. worker'[w].job = worker[w].job /\ \A v \in Workers \ {w} : worker'[v] = worker[v]
    BY <1>9, StateTypes DEF CatchWrite, WorkerRec
  <2>3. \A k \in Jobs : recorded'[k] => recorded[k]
    BY <1>9, <2>1, ReopenedLinks DEF CatchWrite
  <2>4. \A k \in Jobs : (status'[k] = "none") <=> (status[k] = "none")
    <3>1. \E s : s # "none" /\ SetRow(worker[w].job, s)
      BY <1>9 DEF CatchWrite
    <3>. QED
      BY <3>1, <2>1, SetRowLinks
  <2>5. TablesLinked
    BY <1>9, <2>3, <2>4 DEF CatchWrite, TablesLinked
  <2>. QED
    BY <1>9, <2>1, <2>2, <2>5, RunGoesOn DEF CatchWrite
<1>10. ASSUME NEW w \in Workers, Finish(w)
      PROVE  Links'
  <2>1. worker[w].job \in Jobs /\ status[worker[w].job] # "none"
    BY <1>10, RunJob DEF Finish
  <2>2. \A k \in Jobs : status[k] = "none" => bull'[k] = bull[k]
    <3>1. UNCHANGED bull \/ \E b : bull' = [bull EXCEPT ![worker[w].job] = b]
      BY <1>10 DEF Finish
    <3>. QED
      BY <3>1, <2>1, BullLinks
  <2>3. TablesLinked /\ UNCHANGED req
    BY <1>10, <2>2 DEF Finish, TablesLinked
  <2>4. worker'[w] = IdleWorker /\ \A v \in Workers \ {w} : worker'[v] = worker[v]
    BY <1>10, StateTypes DEF Finish
  <2>. QED
    BY <2>3, <2>4, RunsMoveOn DEF Working
<1>11. ASSUME NEW w \in Workers, CallFails(w)
      PROVE  Links'
  <2>1. worker[w].pc # "idle"
    BY <1>11 DEF CallFails, InTry
  <2>2. worker'[w].job = worker[w].job /\ \A v \in Workers \ {w} : worker'[v] = worker[v]
    <3>1. CASE Fail(w, TRUE)
      BY <3>1, FailKeepsJob
    <3>2. CASE worker' = [worker EXCEPT ![w] = [@ EXCEPT !.pc = "finish", !.throws = TRUE]]
      BY <3>2, StateTypes DEF WorkerRec
    <3>3. CASE worker' = [worker EXCEPT ![w] = [@ EXCEPT !.pc = "catch_write", !.count = 0]]
      BY <3>3, StateTypes DEF WorkerRec
    <3>4. CASE worker' = [worker EXCEPT ![w] = [@ EXCEPT !.pc = Leaving(w), !.throws = Requeues(w)]]
      BY <3>4, StateTypes DEF WorkerRec
    <3>5. CASE worker' = [worker EXCEPT ![w].pc = "finish"]
      BY <3>5, PcKeepsJob
    <3>. QED
      BY <3>1, <3>2, <3>3, <3>4, <3>5, <1>11 DEF CallFails
  <2>. QED
    BY <1>0, <2>1, <2>2, RunGoesOn, <1>11 DEF CallFails
<1>12. ASSUME NEW w \in Workers, Crash(w)
      PROVE  Links'
  <2>1. worker'[w] = IdleWorker /\ \A v \in Workers \ {w} : worker'[v] = worker[v]
    BY <1>12, StateTypes DEF Crash
  <2>. QED
    BY <1>0, <2>1, RunsMoveOn, <1>12 DEF Crash, Working
<1>. QED
  BY <1>1, <1>2, <1>3, <1>4, <1>5, <1>6, <1>7, <1>8, <1>9, <1>10, <1>11, <1>12 DEF RunStep

\* No step leaves a name that names nothing.
LEMMA LinksKept ==
  ASSUME LinkInv, Next
  PROVE  Links'
<1>1. CASE ApiStep
  BY <1>1, RequestsKeepLinks DEF ApiStep
<1>2. CASE WorkerStep
  BY <1>2, RunsKeepLinks DEF WorkerStep
<1>3. ASSUME NEW j \in Jobs, StalledCheck(j)
      PROVE  Links'
  <2>1. status[j] # "none"
    BY <1>3 DEF StalledCheck, LinkInv, Links, FreshIds
  <2>2. TablesLinked /\ UNCHANGED <<req, worker>>
    BY <1>3, <2>1, BullLinks DEF StalledCheck, TablesLinked
  <2>. QED
    BY <2>2, RunsMoveOn DEF Working
<1>4. ASSUME UNCHANGED <<status, target, bull, recorded, worker, req>>
      PROVE  Links'
  BY <1>4, RunsMoveOn DEF TablesLinked, Working
<1>. QED
  BY <1>1, <1>2, <1>3, <1>4, RunsKeepLinks, RequestsKeepLinks
  DEF Next, FaultStep, SlotExpires, TokenExpires
-----------------------------------------------------------------------------
(* The inductive invariant and type correctness *)

\* The pipeline starts typed and linked.
LEMMA LinkInit == Init => LinkInv
<1>. SUFFICES ASSUME Init PROVE LinkInv
  OBVIOUS
<1>1. 0 \in Versions
  BY ConstantsAssumption DEF Versions
<1>2. worker \in [Workers -> WorkerRec] /\ req \in [Requests -> ReqRec]
  BY Zenon, FreshRecords DEF Init
<1>3. TypeOK
  BY <1>1, <1>2 DEF Init, TypeOK, DraftStatus, RowStatus, BullState
<1>4. Links
  BY ConstantsAssumption
  DEF Init, Links, RowsLinked, FreshIds, RunsLinked, RequestsLinked, Working, IdleWorker, IdleReq
<1>. QED
  BY <1>3, <1>4 DEF LinkInv

\* Every step of the pipeline keeps the tables, the local records and the links.
LEMMA LinkStep == LinkInv /\ [Next]_vars => LinkInv'
<1>. SUFFICES ASSUME LinkInv, [Next]_vars PROVE LinkInv'
  OBVIOUS
<1>1. CASE Next
  <2>1. worker' \in [Workers -> WorkerRec] /\ req' \in [Requests -> ReqRec]
    BY <1>1, WorkersTyped, RequestsTyped
  <2>2. TypeOK'
    BY <1>1, <2>1, TablesKept DEF TypeOK, TablesTyped
  <2>. QED
    BY <1>1, <2>2, LinksKept DEF LinkInv
<1>2. CASE UNCHANGED vars
  BY <1>2 DEF vars, LinkInv, TypeOK, Links, RowsLinked, FreshIds, RunsLinked, RequestsLinked,
              Working
<1>. QED
  BY <1>1, <1>2

\* In every reachable state the rows, the queue, the slots and the local states are typed
\* and every name a row, a run or a request holds is the name of something.
THEOREM LinksHold == Spec => []LinkInv
BY LinkInit, LinkStep, PTL DEF Spec

\* publish_jobs never holds a status outside its CHECK constraint, and no counter, slot or
\* local record of a run leaves its domain.
THEOREM TypeCorrect == Spec => []TypeOK
<1>1. LinkInv => TypeOK
  BY DEF LinkInv
<1>. QED
  BY LinksHold, <1>1, PTL
=============================================================================
