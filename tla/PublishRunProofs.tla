--------------------------- MODULE PublishRunProofs ---------------------------
(***************************************************************************)
(* What one run of processPublishJob guarantees, for every value of the    *)
(* constants of PublishPipeline: the editorial guard keeps refused texts   *)
(* from the platforms, the guard on the row's status keeps a job that was  *)
(* cancelled in time from them, and without a fault a run holds a          *)
(* semaphore key of its own, gives it back, and leaves a row that agrees   *)
(* with what it reports to the queue; and each post of a job beyond the    *)
(* first costs a fault.                                                    *)
(***************************************************************************)
EXTENDS PublishPipelineProofs, FiniteSetTheorems

\* a run that is about to dispatch has had its text looked at
CheckedText == \A w \in Workers : worker[w].pc = "dispatch" => worker[w].text \notin LeakyVersions
LeakInv == CheckedText /\ NoLeakReachesPlatform

\* A job cancelled in time has a row no run gets past, no run that is past it, and no
\* request that will put it back.
WithdrawnInv ==
  \A j \in withdrawn :
    /\ status[j] \in {"cancelled", "deleted"}
    /\ \A w \in Workers : worker[w].job = j => worker[w].pc \in {"idle", "fetch_job", "finish"}
    /\ \A r \in Requests : req[r].job = j => req[r].pc \notin {"s_enqueue", "s_mark_queued"}

USE DEF draftVars, accountVars, rowVars, queueVars, history
-----------------------------------------------------------------------------
(* The editorial guard *)

\* A step that takes no run to a dispatch and sends nothing keeps the texts checked.
LEMMA QuietText ==
  ASSUME LeakInv, NEW w \in Workers, worker'[w].pc # "dispatch",
         \A v \in Workers \ {w} : worker'[v] = worker[v], UNCHANGED sentTexts
  PROVE  LeakInv'
BY DEF LeakInv, CheckedText, NoLeakReachesPlatform

\* Only the guard's success leads to a dispatch, and only a dispatch sends a text.
LEMMA LeakStep == LinkInv /\ LeakInv /\ [Next]_vars => LeakInv'
<1>. SUFFICES ASSUME LinkInv, LeakInv, [Next]_vars PROVE LeakInv'
  OBVIOUS
<1>1. ASSUME NEW w \in Workers, NEW p, MovesTo(w, p), p # "dispatch", UNCHANGED sentTexts
      PROVE  LeakInv'
  BY <1>1, QuietText DEF MovesTo, GoesTo
<1>2. ASSUME NEW w \in Workers, FetchAccount(w)
      PROVE  LeakInv'
  <2>1. CASE \E b \in BOOLEAN : Fail(w, b)
    <3>1. MovesTo(w, "catch_read")
      BY Zenon, <2>1, FieldMoves DEF Fail
    <3>. QED
      BY <3>1, <1>1, <1>2 DEF FetchAccount
  <2>2. CASE ~Refused(w) /\ worker' = [worker EXCEPT ![w].pc = "dispatch"]
    <3>1. /\ worker'[w].text = worker[w].text /\ worker[w].text \notin LeakyVersions
          /\ \A v \in Workers \ {w} : worker'[v] = worker[v]
      BY <2>2, StateTypes DEF Refused, WorkerRec
    <3>. QED
      BY <3>1, <1>2 DEF FetchAccount, LeakInv, CheckedText, NoLeakReachesPlatform
  <2>. QED
    BY <2>1, <2>2, <1>2 DEF FetchAccount
<1>3. ASSUME NEW w \in Workers, Dispatch(w)
      PROVE  LeakInv'
  <2>1. GoesTo(w, "mark_done") \/ GoesTo(w, "catch_read")
    <3>1. \A b : Fail(w, b) => GoesTo(w, "catch_read")
      BY Zenon, FieldMoves DEF Fail, MovesTo
    <3>2. worker' = [worker EXCEPT ![w] = [@ EXCEPT !.pc = "mark_done", !.posted = TRUE]]
            => GoesTo(w, "mark_done")
      BY Zenon, FieldMoves
    <3>. QED
      BY <1>3, <3>1, <3>2 DEF Dispatch
  <2>2. worker[w].text \notin LeakyVersions /\ sentTexts' = sentTexts \cup {worker[w].text}
    BY <1>3 DEF Dispatch, LeakInv, CheckedText
  <2>3. NoLeakReachesPlatform'
    BY <2>2 DEF LeakInv, NoLeakReachesPlatform
  <2>4. CheckedText'
    BY <2>1 DEF GoesTo, LeakInv, CheckedText
  <2>. QED
    BY <2>3, <2>4 DEF LeakInv
<1>4. ASSUME NEW w \in Workers,
             \/ FetchJob(w) \/ AcquireSlot(w) \/ MarkProcessing(w) \/ FetchDraft(w)
             \/ MarkDone(w) \/ MarkPublished(w) \/ AuditLog(w)
      PROVE  LeakInv'
  <2>1. PICK p : MovesTo(w, p) /\ p # "dispatch"
    BY <1>4, RunsGoOn
  <2>2. UNCHANGED sentTexts
    BY <1>4 DEF FetchJob, AcquireSlot, MarkProcessing, FetchDraft, MarkDone, MarkPublished, AuditLog
  <2>. QED
    BY <1>1, <2>1, <2>2
<1>5. ASSUME NEW w \in Workers,
             \/ CatchRead(w) \/ CatchWrite(w) \/ ReleaseGet(w) \/ ReleaseDel(w) \/ CallFails(w)
      PROVE  LeakInv'
  <2>1. PICK p : MovesTo(w, p) /\ p # "dispatch"
    BY <1>5, RunsGoOn
  <2>2. UNCHANGED sentTexts
    BY <1>5 DEF CatchRead, CatchWrite, ReleaseGet, ReleaseDel, CallFails
  <2>. QED
    BY <1>1, <2>1, <2>2
<1>6. ASSUME NEW w \in Workers, Finish(w) \/ Crash(w) \/ \E j \in Jobs : Take(w, j)
      PROVE  LeakInv'
  <2>1. /\ worker'[w].pc # "dispatch" /\ \A v \in Workers \ {w} : worker'[v] = worker[v]
        /\ UNCHANGED sentTexts
    <3>1. CASE Finish(w)
      BY <3>1, StateTypes DEF Finish, IdleWorker
    <3>2. CASE Crash(w)
      BY <3>2, StateTypes DEF Crash, IdleWorker
    <3>3. ASSUME NEW j \in Jobs, Take(w, j)
          PROVE  /\ worker'[w].pc # "dispatch" /\ \A v \in Workers \ {w} : worker'[v] = worker[v]
                 /\ UNCHANGED sentTexts
      BY <3>3, StateTypes DEF Take, IdleWorker
    <3>. QED
      BY <1>6, <3>1, <3>2, <3>3
  <2>. QED
    BY <2>1, QuietText
<1>7. ASSUME UNCHANGED <<worker, sentTexts>>
      PROVE  LeakInv'
  BY <1>7 DEF LeakInv, CheckedText, NoLeakReachesPlatform
<1>8. CASE ApiStep
  BY Zenon, <1>7, <1>8
  DEF ApiStep, ScheduleCheckDraft, ScheduleCheckAccounts, ScheduleInsertJob, ScheduleEnqueue, ScheduleMarkQueued, ScheduleMarkDraft, CancelCheck, CancelUpdate, CancelRemove, CancelCount, CancelRevert, ApproveCheck, ApproveUpdate, RegenerateFetch, RegenerateUpdate, DisconnectAccount, EraseSubject
<1>. QED
  BY <1>2, <1>3, <1>4, <1>5, <1>6, <1>7, <1>8
  DEF Next, WorkerStep, RunStep, FaultStep, StalledCheck, SlotExpires, TokenExpires, RequestFails, vars

\* Whatever is regenerated, approved, cancelled or retried meanwhile, the text a run hands to
\* a platform is one the editorial guard has let through.
THEOREM NoLeak == Spec => []NoLeakReachesPlatform
<1>1. Init => LeakInv
  BY DEF Init, LeakInv, CheckedText, NoLeakReachesPlatform, IdleWorker
<1>2. LeakInv => NoLeakReachesPlatform
  BY DEF LeakInv
<1>. QED
  BY <1>1, <1>2, LinksHold, LeakStep, PTL DEF Spec
-----------------------------------------------------------------------------
(* The guard on the row *)

\* A run that moves on, and writes no withdrawn row, keeps the withdrawn jobs out.
LEMMA QuietWithdrawn ==
  ASSUME WithdrawnInv, NEW w \in Workers, NEW p, GoesTo(w, p),
         p = "finish" \/ worker[w].job \notin withdrawn,
         \A j \in withdrawn : status'[j] = status[j], UNCHANGED <<withdrawn, req>>
  PROVE  WithdrawnInv'
BY DEF WithdrawnInv, GoesTo

\* So does a request that is not about to put a job in the queue.
LEMMA QuietWithdrawal ==
  ASSUME WithdrawnInv, NEW r \in Requests, GoesOn(r),
         \A j \in withdrawn : status'[j] \in {"cancelled", "deleted"},
         UNCHANGED <<withdrawn, worker>>
  PROVE  WithdrawnInv'
BY DEF WithdrawnInv, GoesOn

\* A run past the guard is on a job that was not withdrawn, so the row it writes is not
\* a withdrawn one.
LEMMA RunsElsewhere ==
  ASSUME TypeOK, WithdrawnInv, NEW w \in Workers,
         worker[w].pc \notin {"idle", "fetch_job", "finish"}
  PROVE  /\ worker[w].job \notin withdrawn
         /\ \A s : SetRow(worker[w].job, s) => \A j \in withdrawn : status'[j] = status[j]
<1>1. worker[w].job \notin withdrawn
  BY DEF WithdrawnInv
<1>2. ASSUME NEW s, SetRow(worker[w].job, s), NEW j \in withdrawn
      PROVE  status'[j] = status[j]
  BY <1>1, <1>2 DEF TypeOK, SetRow
<1>. QED
  BY <1>1, <1>2

\* No request, run or fault brings a withdrawn job back.
LEMMA WithdrawnStep == LinkInv /\ WithdrawnInv /\ [Next]_vars => WithdrawnInv'
<1>. SUFFICES ASSUME LinkInv, WithdrawnInv, [Next]_vars PROVE WithdrawnInv'
  OBVIOUS
<1>0. TypeOK /\ RequestsLinked /\ withdrawn \subseteq Jobs
  BY DEF LinkInv, Links, TypeOK
<1>1. ASSUME NEW r \in Requests, ScheduleInsertJob(r)
      PROVE  WithdrawnInv'
  <2>1. UNCHANGED <<withdrawn, worker>>
    BY Zenon, <1>1 DEF ScheduleInsertJob
  <2>2. CASE Ends(r) /\ UNCHANGED rowVars
    <3>1. GoesOn(r)
      BY <2>2, StateTypes DEF Ends, GoesOn, IdleReq
    <3>. QED
      BY <2>1, <2>2, <3>1, QuietWithdrawal DEF WithdrawnInv
  <2>3. ASSUME NEW a \in req[r].todo, NEW j \in Jobs, status[j] = "none",
               status' = [status EXCEPT ![j] = "pending"],
               req' = [req EXCEPT ![r] = [@ EXCEPT !.pc = "s_enqueue", !.job = j,
                                          !.todo = req[r].todo \ {a}]]
        PROVE  WithdrawnInv'
    <3>1. /\ req'[r].job = j
          /\ \A q \in Requests \ {r} : req'[q] = req[q]
      BY StateTypes, <2>3 DEF ReqRec
    <3>2. j \notin withdrawn /\ \A k \in withdrawn : status'[k] = status[k]
      BY <1>0, <2>3 DEF WithdrawnInv, TypeOK
    <3>. QED
      BY <2>1, <3>1, <3>2 DEF WithdrawnInv
  <2>. QED
    BY Zenon, <2>2, <2>3, <1>1 DEF ScheduleInsertJob
<1>2. ASSUME NEW r \in Requests, ScheduleEnqueue(r)
      PROVE  WithdrawnInv'
  <2>1. /\ req[r].job \notin withdrawn /\ req'[r].job = req[r].job
        /\ \A q \in Requests \ {r} : req'[q] = req[q]
    BY <1>2, StateTypes DEF ScheduleEnqueue, WithdrawnInv, ReqRec
  <2>. QED
    BY <2>1, <1>2 DEF ScheduleEnqueue, WithdrawnInv
<1>3. ASSUME NEW r \in Requests, ScheduleMarkQueued(r)
      PROVE  WithdrawnInv'
  <2>1. req[r].job \notin withdrawn
    BY <1>3 DEF ScheduleMarkQueued, WithdrawnInv
  <2>2. \A j \in withdrawn : status'[j] = status[j]
    BY <1>0, <2>1, <1>3 DEF ScheduleMarkQueued, SetRow, TypeOK
  <2>. QED
    BY <2>2, <1>3, RequestsGoOn, QuietWithdrawal DEF ScheduleMarkQueued, WithdrawnInv
<1>4. ASSUME NEW r \in Requests, CancelUpdate(r)
      PROVE  WithdrawnInv'
  <2>. DEFINE j == req[r].job
  <2>1. j \in Jobs /\ SetRow(j, "cancelled") /\ UNCHANGED worker
    BY <1>0, <1>4 DEF RequestsLinked, CancelUpdate
  <2>2. /\ InTable(j) => status'[j] = "cancelled"
        /\ \A k \in Jobs \ {j} : status'[k] = status[k]
        /\ ~InTable(j) => status'[j] = status[j]
    BY <1>0, <2>1 DEF SetRow, TypeOK
  <2>3. GoesOn(r) /\ req'[r].job = j
    BY <1>4, RequestsGoOn, StateTypes DEF CancelUpdate, ReqRec
  <2>4. \A k \in withdrawn : status'[k] \in {"cancelled", "deleted"}
    BY <1>0, <2>2 DEF WithdrawnInv
  <2>5. \/ withdrawn' = withdrawn
        \/ InTable(j) /\ ~InUse(j) /\ withdrawn' = withdrawn \cup {j}
    BY <1>4 DEF CancelUpdate
  <2>6. CASE withdrawn' = withdrawn
    BY <2>1, <2>3, <2>4, <2>6, QuietWithdrawal
  <2>7. CASE InTable(j) /\ ~InUse(j) /\ withdrawn' = withdrawn \cup {j}
    <3>1. /\ \A w \in Workers : worker[w].job = j => worker[w].pc \in {"idle", "fetch_job"}
          /\ \A q \in Requests : req[q].job = j => req[q].pc \notin {"s_enqueue", "s_mark_queued"}
      BY <2>7 DEF InUse
    <3>. QED
      BY <2>1, <2>2, <2>3, <2>4, <2>7, <3>1 DEF WithdrawnInv, GoesOn
  <2>. QED
    BY <2>5, <2>6, <2>7
<1>5. ASSUME NEW r \in Requests, EraseSubject(r)
      PROVE  WithdrawnInv'
  <2>1. \A j \in withdrawn : status'[j] = "deleted"
    BY <1>0, <1>5 DEF EraseSubject, WithdrawnInv
  <2>. QED
    BY <2>1, <1>5, RequestsGoOn, QuietWithdrawal DEF EraseSubject
<1>6. ASSUME NEW r \in Requests, GoesOn(r), UNCHANGED <<status, withdrawn, worker>>
      PROVE  WithdrawnInv'
  BY <1>6, QuietWithdrawal DEF WithdrawnInv
<1>7. CASE ApiStep
  <2>1. ASSUME NEW r \in Requests, NEW d \in Drafts, NEW accts \in SUBSET Accounts,
               ScheduleCheckDraft(r, d, accts)
        PROVE  WithdrawnInv'
    BY Zenon, <2>1, <1>6, RequestsGoOn DEF ScheduleCheckDraft
  <2>2. ASSUME NEW r \in Requests, NEW d \in Drafts, ApproveCheck(r, d) \/ RegenerateFetch(r, d)
        PROVE  WithdrawnInv'
    BY Zenon, <2>2, <1>6, RequestsGoOn DEF ApproveCheck, RegenerateFetch
  <2>3. ASSUME NEW r \in Requests, NEW j \in Jobs, CancelCheck(r, j)
        PROVE  WithdrawnInv'
    BY Zenon, <2>3, <1>6, RequestsGoOn DEF CancelCheck
  <2>4. ASSUME NEW r \in Requests, ScheduleCheckAccounts(r) \/ ScheduleMarkDraft(r)
        PROVE  WithdrawnInv'
    BY <2>4, <1>6, RequestsGoOn DEF ScheduleCheckAccounts, ScheduleMarkDraft
  <2>5. ASSUME NEW r \in Requests, CancelRemove(r) \/ CancelCount(r) \/ CancelRevert(r)
        PROVE  WithdrawnInv'
    BY <2>5, <1>6, RequestsGoOn DEF CancelRemove, CancelCount, CancelRevert
  <2>6. ASSUME NEW r \in Requests, ApproveUpdate(r) \/ RegenerateUpdate(r)
        PROVE  WithdrawnInv'
    BY <2>6, <1>6, RequestsGoOn DEF ApproveUpdate, RegenerateUpdate
  <2>7. ASSUME NEW r \in Requests, NEW a \in Accounts, DisconnectAccount(r, a)
        PROVE  WithdrawnInv'
    BY <2>7, <1>6, RequestsGoOn DEF DisconnectAccount
  <2>. QED
    BY <1>1, <1>2, <1>3, <1>4, <1>5, <1>7, <2>1, <2>2, <2>3, <2>4, <2>5, <2>6, <2>7 DEF ApiStep
<1>8. ASSUME NEW w \in Workers, FetchJob(w)
      PROVE  WithdrawnInv'
  <2>1. CASE worker[w].job \in withdrawn
    <3>1. worker' = [worker EXCEPT ![w].pc = "finish"]
      BY <2>1, <1>8 DEF FetchJob, WithdrawnInv, InTable, TerminalRow
    <3>2. GoesTo(w, "finish")
      BY Zenon, <3>1, FieldMoves DEF MovesTo
    <3>. QED
      BY <3>2, <1>8, QuietWithdrawn DEF FetchJob
  <2>2. CASE worker[w].job \notin withdrawn
    BY <2>2, <1>8, RunsGoOn, QuietWithdrawn DEF FetchJob, MovesTo
  <2>. QED
    BY <2>1, <2>2
<1>9. ASSUME NEW w \in Workers, NEW p, GoesTo(w, p),
             worker[w].pc \notin {"idle", "fetch_job", "finish"},
             status' = status \/ \E s : SetRow(worker[w].job, s), UNCHANGED <<withdrawn, req>>
      PROVE  WithdrawnInv'
  BY <1>0, <1>9, RunsElsewhere, QuietWithdrawn
<1>10. ASSUME NEW w \in Workers,
              \/ AcquireSlot(w) \/ MarkProcessing(w) \/ FetchDraft(w) \/ FetchAccount(w)
              \/ MarkDone(w) \/ MarkPublished(w) \/ AuditLog(w)
       PROVE  WithdrawnInv'
  <2>1. PICK p : GoesTo(w, p)
    BY <1>10, RunsGoOn DEF MovesTo
  <2>2. /\ worker[w].pc \notin {"idle", "fetch_job", "finish"}
        /\ status' = status \/ \E s : SetRow(worker[w].job, s)
        /\ UNCHANGED <<withdrawn, req>>
    BY <1>10 DEF AcquireSlot, MarkProcessing, FetchDraft, FetchAccount, MarkDone, MarkPublished, AuditLog
  <2>. QED
    BY <1>9, <2>1, <2>2
<1>11. ASSUME NEW w \in Workers,
              CatchRead(w) \/ CatchWrite(w) \/ ReleaseGet(w) \/ ReleaseDel(w)
       PROVE  WithdrawnInv'
  <2>1. PICK p : GoesTo(w, p)
    BY <1>11, RunsGoOn DEF MovesTo
  <2>2. /\ worker[w].pc \notin {"idle", "fetch_job", "finish"}
        /\ status' = status \/ \E s : SetRow(worker[w].job, s)
        /\ UNCHANGED <<withdrawn, req>>
    BY <1>11 DEF CatchRead, CatchWrite, ReleaseGet, ReleaseDel
  <2>. QED
    BY <1>9, <2>1, <2>2
<1>12. ASSUME NEW w \in Workers, Dispatch(w)
       PROVE  WithdrawnInv'
  <2>1. PICK p : GoesTo(w, p)
    BY Zenon, <1>12, FieldMoves DEF Dispatch, Fail, MovesTo
  <2>. QED
    BY <1>9, <1>12, <2>1 DEF Dispatch
<1>13. ASSUME NEW w \in Workers, CallFails(w)
       PROVE  WithdrawnInv'
  <2>1. UNCHANGED <<status, withdrawn, req>>
    BY <1>13 DEF CallFails
  <2>2. CASE GoesTo(w, "finish")
    BY <2>1, <2>2, QuietWithdrawn
  <2>3. CASE ~GoesTo(w, "finish")
    <3>1. worker[w].pc \notin {"idle", "fetch_job", "finish"} /\ \E p : GoesTo(w, p)
      BY Zenon, <1>13, <2>3, RunsGoOn DEF MovesTo, CallFails, InTry
    <3>. QED
      BY <1>9, <2>1, <3>1
  <2>. QED
    BY <2>2, <2>3
<1>14. ASSUME NEW w \in Workers, UNCHANGED <<status, withdrawn, req>>,
              worker'[w].pc \in {"idle", "fetch_job"},
              \A v \in Workers \ {w} : worker'[v] = worker[v]
       PROVE  WithdrawnInv'
  BY <1>14 DEF WithdrawnInv
<1>15. ASSUME NEW w \in Workers, Finish(w) \/ Crash(w)
       PROVE  WithdrawnInv'
  <2>1. worker' = [worker EXCEPT ![w] = IdleWorker] /\ UNCHANGED <<status, withdrawn, req>>
    BY <1>15 DEF Finish, Crash
  <2>. QED
    BY <2>1, <1>14, StateTypes DEF IdleWorker
<1>16. ASSUME NEW w \in Workers, NEW j \in Jobs, Take(w, j)
       PROVE  WithdrawnInv'
  BY <1>14, <1>16, StateTypes DEF Take, IdleWorker
<1>17. ASSUME UNCHANGED <<status, withdrawn, worker, req>>
       PROVE  WithdrawnInv'
  BY <1>17 DEF WithdrawnInv
<1>18. ASSUME NEW r \in Requests, RequestFails(r)
       PROVE  WithdrawnInv'
  BY <1>6, <1>18, RequestsGoOn DEF RequestFails
<1>. QED
  BY <1>7, <1>8, <1>10, <1>11, <1>12, <1>13, <1>15, <1>16, <1>17, <1>18
  DEF Next, WorkerStep, RunStep, FaultStep, StalledCheck, SlotExpires, TokenExpires, vars

\* A dispatch is of a job that was not withdrawn, and nothing else calls a platform.
LEMMA WithdrawnQuiet ==
  ASSUME LinkInv, WithdrawnInv, [Next]_vars
  PROVE  [\A j \in withdrawn : posts'[j] = posts[j] /\ (j \in called' => j \in called)]_vars
<1>0. TypeOK
  BY DEF LinkInv
<1>1. ASSUME NEW w \in Workers, Dispatch(w), NEW j \in withdrawn
      PROVE  posts'[j] = posts[j] /\ (j \in called' => j \in called)
  <2>1. j # worker[w].job
    BY <1>0, <1>1, RunsElsewhere DEF Dispatch
  <2>2. called' = called \cup {worker[w].job} /\ \E n : posts' = [posts EXCEPT ![worker[w].job] = n]
    BY <1>1 DEF Dispatch
  <2>3. posts'[j] = posts[j]
    BY <1>0, <2>1, <2>2 DEF TypeOK
  <2>. QED
    BY <2>1, <2>2, <2>3
<1>2. CASE ApiStep
  BY Zenon, <1>2
  DEF ApiStep, ScheduleCheckDraft, ScheduleCheckAccounts, ScheduleInsertJob, ScheduleEnqueue,
      ScheduleMarkQueued, ScheduleMarkDraft, CancelCheck, CancelUpdate, CancelRemove, CancelCount,
      CancelRevert, ApproveCheck, ApproveUpdate, RegenerateFetch, RegenerateUpdate,
      DisconnectAccount, EraseSubject
<1>3. CASE WorkerStep
  BY Zenon, <1>1, <1>3
  DEF WorkerStep, RunStep, Take, FetchJob, AcquireSlot, MarkProcessing, FetchDraft, FetchAccount,
      MarkDone, MarkPublished, AuditLog, CatchRead, CatchWrite, ReleaseGet, ReleaseDel, Finish
<1>4. CASE FaultStep
  BY Zenon, <1>4
  DEF FaultStep, CallFails, Crash, StalledCheck, SlotExpires, TokenExpires, RequestFails
<1>. QED
  BY <1>2, <1>3, <1>4 DEF Next, vars

\* A job cancelled while no run had read its row and no schedule request was still to mark
\* it queued never reaches a platform, however often the queue delivers it.
THEOREM Withdrawn == Spec => WithdrawnStaysWithdrawn
<1>1. Init => WithdrawnInv
  BY DEF Init, WithdrawnInv
<1>. QED
  BY <1>1, LinksHold, WithdrawnStep, WithdrawnQuiet, PTL DEF Spec, WithdrawnStaysWithdrawn
-----------------------------------------------------------------------------
(* The semaphore: a run between its acquisition and its release has a key to itself *)

\* the key a run answers for: it takes one before it works and has let go of it at the end
KeyOf(w) == IF worker[w].pc = "finish" THEN None ELSE worker[w].slot

KeyAtHand ==
  \A w \in Workers :
    /\ worker[w].pc \in {"idle", "fetch_job", "acquire"} => worker[w].slot = None
    /\ worker[w].pc \in {"release_get", "release_del"} => worker[w].slot # None

KeysHeld == \A w \in Workers : KeyOf(w) # None => slot[KeyOf(w)] = worker[w].job
KeysApart == \A v, w \in Workers : v # w /\ KeyOf(w) # None => KeyOf(v) # KeyOf(w)
KeysOwned ==
  \A s \in Slots : slot[s] # None => \E w \in Workers : KeyOf(w) = s /\ worker[w].job = slot[s]

KeysInOrder == KeysHeld /\ KeysApart /\ KeysOwned
KeyInv == faults = 0 => KeyAtHand /\ KeysInOrder

\* the run w goes on to the point p with the key it has
KeyMoves(w, p) == MovesTo(w, p) /\ worker'[w].slot = worker[w].slot

\* No step takes a fault back, so a state without one comes from a state without one, by a
\* step that is none.
LEMMA FaultsStay ==
  ASSUME LinkInv, [Next]_vars, faults' = 0
  PROVE  /\ faults = 0
         /\ \A w \in Workers : ~CallFails(w) /\ ~Crash(w)
         /\ \A s \in Slots : ~SlotExpires(s)
         /\ \A a \in Accounts : ~TokenExpires(a)
         /\ \A r \in Requests : ~RequestFails(r)
<1>0. faults \in Nat
  BY DEF LinkInv, TypeOK
<1>1. /\ \A w \in Workers : ~CallFails(w) /\ ~Crash(w)
      /\ \A s \in Slots : ~SlotExpires(s)
      /\ \A a \in Accounts : ~TokenExpires(a)
      /\ \A r \in Requests : ~RequestFails(r)
  <2>1. faults' # faults + 1
    BY <1>0
  <2>. QED
    BY Zenon, <2>1 DEF CallFails, Crash, SlotExpires, TokenExpires, RequestFails
<1>2. faults' = faults \/ faults' > faults
  <2>1. CASE ApiStep
    <3>1. \A r \in Requests : CancelRemove(r) => faults' = faults \/ faults' > faults
      BY <1>0 DEF CancelRemove
    <3>. QED
      BY Zenon, <2>1, <3>1
      DEF ApiStep, ScheduleCheckDraft, ScheduleCheckAccounts, ScheduleInsertJob, ScheduleEnqueue,
          ScheduleMarkQueued, ScheduleMarkDraft, CancelCheck, CancelUpdate, CancelCount,
          CancelRevert, ApproveCheck, ApproveUpdate, RegenerateFetch, RegenerateUpdate,
          DisconnectAccount, EraseSubject
  <2>2. CASE WorkerStep
    <3>1. \A w \in Workers : Dispatch(w) => faults' = faults \/ faults' > faults
      BY <1>0 DEF Dispatch, MaxRetries
    <3>. QED
      BY Zenon, <2>2, <3>1
      DEF WorkerStep, RunStep, Take, FetchJob, AcquireSlot, MarkProcessing, FetchDraft,
          FetchAccount, MarkDone, MarkPublished, AuditLog, CatchRead, CatchWrite, ReleaseGet,
          ReleaseDel, Finish
  <2>3. CASE FaultStep
    <3>1. \A j \in Jobs : StalledCheck(j) => faults' = faults \/ faults' > faults
      BY <1>0 DEF StalledCheck
    <3>. QED
      BY <1>1, <2>3, <3>1 DEF FaultStep
  <2>. QED
    BY <2>1, <2>2, <2>3 DEF Next, vars
<1>. QED
  BY <1>0, <1>1, <1>2

\* A run that writes its point and a field other than its key keeps the key.
LEMMA KeyStays ==
  ASSUME LinkInv, NEW w \in Workers, NEW p, NEW x
  PROVE  /\ worker' = [worker EXCEPT ![w].pc = p] => KeyMoves(w, p)
         /\ worker' = [worker EXCEPT ![w] = [@ EXCEPT !.pc = p, !.retry = x]] => KeyMoves(w, p)
         /\ worker' = [worker EXCEPT ![w] = [@ EXCEPT !.pc = p, !.text = x]] => KeyMoves(w, p)
         /\ worker' = [worker EXCEPT ![w] = [@ EXCEPT !.pc = p, !.count = x]] => KeyMoves(w, p)
         /\ worker' = [worker EXCEPT ![w] = [@ EXCEPT !.pc = p, !.throws = x]] => KeyMoves(w, p)
<1>1. worker' = [worker EXCEPT ![w].pc = p] => KeyMoves(w, p)
  BY StateTypes DEF KeyMoves, MovesTo, GoesTo, WorkerRec
<1>2. worker' = [worker EXCEPT ![w] = [@ EXCEPT !.pc = p, !.retry = x]] => KeyMoves(w, p)
  BY StateTypes DEF KeyMoves, MovesTo, GoesTo, WorkerRec
<1>3. worker' = [worker EXCEPT ![w] = [@ EXCEPT !.pc = p, !.text = x]] => KeyMoves(w, p)
  BY StateTypes DEF KeyMoves, MovesTo, GoesTo, WorkerRec
<1>4. worker' = [worker EXCEPT ![w] = [@ EXCEPT !.pc = p, !.count = x]] => KeyMoves(w, p)
  BY StateTypes DEF KeyMoves, MovesTo, GoesTo, WorkerRec
<1>5. worker' = [worker EXCEPT ![w] = [@ EXCEPT !.pc = p, !.throws = x]] => KeyMoves(w, p)
  BY StateTypes DEF KeyMoves, MovesTo, GoesTo, WorkerRec
<1>. QED
  BY <1>1, <1>2, <1>3, <1>4, <1>5

\* The semaphore is as it was when its keys are, and when every run answers for the key it
\* answered for, on the same job.
LEMMA QuietKeys ==
  ASSUME LinkInv, KeysInOrder, UNCHANGED slot,
         \A v \in Workers : KeyOf(v)' = KeyOf(v),
         \A v \in Workers : KeyOf(v) # None => worker'[v].job = worker[v].job
  PROVE  KeysInOrder'
<1>1. KeysHeld'
  BY DEF KeysInOrder, KeysHeld
<1>2. KeysApart'
  BY DEF KeysInOrder, KeysApart
<1>3. KeysOwned'
  <2>. SUFFICES ASSUME NEW s \in Slots, slot[s] # None
                PROVE  \E w \in Workers : KeyOf(w)' = s /\ worker'[w].job = slot[s]
    BY DEF KeysOwned
  <2>1. PICK w \in Workers : KeyOf(w) = s /\ worker[w].job = slot[s]
    BY DEF KeysInOrder, KeysOwned
  <2>2. s # None
    BY ConstantsAssumption
  <2>. QED
    BY <2>1, <2>2
<1>. QED
  BY <1>1, <1>2, <1>3 DEF KeysInOrder

\* A run that goes on with its key, and ends or leaves only as its key demands.
LEMMA QuietKeyRun ==
  ASSUME LinkInv, KeyAtHand, KeysInOrder, NEW w \in Workers, NEW p, KeyMoves(w, p),
         UNCHANGED slot, worker[w].pc # "finish", p \notin {"idle", "fetch_job"},
         p = "acquire" \/ p = "finish" => worker[w].slot = None,
         p \in {"release_get", "release_del"} => worker[w].slot # None
  PROVE  (KeyAtHand /\ KeysInOrder)'
<1>1. KeyAtHand'
  BY DEF KeyAtHand, KeyMoves, MovesTo, GoesTo
<1>2. \A v \in Workers : KeyOf(v)' = KeyOf(v) /\ worker'[v].job = worker[v].job
  BY DEF KeyOf, KeyMoves, MovesTo, GoesTo
<1>. QED
  BY <1>1, <1>2, QuietKeys

\* SET NX finds the key free, so nobody answers for it, and the run that gets it had none.
LEMMA AcquireKeepsKeys ==
  ASSUME LinkInv, KeyAtHand, KeysInOrder, NEW w \in Workers, AcquireSlot(w)
  PROVE  (KeyAtHand /\ KeysInOrder)'
<1>0. slot \in [Slots -> Jobs \cup {None}] /\ worker[w].pc = "acquire" /\ worker[w].slot = None
  BY DEF LinkInv, TypeOK, KeyAtHand, AcquireSlot
<1>1. CASE \E x \in Nat : /\ worker' = [worker EXCEPT ![w] = [@ EXCEPT !.pc = "acquire", !.count = x]]
                          /\ UNCHANGED slot
  <2>1. KeyMoves(w, "acquire")
    BY Zenon, <1>1, KeyStays
  <2>. QED
    BY <1>0, <1>1, <2>1, QuietKeyRun
<1>2. CASE Fail(w, TRUE) /\ UNCHANGED slot
  <2>1. KeyMoves(w, "catch_read")
    BY Zenon, <1>2, KeyStays DEF Fail
  <2>. QED
    BY <1>0, <1>2, <2>1, QuietKeyRun
<1>3. ASSUME NEW s \in Slots, slot[s] = None, slot' = [slot EXCEPT ![s] = worker[w].job],
             worker' = [worker EXCEPT ![w] = [@ EXCEPT !.pc = "mark_processing", !.slot = s]]
      PROVE  (KeyAtHand /\ KeysInOrder)'
  <2>1. /\ worker'[w].pc = "mark_processing" /\ worker'[w].slot = s
        /\ worker'[w].job = worker[w].job /\ \A v \in Workers \ {w} : worker'[v] = worker[v]
    BY <1>3, StateTypes DEF WorkerRec
  <2>2. worker[w].job \in Jobs /\ s # None /\ None \notin Jobs
    BY <1>0, RunTypes, ConstantsAssumption DEF Working
  <2>3. slot'[s] = worker[w].job /\ \A t \in Slots \ {s} : slot'[t] = slot[t]
    BY <1>0, <1>3
  <2>4. KeyOf(w) = None /\ KeyOf(w)' = s /\ \A v \in Workers \ {w} : KeyOf(v)' = KeyOf(v)
    BY <1>0, <2>1 DEF KeyOf
  <2>5. \A v \in Workers : KeyOf(v) # None => KeyOf(v) \in Slots /\ worker[v].job \in Jobs
    <3>. SUFFICES ASSUME NEW v \in Workers, KeyOf(v) # None
                  PROVE  KeyOf(v) \in Slots /\ worker[v].job \in Jobs
      OBVIOUS
    <3>1. Working(v)
      BY DEF KeyAtHand, KeyOf, Working
    <3>. QED
      BY <3>1, RunTypes DEF KeyOf
  <2>6. \A v \in Workers : KeyOf(v) # s
    BY <1>3, <2>2, <2>5 DEF KeysInOrder, KeysHeld
  <2>7. KeyAtHand'
    BY <2>1 DEF KeyAtHand
  <2>8. KeysHeld'
    <3>. SUFFICES ASSUME NEW v \in Workers, KeyOf(v)' # None
                  PROVE  slot'[KeyOf(v)'] = worker'[v].job
      BY DEF KeysHeld
    <3>1. CASE v = w
      BY <2>1, <2>3, <2>4, <3>1
    <3>2. CASE v # w
      BY <2>1, <2>3, <2>4, <2>5, <2>6, <3>2 DEF KeysInOrder, KeysHeld
    <3>. QED
      BY <3>1, <3>2
  <2>9. KeysApart'
    BY <2>4, <2>6 DEF KeysInOrder, KeysApart
  <2>10. KeysOwned'
    <3>. SUFFICES ASSUME NEW t \in Slots, slot'[t] # None
                  PROVE  \E v \in Workers : KeyOf(v)' = t /\ worker'[v].job = slot'[t]
      BY DEF KeysOwned
    <3>1. CASE t = s
      BY <2>1, <2>3, <2>4, <3>1
    <3>2. CASE t # s
      <4>1. PICK v \in Workers : KeyOf(v) = t /\ worker[v].job = slot[t]
        BY <2>3, <3>2 DEF KeysInOrder, KeysOwned
      <4>2. v # w
        BY <2>4, <4>1, ConstantsAssumption
      <4>. QED
        BY <2>1, <2>3, <2>4, <3>2, <4>1, <4>2
    <3>. QED
      BY <3>1, <3>2
  <2>. QED
    BY <2>7, <2>8, <2>9, <2>10 DEF KeysInOrder
<1>4. \A x \in Slots : x \in Nat
  BY ConstantsAssumption DEF Slots
<1>. QED
  BY <1>1, <1>2, <1>3, <1>4 DEF AcquireSlot, SetNX

\* DEL takes the run's own key and no other: no two runs answer for one key.
LEMMA ReleaseKeepsKeys ==
  ASSUME LinkInv, KeyAtHand, KeysInOrder, NEW w \in Workers, ReleaseDel(w)
  PROVE  (KeyAtHand /\ KeysInOrder)'
<1>. DEFINE s == worker[w].slot
<1>0. /\ slot \in [Slots -> Jobs \cup {None}] /\ worker[w].pc = "release_del"
      /\ s \in Slots /\ s # None /\ KeyOf(w) = s
  BY RunTypes DEF LinkInv, TypeOK, KeyAtHand, ReleaseDel, Working, KeyOf
<1>1. KeyMoves(w, "finish") /\ slot' = [slot EXCEPT ![s] = None]
  BY Zenon, KeyStays DEF ReleaseDel
<1>. HIDE DEF s
<1>2. KeyOf(w)' = None /\ \A v \in Workers \ {w} : KeyOf(v)' = KeyOf(v)
  BY <1>1 DEF KeyOf, KeyMoves, MovesTo, GoesTo
<1>3. \A v \in Workers : worker'[v].job = worker[v].job
  BY <1>1 DEF KeyMoves, MovesTo, GoesTo
<1>4. slot'[s] = None /\ \A t \in Slots \ {s} : slot'[t] = slot[t]
  BY <1>0, <1>1
<1>5. \A v \in Workers \ {w} : KeyOf(v) # s
  BY <1>0 DEF KeysInOrder, KeysApart
<1>6. KeyAtHand'
  BY <1>1 DEF KeyAtHand, KeyMoves, MovesTo, GoesTo
<1>7. KeysHeld'
  <2>. SUFFICES ASSUME NEW v \in Workers, KeyOf(v)' # None
                PROVE  slot'[KeyOf(v)'] = worker'[v].job
    BY DEF KeysHeld
  <2>1. v # w /\ KeyOf(v)' = KeyOf(v) /\ KeyOf(v) # s
    BY <1>2, <1>5
  <2>2. KeyOf(v) \in Slots
    <3>1. Working(v)
      BY <2>1 DEF KeyAtHand, KeyOf, Working
    <3>. QED
      BY <2>1, <3>1, RunTypes DEF KeyOf
  <2>. QED
    BY <1>3, <1>4, <2>1, <2>2 DEF KeysInOrder, KeysHeld
<1>8. KeysApart'
  BY <1>2 DEF KeysInOrder, KeysApart
<1>9. KeysOwned'
  <2>. SUFFICES ASSUME NEW t \in Slots, slot'[t] # None
                PROVE  \E v \in Workers : KeyOf(v)' = t /\ worker'[v].job = slot'[t]
    BY DEF KeysOwned
  <2>1. t # s /\ slot'[t] = slot[t]
    BY <1>4
  <2>2. PICK v \in Workers : KeyOf(v) = t /\ worker[v].job = slot[t]
    BY <2>1 DEF KeysInOrder, KeysOwned
  <2>3. v # w
    BY <1>0, <2>1, <2>2
  <2>. QED
    BY <1>2, <1>3, <2>1, <2>2, <2>3
<1>. QED
  BY <1>6, <1>7, <1>8, <1>9 DEF KeysInOrder


\* Every other action of a run goes on with the key, and finally gives it back before the end.
LEMMA RunKeepsKeys ==
  ASSUME LinkInv, KeyAtHand, KeysInOrder, NEW w \in Workers, RunStep(w)
  PROVE  (KeyAtHand /\ KeysInOrder)'
<1>1. ASSUME NEW p, KeyMoves(w, p), UNCHANGED slot, worker[w].pc # "finish",
             p \notin {"idle", "fetch_job", "acquire", "finish", "release_get", "release_del"}
      PROVE  (KeyAtHand /\ KeysInOrder)'
  BY <1>1, QuietKeyRun
<1>2. \A b : Fail(w, b) => KeyMoves(w, "catch_read")
  BY Zenon, KeyStays DEF Fail
<1>3. ASSUME KeyMoves(w, Leaving(w)), UNCHANGED slot, worker[w].pc # "finish"
      PROVE  (KeyAtHand /\ KeysInOrder)'
  <2>1. CASE worker[w].slot = None
    BY <1>3, <2>1, QuietKeyRun DEF Leaving
  <2>2. CASE worker[w].slot # None
    BY <1>3, <2>2, QuietKeyRun DEF Leaving
  <2>. QED
    BY <2>1, <2>2
<1>4. CASE FetchJob(w)
  <2>1. KeyMoves(w, "acquire") \/ KeyMoves(w, "finish")
    BY Zenon, <1>4, KeyStays DEF FetchJob
  <2>. QED
    BY <1>4, <2>1, QuietKeyRun DEF FetchJob, KeyAtHand
<1>5. CASE MarkProcessing(w)
  <2>1. KeyMoves(w, "fetch_draft")
    BY Zenon, <1>5, KeyStays DEF MarkProcessing
  <2>. QED
    BY <1>1, <1>5, <2>1 DEF MarkProcessing
<1>6. CASE FetchDraft(w)
  <2>1. KeyMoves(w, "fetch_account") \/ KeyMoves(w, "catch_read")
    <3>1. \A x : worker' = [worker EXCEPT ![w] = [@ EXCEPT !.pc = "fetch_account", !.text = x]]
                  => KeyMoves(w, "fetch_account")
      BY Zenon, KeyStays
    <3>. QED
      BY Zenon, <1>2, <1>6, <3>1 DEF FetchDraft
  <2>. QED
    BY <1>1, <1>6, <2>1 DEF FetchDraft
<1>7. CASE FetchAccount(w)
  <2>1. KeyMoves(w, "dispatch") \/ KeyMoves(w, "catch_read")
    BY Zenon, <1>2, <1>7, KeyStays DEF FetchAccount
  <2>. QED
    BY <1>1, <1>7, <2>1 DEF FetchAccount
<1>8. CASE Dispatch(w)
  <2>1. CASE worker' = [worker EXCEPT ![w] = [@ EXCEPT !.pc = "mark_done", !.posted = TRUE]]
    <3>1. /\ worker'[w].pc = "mark_done" /\ worker'[w].slot = worker[w].slot
          /\ worker'[w].job = worker[w].job /\ \A v \in Workers \ {w} : worker'[v] = worker[v]
      BY <2>1, StateTypes DEF WorkerRec
    <3>2. \A v \in Workers : KeyOf(v)' = KeyOf(v) /\ worker'[v].job = worker[v].job
      BY <1>8, <3>1 DEF KeyOf, Dispatch
    <3>3. KeyAtHand'
      BY <3>1 DEF KeyAtHand
    <3>. QED
      BY <1>8, <3>2, <3>3, QuietKeys DEF Dispatch
  <2>2. /\ worker[w].pc = "dispatch" /\ UNCHANGED slot
        /\ \/ worker' = [worker EXCEPT ![w] = [@ EXCEPT !.pc = "mark_done", !.posted = TRUE]]
           \/ KeyMoves(w, "catch_read")
    BY <1>2, <1>8 DEF Dispatch
  <2>. QED
    BY <1>1, <2>1, <2>2
<1>9. CASE MarkDone(w)
  <2>1. KeyMoves(w, "mark_published")
    BY Zenon, <1>9, KeyStays DEF MarkDone
  <2>. QED
    BY <1>1, <1>9, <2>1 DEF MarkDone
<1>10. CASE MarkPublished(w)
  <2>1. KeyMoves(w, "audit")
    BY Zenon, <1>10, KeyStays DEF MarkPublished
  <2>. QED
    BY <1>1, <1>10, <2>1 DEF MarkPublished
<1>11. CASE AuditLog(w)
  <2>1. KeyMoves(w, Leaving(w))
    BY Zenon, <1>11, KeyStays DEF AuditLog
  <2>. QED
    BY <1>3, <1>11, <2>1 DEF AuditLog
<1>12. CASE CatchRead(w)
  <2>1. KeyMoves(w, "catch_write")
    BY Zenon, <1>12, KeyStays DEF CatchRead
  <2>. QED
    BY <1>1, <1>12, <2>1 DEF CatchRead
<1>13. CASE CatchWrite(w)
  <2>1. KeyMoves(w, Leaving(w))
    BY Zenon, <1>13, KeyStays DEF CatchWrite
  <2>. QED
    BY <1>3, <1>13, <2>1 DEF CatchWrite
<1>14. CASE ReleaseGet(w)
  <2>1. worker[w].slot # None /\ slot[worker[w].slot] = worker[w].job
    BY <1>14 DEF ReleaseGet, KeyAtHand, KeysInOrder, KeysHeld, KeyOf
  <2>2. KeyMoves(w, "release_del")
    BY Zenon, <1>14, <2>1, KeyStays DEF ReleaseGet
  <2>. QED
    BY <1>14, <2>1, <2>2, QuietKeyRun DEF ReleaseGet
<1>15. CASE Finish(w)
  <2>1. /\ worker'[w] = IdleWorker /\ \A v \in Workers \ {w} : worker'[v] = worker[v]
    BY <1>15, StateTypes DEF Finish
  <2>2. \A v \in Workers : KeyOf(v)' = KeyOf(v)
    BY <1>15, <2>1 DEF KeyOf, Finish, IdleWorker
  <2>3. \A v \in Workers : KeyOf(v) # None => worker'[v].job = worker[v].job
    BY <1>15, <2>1 DEF KeyOf, Finish
  <2>4. KeyAtHand'
    BY <2>1 DEF KeyAtHand, IdleWorker
  <2>. QED
    BY <1>15, <2>2, <2>3, <2>4, QuietKeys DEF Finish
<1>. QED
  BY <1>4, <1>5, <1>6, <1>7, <1>8, <1>9, <1>10, <1>11, <1>12, <1>13, <1>14, <1>15,
     AcquireKeepsKeys, ReleaseKeepsKeys DEF RunStep

\* Without a fault no step breaks the order of the keys.
LEMMA KeyStep == LinkInv /\ KeyInv /\ [Next]_vars => KeyInv'
<1>. SUFFICES ASSUME LinkInv, KeyInv, [Next]_vars, faults' = 0
              PROVE  (KeyAtHand /\ KeysInOrder)'
  BY DEF KeyInv
<1>0. KeyAtHand /\ KeysInOrder
  BY FaultsStay DEF KeyInv
<1>1. ASSUME UNCHANGED <<worker, slot>>
      PROVE  (KeyAtHand /\ KeysInOrder)'
  <2>1. KeyAtHand' /\ \A v \in Workers : KeyOf(v)' = KeyOf(v) /\ worker'[v].job = worker[v].job
    BY <1>0, <1>1 DEF KeyAtHand, KeyOf
  <2>. QED
    BY <1>0, <1>1, <2>1, QuietKeys
<1>2. ASSUME NEW w \in Workers, NEW j \in Jobs, Take(w, j)
      PROVE  (KeyAtHand /\ KeysInOrder)'
  <2>1. /\ worker'[w].pc = "fetch_job" /\ worker'[w].slot = None
        /\ \A v \in Workers \ {w} : worker'[v] = worker[v]
    BY <1>2, StateTypes DEF Take, IdleWorker
  <2>2. KeyOf(w) = None /\ \A v \in Workers : KeyOf(v)' = KeyOf(v)
    BY <1>0, <1>2, <2>1 DEF Take, KeyOf, KeyAtHand
  <2>3. KeyAtHand'
    BY <1>0, <2>1 DEF KeyAtHand
  <2>. QED
    BY <1>0, <1>2, <2>1, <2>2, <2>3, QuietKeys DEF Take
<1>3. CASE ApiStep
  BY Zenon, <1>1, <1>3
  DEF ApiStep, ScheduleCheckDraft, ScheduleCheckAccounts, ScheduleInsertJob, ScheduleEnqueue,
      ScheduleMarkQueued, ScheduleMarkDraft, CancelCheck, CancelUpdate, CancelRemove, CancelCount,
      CancelRevert, ApproveCheck, ApproveUpdate, RegenerateFetch, RegenerateUpdate,
      DisconnectAccount, EraseSubject
<1>4. CASE FaultStep
  <2>1. PICK j \in Jobs : StalledCheck(j)
    BY <1>4, FaultsStay DEF FaultStep
  <2>. QED
    BY <1>1, <2>1 DEF StalledCheck
<1>. QED
  BY <1>0, <1>1, <1>2, <1>3, <1>4, RunKeepsKeys DEF Next, WorkerStep, vars

\* The order of the keys holds in every state no fault has led to.
LEMMA KeysStay == Spec => [](LinkInv /\ KeyInv)
<1>1. Init => KeyInv
  BY DEF Init, KeyInv, KeyAtHand, KeysInOrder, KeysHeld, KeysApart, KeysOwned, KeyOf, IdleWorker
<1>. QED
  BY <1>1, LinksHold, KeyStep, PTL DEF Spec

\* MAX_CONCURRENT_PER_TENANT is kept: without a fault, runs between their acquisition and
\* their release have keys of their own, so there are never more of them than keys.
THEOREM KeysAreHeld == Spec => []RunsHoldTheirKeys
<1>1. LinkInv /\ KeyInv => RunsHoldTheirKeys
  <2>. SUFFICES ASSUME KeyAtHand, KeysInOrder,
                       NEW w \in Workers, worker[w].slot # None, worker[w].pc # "finish"
                PROVE  /\ slot[worker[w].slot] = worker[w].job
                       /\ \A v \in Workers \ {w} :
                            worker[v].pc # "finish" => worker[v].slot # worker[w].slot
    BY DEF KeyInv, RunsHoldTheirKeys
  <2>1. KeyOf(w) = worker[w].slot
    BY DEF KeyOf
  <2>2. slot[worker[w].slot] = worker[w].job
    BY <2>1 DEF KeysInOrder, KeysHeld
  <2>3. ASSUME NEW v \in Workers \ {w}, worker[v].pc # "finish"
        PROVE  worker[v].slot # worker[w].slot
    BY <2>1, <2>3 DEF KeysInOrder, KeysApart, KeyOf
  <2>. QED
    BY <2>2, <2>3
<1>. QED
  BY <1>1, KeysStay, PTL

\* No way through processPublishJob leaves a semaphore key behind: without a fault a key that
\* is held belongs to a run in progress, which will give it back.
THEOREM KeysAreGivenBack == Spec => []NoSlotLeaks
<1>1. LinkInv /\ KeyInv => NoSlotLeaks
  <2>. SUFFICES ASSUME KeyAtHand, KeysInOrder, NEW s \in Slots, slot[s] # None
                PROVE  \E w \in Workers :
                         Working(w) /\ worker[w].slot = s /\ worker[w].job = slot[s]
    BY DEF KeyInv, NoSlotLeaks
  <2>1. PICK w \in Workers : KeyOf(w) = s /\ worker[w].job = slot[s]
    BY DEF KeysInOrder, KeysOwned
  <2>2. s # None
    BY ConstantsAssumption
  <2>3. worker[w].slot = s /\ Working(w)
    BY <2>1, <2>2 DEF KeyOf, KeyAtHand, Working
  <2>. QED
    BY <2>1, <2>3
<1>. QED
  BY <1>1, KeysStay, PTL

-----------------------------------------------------------------------------
(* The row and its queue: without a fault they spend their attempts together *)

\* an active job has the run that holds its lock, and a run in progress holds its job's lock
ActiveHasRun ==
  \A j \in Jobs : bull[j] = "active" =>
    lock[j] \in Workers /\ Working(lock[j]) /\ worker[lock[j]].job = j
RunHasLock == \A w \in Workers : Working(w) => lock[worker[w].job] = w

\* the run has decided what it tells the queue
Outcome == {"mark_published", "audit", "release_get", "release_del", "finish"}

\* What a run in progress knows of its row: until it decides, row and queue have counted the
\* same attempts; when it throws, the row is one ahead and has one left; when it does not, the
\* row is settled, or was reopened behind the run.
RunAgrees(w) ==
  LET j == worker[w].job IN
  Working(w) =>
    /\ InTable(j) /\ worker[w].pc \notin Outcome => attemptCount[j] = bullAttempts[j]
    /\ InTable(j) /\ worker[w].pc = "catch_write" => worker[w].count = attemptCount[j]
    /\ worker[w].throws =>
         /\ worker[w].pc \in Outcome
         /\ InTable(j) =>
              /\ attemptCount[j] = bullAttempts[j] + 1
              /\ bullAttempts[j] + 1 < MaxAttempts
    /\ worker[w].pc \in Outcome /\ ~worker[w].throws => status[j] \notin ActiveRow \/ j \in late

\* what holds of a row while the queue keeps its job for later, or has done with it
RowAgrees(j) ==
  /\ status[j] # "deleted" /\ bull[j] \in {"none", "waiting"} => attemptCount[j] = bullAttempts[j]
  /\ bull[j] \in {"completed", "failed"} => status[j] \notin ActiveRow \/ j \in late

Agreement ==
  /\ ActiveHasRun /\ RunHasLock
  /\ \A w \in Workers : RunAgrees(w)
  /\ \A j \in Jobs : RowAgrees(j)
SettleInv == faults = 0 => Agreement

\* the row j is not counted up, not brought back from the dead, and reopened only as `late` tells
QuietRow(j) ==
  /\ attemptCount'[j] = attemptCount[j] /\ bullAttempts'[j] = bullAttempts[j]
  /\ status'[j] # "deleted" => status[j] # "deleted"
  /\ status[j] # "none" /\ status'[j] \in ActiveRow /\ j \notin late' =>
       status[j] \in ActiveRow /\ j \notin late
\* the queue does not begin or end a run of j
QuietJob(j) ==
  /\ lock'[j] = lock[j]
  /\ \/ bull'[j] = bull[j]
     \/ bull[j] # "active" /\ bull'[j] = "removed"
     \/ bull[j] = "none" /\ bull'[j] = "waiting"

\* A run whose record is as it was knows of a quiet row what it knew.
LEMMA QuietRunAgrees ==
  ASSUME LinkInv, NEW w \in Workers, RunAgrees(w), worker'[w] = worker[w],
         Working(w) => QuietRow(worker[w].job)
  PROVE  RunAgrees(w)'
<1>. SUFFICES ASSUME Working(w) PROVE RunAgrees(w)'
  BY DEF RunAgrees, Working
<1>. DEFINE j == worker[w].job
<1>1. worker'[w].job = j /\ status[j] # "none" /\ QuietRow(j)
  BY RunTypes
<1>2. InTable(j)' => InTable(j)
  BY <1>1 DEF InTable, QuietRow
<1>3. status'[j] \in ActiveRow /\ j \notin late' => status[j] \in ActiveRow /\ j \notin late
  BY <1>1 DEF QuietRow
<1>4. attemptCount'[j] = attemptCount[j] /\ bullAttempts'[j] = bullAttempts[j]
  BY <1>1 DEF QuietRow
<1>. HIDE DEF j
<1>. QED
  BY <1>1, <1>2, <1>3, <1>4 DEF RunAgrees, j

\* A quiet row of a quiet job agrees with the queue as it did.
LEMMA QuietRowAgrees ==
  ASSUME LinkInv, NEW j \in Jobs, RowAgrees(j), QuietRow(j), QuietJob(j)
  PROVE  RowAgrees(j)'
<1>1. bull[j] \in {"completed", "failed"} => status[j] # "none"
  BY DEF LinkInv, Links, FreshIds
<1>. QED
  BY <1>1 DEF RowAgrees, QuietRow, QuietJob

\* When no run moves and every row and job is quiet, all agrees as before.
LEMMA QuietAgreement ==
  ASSUME LinkInv, Agreement, UNCHANGED worker, \A j \in Jobs : QuietRow(j) /\ QuietJob(j)
  PROVE  Agreement'
<1>1. ActiveHasRun'
  BY DEF Agreement, ActiveHasRun, QuietJob, Working
<1>2. RunHasLock'
  <2>. SUFFICES ASSUME NEW w \in Workers, Working(w) PROVE lock'[worker[w].job] = w
    BY DEF RunHasLock, Working
  <2>1. worker[w].job \in Jobs
    BY RunTypes
  <2>. QED
    BY <2>1 DEF Agreement, RunHasLock, QuietJob
<1>3. \A w \in Workers : RunAgrees(w)'
  BY QuietRunAgrees, RunTypes DEF Agreement
<1>4. \A j \in Jobs : RowAgrees(j)'
  BY QuietRowAgrees DEF Agreement
<1>. QED
  BY <1>1, <1>2, <1>3, <1>4 DEF Agreement

\* No request breaks the agreement: the one that reopens a settled row leaves it in `late`.
LEMMA ApiKeepsAgreement ==
  ASSUME LinkInv, QueueInv, Agreement, ApiStep
  PROVE  Agreement'
<1>0. /\ TypeOK /\ RequestsLinked /\ EnqueueOnce
  BY DEF LinkInv, Links, QueueInv
<1>1. ASSUME UNCHANGED <<rowVars, queueVars, worker, late>>
      PROVE  Agreement'
  BY <1>1, QuietAgreement DEF QuietRow, QuietJob
<1>2. ASSUME NEW r \in Requests, ScheduleInsertJob(r)
      PROVE  Agreement'
  <2>1. \A j \in Jobs : status'[j] = status[j] \/ (status[j] = "none" /\ status'[j] = "pending")
    <3>1. \/ UNCHANGED status
          \/ \E j \in Jobs : status[j] = "none" /\ status' = [status EXCEPT ![j] = "pending"]
      BY Zenon, <1>2 DEF ScheduleInsertJob
    <3>2. ASSUME NEW k \in Jobs, status[k] = "none", status' = [status EXCEPT ![k] = "pending"],
                 NEW j \in Jobs
          PROVE  status'[j] = status[j] \/ (status[j] = "none" /\ status'[j] = "pending")
      BY <1>0, <3>2 DEF TypeOK
    <3>. QED
      BY <3>1, <3>2
  <2>2. UNCHANGED <<attemptCount, queueVars, worker, late>>
    BY <1>2 DEF ScheduleInsertJob
  <2>. QED
    BY <2>1, <2>2, QuietAgreement DEF QuietRow, QuietJob
<1>3. ASSUME NEW r \in Requests, ScheduleEnqueue(r)
      PROVE  Agreement'
  <2>1. bull[req[r].job] = "none" /\ bull' = [bull EXCEPT ![req[r].job] = "waiting"]
    BY <1>0, <1>3 DEF ScheduleEnqueue, EnqueueOnce
  <2>2. \A j \in Jobs : QuietJob(j)
    BY <1>0, <1>3, <2>1 DEF QuietJob, ScheduleEnqueue, TypeOK
  <2>3. UNCHANGED <<rowVars, bullAttempts, worker, late>>
    BY <1>3 DEF ScheduleEnqueue
  <2>. QED
    BY <2>2, <2>3, QuietAgreement DEF QuietRow
<1>4. ASSUME NEW r \in Requests, ScheduleMarkQueued(r)
      PROVE  Agreement'
  <2>. DEFINE j == req[r].job
  <2>1. j \in Jobs /\ SetRow(j, "queued") /\ UNCHANGED <<attemptCount, queueVars, worker>>
    BY <1>0, <1>4 DEF RequestsLinked, ScheduleMarkQueued
  <2>2. late' = IF status[j] \notin {"pending", "deleted"} THEN late \cup {j} ELSE late
    BY <1>4 DEF ScheduleMarkQueued
  <2>. HIDE DEF j
  <2>3. ASSUME NEW k \in Jobs PROVE QuietRow(k)
    <3>1. CASE k = j
      BY <1>0, <2>1, <2>2, <3>1 DEF SetRow, InTable, QuietRow, ActiveRow, TypeOK
    <3>2. CASE k # j
      BY <1>0, <2>1, <2>2, <3>2 DEF SetRow, QuietRow, TypeOK
    <3>. QED
      BY <3>1, <3>2
  <2>. QED
    BY <2>1, <2>3, QuietAgreement DEF QuietJob
<1>5. ASSUME NEW r \in Requests, CancelUpdate(r)
      PROVE  Agreement'
  <2>1. SetRow(req[r].job, "cancelled") /\ UNCHANGED <<attemptCount, queueVars, worker, late>>
    BY <1>5 DEF CancelUpdate
  <2>2. \A k \in Jobs : QuietRow(k)
    BY <1>0, <2>1 DEF SetRow, InTable, QuietRow, ActiveRow, TypeOK
  <2>. QED
    BY <2>1, <2>2, QuietAgreement DEF QuietJob
<1>6. ASSUME NEW r \in Requests, CancelRemove(r)
      PROVE  Agreement'
  <2>1. UNCHANGED <<rowVars, lock, bullAttempts, worker, late>>
    BY <1>6 DEF CancelRemove
  <2>2. \A j \in Jobs : QuietJob(j)
    BY <1>0, <1>6, <2>1 DEF CancelRemove, QuietJob, TypeOK
  <2>. QED
    BY <2>1, <2>2, QuietAgreement DEF QuietRow
<1>7. ASSUME NEW r \in Requests, EraseSubject(r)
      PROVE  Agreement'
  <2>1. \A j \in Jobs : status'[j] \notin ActiveRow /\ (status'[j] # "deleted" => status[j] = "none")
    BY <1>7 DEF EraseSubject, ActiveRow
  <2>. QED
    BY <1>7, <2>1, QuietAgreement DEF EraseSubject, QuietRow, QuietJob
<1>. QED
  BY Zenon, <1>1, <1>2, <1>3, <1>4, <1>5, <1>6, <1>7
  DEF ApiStep, ScheduleCheckDraft, ScheduleCheckAccounts, ScheduleMarkDraft, CancelCheck,
      CancelCount, CancelRevert, ApproveCheck, ApproveUpdate, RegenerateFetch, RegenerateUpdate,
      DisconnectAccount

\* Two runs in progress are on two jobs, and the job of a run is active.
LEMMA RunsApart ==
  ASSUME LinkInv, QueueInv, Agreement, NEW w \in Workers, Working(w)
  PROVE  /\ worker[w].job \in Jobs /\ bull[worker[w].job] = "active"
         /\ \A v \in Workers \ {w} : Working(v) => worker[v].job # worker[w].job
<1>1. worker[w].job \in Jobs /\ lock[worker[w].job] = w
  BY RunTypes DEF Agreement, RunHasLock
<1>2. bull[worker[w].job] = "active"
  BY <1>1, ConstantsAssumption DEF QueueInv, LockIsActive
<1>3. \A v \in Workers \ {w} : Working(v) => worker[v].job # worker[w].job
  BY <1>1 DEF Agreement, RunHasLock
<1>. QED
  BY <1>1, <1>2, <1>3

\* the run w goes on, and writes at most the row of its own job
WritesOwnRow(w) ==
  /\ UNCHANGED <<bull, lock, bullAttempts, late>>
  /\ \A j \in Jobs \ {worker[w].job} :
       status'[j] = status[j] /\ attemptCount'[j] = attemptCount[j]
  /\ \E p : p # "idle" /\ GoesTo(w, p)

\* Whatever a run does to its own row, the other rows and runs agree as before; so does its own
\* row, which the queue takes for active.
LEMMA OwnRowKeepsAgreement ==
  ASSUME LinkInv, QueueInv, Agreement, NEW w \in Workers, Working(w), WritesOwnRow(w),
         RunAgrees(w)'
  PROVE  Agreement'
<1>1. /\ worker'[w].pc # "idle" /\ worker'[w].job = worker[w].job
      /\ \A v \in Workers \ {w} : worker'[v] = worker[v]
      /\ UNCHANGED <<bull, lock, bullAttempts, late>>
  BY DEF WritesOwnRow, GoesTo
<1>2. ActiveHasRun' /\ RunHasLock'
  BY <1>1 DEF Agreement, ActiveHasRun, RunHasLock, Working
<1>3. \A j \in Jobs \ {worker[w].job} : QuietRow(j) /\ QuietJob(j)
  BY <1>1 DEF WritesOwnRow, QuietRow, QuietJob
<1>4. ASSUME NEW v \in Workers \ {w} PROVE RunAgrees(v)'
  <2>1. Working(v) => worker[v].job \in Jobs \ {worker[w].job}
    BY RunsApart, RunTypes
  <2>. QED
    BY <1>1, <1>3, <2>1, QuietRunAgrees DEF Agreement
<1>5. RowAgrees(worker[w].job)'
  BY <1>1, RunsApart DEF RowAgrees
<1>6. ASSUME NEW j \in Jobs PROVE RowAgrees(j)'
  <2>1. CASE j = worker[w].job
    BY <1>1, <1>5, <2>1
  <2>2. CASE j # worker[w].job
    BY <1>3, <2>2, QuietRowAgrees DEF Agreement
  <2>. QED
    BY <2>1, <2>2
<1>. QED
  BY <1>2, <1>4, <1>6 DEF Agreement


\* the run w goes on to the point p, and what it will tell the queue is as it was
TellsOn(w, p) == GoesTo(w, p) /\ worker'[w].throws = worker[w].throws

\* A run that writes its point and a field other than `throws` tells the queue the same.
LEMMA ThrowsStay ==
  ASSUME LinkInv, NEW w \in Workers, NEW p, NEW x
  PROVE  /\ worker' = [worker EXCEPT ![w].pc = p] => TellsOn(w, p)
         /\ worker' = [worker EXCEPT ![w] = [@ EXCEPT !.pc = p, !.retry = x]] => TellsOn(w, p)
         /\ worker' = [worker EXCEPT ![w] = [@ EXCEPT !.pc = p, !.slot = x]] => TellsOn(w, p)
         /\ worker' = [worker EXCEPT ![w] = [@ EXCEPT !.pc = p, !.text = x]] => TellsOn(w, p)
         /\ worker' = [worker EXCEPT ![w] = [@ EXCEPT !.pc = p, !.count = x]] => TellsOn(w, p)
         /\ worker' = [worker EXCEPT ![w] = [@ EXCEPT !.pc = p, !.posted = TRUE]] => TellsOn(w, p)
<1>1. worker' = [worker EXCEPT ![w].pc = p] => TellsOn(w, p)
  BY StateTypes DEF TellsOn, GoesTo, WorkerRec
<1>2. worker' = [worker EXCEPT ![w] = [@ EXCEPT !.pc = p, !.retry = x]] => TellsOn(w, p)
  BY StateTypes DEF TellsOn, GoesTo, WorkerRec
<1>3. worker' = [worker EXCEPT ![w] = [@ EXCEPT !.pc = p, !.slot = x]] => TellsOn(w, p)
  BY StateTypes DEF TellsOn, GoesTo, WorkerRec
<1>4. worker' = [worker EXCEPT ![w] = [@ EXCEPT !.pc = p, !.text = x]] => TellsOn(w, p)
  BY StateTypes DEF TellsOn, GoesTo, WorkerRec
<1>5. worker' = [worker EXCEPT ![w] = [@ EXCEPT !.pc = p, !.count = x]] => TellsOn(w, p)
  BY StateTypes DEF TellsOn, GoesTo, WorkerRec
<1>6. worker' = [worker EXCEPT ![w] = [@ EXCEPT !.pc = p, !.posted = TRUE]] => TellsOn(w, p)
  BY StateTypes DEF TellsOn, GoesTo, WorkerRec
<1>. QED
  BY <1>1, <1>2, <1>3, <1>4, <1>5, <1>6

\* the steps of a run that write no row and decide nothing
LEMMA UndecidedStep ==
  ASSUME LinkInv, QueueInv, Agreement, NEW w \in Workers, Working(w), NEW p, TellsOn(w, p),
         UNCHANGED <<status, attemptCount, bull, lock, bullAttempts, late>>,
         worker[w].pc \notin Outcome, p \notin Outcome, p \notin {"idle", "catch_write"}
  PROVE  Agreement'
<1>1. RunAgrees(w)
  BY DEF Agreement
<1>2. RunAgrees(w)'
  BY <1>1 DEF RunAgrees, TellsOn, GoesTo, Working, InTable
<1>3. WritesOwnRow(w)
  BY DEF WritesOwnRow, TellsOn
<1>. QED
  BY <1>2, <1>3, OwnRowKeepsAgreement

\* A run that has decided goes through its finally block with what it has decided.
LEMMA DecidedStep ==
  ASSUME LinkInv, QueueInv, Agreement, NEW w \in Workers, NEW p, TellsOn(w, p),
         UNCHANGED <<status, attemptCount, bull, lock, bullAttempts, late>>,
         worker[w].pc \in Outcome, p \in Outcome
  PROVE  Agreement'
<1>1. RunAgrees(w) /\ Working(w)
  BY DEF Agreement, Working, Outcome
<1>2. p \notin {"idle", "catch_write"}
  BY DEF Outcome
<1>3. RunAgrees(w)'
  BY <1>1, <1>2 DEF RunAgrees, TellsOn, GoesTo, Working, InTable
<1>4. WritesOwnRow(w)
  BY <1>2 DEF WritesOwnRow, TellsOn
<1>. QED
  BY <1>1, <1>3, <1>4, OwnRowKeepsAgreement

\* The guard on the row ends a run of a settled row only.
LEMMA FetchAgrees ==
  ASSUME LinkInv, QueueInv, Agreement, NEW w \in Workers, FetchJob(w)
  PROVE  Agreement'
<1>. DEFINE j == worker[w].job
<1>0. /\ RunAgrees(w) /\ Working(w) /\ worker[w].pc = "fetch_job"
      /\ UNCHANGED <<status, attemptCount, bull, lock, bullAttempts, late>>
  BY DEF Agreement, Working, FetchJob
<1>1. CASE InTable(j) /\ status[j] \notin TerminalRow
  <2>1. TellsOn(w, "acquire")
    BY Zenon, <1>1, ThrowsStay DEF FetchJob
  <2>. QED
    BY <1>0, <2>1, UndecidedStep DEF Outcome
<1>2. CASE ~(InTable(j) /\ status[j] \notin TerminalRow)
  <2>1. TellsOn(w, "finish")
    BY Zenon, <1>2, ThrowsStay DEF FetchJob
  <2>2. status[j] \notin ActiveRow
    BY <1>2 DEF InTable, ActiveRow, TerminalRow
  <2>3. RunAgrees(w)'
    BY <1>0, <2>1, <2>2 DEF RunAgrees, TellsOn, GoesTo, Outcome
  <2>4. WritesOwnRow(w)
    BY <1>0, <2>1 DEF WritesOwnRow, TellsOn
  <2>. QED
    BY <1>0, <2>3, <2>4, OwnRowKeepsAgreement
<1>. QED
  BY <1>1, <1>2

\* 'processing' and 'done' are written over the row's status and count no attempt; 'done'
\* settles it.
LEMMA MarkAgrees ==
  ASSUME LinkInv, QueueInv, Agreement, NEW w \in Workers, MarkProcessing(w) \/ MarkDone(w)
  PROVE  Agreement'
<1>j. PICK j : j = worker[w].job
  OBVIOUS
<1>0. /\ RunAgrees(w) /\ Working(w) /\ worker[w].pc \in {"mark_processing", "mark_done"}
      /\ UNCHANGED <<attemptCount, bull, lock, bullAttempts, late>>
  BY <1>j DEF Agreement, Working, MarkProcessing, MarkDone
<1>1. j \in Jobs /\ status \in [Jobs -> RowStatus] /\ status[j] # "none"
  BY <1>j, <1>0, RunTypes DEF LinkInv, TypeOK
<1>2. \/ SetRow(j, "processing") /\ TellsOn(w, "fetch_draft")
      \/ SetRow(j, "done") /\ TellsOn(w, "mark_published")
  BY <1>j, Zenon, ThrowsStay DEF MarkProcessing, MarkDone
<1>3. /\ \A k \in Jobs \ {j} : status'[k] = status[k]
      /\ InTable(j)' => InTable(j)
      /\ SetRow(j, "done") => status'[j] \notin ActiveRow
  <2>1. /\ \A k \in Jobs \ {j} : status'[k] = status[k]
        /\ ~InTable(j) => status'[j] = status[j]
    BY <1>j, <1>1, <1>2 DEF SetRow
  <2>2. SetRow(j, "done") /\ InTable(j) => status'[j] = "done"
    BY <1>j, <1>1 DEF SetRow
  <2>3. ~InTable(j) => status[j] \notin ActiveRow
    BY <1>j DEF InTable, ActiveRow
  <2>. QED
    BY <1>j, <2>1, <2>2, <2>3 DEF InTable, ActiveRow
<1>4. RunAgrees(w)'
  <2>1. worker'[w].job = j /\ worker'[w].throws = FALSE
    BY <1>j, <1>0, <1>2, StateTypes DEF TellsOn, GoesTo, RunAgrees, Outcome, WorkerRec
  <2>2. \/ worker'[w].pc = "fetch_draft"
        \/ worker'[w].pc = "mark_published" /\ status'[j] \notin ActiveRow
    BY <1>j, <1>2, <1>3 DEF TellsOn, GoesTo
  <2>3. InTable(j)' => attemptCount'[j] = bullAttempts'[j]
    BY <1>j, <1>0, <1>3 DEF RunAgrees, Outcome
  <2>. QED
    BY <1>j, <2>1, <2>2, <2>3 DEF RunAgrees, Outcome
<1>5. WritesOwnRow(w)
  BY <1>j, <1>0, <1>2, <1>3 DEF WritesOwnRow, TellsOn
<1>. QED
  BY <1>0, <1>4, <1>5, OwnRowKeepsAgreement

\* The count a run reads is the row's, which nobody else moves until the run writes it.
LEMMA CatchReadAgrees ==
  ASSUME LinkInv, QueueInv, Agreement, NEW w \in Workers, CatchRead(w)
  PROVE  Agreement'
<1>. DEFINE j == worker[w].job
<1>0. /\ RunAgrees(w) /\ Working(w) /\ worker[w].pc = "catch_read"
      /\ UNCHANGED <<status, attemptCount, bull, lock, bullAttempts, late>>
  BY DEF Agreement, Working, CatchRead
<1>1. TellsOn(w, "catch_write")
  BY Zenon, ThrowsStay DEF CatchRead
<1>2. InTable(j) => worker'[w].count = attemptCount[j]
  BY StateTypes DEF CatchRead, WorkerRec
<1>3. RunAgrees(w)'
  BY <1>0, <1>1, <1>2 DEF RunAgrees, TellsOn, GoesTo, Outcome, InTable
<1>4. WritesOwnRow(w)
  BY <1>0, <1>1 DEF WritesOwnRow, TellsOn
<1>. QED
  BY <1>0, <1>3, <1>4, OwnRowKeepsAgreement

\* The row is counted up with the throw, and written 'failed' without one; the row's limit is
\* the queue's.
LEMMA CatchWriteAgrees ==
  ASSUME LinkInv, QueueInv, Agreement, NEW w \in Workers, CatchWrite(w)
  PROVE  Agreement'
<1>j. PICK j : j = worker[w].job
  OBVIOUS
<1>0. /\ RunAgrees(w) /\ Working(w) /\ worker[w].pc = "catch_write"
      /\ UNCHANGED <<bull, lock, bullAttempts, late>>
  BY <1>j DEF Agreement, Working, CatchWrite
<1>1. /\ j \in Jobs /\ status \in [Jobs -> RowStatus] /\ status[j] # "none"
      /\ attemptCount \in [Jobs -> Nat]
  BY <1>j, <1>0, RunTypes DEF LinkInv, TypeOK
<1>2. /\ SetRow(j, IF Requeues(w) THEN "queued" ELSE "failed")
      /\ attemptCount' = [attemptCount EXCEPT ![j] = IF InTable(j) THEN worker[w].count + 1 ELSE @]
  BY <1>j DEF CatchWrite
<1>3. /\ worker'[w].pc \in {"finish", "release_get"} /\ worker'[w].job = j
      /\ worker'[w].throws = Requeues(w)
      /\ \A v \in Workers \ {w} : worker'[v] = worker[v]
  BY <1>j, StateTypes DEF CatchWrite, Leaving, WorkerRec
<1>4. InTable(j) => worker[w].count = bullAttempts[j] /\ worker[w].count = attemptCount[j]
  BY <1>j, <1>0 DEF RunAgrees, Outcome
<1>5. Requeues(w) => worker[w].count + 1 < MaxAttempts
  BY <1>j DEF Requeues
<1>6. /\ \A k \in Jobs \ {j} : status'[k] = status[k] /\ attemptCount'[k] = attemptCount[k]
      /\ InTable(j)' => InTable(j)
      /\ ~Requeues(w) => status'[j] \notin ActiveRow
  <2>1. /\ \A k \in Jobs \ {j} : status'[k] = status[k] /\ attemptCount'[k] = attemptCount[k]
        /\ ~InTable(j) => status'[j] = status[j]
    BY <1>j, <1>1, <1>2 DEF SetRow
  <2>2. ~Requeues(w) /\ InTable(j) => status'[j] = "failed"
    BY <1>j, <1>1, <1>2 DEF SetRow
  <2>3. ~InTable(j) => status[j] \notin ActiveRow
    BY <1>j DEF InTable, ActiveRow
  <2>. QED
    BY <1>j, <2>1, <2>2, <2>3 DEF InTable, ActiveRow
<1>7. InTable(j) => attemptCount'[j] = bullAttempts[j] + 1
  BY <1>j, <1>1, <1>2, <1>4
<1>8. RunAgrees(w)'
  <2>1. worker'[w].pc \in Outcome /\ worker'[w].pc # "catch_write"
    BY <1>j, <1>3 DEF Outcome
  <2>2. InTable(j)' /\ Requeues(w) =>
          attemptCount'[j] = bullAttempts'[j] + 1 /\ bullAttempts'[j] + 1 < MaxAttempts
    BY <1>j, <1>0, <1>4, <1>5, <1>6, <1>7
  <2>3. CASE Requeues(w)
    BY <1>j, <1>3, <2>1, <2>2, <2>3 DEF RunAgrees
  <2>4. CASE ~Requeues(w)
    <3>1. ~worker'[w].throws
      BY <1>j, <1>3, <2>4
    <3>. QED
      BY <1>j, <1>3, <1>6, <2>1, <2>4, <3>1 DEF RunAgrees
  <2>. QED
    BY <1>j, <2>3, <2>4
<1>9. WritesOwnRow(w)
  <2>1. GoesTo(w, worker'[w].pc) /\ worker'[w].pc # "idle"
    BY <1>j, <1>3 DEF GoesTo
  <2>. QED
    BY <1>j, <1>0, <1>6, <2>1 DEF WritesOwnRow
<1>. QED
  BY <1>0, <1>8, <1>9, OwnRowKeepsAgreement


\* A job that waits is nobody's, and the run that takes it finds row and queue in agreement.
LEMMA TakeAgrees ==
  ASSUME LinkInv, QueueInv, Agreement, NEW w \in Workers, NEW j \in Jobs, Take(w, j)
  PROVE  Agreement'
<1>0. /\ ~Working(w) /\ bull[j] = "waiting" /\ bull' = [bull EXCEPT ![j] = "active"]
      /\ lock' = [lock EXCEPT ![j] = w]
      /\ UNCHANGED <<status, attemptCount, bullAttempts, late>>
      /\ TypeOK
  BY DEF Take, Working, LinkInv
<1>1. /\ worker'[w] = [IdleWorker EXCEPT !.pc = "fetch_job", !.job = j]
      /\ \A v \in Workers \ {w} : worker'[v] = worker[v]
  BY StateTypes DEF Take
<1>2. /\ worker'[w].pc = "fetch_job" /\ worker'[w].job = j /\ worker'[w].throws = FALSE
  BY <1>1 DEF IdleWorker
<1>3. /\ bull'[j] = "active" /\ lock'[j] = w
      /\ \A k \in Jobs \ {j} : bull'[k] = bull[k] /\ lock'[k] = lock[k]
  BY <1>0 DEF TypeOK
<1>4. \A v \in Workers : Working(v) => worker[v].job \in Jobs \ {j}
  <2>. SUFFICES ASSUME NEW v \in Workers, Working(v) PROVE worker[v].job \in Jobs \ {j}
    OBVIOUS
  <2>. QED
    BY <1>0, RunsApart
<1>5. \A v \in Workers \ {w} : Working(v)' <=> Working(v)
  BY <1>1 DEF Working
<1>6. ActiveHasRun'
  <2>. SUFFICES ASSUME NEW k \in Jobs, bull'[k] = "active"
                PROVE  lock'[k] \in Workers /\ worker'[lock'[k]].pc # "idle" /\ worker'[lock'[k]].job = k
    BY DEF ActiveHasRun, Working
  <2>1. CASE k = j
    BY <1>2, <1>3, <2>1 DEF Working
  <2>2. CASE k # j
    <3>1. lock[k] \in Workers /\ Working(lock[k]) /\ worker[lock[k]].job = k /\ lock'[k] = lock[k]
      BY <1>3, <2>2 DEF Agreement, ActiveHasRun
    <3>2. lock[k] # w
      BY <1>0, <3>1
    <3>3. worker'[lock[k]] = worker[lock[k]]
      BY <1>1, <3>1, <3>2
    <3>. QED
      BY <3>1, <3>3 DEF Working
  <2>. QED
    BY <2>1, <2>2
<1>7. RunHasLock'
  <2>. SUFFICES ASSUME NEW v \in Workers, Working(v)' PROVE lock'[worker'[v].job] = v
    BY DEF RunHasLock
  <2>1. CASE v = w
    BY <1>2, <1>3, <2>1
  <2>2. CASE v # w
    BY <1>1, <1>3, <1>4, <1>5, <2>2 DEF Agreement, RunHasLock
  <2>. QED
    BY <2>1, <2>2
<1>8. RunAgrees(w)'
  <2>1. status[j] # "deleted" => attemptCount[j] = bullAttempts[j]
    BY <1>0 DEF Agreement, RowAgrees
  <2>. QED
    BY <1>0, <1>2, <2>1 DEF RunAgrees, InTable, Outcome
<1>9. ASSUME NEW v \in Workers \ {w} PROVE RunAgrees(v)'
  <2>1. Working(v) => QuietRow(worker[v].job)
    BY <1>0 DEF QuietRow
  <2>. QED
    BY <1>1, <2>1, QuietRunAgrees DEF Agreement
<1>10. ASSUME NEW k \in Jobs PROVE RowAgrees(k)'
  <2>1. CASE k = j
    BY <1>3, <2>1 DEF RowAgrees
  <2>2. CASE k # j
    <3>1. QuietRow(k) /\ QuietJob(k)
      BY <1>0, <1>3, <2>2 DEF QuietRow, QuietJob
    <3>. QED
      BY <3>1, QuietRowAgrees DEF Agreement
  <2>. QED
    BY <2>1, <2>2
<1>. QED
  BY <1>6, <1>7, <1>8, <1>9, <1>10 DEF Agreement

\* The queue hears from the run that has the lock. It takes a throw for another attempt as long
\* as the row does, and for the last word only when the row has had its own.
LEMMA FinishAgrees ==
  ASSUME LinkInv, QueueInv, Agreement, NEW w \in Workers, Finish(w)
  PROVE  Agreement'
<1>j. PICK j : j = worker[w].job
  OBVIOUS
<1>0. /\ Working(w) /\ worker[w].pc = "finish"
      /\ j \in Jobs /\ bull[j] = "active" /\ lock[j] = w /\ status[j] # "none"
      /\ TypeOK /\ UNCHANGED <<status, attemptCount, late>>
  <2>1. Working(w) /\ worker[w].pc = "finish"
    BY DEF Finish, Working
  <2>2. j \in Jobs /\ bull[j] = "active" /\ lock[j] = w /\ status[j] # "none"
    BY <1>j, <2>1, RunsApart, RunTypes DEF Agreement, RunHasLock
  <2>3. TypeOK /\ UNCHANGED <<status, attemptCount, late>>
    BY DEF Finish, LinkInv
  <2>. QED
    BY <2>1, <2>2, <2>3
<1>1. /\ lock' = [lock EXCEPT ![j] = None]
      /\ bullAttempts' = [bullAttempts EXCEPT ![j] = IF worker[w].throws THEN @ + 1 ELSE @]
      /\ bull' = [bull EXCEPT ![j] =
           IF ~worker[w].throws THEN "completed"
           ELSE IF bullAttempts[j] + 1 < MaxAttempts THEN "waiting" ELSE "failed"]
  BY <1>j, <1>0 DEF Finish
<1>2. worker'[w].pc = "idle" /\ \A v \in Workers \ {w} : worker'[v] = worker[v]
  BY StateTypes DEF Finish, IdleWorker
<1>3. /\ bull'[j] # "active"
      /\ \A k \in Jobs \ {j} : /\ bull'[k] = bull[k] /\ lock'[k] = lock[k]
                               /\ bullAttempts'[k] = bullAttempts[k]
  BY <1>0, <1>1 DEF TypeOK
<1>4. \A v \in Workers \ {w} : Working(v) => worker[v].job \in Jobs \ {j}
  BY <1>j, <1>0, RunsApart, RunTypes
<1>5. ActiveHasRun'
  <2>. SUFFICES ASSUME NEW k \in Jobs, bull'[k] = "active"
                PROVE  lock'[k] \in Workers /\ worker'[lock'[k]].pc # "idle" /\ worker'[lock'[k]].job = k
    BY DEF ActiveHasRun, Working
  <2>1. k # j /\ bull[k] = "active" /\ lock'[k] = lock[k]
    BY <1>3
  <2>2. lock[k] \in Workers /\ Working(lock[k]) /\ worker[lock[k]].job = k
    BY <2>1 DEF Agreement, ActiveHasRun
  <2>3. worker'[lock[k]] = worker[lock[k]]
    BY <1>j, <1>2, <2>1, <2>2
  <2>. QED
    BY <2>1, <2>2, <2>3 DEF Working
<1>6. RunHasLock'
  <2>. SUFFICES ASSUME NEW v \in Workers, Working(v)' PROVE lock'[worker'[v].job] = v
    BY DEF RunHasLock
  <2>1. v # w /\ worker'[v] = worker[v] /\ Working(v)
    BY <1>2 DEF Working
  <2>. QED
    BY <1>3, <1>4, <2>1 DEF Agreement, RunHasLock
<1>7. \A v \in Workers : RunAgrees(v)'
  <2>1. RunAgrees(w)'
    BY <1>2 DEF RunAgrees, Working
  <2>2. ASSUME NEW v \in Workers \ {w} PROVE RunAgrees(v)'
    <3>1. Working(v) => QuietRow(worker[v].job)
      BY <1>0, <1>3, <1>4 DEF QuietRow
    <3>. QED
      BY <1>2, <3>1, QuietRunAgrees DEF Agreement
  <2>. QED
    BY <2>1, <2>2
<1>8. RowAgrees(j)'
  <2>1. bullAttempts[j] \in Nat /\ MaxAttempts \in Nat
    BY <1>0, ConstantsAssumption DEF TypeOK
  <2>2. CASE worker[w].throws
    <3>1. status[j] # "deleted" =>
            attemptCount[j] = bullAttempts[j] + 1 /\ bullAttempts[j] + 1 < MaxAttempts
      BY <1>j, <1>0, <2>2 DEF Agreement, RunAgrees, InTable
    <3>2. /\ bullAttempts'[j] = bullAttempts[j] + 1
          /\ bull'[j] = IF bullAttempts[j] + 1 < MaxAttempts THEN "waiting" ELSE "failed"
      BY <1>0, <1>1, <2>2 DEF TypeOK
    <3>. QED
      BY <1>0, <3>1, <3>2 DEF RowAgrees, ActiveRow
  <2>3. CASE ~worker[w].throws
    <3>1. status[j] \notin ActiveRow \/ j \in late
      BY <1>j, <1>0, <2>3 DEF Agreement, RunAgrees, Outcome
    <3>2. bull'[j] = "completed"
      BY <1>0, <1>1, <2>3 DEF TypeOK
    <3>. QED
      BY <1>0, <3>1, <3>2 DEF RowAgrees
  <2>. QED
    BY <2>2, <2>3
<1>9. ASSUME NEW k \in Jobs PROVE RowAgrees(k)'
  <2>1. CASE k # j
    <3>1. QuietRow(k) /\ QuietJob(k)
      BY <1>0, <1>3, <2>1 DEF QuietRow, QuietJob
    <3>. QED
      BY <3>1, QuietRowAgrees DEF Agreement
  <2>. QED
    BY <1>8, <2>1
<1>. QED
  BY <1>5, <1>6, <1>7, <1>9 DEF Agreement

\* Whatever a run does, it leaves row and queue in agreement.
LEMMA RunKeepsAgreement ==
  ASSUME LinkInv, QueueInv, Agreement, NEW w \in Workers, RunStep(w)
  PROVE  Agreement'
<1>1. \A b : Fail(w, b) => TellsOn(w, "catch_read")
  BY Zenon, ThrowsStay DEF Fail
<1>2. CASE AcquireSlot(w)
  <2>1. TellsOn(w, "mark_processing") \/ TellsOn(w, "acquire") \/ TellsOn(w, "catch_read")
    <3>1. \A x : worker' = [worker EXCEPT ![w] = [@ EXCEPT !.pc = "mark_processing", !.slot = x]]
                  => TellsOn(w, "mark_processing")
      BY Zenon, ThrowsStay
    <3>2. \A x : worker' = [worker EXCEPT ![w] = [@ EXCEPT !.pc = "acquire", !.count = x]]
                  => TellsOn(w, "acquire")
      BY Zenon, ThrowsStay
    <3>. QED
      BY Zenon, <1>1, <1>2, <3>1, <3>2 DEF AcquireSlot
  <2>. QED
    BY <1>2, <2>1, UndecidedStep DEF AcquireSlot, Working, Outcome
<1>3. CASE FetchDraft(w)
  <2>1. TellsOn(w, "fetch_account") \/ TellsOn(w, "catch_read")
    <3>1. \A x : worker' = [worker EXCEPT ![w] = [@ EXCEPT !.pc = "fetch_account", !.text = x]]
                  => TellsOn(w, "fetch_account")
      BY Zenon, ThrowsStay
    <3>. QED
      BY Zenon, <1>1, <1>3, <3>1 DEF FetchDraft
  <2>. QED
    BY <1>3, <2>1, UndecidedStep DEF FetchDraft, Working, Outcome
<1>4. CASE FetchAccount(w)
  <2>1. TellsOn(w, "dispatch") \/ TellsOn(w, "catch_read")
    BY Zenon, <1>1, <1>4, ThrowsStay DEF FetchAccount
  <2>. QED
    BY <1>4, <2>1, UndecidedStep DEF FetchAccount, Working, Outcome
<1>5. CASE Dispatch(w)
  <2>1. TellsOn(w, "mark_done") \/ TellsOn(w, "catch_read")
    <3>1. worker' = [worker EXCEPT ![w] = [@ EXCEPT !.pc = "mark_done", !.posted = TRUE]]
            => TellsOn(w, "mark_done")
      BY Zenon, ThrowsStay
    <3>. QED
      BY <1>1, <1>5, <3>1 DEF Dispatch
  <2>. QED
    BY <1>5, <2>1, UndecidedStep DEF Dispatch, Working, Outcome
<1>6. CASE MarkPublished(w)
  <2>1. TellsOn(w, "audit")
    BY Zenon, <1>6, ThrowsStay DEF MarkPublished
  <2>. QED
    BY <1>6, <2>1, DecidedStep DEF MarkPublished, Outcome
<1>7. CASE AuditLog(w)
  <2>1. TellsOn(w, Leaving(w))
    BY Zenon, <1>7, ThrowsStay DEF AuditLog
  <2>. QED
    BY <1>7, <2>1, DecidedStep DEF AuditLog, Leaving, Outcome
<1>8. CASE ReleaseGet(w)
  <2>1. TellsOn(w, "release_del") \/ TellsOn(w, "finish")
    BY Zenon, <1>8, ThrowsStay DEF ReleaseGet
  <2>. QED
    BY <1>8, <2>1, DecidedStep DEF ReleaseGet, Outcome
<1>9. CASE ReleaseDel(w)
  <2>1. TellsOn(w, "finish")
    BY Zenon, <1>9, ThrowsStay DEF ReleaseDel
  <2>. QED
    BY <1>9, <2>1, DecidedStep DEF ReleaseDel, Outcome
<1>. QED
  BY <1>2, <1>3, <1>4, <1>5, <1>6, <1>7, <1>8, <1>9, FetchAgrees, MarkAgrees, CatchReadAgrees,
     CatchWriteAgrees, FinishAgrees DEF RunStep

\* Without a fault no step parts the row from its queue; BullMQ's stalled check has nothing to
\* find, since every active job has its run.
LEMMA SettleStep == LinkInv /\ QueueInv /\ SettleInv /\ [Next]_vars => SettleInv'
<1>. SUFFICES ASSUME LinkInv, QueueInv, SettleInv, [Next]_vars, faults' = 0
              PROVE  Agreement'
  BY DEF SettleInv
<1>0. faults = 0 /\ Agreement
  BY FaultsStay DEF SettleInv
<1>1. CASE FaultStep
  <2>1. PICK j \in Jobs : StalledCheck(j)
    BY <1>1, FaultsStay DEF FaultStep
  <2>2. worker[lock[j]].job = j
    BY <1>0, <2>1 DEF StalledCheck, Agreement, ActiveHasRun
  <2>3. faults' = faults + 1
    BY <2>1, <2>2 DEF StalledCheck
  <2>. QED
    BY <1>0, <2>3
<1>2. CASE UNCHANGED vars
  BY <1>0, <1>2, QuietAgreement DEF vars, QuietRow, QuietJob
<1>. QED
  BY <1>0, <1>1, <1>2, ApiKeepsAgreement, TakeAgrees, RunKeepsAgreement DEF Next, WorkerStep

\* The row's attempt_count and BullMQ's attempts are two counters kept by two systems: without
\* a fault they run out together, so a job the queue has done with has a row in a terminal
\* status, unless the schedule request reopened it behind the worker or a user.
THEOREM RowSettlesWithQueue == Spec => []QueueAndRowSettleTogether
<1>1. Init => SettleInv
  BY DEF Init, SettleInv, Agreement, ActiveHasRun, RunHasLock, RunAgrees, RowAgrees, Working,
         IdleWorker
<1>2. LinkInv /\ SettleInv => QueueAndRowSettleTogether
  BY DEF SettleInv, Agreement, RowAgrees, QueueAndRowSettleTogether
<1>3. IInv => LinkInv /\ QueueInv
  BY DEF IInv
<1>. QED
  BY <1>1, <1>2, <1>3, Invariance, SettleStep, PTL DEF Spec
-----------------------------------------------------------------------------
(* What a duplicate costs *)

PreDispatch == PrePost \cup {"fetch_job"}

\* runs of j that lost the job's lock to another and may still post
Strays(j) == {w \in Workers : worker[w].job = j /\ lock[j] # w /\ worker[w].pc \in PreDispatch}
\* the run has posted and will report success to the queue
Spent(w) ==
  worker[w].posted /\ ~worker[w].throws /\ worker[w].pc \notin {"catch_read", "catch_write"}
\* the queue may still have j posted: it has not handed it out, or not to a run that has
\* done all it will do
MayDeliver(j) ==
  \/ bull[j] \in {"none", "waiting"}
  \/ bull[j] = "active" /\ ~\E w \in Workers : Holds(w, j) /\ Spent(w)

\* The posts a job has, and those it may yet get without a fault, are paid for.
PaidFor ==
  \A j \in Jobs :
    /\ IsFiniteSet(Strays(j))
    /\ posts[j] + Cardinality(Strays(j)) + (IF MayDeliver(j) THEN 1 ELSE 0) <= 1 + faults

\* a run decides what it will tell the queue at its end
ThrowsLast ==
  \A w \in Workers : worker[w].throws => worker[w].pc \in {"release_get", "release_del", "finish"}

\* a step that leaves no job more to come, or one more for the job of x
NothingMore == \A j \in Jobs : Strays(j)' \subseteq Strays(j) /\ (MayDeliver(j)' => MayDeliver(j))
OneMoreRun(x) ==
  \A j \in Jobs : \/ Strays(j)' \subseteq Strays(j)
                  \/ Strays(j)' \subseteq Strays(j) \cup {x} /\ (MayDeliver(j)' => MayDeliver(j))

\* A set that has grown by one element at most counts one more at most.
LEMMA OneMoreElement ==
  ASSUME NEW S, IsFiniteSet(S), NEW x, NEW T \in SUBSET (S \cup {x})
  PROVE  /\ IsFiniteSet(T) /\ Cardinality(T) \in Nat /\ Cardinality(T) <= Cardinality(S) + 1
<1>1. IsFiniteSet(S \cup {x}) /\ Cardinality(S) \in Nat
  BY FS_AddElement, FS_CardinalityType
<1>2. Cardinality(S \cup {x}) = IF x \in S THEN Cardinality(S) ELSE Cardinality(S) + 1
  BY FS_AddElement
<1>3. IsFiniteSet(T) /\ Cardinality(T) <= Cardinality(S \cup {x})
  BY <1>1, FS_Subset
<1>4. Cardinality(T) \in Nat
  BY <1>3, FS_CardinalityType
<1>. QED
  BY <1>1, <1>2, <1>3, <1>4

\* A set that has lost an element counts one less.
LEMMA OneLessElement ==
  ASSUME NEW S, IsFiniteSet(S), NEW x, NEW T, T = S \ {x}
  PROVE  /\ IsFiniteSet(T) /\ Cardinality(T) \in Nat /\ Cardinality(T) <= Cardinality(S)
         /\ x \in S => Cardinality(T) = Cardinality(S) - 1
<1>1. IsFiniteSet(T) /\ Cardinality(T) = IF x \in S THEN Cardinality(S) - 1 ELSE Cardinality(S)
  BY FS_RemoveElement
<1>2. Cardinality(T) \in Nat /\ Cardinality(S) \in Nat
  BY <1>1, FS_CardinalityType
<1>. QED
  BY <1>1, <1>2

\* What a job has coming never grows without a fault ...
LEMMA QuietPosts ==
  ASSUME TypeOK, TypeOK', PaidFor, NothingMore, UNCHANGED posts, faults <= faults'
  PROVE  PaidFor'
<1>. SUFFICES ASSUME NEW j \in Jobs
              PROVE  /\ IsFiniteSet(Strays(j)')
                     /\ posts'[j] + Cardinality(Strays(j)') + (IF MayDeliver(j)' THEN 1 ELSE 0)
                          <= 1 + faults'
  BY DEF PaidFor
<1>1. /\ IsFiniteSet(Strays(j)) /\ posts[j] \in Nat /\ faults \in Nat /\ faults' \in Nat
      /\ posts[j] + Cardinality(Strays(j)) + (IF MayDeliver(j) THEN 1 ELSE 0) <= 1 + faults
  BY DEF PaidFor, TypeOK
<1>2. Strays(j)' \subseteq Strays(j) /\ (MayDeliver(j)' => MayDeliver(j))
  BY DEF NothingMore
<1>3. /\ IsFiniteSet(Strays(j)') /\ Cardinality(Strays(j)') <= Cardinality(Strays(j))
      /\ Cardinality(Strays(j)) \in Nat /\ Cardinality(Strays(j)') \in Nat
  BY <1>1, <1>2, FS_Subset, FS_CardinalityType
<1>. QED
  BY <1>1, <1>2, <1>3

\* ... and by one with one.
LEMMA PaidPosts ==
  ASSUME TypeOK, TypeOK', PaidFor, NEW x, OneMoreRun(x), UNCHANGED posts, faults' = faults + 1
  PROVE  PaidFor'
<1>. SUFFICES ASSUME NEW j \in Jobs
              PROVE  /\ IsFiniteSet(Strays(j)')
                     /\ posts'[j] + Cardinality(Strays(j)') + (IF MayDeliver(j)' THEN 1 ELSE 0)
                          <= 1 + faults'
  BY DEF PaidFor
<1>1. /\ IsFiniteSet(Strays(j)) /\ posts[j] \in Nat /\ faults \in Nat
      /\ posts[j] + Cardinality(Strays(j)) + (IF MayDeliver(j) THEN 1 ELSE 0) <= 1 + faults
      /\ Cardinality(Strays(j)) \in Nat
  BY FS_CardinalityType DEF PaidFor, TypeOK
<1>2. CASE Strays(j)' \subseteq Strays(j)
  <2>1. /\ IsFiniteSet(Strays(j)') /\ Cardinality(Strays(j)') <= Cardinality(Strays(j))
        /\ Cardinality(Strays(j)') \in Nat
    BY <1>1, <1>2, FS_Subset, FS_CardinalityType
  <2>. QED
    BY <1>1, <2>1
<1>3. CASE Strays(j)' \subseteq Strays(j) \cup {x} /\ (MayDeliver(j)' => MayDeliver(j))
  <2>1. /\ IsFiniteSet(Strays(j)') /\ Cardinality(Strays(j)') <= Cardinality(Strays(j)) + 1
        /\ Cardinality(Strays(j)') \in Nat
    BY <1>1, <1>3, OneMoreElement
  <2>. QED
    BY <1>1, <1>3, <2>1
<1>. QED
  BY <1>2, <1>3 DEF OneMoreRun

\* A run that moves on, if it had posted then to report what it would have reported.
LEMMA MoveAddsNothing ==
  ASSUME NEW w \in Workers, NEW p, MovesTo(w, p), UNCHANGED <<bull, lock>>,
         p \in PreDispatch => worker[w].pc \in PreDispatch,
         Spent(w) => TellsOn(w, p) /\ p \notin {"catch_read", "catch_write"}
  PROVE  NothingMore
<1>. SUFFICES ASSUME NEW j \in Jobs
              PROVE  Strays(j)' \subseteq Strays(j) /\ (MayDeliver(j)' => MayDeliver(j))
  BY DEF NothingMore
<1>1. Strays(j)' \subseteq Strays(j)
  BY DEF Strays, MovesTo, GoesTo
<1>2. \A v \in Workers : Holds(v, j) /\ Spent(v) => (Holds(v, j) /\ Spent(v))'
  BY DEF Spent, Holds, MovesTo, TellsOn, GoesTo
<1>3. MayDeliver(j)' => MayDeliver(j)
  BY <1>2 DEF MayDeliver
<1>. QED
  BY <1>1, <1>3

\* the steps of a run that post nothing and do not end it
LEMMA MoveKeepsPaid ==
  ASSUME LinkInv, LinkInv', QueueInv, PostedPc, PaidFor, NEW w \in Workers, RunStep(w),
         ~Dispatch(w), ~Finish(w)
  PROVE  PaidFor'
<1>0. UNCHANGED <<bull, lock, posts, faults>>
  BY DEF RunStep, FetchJob, AcquireSlot, MarkProcessing, FetchDraft, FetchAccount, MarkDone,
         MarkPublished, AuditLog, CatchRead, CatchWrite, ReleaseGet, ReleaseDel
<1>1. ASSUME NothingMore
      PROVE  PaidFor'
  BY <1>0, <1>1, QuietPosts DEF LinkInv, TypeOK
<1>2. CASE FetchJob(w) \/ AcquireSlot(w) \/ MarkProcessing(w) \/ FetchDraft(w) \/ FetchAccount(w)
  <2>1. worker[w].pc \in PreDispatch
    BY <1>2 DEF FetchJob, AcquireSlot, MarkProcessing, FetchDraft, FetchAccount, PreDispatch, PrePost
  <2>2. ~Spent(w)
    BY <2>1 DEF PostedPc, Spent, PreDispatch
  <2>3. PICK p : MovesTo(w, p)
    BY <1>2, RunsGoOn
  <2>. QED
    BY <1>0, <1>1, <2>1, <2>2, <2>3, MoveAddsNothing
<1>3. CASE CatchRead(w) \/ CatchWrite(w)
  <2>1. ~Spent(w)
    BY <1>3 DEF CatchRead, CatchWrite, Spent
  <2>2. PICK p : MovesTo(w, p) /\ p \notin PreDispatch
    BY <1>3, RunsGoOn DEF PreDispatch, PrePost
  <2>. QED
    BY <1>0, <1>1, <2>1, <2>2, MoveAddsNothing
<1>4. CASE MarkDone(w) \/ MarkPublished(w) \/ AuditLog(w) \/ ReleaseGet(w) \/ ReleaseDel(w)
  <2>1. \E p : worker' = [worker EXCEPT ![w].pc = p]
    BY Zenon, <1>4 DEF MarkDone, MarkPublished, AuditLog, ReleaseGet, ReleaseDel
  <2>2. PICK p : worker' = [worker EXCEPT ![w].pc = p]
    BY <2>1
  <2>3. TellsOn(w, p) /\ MovesTo(w, p)
    BY Zenon, <2>2, ThrowsStay, FieldMoves
  <2>4. p = worker'[w].pc
    BY <2>3 DEF TellsOn, GoesTo
  <2>5. worker'[w].pc \in {"mark_published", "audit", "release_get", "release_del", "finish"}
    BY <1>4, RunsGoOn DEF MovesTo, GoesTo
  <2>. QED
    BY <1>0, <1>1, <2>3, <2>4, <2>5, MoveAddsNothing DEF PreDispatch, PrePost
<1>. QED
  BY <1>2, <1>3, <1>4 DEF RunStep

\* Only the catch block and the end of a run change what it will tell the queue.
LEMMA TellsTheSame ==
  ASSUME LinkInv, NEW w \in Workers, RunStep(w), ~CatchWrite(w), ~Finish(w)
  PROVE  \E p : TellsOn(w, p)
<1>1. \A b : Fail(w, b) => TellsOn(w, "catch_read")
  BY Zenon, ThrowsStay DEF Fail
<1>2. CASE AcquireSlot(w)
  <2>1. \A x : worker' = [worker EXCEPT ![w] = [@ EXCEPT !.pc = "mark_processing", !.slot = x]]
                => TellsOn(w, "mark_processing")
    BY Zenon, ThrowsStay
  <2>2. \A x : worker' = [worker EXCEPT ![w] = [@ EXCEPT !.pc = "acquire", !.count = x]]
                => TellsOn(w, "acquire")
    BY Zenon, ThrowsStay
  <2>. QED
    BY Zenon, <1>1, <1>2, <2>1, <2>2 DEF AcquireSlot
<1>3. CASE FetchDraft(w)
  <2>1. \A x : worker' = [worker EXCEPT ![w] = [@ EXCEPT !.pc = "fetch_account", !.text = x]]
                => TellsOn(w, "fetch_account")
    BY Zenon, ThrowsStay
  <2>. QED
    BY Zenon, <1>1, <1>3, <2>1 DEF FetchDraft
<1>4. CASE FetchAccount(w)
  BY Zenon, <1>1, <1>4, ThrowsStay DEF FetchAccount
<1>5. CASE Dispatch(w)
  <2>1. worker' = [worker EXCEPT ![w] = [@ EXCEPT !.pc = "mark_done", !.posted = TRUE]]
          => TellsOn(w, "mark_done")
    BY Zenon, ThrowsStay
  <2>. QED
    BY <1>1, <1>5, <2>1 DEF Dispatch
<1>6. CASE CatchRead(w)
  <2>1. \A x : worker' = [worker EXCEPT ![w] = [@ EXCEPT !.pc = "catch_write", !.count = x]]
                => TellsOn(w, "catch_write")
    BY Zenon, ThrowsStay
  <2>. QED
    BY Zenon, <1>6, <2>1 DEF CatchRead
<1>7. CASE \/ FetchJob(w) \/ MarkProcessing(w) \/ MarkDone(w) \/ MarkPublished(w) \/ AuditLog(w)
           \/ ReleaseGet(w) \/ ReleaseDel(w)
  BY Zenon, <1>7, ThrowsStay
  DEF FetchJob, MarkProcessing, MarkDone, MarkPublished, AuditLog, ReleaseGet, ReleaseDel
<1>. QED
  BY <1>2, <1>3, <1>4, <1>5, <1>6, <1>7 DEF RunStep

\* A run decides to throw when it leaves its catch block, or when its first query failed.
LEMMA ThrowsKept ==
  ASSUME LinkInv, ThrowsLast, [Next]_vars
  PROVE  ThrowsLast'
<1>1. ASSUME NEW w \in Workers, \A v \in Workers \ {w} : worker'[v] = worker[v],
             ~worker'[w].throws \/ worker'[w].pc \in {"release_get", "release_del", "finish"}
      PROVE  ThrowsLast'
  BY <1>1 DEF ThrowsLast
<1>2. ASSUME NEW w \in Workers, RunStep(w), ~Finish(w)
      PROVE  ThrowsLast'
  <2>1. CASE CatchWrite(w)
    BY <2>1, <1>1, RunsGoOn DEF MovesTo, GoesTo
  <2>2. CASE ~CatchWrite(w)
    <3>1. /\ worker'[w].throws = worker[w].throws
          /\ \A v \in Workers \ {w} : worker'[v] = worker[v]
      BY <1>2, <2>2, TellsTheSame DEF TellsOn, GoesTo
    <3>2. CASE ReleaseGet(w) \/ ReleaseDel(w)
      BY <3>1, <3>2, <1>1, RunsGoOn DEF MovesTo, GoesTo
    <3>3. CASE ~ReleaseGet(w) /\ ~ReleaseDel(w)
      <4>1. worker[w].pc \notin {"release_get", "release_del", "finish"}
        BY <1>2, <2>2, <3>3
        DEF RunStep, FetchJob, AcquireSlot, MarkProcessing, FetchDraft, FetchAccount, Dispatch,
            MarkDone, MarkPublished, AuditLog, CatchRead
      <4>. QED
        BY <3>1, <4>1, <1>1 DEF ThrowsLast
    <3>. QED
      BY <3>2, <3>3
  <2>. QED
    BY <2>1, <2>2
<1>3. ASSUME NEW w \in Workers, Finish(w) \/ Crash(w) \/ \E j \in Jobs : Take(w, j)
      PROVE  ThrowsLast'
  <2>1. ~worker'[w].throws /\ \A v \in Workers \ {w} : worker'[v] = worker[v]
    <3>1. CASE Finish(w)
      BY <3>1, StateTypes DEF Finish, IdleWorker
    <3>2. CASE Crash(w)
      BY <3>2, StateTypes DEF Crash, IdleWorker
    <3>3. ASSUME NEW j \in Jobs, Take(w, j)
          PROVE  ~worker'[w].throws /\ \A v \in Workers \ {w} : worker'[v] = worker[v]
      BY <3>3, StateTypes DEF Take, IdleWorker
    <3>. QED
      BY <1>3, <3>1, <3>2, <3>3
  <2>. QED
    BY <2>1, <1>1
<1>4. ASSUME NEW w \in Workers, CallFails(w)
      PROVE  ThrowsLast'
  <2>1. \A b : Fail(w, b) => TellsOn(w, "catch_read")
    BY Zenon, ThrowsStay DEF Fail
  <2>2. CASE worker[w].pc \in InTry \cup {"acquire"} /\ Fail(w, TRUE)
    BY <2>1, <2>2, <1>1 DEF TellsOn, GoesTo, ThrowsLast, InTry
  <2>3. CASE /\ worker[w].pc = "catch_read"
             /\ worker' = [worker EXCEPT ![w] = [@ EXCEPT !.pc = "catch_write", !.count = 0]]
    <3>1. TellsOn(w, "catch_write")
      BY Zenon, <2>3, ThrowsStay
    <3>. QED
      BY <3>1, <2>3, <1>1 DEF TellsOn, GoesTo, ThrowsLast
  <2>4. CASE worker[w].pc \in {"fetch_job", "catch_write", "release_get", "release_del"}
    <3>1. \/ worker' = [worker EXCEPT ![w] = [@ EXCEPT !.pc = "finish", !.throws = TRUE]]
          \/ worker' = [worker EXCEPT ![w] = [@ EXCEPT !.pc = Leaving(w), !.throws = Requeues(w)]]
          \/ worker' = [worker EXCEPT ![w].pc = "finish"]
      BY <1>4, <2>4 DEF CallFails, InTry
    <3>2. MovesTo(w, "release_get") \/ MovesTo(w, "finish")
      BY Zenon, <3>1, FieldMoves DEF Leaving
    <3>. QED
      BY <3>2, <1>1 DEF MovesTo, GoesTo
  <2>. QED
    BY <1>4, <2>2, <2>3, <2>4 DEF CallFails
<1>5. ASSUME UNCHANGED worker
      PROVE  ThrowsLast'
  BY <1>5 DEF ThrowsLast
<1>6. CASE ApiStep
  BY Zenon, <1>5, <1>6
  DEF ApiStep, ScheduleCheckDraft, ScheduleCheckAccounts, ScheduleInsertJob, ScheduleEnqueue, ScheduleMarkQueued, ScheduleMarkDraft, CancelCheck, CancelUpdate, CancelRemove, CancelCount, CancelRevert, ApproveCheck, ApproveUpdate, RegenerateFetch, RegenerateUpdate, DisconnectAccount, EraseSubject
<1>. QED
  BY <1>2, <1>3, <1>4, <1>5, <1>6
  DEF Next, WorkerStep, FaultStep, StalledCheck, SlotExpires, TokenExpires, RequestFails, vars

\* A dispatch uses up what its run was to post; every further post is a fault.
LEMMA DispatchIsPaid ==
  ASSUME LinkInv, LinkInv', QueueInv, PostedPc, ThrowsLast, PaidFor,
         NEW w \in Workers, Dispatch(w)
  PROVE  PaidFor'
<1>. DEFINE k == worker[w].job
<1>1. /\ UNCHANGED <<bull, lock>> /\ worker[w].pc = "dispatch" /\ ~worker[w].posted
      /\ k \in Jobs /\ ~worker[w].throws
  BY RunTypes DEF Dispatch, PostedPc, PrePost, Working, ThrowsLast
<1>2. PICK unacked \in Nat :
        /\ faults' = faults + unacked
        /\ \/ /\ posts' = [posts EXCEPT ![k] = @ + unacked + 1]
              /\ worker' = [worker EXCEPT ![w] = [@ EXCEPT !.pc = "mark_done", !.posted = TRUE]]
           \/ /\ posts' = [posts EXCEPT ![k] = @ + unacked]
              /\ \E b \in BOOLEAN : Fail(w, b)
  BY <1>1 DEF Dispatch, MaxRetries
<1>3. PICK p \in {"mark_done", "catch_read"} : GoesTo(w, p)
  <2>1. \A b : Fail(w, b) => GoesTo(w, "catch_read")
    BY Zenon, FieldMoves DEF Fail, MovesTo
  <2>2. worker' = [worker EXCEPT ![w] = [@ EXCEPT !.pc = "mark_done", !.posted = TRUE]]
          => GoesTo(w, "mark_done")
    BY Zenon, FieldMoves
  <2>. QED
    BY <1>2, <2>1, <2>2
<1>. SUFFICES ASSUME NEW j \in Jobs
              PROVE  /\ IsFiniteSet(Strays(j)')
                     /\ posts'[j] + Cardinality(Strays(j)') + (IF MayDeliver(j)' THEN 1 ELSE 0)
                          <= 1 + faults'
  BY DEF PaidFor
<1>4. /\ IsFiniteSet(Strays(j)) /\ posts[j] \in Nat /\ faults \in Nat
      /\ posts[j] + Cardinality(Strays(j)) + (IF MayDeliver(j) THEN 1 ELSE 0) <= 1 + faults
      /\ Cardinality(Strays(j)) \in Nat
  BY FS_CardinalityType DEF PaidFor, LinkInv, TypeOK
<1>5. Strays(j)' = Strays(j) \ {w}
  BY <1>1, <1>3 DEF Strays, GoesTo, PreDispatch, PrePost
<1>6. /\ IsFiniteSet(Strays(j)') /\ Cardinality(Strays(j)') \in Nat
      /\ Cardinality(Strays(j)') <= Cardinality(Strays(j))
      /\ w \in Strays(j) => Cardinality(Strays(j)') = Cardinality(Strays(j)) - 1
  BY <1>4, <1>5, OneLessElement
<1>7. \A v \in Workers : Holds(v, j) /\ Spent(v) => (Holds(v, j) /\ Spent(v))'
  BY <1>1, <1>3 DEF Spent, Holds, GoesTo
<1>8. MayDeliver(j)' => MayDeliver(j)
  BY <1>1, <1>7 DEF MayDeliver
<1>9. CASE posts'[j] <= posts[j] + unacked
  BY <1>2, <1>4, <1>6, <1>8, <1>9, LinkInv' DEF LinkInv, TypeOK
<1>10. CASE /\ j = k /\ posts' = [posts EXCEPT ![k] = @ + unacked + 1]
            /\ worker' = [worker EXCEPT ![w] = [@ EXCEPT !.pc = "mark_done", !.posted = TRUE]]
  <2>1. posts'[j] = posts[j] + unacked + 1
    BY <1>10 DEF LinkInv, TypeOK
  <2>2. CASE w \in Strays(j)
    BY <1>2, <1>4, <1>6, <1>8, <2>1, <2>2
  <2>3. CASE w \notin Strays(j)
    <3>1. Holds(w, j)
      BY <1>1, <1>10, <2>3 DEF Strays, Holds, PreDispatch, PrePost
    <3>2. MayDeliver(j)
      BY <1>1, <3>1, ConstantsAssumption DEF Holds, Spent, MayDeliver, QueueInv, LockIsActive
    <3>3. GoesTo(w, "mark_done") /\ worker'[w].posted /\ TellsOn(w, "mark_done")
      BY Zenon, <1>10, FieldMoves, ThrowsStay
    <3>4. (Holds(w, j) /\ Spent(w))'
      BY <1>1, <3>1, <3>3 DEF Holds, Spent, GoesTo, TellsOn
    <3>5. bull'[j] = "active"
      BY <1>1, <3>1, ConstantsAssumption DEF Holds, QueueInv, LockIsActive
    <3>6. ~MayDeliver(j)'
      BY <3>4, <3>5 DEF MayDeliver
    <3>. QED
      BY <1>2, <1>4, <1>6, <2>1, <3>2, <3>6
  <2>. QED
    BY <2>2, <2>3
<1>. QED
  BY <1>2, <1>4, <1>6, <1>9, <1>10 DEF LinkInv, TypeOK

\* A job that is handed out was to be posted already.
LEMMA TakeIsPaid ==
  ASSUME LinkInv, LinkInv', QueueInv, PostedPc, PaidFor,
         NEW w \in Workers, NEW k \in Jobs, Take(w, k)
  PROVE  PaidFor'
<1>1. /\ worker[w].pc = "idle" /\ ~worker[w].posted
      /\ bull[k] = "waiting" /\ lock[k] = None
      /\ bull' = [bull EXCEPT ![k] = "active"] /\ lock' = [lock EXCEPT ![k] = w]
      /\ UNCHANGED <<posts, faults>>
  BY DEF Take, PostedPc, QueueInv, LockIsActive
<1>2. /\ worker'[w].job = k /\ \A v \in Workers \ {w} : worker'[v] = worker[v]
  BY StateTypes DEF Take, IdleWorker
<1>3. \A j \in Jobs : Strays(j)' \subseteq Strays(j)
  <2>. SUFFICES ASSUME NEW j \in Jobs, NEW v \in Workers, worker'[v].job = j, lock'[j] # v,
                       worker'[v].pc \in PreDispatch
                PROVE  worker[v].job = j /\ lock[j] # v /\ worker[v].pc \in PreDispatch
    BY DEF Strays
  <2>1. v # w
    BY <1>1, <1>2 DEF LinkInv, TypeOK
  <2>. QED
    BY <1>1, <1>2, <2>1, ConstantsAssumption DEF LinkInv, TypeOK
<1>4. \A j \in Jobs \ {k} : MayDeliver(j)' => MayDeliver(j)
  <2>. SUFFICES ASSUME NEW j \in Jobs \ {k}, MayDeliver(j)' PROVE MayDeliver(j)
    OBVIOUS
  <2>1. bull'[j] = bull[j] /\ lock'[j] = lock[j]
    BY <1>1 DEF LinkInv, TypeOK
  <2>2. \A v \in Workers : Holds(v, j) /\ Spent(v) => (Holds(v, j) /\ Spent(v))'
    BY <1>1, <1>2, <2>1 DEF Spent, Holds
  <2>. QED
    BY <2>1, <2>2 DEF MayDeliver
<1>5. MayDeliver(k)
  BY <1>1 DEF MayDeliver
<1>6. NothingMore
  BY <1>3, <1>4, <1>5 DEF NothingMore
<1>. QED
  BY <1>1, <1>6, QuietPosts DEF LinkInv, TypeOK

\* A run that reports success closes the job, and one that does not had not used it up.
LEMMA FinishIsPaid ==
  ASSUME LinkInv, LinkInv', QueueInv, PaidFor, NEW w \in Workers, Finish(w)
  PROVE  PaidFor'
<1>0. PICK k \in Jobs : k = worker[w].job
  BY RunTypes DEF Finish, Working
<1>1. worker[w].pc = "finish" /\ UNCHANGED <<posts, faults>>
  BY DEF Finish
<1>2. /\ worker'[w].pc = "idle" /\ worker'[w].job = None
      /\ \A v \in Workers \ {w} : worker'[v] = worker[v]
  BY StateTypes DEF Finish, IdleWorker
<1>3. /\ \A j \in Jobs \ {k} : bull'[j] = bull[j] /\ lock'[j] = lock[j]
      /\ lock[k] # w => bull' = bull /\ lock' = lock
      /\ lock[k] = w => lock'[k] = None
  <2>1. CASE lock[k] # w
    BY <1>0, <2>1 DEF Finish
  <2>2. CASE lock[k] = w
    BY <1>0, <2>2 DEF Finish, LinkInv, TypeOK
  <2>. QED
    BY <2>1, <2>2
<1>4. \A j \in Jobs : Strays(j)' \subseteq Strays(j)
  <2>. SUFFICES ASSUME NEW j \in Jobs, NEW v \in Workers, worker'[v].job = j, lock'[j] # v,
                       worker'[v].pc \in PreDispatch
                PROVE  worker[v].job = j /\ lock[j] # v /\ worker[v].pc \in PreDispatch
    BY DEF Strays
  <2>1. v # w
    BY <1>2 DEF PreDispatch, PrePost
  <2>. QED
    BY <1>2, <1>3, <2>1
<1>5. \A j \in Jobs : j # k \/ lock[k] # w => (MayDeliver(j)' => MayDeliver(j))
  <2>. SUFFICES ASSUME NEW j \in Jobs, j # k \/ lock[k] # w, MayDeliver(j)' PROVE MayDeliver(j)
    OBVIOUS
  <2>1. bull'[j] = bull[j] /\ lock'[j] = lock[j]
    BY <1>3
  <2>2. ~Holds(w, j)
    BY <1>0 DEF Holds
  <2>3. \A v \in Workers : Holds(v, j) /\ Spent(v) => (Holds(v, j) /\ Spent(v))'
    BY <1>2, <2>1, <2>2 DEF Spent, Holds
  <2>. QED
    BY <2>1, <2>3 DEF MayDeliver
<1>6. lock[k] = w => (MayDeliver(k)' => MayDeliver(k))
  <2>. SUFFICES ASSUME lock[k] = w, MayDeliver(k)' PROVE MayDeliver(k)
    OBVIOUS
  <2>1. bull[k] = "active"
    BY <1>1, ConstantsAssumption DEF QueueInv, LockIsActive
  <2>2. worker[w].throws
    <3>1. bull'[k] \in {"none", "waiting", "active"}
      BY DEF MayDeliver
    <3>. QED
      BY <1>0, <3>1 DEF Finish, LinkInv, TypeOK
  <2>3. \A v \in Workers : Holds(v, k) => v = w
    BY DEF Holds
  <2>. QED
    BY <2>1, <2>2, <2>3 DEF MayDeliver, Spent
<1>7. NothingMore
  BY <1>1, <1>4, <1>5, <1>6 DEF NothingMore
<1>. QED
  BY <1>1, <1>7, QuietPosts DEF LinkInv, TypeOK

\* A crash, a lost lock or a failed call lets one more post happen, and is a fault.
LEMMA FaultIsPaid ==
  ASSUME LinkInv, LinkInv', QueueInv, PostedPc, PaidFor, FaultStep
  PROVE  PaidFor'
<1>1. ASSUME NEW w \in Workers, CallFails(w)
      PROVE  PaidFor'
  <2>1. /\ UNCHANGED <<bull, lock, posts>> /\ faults' = faults + 1
    BY <1>1 DEF CallFails
  <2>2. PICK p : MovesTo(w, p) /\ p \notin PreDispatch
    BY <1>1, RunsGoOn DEF PreDispatch, PrePost
  <2>3. \A j \in Jobs : Strays(j)' \subseteq Strays(j)
    BY <2>1, <2>2 DEF Strays, MovesTo, GoesTo
  <2>4. OneMoreRun(w)
    BY <2>3 DEF OneMoreRun
  <2>. QED
    BY <2>1, <2>4, PaidPosts DEF LinkInv
<1>2. ASSUME NEW w \in Workers, Crash(w)
      PROVE  PaidFor'
  <2>1. /\ UNCHANGED <<bull, lock, posts>> /\ faults' = faults + 1
    BY <1>2 DEF Crash
  <2>2. worker'[w].pc = "idle" /\ \A v \in Workers \ {w} : worker'[v] = worker[v]
    BY <1>2, StateTypes DEF Crash, IdleWorker
  <2>3. \A j \in Jobs : Strays(j)' \subseteq Strays(j)
    BY <2>1, <2>2 DEF Strays, PreDispatch, PrePost
  <2>4. OneMoreRun(w)
    BY <2>3 DEF OneMoreRun
  <2>. QED
    BY <2>1, <2>4, PaidPosts DEF LinkInv
<1>3. ASSUME NEW k \in Jobs, StalledCheck(k)
      PROVE  PaidFor'
  <2>. DEFINE w == lock[k]
  <2>1. /\ bull[k] = "active" /\ UNCHANGED <<worker, posts>>
        /\ lock' = [lock EXCEPT ![k] = None]
        /\ \A j \in Jobs \ {k} : bull'[j] = bull[j] /\ lock'[j] = lock[j]
    BY <1>3 DEF StalledCheck, LinkInv, TypeOK
  <2>2. \A j \in Jobs \ {k} : Strays(j)' \subseteq Strays(j) /\ (MayDeliver(j)' => MayDeliver(j))
    <3>. SUFFICES ASSUME NEW j \in Jobs \ {k}
                  PROVE  Strays(j)' \subseteq Strays(j) /\ (MayDeliver(j)' => MayDeliver(j))
      OBVIOUS
    <3>1. \A v \in Workers : (Holds(v, j) /\ Spent(v))' <=> Holds(v, j) /\ Spent(v)
      BY <2>1 DEF Holds, Spent
    <3>. QED
      BY <2>1, <3>1 DEF Strays, MayDeliver
  <2>3. CASE worker[w].job # k /\ UNCHANGED faults
    <3>1. Strays(k)' \subseteq Strays(k)
      BY <2>1, <2>3 DEF Strays
    <3>2. MayDeliver(k)
      BY <2>1, <2>3 DEF MayDeliver, Holds
    <3>3. NothingMore
      BY <2>2, <3>1, <3>2 DEF NothingMore
    <3>. QED
      BY <2>1, <2>3, <3>3, QuietPosts DEF LinkInv, TypeOK
  <2>4. CASE worker[w].job = k /\ faults' = faults + 1
    <3>1. Strays(k)' \subseteq Strays(k) \cup {w}
      BY <2>1 DEF Strays
    <3>2. ~MayDeliver(k) => Strays(k)' \subseteq Strays(k)
      <4>. SUFFICES ASSUME ~MayDeliver(k) PROVE Strays(k)' \subseteq Strays(k)
        OBVIOUS
      <4>1. PICK v \in Workers : Holds(v, k) /\ Spent(v)
        BY <2>1 DEF MayDeliver
      <4>2. v = w /\ worker[v].pc \notin PreDispatch
        BY <4>1 DEF Holds, Spent, PostedPc, PreDispatch
      <4>. QED
        BY <2>1, <4>2 DEF Strays
    <3>3. OneMoreRun(w)
      BY <2>2, <3>1, <3>2 DEF OneMoreRun
    <3>. QED
      BY <2>1, <2>4, <3>3, PaidPosts DEF LinkInv
  <2>. QED
    BY <1>3, <2>3, <2>4 DEF StalledCheck
<1>4. ASSUME UNCHANGED <<bull, lock, worker, posts>>, faults' = faults + 1
      PROVE  PaidFor'
  <2>1. \A j \in Jobs : Strays(j)' \subseteq Strays(j)
    BY <1>4 DEF Strays
  <2>2. OneMoreRun(None)
    BY <2>1 DEF OneMoreRun
  <2>. QED
    BY <1>4, <2>2, PaidPosts DEF LinkInv
<1>. QED
  BY <1>1, <1>2, <1>3, <1>4 DEF FaultStep, SlotExpires, TokenExpires, RequestFails

\* A request puts a job into the queue that was not in it, or takes one out.
LEMMA ApiIsPaid ==
  ASSUME LinkInv, LinkInv', QueueInv, PaidFor, ApiStep
  PROVE  PaidFor'
<1>1. ASSUME UNCHANGED <<lock, worker, posts>>, faults <= faults',
             \A j \in Jobs : \/ bull'[j] = bull[j] \/ bull[j] = "none"
                             \/ bull'[j] = "removed"
      PROVE  PaidFor'
  <2>1. ASSUME NEW j \in Jobs
        PROVE  Strays(j)' \subseteq Strays(j) /\ (MayDeliver(j)' => MayDeliver(j))
    <3>1. \A v \in Workers : (Holds(v, j) /\ Spent(v))' <=> Holds(v, j) /\ Spent(v)
      BY <1>1 DEF Holds, Spent
    <3>. QED
      BY <1>1, <3>1 DEF Strays, MayDeliver
  <2>2. NothingMore
    BY <2>1 DEF NothingMore
  <2>. QED
    BY <1>1, <2>2, QuietPosts DEF LinkInv
<1>2. faults \in Nat
  BY DEF LinkInv, TypeOK
<1>3. ASSUME NEW r \in Requests, ScheduleEnqueue(r)
      PROVE  PaidFor'
  <2>1. bull[req[r].job] = "none"
    BY <1>3 DEF ScheduleEnqueue, QueueInv, EnqueueOnce
  <2>. QED
    BY <1>1, <1>2, <1>3, <2>1 DEF ScheduleEnqueue, LinkInv, TypeOK
<1>4. ASSUME NEW r \in Requests, CancelRemove(r)
      PROVE  PaidFor'
  <2>1. /\ UNCHANGED <<lock, worker, posts>> /\ faults <= faults'
    BY <1>2, <1>4 DEF CancelRemove
  <2>2. bull' = bull \/ bull' = [bull EXCEPT ![req[r].job] = "removed"]
    BY <1>4 DEF CancelRemove
  <2>. QED
    BY <1>1, <2>1, <2>2 DEF LinkInv, TypeOK
<1>5. ASSUME UNCHANGED <<bull, lock, worker, posts, faults>>
      PROVE  PaidFor'
  BY <1>1, <1>2, <1>5
<1>. QED
  BY Zenon, <1>3, <1>4, <1>5
  DEF ApiStep, ScheduleCheckDraft, ScheduleCheckAccounts, ScheduleInsertJob, ScheduleMarkQueued, ScheduleMarkDraft, CancelCheck, CancelUpdate, CancelCount, CancelRevert, ApproveCheck, ApproveUpdate, RegenerateFetch, RegenerateUpdate, DisconnectAccount, EraseSubject

\* Every step pays for the posts it makes possible.
LEMMA PaidStep ==
  IInv /\ ThrowsLast /\ PaidFor /\ [Next]_vars => PaidFor'
<1>. SUFFICES ASSUME IInv, ThrowsLast, PaidFor, [Next]_vars PROVE PaidFor'
  OBVIOUS
<1>1. LinkInv /\ LinkInv' /\ QueueInv /\ PostedPc
  BY IInvStep DEF IInv, PostInv
<1>2. CASE UNCHANGED vars
  BY <1>2 DEF vars, PaidFor, Strays, MayDeliver, Holds, Spent
<1>. QED
  BY <1>1, <1>2, ApiIsPaid, TakeIsPaid, MoveKeepsPaid, DispatchIsPaid, FinishIsPaid, FaultIsPaid
  DEF Next, WorkerStep

\* BullMQ delivers at least once, yet the platform holds one post of a job and no more than one
\* further post for each crash, lost lock, failed query or lost answer: as long as nothing
\* fails, no order of scheduling, cancelling, rescheduling, erasing and retrying posts twice.
THEOREM DuplicatesArePaidFor == Spec => []DuplicatesCostFaults
<1>1. Init => ThrowsLast /\ PaidFor
  <2>. SUFFICES ASSUME Init PROVE ThrowsLast /\ PaidFor
    OBVIOUS
  <2>1. \A j \in Jobs : Strays(j) = {}
    BY DEF Init, Strays, PreDispatch, PrePost, IdleWorker
  <2>2. \A j \in Jobs : IsFiniteSet(Strays(j)) /\ Cardinality(Strays(j)) = 0
    BY <2>1, FS_EmptySet
  <2>. QED
    BY <2>2 DEF Init, ThrowsLast, PaidFor, IdleWorker
<1>2. IInv /\ PaidFor => DuplicatesCostFaults
  <2>. SUFFICES ASSUME IInv, PaidFor, NEW j \in Jobs PROVE posts[j] <= 1 + faults
    BY DEF DuplicatesCostFaults
  <2>1. /\ posts[j] \in Nat /\ faults \in Nat /\ Cardinality(Strays(j)) \in Nat
        /\ posts[j] + Cardinality(Strays(j)) + (IF MayDeliver(j) THEN 1 ELSE 0) <= 1 + faults
    BY FS_CardinalityType DEF PaidFor, IInv, LinkInv, TypeOK
  <2>. QED
    BY <2>1
<1>3. IInv /\ ThrowsLast /\ [Next]_vars => ThrowsLast'
  BY ThrowsKept DEF IInv
<1>. QED
  BY <1>1, <1>2, <1>3, Invariance, PaidStep, PTL DEF Spec

=============================================================================
