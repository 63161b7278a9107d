--------------------------- MODULE PublishPipeline ---------------------------
(***************************************************************************)
(* The scheduler of ChampsFlow: a draft is approved, scheduled to one or   *)
(* more social accounts, and published by a pool of BullMQ workers.        *)
(*                                                                         *)
(*   API      apps/api/src/routes/schedules.ts, routes/drafts.ts           *)
(*   worker   apps/worker/src/jobs/publish.ts                              *)
(*   queue    BullMQ, seen through the calls the two make                  *)
(*                                                                         *)
(* Every db.query of the code is a transaction of its own, so every query  *)
(* is one action here and requests and workers interleave between queries. *)
(* All jobs belong to one tenant: rows, slots and drafts of two tenants    *)
(* never meet.                                                             *)
(***************************************************************************)
EXTENDS Naturals, FiniteSets

CONSTANTS
  Drafts, Accounts,
  Jobs,          \* publish_jobs ids the database can hand out
  Workers,       \* processing slots of the BullMQ worker pool
  Requests,      \* API requests that may be made
  MaxConcurrent, \* MAX_CONCURRENT_PER_TENANT, the tenant's semaphore keys
  None,
  MaxVersion,    \* bound: texts a draft goes through, 0 is the generated one
  LeakyVersions, \* texts that checkEditorialLeaks refuses
  MaxAttempts,   \* MAX_ATTEMPTS of the worker and `attempts` of the queue
  MaxStalled,    \* BullMQ maxStalledCount, left at its default by the worker
  MaxFaults,     \* bound: crashes, failed queries, lost locks, expired tokens together
  ExpiryColumn   \* does social_accounts have the column the worker selects?

Versions == 0 .. MaxVersion
Slots == 0 .. MaxConcurrent - 1

ASSUME ConstantsAssumption ==
  /\ None \notin Jobs \cup Workers \cup Slots \cup Drafts \cup Accounts
  /\ MaxVersion \in Nat /\ LeakyVersions \subseteq Versions
  /\ MaxAttempts \in Nat \ {0} /\ MaxConcurrent \in Nat \ {0}
  /\ MaxStalled \in Nat /\ MaxFaults \in Nat
  /\ ExpiryColumn \in BOOLEAN

VARIABLES
  draftStatus, body,       \* drafts: status and current text
  revoked, expired,        \* social_accounts: revoked_at is set; the token is past its expiry
  status, attemptCount,    \* publish_jobs: status and attempt_count
  target,                  \* publish_jobs: draft_id and social_account_id
  bull, lock, bullAttempts, stalls,  \* BullMQ's view of a job
  slot,                    \* Redis: semaphore key -> job id it holds
  worker, req,             \* local state of worker runs and API requests
  faults,
  \* what happened, for the properties to speak about
  posts,       \* posts the platform holds for a job
  excuse,      \* posts of a job that left no record of it
  recorded,    \* the acknowledged post of the job stands recorded
  called,      \* jobs handed to a platform adapter at least once
  late,        \* jobs whose row the schedule request reopened behind the worker
  withdrawn,   \* jobs cancelled while nobody was working on them
  sentTexts    \* texts handed to a platform

draftVars == <<draftStatus, body>>
accountVars == <<revoked, expired>>
rowVars   == <<status, attemptCount, target>>
queueVars == <<bull, lock, bullAttempts, stalls>>
history   == <<posts, excuse, recorded, called, late, withdrawn, sentTexts>>
vars == <<draftVars, accountVars, rowVars, queueVars, slot, worker, req, faults, history>>

DraftStatus == {"draft", "approved", "scheduled", "published", "deleted"}
\* "none": the id is not in use yet; "deleted": erased with its draft
RowStatus   == {"none", "pending", "queued", "processing", "done", "failed",
                "cancelled", "deleted"}
ActiveRow   == {"pending", "queued", "processing"}
TerminalRow_NoDone == {"cancelled", "failed"}       \* mutant: a posted job is taken up again
TerminalRow_NoCancelled == {"done", "failed"}        \* mutant: a cancelled job is taken up
TerminalRow == {"done", "cancelled", "failed"}
BullState   == {"none", "waiting", "active", "completed", "failed", "removed"}

WorkerPc == {"idle", "fetch_job", "acquire", "mark_processing", "fetch_draft",
             "fetch_account", "dispatch", "mark_done", "mark_published", "audit",
             "catch_read", "catch_write", "release_get", "release_del", "finish"}
\* the run has passed the terminal-status guard and has not posted
PrePost  == {"acquire", "mark_processing", "fetch_draft", "fetch_account", "dispatch"}
\* a query at one of these points, when it fails, lands in the catch block
InTry    == {"mark_processing", "fetch_draft", "fetch_account", "mark_done",
             "mark_published", "audit"}
ReqPc == {"idle", "s_accounts", "s_insert", "s_enqueue", "s_mark_queued", "s_mark_draft",
          "c_update", "c_remove", "c_count", "c_revert", "a_update", "g_update", "finished"}

IdleWorker == [pc |-> "idle", job |-> None, text |-> 0, slot |-> None, posted |-> FALSE,
               retry |-> FALSE, count |-> 0, throws |-> FALSE]
IdleReq == [pc |-> "idle", draft |-> None, todo |-> {}, job |-> None, text |-> 0]

WorkerRec == [pc : WorkerPc, job : Jobs \cup {None}, text : Versions, slot : Slots \cup {None},
              posted : BOOLEAN, retry : BOOLEAN, count : Nat, throws : BOOLEAN]
ReqRec == [pc : ReqPc, draft : Drafts \cup {None}, todo : SUBSET Accounts,
           job : Jobs \cup {None}, text : Versions]

TypeOK ==
  /\ draftStatus \in [Drafts -> DraftStatus] /\ body \in [Drafts -> Versions]
  /\ revoked \in [Accounts -> BOOLEAN] /\ expired \in [Accounts -> BOOLEAN]
  /\ status \in [Jobs -> RowStatus] /\ attemptCount \in [Jobs -> Nat]
  /\ target \in [Jobs -> [draft : Drafts \cup {None}, account : Accounts \cup {None}]]
  /\ bull \in [Jobs -> BullState] /\ lock \in [Jobs -> Workers \cup {None}]
  /\ bullAttempts \in [Jobs -> Nat] /\ stalls \in [Jobs -> Nat]
  /\ slot \in [Slots -> Jobs \cup {None}]
  /\ worker \in [Workers -> WorkerRec] /\ req \in [Requests -> ReqRec]
  /\ faults \in Nat
  /\ posts \in [Jobs -> Nat] /\ excuse \in [Jobs -> Nat] /\ recorded \in [Jobs -> BOOLEAN]
  /\ called \subseteq Jobs /\ late \subseteq Jobs /\ withdrawn \subseteq Jobs
  /\ sentTexts \subseteq Versions

\* drafts as the generation route leaves them, or approved already when the text is clean
Init ==
  /\ draftStatus \in [Drafts -> {"draft", "approved"}] /\ body = [d \in Drafts |-> 0]
  /\ 0 \notin LeakyVersions \/ draftStatus = [d \in Drafts |-> "draft"]
  /\ revoked = [a \in Accounts |-> FALSE] /\ expired = [a \in Accounts |-> FALSE]
  /\ status = [j \in Jobs |-> "none"] /\ attemptCount = [j \in Jobs |-> 0]
  /\ target = [j \in Jobs |-> [draft |-> None, account |-> None]]
  /\ bull = [j \in Jobs |-> "none"] /\ lock = [j \in Jobs |-> None]
  /\ bullAttempts = [j \in Jobs |-> 0] /\ stalls = [j \in Jobs |-> 0]
  /\ slot = [s \in Slots |-> None]
  /\ worker = [w \in Workers |-> IdleWorker] /\ req = [r \in Requests |-> IdleReq]
  /\ faults = 0
  /\ posts = [j \in Jobs |-> 0] /\ excuse = [j \in Jobs |-> 0]
  /\ recorded = [j \in Jobs |-> FALSE]
  /\ called = {} /\ late = {} /\ withdrawn = {} /\ sentTexts = {}

\* UPDATE ... WHERE id = $1 touches a row that exists and no other
InTable(j) == status[j] \notin {"none", "deleted"}
SetRow(j, s) == status' = [status EXCEPT ![j] = IF InTable(j) THEN s ELSE @]
SetDraft(d, s) ==
  draftStatus' = [draftStatus EXCEPT ![d] = IF @ = "deleted" THEN @ ELSE s]

\* BullMQ gives the run of w on j its lock and has not given it to another since
Holds(w, j) == worker[w].job = j /\ lock[j] = w
Working(w) == worker[w].pc # "idle"

\* bookkeeping of the properties: the record of j's post no longer keeps the queue from
\* posting again. The run that posted answers for it until it ends; a run that has the
\* lock and did not post is no excuse, the guard on the row should have kept it out.
Reopened(j, guarded) ==
  /\ recorded' = [recorded EXCEPT ![j] = FALSE]
  /\ excuse' = [excuse EXCEPT ![j] =
       IF recorded[j] /\ ~guarded /\ ~\E w \in Workers : Holds(w, j) /\ worker[w].posted
         THEN @ + 1 ELSE @]
\* the run of w ends without a standing record of its post
RunLost(w, j) ==
  excuse' = [excuse EXCEPT ![j] =
       IF Holds(w, j) /\ worker[w].posted /\ ~recorded[j] THEN @ + 1 ELSE @]
\* the request answers its caller, and its local state is gone
Ends(r) == req' = [req EXCEPT ![r] = [IdleReq EXCEPT !.pc = "finished"]]
-----------------------------------------------------------------------------
(* POST /api/drafts/:id/schedule *)

ScheduleCheckDraft(r, d, accts) ==
  /\ req[r].pc = "idle" /\ accts # {}
  /\ draftStatus[d] = "approved"
  /\ req' = [req EXCEPT ![r] = [@ EXCEPT !.pc = "s_accounts", !.draft = d, !.todo = accts]]
  /\ UNCHANGED <<draftVars, accountVars, rowVars, queueVars, slot, worker, faults, history>>

ScheduleCheckAccounts(r) ==
  /\ req[r].pc = "s_accounts"
  /\ IF \E a \in req[r].todo : revoked[a] THEN Ends(r)
     ELSE req' = [req EXCEPT ![r].pc = "s_insert"]
  /\ UNCHANGED <<draftVars, accountVars, rowVars, queueVars, slot, worker, faults, history>>

\* the foreign key refuses a job of a draft that was erased meanwhile
ScheduleInsertJob(r) ==
  /\ req[r].pc = "s_insert"
  /\ \/ /\ draftStatus[req[r].draft] = "deleted"
        /\ Ends(r)
        /\ UNCHANGED rowVars
     \/ \E a \in req[r].todo, j \in Jobs :
          /\ draftStatus[req[r].draft] # "deleted" /\ status[j] = "none"
          /\ status' = [status EXCEPT ![j] = "pending"]
          /\ target' = [target EXCEPT ![j] = [draft |-> req[r].draft, account |-> a]]
          /\ req' = [req EXCEPT ![r] = [@ EXCEPT !.pc = "s_enqueue", !.job = j,
                                !.todo = req[r].todo \ {a}]]
          /\ UNCHANGED attemptCount
  /\ UNCHANGED <<draftVars, accountVars, queueVars, slot, worker, faults, history>>

ScheduleEnqueue(r) ==
  /\ req[r].pc = "s_enqueue"
  /\ bull' = [bull EXCEPT ![req[r].job] = "waiting"]
  /\ req' = [req EXCEPT ![r].pc = "s_mark_queued"]
  /\ UNCHANGED <<draftVars, accountVars, rowVars, lock, bullAttempts, stalls, slot, worker,
                 faults, history>>

\* the UPDATE does not look at the status it replaces
ScheduleMarkQueued(r) ==
  LET j == req[r].job IN
  /\ req[r].pc = "s_mark_queued"
  /\ SetRow(j, "queued")
  /\ req' = [req EXCEPT ![r].pc = IF req[r].todo = {} THEN "s_mark_draft" ELSE "s_insert"]
  /\ Reopened(j, FALSE)
  /\ late' = IF status[j] \notin {"pending", "deleted"} THEN late \cup {j} ELSE late
  /\ UNCHANGED <<draftVars, accountVars, attemptCount, target, queueVars, slot, worker, faults,
                 posts, called, withdrawn, sentTexts>>

ScheduleMarkDraft(r) ==
  /\ req[r].pc = "s_mark_draft"
  /\ SetDraft(req[r].draft, "scheduled")
  /\ Ends(r)
  /\ UNCHANGED <<body, accountVars, rowVars, queueVars, slot, worker, faults, history>>
-----------------------------------------------------------------------------
(* DELETE /api/schedules/:job_id *)

CancelCheck(r, j) ==
  /\ req[r].pc = "idle"
  /\ status[j] \in {"pending", "queued"}
  /\ req' = [req EXCEPT ![r] = [@ EXCEPT !.pc = "c_update", !.job = j, !.draft = target[j].draft]]
  /\ UNCHANGED <<draftVars, accountVars, rowVars, queueVars, slot, worker, faults, history>>

\* a worker run on j has read the row, or a schedule request is still to mark it queued
InUse(j) ==
  \/ \E w \in Workers : worker[w].job = j /\ worker[w].pc \notin {"idle", "fetch_job"}
  \/ \E r \in Requests : req[r].job = j /\ req[r].pc \in {"s_enqueue", "s_mark_queued"}

CancelUpdate(r) ==
  LET j == req[r].job IN
  /\ req[r].pc = "c_update"
  /\ SetRow(j, "cancelled")
  /\ req' = [req EXCEPT ![r].pc = "c_remove"]
  /\ withdrawn' = IF InTable(j) /\ ~InUse(j) THEN withdrawn \cup {j} ELSE withdrawn
  /\ UNCHANGED <<draftVars, accountVars, attemptCount, target, queueVars, slot, worker, faults,
                 posts, excuse, recorded, called, late, sentTexts>>

\* remove() throws on a job a worker has locked, and the route carries on
CancelRemove(r) ==
  LET j == req[r].job IN
  /\ req[r].pc = "c_remove"
  /\ \/ /\ bull[j] \notin {"none", "active"}
        /\ bull' = [bull EXCEPT ![j] = "removed"] /\ UNCHANGED faults
     \/ bull[j] \in {"none", "active"} /\ UNCHANGED <<bull, faults>>
     \/ faults < MaxFaults /\ faults' = faults + 1 /\ UNCHANGED bull
  /\ req' = [req EXCEPT ![r].pc = "c_count"]
  /\ UNCHANGED <<draftVars, accountVars, rowVars, lock, bullAttempts, stalls, slot, worker,
                 history>>

CancelCount(r) ==
  /\ req[r].pc = "c_count"
  /\ IF \E k \in Jobs : target[k].draft = req[r].draft /\ status[k] \in ActiveRow
       THEN Ends(r) ELSE req' = [req EXCEPT ![r].pc = "c_revert"]
  /\ UNCHANGED <<draftVars, accountVars, rowVars, queueVars, slot, worker, faults, history>>

CancelRevert(r) ==
  /\ req[r].pc = "c_revert"
  /\ draftStatus' = [draftStatus EXCEPT ![req[r].draft] =
       IF @ = "scheduled" THEN "approved" ELSE @]
  /\ Ends(r)
  /\ UNCHANGED <<body, accountVars, rowVars, queueVars, slot, worker, faults, history>>
-----------------------------------------------------------------------------
(* POST /api/drafts/:id/approve and /regenerate; erasure; disconnecting an account *)

\* the caller states the text it previewed; it must be the current one
ApproveCheck(r, d) ==
  /\ req[r].pc = "idle"
  /\ draftStatus[d] \in {"draft", "approved"}
  /\ body[d] \notin LeakyVersions
  /\ req' = [req EXCEPT ![r] = [@ EXCEPT !.pc = "a_update", !.draft = d, !.text = body[d]]]
  /\ UNCHANGED <<draftVars, accountVars, rowVars, queueVars, slot, worker, faults, history>>

ApproveUpdate(r) ==
  /\ req[r].pc = "a_update"
  /\ SetDraft(req[r].draft, "approved")
  /\ Ends(r)
  /\ UNCHANGED <<body, accountVars, rowVars, queueVars, slot, worker, faults, history>>

RegenerateFetch(r, d) ==
  /\ req[r].pc = "idle"
  /\ draftStatus[d] \notin {"published", "deleted"}
  /\ req' = [req EXCEPT ![r] = [@ EXCEPT !.pc = "g_update", !.draft = d]]
  /\ UNCHANGED <<draftVars, accountVars, rowVars, queueVars, slot, worker, faults, history>>

\* the new text replaces the old one whatever the draft's status is by now
RegenerateUpdate(r) ==
  LET d == req[r].draft IN
  /\ req[r].pc = "g_update"
  /\ body' = [body EXCEPT ![d] =
       IF draftStatus[d] # "deleted" /\ body[d] < MaxVersion THEN @ + 1 ELSE @]
  /\ Ends(r)
  /\ UNCHANGED <<draftStatus, accountVars, rowVars, queueVars, slot, worker, faults, history>>

DisconnectAccount(r, a) ==
  /\ req[r].pc = "idle" /\ ~revoked[a]
  /\ revoked' = [revoked EXCEPT ![a] = TRUE]
  /\ Ends(r)
  /\ UNCHANGED <<draftVars, expired, rowVars, queueVars, slot, worker, faults, history>>

\* one transaction: the drafts go, their publish_jobs with them (ON DELETE CASCADE), and
\* the accounts are revoked; the subject owns every draft and account of the model
EraseSubject(r) ==
  /\ req[r].pc = "idle" /\ \E d \in Drafts : draftStatus[d] # "deleted"
  /\ draftStatus' = [d \in Drafts |-> "deleted"]
  /\ status' = [j \in Jobs |-> IF status[j] = "none" THEN "none" ELSE "deleted"]
  /\ revoked' = [a \in Accounts |-> TRUE]
  /\ Ends(r)
  /\ UNCHANGED <<body, expired, attemptCount, target, queueVars, slot, worker, faults, history>>
-----------------------------------------------------------------------------
(* The worker: processPublishJob *)

\* the delay has passed and BullMQ hands the job to a free processing slot
Take(w, j) ==
  /\ worker[w].pc = "idle" /\ bull[j] = "waiting"
  /\ bull' = [bull EXCEPT ![j] = "active"] /\ lock' = [lock EXCEPT ![j] = w]
  /\ worker' = [worker EXCEPT ![w] = [IdleWorker EXCEPT !.pc = "fetch_job", !.job = j]]
  /\ UNCHANGED <<draftVars, accountVars, rowVars, bullAttempts, stalls, slot, req, faults,
                 history>>

\* mutant: only the row's existence is checked
FetchJob_NoGuard(w) ==
  LET j == worker[w].job IN
  /\ worker[w].pc = "fetch_job"
  /\ worker' = [worker EXCEPT ![w].pc = IF InTable(j) THEN "acquire" ELSE "finish"]
  /\ UNCHANGED <<draftVars, accountVars, rowVars, queueVars, slot, req, faults, history>>

\* no row, or a row in a terminal status: a no-op that completes the queue's job
FetchJob(w) ==
  LET j == worker[w].job IN
  /\ worker[w].pc = "fetch_job"
  /\ worker' = [worker EXCEPT ![w].pc =
       IF InTable(j) /\ status[j] \notin TerminalRow THEN "acquire" ELSE "finish"]
  /\ UNCHANGED <<draftVars, accountVars, rowVars, queueVars, slot, req, faults, history>>

\* an error inside the try block; a plain Error counts as retryable
Fail(w, retryable) ==
  worker' = [worker EXCEPT ![w] = [@ EXCEPT !.pc = "catch_read", !.retry = retryable]]

\* mutant: SET without NX, a taken key is overwritten
SetNX_Overwrites(s) == TRUE
\* SET key job EX 300 NX answers OK
SetNX(s) == slot[s] = None

\* one key after the other, `count` being the key's number; when the last one is taken
\* too the run loses an attempt
AcquireSlot(w) ==
  LET s == worker[w].count IN
  /\ worker[w].pc = "acquire"
  /\ \/ /\ s \in Slots /\ SetNX(s)
        /\ slot' = [slot EXCEPT ![s] = worker[w].job]
        /\ worker' = [worker EXCEPT ![w] = [@ EXCEPT !.pc = "mark_processing", !.slot = s]]
     \/ /\ s + 1 \in Slots /\ ~SetNX(s)
        /\ worker' = [worker EXCEPT ![w] = [@ EXCEPT !.pc = "acquire", !.count = s + 1]]
        /\ UNCHANGED slot
     \/ /\ s + 1 \notin Slots /\ ~SetNX(s)
        /\ Fail(w, TRUE) /\ UNCHANGED slot
  /\ UNCHANGED <<draftVars, accountVars, rowVars, queueVars, req, faults, history>>

\* mutant: a status publish_jobs does not know
MarkProcessing_Unknown(w) ==
  LET j == worker[w].job IN
  /\ worker[w].pc = "mark_processing"
  /\ SetRow(j, "publishing")
  /\ worker' = [worker EXCEPT ![w].pc = "fetch_draft"]
  /\ Reopened(j, Holds(w, j))
  /\ UNCHANGED <<draftVars, accountVars, attemptCount, target, queueVars, slot, req, faults,
                 posts, called, late, withdrawn, sentTexts>>

MarkProcessing(w) ==
  LET j == worker[w].job IN
  /\ worker[w].pc = "mark_processing"
  /\ SetRow(j, "processing")
  /\ worker' = [worker EXCEPT ![w].pc = "fetch_draft"]
  /\ Reopened(j, Holds(w, j))
  /\ UNCHANGED <<draftVars, accountVars, attemptCount, target, queueVars, slot, req, faults,
                 posts, called, late, withdrawn, sentTexts>>

FetchDraft(w) ==
  LET d == target[worker[w].job].draft IN
  /\ worker[w].pc = "fetch_draft"
  /\ \/ draftStatus[d] = "deleted" /\ Fail(w, FALSE)
     \/ /\ draftStatus[d] # "deleted"
        /\ worker' = [worker EXCEPT ![w] = [@ EXCEPT !.pc = "fetch_account", !.text = body[d]]]
  /\ UNCHANGED <<draftVars, accountVars, rowVars, queueVars, slot, req, faults, history>>

\* mutant: guard dropped
Refused_NoLeakGuard(w) ==
  LET a == target[worker[w].job].account IN revoked[a] \/ expired[a]
\* a disconnected account, an expired token or leaked drafting notes: permanent
Refused(w) ==
  LET a == target[worker[w].job].account IN
  revoked[a] \/ expired[a] \/ worker[w].text \in LeakyVersions

\* The account row, then its guards. The SELECT names
\* token_expires_at; without that column it fails like any broken query.
FetchAccount(w) ==
  /\ worker[w].pc = "fetch_account"
  /\ \/ ~ExpiryColumn /\ Fail(w, TRUE)
     \/ ExpiryColumn /\ Refused(w) /\ Fail(w, FALSE)
     \/ /\ ExpiryColumn /\ ~Refused(w)
        /\ worker' = [worker EXCEPT ![w].pc = "dispatch"]
  /\ UNCHANGED <<draftVars, accountVars, rowVars, queueVars, slot, req, faults, history>>

\* how often an adapter repeats a request answered 429 or 5xx
MaxRetries == 3

\* One call of dispatchPublish, with the repetitions of its adapter. The platform may keep
\* a post and answer 5xx, or its answer may be lost: `unacked` posts exist that no answer
\* reported, at most one for each request, and only for the failed ones when the last one
\* succeeds. A run whose lock went to another posts without BullMQ knowing.
Dispatch(w) ==
  LET j == worker[w].job IN
  /\ worker[w].pc = "dispatch"
  /\ called' = called \cup {j} /\ sentTexts' = sentTexts \cup {worker[w].text}
  /\ \E unacked \in 0 .. MaxRetries + 1 :
       /\ unacked + faults <= MaxFaults /\ faults' = faults + unacked
       /\ \/ /\ unacked <= MaxRetries
             /\ posts' = [posts EXCEPT ![j] = @ + unacked + 1]
             /\ excuse' = [excuse EXCEPT ![j] =
                  @ + unacked + IF Holds(w, j) THEN 0 ELSE 1]
             /\ worker' = [worker EXCEPT ![w] = [@ EXCEPT !.pc = "mark_done", !.posted = TRUE]]
          \/ /\ posts' = [posts EXCEPT ![j] = @ + unacked]
             /\ excuse' = [excuse EXCEPT ![j] = @ + unacked]
             /\ \E retryable \in BOOLEAN : Fail(w, retryable)
  /\ UNCHANGED <<draftVars, accountVars, rowVars, queueVars, slot, req, recorded, late,
                 withdrawn>>

\* mutant: the UPDATE asks for a row that is still 'processing', and not finding one throws
MarkDone_Conditional(w) ==
  LET j == worker[w].job IN
  /\ worker[w].pc = "mark_done"
  /\ IF status[j] = "processing"
       THEN /\ status' = [status EXCEPT ![j] = "done"]
            /\ worker' = [worker EXCEPT ![w].pc = "mark_published"]
            /\ recorded' = [recorded EXCEPT ![j] = @ \/ Holds(w, j)]
       ELSE Fail(w, TRUE) /\ UNCHANGED <<status, recorded>>
  /\ UNCHANGED <<draftVars, accountVars, attemptCount, target, queueVars, slot, req, faults,
                 posts, excuse, called, late, withdrawn, sentTexts>>

MarkDone(w) ==
  LET j == worker[w].job IN
  /\ worker[w].pc = "mark_done"
  /\ SetRow(j, "done")
  /\ worker' = [worker EXCEPT ![w].pc = "mark_published"]
  /\ recorded' = [recorded EXCEPT ![j] = @ \/ Holds(w, j)]
  /\ UNCHANGED <<draftVars, accountVars, attemptCount, target, queueVars, slot, req, faults,
                 posts, excuse, called, late, withdrawn, sentTexts>>

MarkPublished(w) ==
  /\ worker[w].pc = "mark_published"
  /\ SetDraft(target[worker[w].job].draft, "published")
  /\ worker' = [worker EXCEPT ![w].pc = "audit"]
  /\ UNCHANGED <<body, accountVars, rowVars, queueVars, slot, req, faults, history>>

\* mutant: the slot is given back on the success path only
Leaving_OnSuccess(w) ==
  IF worker[w].slot # None /\ worker[w].posted THEN "release_get" ELSE "finish"
\* finally: a run that holds a slot gives it back first
Leaving(w) == IF worker[w].slot = None THEN "finish" ELSE "release_get"

AuditLog(w) ==
  /\ worker[w].pc = "audit"
  /\ worker' = [worker EXCEPT ![w].pc = Leaving(w)]
  /\ UNCHANGED <<draftVars, accountVars, rowVars, queueVars, slot, req, faults, history>>

CatchRead(w) ==
  /\ worker[w].pc = "catch_read"
  /\ worker' = [worker EXCEPT ![w] = [@ EXCEPT !.pc = "catch_write",
                  !.count = IF InTable(worker[w].job) THEN attemptCount[worker[w].job] ELSE 0]]
  /\ UNCHANGED <<draftVars, accountVars, rowVars, queueVars, slot, req, faults, history>>

\* mutant: the row allows itself one attempt more than the queue
Requeues_OneMore(w) == worker[w].retry /\ worker[w].count < MaxAttempts
Requeues(w) == worker[w].retry /\ worker[w].count + 1 < MaxAttempts

\* mutant: a permanent failure returns without writing the row
CatchWrite_OnlyRetries(w) ==
  LET j == worker[w].job IN
  /\ worker[w].pc = "catch_write"
  /\ IF Requeues(w) THEN /\ SetRow(j, "queued") /\ Reopened(j, Holds(w, j))
                         /\ attemptCount' = [attemptCount EXCEPT ![j] = worker[w].count + 1]
     ELSE UNCHANGED <<status, attemptCount, recorded, excuse>>
  /\ worker' = [worker EXCEPT ![w] = [@ EXCEPT !.pc = Leaving(w), !.throws = Requeues(w)]]
  /\ UNCHANGED <<draftVars, accountVars, target, queueVars, slot, req, faults,
                 posts, called, late, withdrawn, sentTexts>>

\* back to 'queued' and rethrown, or 'failed' and returned: BullMQ sees a completed job
CatchWrite(w) ==
  LET j == worker[w].job IN
  /\ worker[w].pc = "catch_write"
  /\ SetRow(j, IF Requeues(w) THEN "queued" ELSE "failed")
  /\ attemptCount' = [attemptCount EXCEPT ![j] = IF InTable(j) THEN worker[w].count + 1 ELSE @]
  /\ worker' = [worker EXCEPT ![w] = [@ EXCEPT !.pc = Leaving(w), !.throws = Requeues(w)]]
  /\ IF Requeues(w) THEN Reopened(j, Holds(w, j)) ELSE UNCHANGED <<recorded, excuse>>
  /\ UNCHANGED <<draftVars, accountVars, target, queueVars, slot, req, faults,
                 posts, called, late, withdrawn, sentTexts>>

\* mutant: waits for its own key to come back
ReleaseGet_Waits(w) ==
  /\ worker[w].pc = "release_get" /\ slot[worker[w].slot] = worker[w].job
  /\ worker' = [worker EXCEPT ![w].pc = "release_del"]
  /\ UNCHANGED <<draftVars, accountVars, rowVars, queueVars, slot, req, faults, history>>

\* releaseSemaphoreSlot: GET, compare with the job id, DEL
ReleaseGet(w) ==
  /\ worker[w].pc = "release_get"
  /\ worker' = [worker EXCEPT ![w].pc =
       IF slot[worker[w].slot] = worker[w].job THEN "release_del" ELSE "finish"]
  /\ UNCHANGED <<draftVars, accountVars, rowVars, queueVars, slot, req, faults, history>>

ReleaseDel(w) ==
  /\ worker[w].pc = "release_del"
  /\ slot' = [slot EXCEPT ![worker[w].slot] = None]
  /\ worker' = [worker EXCEPT ![w].pc = "finish"]
  /\ UNCHANGED <<draftVars, accountVars, rowVars, queueVars, req, faults, history>>

\* BullMQ takes the outcome only from the run that still has the lock
Finish(w) ==
  LET j == worker[w].job IN
  /\ worker[w].pc = "finish"
  /\ IF lock[j] # w THEN UNCHANGED <<bull, lock, bullAttempts>>
     ELSE /\ lock' = [lock EXCEPT ![j] = None]
          /\ bullAttempts' = [bullAttempts EXCEPT ![j] = IF worker[w].throws THEN @ + 1 ELSE @]
          /\ bull' = [bull EXCEPT ![j] =
               IF ~worker[w].throws THEN "completed"
               ELSE IF bullAttempts[j] + 1 < MaxAttempts THEN "waiting" ELSE "failed"]
  /\ RunLost(w, j)
  /\ worker' = [worker EXCEPT ![w] = IdleWorker]
  /\ UNCHANGED <<draftVars, accountVars, rowVars, stalls, slot, req, faults, posts, recorded,
                 called, late, withdrawn, sentTexts>>
-----------------------------------------------------------------------------
(* Failures *)

\* a query or Redis call of the run fails: outside the try block it leaves the
\* processor, inside it is caught, and in the catch and finally blocks it is swallowed
CallFails(w) ==
  /\ faults < MaxFaults /\ faults' = faults + 1
  /\ \/ /\ worker[w].pc = "fetch_job"
        /\ worker' = [worker EXCEPT ![w] = [@ EXCEPT !.pc = "finish", !.throws = TRUE]]
     \/ worker[w].pc \in InTry \cup {"acquire"} /\ Fail(w, TRUE)
     \/ /\ worker[w].pc = "catch_read"
        /\ worker' = [worker EXCEPT ![w] = [@ EXCEPT !.pc = "catch_write", !.count = 0]]
     \/ /\ worker[w].pc = "catch_write"
        /\ worker' = [worker EXCEPT ![w] = [@ EXCEPT !.pc = Leaving(w), !.throws = Requeues(w)]]
     \/ /\ worker[w].pc \in {"release_get", "release_del"}
        /\ worker' = [worker EXCEPT ![w].pc = "finish"]
  /\ UNCHANGED <<draftVars, accountVars, rowVars, queueVars, slot, req, history>>

\* the worker process dies: slot and lock stay behind
Crash(w) ==
  /\ Working(w) /\ faults < MaxFaults /\ faults' = faults + 1
  /\ RunLost(w, worker[w].job)
  /\ worker' = [worker EXCEPT ![w] = IdleWorker]
  /\ UNCHANGED <<draftVars, accountVars, rowVars, queueVars, slot, req, posts, recorded,
                 called, late, withdrawn, sentTexts>>

\* BullMQ's stalled check finds the lock expired: its run is dead, or alive and unable
\* to renew it (a fault of its own)
StalledCheck(j) ==
  LET w == lock[j] IN
  /\ bull[j] = "active"
  /\ \/ worker[w].job # j /\ UNCHANGED faults
     \/ worker[w].job = j /\ faults < MaxFaults /\ faults' = faults + 1
  /\ lock' = [lock EXCEPT ![j] = None]
  /\ stalls' = [stalls EXCEPT ![j] = @ + 1]
  /\ bull' = [bull EXCEPT ![j] = IF stalls[j] < MaxStalled THEN "waiting" ELSE "failed"]
  /\ RunLost(w, j)
  /\ UNCHANGED <<draftVars, accountVars, rowVars, bullAttempts, slot, worker, req, posts,
                 recorded, called, late, withdrawn, sentTexts>>

TokenExpires(a) ==
  /\ ~expired[a] /\ faults < MaxFaults /\ faults' = faults + 1
  /\ expired' = [expired EXCEPT ![a] = TRUE]
  /\ UNCHANGED <<draftVars, revoked, rowVars, queueVars, slot, worker, req, history>>

\* SEMAPHORE_TTL_SECONDS is over; no adapter call has a timeout that rules it out
SlotExpires(s) ==
  /\ slot[s] # None /\ faults < MaxFaults /\ faults' = faults + 1
  /\ slot' = [slot EXCEPT ![s] = None]
  /\ UNCHANGED <<draftVars, accountVars, rowVars, queueVars, worker, req, history>>

\* the API process dies or a query of the request fails: nothing is undone
RequestFails(r) ==
  /\ req[r].pc \notin {"idle", "finished"} /\ faults < MaxFaults /\ faults' = faults + 1
  /\ Ends(r)
  /\ UNCHANGED <<draftVars, accountVars, rowVars, queueVars, slot, worker, history>>
-----------------------------------------------------------------------------
ApiStep ==
  \/ \E r \in Requests, d \in Drafts, accts \in SUBSET Accounts :
       ScheduleCheckDraft(r, d, accts)
  \/ \E r \in Requests, d \in Drafts : ApproveCheck(r, d) \/ RegenerateFetch(r, d)
  \/ \E r \in Requests, j \in Jobs : CancelCheck(r, j)
  \/ \E r \in Requests :
       \/ ScheduleCheckAccounts(r) \/ ScheduleInsertJob(r) \/ ScheduleEnqueue(r)
       \/ ScheduleMarkQueued(r) \/ ScheduleMarkDraft(r)
       \/ CancelUpdate(r) \/ CancelRemove(r) \/ CancelCount(r) \/ CancelRevert(r)
       \/ ApproveUpdate(r) \/ RegenerateUpdate(r)
  \/ \E r \in Requests, a \in Accounts : DisconnectAccount(r, a)
  \/ \E r \in Requests : EraseSubject(r)

RunStep(w) ==
  \/ FetchJob(w) \/ AcquireSlot(w) \/ MarkProcessing(w) \/ FetchDraft(w)
  \/ FetchAccount(w) \/ Dispatch(w) \/ MarkDone(w) \/ MarkPublished(w) \/ AuditLog(w)
  \/ CatchRead(w) \/ CatchWrite(w) \/ ReleaseGet(w) \/ ReleaseDel(w) \/ Finish(w)

WorkerStep ==
  \/ \E w \in Workers, j \in Jobs : Take(w, j)
  \/ \E w \in Workers : RunStep(w)

FaultStep ==
  \/ \E w \in Workers : CallFails(w) \/ Crash(w)
  \/ \E j \in Jobs : StalledCheck(j)
  \/ \E s \in Slots : SlotExpires(s)
  \/ \E a \in Accounts : TokenExpires(a)
  \/ \E r \in Requests : RequestFails(r)

Next == ApiStep \/ WorkerStep \/ FaultStep

Spec == Init /\ [][Next]_vars

\* the pool keeps polling, a run in progress keeps running and the stalled check keeps
\* coming round; requests and faults owe nothing
Fairness ==
  /\ \A j \in Jobs : WF_vars(\E w \in Workers : Take(w, j))
  /\ \A w \in Workers : WF_vars(RunStep(w))
  /\ \A j \in Jobs :
       WF_vars(bull[j] = "active" /\ worker[lock[j]].job # j /\ StalledCheck(j))

FairSpec == Spec /\ Fairness
-----------------------------------------------------------------------------
(* Properties *)

\* A job leaves at most one post on the platform, plus each post that was not acknowledged
\* and one for each run whose record was lost or overwritten. Cancelling, rescheduling,
\* retrying and redelivering never add one of their own.
NoUnexplainedDuplicate == \A j \in Jobs : posts[j] <= 1 + excuse[j]

\* Each post of a job beyond its first costs a fault of its own, of whatever kind: without
\* one a job is posted at most once, however users cancel, reschedule or erase meanwhile.
DuplicatesCostFaults == \A j \in Jobs : posts[j] <= 1 + faults

\* While the acknowledged post of a job stands recorded, the row is out of reach of the
\* queue: no later delivery gets past the worker's terminal-status guard.
RecordedIsSettled ==
  \A j \in Jobs : recorded[j] =>
    /\ status[j] \notin ActiveRow
    /\ ~\E w \in Workers : Holds(w, j) /\ worker[w].pc \in PrePost

\* Whatever a regeneration does to a draft that is approved, scheduled or being
\* published, no text the editorial guard refuses reaches a platform.
NoLeakReachesPlatform == sentTexts \cap LeakyVersions = {}

\* A job cancelled while no run had read its row and no schedule request was still to
\* mark it queued is never handed to a platform afterwards, even if BullMQ keeps it.
WithdrawnStaysWithdrawn ==
  [][\A j \in withdrawn : posts'[j] = posts[j] /\ (j \in called' => j \in called)]_vars

\* Without a fault, when BullMQ is done with a job the row is in a terminal status, so
\* row and queue exhaust their attempts together; the exception is a row that the
\* schedule request reopened after the worker or a user had moved it on.
QueueAndRowSettleTogether ==
  faults = 0 => \A j \in Jobs :
    bull[j] \in {"completed", "failed"} /\ j \notin late => status[j] \notin ActiveRow

\* Without a fault every held semaphore key belongs to a run in progress that took it:
\* no way through processPublishJob leaves a key behind.
NoSlotLeaks ==
  faults = 0 => \A s \in Slots : slot[s] # None =>
    \E w \in Workers : Working(w) /\ worker[w].slot = s /\ worker[w].job = slot[s]

\* "Max 2 concurrent publish jobs per tenant": without a fault every run between its
\* acquisition and its release has a semaphore key to itself, so there are never more
\* of them than keys.
RunsHoldTheirKeys ==
  faults = 0 => \A w \in Workers : worker[w].slot # None /\ worker[w].pc # "finish" =>
    /\ slot[worker[w].slot] = worker[w].job
    /\ \A v \in Workers \ {w} : worker[v].pc # "finish" => worker[v].slot # worker[w].slot

\* Every job BullMQ accepts is eventually completed, failed or removed, whatever the
\* semaphore, the platform and the bounded faults do.
AcceptedJobIsSettled ==
  \A j \in Jobs : bull[j] \in {"waiting", "active"}
                    ~> bull[j] \in {"completed", "failed", "removed"}

\* A row a worker has marked 'processing' does not keep that status, unless a fault
\* strikes before the run has written the row's next one.
ProcessingIsTransient ==
  \A j \in Jobs : status[j] = "processing" ~> (status[j] # "processing" \/ faults > 0)
-----------------------------------------------------------------------------
(* Statements of the repository that the code does not keep *)

\* drafts.ts says of approved_text: an approval cannot land on text that changed after
\* the preview was rendered. The check and the UPDATE are two queries.
ApprovalLandsOnPreviewedText ==
  [][\A r \in Requests : req[r].pc = "a_update" /\ req'[r].pc = "finished" /\ faults' = faults
       => draftStatus[req[r].draft] = "deleted" \/ body[req[r].draft] = req[r].text]_vars

\* publish.ts describes a run as: fetch the row, check the expiry, dispatch. With no fault,
\* a key for every worker and no text the leak guard refuses, a job on a connected
\* account is therefore not failed before a platform was called.
FailedJobWasDispatched ==
  \A j \in Jobs : status[j] = "failed" /\ faults = 0 /\ ~revoked[target[j].account]
                    => j \in called
=============================================================================
