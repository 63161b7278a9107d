----------------------------- MODULE GraphRunner -----------------------------
(***************************************************************************)
(* The agent graphs of ChampsFlow: a run works through a DAG of nodes      *)
(* (drafting, a founder's approval, publishing, measuring, recording), and *)
(* everything it knows is in two tables, agent_run and agent_step.         *)
(*                                                                         *)
(*   runner    apps/api/src/lib/graph-runner.ts, advanceRun                *)
(*   tick      apps/worker/src/jobs/graph-tick.ts, runGraphTick            *)
(*   graphs    apps/api/src/lib/agent-graphs.ts                            *)
(*   founder   apps/api/src/routes/telegram.ts                             *)
(*                                                                         *)
(* One tick runs at a time (worker concurrency 1). It advances the runs    *)
(* one by one, each from a snapshot of the steps it reads first; every     *)
(* database or HTTP call is one action, so the founder's taps, the clock   *)
(* and crashes fall between any two. A row of a node is a sequence entry:  *)
(* its step id is <<run, node, position>>, the last one is the latest.     *)
(* All publish nodes of the model go to one channel.                       *)
(***************************************************************************)
EXTENDS GraphDefinition, Naturals, Sequences, FiniteSets

CONSTANTS
  Runs,          \* agent_run ids, numbered in the order they were started
  Optional,      \* approvals whose config says optional
  MaxTaps,       \* bound: founder's taps and replies that are handled
  RunsPerTick,   \* MAX_RUNS_PER_TICK
  Budget,        \* NODE_RETRY_BUDGET
  Cap,           \* CHANNEL_DAILY_CAP of the channel
  Threshold,     \* CIRCUIT_BREAKER_THRESHOLD
  MaxFaults,     \* bound: crashes, calls that throw and lost or error answers together
  None

Retryable_All == {"task", "publish", "effect"}    \* mutant: effects are run again too
Retryable == {"task", "publish"}

ASSUME BoundsAssumption ==
  /\ Optional \subseteq Of("approval")
  /\ Runs \subseteq Nat /\ None \notin Runs \cup Nodes
  /\ RunsPerTick \in Nat \ {0} /\ Budget \in Nat /\ Cap \in Nat \ {0}
  /\ Threshold \in Nat \ {0} /\ MaxTaps \in Nat /\ MaxFaults \in Nat

VARIABLES
  run,       \* agent_run.status
  steps,     \* agent_step: the rows of each node of each run, oldest first
  failures,  \* Redis: consecutive failures of the channel
  tick,      \* local state of runGraphTick and advanceRun
  inflight,  \* webhook handlers between their check and their write
  taps, faults,
  \* what happened, for the properties to speak about
  posts,     \* posts of a publish node the scheduler accepted
  unknown,   \* those of them the runner had no way to take for a possible post
  effects,   \* times the effect of an effect node took place
  yes,       \* step ids the founder's yes was written to
  settled,   \* those of them written while nothing else was about to write the row
  done       \* nodes a row of which has succeeded

record == <<run, steps>>
history == <<posts, unknown, effects, yes, settled, done>>
founder == <<inflight, taps>>
vars == <<record, failures, tick, founder, faults, history>>

RunStatus == {"none", "running", "succeeded", "failed"}
RowStatus == {"running", "waiting", "succeeded", "failed", "skipped"}
\* what a step's summary says, as far as the runner looks at it
Note == {"none", "stale", "not_sent", "refused", "parked", "gate", "accepted", "yes"}

\* old: started longer ago than the timeout that applies to its status; today: a publish
\* that was started since 00:00 UTC and has not failed
NewRow(n) == [status |-> "running", note |-> "none", today |-> Kind[n] = "publish",
              old |-> FALSE]
Row == [status : RowStatus, note : Note, today : BOOLEAN, old : BOOLEAN]
Rows == [Runs -> [Nodes -> Seq(Row)]]

Unstarted == [id |-> 0, status |-> "none", note |-> "none", old |-> FALSE]
Entry == [id : Nat, status : RowStatus \cup {"none"}, note : Note, old : BOOLEAN]
Unread == [n \in Nodes |-> Unstarted]

TickPc == {"idle", "next", "frontier", "gate", "skip", "start", "task", "park", "check", "send",
           "accepted", "unsent", "act", "acted"}
Tick == [pc : TickPc, exec : SUBSET Runs, parked : SUBSET Runs, run : Runs \cup {None},
         view : [Nodes -> Entry], older : [Nodes -> Nat], todo : SUBSET Nodes,
         node : Nodes \cup {None}]
IdleTick == [pc |-> "idle", exec |-> {}, parked |-> {}, run |-> None, view |-> Unread,
             older |-> [n \in Nodes |-> 0], todo |-> {}, node |-> None]

TypeOK ==
  /\ run \in [Runs -> RunStatus]
  /\ steps \in Rows
  /\ failures \in 0 .. Threshold
  /\ tick \in Tick
  /\ inflight \subseteq [step : Runs \X Nodes \X Nat, answer : BOOLEAN]
  /\ taps \in Nat /\ faults \in Nat
  /\ posts \in [Runs -> [Nodes -> Nat]] /\ unknown \in [Runs -> [Nodes -> Nat]]
  /\ effects \in [Runs -> [Nodes -> Nat]]
  /\ yes \subseteq Runs \X Nodes \X Nat /\ settled \subseteq yes
  /\ done \subseteq Runs \X Nodes

Init ==
  /\ run = [r \in Runs |-> "none"]
  /\ steps = [r \in Runs |-> [n \in Nodes |-> <<>>]]
  /\ failures = 0 /\ tick = IdleTick /\ inflight = {} /\ taps = 0 /\ faults = 0
  /\ posts = [r \in Runs |-> [n \in Nodes |-> 0]]
  /\ unknown = [r \in Runs |-> [n \in Nodes |-> 0]]
  /\ effects = [r \in Runs |-> [n \in Nodes |-> 0]]
  /\ yes = {} /\ settled = {} /\ done = {}
-----------------------------------------------------------------------------
(* Rows of agent_step *)

Latest(r, n) ==
  LET rows == steps[r][n] IN
  IF rows = <<>> THEN Unstarted
  ELSE LET row == rows[Len(rows)] IN
       [id |-> Len(rows), status |-> row.status, note |-> row.note, old |-> row.old]

\* rows of n that failed, the latest not among them
FailedBefore(r, n) ==
  Cardinality({i \in 1 .. Len(steps[r][n]) - 1 : steps[r][n][i].status = "failed"})

\* finishStep: an UPDATE by id, whatever the row says by now
FinishStep(r, n, i, status, note) ==
  /\ LET row == steps[r][n][i] IN
     steps' = [steps EXCEPT ![r][n][i] =
       [row EXCEPT !.status = status, !.note = note, !.old = FALSE,
          !.today = row.today /\ status # "failed"]]
  /\ done' = IF status = "succeeded" THEN done \cup {<<r, n>>} ELSE done

StartStep(r, n) == steps' = [steps EXCEPT ![r][n] = Append(@, NewRow(n))]

HasWaiting(r) ==
  \E n \in Nodes : \E i \in 1 .. Len(steps[r][n]) : steps[r][n][i].status = "waiting"

\* succeeded publish rows started since 00:00 UTC, over all runs; a node whose row is
\* accepted gets no other row
PublishedToday ==
  Cardinality({x \in Runs \X Of("publish") : \E i \in DOMAIN steps[x[1]][x[2]] :
     LET row == steps[x[1]][x[2]][i] IN
       row.status = "succeeded" /\ row.note = "accepted" /\ row.today})

CircuitOpen == failures >= Threshold
-----------------------------------------------------------------------------
(* Local steps of the tick *)

\* on to the next section of advanceRun, with the nodes it has to look at
Section(pc, nodes) == tick' = [tick EXCEPT !.pc = pc, !.todo = nodes, !.node = None]
\* n is dealt with: back to the loop of the section
Handled(pc, n) == [tick EXCEPT !.pc = pc, !.todo = @ \ {n}, !.node = None]
\* ... and the row in memory follows the row written
Seen(pc, n, status, note) ==
  [Handled(pc, n) EXCEPT !.view[n].status = status, !.view[n].note = note]
Working(pc, n) == tick' = [tick EXCEPT !.pc = pc, !.node = n]
\* advanceRun returns or throws; the tick goes on with the other runs
LeaveRun == tick' = [IdleTick EXCEPT !.pc = "next", !.exec = tick.exec, !.parked = tick.parked]

ViewIs(status) == {n \in Nodes : tick.view[n].status = status}
Attempts(n) == tick.older[n] + IF tick.view[n].status = "failed" THEN 1 ELSE 0

\* mutant: a dependency that was skipped holds nobody up
ReadyNodes_PastSkipped(state) ==
  {n \in Nodes : state[n].id = 0 /\ \A m \in Deps[n] : state[m].status \in {"succeeded", "skipped"}}
\* a node that has not started and whose dependencies all succeeded
ReadyNodes(state) ==
  {n \in Nodes : state[n].id = 0 /\ \A m \in Deps[n] : state[m].status = "succeeded"}
IsRunComplete(state) ==
  /\ ReadyNodes(state) = {}
  /\ \A n \in Nodes : state[n].status \notin {"running", "waiting"}
-----------------------------------------------------------------------------
(* runGraphTick: choosing the runs *)

\* a cron, the operator or another graph starts a run
StartRun(r) ==
  /\ run[r] = "none" /\ \A q \in Runs : q < r => run[q] # "none"
  /\ run' = [run EXCEPT ![r] = "running"]
  /\ UNCHANGED <<steps, failures, tick, founder, faults, history>>

\* `starved` are runs that had no step for a day; runs with a waiting step are parked and
\* cost no execution slot
TickBegin ==
  /\ tick.pc = "idle" /\ \E r \in Runs : run[r] = "running"
  /\ \E starved \in SUBSET {r \in Runs : run[r] = "running"} :
       LET active == {r \in Runs \ starved : run[r] = "running"}
           ready  == {r \in active : ~HasWaiting(r)} IN
       /\ \A r \in starved : \A n \in Nodes : steps[r][n] = <<>>
       /\ run' = [r \in Runs |-> IF r \in starved THEN "failed" ELSE run[r]]
       /\ tick' = [IdleTick EXCEPT !.pc = "next", !.parked = active \ ready,
            !.exec = {r \in ready : Cardinality({q \in ready : q < r}) < RunsPerTick}]
  /\ UNCHANGED <<steps, failures, founder, faults, history>>

\* advanceRun reads the run and its steps; the parked pool comes after the exec pool
LoadRun(r) ==
  /\ tick.pc = "next"
  /\ r \in tick.exec \/ (tick.exec = {} /\ r \in tick.parked)
  /\ tick' = [tick EXCEPT !.exec = @ \ {r}, !.parked = @ \ {r},
       !.pc = IF run[r] = "running" THEN "frontier" ELSE "next",
       !.run = IF run[r] = "running" THEN r ELSE None,
       !.view = IF run[r] = "running" THEN [n \in Nodes |-> Latest(r, n)] ELSE @,
       !.older = IF run[r] = "running" THEN [n \in Nodes |-> FailedBefore(r, n)] ELSE @,
       !.todo = IF run[r] # "running" THEN {}
                ELSE {n \in Nodes : Latest(r, n).status = "waiting"}]
  /\ UNCHANGED <<record, failures, founder, faults, history>>

TickEnd ==
  /\ tick.pc = "next" /\ tick.exec = {} /\ tick.parked = {}
  /\ tick' = IdleTick
  /\ UNCHANGED <<record, failures, founder, faults, history>>
-----------------------------------------------------------------------------
(* advanceRun 1 and 2: steps of a dead worker, steps that wait *)

\* The sections work on the snapshot in this order, each until nothing is left for it.
Stale == {n \in ViewIs("running") : tick.view[n].old}
Declined == ViewIs("failed") \cap Optional

Recover(n) ==
  /\ tick.pc = "frontier" /\ n \in Stale
  /\ FinishStep(tick.run, n, tick.view[n].id, "failed", "stale")
  /\ tick' = Seen("frontier", n, "failed", "stale")
  /\ UNCHANGED <<run, failures, founder, faults, posts, unknown, effects, yes, settled>>

\* a wait elapses, a metric has arrived, or the grace window is over
MaintainHarvest(n) ==
  /\ tick.pc = "frontier" /\ Stale = {} /\ n \in tick.todo \cap Of("harvest")
  /\ \/ /\ FinishStep(tick.run, n, tick.view[n].id, "succeeded", "none")
        /\ tick' = Seen("frontier", n, "succeeded", "none")
     \/ /\ ~tick.view[n].old
        /\ tick' = Handled("frontier", n) /\ UNCHANGED <<steps, done>>
  /\ UNCHANGED <<run, failures, founder, faults, posts, unknown, effects, yes, settled>>

IsGate(n) == Kind[n] = "publish" /\ tick.view[n].note = "gate"

\* mutant: silence approves
TimedOut_Approves(n) == "succeeded"
\* mutant: a status agent_step does not know
TimedOut_Cancelled(n) == "cancelled"
\* an approval or a retry gate nobody decided in time: silence is a rejection
TimedOut(n) == IF n \in Optional THEN "skipped" ELSE "failed"

\* mutant: only what has a timeout of its own times out
MaintainAsk_NoDefault(n) ==
  /\ tick.pc = "frontier" /\ Stale = {} /\ n \in tick.todo
  /\ (Kind[n] = "approval" \/ IsGate(n))
  /\ \/ /\ tick.view[n].old /\ n \in Optional
        /\ FinishStep(tick.run, n, tick.view[n].id, TimedOut(n), "refused")
        /\ tick' = Seen("frontier", n, TimedOut(n), "refused")
     \/ /\ ~(tick.view[n].old /\ n \in Optional)
        /\ tick' = Handled("frontier", n) /\ UNCHANGED <<steps, done>>
  /\ UNCHANGED <<run, failures, founder, faults, posts, unknown, effects, yes, settled>>

MaintainAsk(n) ==
  /\ tick.pc = "frontier" /\ Stale = {} /\ n \in tick.todo
  /\ (Kind[n] = "approval" \/ IsGate(n))
  /\ \/ /\ tick.view[n].old
        /\ FinishStep(tick.run, n, tick.view[n].id, TimedOut(n), "refused")
        /\ tick' = Seen("frontier", n, TimedOut(n), "refused")
     \/ /\ ~tick.view[n].old
        /\ tick' = Handled("frontier", n) /\ UNCHANGED <<steps, done>>
  /\ UNCHANGED <<run, failures, founder, faults, posts, unknown, effects, yes, settled>>

\* a publish parked by the cap or the circuit: looked at again on every tick
MaintainParked(n) ==
  /\ tick.pc = "frontier" /\ Stale = {} /\ n \in tick.todo \cap Of("publish") /\ ~IsGate(n)
  /\ IF CircuitOpen \/ PublishedToday >= Cap THEN tick' = Handled("frontier", n)
     ELSE Working("send", n)
  /\ UNCHANGED <<record, failures, founder, faults, history>>

\* 2b: declining an optional approval skips its tail, the run goes on
Decline(n) ==
  /\ tick.pc = "frontier" /\ Stale = {} /\ tick.todo = {} /\ n \in Declined
  /\ FinishStep(tick.run, n, tick.view[n].id, "skipped", "none")
  /\ tick' = Seen("frontier", n, "skipped", "none")
  /\ UNCHANGED <<run, failures, founder, faults, posts, unknown, effects, yes, settled>>
-----------------------------------------------------------------------------
(* advanceRun 2c: the retry budget *)

\* mutant: the answer passes for the post
YesToRetry_Never(n) == FALSE
\* a retry gate answered yes: the row says succeeded and holds no publish record
YesToRetry(n) ==
  /\ Kind[n] = "publish"
  /\ tick.view[n].status = "succeeded" /\ tick.view[n].note # "accepted"

\* mutant: one attempt more
MayRetry_OneMore(n) ==
  tick.view[n].status = "failed" /\ tick.view[n].note # "refused" /\ Attempts(n) <= Budget + 1
MayRetry(n) ==
  tick.view[n].status = "failed" /\ tick.view[n].note # "refused" /\ Attempts(n) <= Budget

PublishKnownNotSent(n) == tick.view[n].note = "not_sent"
Ambiguous(n) == Kind[n] = "publish" /\ ~PublishKnownNotSent(n)

ToRetry == {n \in Nodes : Kind[n] \in Retryable /\ Budget > 0 /\ (YesToRetry(n) \/ MayRetry(n))}
Reached2c == tick.pc = "frontier" /\ Stale = {} /\ tick.todo = {} /\ Declined = {}

\* the frontier forgets the node: it starts afresh below
Forget(n) ==
  /\ Reached2c /\ n \in ToRetry
  /\ YesToRetry(n) \/ ~Ambiguous(n)
  /\ tick' = [tick EXCEPT !.view[n] = Unstarted]
  /\ UNCHANGED <<record, failures, founder, faults, history>>

\* the post may be out already: the founder is asked
OpenGate(n) ==
  /\ Reached2c /\ n \in ToRetry /\ ~YesToRetry(n) /\ Ambiguous(n)
  /\ StartStep(tick.run, n)
  /\ tick' = [tick EXCEPT !.pc = "gate", !.node = n,
       !.view[n].id = Len(steps[tick.run][n]) + 1, !.view[n].status = "running"]
  /\ UNCHANGED <<run, failures, founder, faults, history>>

ParkGate(n) ==
  /\ tick.pc = "gate" /\ n = tick.node
  /\ FinishStep(tick.run, n, tick.view[n].id, "waiting", "gate")
  /\ tick' = Seen("frontier", n, "waiting", "gate")
  /\ UNCHANGED <<run, failures, founder, faults, posts, unknown, effects, yes, settled>>

\* mutant: failing fast skips every step that has not failed
FrontierDone_SkipsAll ==
  /\ Reached2c /\ ToRetry = {}
  /\ IF ViewIs("failed") # {} THEN Section("skip", Nodes \ (ViewIs("failed") \cup ViewIs("none")))
     ELSE Section("start", ReadyNodes(tick.view))
  /\ UNCHANGED <<record, failures, founder, faults, history>>

\* on to 3 when a node has failed for good, to 4 otherwise
FrontierDone ==
  /\ Reached2c /\ ToRetry = {}
  /\ IF ViewIs("failed") # {} THEN Section("skip", ViewIs("waiting"))
     ELSE Section("start", ReadyNodes(tick.view))
  /\ UNCHANGED <<record, failures, founder, faults, history>>
-----------------------------------------------------------------------------
(* advanceRun 3: fail fast *)

SkipStraggler(n) ==
  /\ tick.pc = "skip" /\ n \in tick.todo
  /\ FinishStep(tick.run, n, tick.view[n].id, "skipped", "none")
  /\ tick' = Seen("skip", n, "skipped", "none")
  /\ UNCHANGED <<run, failures, founder, faults, posts, unknown, effects, yes, settled>>

\* mutant: the run is closed before its stragglers are
FailRun_First ==
  /\ tick.pc = "skip"
  /\ run' = [run EXCEPT ![tick.run] = "failed"]
  /\ LeaveRun
  /\ UNCHANGED <<steps, failures, founder, faults, history>>

FailRun ==
  /\ tick.pc = "skip" /\ tick.todo = {}
  /\ run' = [run EXCEPT ![tick.run] = "failed"]
  /\ LeaveRun
  /\ UNCHANGED <<steps, failures, founder, faults, history>>
-----------------------------------------------------------------------------
(* advanceRun 4: starting what is ready *)

FirstStep(kind) == CASE kind = "task"     -> "task"
                     [] kind = "approval" -> "park"
                     [] kind = "publish"  -> "check"
                     [] kind = "harvest"  -> "park"
                     [] kind = "effect"   -> "act"

StartNode(n) ==
  /\ tick.pc = "start" /\ n \in tick.todo
  /\ StartStep(tick.run, n)
  /\ tick' = [tick EXCEPT !.pc = FirstStep(Kind[n]), !.node = n,
       !.view[n] = [Unstarted EXCEPT !.id = Len(steps[tick.run][n]) + 1, !.status = "running"]]
  /\ UNCHANGED <<run, failures, founder, faults, history>>

\* the call of an LLM and its validators: an artifact, or a failed step
RunTask(n) ==
  /\ tick.pc = "task" /\ n = tick.node
  /\ \E status \in {"succeeded", "failed"} :
       FinishStep(tick.run, n, tick.view[n].id, status, "none")
  /\ tick' = Handled("start", n)
  /\ UNCHANGED <<run, failures, founder, faults, posts, unknown, effects, yes, settled>>

\* an approval, whose message with the buttons follows, or a wait
Park(n) ==
  /\ tick.pc = "park" /\ n = tick.node
  /\ FinishStep(tick.run, n, tick.view[n].id, "waiting", "none")
  /\ tick' = Handled("start", n)
  /\ UNCHANGED <<run, failures, founder, faults, posts, unknown, effects, yes, settled>>

\* over the cap or into an open circuit: parked, not dropped
CheckChannel(n) ==
  /\ tick.pc = "check" /\ n = tick.node
  /\ IF CircuitOpen \/ PublishedToday >= Cap
       THEN /\ FinishStep(tick.run, n, tick.view[n].id, "waiting", "parked")
            /\ tick' = Handled("start", n)
       ELSE tick' = [tick EXCEPT !.pc = "send"] /\ UNCHANGED <<steps, done>>
  /\ UNCHANGED <<run, failures, founder, faults, posts, unknown, effects, yes, settled>>

\* the publish comes from section 2 with a parked step, from section 4 with a fresh one
Deferred(n) == tick.view[n].status = "waiting"

\* the artifact is lost, or the text or its card breaks a rule: proven not sent
RefuseContent(n) ==
  /\ tick.pc = "send" /\ n = tick.node
  /\ FinishStep(tick.run, n, tick.view[n].id, "failed", "not_sent")
  /\ tick' = IF Deferred(n) THEN Seen("frontier", n, "failed", "not_sent")
             ELSE Handled("start", n)
  /\ UNCHANGED <<run, failures, founder, faults, posts, unknown, effects, yes, settled>>

\* hermes.publish, and the circuit counter with it. An error answer leaves a parked step
\* waiting for the next tick; no answer within the timeout throws out of advanceRun.
Send(n) ==
  /\ tick.pc = "send" /\ n = tick.node
  /\ \E accepted \in BOOLEAN, answer \in {"ok", "error", "none"} :
       /\ answer = "ok" => accepted
       /\ faults' = faults + (IF answer = "ok" THEN 0 ELSE 1) /\ faults' <= MaxFaults
       /\ posts' = [posts EXCEPT ![tick.run][n] = @ + IF accepted THEN 1 ELSE 0]
       /\ unknown' = [unknown EXCEPT ![tick.run][n] =
            @ + IF accepted /\ (answer = "error" \/ (answer = "none" /\ Deferred(n))) THEN 1 ELSE 0]
       /\ CASE answer = "ok"    -> failures' = 0 /\ tick' = [tick EXCEPT !.pc = "accepted"]
            [] answer = "error" ->
                 /\ failures' = IF CircuitOpen THEN failures ELSE failures + 1
                 /\ tick' = IF Deferred(n) THEN Handled("frontier", n)
                            ELSE [tick EXCEPT !.pc = "unsent"]
            [] answer = "none"  -> LeaveRun /\ UNCHANGED failures
  /\ UNCHANGED <<record, founder, effects, yes, settled, done>>

\* mutant: the released step keeps its old summary in memory
RecordAccepted_OldSummary(n) ==
  /\ tick.pc = "accepted" /\ n = tick.node
  /\ FinishStep(tick.run, n, tick.view[n].id, "succeeded", "accepted")
  /\ tick' = IF Deferred(n) THEN Seen("frontier", n, "succeeded", "parked")
             ELSE Handled("start", n)
  /\ UNCHANGED <<run, failures, founder, faults, posts, unknown, effects, yes, settled>>

RecordAccepted(n) ==
  /\ tick.pc = "accepted" /\ n = tick.node
  /\ FinishStep(tick.run, n, tick.view[n].id, "succeeded", "accepted")
  /\ tick' = IF Deferred(n) THEN Seen("frontier", n, "succeeded", "accepted")
             ELSE Handled("start", n)
  /\ UNCHANGED <<run, failures, founder, faults, posts, unknown, effects, yes, settled>>

RecordUnsent(n) ==
  /\ tick.pc = "unsent" /\ n = tick.node
  /\ FinishStep(tick.run, n, tick.view[n].id, "failed", "not_sent")
  /\ tick' = Handled("start", n)
  /\ UNCHANGED <<run, failures, founder, faults, posts, unknown, effects, yes, settled>>

\* verdict, store, spawn: refused with nothing done, or done and still to be recorded
Act(n) ==
  /\ tick.pc = "act" /\ n = tick.node
  /\ \/ /\ effects' = [effects EXCEPT ![tick.run][n] = @ + 1]
        /\ tick' = [tick EXCEPT !.pc = "acted"]
        /\ UNCHANGED <<steps, done>>
     \/ /\ FinishStep(tick.run, n, tick.view[n].id, "failed", "none")
        /\ tick' = Handled("start", n) /\ UNCHANGED effects
  /\ UNCHANGED <<run, failures, founder, faults, posts, unknown, yes, settled>>

RecordActed(n) ==
  /\ tick.pc = "acted" /\ n = tick.node
  /\ FinishStep(tick.run, n, tick.view[n].id, "succeeded", "none")
  /\ tick' = Handled("start", n)
  /\ UNCHANGED <<run, failures, founder, faults, posts, unknown, effects, yes, settled>>

\* advanceRun 5, from the rows as they are now: over, over but for a retry, or in flight
RetryPending(r) ==
  \E n \in Nodes :
    /\ Kind[n] \in Retryable /\ Budget > 0
    /\ Latest(r, n).status = "failed" /\ Latest(r, n).note # "refused"
    /\ FailedBefore(r, n) + 1 <= Budget

CloseRun ==
  LET state  == [n \in Nodes |-> Latest(tick.run, n)]
      failed == {n \in Nodes : state[n].status = "failed"} IN
  /\ tick.pc = "start" /\ tick.todo = {}
  /\ IF ~IsRunComplete(state) \/ RetryPending(tick.run) THEN UNCHANGED run
     ELSE run' = [run EXCEPT ![tick.run] = IF failed = {} THEN "succeeded" ELSE "failed"]
  /\ LeaveRun
  /\ UNCHANGED <<steps, failures, founder, faults, history>>
-----------------------------------------------------------------------------
(* The founder: the buttons of an approval or of a retry gate, the reply with a reason *)

\* stepIsWaiting; a callback on a step already decided changes nothing
TapCheck(r, n, answer) ==
  /\ taps < MaxTaps /\ taps' = taps + 1
  /\ Latest(r, n).status = "waiting"
  /\ Kind[n] = "approval" \/ (Kind[n] = "publish" /\ Latest(r, n).note = "gate")
  /\ inflight' = inflight \cup {[step |-> <<r, n, Latest(r, n).id>>, answer |-> answer]}
  /\ UNCHANGED <<record, failures, tick, faults, history>>

Races(t) == tick.run = t.step[1] \/ \E u \in inflight \ {t} : u.step = t.step

TapWrite(t) ==
  /\ t \in inflight /\ inflight' = inflight \ {t}
  /\ IF t.answer THEN FinishStep(t.step[1], t.step[2], t.step[3], "succeeded", "yes")
     ELSE FinishStep(t.step[1], t.step[2], t.step[3], "failed", "refused")
  /\ yes' = IF t.answer THEN yes \cup {t.step} ELSE yes
  /\ settled' = IF t.answer /\ ~Races(t) THEN settled \cup {t.step} ELSE settled
  /\ UNCHANGED <<run, failures, tick, taps, faults, posts, unknown, effects>>
-----------------------------------------------------------------------------
(* Time and failures *)

\* A step reaches the timeout of its status. The tick looks at ages only in what it reads
\* first, so a step that comes of age under a tick does so for the next one.
Age(r, n) ==
  /\ Latest(r, n).status \in {"running", "waiting"} /\ ~Latest(r, n).old
  /\ Latest(r, n).note # "parked" /\ run[r] = "running"
  /\ tick.pc = "idle"
  /\ LET last == Len(steps[r][n])  row == steps[r][n][last] IN
     steps' = [steps EXCEPT ![r][n][last] = [row EXCEPT !.old = TRUE]]
  /\ UNCHANGED <<run, failures, tick, founder, faults, history>>

\* 00:00 UTC
NextDay ==
  /\ \E r \in Runs, n \in Nodes : \E i \in DOMAIN steps[r][n] : steps[r][n][i].today
  /\ steps' = [r \in Runs |-> [n \in Nodes |->
       [i \in DOMAIN steps[r][n] |-> [steps[r][n][i] EXCEPT !.today = FALSE]]]]
  /\ UNCHANGED <<run, failures, tick, founder, faults, history>>

\* CIRCUIT_RETEST_WINDOW_S after the last failure
CircuitExpires ==
  /\ failures > 0 /\ failures' = 0
  /\ UNCHANGED <<record, tick, founder, faults, history>>

\* the worker dies, or a query or Redis call throws out of advanceRun
Interrupted ==
  /\ tick.run # None /\ faults < MaxFaults /\ faults' = faults + 1
  /\ tick' = IdleTick \/ LeaveRun
  /\ unknown' = IF tick.pc = "accepted" /\ Deferred(tick.node)
                  THEN [unknown EXCEPT ![tick.run][tick.node] = @ + 1] ELSE unknown
  /\ UNCHANGED <<record, failures, founder, posts, effects, yes, settled, done>>
-----------------------------------------------------------------------------
NodeStep(n) ==
  \/ Recover(n) \/ MaintainHarvest(n) \/ MaintainAsk(n) \/ MaintainParked(n) \/ Decline(n)
  \/ Forget(n) \/ OpenGate(n) \/ ParkGate(n) \/ SkipStraggler(n)
  \/ StartNode(n) \/ RunTask(n) \/ Park(n) \/ CheckChannel(n) \/ RefuseContent(n) \/ Send(n)
  \/ RecordAccepted(n) \/ RecordUnsent(n) \/ Act(n) \/ RecordActed(n)

TickStep ==
  \/ TickBegin \/ TickEnd \/ FrontierDone \/ FailRun \/ CloseRun
  \/ \E r \in Runs : LoadRun(r)
  \/ \E n \in Nodes : NodeStep(n)

FounderStep ==
  \/ \E r \in Runs, n \in Nodes, answer \in BOOLEAN : TapCheck(r, n, answer)
  \/ \E t \in inflight : TapWrite(t)

Clock == NextDay \/ CircuitExpires \/ \E r \in Runs, n \in Nodes : Age(r, n)

Next == TickStep \/ FounderStep \/ Clock \/ Interrupted \/ \E r \in Runs : StartRun(r)

Spec == Init /\ [][Next]_vars

\* the cron keeps ticking and the clock does not stop; the founder owes no answer
Fairness == WF_vars(TickStep) /\ SF_vars(Clock)

FairSpec == Spec /\ Fairness
-----------------------------------------------------------------------------
(* Properties *)

\* nodes a row of which has the founder's yes, and nodes with a post
AnsweredYes == {<<step[1], step[2]>> : step \in yes}
WithPost == {x \in Runs \X Nodes : posts[x[1]][x[2]] > 0}

\* "Nothing publishes without a human": a post is accepted only after the founder's yes
\* was written to every approval above its node, whatever timeouts, retries and
\* crash recovery did in between.
NothingPublishedWithoutApproval ==
  \A r \in Runs, n \in Of("publish") : posts[r][n] > 0 =>
    \A a \in Of("approval") : Upstream(a, n) => <<r, a>> \in AnsweredYes

\* A node publishes once, and once more for each retry gate the founder answered yes.
\* The posts nobody was asked about are those the runner cannot take for posts: accepted
\* and answered with an error, or released from a park and lost before the record.
NoUnapprovedDuplicate ==
  \A r \in Runs, n \in Of("publish") :
    posts[r][n] <= 1 + unknown[r][n] + Cardinality({i \in 1 .. Len(steps[r][n]) : <<r, n, i>> \in yes})

\* The effect of a verdict, a store or a spawn takes place at most once in a run, also
\* when the worker dies between the effect and its record.
EffectsAtMostOnce == \A r \in Runs, n \in Nodes : effects[r][n] <= 1

\* A node is attempted again only within its retry budget, a dead worker and a refused
\* gate counted as attempts, or because the founder answered a retry gate yes.
AttemptsWithinBudget ==
  \A r \in Runs, n \in Nodes :
    Len(steps[r][n]) <= 1 + Budget + Cardinality({i \in 1 .. Len(steps[r][n]) : <<r, n, i>> \in yes})

\* A run that is over leaves no step waiting: the founder is not asked about it, and
\* nothing parked for another day is left behind.
ClosedRunAsksNothing == \A r \in Runs : run[r] \in {"succeeded", "failed"} => ~HasWaiting(r)

\* A run that is recorded as succeeded has published, unless an optional approval above the
\* node was declined or never answered: a retry gate answered yes does not pass for the post
\* it allows. What is said of the approval is what the closing of the run finds; a yes
\* written later changes the row, not the run.
SucceededRunPublished == [][
  \A r \in Runs, n \in Of("publish") : run[r] # "succeeded" /\ run'[r] = "succeeded" =>
    \/ posts[r][n] > 0
    \/ \E a \in Optional : Upstream(a, n) /\ Latest(r, a).status # "succeeded"]_vars

\* A yes written while neither a tick was at the run nor another tap at the step stands:
\* no timeout, fail-fast or crash recovery of a later tick overwrites it.
UnracedYesStands == \A x \in settled : steps[x[1]][x[2]][x[3]].status = "succeeded"

Promise == INSTANCE AgentGraph WITH
  status <- run, finished <- done, approved <- AnsweredYes, posted <- WithPost

\* The runner keeps the promise of agent-graphs.ts: every step of a tick, a tap, the clock
\* or a crash is a step of AgentGraph or leaves its state alone.
ImplementsAgentGraph == Promise!Spec

\* Every run ends, whether or not the founder answers.
RunEnds == \A r \in Runs : run[r] = "running" ~> run[r] # "running"
=============================================================================
