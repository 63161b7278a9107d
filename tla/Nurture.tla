-------------------------------- MODULE Nurture --------------------------------
(***************************************************************************)
(* The mail sequences one contact is enrolled in. A poll of the worker     *)
(* reads the rows that are due and works through them, one query or mail   *)
(* at a time; every five minutes another poll starts, whether or not the   *)
(* last one is done.                                                       *)
(*                                                                         *)
(*   worker   apps/worker/src/jobs/nurture-send.ts, apps/worker/src/index.ts *)
(*   cadence  packages/shared/src/nurture-cadence.ts                       *)
(*   API      apps/api/src/routes/nurture.ts                               *)
(*                                                                         *)
(* The purchases that suppress a sequence are modelled by StripeWebhooks,  *)
(* which extends this module and has the specification.                    *)
(***************************************************************************)
EXTENDS Naturals, FiniteSets

CONSTANTS
  Steps,         \* total_steps of each sequence
  Polls,         \* invocations of processNurtureJobs that may be under way
  MaxFaults,     \* bound: failed calls, crashes, lost answers and double deliveries together
  None

Growth == "kit_to_growth"
Dfy == "kit_to_dfy"
Series == {Growth, Dfy}

ASSUME NurtureAssumption ==
  /\ Steps \in [Series -> Nat \ {0}] /\ MaxFaults \in Nat /\ None \notin Series
  /\ IsFiniteSet(Polls)

\* NURTURE_CHAIN: what a finished sequence leads to
Chained(s) == IF s = Growth THEN Dfy ELSE None

VARIABLES
  enrollment,  \* nurture_enrollment: the row of each sequence
  sendLog,     \* nurture_send_log: <<sequence, step>>
  planTier,    \* tenants.plan_tier of the contact
  poll,        \* local state of a poll
  faults,
  \* what happened, for the properties to speak about
  mails,       \* mails of each step the provider accepted
  unlogged,    \* those of them that never came to be logged
  overlaps,    \* looks at the log for a step while another poll was between its look and its entry
  silenced,    \* sequences suppressed while no poll was about to send one of their mails
  late         \* sequences enrolled for a subscriber by a poll that had read "free"

history == <<mails, unlogged, overlaps, silenced, late>>
nurtureVars == <<enrollment, sendLog, poll, history>>

Tier == {"free", "paid"}
NoRow == [exists |-> FALSE, step |-> 0, due |-> FALSE, suppressed |-> FALSE, completed |-> FALSE]
RowRec == [exists : BOOLEAN, step : Nat, due : BOOLEAN, suppressed : BOOLEAN, completed : BOOLEAN]
\* step 0 goes out at enrollment
NewRow == [NoRow EXCEPT !.exists = TRUE, !.due = TRUE]
Active(s) == enrollment[s].exists /\ ~enrollment[s].suppressed

\* todo: the rows of the poll's SELECT still to come, with the step read then
PollPc == {"idle", "next", "recheck", "send", "log", "advance", "plan", "chain"}
\* plan: what the poll has read of the contact's plan
IdlePoll == [pc |-> "idle", todo |-> {}, seq |-> None, step |-> 0, plan |-> "unread"]
PollRec == [pc : PollPc, todo : SUBSET (Series \X Nat), seq : Series \cup {None}, step : Nat,
            plan : Tier \cup {"unread"}]

Mail(s) == 0 .. Steps[s] - 1

NurtureTypeOK ==
  /\ enrollment \in [Series -> RowRec] /\ sendLog \subseteq Series \X Nat
  /\ planTier \in Tier /\ poll \in [Polls -> PollRec] /\ faults \in 0 .. MaxFaults
  /\ \A c \in {mails, unlogged, overlaps} :
       DOMAIN c = Series /\ \A s \in Series : c[s] \in [Mail(s) -> Nat]
  /\ silenced \subseteq Series /\ late \subseteq Series
  /\ \A s \in Series : enrollment[s].step <= Steps[s]

NurtureInit ==
  /\ enrollment = [s \in Series |-> IF s = Growth THEN NewRow ELSE NoRow] /\ sendLog = {} /\ planTier = "free"
  /\ poll = [p \in Polls |-> IdlePoll] /\ faults = 0
  /\ mails = [s \in Series |-> [k \in Mail(s) |-> 0]]
  /\ unlogged = mails /\ overlaps = mails /\ silenced = {} /\ late = {}

Fault == faults < MaxFaults /\ faults' = faults + 1

-----------------------------------------------------------------------------
(* What happens to the rows: enrollment, suppression, the unsubscribe link, time *)

\* INSERT ... ON CONFLICT (email, sequence) DO NOTHING
Enroll(s, read) ==
  /\ enrollment' = [enrollment EXCEPT ![s] = IF @.exists THEN @ ELSE NewRow]
  /\ late' = IF read = "free" /\ planTier = "paid" /\ ~enrollment[s].exists
               THEN late \cup {s} ELSE late

Suppress(S) ==
  /\ enrollment' = [s \in Series |->
       IF s \in S /\ enrollment[s].exists THEN [enrollment[s] EXCEPT !.suppressed = TRUE]
       ELSE enrollment[s]]
  /\ silenced' = silenced \cup {s \in S : Active(s)
       /\ \A p \in Polls : ~(poll[p].pc = "send" /\ poll[p].seq = s)}

\* GET /api/nurture/unsubscribe: the token is that of one row
Unsubscribe(s) ==
  /\ Active(s) /\ Suppress({s})
  /\ UNCHANGED <<sendLog, planTier, poll, faults, mails, unlogged, overlaps, late>>

InHand(p, s) == poll[p].seq = s \/ \E x \in poll[p].todo : x[1] = s

\* the delay of a step is over. The shortest one is a day, which is longer than a poll of
\* fifty rows lasts.
DelayPasses(s) ==
  /\ enrollment[s].exists /\ ~enrollment[s].due /\ ~enrollment[s].completed
  /\ \A p \in Polls : ~InHand(p, s)
  /\ enrollment' = [enrollment EXCEPT ![s].due = TRUE]
  /\ UNCHANGED <<sendLog, planTier, poll, faults, history>>
-----------------------------------------------------------------------------
(* processNurtureJobs *)

Goto(p, pc) == poll' = [poll EXCEPT ![p].pc = pc]
\* continue: the poll turns to its next row, or is done
NextRow(p) ==
  poll' = [poll EXCEPT ![p] =
    IF @.todo = {} THEN IdlePoll ELSE [IdlePoll EXCEPT !.pc = "next", !.todo = poll[p].todo]]

DueRows == {s \in Series : Active(s) /\ ~enrollment[s].completed /\ enrollment[s].due}

FetchDue(p) ==
  /\ poll[p].pc = "idle" /\ DueRows # {}
  /\ poll' = [poll EXCEPT ![p] = [IdlePoll EXCEPT !.pc = "next",
       !.todo = {<<s, enrollment[s].step>> : s \in DueRows}]]
  /\ UNCHANGED <<enrollment, sendLog, planTier, faults, history>>

\* mutant: no look at the log
CheckLog_Skipped(p) ==
  /\ poll[p].pc = "next"
  /\ \E x \in poll[p].todo :
       poll' = [poll EXCEPT ![p] = [IdlePoll EXCEPT !.pc = "recheck",
                  !.todo = poll[p].todo \ {x}, !.seq = x[1], !.step = x[2]]]
  /\ UNCHANGED <<enrollment, sendLog, planTier, faults, history>>

\* between the look at the log and the entry in it
Undecided(q, x) == <<poll[q].seq, poll[q].step>> = x /\ poll[q].pc \in {"recheck", "send", "log"}

\* a step that is in the log only moves the cursor
CheckLog(p) ==
  /\ poll[p].pc = "next"
  /\ \E x \in poll[p].todo :
       /\ poll' = [poll EXCEPT ![p] = [IdlePoll EXCEPT
                     !.pc = IF x \in sendLog THEN "advance" ELSE "recheck",
                     !.todo = poll[p].todo \ {x}, !.seq = x[1], !.step = x[2]]]
       /\ overlaps' = IF x \notin sendLog /\ \E q \in Polls : Undecided(q, x)
                        THEN [overlaps EXCEPT ![x[1]][x[2]] = @ + 1] ELSE overlaps
  /\ UNCHANGED <<enrollment, sendLog, planTier, faults, mails, unlogged, silenced, late>>

\* mutant: the flag of the poll's first SELECT is good enough
Recheck_Skipped(p) ==
  /\ poll[p].pc = "recheck" /\ Goto(p, "send")
  /\ UNCHANGED <<enrollment, sendLog, planTier, faults, history>>

Recheck(p) ==
  /\ poll[p].pc = "recheck"
  /\ IF enrollment[poll[p].seq].suppressed THEN NextRow(p) ELSE Goto(p, "send")
  /\ UNCHANGED <<enrollment, sendLog, planTier, faults, history>>

\* the provider takes the mail, refuses it, or takes it and its answer is lost; without an
\* answer the cursor stays
Send(p) ==
  LET s == poll[p].seq  k == poll[p].step IN
  /\ poll[p].pc = "send"
  /\ \/ /\ Goto(p, "log") /\ UNCHANGED <<faults, unlogged>>
        /\ mails' = [mails EXCEPT ![s][k] = @ + 1]
     \/ /\ Fault /\ NextRow(p) /\ UNCHANGED <<mails, unlogged>>
     \/ /\ Fault /\ NextRow(p)
        /\ mails' = [mails EXCEPT ![s][k] = @ + 1]
        /\ unlogged' = [unlogged EXCEPT ![s][k] = @ + 1]
  /\ UNCHANGED <<enrollment, sendLog, planTier, overlaps, silenced, late>>

\* mutant: the cursor goes ahead of the log
InsertLog_Later(p) ==
  /\ poll[p].pc = "log" /\ Goto(p, "advance")
  /\ UNCHANGED <<enrollment, sendLog, planTier, faults, history>>

InsertLog(p) ==
  /\ poll[p].pc = "log" /\ Goto(p, "advance")
  /\ sendLog' = sendLog \cup {<<poll[p].seq, poll[p].step>>}
  /\ UNCHANGED <<enrollment, planTier, faults, history>>

\* mutant: the row is completed one step late
Advance_OneMore(p) ==
  LET s == poll[p].seq  k == poll[p].step + 1 IN
  /\ poll[p].pc = "advance"
  /\ IF k > Steps[s]
       THEN /\ enrollment' = [enrollment EXCEPT ![s].step = k, ![s].completed = TRUE]
            /\ IF Chained(s) = None THEN NextRow(p) ELSE Goto(p, "plan")
       ELSE /\ enrollment' = [enrollment EXCEPT ![s].step = k, ![s].due = FALSE]
            /\ NextRow(p)
  /\ UNCHANGED <<sendLog, planTier, faults, history>>

\* advanceCursor: an UPDATE by id, whatever the row says by now
Advance(p) ==
  LET s == poll[p].seq  k == poll[p].step + 1 IN
  /\ poll[p].pc = "advance"
  /\ IF k >= Steps[s]
       THEN /\ enrollment' = [enrollment EXCEPT ![s].step = k, ![s].completed = TRUE]
            /\ IF Chained(s) = None THEN NextRow(p) ELSE Goto(p, "plan")
       ELSE /\ enrollment' = [enrollment EXCEPT ![s].step = k, ![s].due = FALSE]
            /\ NextRow(p)
  /\ UNCHANGED <<sendLog, planTier, faults, history>>

HasPaidSubscription == planTier # "free"

\* mutant: the next rung follows for whoever reached the end
ChainCheckPlan_Skipped(p) ==
  /\ poll[p].pc = "plan" /\ Goto(p, "chain")
  /\ UNCHANGED <<enrollment, sendLog, planTier, faults, history>>

\* enrollChainedSequence
ChainCheckPlan(p) ==
  /\ poll[p].pc = "plan"
  /\ IF HasPaidSubscription THEN NextRow(p)
     ELSE poll' = [poll EXCEPT ![p] = [@ EXCEPT !.pc = "chain", !.plan = planTier]]
  /\ UNCHANGED <<enrollment, sendLog, planTier, faults, history>>

ChainInsert(p) ==
  /\ poll[p].pc = "chain" /\ Enroll(Chained(poll[p].seq), poll[p].plan) /\ NextRow(p)
  /\ UNCHANGED <<sendLog, planTier, faults, mails, unlogged, overlaps, silenced>>

\* a query of the row throws, which ends the row (the chain catches its own), or the worker
\* dies
PollFails(p) ==
  /\ poll[p].pc # "idle" /\ Fault
  /\ IF poll[p].pc = "next" THEN poll' = [poll EXCEPT ![p] = IdlePoll]
     ELSE NextRow(p) \/ poll' = [poll EXCEPT ![p] = IdlePoll]
  /\ unlogged' = IF poll[p].pc = "log" THEN [unlogged EXCEPT ![poll[p].seq][poll[p].step] = @ + 1]
                  ELSE unlogged
  /\ UNCHANGED <<enrollment, sendLog, planTier, mails, overlaps, silenced, late>>

PollStep(p) ==
  \/ CheckLog(p) \/ Recheck(p) \/ Send(p) \/ InsertLog(p) \/ Advance(p)
  \/ ChainCheckPlan(p) \/ ChainInsert(p)
-----------------------------------------------------------------------------
(* Properties *)

\* "Each (enrollment, step) pair is sent at most once": and once more only for each mail
\* that was never logged, and for each poll that looked at the log while another one was
\* between its look and its entry for the same step.
MailsExplained ==
  \A s \in Series : \A k \in Mail(s) : mails[s][k] <= 1 + unlogged[s][k] + overlaps[s][k]

\* The cursor never gets ahead of the log: every step it has passed was mailed and logged,
\* whatever polls, crashes and stale rows did, so no step is left out.
CursorFollowsLog ==
  \A s \in Series : \A k \in Mail(s) : k < enrollment[s].step =>
    <<s, k>> \in sendLog /\ mails[s][k] > 0

\* "Suppression stops the worker from sending further steps": after a suppression that
\* found no poll between its re-check and its mail, no mail of the sequence goes out, not by
\* a poll that had read the row before.
SuppressedStaysSilent == [][\A s \in silenced : mails'[s] = mails[s]]_<<mails, silenced>>
=============================================================================
