------------------------- MODULE GraphRunnerProofs -------------------------
(***************************************************************************)
(* The agent graphs, for every graph, every number of runs and every       *)
(* bound: the runner keeps the promise of AgentGraph, an effect takes      *)
(* place once, a run that is over leaves no step waiting, a yes that raced *)
(* with nothing stands, attempts stay in their budget, no post is repeated *)
(* but with a yes or for want of an answer, and a run recorded as          *)
(* succeeded has made its posts.                                           *)
(*                                                                         *)
(* RunnerInv is inductive. StoreInv is about the rows and what the founder *)
(* said, TickInv about the snapshot a tick works on. A row is written by   *)
(* its id and appended behind the others, which is all that RowWritten and *)
(* RowAppended say; everything after them speaks of the number of rows and *)
(* of their status only.                                                   *)
(*                                                                         *)
(* BudgetInv, in the second half, counts: for one node of one run it ties  *)
(* the number of rows and of posts to the answers, in the tables and in    *)
(* the snapshot. RowsKept, SnapKept and PairStays are the frame of a step; *)
(* then each action has a lemma about the node it writes.                  *)
(*                                                                         *)
(* CloseInv, in the last part, ties what the rows and the snapshot say of  *)
(* a publish to its posts, as far as the end of a run depends on it.       *)
(***************************************************************************)
EXTENDS GraphRunner, FiniteSetTheorems, SequenceTheorems, TLAPS
-----------------------------------------------------------------------------
(* The rows, the founder's answers and the effects, whoever writes them *)

Ids(r, n) == 1 .. Len(steps[r][n])
Waits(r, n, i) == steps[r][n][i].status = "waiting"
InputsDone(r, n) == \A m \in Deps[n] : <<r, m>> \in done

\* A row is there only once the run was started and the inputs of its node exist.
StartedInOrder ==
  \A r \in Runs, n \in Nodes : Len(steps[r][n]) > 0 => run[r] # "none" /\ InputsDone(r, n)

\* A row that says succeeded has been recorded as such.
SucceededIsDone ==
  \A r \in Runs, n \in Nodes : \A i \in Ids(r, n) :
    steps[r][n][i].status = "succeeded" => <<r, n>> \in done

\* An approval succeeds by a yes, and what has succeeded has a row.
DoneByYes ==
  \A r \in Runs, n \in Nodes : <<r, n>> \in done =>
    /\ Len(steps[r][n]) > 0
    /\ Kind[n] = "approval" => \E i \in Ids(r, n) : <<r, n, i>> \in yes

\* A tap under way is about a row of an approval or of a retry gate.
AnswersAreRows ==
  \A t \in inflight :
    /\ t.step[3] \in Ids(t.step[1], t.step[2])
    /\ Kind[t.step[2]] \in {"approval", "publish"}

\* A post was made for a row of a publish node, an effect for a row of its node.
PostedWasStarted ==
  \A r \in Runs, n \in Nodes :
    /\ posts[r][n] > 0 => Kind[n] = "publish" /\ Len(steps[r][n]) > 0
    /\ effects[r][n] > 0 => effects[r][n] = 1 /\ Len(steps[r][n]) > 0

\* Of the rows of a node only the latest waits, and none of a run that is over.
LatestWaits ==
  \A r \in Runs, n \in Nodes : \A i \in Ids(r, n) :
    Waits(r, n, i) => i = Len(steps[r][n]) /\ run[r] = "running"

StoreInv ==
  /\ StartedInOrder /\ SucceededIsDone /\ DoneByYes /\ AnswersAreRows /\ PostedWasStarted
  /\ LatestWaits
-----------------------------------------------------------------------------
(* The snapshot the tick works on *)

AtWork == {"gate", "task", "park", "check", "send", "accepted", "unsent", "act", "acted"}
KindOf(pc) == CASE pc = "task" -> {"task"} [] pc = "park" -> {"approval", "harvest"}
                [] pc \in {"act", "acted"} -> {"effect"} [] OTHER -> {"publish"}
\* the tick is in section 2 of advanceRun, or in section 4
InFrontier ==
  \/ tick.pc \in {"frontier", "gate"}
  \/ tick.pc \in {"send", "accepted"} /\ tick.view[tick.node].status = "waiting"
InStart ==
  \/ tick.pc \in {"start", "task", "park", "check", "unsent", "act", "acted"}
  \/ tick.pc \in {"send", "accepted"} /\ tick.view[tick.node].status # "waiting"

\* The tick is at a run that runs, or between two.
AtARun == tick.run # None => run[tick.run] = "running"
Between == tick.run = None <=> tick.pc \in {"idle", "next"}

\* The snapshot names rows that exist, has not forgotten an effect, and what it saw
\* succeed did.
ViewIsOld == tick.run # None =>
  \A n \in Nodes : LET v == tick.view[n]  rows == Len(steps[tick.run][n]) IN
    /\ v.id <= rows /\ (v.status # "none" => v.id > 0) 
    /\ v.status = "succeeded" => <<tick.run, n>> \in done
    /\ Kind[n] = "effect" /\ v.id = 0 => rows = 0

\* A row that waits is in the snapshot.
WaitIsSeen == tick.run # None =>
  \A n \in Nodes : \A i \in Ids(tick.run, n) : Waits(tick.run, n, i) =>
    /\ tick.view[n].id = i /\ tick.view[n].status \in {"waiting", "running"}
    /\ tick.pc = "skip" \/ InFrontier => tick.view[n].status = "waiting"
    /\ tick.pc = "skip" => n \in tick.todo

\* What the sections have left to do.
Agenda ==
  /\ tick.pc \notin AtWork => tick.node = None
  /\ tick.pc = "gate" => tick.todo = {}
  /\ tick.pc = "skip" \/ InFrontier =>
       \A n \in tick.todo : tick.view[n].status = "waiting"
  /\ InStart => \A n \in tick.todo \ {tick.node} :
       InputsDone(tick.run, n) /\ tick.view[n].id = 0

\* The row the tick is working on.
AtANode == tick.pc \in AtWork =>
  LET n == tick.node  v == tick.view[tick.node] IN
  /\ n \in Nodes /\ Kind[n] \in KindOf(tick.pc) /\ v.id > 0
  /\ v.status \in {"running", "waiting"}
  /\ tick.pc \notin {"send", "accepted"} => v.status = "running"
  /\ tick.pc \in {"gate", "park", "check"} => v.id = Len(steps[tick.run][n])
  /\ tick.pc = "act" => effects[tick.run][n] = 0
  /\ tick.pc = "accepted" => posts[tick.run][n] > 0

TickInv == AtARun /\ Between /\ ViewIsOld /\ WaitIsSeen /\ Agenda /\ AtANode
RunnerInv == TypeOK /\ StoreInv /\ TickInv
-----------------------------------------------------------------------------
(* Rows: what writing and appending one does to the table *)

\* The number of rows of a node is a number, and each of them is a row.
LEMMA RowsAreRows ==
  ASSUME steps \in Rows, NEW r \in Runs, NEW n \in Nodes
  PROVE  /\ Len(steps[r][n]) \in Nat
         /\ \A i \in Ids(r, n) : steps[r][n][i] \in Row
         /\ DOMAIN steps[r][n] = Ids(r, n)
         /\ steps[r][n] = <<>> <=> Len(steps[r][n]) = 0
<1>1. steps[r][n] \in Seq(Row)
  BY DEF Rows
<1>2. \A i \in 1 .. Len(steps[r][n]) : steps[r][n][i] \in Row
  BY <1>1, ElementOfSeq
<1> QED BY <1>1, <1>2, LenProperties, EmptySeq DEF Ids

\* A new sequence of rows for one node leaves those of the others alone.
LEMMA RowsReplaced ==
  ASSUME steps \in Rows, NEW r \in Runs, NEW n \in Nodes, NEW s \in Seq(Row),
         steps' = [steps EXCEPT ![r] = [steps[r] EXCEPT ![n] = s]]
  PROVE  /\ steps' \in Rows
         /\ \A q \in Runs, m \in Nodes : steps'[q][m] = IF q = r /\ m = n THEN s ELSE steps[q][m]
BY DEF Rows

\* finishStep changes the status and the summary of one row.
LEMMA RowWritten ==
  ASSUME steps \in Rows, NEW r \in Runs, NEW n \in Nodes, NEW i \in Ids(r, n),
         NEW status \in RowStatus, NEW note \in Note, FinishStep(r, n, i, status, note)
  PROVE  /\ steps' \in Rows
         /\ \A q \in Runs, m \in Nodes : Len(steps'[q][m]) = Len(steps[q][m])
         /\ \A q \in Runs, m \in Nodes : \A k \in Ids(q, m) :
              /\ steps'[q][m][k].status = IF q = r /\ m = n /\ k = i THEN status
                                          ELSE steps[q][m][k].status
              /\ steps'[q][m][k].note = IF q = r /\ m = n /\ k = i THEN note
                                        ELSE steps[q][m][k].note
         /\ done' = IF status = "succeeded" THEN done \cup {<<r, n>>} ELSE done
<1> DEFINE e == [steps[r][n][i] EXCEPT !.status = status, !.note = note, !.old = FALSE,
                   !.today = steps[r][n][i].today /\ status # "failed"]
           s == [steps[r][n] EXCEPT ![i] = e]
<1>1. steps[r][n] \in Seq(Row) /\ i \in 1 .. Len(steps[r][n])
  BY DEF Rows, Ids
<1>2. steps[r][n][i] \in Row
  BY RowsAreRows
<1>3. e \in Row /\ e.status = status /\ e.note = note
  BY <1>2 DEF Row
<1>4. /\ s \in Seq(Row) /\ Len(s) = Len(steps[r][n])
      /\ \A k \in 1 .. Len(steps[r][n]) : s[k] = IF k = i THEN e ELSE steps[r][n][k]
  <2> HIDE DEF e
  <2> QED BY <1>1, <1>3, ExceptSeq
<1>5. steps' = [steps EXCEPT ![r] = [steps[r] EXCEPT ![n] = s]]
  BY DEF FinishStep
<1> HIDE DEF e, s
<1>6. /\ steps' \in Rows
      /\ \A q \in Runs, m \in Nodes : steps'[q][m] = IF q = r /\ m = n THEN s ELSE steps[q][m]
  BY <1>4, <1>5, RowsReplaced
<1> QED BY <1>3, <1>4, <1>6 DEF FinishStep, Ids

\* startStep puts a running row behind the others.
LEMMA RowAppended ==
  ASSUME steps \in Rows, NEW r \in Runs, NEW n \in Nodes,
         StartStep(r, n)
  PROVE  /\ steps' \in Rows
         /\ \A q \in Runs, m \in Nodes :
              Len(steps'[q][m]) = IF q = r /\ m = n THEN Len(steps[q][m]) + 1 ELSE Len(steps[q][m])
         /\ \A q \in Runs, m \in Nodes : \A k \in Ids(q, m) : steps'[q][m][k] = steps[q][m][k]
         /\ steps'[r][n][Len(steps[r][n]) + 1].status = "running"
<1> DEFINE s == Append(steps[r][n], NewRow(n))
<1>1. NewRow(n) \in Row /\ NewRow(n).status = "running"
  BY DEF NewRow, Row, RowStatus, Note
<1>2. steps[r][n] \in Seq(Row)
  BY DEF Rows
<1>3. /\ s \in Seq(Row) /\ Len(s) = Len(steps[r][n]) + 1
      /\ \A k \in 1 .. Len(steps[r][n]) : s[k] = steps[r][n][k]
      /\ s[Len(steps[r][n]) + 1] = NewRow(n)
  BY <1>1, <1>2, AppendProperties
<1>4. steps' = [steps EXCEPT ![r] = [steps[r] EXCEPT ![n] = s]]
  BY DEF StartStep
<1> HIDE DEF s
<1>5. /\ steps' \in Rows
      /\ \A q \in Runs, m \in Nodes : steps'[q][m] = IF q = r /\ m = n THEN s ELSE steps[q][m]
  BY <1>3, <1>4, RowsReplaced
<1> QED BY <1>1, <1>3, <1>5 DEF Ids

\* A row that comes of age keeps its status and its summary.
LEMMA RowAged ==
  ASSUME steps \in Rows, NEW r \in Runs, NEW n \in Nodes, Age(r, n)
  PROVE  /\ steps' \in Rows
         /\ \A q \in Runs, m \in Nodes : Len(steps'[q][m]) = Len(steps[q][m])
         /\ \A q \in Runs, m \in Nodes : \A k \in Ids(q, m) :
              /\ steps'[q][m][k].status = steps[q][m][k].status
              /\ steps'[q][m][k].note = steps[q][m][k].note
<1> DEFINE i == Len(steps[r][n])
           e == [steps[r][n][i] EXCEPT !.old = TRUE]
           s == [steps[r][n] EXCEPT ![i] = e]
<1>1. steps[r][n] \in Seq(Row) /\ i \in 1 .. Len(steps[r][n])
  <2>1. steps[r][n] # <<>>
    BY DEF Age, Latest, Unstarted
  <2> QED BY <2>1, RowsAreRows DEF Rows, Ids
<1>2. steps[r][n][i] \in Row
  BY <1>1, RowsAreRows DEF Ids
<1>3. e \in Row /\ e.status = steps[r][n][i].status /\ e.note = steps[r][n][i].note
  BY <1>2 DEF Row
<1>4. /\ s \in Seq(Row) /\ Len(s) = Len(steps[r][n])
      /\ \A k \in 1 .. Len(steps[r][n]) : s[k] = IF k = i THEN e ELSE steps[r][n][k]
  <2> HIDE DEF e, i
  <2> QED BY <1>1, <1>3, ExceptSeq
<1>5. steps' = [steps EXCEPT ![r] = [steps[r] EXCEPT ![n] = s]]
  BY DEF Age
<1> HIDE DEF e, s, i
<1>6. /\ steps' \in Rows
      /\ \A q \in Runs, m \in Nodes : steps'[q][m] = IF q = r /\ m = n THEN s ELSE steps[q][m]
  BY <1>4, <1>5, RowsReplaced
<1> QED BY <1>3, <1>4, <1>6 DEF Ids

\* Midnight keeps every row, its status and its summary.
LEMMA RowsOvernight ==
  ASSUME steps \in Rows,
         NextDay
  PROVE  /\ steps' \in Rows
         /\ \A q \in Runs, m \in Nodes : Len(steps'[q][m]) = Len(steps[q][m])
         /\ \A q \in Runs, m \in Nodes : \A k \in Ids(q, m) :
              /\ steps'[q][m][k].status = steps[q][m][k].status
              /\ steps'[q][m][k].note = steps[q][m][k].note
<1>1. ASSUME NEW q \in Runs, NEW m \in Nodes
      PROVE  /\ steps'[q][m] \in Seq(Row) /\ Len(steps'[q][m]) = Len(steps[q][m])
             /\ \A k \in Ids(q, m) : /\ steps'[q][m][k].status = steps[q][m][k].status
                                     /\ steps'[q][m][k].note = steps[q][m][k].note
  <2> DEFINE l == Len(steps[q][m])
             s == [i \in 1 .. l |-> [steps[q][m][i] EXCEPT !.today = FALSE]]
  <2>1. l \in Nat /\ DOMAIN steps[q][m] = 1 .. l /\ \A k \in 1 .. l : steps[q][m][k] \in Row
    BY RowsAreRows DEF Ids
  <2>2. steps'[q][m] = s
    BY <2>1 DEF NextDay
  <2>3. \A k \in 1 .. l : [steps[q][m][k] EXCEPT !.today = FALSE] \in Row
    BY <2>1 DEF Row
  <2>4. s \in [1 .. l -> Row]
    BY <2>3
  <2>5. s \in Seq(Row)
    BY <2>1, <2>4, SeqDef
  <2>6. Len(s) = l
    <3>1. DOMAIN s = 1 .. Len(s) /\ Len(s) \in Nat
      BY <2>5, LenProperties
    <3>2. DOMAIN s = 1 .. l
      OBVIOUS
    <3> HIDE DEF s
    <3> QED BY <2>1, <3>1, <3>2
  <2>7. \A k \in 1 .. l : s[k].status = steps[q][m][k].status /\ s[k].note = steps[q][m][k].note
    BY <2>1 DEF Row
  <2> QED BY <2>2, <2>5, <2>6, <2>7 DEF Ids
<1>2. steps' = [r \in Runs |-> [n \in Nodes |-> steps'[r][n]]]
  BY DEF NextDay
<1> QED BY <1>1, <1>2 DEF Rows
-----------------------------------------------------------------------------
(* What the sections do to the snapshot *)

\* Seen puts a node aside and its new status into the snapshot.
LEMMA SeenIs ==
  ASSUME TypeOK, NEW pc \in TickPc, NEW n \in Nodes, NEW status \in RowStatus, NEW note \in Note,
         NEW t, t = Seen(pc, n, status, note)
  PROVE  /\ t \in Tick
         /\ t.pc = pc /\ t.run = tick.run /\ t.todo = tick.todo \ {n} /\ t.node = None
         /\ \A m \in Nodes :
              /\ t.view[m].id = tick.view[m].id
              /\ t.view[m].status = IF m = n THEN status ELSE tick.view[m].status
         /\ t.older = tick.older /\ t.view[n].note = note
         /\ \A m \in Nodes \ {n} : t.view[m] = tick.view[m]
<1>1. tick \in Tick
  BY DEF TypeOK
<1>2. tick.view[n] \in Entry
  BY <1>1 DEF Tick
<1> DEFINE e == [tick.view[n] EXCEPT !.status = status, !.note = note]
           v == [tick.view EXCEPT ![n] = e]
<1>3. e \in Entry /\ e.id = tick.view[n].id /\ e.status = status /\ e.note = note
  BY <1>2 DEF Entry
<1>4. /\ v \in [Nodes -> Entry]
      /\ \A m \in Nodes : v[m] = IF m = n THEN e ELSE tick.view[m]
  BY <1>1, <1>3 DEF Tick
<1>5. t = [tick EXCEPT !.pc = pc, !.todo = tick.todo \ {n}, !.node = None, !.view = v]
  BY <1>1 DEF Seen, Handled, Tick
<1> HIDE DEF e, v
<1>6. /\ t.pc = pc /\ t.run = tick.run /\ t.todo = tick.todo \ {n} /\ t.node = None
      /\ t.view = v /\ t.older = tick.older
  BY <1>1, <1>5 DEF Tick
<1>7. t \in Tick
  BY <1>1, <1>4, <1>5 DEF Tick
<1> QED BY <1>3, <1>4, <1>6, <1>7

\* Handled puts a node aside.
LEMMA HandledIs ==
  ASSUME TypeOK, NEW pc \in TickPc, NEW n \in Nodes, NEW t, t = Handled(pc, n)
  PROVE  /\ t \in Tick
         /\ t.pc = pc /\ t.run = tick.run /\ t.todo = tick.todo \ {n} /\ t.node = None
         /\ t.view = tick.view /\ t.older = tick.older
BY DEF TypeOK, Handled, Tick

\* A tick that has not begun.
LEMMA IdleIs == IdleTick \in Tick /\ IdleTick.run = None /\ IdleTick.node = None
<1>1. Unread \in [Nodes -> Entry]
  BY DEF Unread, Unstarted, Entry, Note
<1> QED BY <1>1 DEF IdleTick, Tick, TickPc

\* A tick that leaves its run is between two.
LEMMA LeaveIs ==
  ASSUME TypeOK, LeaveRun \/ tick' = IdleTick
  PROVE  /\ tick' \in Tick
         /\ tick'.pc \in {"idle", "next"} /\ tick'.run = None /\ tick'.node = None
<1>2. IdleTick \in Tick
  BY IdleIs
<1>3. CASE LeaveRun
  BY <1>2, <1>3 DEF LeaveRun, TypeOK, Tick, TickPc, IdleTick
<1>4. CASE tick' = IdleTick
  BY <1>2, <1>4 DEF IdleTick
<1> QED BY <1>3, <1>4

\* The latest row of a node, as advanceRun reads it.
LEMMA LatestIs ==
  ASSUME TypeOK, NEW r \in Runs, NEW n \in Nodes
  PROVE  /\ Latest(r, n) \in Entry
         /\ Latest(r, n).id = Len(steps[r][n])
         /\ Len(steps[r][n]) = 0 => Latest(r, n).status = "none"
         /\ Len(steps[r][n]) > 0 =>
              /\ Latest(r, n).status = steps[r][n][Len(steps[r][n])].status
              /\ Latest(r, n).note = steps[r][n][Len(steps[r][n])].note
         /\ Len(steps[r][n]) > 0 => Latest(r, n).status \in RowStatus
<1>1. CASE steps[r][n] = <<>>
  BY <1>1 DEF Latest, Unstarted, Entry, Note
<1>2. CASE steps[r][n] # <<>>
  <2>1. Len(steps[r][n]) \in Nat /\ Len(steps[r][n]) > 0
    BY <1>2, RowsAreRows DEF TypeOK
  <2>2. steps[r][n][Len(steps[r][n])] \in Row
    BY <2>1, RowsAreRows DEF TypeOK, Ids
  <2> DEFINE row == steps[r][n][Len(steps[r][n])]
  <2>3. Latest(r, n) = [id |-> Len(steps[r][n]), status |-> row.status, note |-> row.note, old |-> row.old]
    BY <1>2 DEF Latest
  <2> QED BY <2>1, <2>2, <2>3 DEF Entry, Row
<1> QED BY <1>1, <1>2

\* A count of earlier failures is a number.
LEMMA FailedBeforeIsNat ==
  ASSUME TypeOK, NEW r \in Runs, NEW n \in Nodes
  PROVE  FailedBefore(r, n) \in Nat
<1> DEFINE S == {i \in 1 .. Len(steps[r][n]) - 1 : steps[r][n][i].status = "failed"}
<1>1. IsFiniteSet(1 .. Len(steps[r][n]) - 1)
  <2>1. Len(steps[r][n]) \in Nat
    BY RowsAreRows DEF TypeOK
  <2>2. 1 \in Int /\ Len(steps[r][n]) - 1 \in Int
    BY <2>1
  <2> QED BY <2>2, FS_Interval
<1>2. IsFiniteSet(S)
  BY <1>1, FS_Subset
<1> QED BY <1>2, FS_CardinalityType DEF FailedBefore
-----------------------------------------------------------------------------
(* StoreInv, by what an action does to the rows *)

\* A status is written to a row: "waiting" only to the latest row of a run that runs,
\* and "succeeded" to an approval only with a yes.
LEMMA StoreWritten ==
  ASSUME TypeOK, StoreInv, NEW r \in Runs, NEW n \in Nodes, NEW i \in Ids(r, n),
         NEW status \in RowStatus, NEW note \in Note, FinishStep(r, n, i, status, note),
         status = "waiting" => i = Len(steps[r][n]) /\ run[r] = "running",
         status = "succeeded" /\ Kind[n] = "approval" => <<r, n, i>> \in yes',
         yes \subseteq yes', inflight' \subseteq inflight, UNCHANGED <<run, posts, effects>>
  PROVE  StoreInv'
<1>1. steps \in Rows
  BY DEF TypeOK
<1>2. \A q \in Runs, m \in Nodes : Len(steps[q][m]) \in Nat
  BY <1>1, RowsAreRows
<1>3. /\ \A q \in Runs, m \in Nodes : Len(steps'[q][m]) = Len(steps[q][m])
      /\ \A q \in Runs, m \in Nodes : \A k \in Ids(q, m) :
           steps'[q][m][k].status = IF q = r /\ m = n /\ k = i THEN status
                                    ELSE steps[q][m][k].status
      /\ done' = IF status = "succeeded" THEN done \cup {<<r, n>>} ELSE done
  BY <1>1, RowWritten
<1>4. \A q \in Runs, m \in Nodes : Ids(q, m)' = Ids(q, m)
  BY <1>3 DEF Ids
<1>5. StartedInOrder'
  BY <1>3 DEF StoreInv, StartedInOrder, InputsDone
<1>6. SucceededIsDone'
  BY <1>3, <1>4 DEF StoreInv, SucceededIsDone
<1>7. DoneByYes'
  <2> SUFFICES ASSUME NEW q \in Runs, NEW m \in Nodes, <<q, m>> \in done'
               PROVE  /\ Len(steps'[q][m]) > 0
                      /\ Kind[m] = "approval" => \E k \in Ids(q, m)' : <<q, m, k>> \in yes'
    BY DEF DoneByYes
  <2>1. CASE <<q, m>> \in done
    BY <2>1, <1>3, <1>4 DEF StoreInv, DoneByYes
  <2>2. CASE <<q, m>> \notin done
    <3>1. q = r /\ m = n /\ status = "succeeded"
      BY <2>2, <1>3
    <3>2. Len(steps[r][n]) > 0
      BY <1>2 DEF Ids
    <3> QED BY <3>1, <3>2, <1>3, <1>4
  <2> QED BY <2>1, <2>2
<1>8. AnswersAreRows'
  <2> SUFFICES ASSUME NEW t \in inflight'
               PROVE  t.step[3] \in Ids(t.step[1], t.step[2])' /\ Kind[t.step[2]] \in {"approval", "publish"}
    BY DEF AnswersAreRows
  <2>1. t \in inflight /\ t.step[1] \in Runs /\ t.step[2] \in Nodes
    BY DEF TypeOK
  <2> QED BY <2>1, <1>4 DEF StoreInv, AnswersAreRows
<1>9. PostedWasStarted'
  BY <1>3 DEF StoreInv, PostedWasStarted
<1>10. LatestWaits'
  <2> SUFFICES ASSUME NEW q \in Runs, NEW m \in Nodes, NEW k \in Ids(q, m), Waits(q, m, k)'
               PROVE  k = Len(steps[q][m]) /\ run[q] = "running"
    BY <1>3, <1>4 DEF LatestWaits
  <2>1. CASE q = r /\ m = n /\ k = i
    BY <2>1, <1>3 DEF Waits
  <2>2. CASE ~(q = r /\ m = n /\ k = i)
    <3>1. Waits(q, m, k)
      BY <2>2, <1>3 DEF Waits
    <3> QED BY <3>1 DEF StoreInv, LatestWaits
  <2> QED BY <2>1, <2>2
<1> QED BY <1>5, <1>6, <1>7, <1>8, <1>9, <1>10 DEF StoreInv

\* A row is put behind the others of a node whose inputs exist and none of whose rows waits.
LEMMA StoreAppended ==
  ASSUME TypeOK, StoreInv, NEW r \in Runs, NEW n \in Nodes, StartStep(r, n),
         run[r] # "none", InputsDone(r, n), \A i \in Ids(r, n) : ~Waits(r, n, i),
         UNCHANGED <<run, inflight, yes, done, posts, effects>>
  PROVE  StoreInv'
<1>1. steps \in Rows
  BY DEF TypeOK
<1>2. \A q \in Runs, m \in Nodes : Len(steps[q][m]) \in Nat
  BY <1>1, RowsAreRows
<1>3. /\ \A q \in Runs, m \in Nodes :
           Len(steps'[q][m]) = IF q = r /\ m = n THEN Len(steps[q][m]) + 1 ELSE Len(steps[q][m])
      /\ \A q \in Runs, m \in Nodes : \A k \in Ids(q, m) : steps'[q][m][k] = steps[q][m][k]
      /\ steps'[r][n][Len(steps[r][n]) + 1].status = "running"
  BY <1>1, RowAppended
<1>4. \A q \in Runs, m \in Nodes : \A k \in Ids(q, m)' :
        k \in Ids(q, m) \/ (q = r /\ m = n /\ k = Len(steps[r][n]) + 1)
  BY <1>2, <1>3 DEF Ids
<1>11. \A q \in Runs, m \in Nodes : \A k \in Ids(q, m) : k \in Ids(q, m)'
  BY <1>2, <1>3 DEF Ids
<1>5. StartedInOrder'
  BY <1>3 DEF StoreInv, StartedInOrder, InputsDone
<1>6. SucceededIsDone'
  <2> SUFFICES ASSUME NEW q \in Runs, NEW m \in Nodes, NEW k \in Ids(q, m)',
                      steps'[q][m][k].status = "succeeded"
               PROVE  <<q, m>> \in done
    BY DEF SucceededIsDone
  <2>1. k \in Ids(q, m)
    BY <1>3, <1>4
  <2> QED BY <2>1, <1>3 DEF StoreInv, SucceededIsDone
<1>7. DoneByYes'
  <2> SUFFICES ASSUME NEW q \in Runs, NEW m \in Nodes, <<q, m>> \in done
               PROVE  /\ Len(steps'[q][m]) > 0
                      /\ Kind[m] = "approval" => \E k \in Ids(q, m)' : <<q, m, k>> \in yes
    BY DEF DoneByYes
  <2>1. Len(steps[q][m]) > 0 /\ (Kind[m] = "approval" => \E k \in Ids(q, m) : <<q, m, k>> \in yes)
    BY DEF StoreInv, DoneByYes
  <2>2. Len(steps'[q][m]) > 0
    BY <2>1, <1>2, <1>3
  <2> QED BY <2>1, <2>2, <1>11
<1>8. AnswersAreRows'
  <2> SUFFICES ASSUME NEW t \in inflight
               PROVE  t.step[3] \in Ids(t.step[1], t.step[2])' /\ Kind[t.step[2]] \in {"approval", "publish"}
    BY DEF AnswersAreRows
  <2>1. t.step[1] \in Runs /\ t.step[2] \in Nodes
    BY DEF TypeOK
  <2> QED BY <2>1, <1>11 DEF StoreInv, AnswersAreRows
<1>9. PostedWasStarted'
  BY <1>2, <1>3 DEF StoreInv, PostedWasStarted
<1>10. LatestWaits'
  <2> SUFFICES ASSUME NEW q \in Runs, NEW m \in Nodes, NEW k \in Ids(q, m)', Waits(q, m, k)'
               PROVE  k = Len(steps'[q][m]) /\ run'[q] = "running"
    BY DEF LatestWaits
  <2>1. ~(q = r /\ m = n)
    BY <1>3, <1>4 DEF Waits
  <2> QED BY <2>1, <1>3, <1>4 DEF StoreInv, LatestWaits, Waits
<1> QED BY <1>5, <1>6, <1>7, <1>8, <1>9, <1>10 DEF StoreInv

\* The rows keep their number and their status; posts and effects are for rows that exist.
LEMMA StoreKept ==
  ASSUME TypeOK, StoreInv, UNCHANGED <<yes, done>>,
         \A q \in Runs, m \in Nodes : Len(steps'[q][m]) = Len(steps[q][m]),
         \A q \in Runs, m \in Nodes : \A k \in Ids(q, m) :
           steps'[q][m][k].status = steps[q][m][k].status,
         \A q \in Runs : run[q] # "none" => run'[q] # "none",
         \A q \in Runs : run[q] = "running" /\ run'[q] # "running" =>
           \A m \in Nodes : \A k \in Ids(q, m) : ~Waits(q, m, k),
         PostedWasStarted', AnswersAreRows'
  PROVE  StoreInv'
<1>1. \A q \in Runs, m \in Nodes : Ids(q, m)' = Ids(q, m)
  BY DEF Ids
<1>2. StartedInOrder'
  BY DEF StoreInv, StartedInOrder, InputsDone
<1>3. SucceededIsDone'
  BY <1>1 DEF StoreInv, SucceededIsDone
<1>4. DoneByYes'
  BY <1>1 DEF StoreInv, DoneByYes
<1>5. LatestWaits'
  BY <1>1 DEF StoreInv, LatestWaits, Waits
<1> QED BY <1>2, <1>3, <1>4, <1>5 DEF StoreInv

\* Only the snapshot and what no invariant looks at change.
LEMMA StoreUntouched ==
  ASSUME TypeOK, StoreInv, UNCHANGED <<run, steps, yes, done, inflight, posts, effects>>
  PROVE  StoreInv'
BY DEF StoreInv, StartedInOrder, SucceededIsDone, DoneByYes, AnswersAreRows, PostedWasStarted,
       LatestWaits, Ids, Waits, InputsDone
-----------------------------------------------------------------------------
(* TickInv, by what an action does to the snapshot *)

\* Between two runs the tick holds no snapshot.
LEMMA TickLeft ==
  ASSUME tick'.pc \in {"idle", "next"}, tick'.run = None, tick'.node = None
  PROVE  TickInv'
BY DEF TickInv, AtARun, Between, ViewIsOld, WaitIsSeen, Agenda, AtANode, AtWork, InFrontier, InStart

\* The others only add to what is done and only take rows out of waiting.
LEMMA TickKept ==
  ASSUME TypeOK, TickInv, UNCHANGED <<tick, posts, effects>>, done \subseteq done',
         \A q \in Runs, m \in Nodes : Len(steps'[q][m]) = Len(steps[q][m]),
         \A q \in Runs, m \in Nodes : \A k \in Ids(q, m) : Waits(q, m, k)' => Waits(q, m, k),
         \A q \in Runs : run[q] = "running" => run'[q] = "running"
  PROVE  TickInv'
<1>1. tick.run # None => tick.run \in Runs
  BY DEF TypeOK, Tick
<1>2. \A q \in Runs, m \in Nodes : Ids(q, m)' = Ids(q, m)
  BY DEF Ids
<1>3. AtARun' /\ Between'
  BY <1>1 DEF TickInv, AtARun, Between
<1>4. ViewIsOld'
  BY <1>1 DEF TickInv, ViewIsOld
<1>5. WaitIsSeen'
  BY <1>1, <1>2 DEF TickInv, WaitIsSeen, InFrontier
<1>6. Agenda'
  BY DEF TickInv, Agenda, InFrontier, InStart, InputsDone
<1>7. AtANode'
  <2>1. tick.pc \in AtWork => tick.run \in Runs
    BY <1>1 DEF TickInv, Between, AtWork
  <2> QED BY <2>1 DEF TickInv, AtANode
<1> QED BY <1>3, <1>4, <1>5, <1>6, <1>7 DEF TickInv

\* A row the snapshot knows is one of the table.
LEMMA ViewNamesRow ==
  ASSUME TypeOK, TickInv, tick.run # None, NEW n \in Nodes, tick.view[n].status # "none"
  PROVE  tick.run \in Runs /\ tick.view[n].id \in Ids(tick.run, n)
<1>1. tick.run \in Runs /\ tick.view[n] \in Entry
  BY DEF TypeOK, Tick
<1>2. Len(steps[tick.run][n]) \in Nat
  BY <1>1, RowsAreRows DEF TypeOK
<1>3. tick.view[n].id <= Len(steps[tick.run][n]) /\ tick.view[n].id > 0
  BY DEF TickInv, ViewIsOld
<1>4. tick.view[n].id \in Nat
  BY <1>1 DEF Entry
<1> QED BY <1>1, <1>2, <1>3, <1>4 DEF Ids

\* What FinishStep does to the row the tick is working on.
LEMMA TickWrites ==
  ASSUME TypeOK, TickInv, tick.run # None, NEW n \in Nodes, tick.view[n].status # "none",
         NEW status \in RowStatus, NEW note \in Note,
         FinishStep(tick.run, n, tick.view[n].id, status, note)
  PROVE  /\ \A m \in Nodes : Len(steps'[tick.run][m]) = Len(steps[tick.run][m])
         /\ \A m \in Nodes : \A k \in Ids(tick.run, m) :
              steps'[tick.run][m][k].status =
                IF m = n /\ k = tick.view[n].id THEN status ELSE steps[tick.run][m][k].status
         /\ done' = IF status = "succeeded" THEN done \cup {<<tick.run, n>>} ELSE done
<1>1. tick.run \in Runs /\ tick.view[n].id \in Ids(tick.run, n)
  BY ViewNamesRow
<1>2. steps \in Rows
  BY DEF TypeOK
<1>3. /\ \A q \in Runs, m \in Nodes : Len(steps'[q][m]) = Len(steps[q][m])
      /\ \A q \in Runs, m \in Nodes : \A k \in Ids(q, m) :
           steps'[q][m][k].status = IF q = tick.run /\ m = n /\ k = tick.view[n].id THEN status
                                    ELSE steps[q][m][k].status
      /\ done' = IF status = "succeeded" THEN done \cup {<<tick.run, n>>} ELSE done
  BY <1>1, <1>2, RowWritten
<1> QED BY <1>1, <1>3

\* Section 2 writes a row, and the snapshot follows.
LEMMA FrontierWrites ==
  ASSUME TypeOK, TickInv, InFrontier, NEW n \in Nodes, tick.view[n].status # "none",
         NEW status \in RowStatus, NEW note \in Note,
         FinishStep(tick.run, n, tick.view[n].id, status, note),
         tick' = Seen("frontier", n, status, note), UNCHANGED <<run, effects>>
  PROVE  TickInv'
<1>1. tick.run # None /\ tick.run \in Runs
  BY DEF TickInv, Between, InFrontier, TypeOK, Tick
<1>2. /\ tick'.pc = "frontier" /\ tick'.run = tick.run /\ tick'.todo = tick.todo \ {n}
      /\ tick'.node = None
      /\ \A m \in Nodes :
           /\ tick'.view[m].id = tick.view[m].id
           /\ tick'.view[m].status = IF m = n THEN status ELSE tick.view[m].status
  BY SeenIs DEF TickPc
<1>3. /\ \A m \in Nodes : Len(steps'[tick.run][m]) = Len(steps[tick.run][m])
      /\ \A m \in Nodes : Ids(tick.run, m)' = Ids(tick.run, m)
      /\ \A m \in Nodes : \A k \in Ids(tick.run, m) :
           steps'[tick.run][m][k].status =
             IF m = n /\ k = tick.view[n].id THEN status ELSE steps[tick.run][m][k].status
      /\ done' = IF status = "succeeded" THEN done \cup {<<tick.run, n>>} ELSE done
  BY <1>1, <1>2, TickWrites DEF Ids
<1>4. AtARun' /\ Between'
  BY <1>1, <1>2 DEF TickInv, AtARun, Between
<1>5. ViewIsOld'
  <2>1. n \in Nodes /\ tick.view[n].id > 0
    BY <1>1 DEF TickInv, ViewIsOld
  <2> QED BY <2>1, <1>1, <1>2, <1>3 DEF TickInv, ViewIsOld
<1>6. WaitIsSeen'
  <2> SUFFICES ASSUME NEW m \in Nodes, NEW k \in Ids(tick.run, m), Waits(tick.run, m, k)'
               PROVE  tick'.view[m].id = k /\ tick'.view[m].status = "waiting"
    BY <1>2, <1>3 DEF WaitIsSeen, Waits
  <2>1. CASE m = n /\ k = tick.view[n].id
    BY <2>1, <1>1, <1>2, <1>3 DEF Waits
  <2>2. CASE ~(m = n /\ k = tick.view[n].id)
    <3>1. Waits(tick.run, m, k)
      BY <2>2, <1>1, <1>2, <1>3 DEF Waits
    <3>2. tick.view[m].id = k /\ tick.view[m].status = "waiting"
      BY <3>1, <1>1 DEF TickInv, WaitIsSeen
    <3> QED BY <3>2, <2>2, <1>2
  <2> QED BY <2>1, <2>2
<1>7. Agenda'
  <2>1. \A m \in tick'.todo : m \in tick.todo /\ m # n /\ m \in Nodes
    BY <1>2 DEF TypeOK, Tick
  <2>2. \A m \in tick'.todo : tick'.view[m].status = "waiting"
    BY <2>1, <1>2 DEF TickInv, Agenda
  <2> QED BY <2>2, <1>2 DEF Agenda, AtWork, InStart
<1>8. AtANode'
  BY <1>2 DEF AtANode, AtWork
<1> QED BY <1>4, <1>5, <1>6, <1>7, <1>8 DEF TickInv

\* Section 2 puts a node aside.
LEMMA FrontierPasses ==
  ASSUME TypeOK, TickInv, InFrontier, NEW n \in Nodes, tick' = Handled("frontier", n),
         UNCHANGED <<run, steps, done, effects>>
  PROVE  TickInv'
<1>1. /\ tick'.pc = "frontier" /\ tick'.run = tick.run /\ tick'.todo = tick.todo \ {n}
      /\ tick'.node = None /\ tick'.view = tick.view
  BY HandledIs DEF TickPc
<1>2. tick.run # None
  BY DEF TickInv, Between, InFrontier
<1>3. AtARun' /\ Between'
  BY <1>1, <1>2 DEF TickInv, AtARun, Between
<1>4. ViewIsOld' /\ WaitIsSeen'
  BY <1>1, <1>2 DEF TickInv, ViewIsOld, WaitIsSeen, InFrontier, Ids, Waits
<1>5. Agenda' /\ AtANode'
  BY <1>1 DEF TickInv, Agenda, AtANode, AtWork, InFrontier, InStart
<1> QED BY <1>3, <1>4, <1>5 DEF TickInv

\* Section 4 writes the row of the node it is working on, and forgets about it.
LEMMA StartWrites ==
  ASSUME TypeOK, TickInv, InStart, tick.pc # "start", NEW n \in Nodes, n = tick.node,
         NEW status \in RowStatus, NEW note \in Note,
         FinishStep(tick.run, n, tick.view[n].id, status, note),
         tick' = Handled("start", n), UNCHANGED <<run, effects>>
  PROVE  TickInv'
<1>1. tick.run # None /\ tick.run \in Runs /\ tick.pc \in AtWork
  BY DEF TickInv, Between, InStart, TypeOK, Tick, AtWork
<1>2. tick.view[n].status \in {"running", "waiting"}
  BY <1>1 DEF TickInv, AtANode
<1>3. tick.view[n].status = "running"
  BY <1>1, <1>2 DEF TickInv, AtANode, InStart
<1>4. /\ tick'.pc = "start" /\ tick'.run = tick.run /\ tick'.todo = tick.todo \ {n}
      /\ tick'.node = None /\ tick'.view = tick.view
  BY HandledIs DEF TickPc
<1>5. /\ \A m \in Nodes : Len(steps'[tick.run][m]) = Len(steps[tick.run][m])
      /\ \A m \in Nodes : Ids(tick.run, m)' = Ids(tick.run, m)
      /\ \A m \in Nodes : \A k \in Ids(tick.run, m) :
           steps'[tick.run][m][k].status =
             IF m = n /\ k = tick.view[n].id THEN status ELSE steps[tick.run][m][k].status
      /\ done \subseteq done'
  BY <1>1, <1>2, <1>4, TickWrites DEF Ids
<1>6. AtARun' /\ Between'
  BY <1>1, <1>4 DEF TickInv, AtARun, Between
<1>7. ViewIsOld'
  BY <1>1, <1>4, <1>5 DEF TickInv, ViewIsOld
<1>8. WaitIsSeen'
  <2> SUFFICES ASSUME NEW m \in Nodes, NEW k \in Ids(tick.run, m), Waits(tick.run, m, k)'
               PROVE  tick.view[m].id = k /\ tick.view[m].status \in {"waiting", "running"}
    BY <1>4, <1>5 DEF WaitIsSeen, Waits, InFrontier
  <2>1. CASE m = n /\ k = tick.view[n].id
    BY <2>1, <1>3
  <2>2. CASE ~(m = n /\ k = tick.view[n].id)
    <3>1. Waits(tick.run, m, k)
      BY <2>2, <1>1, <1>4, <1>5 DEF Waits
    <3> QED BY <3>1, <1>1 DEF TickInv, WaitIsSeen
  <2> QED BY <2>1, <2>2
<1>9. Agenda'
  <2>1. \A m \in tick'.todo \ {tick'.node} : m \in tick.todo \ {tick.node}
    BY <1>4
  <2>2. \A m \in tick'.todo \ {tick'.node} : InputsDone(tick.run, m)' /\ tick'.view[m].id = 0
    BY <2>1, <1>4, <1>5 DEF TickInv, Agenda, InputsDone
  <2> QED BY <2>2, <1>4 DEF Agenda, AtWork, InFrontier, InputsDone
<1>10. AtANode'
  BY <1>4 DEF AtANode, AtWork
<1> QED BY <1>6, <1>7, <1>8, <1>9, <1>10 DEF TickInv
-----------------------------------------------------------------------------
(* The actions of a tick *)

\* Everything the sections leave alone when they write a row.
rest == <<run, failures, founder, faults, posts, unknown, effects, yes, settled>>

\* A row of section 2.
LEMMA FrontierRow ==
  ASSUME RunnerInv, InFrontier, NEW n \in Nodes, tick.view[n].status # "none",
         NEW status \in RowStatus, NEW note \in Note,
         FinishStep(tick.run, n, tick.view[n].id, status, note),
         tick' = Seen("frontier", n, status, note),
         status = "waiting" => tick.view[n].id = Len(steps[tick.run][n]),
         status = "succeeded" => Kind[n] # "approval",
         UNCHANGED rest
  PROVE  RunnerInv'
<1>1. TypeOK /\ StoreInv /\ TickInv
  BY DEF RunnerInv
<1>2. tick.run # None
  BY <1>1 DEF TickInv, Between, InFrontier
<1>3. tick.run \in Runs /\ tick.view[n].id \in Ids(tick.run, n) /\ run[tick.run] = "running"
  BY <1>1, <1>2, ViewNamesRow DEF TickInv, AtARun
<1>4. TypeOK'
  <2>1. steps' \in Rows /\ done' \in SUBSET (Runs \X Nodes)
    BY <1>1, <1>3, RowWritten DEF TypeOK
  <2>2. tick' \in Tick
    BY <1>1, SeenIs DEF TickPc
  <2> QED BY <1>1, <2>1, <2>2 DEF TypeOK, rest, founder
<1>5. StoreInv'
  BY <1>1, <1>3, StoreWritten DEF rest, founder
<1>6. TickInv'
  BY <1>1, FrontierWrites DEF rest
<1> QED BY <1>4, <1>5, <1>6 DEF RunnerInv

\* A row of section 4.
LEMMA StartRow ==
  ASSUME RunnerInv, InStart, tick.pc # "start", NEW n \in Nodes, n = tick.node,
         NEW status \in RowStatus, NEW note \in Note,
         FinishStep(tick.run, n, tick.view[n].id, status, note),
         tick' = Handled("start", n),
         status = "waiting" => tick.pc \in {"park", "check"},
         status = "succeeded" => Kind[n] # "approval",
         UNCHANGED rest
  PROVE  RunnerInv'
<1>1. TypeOK /\ StoreInv /\ TickInv
  BY DEF RunnerInv
<1>2. tick.run # None /\ tick.pc \in AtWork
  BY <1>1 DEF TickInv, Between, InStart, AtWork
<1>3. tick.view[n].status # "none"
  BY <1>1, <1>2 DEF TickInv, AtANode
<1>4. tick.run \in Runs /\ tick.view[n].id \in Ids(tick.run, n) /\ run[tick.run] = "running"
  BY <1>1, <1>2, <1>3, ViewNamesRow DEF TickInv, AtARun
<1>5. TypeOK'
  <2>1. steps' \in Rows /\ done' \in SUBSET (Runs \X Nodes)
    BY <1>1, <1>4, RowWritten DEF TypeOK
  <2>2. tick' \in Tick
    BY <1>1, HandledIs DEF TickPc
  <2> QED BY <1>1, <2>1, <2>2 DEF TypeOK, rest, founder
<1>6. status = "waiting" => tick.view[n].id = Len(steps[tick.run][n])
  BY <1>1, <1>2 DEF TickInv, AtANode
<1>7. StoreInv'
  BY <1>1, <1>4, <1>6, StoreWritten DEF rest, founder
<1>8. TickInv'
  BY <1>1, StartWrites DEF rest
<1> QED BY <1>5, <1>7, <1>8 DEF RunnerInv

\* A node of section 2 that has to wait for another tick.
LEMMA FrontierPass ==
  ASSUME RunnerInv, InFrontier, NEW n \in Nodes, tick' = Handled("frontier", n),
         UNCHANGED <<rest, steps, done>>
  PROVE  RunnerInv'
<1>1. TypeOK /\ StoreInv /\ TickInv
  BY DEF RunnerInv
<1>2. TypeOK'
  BY <1>1, HandledIs DEF TypeOK, rest, founder, TickPc
<1>3. StoreInv' /\ TickInv'
  BY <1>1, StoreUntouched, FrontierPasses DEF rest, founder
<1> QED BY <1>2, <1>3 DEF RunnerInv

\* Section 2: dead and waiting steps, declined approvals, a gate that is parked.
LEMMA FrontierActions ==
  ASSUME RunnerInv, NEW n \in Nodes,
         \/ Recover(n) \/ MaintainHarvest(n) \/ MaintainAsk(n) \/ Decline(n) \/ ParkGate(n)
  PROVE  RunnerInv'
<1>1. TypeOK /\ TickInv
  BY DEF RunnerInv
<1>2. CASE Recover(n)
  <2>1. InFrontier /\ tick.view[n].status = "running"
    BY <1>2 DEF Recover, Stale, ViewIs, InFrontier
  <2> QED BY <2>1, <1>2, FrontierRow DEF Recover, RowStatus, Note, rest
<1>3. CASE MaintainHarvest(n)
  <2>1. InFrontier /\ tick.view[n].status = "waiting" /\ Kind[n] # "approval"
    BY <1>1, <1>3 DEF MaintainHarvest, InFrontier, TickInv, Agenda, Of
  <2>2. CASE FinishStep(tick.run, n, tick.view[n].id, "succeeded", "none")
             /\ tick' = Seen("frontier", n, "succeeded", "none")
    BY <2>1, <2>2, <1>3, FrontierRow DEF MaintainHarvest, RowStatus, Note, rest
  <2>3. CASE tick' = Handled("frontier", n) /\ UNCHANGED <<steps, done>>
    BY <2>1, <2>3, <1>3, FrontierPass DEF MaintainHarvest, rest
  <2> QED BY <1>3, <2>2, <2>3 DEF MaintainHarvest
<1>4. CASE MaintainAsk(n)
  <2>1. InFrontier /\ tick.view[n].status = "waiting" /\ TimedOut(n) \in {"skipped", "failed"}
    BY <1>1, <1>4 DEF MaintainAsk, InFrontier, TickInv, Agenda, TimedOut
  <2>2. CASE FinishStep(tick.run, n, tick.view[n].id, TimedOut(n), "refused")
             /\ tick' = Seen("frontier", n, TimedOut(n), "refused")
    BY <2>1, <2>2, <1>4, FrontierRow DEF MaintainAsk, RowStatus, Note, rest
  <2>3. CASE tick' = Handled("frontier", n) /\ UNCHANGED <<steps, done>>
    BY <2>1, <2>3, <1>4, FrontierPass DEF MaintainAsk, rest
  <2> QED BY <1>4, <2>2, <2>3 DEF MaintainAsk
<1>5. CASE Decline(n)
  <2>1. InFrontier /\ tick.view[n].status = "failed"
    BY <1>5 DEF Decline, Declined, ViewIs, InFrontier
  <2> QED BY <2>1, <1>5, FrontierRow DEF Decline, RowStatus, Note, rest
<1>6. CASE ParkGate(n)
  <2>1. InFrontier /\ tick.pc \in AtWork
    BY <1>6 DEF ParkGate, InFrontier, AtWork
  <2>2. tick.view[n].status # "none" /\ tick.view[n].id = Len(steps[tick.run][n])
    BY <1>1, <1>6, <2>1 DEF ParkGate, TickInv, AtANode
  <2> QED BY <2>1, <2>2, <1>6, FrontierRow DEF ParkGate, RowStatus, Note, rest
<1> QED BY <1>2, <1>3, <1>4, <1>5, <1>6

\* Section 4: an artifact, a parked step, the record of a post or of an effect, and what is
\* refused before it is sent or done.
LEMMA StartActions ==
  ASSUME RunnerInv, NEW n \in Nodes,
         \/ RunTask(n) \/ Park(n) \/ RecordUnsent(n) \/ RecordActed(n)
  PROVE  RunnerInv'
<1>1. TypeOK /\ TickInv
  BY DEF RunnerInv
<1>2. tick.pc \in AtWork /\ n = tick.node
  BY DEF RunTask, Park, RecordUnsent, RecordActed, AtWork
<1>3. Kind[n] \in KindOf(tick.pc)
  BY <1>1, <1>2 DEF TickInv, AtANode
<1>4. CASE RunTask(n)
  <2>1. InStart /\ Kind[n] # "approval"
    BY <1>3, <1>4 DEF RunTask, InStart, KindOf
  <2>2. PICK status \in {"succeeded", "failed"} :
          FinishStep(tick.run, n, tick.view[n].id, status, "none")
    BY <1>4 DEF RunTask
  <2> QED BY <2>1, <2>2, <1>4, StartRow DEF RunTask, RowStatus, Note, rest
<1>5. CASE Park(n)
  <2>1. InStart
    BY <1>5 DEF Park, InStart
  <2> QED BY <2>1, <1>5, StartRow DEF Park, RowStatus, Note, rest
<1>6. CASE RecordUnsent(n)
  <2>1. InStart
    BY <1>6 DEF RecordUnsent, InStart
  <2> QED BY <2>1, <1>6, StartRow DEF RecordUnsent, RowStatus, Note, rest
<1>7. CASE RecordActed(n)
  <2>1. InStart /\ Kind[n] # "approval"
    BY <1>3, <1>7 DEF RecordActed, InStart, KindOf
  <2> QED BY <2>1, <1>7, StartRow DEF RecordActed, RowStatus, Note, rest
<1> QED BY <1>4, <1>5, <1>6, <1>7

\* A publish is recorded or refused in the section it came from.
LEMMA PublishRecords ==
  ASSUME RunnerInv, NEW n \in Nodes, RefuseContent(n) \/ RecordAccepted(n)
  PROVE  RunnerInv'
<1>1. TypeOK /\ TickInv
  BY DEF RunnerInv
<1>2. tick.pc \in {"send", "accepted"} /\ tick.pc \in AtWork /\ n = tick.node
  BY DEF RefuseContent, RecordAccepted, AtWork
<1>3. Kind[n] = "publish" /\ tick.view[n].status \in {"running", "waiting"}
  BY <1>1, <1>2 DEF TickInv, AtANode, KindOf
<1>4. CASE Deferred(n)
  <2>1. InFrontier
    BY <1>2, <1>4 DEF Deferred, InFrontier
  <2>2. CASE RefuseContent(n)
    BY <2>1, <2>2, <1>3, <1>4, FrontierRow DEF RefuseContent, RowStatus, Note, rest
  <2>3. CASE RecordAccepted(n)
    BY <2>1, <2>3, <1>3, <1>4, FrontierRow DEF RecordAccepted, RowStatus, Note, rest
  <2> QED BY <2>2, <2>3
<1>5. CASE ~Deferred(n)
  <2>1. InStart /\ tick.pc # "start"
    BY <1>2, <1>5 DEF Deferred, InStart
  <2>2. CASE RefuseContent(n)
    BY <2>1, <2>2, <1>2, <1>3, <1>5, StartRow DEF RefuseContent, RowStatus, Note, rest
  <2>3. CASE RecordAccepted(n)
    BY <2>1, <2>3, <1>2, <1>3, <1>5, StartRow DEF RecordAccepted, RowStatus, Note, rest
  <2> QED BY <2>2, <2>3
<1> QED BY <1>4, <1>5
-----------------------------------------------------------------------------
(* Steps of a tick that write no row, or a new one *)

\* A counter of a node of a run.
LEMMA CountedUp ==
  ASSUME NEW f \in [Runs -> [Nodes -> Nat]], NEW r \in Runs, NEW n \in Nodes, NEW k \in Nat,
         NEW g, g = [f EXCEPT ![r][n] = k]
  PROVE  /\ g \in [Runs -> [Nodes -> Nat]]
         /\ \A q \in Runs, m \in Nodes : g[q][m] = IF q = r /\ m = n THEN k ELSE f[q][m]
OBVIOUS

\* A tick that leaves its run, or ends, with nothing written.
LEMMA Leaves ==
  ASSUME RunnerInv, LeaveRun \/ tick' = IdleTick,
         UNCHANGED <<run, steps, done, yes, inflight>>,
         failures' \in 0 .. Threshold, taps' \in Nat, faults' \in Nat, settled' \subseteq yes,
         posts' \in [Runs -> [Nodes -> Nat]], unknown' \in [Runs -> [Nodes -> Nat]],
         effects' = effects, PostedWasStarted'
  PROVE  RunnerInv'
<1>1. TypeOK /\ StoreInv /\ TickInv
  BY DEF RunnerInv
<1>2. /\ tick' \in Tick
      /\ tick'.pc \in {"idle", "next"} /\ tick'.run = None /\ tick'.node = None
  BY <1>1, LeaveIs
<1>3. TypeOK'
  BY <1>1, <1>2 DEF TypeOK
<1>4. TickInv'
  BY <1>2, TickLeft
<1>5. StoreInv'
  <2>1. AnswersAreRows'
    BY <1>1 DEF StoreInv, AnswersAreRows, Ids
  <2> QED BY <1>1, <2>1, StoreKept
<1> QED BY <1>3, <1>4, <1>5 DEF RunnerInv

\* A crash, a query that throws, and the end of a tick.
LEMMA InterruptedActions ==
  ASSUME RunnerInv, Interrupted \/ TickEnd
  PROVE  RunnerInv'
<1>1. TypeOK /\ StoreInv /\ TickInv
  BY DEF RunnerInv
<1>2. PostedWasStarted'
  BY <1>1 DEF Interrupted, TickEnd, record, founder, history, StoreInv, PostedWasStarted
<1>3. CASE TickEnd
  <2>1. UNCHANGED <<run, steps, done, yes, inflight, failures, taps, faults, settled, posts,
                    unknown, effects>> /\ tick' = IdleTick
    BY <1>3 DEF TickEnd, record, founder, history
  <2> QED BY <2>1, <1>1, <1>2, Leaves DEF TypeOK
<1>4. CASE Interrupted
  <2>1. UNCHANGED <<run, steps, done, yes, inflight, failures, taps, settled, posts, effects>>
    BY <1>4 DEF Interrupted, record, founder, history
  <2>2. faults' \in Nat
    BY <1>1, <1>4 DEF Interrupted, TypeOK
  <2>3. unknown' \in [Runs -> [Nodes -> Nat]]
    <3>1. CASE tick.pc = "accepted" /\ Deferred(tick.node)
      <4>1. tick.run \in Runs /\ tick.node \in Nodes
        BY <1>1, <1>4, <3>1 DEF Interrupted, TypeOK, Tick, TickInv, AtANode, AtWork
      <4>2. unknown' = [unknown EXCEPT ![tick.run][tick.node] = unknown[tick.run][tick.node] + 1]
        BY <1>4, <3>1 DEF Interrupted
      <4> QED BY <1>1, <4>1, <4>2, CountedUp DEF TypeOK
    <3>2. CASE ~(tick.pc = "accepted" /\ Deferred(tick.node))
      BY <1>1, <1>4, <3>2 DEF Interrupted, TypeOK
    <3> QED BY <3>1, <3>2
  <2>4. LeaveRun \/ tick' = IdleTick
    BY <1>4 DEF Interrupted
  <2> QED BY <2>1, <2>2, <2>3, <2>4, <1>1, <1>2, Leaves DEF TypeOK
<1> QED BY <1>3, <1>4

\* The snapshot of a run: the latest row of each node.
LEMMA LoadActions ==
  ASSUME RunnerInv, NEW r \in Runs, LoadRun(r)
  PROVE  RunnerInv'
<1>1. TypeOK /\ StoreInv /\ TickInv
  BY DEF RunnerInv
<1>2. UNCHANGED <<run, steps, failures, inflight, taps, faults, posts, unknown, effects, yes,
                  settled, done>>
  BY DEF LoadRun, record, founder, history
<1>3. StoreInv'
  BY <1>1, <1>2, StoreUntouched
<1>4. tick \in Tick /\ tick.pc = "next" /\ tick.node = None /\ r # None
  BY <1>1, BoundsAssumption DEF LoadRun, TypeOK, TickInv, Agenda, AtWork
<1>5. CASE run[r] # "running"
  <2>1. tick' = [tick EXCEPT !.exec = tick.exec \ {r}, !.parked = tick.parked \ {r},
                   !.pc = "next", !.run = None, !.todo = {}]
    BY <1>4, <1>5 DEF LoadRun, Tick
  <2>2. tick' \in Tick /\ tick'.pc = "next" /\ tick'.run = None /\ tick'.node = None
    BY <2>1, <1>4 DEF Tick, TickPc
  <2>3. TickInv'
    BY <2>2, TickLeft
  <2> QED BY <1>1, <1>2, <1>3, <2>2, <2>3 DEF RunnerInv, TypeOK
<1>6. CASE run[r] = "running"
  <2> DEFINE view  == [n \in Nodes |-> Latest(r, n)]
             older == [n \in Nodes |-> FailedBefore(r, n)]
             todo  == {n \in Nodes : Latest(r, n).status = "waiting"}
  <2>1. tick' = [tick EXCEPT !.exec = tick.exec \ {r}, !.parked = tick.parked \ {r},
                   !.pc = "frontier", !.run = r, !.view = view, !.older = older, !.todo = todo]
    BY <1>6 DEF LoadRun
  <2>2. /\ \A n \in Nodes : view[n] \in Entry /\ view[n].id = Len(steps[r][n])
        /\ \A n \in Nodes : Len(steps[r][n]) = 0 => view[n].status = "none"
        /\ \A n \in Nodes : Len(steps[r][n]) > 0 =>
             view[n].status = steps[r][n][Len(steps[r][n])].status
        /\ view \in [Nodes -> Entry]
    BY <1>1, LatestIs
  <2>3. older \in [Nodes -> Nat]
    BY <1>1, FailedBeforeIsNat
  <2>4. \A n \in todo : n \in Nodes /\ view[n].status = "waiting"
    OBVIOUS
  <2>5. \A n \in Nodes : Len(steps[r][n]) \in Nat
    BY <1>1, RowsAreRows DEF TypeOK
  <2>6. \A n \in Nodes : \A i \in Ids(r, n) : Waits(r, n, i) =>
          view[n].id = i /\ view[n].status = "waiting"
    BY <1>1, <2>2, <2>5 DEF StoreInv, LatestWaits, Ids, Waits
  <2> HIDE DEF view, older, todo
  <2>7. /\ tick'.pc = "frontier" /\ tick'.run = r /\ tick'.view = view /\ tick'.todo = todo
        /\ tick'.node = None
    BY <2>1, <1>4 DEF Tick
  <2>8. tick' \in Tick
    BY <2>1, <2>2, <2>3, <2>4, <1>4 DEF Tick, TickPc
  <2>9. AtARun' /\ Between'
    BY <2>7, <1>2, <1>4, <1>6 DEF AtARun, Between
  <2>10. ViewIsOld'
    <3>1. \A n \in Nodes : view[n].status = "succeeded" => <<r, n>> \in done
      BY <1>1, <2>2, <2>5 DEF StoreInv, SucceededIsDone, Ids
    <3> QED BY <2>2, <2>5, <2>7, <3>1, <1>2 DEF ViewIsOld
  <2>11. WaitIsSeen'
    BY <2>6, <2>7, <1>2 DEF WaitIsSeen, Waits, Ids
  <2>12. Agenda' /\ AtANode'
    BY <2>4, <2>7 DEF Agenda, AtANode, AtWork, InStart
  <2> QED BY <1>1, <1>2, <1>3, <2>8, <2>9, <2>10, <2>11, <2>12 DEF RunnerInv, TypeOK, TickInv
<1> QED BY <1>5, <1>6

\* A parked publish that may go out, and a fresh one that may: on to the call.
LEMMA ChannelActions ==
  ASSUME RunnerInv, NEW n \in Nodes, MaintainParked(n) \/ CheckChannel(n)
  PROVE  RunnerInv'
<1>1. TypeOK /\ StoreInv /\ TickInv
  BY DEF RunnerInv
<1>2. tick \in Tick /\ n # None
  BY <1>1, BoundsAssumption DEF TypeOK
<1>3. tick.pc \in {"frontier", "check"} /\ tick.run # None
  BY <1>1 DEF MaintainParked, CheckChannel, TickInv, Between
<1>4. CASE MaintainParked(n) /\ tick' = Handled("frontier", n)
  <2>1. InFrontier /\ UNCHANGED <<rest, steps, done>>
    BY <1>4 DEF MaintainParked, InFrontier, rest, record, founder, history
  <2> QED BY <2>1, <1>4, FrontierPass
<1>5. CASE CheckChannel(n) /\ tick' = Handled("start", n)
  <2>1. InStart /\ FinishStep(tick.run, n, tick.view[n].id, "waiting", "parked") /\ n = tick.node
    <3>1. Handled("start", n).pc = "start"
      BY <1>2 DEF Handled, Tick
    <3>2. [tick EXCEPT !.pc = "send"].pc = "send"
      BY <1>2 DEF Tick
    <3> QED BY <1>5, <3>1, <3>2 DEF CheckChannel, InStart
  <2> QED BY <2>1, <1>5, StartRow DEF CheckChannel, RowStatus, Note, rest
<1>6. CASE (MaintainParked(n) /\ Working("send", n)) \/ (CheckChannel(n) /\ tick' = [tick EXCEPT !.pc = "send"])
  <2>1. UNCHANGED <<run, steps, failures, inflight, taps, faults, posts, unknown, effects, yes,
                    settled, done>>
    <3>1. CASE MaintainParked(n)
      BY <3>1 DEF MaintainParked, record, founder, history
    <3>2. CASE CheckChannel(n) /\ tick' = [tick EXCEPT !.pc = "send"]
      <4>1. Handled("start", n).pc = "start" /\ tick'.pc = "send"
        BY <3>2, <1>2 DEF Handled, Tick
      <4> QED BY <4>1, <3>2 DEF CheckChannel, founder
    <3> QED BY <1>6, <3>1, <3>2
  <2>2. /\ tick'.pc = "send" /\ tick'.run = tick.run /\ tick'.todo = tick.todo
        /\ tick'.view = tick.view /\ tick'.node = n /\ tick' \in Tick
    BY <1>2, <1>6 DEF Working, CheckChannel, Tick, TickPc
  <2>3. Kind[n] = "publish" /\ tick.view[n].id > 0
    <3>1. CASE MaintainParked(n)
      <4>1. tick.view[n].status = "waiting"
        BY <1>1, <3>1 DEF MaintainParked, TickInv, Agenda, InFrontier
      <4> QED BY <4>1, <1>1, <1>3, <3>1 DEF MaintainParked, TickInv, ViewIsOld, Of
    <3>2. CASE CheckChannel(n)
      BY <1>1, <3>2 DEF CheckChannel, TickInv, AtANode, AtWork, KindOf
    <3> QED BY <3>1, <3>2
  <2>4. /\ tick.pc = "frontier" => tick.view[n].status = "waiting"
        /\ tick.pc = "check" => tick.view[n].status = "running" /\ tick.node = n
    <3>1. CASE MaintainParked(n)
      BY <1>1, <3>1 DEF MaintainParked, TickInv, Agenda, InFrontier
    <3>2. CASE CheckChannel(n)
      BY <1>1, <3>2 DEF CheckChannel, TickInv, AtANode, AtWork
    <3> QED BY <3>1, <3>2
  <2>5. AtARun' /\ Between'
    BY <1>1, <1>3, <2>1, <2>2 DEF TickInv, AtARun, Between
  <2>6. ViewIsOld'
    BY <1>1, <2>1, <2>2 DEF TickInv, ViewIsOld
  <2>7. InFrontier' <=> tick.pc = "frontier"
    BY <1>3, <2>2, <2>4 DEF InFrontier
  <2>8. InStart' <=> tick.pc = "check"
    BY <1>3, <2>2, <2>4 DEF InStart
  <2>9. WaitIsSeen'
    BY <1>1, <1>3, <2>1, <2>2, <2>7 DEF TickInv, WaitIsSeen, InFrontier, Ids, Waits
  <2>10. Agenda'
    BY <1>1, <1>3, <2>1, <2>2, <2>4, <2>7, <2>8 DEF TickInv, Agenda, InFrontier, InStart, AtWork, InputsDone
  <2>11. AtANode'
    BY <1>3, <2>2, <2>3, <2>4 DEF AtANode, AtWork, KindOf
  <2>12. StoreInv'
    BY <1>1, <2>1, StoreUntouched
  <2> QED BY <1>1, <2>1, <2>2, <2>5, <2>6, <2>9, <2>10, <2>11, <2>12
          DEF RunnerInv, TypeOK, TickInv
<1> QED BY <1>4, <1>5, <1>6 DEF MaintainParked, CheckChannel

\* The frontier forgets a node: it looks as if it had not started.
LEMMA ForgetAction ==
  ASSUME RunnerInv, NEW n \in Nodes, Forget(n)
  PROVE  RunnerInv'
<1>1. TypeOK /\ StoreInv /\ TickInv
  BY DEF RunnerInv
<1>2. UNCHANGED <<run, steps, failures, inflight, taps, faults, posts, unknown, effects, yes,
                  settled, done>>
  BY DEF Forget, record, founder, history
<1>3. tick \in Tick /\ tick.pc = "frontier" /\ tick.todo = {} /\ tick.run # None
  BY <1>1 DEF TypeOK, Forget, Reached2c, TickInv, Between
<1>4. Kind[n] # "effect" /\ tick.view[n].status # "waiting"
  BY <1>1 DEF Forget, ToRetry, Retryable, YesToRetry, MayRetry
<1>5. ~ \E i \in Ids(tick.run, n) : Waits(tick.run, n, i)
  BY <1>1, <1>3, <1>4 DEF TickInv, WaitIsSeen, InFrontier
<1>6. tick' = [tick EXCEPT !.view = [tick.view EXCEPT ![n] = Unstarted]]
  BY DEF Forget
<1>7. Unstarted \in Entry /\ Unstarted.id = 0 /\ Unstarted.status = "none"
  BY DEF Unstarted, Entry, Note
<1>8. /\ tick' \in Tick /\ tick'.pc = "frontier" /\ tick'.run = tick.run /\ tick'.todo = {}
      /\ tick'.node = tick.node
      /\ \A m \in Nodes : tick'.view[m] = IF m = n THEN Unstarted ELSE tick.view[m]
  BY <1>3, <1>6, <1>7 DEF Tick
<1>9. StoreInv'
  BY <1>1, <1>2, StoreUntouched
<1>10. \A m \in Nodes : Len(steps[tick.run][m]) \in Nat
  BY <1>1, <1>3, RowsAreRows DEF TypeOK, Tick
<1>11. AtARun' /\ Between'
  BY <1>1, <1>2, <1>3, <1>8 DEF TickInv, AtARun, Between
<1>12. ViewIsOld'
  BY <1>1, <1>2, <1>3, <1>4, <1>7, <1>8, <1>10 DEF TickInv, ViewIsOld
<1>13. WaitIsSeen'
  BY <1>1, <1>2, <1>3, <1>5, <1>8 DEF TickInv, WaitIsSeen, InFrontier, Ids, Waits
<1>14. Agenda' /\ AtANode'
  BY <1>1, <1>3, <1>8 DEF TickInv, Agenda, AtANode, AtWork, InStart
<1> QED BY <1>1, <1>2, <1>8, <1>9, <1>11, <1>12, <1>13, <1>14 DEF RunnerInv, TypeOK, TickInv

\* What is known of a run when section 2 has nothing left to do: no row waits that the
\* snapshot does not know of.
LEMMA FrontierDoneAction ==
  ASSUME RunnerInv, FrontierDone
  PROVE  RunnerInv'
<1>1. TypeOK /\ StoreInv /\ TickInv
  BY DEF RunnerInv
<1>2. UNCHANGED <<run, steps, failures, inflight, taps, faults, posts, unknown, effects, yes,
                  settled, done>>
  BY DEF FrontierDone, record, founder, history
<1>3. tick \in Tick /\ tick.pc = "frontier" /\ tick.run # None
  BY <1>1 DEF TypeOK, FrontierDone, Reached2c, TickInv, Between
<1>4. PICK nodes \in SUBSET Nodes :
        \/ Section("skip", nodes) /\ nodes = ViewIs("waiting")
        \/ Section("start", nodes) /\ nodes = ReadyNodes(tick.view)
  BY DEF FrontierDone, ViewIs, ReadyNodes
<1>5. /\ tick' \in Tick /\ tick'.pc \in {"skip", "start"} /\ tick'.run = tick.run
      /\ tick'.todo = nodes /\ tick'.node = None /\ tick'.view = tick.view
      /\ tick'.pc = "skip" => nodes = ViewIs("waiting")
      /\ tick'.pc = "start" => nodes = ReadyNodes(tick.view)
  BY <1>3, <1>4 DEF Section, Tick, TickPc
<1>6. StoreInv'
  BY <1>1, <1>2, StoreUntouched
<1>7. AtARun' /\ Between' /\ ViewIsOld'
  BY <1>1, <1>2, <1>3, <1>5 DEF TickInv, AtARun, Between, ViewIsOld
<1>8. WaitIsSeen'
  <2> SUFFICES ASSUME NEW m \in Nodes, NEW k \in Ids(tick.run, m), Waits(tick.run, m, k)
               PROVE  /\ tick.view[m].id = k /\ tick.view[m].status = "waiting"
                      /\ tick'.pc = "skip" => m \in nodes
    BY <1>2, <1>5 DEF WaitIsSeen, Ids, Waits
  <2>1. tick.view[m].id = k /\ tick.view[m].status = "waiting"
    BY <1>1, <1>3 DEF TickInv, WaitIsSeen, InFrontier
  <2> QED BY <2>1, <1>5 DEF ViewIs
<1>9. Agenda'
  <2>1. CASE tick'.pc = "skip"
    BY <2>1, <1>5 DEF Agenda, AtWork, InStart, ViewIs
  <2>2. CASE tick'.pc = "start"
    <3>1. \A m \in nodes : InputsDone(tick.run, m) /\ tick.view[m].id = 0
      BY <1>1, <1>3, <1>5, <2>2, GraphAssumption DEF ReadyNodes, TickInv, ViewIsOld, InputsDone
    <3> QED BY <2>2, <3>1, <1>2, <1>5 DEF Agenda, AtWork, InFrontier, InputsDone
  <2> QED BY <2>1, <2>2, <1>5
<1>10. AtANode'
  BY <1>5 DEF AtANode, AtWork
<1> QED BY <1>1, <1>2, <1>5, <1>6, <1>7, <1>8, <1>9, <1>10 DEF RunnerInv, TypeOK, TickInv

\* Failing fast skips what waits.
LEMMA SkipAction ==
  ASSUME RunnerInv, NEW n \in Nodes, SkipStraggler(n)
  PROVE  RunnerInv'
<1>1. TypeOK /\ StoreInv /\ TickInv
  BY DEF RunnerInv
<1>2. /\ tick.pc = "skip" /\ n \in tick.todo /\ tick.run # None /\ tick.node = None
      /\ tick.view[n].status = "waiting"
  BY <1>1 DEF SkipStraggler, TickInv, Between, Agenda, AtWork
<1>3. tick.run \in Runs /\ tick.view[n].id \in Ids(tick.run, n)
  BY <1>1, <1>2, ViewNamesRow
<1>4. FinishStep(tick.run, n, tick.view[n].id, "skipped", "none")
      /\ tick' = Seen("skip", n, "skipped", "none")
  BY DEF SkipStraggler
<1>15. "skipped" \in RowStatus /\ "none" \in Note /\ "skip" \in TickPc
  BY DEF RowStatus, Note, TickPc
<1>5. /\ tick' \in Tick
      /\ tick'.pc = "skip" /\ tick'.run = tick.run /\ tick'.todo = tick.todo \ {n}
      /\ tick'.node = None
      /\ \A m \in Nodes :
           /\ tick'.view[m].id = tick.view[m].id
           /\ tick'.view[m].status = IF m = n THEN "skipped" ELSE tick.view[m].status
  BY <1>1, <1>4, <1>15, SeenIs
<1>6. /\ \A m \in Nodes : Len(steps'[tick.run][m]) = Len(steps[tick.run][m])
      /\ \A m \in Nodes : Ids(tick.run, m)' = Ids(tick.run, m)
      /\ \A m \in Nodes : \A k \in Ids(tick.run, m) :
           steps'[tick.run][m][k].status =
             IF m = n /\ k = tick.view[n].id THEN "skipped" ELSE steps[tick.run][m][k].status
      /\ done' = done
  BY <1>1, <1>2, <1>4, <1>5, <1>15, TickWrites DEF Ids
<1>7. UNCHANGED rest
  BY DEF SkipStraggler, rest
<1>8. TypeOK'
  <2>1. steps' \in Rows
    BY <1>1, <1>3, <1>4, RowWritten DEF TypeOK, RowStatus, Note
  <2> QED BY <1>1, <2>1, <1>5, <1>6, <1>7 DEF TypeOK, rest, founder
<1>9. StoreInv'
  BY <1>1, <1>3, <1>4, <1>7, StoreWritten DEF rest, founder, RowStatus, Note
<1>10. AtARun' /\ Between'
  BY <1>1, <1>2, <1>5, <1>7 DEF TickInv, AtARun, Between, rest
<1>11. ViewIsOld'
  <2>1. tick.view[n].id > 0
    BY <1>1, <1>2 DEF TickInv, ViewIsOld
  <2> QED BY <2>1, <1>1, <1>2, <1>5, <1>6 DEF TickInv, ViewIsOld
<1>12. WaitIsSeen'
  <2> SUFFICES ASSUME NEW m \in Nodes, NEW k \in Ids(tick.run, m), Waits(tick.run, m, k)'
               PROVE  tick'.view[m].id = k /\ tick'.view[m].status = "waiting" /\ m \in tick'.todo
    BY <1>5, <1>6 DEF WaitIsSeen, Waits
  <2>1. ~(m = n /\ k = tick.view[n].id) /\ Waits(tick.run, m, k)
    BY <1>5, <1>6 DEF Waits
  <2>2. tick.view[m].id = k /\ tick.view[m].status = "waiting" /\ m \in tick.todo
    BY <2>1, <1>1, <1>2 DEF TickInv, WaitIsSeen
  <2> QED BY <2>1, <2>2, <1>5
<1>13. Agenda'
  <2>1. \A m \in tick'.todo : m \in tick.todo /\ m # n /\ m \in Nodes
    BY <1>1, <1>5 DEF TypeOK, Tick
  <2>2. \A m \in tick'.todo : tick'.view[m].status = "waiting"
    BY <2>1, <1>1, <1>2, <1>5 DEF TickInv, Agenda
  <2> QED BY <2>2, <1>5 DEF Agenda, AtWork, InStart
<1>14. AtANode'
  BY <1>5 DEF AtANode, AtWork
<1> QED BY <1>8, <1>9, <1>10, <1>11, <1>12, <1>13, <1>14 DEF RunnerInv, TickInv

\* A row is started: the snapshot names it, and none before it waits.
LEMMA RowStarted ==
  ASSUME RunnerInv, NEW n \in Nodes, StartStep(tick.run, n), tick.run # None, tick.pc # "skip",
         tick.view[n].status \notin {"waiting", "running"} \/ tick.view[n].id = 0,
         InputsDone(tick.run, n), UNCHANGED rest, done' = done
  PROVE  /\ steps' \in Rows /\ StoreInv' /\ tick.run \in Runs
         /\ \A m \in Nodes : Len(steps[tick.run][m]) \in Nat
         /\ \A m \in Nodes : Len(steps'[tick.run][m]) =
              IF m = n THEN Len(steps[tick.run][m]) + 1 ELSE Len(steps[tick.run][m])
         /\ \A m \in Nodes : \A k \in 1 .. Len(steps'[tick.run][m]) :
              steps'[tick.run][m][k].status = "waiting" =>
                m # n /\ k \in Ids(tick.run, m) /\ Waits(tick.run, m, k)
<1>1. TypeOK /\ StoreInv /\ TickInv
  BY DEF RunnerInv
<1>2. tick.run \in Runs /\ run[tick.run] = "running" /\ steps \in Rows
  BY <1>1 DEF TypeOK, Tick, TickInv, AtARun
<1>3. \A m \in Nodes : Len(steps[tick.run][m]) \in Nat
  BY <1>2, RowsAreRows
<1>4. \A i \in Ids(tick.run, n) : ~Waits(tick.run, n, i)
  BY <1>1, <1>2, <1>3 DEF TickInv, WaitIsSeen, Ids
<1>5. StoreInv'
  BY <1>1, <1>2, <1>4, StoreAppended DEF rest, founder
<1>6. /\ steps' \in Rows
      /\ \A q \in Runs, m \in Nodes :
           Len(steps'[q][m]) = IF q = tick.run /\ m = n THEN Len(steps[q][m]) + 1 ELSE Len(steps[q][m])
      /\ \A q \in Runs, m \in Nodes : \A k \in Ids(q, m) : steps'[q][m][k] = steps[q][m][k]
      /\ steps'[tick.run][n][Len(steps[tick.run][n]) + 1].status = "running"
  BY <1>2, RowAppended
<1>7. ASSUME NEW m \in Nodes, NEW k \in 1 .. Len(steps'[tick.run][m]),
             steps'[tick.run][m][k].status = "waiting"
      PROVE  m # n /\ k \in Ids(tick.run, m) /\ Waits(tick.run, m, k)
  <2>1. k \in Ids(tick.run, m) \/ (m = n /\ k = Len(steps[tick.run][n]) + 1)
    BY <1>2, <1>3, <1>6 DEF Ids
  <2>2. k \in Ids(tick.run, m)
    BY <2>1, <1>6, <1>7
  <2>3. Waits(tick.run, m, k)
    BY <2>2, <1>2, <1>6, <1>7 DEF Waits
  <2> QED BY <2>2, <2>3, <1>4
<1> QED BY <1>2, <1>3, <1>5, <1>6, <1>7

\* A ready node is started.
LEMMA StartNodeAction ==
  ASSUME RunnerInv, NEW n \in Nodes, StartNode(n)
  PROVE  RunnerInv'
<1>1. TypeOK /\ StoreInv /\ TickInv
  BY DEF RunnerInv
<1>2. tick \in Tick /\ tick.pc = "start" /\ n \in tick.todo /\ tick.run # None /\ tick.node = None
      /\ n # None
  BY <1>1, BoundsAssumption DEF StartNode, TypeOK, TickInv, Between, Agenda, AtWork
<1>3. InputsDone(tick.run, n) /\ tick.view[n].id = 0
  BY <1>1, <1>2 DEF TickInv, Agenda, InStart
<1>4. UNCHANGED rest /\ done' = done /\ StartStep(tick.run, n)
  BY DEF StartNode, rest, founder, history
<1>5. /\ steps' \in Rows /\ StoreInv' /\ tick.run \in Runs
      /\ \A m \in Nodes : Len(steps[tick.run][m]) \in Nat
      /\ \A m \in Nodes : Len(steps'[tick.run][m]) =
           IF m = n THEN Len(steps[tick.run][m]) + 1 ELSE Len(steps[tick.run][m])
      /\ \A m \in Nodes : \A k \in 1 .. Len(steps'[tick.run][m]) :
           steps'[tick.run][m][k].status = "waiting" =>
             m # n /\ k \in Ids(tick.run, m) /\ Waits(tick.run, m, k)
  BY <1>2, <1>3, <1>4, RowStarted
<1> DEFINE e == [Unstarted EXCEPT !.id = Len(steps[tick.run][n]) + 1, !.status = "running"]
           pc == FirstStep(Kind[n])
<1>6. e \in Entry /\ e.id = Len(steps[tick.run][n]) + 1 /\ e.status = "running"
  <2> DEFINE l == Len(steps[tick.run][n]) + 1
  <2>1. l \in Nat
    BY <1>5
  <2> HIDE DEF l
  <2>2. e = [Unstarted EXCEPT !.id = l, !.status = "running"]
    BY DEF l
  <2> HIDE DEF e
  <2>4. Unstarted \in Entry
    BY DEF Unstarted, Entry, Note
  <2>3. e \in Entry /\ e.id = l /\ e.status = "running"
    BY <2>1, <2>2, <2>4 DEF Entry, RowStatus
  <2> QED BY <2>3 DEF l
<1>7. /\ pc \in {"task", "park", "check", "act"} /\ Kind[n] \in KindOf(pc)
      /\ pc = "act" => Kind[n] = "effect"
  BY GraphAssumption DEF FirstStep, KindOf, NodeKind
<1>8. tick' = [tick EXCEPT !.pc = pc, !.node = n, !.view = [tick.view EXCEPT ![n] = e]]
  BY DEF StartNode
<1> HIDE DEF e, pc
<1>9. /\ tick' \in Tick /\ tick'.pc = pc /\ tick'.run = tick.run /\ tick'.todo = tick.todo
      /\ tick'.node = n /\ \A m \in Nodes : tick'.view[m] = IF m = n THEN e ELSE tick.view[m]
  BY <1>2, <1>6, <1>7, <1>8 DEF Tick, TickPc
<1>10. TypeOK'
  BY <1>1, <1>4, <1>5, <1>9 DEF TypeOK, rest, founder
<1>11. AtARun' /\ Between'
  BY <1>1, <1>2, <1>4, <1>7, <1>9 DEF TickInv, AtARun, Between, rest
<1>12. ViewIsOld'
  <2> SUFFICES ASSUME NEW m \in Nodes
               PROVE  /\ tick'.view[m].id <= Len(steps'[tick.run][m])
                      /\ tick'.view[m].status # "none" => tick'.view[m].id > 0
                      /\ tick'.view[m].status = "succeeded" => <<tick.run, m>> \in done
                      /\ Kind[m] = "effect" /\ tick'.view[m].id = 0 => Len(steps'[tick.run][m]) = 0
    BY <1>4, <1>9 DEF ViewIsOld
  <2>1. CASE m = n
    BY <2>1, <1>5, <1>6, <1>9
  <2>2. CASE m # n
    BY <2>2, <1>1, <1>2, <1>5, <1>9 DEF TickInv, ViewIsOld
  <2> QED BY <2>1, <2>2
<1>13. WaitIsSeen'
  <2>1. tick'.pc # "skip" /\ ~InFrontier'
    BY <1>7, <1>9 DEF InFrontier
  <2>2. ASSUME NEW m \in Nodes, NEW k \in 1 .. Len(steps'[tick.run][m]), Waits(tick.run, m, k)'
        PROVE  tick'.view[m].id = k /\ tick'.view[m].status \in {"waiting", "running"}
    <3>1. m # n /\ k \in Ids(tick.run, m) /\ Waits(tick.run, m, k)
      BY <2>2, <1>5, <1>9 DEF Waits
    <3> QED BY <3>1, <1>1, <1>2, <1>9 DEF TickInv, WaitIsSeen
  <2> QED BY <2>1, <2>2, <1>9 DEF WaitIsSeen, Ids
<1>14. Agenda'
  <2>1. tick'.pc \notin {"gate", "skip"} /\ ~InFrontier' /\ tick'.pc \in AtWork
    BY <1>7, <1>9 DEF InFrontier, AtWork
  <2>2. \A m \in tick.todo \ {n} : m \in Nodes
    BY <1>2 DEF Tick
  <2>3. \A m \in tick.todo \ {tick.node} : InputsDone(tick.run, m) /\ tick.view[m].id = 0
    BY <1>1, <1>2 DEF TickInv, Agenda, InStart
  <2>4. \A m \in tick.todo \ {n} : m \in tick.todo \ {tick.node}
    BY <1>2, <2>2, BoundsAssumption
  <2> QED BY <2>1, <2>2, <2>3, <2>4, <1>4, <1>9 DEF Agenda, InputsDone
<1>15. AtANode'
  <2>1. pc = "act" => effects[tick.run][n] = 0
    <3>1. Kind[n] = "effect" => Len(steps[tick.run][n]) = 0
      BY <1>1, <1>2, <1>3 DEF TickInv, ViewIsOld
    <3>2. effects[tick.run][n] \in Nat
      BY <1>1, <1>5 DEF TypeOK
    <3> QED BY <3>1, <3>2, <1>1, <1>5, <1>7 DEF StoreInv, PostedWasStarted
  <2> QED BY <2>1, <1>4, <1>5, <1>6, <1>7, <1>9 DEF AtANode, rest
<1> QED BY <1>5, <1>10, <1>11, <1>12, <1>13, <1>14, <1>15 DEF RunnerInv, TickInv

\* The row of a retry gate.
LEMMA OpenGateAction ==
  ASSUME RunnerInv, NEW n \in Nodes, OpenGate(n)
  PROVE  RunnerInv'
<1>1. TypeOK /\ StoreInv /\ TickInv
  BY DEF RunnerInv
<1>2. tick \in Tick /\ tick.pc = "frontier" /\ tick.todo = {} /\ tick.run # None /\ n # None
  BY <1>1, BoundsAssumption DEF OpenGate, Reached2c, TypeOK, TickInv, Between
<1>3. tick.view[n].status = "failed" /\ Kind[n] = "publish"
  BY DEF OpenGate, ToRetry, MayRetry, Ambiguous
<1>4. UNCHANGED rest /\ done' = done /\ StartStep(tick.run, n)
  BY DEF OpenGate, rest, founder, history
<1>5. tick.view[n].id \in Ids(tick.run, n) /\ tick.run \in Runs
  BY <1>1, <1>2, <1>3, ViewNamesRow
<1>6. InputsDone(tick.run, n)
  <2>1. Len(steps[tick.run][n]) \in Nat
    BY <1>1, <1>5, RowsAreRows DEF TypeOK
  <2>2. Len(steps[tick.run][n]) > 0
    BY <2>1, <1>5 DEF Ids
  <2> QED BY <2>2, <1>1, <1>5 DEF StoreInv, StartedInOrder
<1>7. /\ steps' \in Rows /\ StoreInv'
      /\ \A m \in Nodes : Len(steps[tick.run][m]) \in Nat
      /\ \A m \in Nodes : Len(steps'[tick.run][m]) =
           IF m = n THEN Len(steps[tick.run][m]) + 1 ELSE Len(steps[tick.run][m])
      /\ \A m \in Nodes : \A k \in 1 .. Len(steps'[tick.run][m]) :
           steps'[tick.run][m][k].status = "waiting" =>
             m # n /\ k \in Ids(tick.run, m) /\ Waits(tick.run, m, k)
  BY <1>2, <1>3, <1>4, <1>6, RowStarted
<1> DEFINE e == [tick.view[n] EXCEPT !.id = Len(steps[tick.run][n]) + 1, !.status = "running"]
<1>8. e \in Entry /\ e.id = Len(steps[tick.run][n]) + 1 /\ e.status = "running"
  <2>1. tick.view[n] \in Entry
    BY <1>2 DEF Tick
  <2> DEFINE l == Len(steps[tick.run][n]) + 1
  <2>2. l \in Nat
    BY <1>7
  <2> HIDE DEF l
  <2>3. e = [tick.view[n] EXCEPT !.id = l, !.status = "running"]
    BY DEF l
  <2> HIDE DEF e
  <2>4. e \in Entry /\ e.id = l /\ e.status = "running"
    BY <2>1, <2>2, <2>3 DEF Entry, RowStatus
  <2> QED BY <2>4 DEF l
<1>9. tick' = [tick EXCEPT !.pc = "gate", !.node = n, !.view = [tick.view EXCEPT ![n] = e]]
  BY <1>2 DEF OpenGate, Tick
<1> HIDE DEF e
<1>10. /\ tick' \in Tick /\ tick'.pc = "gate" /\ tick'.run = tick.run /\ tick'.todo = {}
       /\ tick'.node = n /\ \A m \in Nodes : tick'.view[m] = IF m = n THEN e ELSE tick.view[m]
  BY <1>2, <1>8, <1>9 DEF Tick, TickPc
<1>11. TypeOK'
  BY <1>1, <1>4, <1>7, <1>10 DEF TypeOK, rest, founder
<1>12. AtARun' /\ Between'
  BY <1>1, <1>2, <1>4, <1>10 DEF TickInv, AtARun, Between, rest
<1>13. ViewIsOld'
  <2> SUFFICES ASSUME NEW m \in Nodes
               PROVE  /\ tick'.view[m].id <= Len(steps'[tick.run][m])
                      /\ tick'.view[m].status # "none" => tick'.view[m].id > 0
                      /\ tick'.view[m].status = "succeeded" => <<tick.run, m>> \in done
                      /\ Kind[m] = "effect" /\ tick'.view[m].id = 0 => Len(steps'[tick.run][m]) = 0
    BY <1>4, <1>10 DEF ViewIsOld
  <2>1. CASE m = n
    BY <2>1, <1>7, <1>8, <1>10
  <2>2. CASE m # n
    BY <2>2, <1>1, <1>2, <1>7, <1>10 DEF TickInv, ViewIsOld
  <2> QED BY <2>1, <2>2
<1>14. WaitIsSeen'
  <2>1. ASSUME NEW m \in Nodes, NEW k \in 1 .. Len(steps'[tick.run][m]), Waits(tick.run, m, k)'
        PROVE  tick'.view[m].id = k /\ tick'.view[m].status = "waiting"
    <3>1. m # n /\ k \in Ids(tick.run, m) /\ Waits(tick.run, m, k)
      BY <2>1, <1>7, <1>10 DEF Waits
    <3> QED BY <3>1, <1>1, <1>2, <1>10 DEF TickInv, WaitIsSeen, InFrontier
  <2> QED BY <2>1, <1>10 DEF WaitIsSeen, Ids
<1>15. Agenda'
  BY <1>10 DEF Agenda, AtWork, InStart
<1>16. AtANode'
  BY <1>3, <1>7, <1>8, <1>10 DEF AtANode, AtWork, KindOf
<1> QED BY <1>7, <1>11, <1>12, <1>13, <1>14, <1>15, <1>16 DEF RunnerInv, TickInv

\* The call of the scheduler: one post more, or none.
LEMMA SendAction ==
  ASSUME RunnerInv, NEW n \in Nodes, Send(n)
  PROVE  RunnerInv'
<1>1. TypeOK /\ StoreInv /\ TickInv
  BY DEF RunnerInv
<1>2. /\ tick \in Tick /\ tick.pc = "send" /\ tick.node = n /\ n \in Nodes /\ tick.run # None
      /\ tick.run \in Runs /\ Kind[n] = "publish" /\ tick.view[n].id > 0
      /\ tick.view[n].status \in {"running", "waiting"}
  BY <1>1 DEF Send, TypeOK, Tick, TickInv, Between, AtANode, AtWork, KindOf
<1>3. PICK accepted \in BOOLEAN, answer \in {"ok", "error", "none"} :
        /\ answer = "ok" => accepted
        /\ faults' = faults + (IF answer = "ok" THEN 0 ELSE 1)
        /\ posts' = [posts EXCEPT ![tick.run][n] = @ + IF accepted THEN 1 ELSE 0]
        /\ unknown' = [unknown EXCEPT ![tick.run][n] =
             @ + IF accepted /\ (answer = "error" \/ (answer = "none" /\ Deferred(n))) THEN 1 ELSE 0]
        /\ CASE answer = "ok"    -> failures' = 0 /\ tick' = [tick EXCEPT !.pc = "accepted"]
             [] answer = "error" ->
                  /\ failures' = IF CircuitOpen THEN failures ELSE failures + 1
                  /\ tick' = IF Deferred(n) THEN Handled("frontier", n)
                             ELSE [tick EXCEPT !.pc = "unsent"]
             [] answer = "none"  -> LeaveRun /\ UNCHANGED failures
  BY DEF Send
<1>4. UNCHANGED <<run, steps, inflight, taps, effects, yes, settled, done>>
  BY DEF Send, record, founder
<1>5. faults' \in Nat
  BY <1>1, <1>3, BoundsAssumption DEF TypeOK
<1>6. failures' \in 0 .. Threshold
  <2>1. failures' = 0 \/ failures' = failures \/ (failures' = failures + 1 /\ ~CircuitOpen)
    BY <1>3
  <2>2. failures \in 0 .. Threshold /\ Threshold \in Nat
    BY <1>1, BoundsAssumption DEF TypeOK
  <2> QED BY <2>1, <2>2 DEF CircuitOpen
<1>7. /\ posts' \in [Runs -> [Nodes -> Nat]]
      /\ \A q \in Runs, m \in Nodes : ~(q = tick.run /\ m = n) => posts'[q][m] = posts[q][m]
      /\ accepted => posts'[tick.run][n] > 0
  <2>1. posts \in [Runs -> [Nodes -> Nat]] /\ posts[tick.run][n] \in Nat
    BY <1>1, <1>2 DEF TypeOK
  <2> DEFINE k == posts[tick.run][n] + IF accepted THEN 1 ELSE 0
  <2>2. k \in Nat /\ (accepted => k > 0)
    BY <2>1
  <2>3. posts' = [posts EXCEPT ![tick.run][n] = k]
    BY <1>3
  <2> HIDE DEF k
  <2> QED BY <2>1, <2>2, <2>3, <1>2, CountedUp
<1>8. unknown' \in [Runs -> [Nodes -> Nat]]
  <2>1. unknown \in [Runs -> [Nodes -> Nat]] /\ unknown[tick.run][n] \in Nat
    BY <1>1, <1>2 DEF TypeOK
  <2> DEFINE k == unknown[tick.run][n] +
        IF accepted /\ (answer = "error" \/ (answer = "none" /\ Deferred(n))) THEN 1 ELSE 0
  <2>2. k \in Nat
    BY <2>1
  <2>3. unknown' = [unknown EXCEPT ![tick.run][n] = k]
    BY <1>3
  <2> HIDE DEF k
  <2> QED BY <2>1, <2>2, <2>3, <1>2, CountedUp
<1>9. PostedWasStarted' /\ AnswersAreRows'
  <2>1. tick.view[n].id <= Len(steps[tick.run][n])
    BY <1>1, <1>2 DEF TickInv, ViewIsOld
  <2>2. tick.view[n].id \in Nat /\ Len(steps[tick.run][n]) \in Nat
    BY <1>1, <1>2, RowsAreRows DEF TypeOK, Tick, Entry
  <2>3. Len(steps[tick.run][n]) > 0
    BY <2>1, <2>2, <1>2
  <2>4. PostedWasStarted'
    BY <2>3, <1>1, <1>2, <1>4, <1>7 DEF StoreInv, PostedWasStarted
  <2>5. AnswersAreRows'
    BY <1>1, <1>4 DEF StoreInv, AnswersAreRows, Ids
  <2> QED BY <2>4, <2>5
<1>10. StoreInv'
  BY <1>1, <1>4, <1>9, StoreKept
<1>11. tick' \in Tick => TypeOK'
  BY <1>1, <1>4, <1>5, <1>6, <1>7, <1>8 DEF TypeOK
<1>12. CASE answer = "none"
  BY <1>1, <1>3, <1>10, <1>11, <1>12, LeaveIs, TickLeft DEF RunnerInv
<1>13. CASE answer = "error" /\ Deferred(n)
  <2>1. InFrontier
    BY <1>2, <1>13 DEF InFrontier, Deferred
  <2>2. tick' = Handled("frontier", n)
    BY <1>3, <1>13
  <2>3. tick' \in Tick
    BY <2>2, <1>1, HandledIs DEF TickPc
  <2> QED BY <2>1, <2>2, <2>3, <1>1, <1>4, <1>10, <1>11, FrontierPasses DEF RunnerInv
<1>14. CASE answer = "ok" \/ (answer = "error" /\ ~Deferred(n))
  <2>1. PICK pc \in {"accepted", "unsent"} :
          /\ tick' = [tick EXCEPT !.pc = pc]
          /\ pc = "unsent" => tick.view[n].status = "running"
          /\ pc = "accepted" => accepted
    BY <1>2, <1>3, <1>14 DEF Deferred
  <2>2. /\ tick' \in Tick /\ tick'.pc = pc /\ tick'.run = tick.run /\ tick'.todo = tick.todo
        /\ tick'.view = tick.view /\ tick'.node = n
    BY <2>1, <1>2 DEF Tick, TickPc
  <2>3. (InFrontier' <=> InFrontier) /\ (InStart' <=> InStart)
    BY <2>1, <2>2, <1>2 DEF InFrontier, InStart
  <2>4. AtARun' /\ Between' /\ ViewIsOld'
    BY <2>2, <1>1, <1>2, <1>4 DEF TickInv, AtARun, Between, ViewIsOld
  <2>5. WaitIsSeen'
    BY <2>2, <2>3, <1>1, <1>2, <1>4 DEF TickInv, WaitIsSeen, Ids, Waits
  <2>6. Agenda'
    BY <2>2, <2>3, <1>1, <1>2, <1>4 DEF TickInv, Agenda, AtWork, InputsDone
  <2>7. AtANode'
    BY <2>1, <2>2, <1>2, <1>7 DEF AtANode, AtWork, KindOf
  <2> QED BY <2>2, <2>4, <2>5, <2>6, <2>7, <1>10, <1>11 DEF RunnerInv, TickInv
<1> QED BY <1>12, <1>13, <1>14

\* A verdict, a store, a spawn: once, and only for a row that has had no effect yet.
LEMMA ActAction ==
  ASSUME RunnerInv, NEW n \in Nodes, Act(n)
  PROVE  RunnerInv'
<1>1. TypeOK /\ StoreInv /\ TickInv
  BY DEF RunnerInv
<1>2. /\ tick \in Tick /\ tick.pc = "act" /\ tick.node = n /\ tick.run # None
      /\ tick.run \in Runs /\ Kind[n] = "effect" /\ tick.view[n].id > 0
      /\ tick.view[n].status = "running" /\ effects[tick.run][n] = 0
  BY <1>1 DEF Act, TypeOK, Tick, TickInv, Between, AtANode, AtWork, KindOf
<1>3. UNCHANGED <<run, failures, founder, faults, posts, unknown, yes, settled>>
  BY DEF Act
<1>4. CASE /\ effects' = [effects EXCEPT ![tick.run][n] = @ + 1]
           /\ tick' = [tick EXCEPT !.pc = "acted"] /\ UNCHANGED <<steps, done>>
  <2>1. effects' = [effects EXCEPT ![tick.run][n] = 1]
    BY <1>2, <1>4
  <2>2. /\ effects' \in [Runs -> [Nodes -> Nat]]
        /\ \A q \in Runs, m \in Nodes :
             effects'[q][m] = IF q = tick.run /\ m = n THEN 1 ELSE effects[q][m]
    BY <2>1, <1>1, <1>2, CountedUp DEF TypeOK
  <2>3. Len(steps[tick.run][n]) > 0
    <3>1. tick.view[n].id <= Len(steps[tick.run][n])
      BY <1>1, <1>2 DEF TickInv, ViewIsOld
    <3>2. tick.view[n].id \in Nat /\ Len(steps[tick.run][n]) \in Nat
      BY <1>1, <1>2, RowsAreRows DEF TypeOK, Tick, Entry
    <3> QED BY <3>1, <3>2, <1>2
  <2>4. PostedWasStarted' /\ AnswersAreRows'
    BY <2>2, <2>3, <1>1, <1>3, <1>4 DEF StoreInv, PostedWasStarted, AnswersAreRows, Ids, founder
  <2>5. StoreInv'
    BY <2>4, <1>1, <1>3, <1>4, StoreKept
  <2>6. /\ tick' \in Tick /\ tick'.pc = "acted" /\ tick'.run = tick.run /\ tick'.todo = tick.todo
        /\ tick'.view = tick.view /\ tick'.node = n
    BY <1>2, <1>4 DEF Tick, TickPc
  <2>7. TypeOK'
    BY <2>2, <2>6, <1>1, <1>3, <1>4 DEF TypeOK, founder
  <2>8. AtARun' /\ Between' /\ ViewIsOld'
    BY <2>6, <1>1, <1>2, <1>3, <1>4 DEF TickInv, AtARun, Between, ViewIsOld
  <2>9. WaitIsSeen'
    BY <2>6, <1>1, <1>2, <1>4 DEF TickInv, WaitIsSeen, Ids, Waits, InFrontier
  <2>10. Agenda'
    BY <2>6, <1>1, <1>2, <1>4 DEF TickInv, Agenda, AtWork, InFrontier, InStart, InputsDone
  <2>11. AtANode'
    BY <2>6, <1>2 DEF AtANode, AtWork, KindOf
  <2> QED BY <2>5, <2>7, <2>8, <2>9, <2>10, <2>11 DEF RunnerInv, TickInv
<1>5. CASE /\ FinishStep(tick.run, n, tick.view[n].id, "failed", "none")
           /\ tick' = Handled("start", n) /\ UNCHANGED effects
  <2>1. InStart /\ UNCHANGED rest
    BY <1>2, <1>3, <1>5 DEF InStart, rest
  <2> QED BY <2>1, <1>2, <1>5, StartRow DEF RowStatus, Note
<1> QED BY <1>4, <1>5 DEF Act
-----------------------------------------------------------------------------
(* Opening and closing runs *)

\* A run is closed only when none of its rows waits.
LEMMA Closes ==
  ASSUME RunnerInv, LeaveRun \/ (tick' \in Tick /\ tick'.pc = "next" /\ tick'.run = None /\ tick'.node = None),
         UNCHANGED <<steps, failures, founder, faults, history>>,
         run' \in [Runs -> RunStatus],
         \A q \in Runs : run[q] # "none" => run'[q] # "none",
         \A q \in Runs : run[q] = "running" /\ run'[q] # "running" =>
           \A m \in Nodes : \A k \in Ids(q, m) : ~Waits(q, m, k)
  PROVE  RunnerInv'
<1>1. TypeOK /\ StoreInv /\ TickInv
  BY DEF RunnerInv
<1>2. /\ tick' \in Tick /\ tick'.pc \in {"idle", "next"} /\ tick'.run = None
      /\ tick'.node = None
  BY <1>1, LeaveIs
<1>3. UNCHANGED <<inflight, taps, yes, done, posts, unknown, effects, settled>>
  BY DEF founder, history
<1>4. PostedWasStarted' /\ AnswersAreRows'
  BY <1>1, <1>3 DEF StoreInv, PostedWasStarted, AnswersAreRows, Ids
<1>5. StoreInv'
  BY <1>1, <1>3, <1>4, StoreKept
<1>6. TickInv'
  BY <1>2, TickLeft
<1>7. TypeOK'
  BY <1>1, <1>2, <1>3 DEF TypeOK
<1> QED BY <1>5, <1>6, <1>7 DEF RunnerInv

\* Starved runs have no row, a run that fails has had every waiting row skipped, and a run
\* that ends has none.
LEMMA ClosingActions ==
  ASSUME RunnerInv, TickBegin \/ FailRun \/ CloseRun
  PROVE  RunnerInv'
<1>1. TypeOK /\ StoreInv /\ TickInv
  BY DEF RunnerInv
<1>2. run \in [Runs -> RunStatus]
  BY <1>1 DEF TypeOK
<1>3. CASE TickBegin
  <2>1. PICK starved \in SUBSET {r \in Runs : run[r] = "running"} :
          LET active == {r \in Runs \ starved : run[r] = "running"}
              ready  == {r \in active : ~HasWaiting(r)} IN
          /\ \A r \in starved : \A n \in Nodes : steps[r][n] = <<>>
          /\ run' = [r \in Runs |-> IF r \in starved THEN "failed" ELSE run[r]]
          /\ tick' = [IdleTick EXCEPT !.pc = "next", !.parked = active \ ready,
               !.exec = {r \in ready : Cardinality({q \in ready : q < r}) < RunsPerTick}]
    BY <1>3 DEF TickBegin
  <2>2. run' \in [Runs -> RunStatus]
    BY <2>1, <1>2 DEF RunStatus
  <2>3. PICK exec \in SUBSET Runs, parked \in SUBSET Runs :
          tick' = [IdleTick EXCEPT !.pc = "next", !.parked = parked, !.exec = exec]
    BY <2>1
  <2>4. IdleTick \in Tick /\ IdleTick.run = None /\ IdleTick.node = None
    BY IdleIs
  <2>5. tick' \in Tick /\ tick'.pc = "next" /\ tick'.run = None /\ tick'.node = None
    BY <2>3, <2>4 DEF Tick, TickPc
  <2>6. \A q \in Runs : run[q] = "running" /\ run'[q] # "running" =>
          \A m \in Nodes : \A k \in Ids(q, m) : ~Waits(q, m, k)
    <3> SUFFICES ASSUME NEW q \in Runs, run'[q] # run[q], NEW m \in Nodes
                 PROVE  Ids(q, m) = {}
      OBVIOUS
    <3>1. steps[q][m] = <<>>
      BY <2>1
    <3>2. Len(steps[q][m]) = 0
      BY <3>1, <1>1, RowsAreRows DEF TypeOK
    <3> QED BY <3>2 DEF Ids
  <2> QED BY <2>1, <2>2, <2>5, <2>6, <1>3, Closes DEF TickBegin
<1>4. CASE FailRun
  <2>1. tick.pc = "skip" /\ tick.todo = {} /\ tick.run # None /\ tick.run \in Runs
    BY <1>1, <1>4 DEF FailRun, TickInv, Between, TypeOK, Tick
  <2>2. \A m \in Nodes : \A k \in Ids(tick.run, m) : ~Waits(tick.run, m, k)
    BY <2>1, <1>1 DEF TickInv, WaitIsSeen
  <2>3. run' = [run EXCEPT ![tick.run] = "failed"]
    BY <1>4 DEF FailRun
  <2>4. /\ run' \in [Runs -> RunStatus]
        /\ \A q \in Runs : run[q] # "none" => run'[q] # "none"
        /\ \A q \in Runs : q # tick.run => run'[q] = run[q]
    BY <2>1, <2>3, <1>2 DEF RunStatus
  <2> QED BY <2>2, <2>4, <1>4, Closes DEF FailRun
<1>5. CASE CloseRun
  <2>1. tick.pc = "start" /\ tick.run # None /\ tick.run \in Runs
    BY <1>1, <1>5 DEF CloseRun, TickInv, Between, TypeOK, Tick
  <2> DEFINE state == [n \in Nodes |-> Latest(tick.run, n)]
             end == IF {n \in Nodes : state[n].status = "failed"} = {} THEN "succeeded" ELSE "failed"
  <2>2. run' = run \/ (IsRunComplete(state) /\ run' = [run EXCEPT ![tick.run] = end])
    BY <1>5 DEF CloseRun
  <2>3. end \in {"succeeded", "failed"}
    OBVIOUS
  <2> HIDE DEF end
  <2>4. /\ run' \in [Runs -> RunStatus]
        /\ \A q \in Runs : run[q] # "none" => run'[q] # "none"
        /\ \A q \in Runs : q # tick.run => run'[q] = run[q]
    BY <2>1, <2>2, <2>3, <1>2 DEF RunStatus
  <2>5. IsRunComplete(state) => \A m \in Nodes : \A k \in Ids(tick.run, m) : ~Waits(tick.run, m, k)
    <3> SUFFICES ASSUME NEW m \in Nodes, NEW k \in Ids(tick.run, m), Waits(tick.run, m, k)
                 PROVE  state[m].status = "waiting"
      BY DEF IsRunComplete
    <3>1. k = Len(steps[tick.run][m]) /\ Len(steps[tick.run][m]) > 0
      <4>1. Len(steps[tick.run][m]) \in Nat
        BY <2>1, <1>1, RowsAreRows DEF TypeOK
      <4> QED BY <4>1, <2>1, <1>1 DEF StoreInv, LatestWaits, Ids
    <3> QED BY <3>1, <2>1, <1>1, LatestIs DEF Waits
  <2> QED BY <2>2, <2>4, <2>5, <1>5, Closes DEF CloseRun
<1> QED BY <1>3, <1>4, <1>5

\* A new run.
LEMMA StartRunAction ==
  ASSUME RunnerInv, NEW r \in Runs, StartRun(r)
  PROVE  RunnerInv'
<1>1. TypeOK /\ StoreInv /\ TickInv
  BY DEF RunnerInv
<1>2. UNCHANGED <<steps, failures, tick, inflight, taps, faults, posts, unknown, effects, yes,
                  settled, done>>
  BY DEF StartRun, founder, history
<1>3. /\ run' \in [Runs -> RunStatus]
      /\ \A q \in Runs : run[q] # "none" => run'[q] = run[q]
      /\ \A q \in Runs : run[q] = "running" => run'[q] = "running"
  BY <1>1 DEF StartRun, TypeOK, RunStatus
<1>4. PostedWasStarted' /\ AnswersAreRows'
  BY <1>1, <1>2 DEF StoreInv, PostedWasStarted, AnswersAreRows, Ids
<1>5. StoreInv'
  BY <1>1, <1>2, <1>3, <1>4, StoreKept
<1>6. \A q \in Runs, m \in Nodes : \A k \in Ids(q, m) : Waits(q, m, k)' => Waits(q, m, k)
  BY <1>2 DEF Waits
<1>7. TickInv'
  BY <1>1, <1>2, <1>3, <1>6, TickKept
<1> QED BY <1>1, <1>2, <1>3, <1>5, <1>7 DEF RunnerInv, TypeOK
-----------------------------------------------------------------------------
(* The founder and the clock *)

\* A tap is checked against the latest row of a node that waits for it.
LEMMA TapCheckAction ==
  ASSUME RunnerInv, NEW r \in Runs, NEW n \in Nodes, NEW answer \in BOOLEAN,
         TapCheck(r, n, answer)
  PROVE  RunnerInv'
<1>1. TypeOK /\ StoreInv /\ TickInv
  BY DEF RunnerInv
<1>2. UNCHANGED <<run, steps, failures, tick, faults, posts, unknown, effects, yes, settled,
                  done>>
  BY DEF TapCheck, record, history
<1> DEFINE t == [step |-> <<r, n, Latest(r, n).id>>, answer |-> answer]
<1>3. inflight' = inflight \cup {t}
  BY DEF TapCheck
<1>4. /\ Latest(r, n).status = "waiting" /\ Latest(r, n).id = Len(steps[r][n])
      /\ Len(steps[r][n]) \in Nat /\ Len(steps[r][n]) > 0
  <2>1. Latest(r, n).status = "waiting"
    BY DEF TapCheck
  <2>2. Len(steps[r][n]) \in Nat
    BY <1>1, RowsAreRows DEF TypeOK
  <2> QED BY <2>1, <2>2, <1>1, LatestIs
<1>5. Kind[n] \in {"approval", "publish"}
  BY DEF TapCheck
<1>6. t \in [step : Runs \X Nodes \X Nat, answer : BOOLEAN]
  BY <1>4
<1>7. AnswersAreRows'
  BY <1>1, <1>2, <1>3, <1>4, <1>5 DEF StoreInv, AnswersAreRows, Ids
<1>8. PostedWasStarted'
  BY <1>1, <1>2 DEF StoreInv, PostedWasStarted
<1>9. StoreInv'
  BY <1>1, <1>2, <1>7, <1>8, StoreKept
<1>10. TickInv'
  BY <1>1, <1>2, TickKept DEF Waits
<1>11. taps' \in Nat
  BY <1>1 DEF TapCheck, TypeOK
<1>12. TypeOK'
  BY <1>1, <1>2, <1>3, <1>6, <1>11 DEF TypeOK
<1> QED BY <1>9, <1>10, <1>12 DEF RunnerInv

\* The answer is written to the row the tap was checked for, whatever it says by now.
LEMMA TapWriteAction ==
  ASSUME RunnerInv, NEW t \in inflight, TapWrite(t)
  PROVE  RunnerInv'
<1>1. TypeOK /\ StoreInv /\ TickInv
  BY DEF RunnerInv
<1>2. UNCHANGED <<run, failures, tick, taps, faults, posts, unknown, effects>>
  BY DEF TapWrite
<1> DEFINE r == t.step[1]
           n == t.step[2]
           i == t.step[3]
<1>3. t \in [step : Runs \X Nodes \X Nat, answer : BOOLEAN]
  BY <1>1 DEF TypeOK
<1>4. r \in Runs /\ n \in Nodes /\ i \in Ids(r, n) /\ t.step = <<r, n, i>>
      /\ t.step \in Runs \X Nodes \X Nat
  BY <1>1, <1>3 DEF StoreInv, AnswersAreRows
<1>5. PICK status \in {"succeeded", "failed"}, note \in {"yes", "refused"} :
        FinishStep(r, n, i, status, note) /\ (status = "succeeded" => t.answer)
  BY DEF TapWrite
<1>6. status \in RowStatus /\ note \in Note /\ status # "waiting"
  BY DEF RowStatus, Note
<1>7. inflight' \subseteq inflight /\ yes \subseteq yes' /\ (t.answer => <<r, n, i>> \in yes')
  BY <1>4 DEF TapWrite
<1>8. yes' \subseteq Runs \X Nodes \X Nat /\ settled' \subseteq yes'
  BY <1>1, <1>4 DEF TapWrite, TypeOK
<1> HIDE DEF r, n, i
<1>9. StoreInv'
  BY <1>1, <1>2, <1>4, <1>5, <1>6, <1>7, StoreWritten
<1>10. /\ steps' \in Rows
       /\ \A q \in Runs, m \in Nodes : Len(steps'[q][m]) = Len(steps[q][m])
       /\ \A q \in Runs, m \in Nodes : \A k \in Ids(q, m) :
            steps'[q][m][k].status = IF q = r /\ m = n /\ k = i THEN status
                                     ELSE steps[q][m][k].status
       /\ done' = IF status = "succeeded" THEN done \cup {<<r, n>>} ELSE done
  BY <1>1, <1>4, <1>5, <1>6, RowWritten DEF TypeOK
<1>11. \A q \in Runs, m \in Nodes : \A k \in Ids(q, m) : Waits(q, m, k)' => Waits(q, m, k)
  BY <1>6, <1>10 DEF Waits
<1>12. TickInv'
  BY <1>1, <1>2, <1>10, <1>11, TickKept
<1>13. done' \subseteq Runs \X Nodes
  BY <1>1, <1>4, <1>10 DEF TypeOK
<1> QED BY <1>1, <1>2, <1>7, <1>8, <1>9, <1>10, <1>12, <1>13 DEF RunnerInv, TypeOK

\* Neither a timeout that passes nor midnight moves a step.
LEMMA ClockActions ==
  ASSUME RunnerInv, NextDay \/ CircuitExpires \/ \E r \in Runs, n \in Nodes : Age(r, n)
  PROVE  RunnerInv'
<1>1. TypeOK /\ StoreInv /\ TickInv
  BY DEF RunnerInv
<1>2. UNCHANGED <<run, tick, inflight, taps, faults, posts, unknown, effects, yes, settled, done>>
  BY DEF NextDay, CircuitExpires, Age, founder, record, history
<1>3. failures' \in 0 .. Threshold
  <2>1. failures \in 0 .. Threshold /\ 0 \in 0 .. Threshold
    BY <1>1, BoundsAssumption DEF TypeOK
  <2>2. failures' \in {failures, 0}
    BY DEF NextDay, CircuitExpires, Age, history
  <2> QED BY <2>1, <2>2
<1>4. /\ steps' \in Rows
      /\ \A q \in Runs, m \in Nodes : Len(steps'[q][m]) = Len(steps[q][m])
      /\ \A q \in Runs, m \in Nodes : \A k \in Ids(q, m) :
           steps'[q][m][k].status = steps[q][m][k].status
  <2>1. steps \in Rows
    BY <1>1 DEF TypeOK
  <2>2. CASE NextDay
    BY <2>1, <2>2, RowsOvernight
  <2>3. CASE CircuitExpires
    BY <2>1, <2>3 DEF CircuitExpires, record
  <2>4. CASE \E r \in Runs, n \in Nodes : Age(r, n)
    BY <2>1, <2>4, RowAged
  <2> QED BY <2>2, <2>3, <2>4
<1>5. PostedWasStarted' /\ AnswersAreRows'
  BY <1>1, <1>2, <1>4 DEF StoreInv, PostedWasStarted, AnswersAreRows, Ids, TypeOK
<1>6. StoreInv'
  BY <1>1, <1>2, <1>4, <1>5, StoreKept
<1>7. \A q \in Runs, m \in Nodes : \A k \in Ids(q, m) : Waits(q, m, k)' => Waits(q, m, k)
  BY <1>4 DEF Waits
<1>8. TickInv'
  BY <1>1, <1>2, <1>4, <1>7, TickKept
<1> QED BY <1>1, <1>2, <1>3, <1>4, <1>6, <1>8 DEF RunnerInv, TypeOK
-----------------------------------------------------------------------------
(* The invariant *)

LEMMA InitRunnerInv == Init => RunnerInv
<1> SUFFICES ASSUME Init PROVE RunnerInv
  OBVIOUS
<1> USE DEF Init
<1>1. /\ tick.pc = "idle" /\ tick.run = None /\ tick.node = None
  BY IdleIs DEF IdleTick
<1>2. TickInv
  BY <1>1 DEF TickInv, AtARun, Between, ViewIsOld, WaitIsSeen, Agenda, AtANode, AtWork,
              InFrontier, InStart
<1>3. \A r \in Runs, n \in Nodes : Len(steps[r][n]) = 0 /\ Ids(r, n) = {}
  BY DEF Ids
<1>4. StoreInv
  BY <1>3 DEF StoreInv, StartedInOrder, SucceededIsDone, DoneByYes, AnswersAreRows,
              PostedWasStarted, LatestWaits
<1>5. steps \in Rows
  BY DEF Rows
<1>6. TypeOK
  BY <1>5, IdleIs, BoundsAssumption DEF TypeOK, RunStatus
<1> QED BY <1>2, <1>4, <1>6 DEF RunnerInv

LEMMA NodeStepKeeps ==
  ASSUME RunnerInv, NEW n \in Nodes, NodeStep(n)
  PROVE  RunnerInv'
BY FrontierActions, StartActions, PublishRecords, ChannelActions, ForgetAction, SkipAction,
   StartNodeAction, OpenGateAction, SendAction, ActAction DEF NodeStep

LEMMA NextRunnerInv ==
  ASSUME RunnerInv, [Next]_vars
  PROVE  RunnerInv'
<1>1. CASE TickStep
  BY <1>1, ClosingActions, FrontierDoneAction, InterruptedActions, LoadActions, NodeStepKeeps
     DEF TickStep
<1>2. CASE FounderStep
  BY <1>2, TapCheckAction, TapWriteAction DEF FounderStep
<1>3. CASE Clock
  BY <1>3, ClockActions DEF Clock
<1>4. CASE Interrupted
  BY <1>4, InterruptedActions
<1>5. CASE \E r \in Runs : StartRun(r)
  BY <1>5, StartRunAction
<1>6. CASE UNCHANGED vars
  <2>1. UNCHANGED <<run, steps, failures, tick, inflight, taps, faults, posts, unknown, effects, yes,
                    settled, done>>
    BY <1>6 DEF vars, record, founder, history
  <2>2. TypeOK /\ StoreInv /\ TickInv
    BY DEF RunnerInv
  <2>3. TypeOK' /\ StoreInv'
    BY <2>1, <2>2, StoreUntouched DEF TypeOK
  <2>4. TickInv'
    BY <2>1, <2>2, TickKept DEF Waits
  <2> QED BY <2>3, <2>4 DEF RunnerInv
<1> QED BY <1>1, <1>2, <1>3, <1>4, <1>5, <1>6 DEF Next

\* What the runner's tables and its snapshot always satisfy.
THEOREM RunnerInvHolds == Spec => []RunnerInv
BY InitRunnerInv, NextRunnerInv, PTL DEF Spec

\* Every variable keeps its type: no status, no step id and no local state of a tick that
\* the code does not know.
THEOREM RunnerTypes == Spec => []TypeOK
<1>1. RunnerInv => TypeOK
  BY DEF RunnerInv
<1> QED BY <1>1, RunnerInvHolds, PTL

\* For every graph, every number of runs, retries and faults: an effect takes place at most
\* once in a run.
THEOREM EffectsOnce == Spec => []EffectsAtMostOnce
<1>1. RunnerInv => EffectsAtMostOnce
  <2> SUFFICES ASSUME RunnerInv, NEW r \in Runs, NEW n \in Nodes
               PROVE  effects[r][n] <= 1
    BY DEF EffectsAtMostOnce
  <2>1. effects[r][n] \in Nat /\ (effects[r][n] > 0 => effects[r][n] = 1)
    BY DEF RunnerInv, TypeOK, StoreInv, PostedWasStarted
  <2> QED BY <2>1
<1> QED BY <1>1, RunnerInvHolds, PTL

\* For every graph: a run that is over leaves no step waiting for the founder, for a
\* metric or for another day.
THEOREM ClosedAsksNothing == Spec => []ClosedRunAsksNothing
<1>1. RunnerInv => ClosedRunAsksNothing
  BY DEF RunnerInv, StoreInv, LatestWaits, ClosedRunAsksNothing, HasWaiting, Ids, Waits
<1> QED BY <1>1, RunnerInvHolds, PTL
-----------------------------------------------------------------------------
(* GraphRunner implements AgentGraph *)

\* A step that neither closes a run, records a success, writes a yes nor makes a post is a
\* stutter of AgentGraph.
LEMMA Stutters ==
  ASSUME UNCHANGED <<run, done, yes, posts>>
  PROVE  [Promise!Next]_Promise!vars
BY DEF Promise!vars, AnsweredYes, WithPost

\* So is one that writes anything but a success to a row.
LEMMA WritesNoSuccess ==
  ASSUME NEW r, NEW n, NEW i, NEW status, NEW note, FinishStep(r, n, i, status, note),
         status # "succeeded", UNCHANGED <<run, yes, posts>>
  PROVE  [Promise!Next]_Promise!vars
<1>1. UNCHANGED done
  BY DEF FinishStep
<1> QED BY <1>1, Stutters

\* A success the tick records finishes the node: its row was started in order.
LEMMA WritesSuccess ==
  ASSUME RunnerInv, tick.run # None, NEW n \in Nodes, tick.view[n].status # "none",
         Kind[n] # "approval", Kind[n] = "publish" => posts[tick.run][n] > 0,
         NEW i, NEW note, FinishStep(tick.run, n, i, "succeeded", note),
         UNCHANGED <<run, yes, posts>>
  PROVE  [Promise!Next]_Promise!vars
<1>1. tick.run \in Runs /\ tick.view[n].id \in Ids(tick.run, n)
  BY ViewNamesRow DEF RunnerInv
<1>2. Len(steps[tick.run][n]) \in Nat
  BY <1>1, RowsAreRows DEF RunnerInv, TypeOK
<1>3. run[tick.run] = "running" /\ InputsDone(tick.run, n)
  BY <1>1, <1>2 DEF RunnerInv, StoreInv, StartedInOrder, TickInv, AtARun, Ids
<1>4. done' = done \cup {<<tick.run, n>>}
  BY DEF FinishStep
<1>5. Kind[n] = "publish" => <<tick.run, n>> \in WithPost
  BY <1>1 DEF WithPost
<1>6. UNCHANGED <<AnsweredYes, WithPost>>
  BY DEF AnsweredYes, WithPost
<1>7. Promise!Finish(tick.run, n)
  BY <1>3, <1>4, <1>5, <1>6 DEF Promise!Finish, Promise!Ready, InputsDone
<1> QED BY <1>1, <1>7 DEF Promise!Next

\* A step of a tick at a node.
LEMMA NodeStepRefines ==
  ASSUME RunnerInv, NEW n \in Nodes, NodeStep(n)
  PROVE  [Promise!Next]_Promise!vars
<1>1. TypeOK /\ TickInv
  BY DEF RunnerInv
<1>2. CASE Recover(n) \/ Decline(n) \/ ParkGate(n) \/ SkipStraggler(n) \/ Park(n)
           \/ RefuseContent(n) \/ RecordUnsent(n)
  <2>1. PICK status \in {"failed", "skipped", "waiting"}, note \in Note :
          FinishStep(tick.run, n, tick.view[n].id, status, note)
    BY <1>2 DEF Recover, Decline, ParkGate, SkipStraggler, Park,
                RefuseContent, RecordUnsent, Note
  <2>2. UNCHANGED <<run, yes, posts>>
    BY <1>2 DEF Recover, Decline, ParkGate, SkipStraggler, Park, RefuseContent,
                RecordUnsent
  <2> QED BY <2>1, <2>2, WritesNoSuccess
<1>3. CASE MaintainAsk(n) \/ CheckChannel(n)
  <2>1. \/ UNCHANGED done
        \/ \E status \in {"failed", "skipped", "waiting"}, note \in Note :
             FinishStep(tick.run, n, tick.view[n].id, status, note)
    BY <1>3 DEF MaintainAsk, TimedOut, CheckChannel, Note
  <2>2. UNCHANGED <<run, yes, posts>>
    BY <1>3 DEF MaintainAsk, CheckChannel
  <2> QED BY <2>1, <2>2, WritesNoSuccess, Stutters
<1>4. CASE MaintainParked(n) \/ Forget(n) \/ OpenGate(n) \/ StartNode(n)
  <2>1. UNCHANGED <<run, done, yes, posts>>
    BY <1>4 DEF MaintainParked, Forget, OpenGate, StartNode, record, history
  <2> QED BY <2>1, Stutters
<1>5. CASE MaintainHarvest(n)
  <2>1. UNCHANGED <<run, yes, posts>> /\ Kind[n] = "harvest"
    BY <1>5 DEF MaintainHarvest, Of
  <2>2. CASE UNCHANGED done
    BY <2>1, <2>2, Stutters
  <2>3. CASE FinishStep(tick.run, n, tick.view[n].id, "succeeded", "none")
    <3>1. tick.run # None /\ tick.view[n].status # "none"
      BY <1>1, <1>5 DEF MaintainHarvest, TickInv, Between, Agenda, InFrontier
    <3> QED BY <2>1, <2>3, <3>1, WritesSuccess
  <2> QED BY <1>5, <2>2, <2>3 DEF MaintainHarvest
<1>6. CASE RunTask(n) \/ RecordAccepted(n) \/ RecordActed(n)
  <2>1. UNCHANGED <<run, yes, posts>>
    BY <1>6 DEF RunTask, RecordAccepted, RecordActed
  <2>2. /\ tick.run # None /\ tick.view[n].status # "none" /\ Kind[n] # "approval"
        /\ Kind[n] = "publish" => posts[tick.run][n] > 0
    BY <1>1, <1>6 DEF RunTask, RecordAccepted, RecordActed, TickInv, Between, AtANode, AtWork, KindOf
  <2>3. PICK status \in {"succeeded", "failed"}, note \in Note :
          FinishStep(tick.run, n, tick.view[n].id, status, note)
    BY <1>6 DEF RunTask, RecordAccepted, RecordActed, Note
  <2> QED BY <2>1, <2>2, <2>3, WritesSuccess, WritesNoSuccess
<1>7. CASE Act(n)
  <2>1. UNCHANGED <<run, yes, posts>>
    BY <1>7 DEF Act
  <2> QED BY <1>7, <2>1, WritesNoSuccess, Stutters DEF Act
<1>8. CASE Send(n)
  <2>1. /\ tick.pc = "send" /\ tick.node = n /\ tick.run \in Runs /\ run[tick.run] = "running"
        /\ Kind[n] = "publish" /\ tick.view[n].status # "none"
    BY <1>1, <1>8 DEF Send, TypeOK, Tick, TickInv, AtARun, Between, AtANode, AtWork, KindOf
  <2>2. UNCHANGED <<run, done, yes>>
    BY <1>8 DEF Send, record
  <2>3. PICK k \in {0, 1} : posts' = [posts EXCEPT ![tick.run][n] = posts[tick.run][n] + k]
    BY <1>8 DEF Send
  <2>4. posts \in [Runs -> [Nodes -> Nat]] /\ posts[tick.run][n] \in Nat
    BY <1>1, <2>1 DEF TypeOK
  <2>5. \A q \in Runs, m \in Nodes : posts'[q][m] = IF q = tick.run /\ m = n
          THEN posts[tick.run][n] + k ELSE posts[q][m]
    BY <2>1, <2>3, <2>4, CountedUp
  <2>6. WithPost' = WithPost \/ WithPost' = WithPost \cup {<<tick.run, n>>}
    BY <2>1, <2>4, <2>5 DEF WithPost
  <2>7. UNCHANGED AnsweredYes
    BY <2>2 DEF AnsweredYes
  <2>8. CASE WithPost' = WithPost
    BY <2>2, <2>7, <2>8 DEF Promise!vars
  <2>9. CASE WithPost' = WithPost \cup {<<tick.run, n>>}
    <3>1. tick.view[n].id \in Ids(tick.run, n)
      BY <1>1, <2>1, ViewNamesRow DEF TickInv, Between
    <3>2. Len(steps[tick.run][n]) \in Nat
      BY <1>1, <2>1, RowsAreRows DEF TypeOK
    <3>3. InputsDone(tick.run, n)
      BY <2>1, <3>1, <3>2 DEF RunnerInv, StoreInv, StartedInOrder, Ids
    <3>4. Promise!Post(tick.run, n)
      BY <2>1, <2>2, <2>7, <2>9, <3>3 DEF Promise!Post, Promise!Ready, InputsDone
    <3> QED BY <2>1, <3>4 DEF Promise!Next
  <2> QED BY <2>6, <2>8, <2>9
<1> QED BY <1>2, <1>3, <1>4, <1>5, <1>6, <1>7, <1>8 DEF NodeStep

\* A yes approves its node: the row it is written to was started in order.
LEMMA TapWriteRefines ==
  ASSUME RunnerInv, NEW t \in inflight, TapWrite(t)
  PROVE  [Promise!Next]_Promise!vars
<1> DEFINE r == t.step[1]
           n == t.step[2]
<1>1. UNCHANGED <<run, posts>>
  BY DEF TapWrite
<1>2. CASE ~t.answer
  <2>1. UNCHANGED yes /\ FinishStep(t.step[1], t.step[2], t.step[3], "failed", "refused")
    BY <1>2 DEF TapWrite
  <2> QED BY <1>1, <2>1, WritesNoSuccess
<1>3. CASE t.answer
  <2>1. done' = done \cup {<<r, n>>} /\ yes' = yes \cup {t.step}
    BY <1>3 DEF TapWrite, FinishStep
  <2>2. r \in Runs /\ n \in Nodes /\ t.step[3] \in Ids(r, n) /\ Kind[n] \in {"approval", "publish"}
    BY DEF RunnerInv, TypeOK, StoreInv, AnswersAreRows
  <2>3. Len(steps[r][n]) > 0
    <3>1. Len(steps[r][n]) \in Nat
      BY <2>2, RowsAreRows DEF RunnerInv, TypeOK
    <3> QED BY <2>2, <3>1 DEF Ids
  <2>4. AnsweredYes' = AnsweredYes \cup {<<r, n>>}
    BY <2>1 DEF AnsweredYes
  <2>5. run[r] # "none" /\ InputsDone(r, n)
    BY <2>2, <2>3 DEF RunnerInv, StoreInv, StartedInOrder
  <2>6. UNCHANGED WithPost
    BY <1>1 DEF WithPost
  <2> HIDE DEF r, n
  <2>7. Promise!Approve(r, n)
    BY <1>1, <2>1, <2>2, <2>4, <2>5, <2>6 DEF Promise!Approve, Promise!Ready, InputsDone
  <2> QED BY <2>2, <2>7 DEF Promise!Next
<1> QED BY <1>2, <1>3 DEF RunnerInv, TypeOK

\* Starved, failed and finished runs are closed.
LEMMA ClosingRefines ==
  ASSUME RunnerInv, TickBegin \/ FailRun \/ CloseRun
  PROVE  [Promise!Next]_Promise!vars
<1>1. UNCHANGED <<done, yes, posts>>
  BY DEF TickBegin, FailRun, CloseRun, history
<1>2. run \in [Runs -> RunStatus]
  BY DEF RunnerInv, TypeOK
<1>3. \/ UNCHANGED run
      \/ \E R \in SUBSET Runs, end \in {"failed", "succeeded"} :
           /\ \A r \in R : run[r] = "running"
           /\ run' = [r \in Runs |-> IF r \in R THEN end ELSE run[r]]
  <2>1. CASE TickBegin
    <3>1. PICK R \in SUBSET {r \in Runs : run[r] = "running"} :
            run' = [r \in Runs |-> IF r \in R THEN "failed" ELSE run[r]]
      BY <2>1 DEF TickBegin
    <3> QED BY <3>1
  <2>2. CASE FailRun \/ CloseRun
    <3>1. tick.run \in Runs /\ run[tick.run] = "running"
      BY <2>2 DEF FailRun, CloseRun, RunnerInv, TypeOK, Tick, TickInv, Between, AtARun
    <3>2. UNCHANGED run \/ \E end \in {"failed", "succeeded"} : run' = [run EXCEPT ![tick.run] = end]
      BY <2>2 DEF FailRun, CloseRun
    <3>3. ASSUME NEW end \in {"failed", "succeeded"}, run' = [run EXCEPT ![tick.run] = end]
          PROVE  run' = [r \in Runs |-> IF r \in {tick.run} THEN end ELSE run[r]]
      <4>1. run' = [r \in Runs |-> IF r = tick.run THEN end ELSE run[r]]
        BY <1>2, <3>1, <3>3
      <4> QED BY <4>1
    <3>4. {tick.run} \in SUBSET Runs /\ \A r \in {tick.run} : run[r] = "running"
      BY <3>1
    <3>5. CASE UNCHANGED run
      BY <3>5
    <3>6. CASE \E end \in {"failed", "succeeded"} : run' = [run EXCEPT ![tick.run] = end]
      <4>1. PICK end \in {"failed", "succeeded"} : run' = [run EXCEPT ![tick.run] = end]
        BY <3>6
      <4>2. run' = [r \in Runs |-> IF r \in {tick.run} THEN end ELSE run[r]]
        BY <3>3, <4>1
      <4> QED BY <3>4, <4>2
    <3> QED BY <3>2, <3>5, <3>6
  <2> QED BY <2>1, <2>2
<1>4. CASE UNCHANGED run
  BY <1>1, <1>4, Stutters
<1>5. ASSUME NEW R \in SUBSET Runs, NEW end \in {"failed", "succeeded"},
             \A r \in R : run[r] = "running",
             run' = [r \in Runs |-> IF r \in R THEN end ELSE run[r]]
      PROVE  [Promise!Next]_Promise!vars
  <2>1. UNCHANGED <<AnsweredYes, WithPost>>
    BY <1>1 DEF AnsweredYes, WithPost
  <2>2. Promise!Close(R, end)
    BY <1>1, <1>5, <2>1 DEF Promise!Close
  <2> QED BY <2>2 DEF Promise!Next
<1> QED BY <1>3, <1>4, <1>5

\* Every step of the runner is a step of AgentGraph or a stutter.
LEMMA NextRefines ==
  ASSUME RunnerInv, [Next]_vars
  PROVE  [Promise!Next]_Promise!vars
<1>1. CASE TickBegin \/ FailRun \/ CloseRun
  BY <1>1, ClosingRefines
<1>2. CASE TickEnd \/ FrontierDone \/ (\E r \in Runs : LoadRun(r)) \/ Interrupted \/ Clock
           \/ (\E r \in Runs, n \in Nodes, answer \in BOOLEAN : TapCheck(r, n, answer))
  <2>1. UNCHANGED <<run, done, yes, posts>>
    BY <1>2 DEF TickEnd, FrontierDone, LoadRun, Interrupted, Clock, NextDay, CircuitExpires, Age,
                TapCheck, record, history
  <2> QED BY <2>1, Stutters
<1>3. CASE \E n \in Nodes : NodeStep(n)
  BY <1>3, NodeStepRefines
<1>4. CASE \E t \in inflight : TapWrite(t)
  BY <1>4, TapWriteRefines
<1>5. CASE \E r \in Runs : StartRun(r)
  <2>1. PICK r \in Runs : StartRun(r)
    BY <1>5
  <2>2. UNCHANGED <<done, AnsweredYes, WithPost>>
    BY <2>1 DEF StartRun, history, AnsweredYes, WithPost
  <2>3. Promise!Start(r)
    BY <2>1, <2>2 DEF Promise!Start, StartRun
  <2> QED BY <2>3 DEF Promise!Next
<1>6. CASE UNCHANGED vars
  BY <1>6, Stutters DEF vars, record, history
<1> QED BY <1>1, <1>2, <1>3, <1>4, <1>5, <1>6 DEF Next, TickStep, FounderStep

\* For every graph and every instance: the runner with its tick, its rows, its retries and
\* its crash recovery implements the promise of agent-graphs.ts.
THEOREM RunnerImplementsPromise == Spec => ImplementsAgentGraph
<1>1. Init => Promise!Init
  <2> SUFFICES ASSUME Init PROVE Promise!Init
    OBVIOUS
  <2>1. AnsweredYes = {} /\ WithPost = {}
    BY DEF Init, AnsweredYes, WithPost
  <2> QED BY <2>1 DEF Init, Promise!Init
<1>2. RunnerInv /\ [Next]_vars => [Promise!Next]_Promise!vars
  BY NextRefines
<1> QED BY <1>1, <1>2, RunnerInvHolds, PTL DEF Spec, ImplementsAgentGraph, Promise!Spec

\* For every graph the registry accepts, every number of runs, taps, retries and crashes:
\* no post without the founder's yes to every approval above its node. What is done is
\* closed under the dependencies, and a posted node was started with its inputs done.
THEOREM NothingPublishes == Spec => []NothingPublishedWithoutApproval
<1>1. RunnerInv => NothingPublishedWithoutApproval
  <2> SUFFICES ASSUME RunnerInv, NEW r \in Runs, NEW n \in Of("publish"), posts[r][n] > 0,
                      NEW a \in Of("approval"), Upstream(a, n)
               PROVE  <<r, a>> \in AnsweredYes
    BY DEF NothingPublishedWithoutApproval
  <2> DEFINE S == {n} \cup {m \in Nodes : <<r, m>> \in done}
  <2>1. n \in Nodes /\ a \in Nodes /\ a # n /\ Kind[a] = "approval"
    BY DEF Of
  <2>2. \A m \in S : InputsDone(r, m)
    BY <2>1 DEF RunnerInv, StoreInv, PostedWasStarted, DoneByYes, StartedInOrder
  <2>3. \A m \in S : Deps[m] \subseteq S
    BY <2>1, <2>2, GraphAssumption DEF InputsDone
  <2>4. a \in S
    BY <2>1, <2>3 DEF Upstream
  <2>5. \E i \in Ids(r, a) : <<r, a, i>> \in yes
    BY <2>1, <2>4 DEF RunnerInv, StoreInv, DoneByYes
  <2> QED BY <2>5 DEF AnsweredYes
<1> QED BY <1>1, RunnerInvHolds, PTL
-----------------------------------------------------------------------------
(* The budget of a node and its posts: what is known of one node of one run *)

Yeses(r, n, k) == Cardinality({i \in 1 .. k : <<r, n, i>> \in yes})
Tapped(r, n, i) == \E t \in inflight : t.step = <<r, n, i>>
FailedOrYes(r, n, i) == steps[r][n][i].status = "failed" \/ <<r, n, i>> \in yes
At(pcs, n) == tick.pc \in pcs /\ tick.node = n

\* A gate this tick has opened: its row is not among those `older` counts.
FreshGate(n) ==
  \/ At({"gate"}, n)
  \/ tick.view[n].status = "waiting" /\ tick.view[n].note = "gate" /\ n \notin tick.todo
\* Section 2 may still turn to n.
Retriable(n) == InFrontier /\ ~FreshGate(n)
\* No post of n but those the founder said yes to and those nobody can know of.
NoneOwed(r, n) == posts[r][n] <= unknown[r][n] + Yeses(r, n, Len(steps[r][n]))
Unsaid(row) == row.status = "waiting" /\ row.note # "gate"
NotSent(row) == row.status = "failed" /\ row.note = "not_sent"

\* An answer is about a row, and one that raced with nothing stands, also in what a tick
\* reads later.
AnswersStand(r, n) ==
  \A i \in Nat :
    /\ <<r, n, i>> \in yes => i \in Ids(r, n)
    /\ <<r, n, i>> \in settled =>
         /\ i \in Ids(r, n) /\ steps[r][n][i].status = "succeeded" /\ ~Tapped(r, n, i)
         /\ tick.run = r /\ tick.view[n].id = i => tick.view[n].status = "succeeded"

\* A row makes room for another by failing or by a yes, and only a yes makes a publish
\* succeed without a post.
RowsSpent(r, n) ==
  /\ \A i \in 1 .. Len(steps[r][n]) - 1 : FailedOrYes(r, n, i)
  /\ Len(steps[r][n]) <= 1 + Budget + Yeses(r, n, Len(steps[r][n]) - 1)
  /\ \A i \in Ids(r, n) :
       Kind[n] = "publish" /\ steps[r][n][i].status = "succeeded" /\ steps[r][n][i].note # "accepted"
         => <<r, n, i>> \in yes

\* One post may be unaccounted for, but none while the latest row may still be sent, or
\* may be sent again without a question.
PostsOwed(r, n) == Kind[n] = "publish" =>
  LET l == Len(steps[r][n])  row == steps[r][n][Len(steps[r][n])] IN
  /\ posts[r][n] <= 1 + unknown[r][n] + Yeses(r, n, l)
  /\ l > 0 =>
     /\ Unsaid(row) => /\ <<r, n, l>> \notin yes /\ ~Tapped(r, n, l)
                       /\ ~(tick.run = r /\ At({"accepted"}, n)) => NoneOwed(r, n)
     /\ NotSent(row) => NoneOwed(r, n)
     /\ <<r, n, l>> \in yes => NoneOwed(r, n)

\* The snapshot names the latest row, and what it has forgotten may be tried again.
SnapSpent(r, n) == tick.run = r =>
  LET l == Len(steps[r][n])  v == tick.view[n] IN
  /\ v.id \in {0, l}
  /\ l > 0 /\ (v.status = "failed" \/ v.id = 0) => FailedOrYes(r, n, l)
  /\ v.id = 0 => l <= Budget + Yeses(r, n, l)
  /\ Kind[n] = "publish" /\ v.status = "succeeded" /\ v.note # "accepted" => <<r, n, l>> \in yes
  /\ Retriable(n) /\ v.id > 0 => l <= 1 + tick.older[n] + Yeses(r, n, l - 1)
  /\ At({"send", "accepted"}, n) /\ v.status = "waiting" => v.note # "gate"

\* What the snapshot holds for sendable owes no post.
SnapOwed(r, n) == tick.run = r /\ Kind[n] = "publish" =>
  LET l == Len(steps[r][n])  v == tick.view[n]  row == steps[r][n][Len(steps[r][n])] IN
  /\ v.id = 0 \/ NotSent(v) \/ At({"check", "send", "unsent"}, n) => NoneOwed(r, n)
  /\ l > 0 /\ Unsaid(v) => Unsaid(row)
  /\ l > 0 /\ At({"check", "send", "accepted", "unsent"}, n) /\ v.status = "running" =>
       row.status = "running" /\ <<r, n, l>> \notin yes /\ ~Tapped(r, n, l)

PairInv(r, n) ==
  AnswersStand(r, n) /\ RowsSpent(r, n) /\ PostsOwed(r, n) /\ SnapSpent(r, n) /\ SnapOwed(r, n)
BudgetInv == \A r \in Runs, n \in Nodes : PairInv(r, n)
-----------------------------------------------------------------------------
(* Counting the answers *)

\* The number of yeses is a number, and one more when the last row of those counted has one.
LEMMA YesesCount ==
  ASSUME NEW r \in Runs, NEW n \in Nodes, NEW k \in Int
  PROVE  /\ Yeses(r, n, k) \in Nat
         /\ Yeses(r, n, k) <= Yeses(r, n, k + 1)
         /\ k \in Nat /\ <<r, n, k + 1>> \in yes => Yeses(r, n, k + 1) = Yeses(r, n, k) + 1
<1> DEFINE S(j) == {i \in 1 .. j : <<r, n, i>> \in yes}
<1>1. IsFiniteSet(S(k)) /\ IsFiniteSet(S(k + 1))
  <2>1. \A j \in Int : IsFiniteSet(1 .. j) /\ S(j) \subseteq 1 .. j
    BY FS_Interval
  <2>2. k + 1 \in Int
    OBVIOUS
  <2> HIDE DEF S
  <2> QED BY <2>1, <2>2, FS_Subset
<1>2. Cardinality(S(k)) \in Nat /\ Cardinality(S(k)) <= Cardinality(S(k + 1))
  <2>1. S(k) \subseteq S(k + 1)
    OBVIOUS
  <2> HIDE DEF S
  <2> QED BY <1>1, <2>1, FS_CardinalityType, FS_Subset
<1>3. ASSUME k \in Nat, <<r, n, k + 1>> \in yes
      PROVE  Cardinality(S(k + 1)) = Cardinality(S(k)) + 1
  <2>1. S(k + 1) = S(k) \cup {k + 1} /\ k + 1 \notin S(k)
    BY <1>3
  <2> HIDE DEF S
  <2> QED BY <1>1, <2>1, FS_AddElement
<1> QED BY <1>2, <1>3 DEF Yeses

\* Answers are only added, and a new one counts.
LEMMA YesesGrow ==
  ASSUME NEW r \in Runs, NEW n \in Nodes, NEW k \in Int, yes \subseteq yes'
  PROVE  /\ Yeses(r, n, k)' \in Nat /\ Yeses(r, n, k) <= Yeses(r, n, k)'
         /\ \A i \in 1 .. k : <<r, n, i>> \in yes' /\ <<r, n, i>> \notin yes =>
              Yeses(r, n, k) + 1 <= Yeses(r, n, k)'
<1> DEFINE S == {i \in 1 .. k : <<r, n, i>> \in yes}
           T == {i \in 1 .. k : <<r, n, i>> \in yes'}
<1>1. IsFiniteSet(S) /\ IsFiniteSet(T)
  <2>1. IsFiniteSet(1 .. k) /\ S \subseteq 1 .. k /\ T \subseteq 1 .. k
    BY FS_Interval
  <2> QED BY <2>1, FS_Subset
<1>2. S \subseteq T
  OBVIOUS
<1>3. \A i \in 1 .. k : <<r, n, i>> \in yes' /\ <<r, n, i>> \notin yes =>
        i \notin S /\ S \cup {i} \subseteq T
  OBVIOUS
<1>4. Yeses(r, n, k) = Cardinality(S) /\ Yeses(r, n, k)' = Cardinality(T)
  BY DEF Yeses
<1> HIDE DEF S, T
<1>5. /\ Cardinality(T) \in Nat /\ Cardinality(S) \in Nat /\ Cardinality(S) <= Cardinality(T)
  BY <1>1, <1>2, FS_CardinalityType, FS_Subset
<1>6. ASSUME NEW i, i \notin S, S \cup {i} \subseteq T
      PROVE  Cardinality(S) + 1 <= Cardinality(T)
  <2>1. Cardinality(S \cup {i}) = Cardinality(S) + 1 /\ IsFiniteSet(S \cup {i})
    BY <1>1, <1>6, FS_AddElement
  <2>2. Cardinality(S \cup {i}) <= Cardinality(T)
    BY <1>1, <1>6, FS_Subset
  <2> QED BY <2>1, <2>2
<1> QED BY <1>3, <1>4, <1>5, <1>6

\* Rows that failed or were answered yes are as many as the snapshot counts failures, and
\* the yeses.
LEMMA OlderCounts ==
  ASSUME TypeOK, NEW r \in Runs, NEW n \in Nodes,
         \A i \in 1 .. Len(steps[r][n]) - 1 : FailedOrYes(r, n, i)
  PROVE  Len(steps[r][n]) <= 1 + FailedBefore(r, n) + Yeses(r, n, Len(steps[r][n]) - 1)
<1> DEFINE l == Len(steps[r][n])
           F == {i \in 1 .. l - 1 : steps[r][n][i].status = "failed"}
           Y == {i \in 1 .. l - 1 : <<r, n, i>> \in yes}
<1>1. l \in Nat
  BY RowsAreRows DEF TypeOK
<1>2. F \cup Y = 1 .. l - 1
  BY DEF FailedOrYes
<1>3. IsFiniteSet(1 .. l - 1) /\ Cardinality(1 .. l - 1) = IF l = 0 THEN 0 ELSE l - 1
  <2>1. 1 \in Int /\ l - 1 \in Int
    BY <1>1
  <2>2. IsFiniteSet(1 .. l - 1) /\ Cardinality(1 .. l - 1) = IF 1 > l - 1 THEN 0 ELSE (l - 1) - 1 + 1
    <3> HIDE DEF l
    <3> QED BY <2>1, FS_Interval
  <2> QED BY <2>2, <1>1
<1>4. FailedBefore(r, n) = Cardinality(F) /\ Yeses(r, n, l - 1) = Cardinality(Y)
  BY DEF FailedBefore, Yeses
<1>5. F \subseteq 1 .. l - 1 /\ Y \subseteq 1 .. l - 1
  OBVIOUS
<1> HIDE DEF l, F, Y
<1>6. IsFiniteSet(F) /\ IsFiniteSet(Y)
  BY <1>3, <1>5, FS_Subset
<1>7. /\ Cardinality(F) \in Nat /\ Cardinality(Y) \in Nat
      /\ Cardinality(F \cup Y) = Cardinality(F) + Cardinality(Y) - Cardinality(F \cap Y)
      /\ Cardinality(F \cap Y) \in Nat
  BY <1>6, FS_Union, FS_CardinalityType, FS_Intersection
<1>8. l <= 1 + Cardinality(F) + Cardinality(Y)
  <2>1. Cardinality(F \cup Y) = Cardinality(1 .. l - 1)
    BY <1>2, Zenon
  <2>2. Cardinality(F \cup Y) = IF l = 0 THEN 0 ELSE l - 1
    BY <2>1, <1>3, Zenon
  <2>3. l <= 1 + Cardinality(F \cup Y)
    BY <2>2, <1>1
  <2> QED BY <2>3, <1>1, <1>7
<1> QED BY <1>4, <1>8 DEF l

-----------------------------------------------------------------------------
(* A pair that a step leaves alone *)

\* The rows of n in r, the answers to them and the posts counted for them stay.
RowsKept(r, n) ==
  /\ Len(steps'[r][n]) = Len(steps[r][n])
  /\ \A k \in Ids(r, n) : /\ steps'[r][n][k].status = steps[r][n][k].status
                          /\ steps'[r][n][k].note = steps[r][n][k].note
  /\ \A i \in Nat : /\ <<r, n, i>> \in yes' <=> <<r, n, i>> \in yes
                    /\ <<r, n, i>> \in settled' => <<r, n, i>> \in settled
                    /\ Tapped(r, n, i)' => Tapped(r, n, i)
  /\ posts'[r][n] = posts[r][n] /\ unknown'[r][n] = unknown[r][n]

\* So does the snapshot of n, if the tick stays at r at all, and its work at n does not begin.
SnapKept(r, n) ==
  /\ tick'.run = r =>
       /\ tick.run = r /\ tick'.view[n] = tick.view[n] /\ tick'.older[n] = tick.older[n]
       /\ tick'.pc \in AtWork /\ tick'.node = n => tick.pc = tick'.pc /\ tick.node = n
       /\ Retriable(n)' => Retriable(n)
  /\ tick.run = r /\ At({"accepted"}, n) => tick'.run = r /\ At({"accepted"}, n)'

\* Counts follow the answers.
LEMMA YesesStay ==
  ASSUME NEW r \in Runs, NEW n \in Nodes, RowsKept(r, n), NEW k \in Int
  PROVE  Yeses(r, n, k)' = Yeses(r, n, k)
<1>1. {i \in 1 .. k : <<r, n, i>> \in yes'} = {i \in 1 .. k : <<r, n, i>> \in yes}
  BY DEF RowsKept
<1> QED BY <1>1 DEF Yeses

\* What is known of a pair stays known.
LEMMA PairStays ==
  ASSUME TypeOK, NEW r \in Runs, NEW n \in Nodes, PairInv(r, n), RowsKept(r, n), SnapKept(r, n)
  PROVE  PairInv(r, n)'
<1>0. PICK l : l = Len(steps[r][n])
  OBVIOUS
<1>1. l \in Nat /\ l - 1 \in Int /\ l \in Int
  BY <1>0, RowsAreRows DEF TypeOK
<1>2. /\ Len(steps'[r][n]) = l /\ Ids(r, n)' = Ids(r, n)
      /\ Yeses(r, n, l)' = Yeses(r, n, l) /\ Yeses(r, n, l - 1)' = Yeses(r, n, l - 1)
      /\ \A k \in Nat : Yeses(r, n, k)' = Yeses(r, n, k)
  BY <1>0, <1>1, YesesStay DEF RowsKept, Ids
<1>3. l > 0 => /\ steps'[r][n][l].status = steps[r][n][l].status
               /\ steps'[r][n][l].note = steps[r][n][l].note
  BY <1>0, <1>1 DEF RowsKept, Ids
<1>4. AnswersStand(r, n)'
  <2> SUFFICES ASSUME NEW i \in Nat
               PROVE  /\ <<r, n, i>> \in yes' => i \in Ids(r, n)
                      /\ <<r, n, i>> \in settled' =>
                           /\ i \in Ids(r, n) /\ steps'[r][n][i].status = "succeeded"
                           /\ ~Tapped(r, n, i)'
                           /\ tick'.run = r /\ tick'.view[n].id = i => tick'.view[n].status = "succeeded"
    BY <1>0, <1>2 DEF AnswersStand
  <2> QED BY DEF PairInv, AnswersStand, RowsKept, SnapKept
<1>5. RowsSpent(r, n)'
  <2>1. \A i \in 1 .. l - 1 : i \in Ids(r, n) /\ i \in Nat
    BY <1>0, <1>1 DEF Ids
  <2>2. \A i \in Ids(r, n) : i \in Nat
    BY <1>0, <1>1 DEF Ids
  <2>3. \A i \in 1 .. l - 1 : FailedOrYes(r, n, i)'
    BY <1>0, <2>1 DEF PairInv, RowsSpent, RowsKept, FailedOrYes
  <2>4. l <= 1 + Budget + Yeses(r, n, l - 1)'
    BY <1>0, <1>2 DEF PairInv, RowsSpent
  <2>5. \A i \in Ids(r, n) : Kind[n] = "publish" /\ steps'[r][n][i].status = "succeeded"
          /\ steps'[r][n][i].note # "accepted" => <<r, n, i>> \in yes'
    BY <2>2 DEF PairInv, RowsSpent, RowsKept
  <2> QED BY <1>0, <1>2, <2>3, <2>4, <2>5 DEF RowsSpent
<1>6. /\ NoneOwed(r, n)' <=> NoneOwed(r, n)
      /\ Tapped(r, n, l)' => Tapped(r, n, l)
      /\ <<r, n, l>> \in yes' <=> <<r, n, l>> \in yes
  BY <1>0, <1>1, <1>2 DEF NoneOwed, RowsKept
<1>7. PostsOwed(r, n)'
  <2> SUFFICES ASSUME Kind[n] = "publish" PROVE PostsOwed(r, n)'
    BY DEF PostsOwed
  <2>1. posts'[r][n] <= 1 + unknown'[r][n] + Yeses(r, n, l)
    BY <1>0, <1>2 DEF PairInv, PostsOwed, RowsKept
  <2>2. l > 0 /\ Unsaid(steps'[r][n][l]) =>
          /\ <<r, n, l>> \notin yes' /\ ~Tapped(r, n, l)'
          /\ ~(tick'.run = r /\ At({"accepted"}, n)') => NoneOwed(r, n)'
    BY <1>0, <1>3, <1>6 DEF PairInv, PostsOwed, SnapKept, Unsaid
  <2>3. l > 0 /\ NotSent(steps'[r][n][l]) => NoneOwed(r, n)'
    BY <1>0, <1>3, <1>6 DEF PairInv, PostsOwed, NotSent
  <2>4. l > 0 /\ <<r, n, l>> \in yes' => NoneOwed(r, n)'
    BY <1>0, <1>3, <1>6 DEF PairInv, PostsOwed
  <2>5. Len(steps'[r][n]) = l /\ Yeses(r, n, l)' = Yeses(r, n, l)
    BY <1>2
  <2>6. posts'[r][n] <= 1 + unknown'[r][n] + Yeses(r, n, Len(steps[r][n]))'
    BY <2>1, <2>5
  <2> QED BY <2>2, <2>3, <2>4, <2>5, <2>6 DEF PostsOwed
<1>8. SnapSpent(r, n)'
  <2> SUFFICES ASSUME tick'.run = r
               PROVE  LET v == tick.view[n] IN
                      /\ v.id \in {0, l}
                      /\ l > 0 /\ (v.status = "failed" \/ v.id = 0) => FailedOrYes(r, n, l)'
                      /\ v.id = 0 => l <= Budget + Yeses(r, n, l)
                      /\ Kind[n] = "publish" /\ v.status = "succeeded" /\ v.note # "accepted" => <<r, n, l>> \in yes
                      /\ Retriable(n)' /\ v.id > 0 => l <= 1 + tick.older[n] + Yeses(r, n, l - 1)
                      /\ At({"send", "accepted"}, n)' /\ v.status = "waiting" => v.note # "gate"
    BY <1>0, <1>2, <1>6 DEF SnapSpent, SnapKept, Retriable
  <2>1. tick.run = r
    BY DEF SnapKept
  <2>2. FailedOrYes(r, n, l) /\ l > 0 => FailedOrYes(r, n, l)'
    BY <1>0, <1>3, <1>6 DEF FailedOrYes
  <2>3. At({"send", "accepted"}, n)' => At({"send", "accepted"}, n)
    BY DEF SnapKept, At, AtWork
  <2> QED BY <1>0, <2>1, <2>2, <2>3 DEF PairInv, SnapSpent, SnapKept
<1>9. SnapOwed(r, n)'
  <2> SUFFICES ASSUME tick'.run = r, Kind[n] = "publish"
               PROVE  LET v == tick.view[n] IN
                      /\ v.id = 0 \/ NotSent(v) \/ At({"check", "send", "unsent"}, n)' => NoneOwed(r, n)
                      /\ l > 0 /\ Unsaid(v) => Unsaid(steps'[r][n][l])
                      /\ l > 0 /\ At({"check", "send", "accepted", "unsent"}, n)' /\ v.status = "running" =>
                           /\ steps'[r][n][l].status = "running"
                           /\ <<r, n, l>> \notin yes' /\ ~Tapped(r, n, l)'
    BY <1>0, <1>2, <1>6 DEF SnapOwed, SnapKept
  <2>1. tick.run = r
    BY DEF SnapKept
  <2>2. /\ At({"check", "send", "unsent"}, n)' => At({"check", "send", "unsent"}, n)
        /\ At({"check", "send", "accepted", "unsent"}, n)' => At({"check", "send", "accepted", "unsent"}, n)
    BY DEF SnapKept, At, AtWork
  <2>3. l > 0 /\ Unsaid(steps[r][n][l]) => Unsaid(steps'[r][n][l])
    BY <1>3 DEF Unsaid
  <2> QED BY <1>0, <1>3, <1>6, <2>1, <2>2, <2>3 DEF PairInv, SnapOwed
<1> QED BY <1>4, <1>5, <1>7, <1>8, <1>9 DEF PairInv

-----------------------------------------------------------------------------
(* A tick writes the row it works on *)

\* FinishStep is about one pair.
LEMMA OthersWritten ==
  ASSUME TypeOK, NEW r \in Runs, NEW n \in Nodes, NEW i \in Ids(r, n),
         NEW status \in RowStatus, NEW note \in Note, FinishStep(r, n, i, status, note),
         UNCHANGED rest, NEW q \in Runs, NEW m \in Nodes, ~(q = r /\ m = n)
  PROVE  RowsKept(q, m)
<1>1. /\ Len(steps'[q][m]) = Len(steps[q][m])
      /\ \A k \in Ids(q, m) : /\ steps'[q][m][k].status = steps[q][m][k].status
                              /\ steps'[q][m][k].note = steps[q][m][k].note
  <2>1. steps \in Rows
    BY DEF TypeOK
  <2> QED BY <2>1, RowWritten
<1> QED BY <1>1 DEF RowsKept, Tapped, rest, founder

\* The tick puts n aside, and the snapshot of the other nodes with it.
Aside(n) ==
  /\ tick'.run = tick.run /\ tick'.older = tick.older
  /\ tick'.pc \notin AtWork /\ tick'.node = None /\ tick'.todo \subseteq tick.todo
  /\ tick.node \in {n, None}
  /\ tick'.pc = "frontier" => InFrontier
  /\ \A m \in Nodes \ {n} : tick'.view[m] = tick.view[m]

LEMMA OthersAside ==
  ASSUME NEW n \in Nodes, Aside(n), NEW q \in Runs, NEW m \in Nodes \ {n}
  PROVE  SnapKept(q, m)
<1>1. m # None /\ tick.node # m /\ tick'.node # m
  BY BoundsAssumption DEF Aside
<1>2. InFrontier' => InFrontier
  BY DEF Aside, InFrontier, AtWork
<1>3. FreshGate(m) => FreshGate(m)'
  BY <1>1 DEF FreshGate, At, Aside
<1>4. Retriable(m)' => Retriable(m)
  BY <1>2, <1>3 DEF Retriable
<1> QED BY <1>1, <1>4 DEF SnapKept, Aside, At

\* The snapshot follows the row that is written, or keeps it for a step under way.
Follows(n, status, note) ==
  /\ tick'.view[n].id = tick.view[n].id
  /\ \/ tick'.view[n].status = status /\ tick'.view[n].note = note
     \/ tick'.view[n] = tick.view[n] /\ tick.view[n].status = "running" /\ tick'.pc = "start"

\* What the tick may write: to a publish a success with a post, a park or a refusal to
\* send where none is owed, and in section 2 nothing to a gate it has just opened.
MayWrite(n, status, note) ==
  /\ tick.view[n].status \notin {"none", "succeeded"}
  /\ Kind[n] = "publish" /\ status = "succeeded" => note = "accepted"
  /\ Kind[n] = "publish" /\ status = "waiting" /\ note # "gate" =>
       At({"check"}, n) /\ tick.view[n].status = "running"
  /\ Kind[n] = "publish" /\ status = "failed" /\ note = "not_sent" => At({"send", "unsent"}, n)
  /\ FreshGate(n) /\ tick'.pc = "frontier" =>
       status = "waiting" /\ note = "gate" /\ n \notin tick'.todo

LEMMA PairWritten ==
  ASSUME RunnerInv, NEW r \in Runs, tick.run = r, NEW n \in Nodes, PairInv(r, n),
         NEW status \in RowStatus, NEW note \in Note,
         FinishStep(r, n, tick.view[n].id, status, note), UNCHANGED rest,
         Aside(n), Follows(n, status, note), MayWrite(n, status, note)
  PROVE  PairInv(r, n)'
<1>0. PICK l : l = Len(steps[r][n])
  OBVIOUS
<1>1. TypeOK /\ TickInv /\ r # None
  BY BoundsAssumption DEF RunnerInv
<1>2. l \in Nat /\ l \in Int /\ l - 1 \in Int
  BY <1>0, <1>1, RowsAreRows DEF TypeOK
<1>3. tick.view[n].id = l /\ l > 0 /\ l \in Ids(r, n)
  <2>1. tick.view[n].id \in Ids(r, n)
    BY <1>1, ViewNamesRow DEF MayWrite
  <2>2. tick.view[n].id \in {0, l}
    BY <1>0 DEF PairInv, SnapSpent
  <2> QED BY <1>0, <1>2, <2>1, <2>2 DEF Ids
<1>4. /\ Len(steps'[r][n]) = l
      /\ \A k \in Ids(r, n) :
           /\ steps'[r][n][k].status = IF k = l THEN status ELSE steps[r][n][k].status
           /\ steps'[r][n][k].note = IF k = l THEN note ELSE steps[r][n][k].note
  <2>1. steps \in Rows
    BY <1>1 DEF TypeOK
  <2>2. FinishStep(r, n, l, status, note)
    BY <1>3
  <2> QED BY <1>0, <1>3, <2>1, <2>2, RowWritten
<1>5. Ids(r, n)' = Ids(r, n) /\ \A k \in Ids(r, n) : k \in Nat
  BY <1>0, <1>2, <1>4 DEF Ids
<1>6. UNCHANGED <<yes, settled, inflight, posts, unknown>>
  BY DEF rest, founder
<1>7. \A k : Yeses(r, n, k)' = Yeses(r, n, k)
  BY <1>6 DEF Yeses
<1>8. /\ NoneOwed(r, n)' <=> NoneOwed(r, n)
      /\ \A k : Tapped(r, n, k)' <=> Tapped(r, n, k)
  BY <1>0, <1>4, <1>6, <1>7 DEF NoneOwed, Tapped
<1>9. <<r, n, l>> \notin settled
  BY <1>2, <1>3 DEF MayWrite, PairInv, AnswersStand
<1>10. tick'.run = r /\ tick'.pc \notin AtWork
  BY DEF Aside
<1>11. AnswersStand(r, n)'
  <2> SUFFICES ASSUME NEW i \in Nat
               PROVE  /\ <<r, n, i>> \in yes => i \in Ids(r, n)
                      /\ <<r, n, i>> \in settled =>
                           /\ i \in Ids(r, n) /\ steps'[r][n][i].status = "succeeded"
                           /\ ~Tapped(r, n, i)
                           /\ tick'.view[n].id = i => tick'.view[n].status = "succeeded"
    BY <1>5, <1>6, <1>8 DEF AnswersStand
  <2> QED BY <1>3, <1>4, <1>9 DEF PairInv, AnswersStand, Follows
<1>12. RowsSpent(r, n)'
  <2>1. \A i \in 1 .. l - 1 : i \in Ids(r, n) /\ i # l
    BY <1>0, <1>2 DEF Ids
  <2>2. \A i \in 1 .. l - 1 : FailedOrYes(r, n, i)'
    BY <1>0, <1>4, <1>6, <2>1 DEF PairInv, RowsSpent, FailedOrYes
  <2>3. Len(steps'[r][n]) <= 1 + Budget + Yeses(r, n, Len(steps[r][n]) - 1)'
    BY <1>0, <1>4, <1>7 DEF PairInv, RowsSpent
  <2>4. \A i \in Ids(r, n) : Kind[n] = "publish" /\ steps'[r][n][i].status = "succeeded"
          /\ steps'[r][n][i].note # "accepted" => <<r, n, i>> \in yes'
    BY <1>4, <1>6 DEF PairInv, RowsSpent, MayWrite
  <2> QED BY <1>4, <1>5, <2>2, <2>3, <2>4 DEF RowsSpent
<1>13. Kind[n] = "publish" =>
         /\ Unsaid(steps'[r][n][l]) => /\ NoneOwed(r, n) /\ <<r, n, l>> \notin yes /\ ~Tapped(r, n, l)
         /\ NotSent(steps'[r][n][l]) => NoneOwed(r, n)
  BY <1>0, <1>3, <1>4 DEF PairInv, SnapOwed, MayWrite, Unsaid, NotSent, At
<1>14. PostsOwed(r, n)'
  <2> SUFFICES ASSUME Kind[n] = "publish" PROVE PostsOwed(r, n)'
    BY DEF PostsOwed
  <2>1. posts'[r][n] <= 1 + unknown'[r][n] + Yeses(r, n, Len(steps[r][n]))'
    BY <1>0, <1>4, <1>6, <1>7 DEF PairInv, PostsOwed
  <2>2. <<r, n, l>> \in yes' => NoneOwed(r, n)'
    BY <1>0, <1>3, <1>6, <1>8 DEF PairInv, PostsOwed
  <2> QED BY <1>4, <1>6, <1>8, <1>13, <2>1, <2>2 DEF PostsOwed
<1>15. SnapSpent(r, n)'
  <2> DEFINE v == tick'.view[n]
  <2>1. v.id = l
    BY <1>3 DEF Follows
  <2>2. v.status = "failed" => steps'[r][n][l].status = "failed"
    BY <1>3, <1>4 DEF Follows
  <2>3. Kind[n] = "publish" /\ v.status = "succeeded" => v.note = "accepted"
    BY DEF Follows, MayWrite
  <2>4. Retriable(n)' => Retriable(n)
    <3>1. InFrontier' => InFrontier /\ tick'.pc = "frontier"
      BY DEF Aside, InFrontier, AtWork
    <3>2. FreshGate(n) /\ tick'.pc = "frontier" => FreshGate(n)'
      BY DEF FreshGate, MayWrite, Follows
    <3> QED BY <3>1, <3>2 DEF Retriable
  <2>5. Retriable(n) => l <= 1 + tick.older[n] + Yeses(r, n, l - 1)
    BY <1>0, <1>3 DEF PairInv, SnapSpent
  <2>6. ~At({"send", "accepted"}, n)'
    BY <1>10 DEF At, AtWork
  <2>7. Yeses(r, n, l - 1)' = Yeses(r, n, l - 1) /\ tick'.older[n] = tick.older[n]
    BY <1>7 DEF Aside
  <2>8. Retriable(n)' => l <= 1 + tick'.older[n] + Yeses(r, n, l - 1)'
    BY <2>4, <2>5, <2>7
  <2> HIDE DEF v
  <2>9. v.id = Len(steps'[r][n]) /\ v.id # 0
    BY <1>2, <1>3, <1>4, <2>1
  <2>10. v.status = "failed" => FailedOrYes(r, n, Len(steps[r][n]))'
    BY <1>4, <2>2 DEF FailedOrYes
  <2>11. Retriable(n)' => Len(steps'[r][n]) <= 1 + tick'.older[n] + Yeses(r, n, Len(steps[r][n]) - 1)'
    BY <1>4, <2>8
  <2> QED BY <2>3, <2>6, <2>9, <2>10, <2>11 DEF SnapSpent, v
<1>16. SnapOwed(r, n)'
  <2> SUFFICES ASSUME Kind[n] = "publish" PROVE SnapOwed(r, n)'
    BY DEF SnapOwed
  <2>1. tick'.view[n].id # 0
    BY <1>3 DEF Follows
  <2>2. ~At({"check", "send", "unsent"}, n)' /\ ~At({"check", "send", "accepted", "unsent"}, n)'
    BY <1>10 DEF At, AtWork
  <2>3. NotSent(tick'.view[n]) => NotSent(steps'[r][n][l])
    BY <1>3, <1>4 DEF Follows, NotSent
  <2>4. Unsaid(tick'.view[n]) => Unsaid(steps'[r][n][l])
    BY <1>3, <1>4 DEF Follows, Unsaid
  <2> QED BY <1>4, <1>8, <1>13, <2>1, <2>2, <2>3, <2>4 DEF SnapOwed
<1> QED BY <1>11, <1>12, <1>14, <1>15, <1>16 DEF PairInv

\* What a tick writes keeps what is known of every pair.
LEMMA WriteKeeps ==
  ASSUME RunnerInv, BudgetInv, tick.run # None, NEW n \in Nodes,
         NEW status \in RowStatus, NEW note \in Note,
         FinishStep(tick.run, n, tick.view[n].id, status, note), UNCHANGED rest,
         Aside(n), Follows(n, status, note), MayWrite(n, status, note)
  PROVE  BudgetInv'
<1>0. PICK r : r = tick.run
  OBVIOUS
<1>1. TypeOK /\ TickInv
  BY DEF RunnerInv
<1>2. r \in Runs /\ tick.view[n].id \in Ids(r, n)
  BY <1>0, <1>1, ViewNamesRow DEF MayWrite
<1>3. FinishStep(r, n, tick.view[n].id, status, note) /\ PairInv(r, n) /\ tick.run = r
  BY <1>0, <1>2 DEF BudgetInv
<1>4. PairInv(r, n)'
  BY <1>2, <1>3, PairWritten
<1>5. ASSUME NEW q \in Runs, NEW m \in Nodes, ~(q = r /\ m = n)
      PROVE  PairInv(q, m)'
  <2>1. RowsKept(q, m)
    BY <1>1, <1>2, <1>3, <1>5, OthersWritten
  <2>2. SnapKept(q, m)
    <3>1. CASE m # n
      BY <3>1, OthersAside
    <3>2. CASE m = n
      BY <3>2, <1>3, <1>5 DEF SnapKept, Aside
    <3> QED BY <3>1, <3>2
  <2> QED BY <1>1, <2>1, <2>2, PairStays DEF BudgetInv
<1> QED BY <1>4, <1>5 DEF BudgetInv


\* Sections 2 and 3 write a row, and the snapshot follows.
LEMMA SeenKeeps ==
  ASSUME RunnerInv, BudgetInv, tick.run # None, NEW n \in Nodes, tick.node \in {n, None},
         NEW status \in RowStatus, NEW note \in Note, NEW pc \in {"frontier", "skip"},
         FinishStep(tick.run, n, tick.view[n].id, status, note), UNCHANGED rest,
         tick' = Seen(pc, n, status, note), pc = "frontier" => InFrontier,
         MayWrite(n, status, note)
  PROVE  BudgetInv'
<1>1. TypeOK /\ pc \in TickPc /\ pc \notin AtWork
  BY DEF RunnerInv, TickPc, AtWork
<1>2. /\ tick'.pc = pc /\ tick'.run = tick.run /\ tick'.todo = tick.todo \ {n} /\ tick'.node = None
      /\ tick'.older = tick.older
      /\ tick'.view[n].id = tick.view[n].id /\ tick'.view[n].status = status
      /\ tick'.view[n].note = note
      /\ \A m \in Nodes \ {n} : tick'.view[m] = tick.view[m]
  BY <1>1, SeenIs
<1>3. Aside(n)
  BY <1>1, <1>2 DEF Aside
<1>4. Follows(n, status, note)
  BY <1>2 DEF Follows
<1> QED BY <1>3, <1>4, WriteKeeps

\* Section 4 writes the row of its node.
LEMMA HandledKeeps ==
  ASSUME RunnerInv, BudgetInv, tick.run # None, NEW n \in Nodes, tick.node = n,
         NEW status \in RowStatus, NEW note \in Note,
         FinishStep(tick.run, n, tick.view[n].id, status, note), UNCHANGED rest,
         tick' = Handled("start", n), tick.view[n].status = "running", MayWrite(n, status, note)
  PROVE  BudgetInv'
<1>1. TypeOK /\ "start" \in TickPc /\ "start" \notin AtWork
  BY DEF RunnerInv, TickPc, AtWork
<1>2. /\ tick'.pc = "start" /\ tick'.run = tick.run /\ tick'.todo = tick.todo \ {n}
      /\ tick'.node = None /\ tick'.older = tick.older /\ tick'.view = tick.view
  BY <1>1, HandledIs
<1>3. Aside(n)
  BY <1>1, <1>2 DEF Aside
<1>4. Follows(n, status, note)
  BY <1>2 DEF Follows
<1> QED BY <1>3, <1>4, WriteKeeps

\* A step that writes nothing keeps the table of every pair.
LEMMA NothingWritten ==
  ASSUME UNCHANGED <<steps, yes, settled, inflight, posts, unknown>>,
         NEW q \in Runs, NEW m \in Nodes
  PROVE  RowsKept(q, m)
BY DEF RowsKept, Tapped, Ids

\* A node is put aside with nothing written.
LEMMA AsideKeeps ==
  ASSUME RunnerInv, BudgetInv, NEW n \in Nodes, NEW pc \in {"frontier", "start"},
         tick' = Handled(pc, n), tick.pc \notin {"gate", "accepted"}, tick.node \in {n, None},
         pc = "frontier" => InFrontier, UNCHANGED <<steps, rest>>
  PROVE  BudgetInv'
<1>1. TypeOK /\ TickInv /\ pc \in TickPc /\ pc \notin AtWork
  BY DEF RunnerInv, TickPc, AtWork
<1>2. /\ tick'.pc = pc /\ tick'.run = tick.run /\ tick'.todo = tick.todo \ {n} /\ tick'.node = None
      /\ tick'.older = tick.older /\ tick'.view = tick.view
  BY <1>1, HandledIs
<1>3. ASSUME NEW q \in Runs, NEW m \in Nodes
      PROVE  PairInv(q, m)'
  <2>1. RowsKept(q, m)
    BY NothingWritten DEF rest, founder
  <2>2. InFrontier' => InFrontier
    BY <1>1, <1>2 DEF InFrontier, AtWork
  <2>3. FreshGate(m) => FreshGate(m)'
    BY <1>2 DEF FreshGate, At
  <2>4. SnapKept(q, m)
    BY <1>1, <1>2, <2>2, <2>3 DEF SnapKept, Retriable, At
  <2> QED BY <1>1, <2>1, <2>4, PairStays DEF BudgetInv
<1> QED BY <1>3 DEF BudgetInv

\* Section 2 and failing fast.
LEMMA FrontierBudget ==
  ASSUME RunnerInv, BudgetInv, NEW n \in Nodes,
         \/ Recover(n) \/ MaintainHarvest(n) \/ MaintainAsk(n) \/ Decline(n) \/ ParkGate(n)
         \/ SkipStraggler(n)
  PROVE  BudgetInv'
<1>1. TypeOK /\ TickInv /\ n # None
  BY BoundsAssumption DEF RunnerInv
<1>2. /\ tick.pc \in {"frontier", "gate", "skip"} /\ tick.run # None
      /\ tick.pc \in {"frontier", "gate"} => InFrontier
      /\ tick.pc # "gate" => tick.node = None
  BY <1>1 DEF Recover, MaintainHarvest, MaintainAsk, Decline, ParkGate, SkipStraggler, TickInv,
              Between, Agenda, AtWork, InFrontier
<1>3. tick.pc # "gate" => ~At({"gate"}, n) /\ tick.node \in {n, None}
  BY <1>2 DEF At
<1>4. UNCHANGED rest
  BY DEF Recover, MaintainHarvest, MaintainAsk, Decline, ParkGate, SkipStraggler, rest
<1>5. CASE Recover(n)
  <2>1. tick.pc = "frontier" /\ tick.view[n].status = "running"
    BY <1>5 DEF Recover, Stale, ViewIs
  <2>2. MayWrite(n, "failed", "stale")
    BY <1>3, <2>1 DEF MayWrite, FreshGate
  <2> QED BY <1>2, <1>3, <1>4, <1>5, <2>1, <2>2, SeenKeeps DEF Recover, RowStatus, Note
<1>6. CASE MaintainHarvest(n)
  <2>1. tick.pc = "frontier" /\ tick.view[n].status = "waiting" /\ n \in tick.todo /\ Kind[n] = "harvest"
    BY <1>1, <1>6 DEF MaintainHarvest, TickInv, Agenda, InFrontier, Of
  <2>2. MayWrite(n, "succeeded", "none")
    BY <1>3, <2>1 DEF MayWrite, FreshGate
  <2>3. CASE FinishStep(tick.run, n, tick.view[n].id, "succeeded", "none")
             /\ tick' = Seen("frontier", n, "succeeded", "none")
    BY <1>2, <1>3, <1>4, <2>1, <2>2, <2>3, SeenKeeps DEF RowStatus, Note
  <2>4. CASE tick' = Handled("frontier", n) /\ UNCHANGED <<steps, done>>
    BY <1>2, <1>3, <1>4, <2>1, <2>4, AsideKeeps
  <2> QED BY <1>6, <2>3, <2>4 DEF MaintainHarvest
<1>7. CASE MaintainAsk(n)
  <2>1. tick.pc = "frontier" /\ tick.view[n].status = "waiting" /\ n \in tick.todo
    BY <1>1, <1>7 DEF MaintainAsk, TickInv, Agenda, InFrontier
  <2>2. TimedOut(n) \in {"skipped", "failed"}
    BY DEF TimedOut
  <2>3. MayWrite(n, TimedOut(n), "refused")
    BY <1>3, <2>1, <2>2 DEF MayWrite, FreshGate
  <2>4. CASE FinishStep(tick.run, n, tick.view[n].id, TimedOut(n), "refused")
             /\ tick' = Seen("frontier", n, TimedOut(n), "refused")
    BY <1>2, <1>3, <1>4, <2>1, <2>2, <2>3, <2>4, SeenKeeps DEF RowStatus, Note
  <2>5. CASE tick' = Handled("frontier", n) /\ UNCHANGED <<steps, done>>
    BY <1>2, <1>3, <1>4, <2>1, <2>5, AsideKeeps
  <2> QED BY <1>7, <2>4, <2>5 DEF MaintainAsk
<1>8. CASE Decline(n)
  <2>1. tick.pc = "frontier" /\ tick.view[n].status = "failed"
    BY <1>8 DEF Decline, Declined, ViewIs
  <2>2. MayWrite(n, "skipped", "none")
    BY <1>3, <2>1 DEF MayWrite, FreshGate
  <2> QED BY <1>2, <1>3, <1>4, <1>8, <2>1, <2>2, SeenKeeps DEF Decline, RowStatus, Note
<1>9. CASE ParkGate(n)
  <2>1. tick.pc = "gate" /\ n = tick.node /\ tick.view[n].status = "running" /\ tick.todo = {}
    BY <1>1, <1>9 DEF ParkGate, TickInv, AtANode, AtWork, Agenda
  <2>2. tick'.todo = {}
    <3>1. "waiting" \in RowStatus /\ "gate" \in Note /\ "frontier" \in TickPc
      BY DEF RowStatus, Note, TickPc
    <3>2. tick' = Seen("frontier", n, "waiting", "gate")
      BY <1>9 DEF ParkGate
    <3> QED BY <1>1, <2>1, <3>1, <3>2, SeenIs
  <2>3. MayWrite(n, "waiting", "gate")
    BY <2>1, <2>2 DEF MayWrite
  <2> QED BY <1>2, <1>4, <1>9, <2>1, <2>3, SeenKeeps DEF ParkGate, RowStatus, Note
<1>10. CASE SkipStraggler(n)
  <2>1. tick.pc = "skip" /\ tick.view[n].status = "waiting"
    BY <1>1, <1>10 DEF SkipStraggler, TickInv, Agenda
  <2>2. tick'.pc = "skip"
    <3>1. "skipped" \in RowStatus /\ "none" \in Note /\ "skip" \in TickPc
      BY DEF RowStatus, Note, TickPc
    <3>2. tick' = Seen("skip", n, "skipped", "none")
      BY <1>10 DEF SkipStraggler
    <3> QED BY <1>1, <3>1, <3>2, SeenIs
  <2>3. MayWrite(n, "skipped", "none")
    BY <2>1, <2>2 DEF MayWrite
  <2> QED BY <1>2, <1>3, <1>4, <1>10, <2>1, <2>3, SeenKeeps DEF SkipStraggler, RowStatus, Note
<1> QED BY <1>5, <1>6, <1>7, <1>8, <1>9, <1>10


\* Section 4: an artifact, a parked step, a publish over the cap, the record of a post or
\* of an effect, and what is refused before it is sent or done.
LEMMA StartBudget ==
  ASSUME RunnerInv, BudgetInv, NEW n \in Nodes,
         \/ RunTask(n) \/ Park(n) \/ RecordUnsent(n) \/ RecordActed(n)
         \/ (Act(n) \/ CheckChannel(n)) /\ tick' = Handled("start", n)
         \/ (RefuseContent(n) \/ RecordAccepted(n)) /\ ~Deferred(n)
  PROVE  BudgetInv'
<1>1. TypeOK /\ TickInv
  BY DEF RunnerInv
<1>2. /\ tick.pc \in {"task", "park", "unsent", "acted", "act", "check", "send", "accepted"}
      /\ tick.node = n
  BY DEF RunTask, Park, RecordUnsent, RecordActed, Act, CheckChannel, RefuseContent, RecordAccepted
<1>3. /\ tick.run # None /\ Kind[n] \in KindOf(tick.pc) /\ tick.view[n].status = "running"
  <2>1. tick.run # None /\ tick.pc \in AtWork
    BY <1>1, <1>2 DEF TickInv, Between, AtWork
  <2>2. Kind[n] \in KindOf(tick.pc) /\ tick.view[n].status \in {"running", "waiting"}
        /\ (tick.pc \notin {"send", "accepted"} => tick.view[n].status = "running")
    BY <1>1, <1>2, <2>1 DEF TickInv, AtANode
  <2>3. tick.pc \in {"send", "accepted"} => ~Deferred(n)
    BY DEF RunTask, Park, RecordUnsent, RecordActed, Act, CheckChannel, RefuseContent, RecordAccepted
  <2> QED BY <2>1, <2>2, <2>3 DEF Deferred
<1>4. tick' = Handled("start", n)
  BY DEF RunTask, Park, RecordUnsent, RecordActed, RefuseContent, RecordAccepted
<1>5. tick'.pc = "start"
  BY <1>1, <1>4 DEF Handled, TypeOK, Tick
<1>6. UNCHANGED rest
  <2>1. CASE Act(n)
    <3>1. [tick EXCEPT !.pc = "acted"].pc = "acted"
      BY <1>1 DEF TypeOK, Tick
    <3> QED BY <1>5, <2>1, <3>1 DEF Act, rest
  <2>2. CASE ~Act(n)
    BY <2>2 DEF RunTask, Park, RecordUnsent, RecordActed, CheckChannel, RefuseContent, RecordAccepted,
                rest
  <2> QED BY <2>1, <2>2
<1>7. PICK status \in RowStatus, note \in Note :
        /\ FinishStep(tick.run, n, tick.view[n].id, status, note)
        /\ Kind[n] = "publish" /\ status = "succeeded" => note = "accepted"
        /\ Kind[n] = "publish" /\ status = "waiting" /\ note # "gate" => tick.pc = "check"
        /\ Kind[n] = "publish" /\ status = "failed" /\ note = "not_sent" => tick.pc \in {"send", "unsent"}
  <2>1. "succeeded" \in RowStatus /\ "failed" \in RowStatus /\ "waiting" \in RowStatus
    BY DEF RowStatus
  <2>2. "none" \in Note /\ "accepted" \in Note /\ "not_sent" \in Note /\ "parked" \in Note
    BY DEF Note
  <2>3. CASE RunTask(n)
    <3>1. PICK status \in {"succeeded", "failed"} :
            FinishStep(tick.run, n, tick.view[n].id, status, "none") /\ tick.pc = "task"
      BY <2>3 DEF RunTask
    <3>2. Kind[n] # "publish"
      BY <1>3, <3>1 DEF KindOf
    <3> QED BY <2>1, <2>2, <3>1, <3>2
  <2>4. CASE Park(n)
    <3>1. FinishStep(tick.run, n, tick.view[n].id, "waiting", "none") /\ Kind[n] # "publish"
      BY <1>3, <2>4 DEF Park, KindOf
    <3> QED BY <2>1, <2>2, <3>1
  <2>5. CASE RecordUnsent(n) \/ RefuseContent(n)
    <3>1. FinishStep(tick.run, n, tick.view[n].id, "failed", "not_sent") /\ tick.pc \in {"send", "unsent"}
      BY <2>5 DEF RecordUnsent, RefuseContent
    <3> QED BY <2>1, <2>2, <3>1
  <2>6. CASE RecordActed(n)
    <3>1. FinishStep(tick.run, n, tick.view[n].id, "succeeded", "none") /\ Kind[n] # "publish"
      BY <1>3, <2>6 DEF RecordActed, KindOf
    <3> QED BY <2>1, <2>2, <3>1
  <2>7. CASE Act(n)
    <3>1. FinishStep(tick.run, n, tick.view[n].id, "failed", "none") /\ Kind[n] # "publish"
      <4>1. tick'.pc # "acted"
        BY <1>5
      <4>2. [tick EXCEPT !.pc = "acted"].pc = "acted"
        BY <1>1 DEF TypeOK, Tick
      <4>3. Kind[n] # "publish"
        BY <1>3, <2>7 DEF Act, KindOf
      <4> QED BY <2>7, <4>1, <4>2, <4>3 DEF Act
    <3> QED BY <2>1, <2>2, <3>1
  <2>8. CASE CheckChannel(n)
    <3>1. FinishStep(tick.run, n, tick.view[n].id, "waiting", "parked") /\ tick.pc = "check"
      <4>1. tick'.pc # "send"
        BY <1>5
      <4>2. [tick EXCEPT !.pc = "send"].pc = "send"
        BY <1>1 DEF TypeOK, Tick
      <4> QED BY <2>8, <4>1, <4>2 DEF CheckChannel
    <3> QED BY <2>1, <2>2, <3>1
  <2>9. CASE RecordAccepted(n)
    <3>1. FinishStep(tick.run, n, tick.view[n].id, "succeeded", "accepted")
      BY <2>9 DEF RecordAccepted
    <3> QED BY <2>1, <2>2, <3>1
  <2> QED BY <2>3, <2>4, <2>5, <2>6, <2>7, <2>8, <2>9
<1>8. MayWrite(n, status, note)
  BY <1>2, <1>3, <1>5, <1>7 DEF MayWrite, At
<1> QED BY <1>2, <1>3, <1>6, <1>4, <1>7, <1>8, HandledKeeps

\* A parked publish is recorded or refused in section 2, or looked at another day.
LEMMA DeferredBudget ==
  ASSUME RunnerInv, BudgetInv, NEW n \in Nodes,
         \/ (RefuseContent(n) \/ RecordAccepted(n)) /\ Deferred(n)
         \/ MaintainParked(n) /\ tick' = Handled("frontier", n)
  PROVE  BudgetInv'
<1>1. TypeOK /\ TickInv
  BY DEF RunnerInv
<1>2. CASE MaintainParked(n) /\ tick' = Handled("frontier", n)
  <2>1. tick.pc = "frontier" /\ tick.node = None /\ InFrontier
    BY <1>1, <1>2 DEF MaintainParked, TickInv, Agenda, AtWork, InFrontier
  <2>2. UNCHANGED <<steps, rest>>
    BY <1>2 DEF MaintainParked, rest, record, founder, history
  <2> QED BY <1>2, <2>1, <2>2, AsideKeeps
<1>3. CASE (RefuseContent(n) \/ RecordAccepted(n)) /\ Deferred(n)
  <2>1. /\ tick.pc \in {"send", "accepted"} /\ tick.node = n /\ tick.view[n].status = "waiting"
        /\ tick.run # None /\ tick.run \in Runs
    BY <1>1, <1>3 DEF RefuseContent, RecordAccepted, Deferred, TickInv, Between, TypeOK, Tick
  <2>2. InFrontier /\ UNCHANGED rest
    BY <1>3, <2>1 DEF InFrontier, RefuseContent, RecordAccepted, rest
  <2>3. tick.view[n].note # "gate"
    BY <2>1 DEF BudgetInv, PairInv, SnapSpent, At
  <2>4. ~FreshGate(n)
    BY <2>1, <2>3 DEF FreshGate, At
  <2>5. CASE RefuseContent(n)
    <3>1. MayWrite(n, "failed", "not_sent")
      BY <2>1, <2>4, <2>5 DEF MayWrite, At, RefuseContent
    <3> QED BY <1>3, <2>1, <2>2, <2>5, <3>1, SeenKeeps DEF RefuseContent, RowStatus, Note
  <2>6. CASE RecordAccepted(n)
    <3>1. MayWrite(n, "succeeded", "accepted")
      BY <2>1, <2>4 DEF MayWrite
    <3> QED BY <1>3, <2>1, <2>2, <2>6, <3>1, SeenKeeps DEF RecordAccepted, RowStatus, Note
  <2> QED BY <1>3, <2>5, <2>6
<1> QED BY <1>2, <1>3
-----------------------------------------------------------------------------
(* A tick turns to a node *)

\* Nothing is written, the snapshot stays, and the tick goes on to another step of n.
LEMMA SendBudget ==
  ASSUME RunnerInv, BudgetInv, NEW n \in Nodes,
         \/ MaintainParked(n) /\ Working("send", n)
         \/ CheckChannel(n) /\ tick' = [tick EXCEPT !.pc = "send"]
  PROVE  BudgetInv'
<1>0. PICK r : r = tick.run
  OBVIOUS
<1>1. TypeOK /\ TickInv /\ tick \in Tick /\ n # None
  BY BoundsAssumption DEF RunnerInv, TypeOK
<1>2. /\ tick.pc \in {"frontier", "check"} /\ tick.run # None /\ r \in Runs
      /\ Kind[n] = "publish"
      /\ tick.pc = "frontier" => tick.node = None
  BY <1>0, <1>1 DEF MaintainParked, CheckChannel, TickInv, Between, Agenda, AtWork, Of, Tick, AtANode, KindOf
<1>3. /\ tick'.pc = "send" /\ tick'.run = r /\ tick'.todo = tick.todo /\ tick'.view = tick.view
      /\ tick'.older = tick.older /\ tick'.node = n
  BY <1>0, <1>1 DEF Working, CheckChannel, Tick
<1>4. UNCHANGED <<steps, yes, settled, inflight, posts, unknown>>
  <2>1. CASE MaintainParked(n)
    BY <2>1 DEF MaintainParked, record, founder, history
  <2>2. CASE CheckChannel(n) /\ tick' = [tick EXCEPT !.pc = "send"]
    <3>1. Handled("start", n).pc = "start" /\ tick'.pc = "send"
      BY <2>2, <1>1 DEF Handled, Tick
    <3> QED BY <2>2, <3>1 DEF CheckChannel, founder
  <2> QED BY <2>1, <2>2
<1>5. /\ tick.pc = "frontier" => tick.view[n].status = "waiting" /\ tick.view[n].note # "gate"
      /\ tick.pc = "check" => tick.view[n].status = "running" /\ tick.node = n
  <2>1. CASE MaintainParked(n)
    BY <1>1, <2>1 DEF MaintainParked, IsGate, TickInv, Agenda, InFrontier, Of
  <2>2. CASE CheckChannel(n)
    BY <1>1, <2>2 DEF CheckChannel, TickInv, AtANode, AtWork
  <2> QED BY <2>1, <2>2
<1>6. (InFrontier' <=> tick.pc = "frontier") /\ (InFrontier <=> tick.pc = "frontier")
  BY <1>2, <1>3, <1>5 DEF InFrontier
<1>7. \A m \in Nodes : FreshGate(m)' <=> FreshGate(m)
  BY <1>2, <1>3 DEF FreshGate, At
<1>8. \A m \in Nodes : Retriable(m)' => Retriable(m)
  BY <1>6, <1>7 DEF Retriable
<1>9. ASSUME NEW q \in Runs, NEW m \in Nodes, ~(q = r /\ m = n)
      PROVE  PairInv(q, m)'
  <2>1. RowsKept(q, m)
    BY <1>4, NothingWritten
  <2>2. SnapKept(q, m)
    BY <1>0, <1>2, <1>3, <1>8, <1>9 DEF SnapKept, At
  <2> QED BY <1>1, <2>1, <2>2, PairStays DEF BudgetInv
<1>10. PairInv(r, n)'
  <2> DEFINE l == Len(steps[r][n])
  <2>1. PairInv(r, n)
    BY <1>2 DEF BudgetInv
  <2>2. l > 0
    <3>1. tick.view[n].id \in Ids(r, n)
      BY <1>0, <1>1, <1>2, <1>5, ViewNamesRow
    <3>2. l \in Nat
      BY <1>1, <1>2, RowsAreRows DEF TypeOK
    <3> QED BY <3>1, <3>2 DEF Ids
  <2>3. NoneOwed(r, n)
    <3>1. CASE tick.pc = "check"
      BY <1>0, <1>2, <1>5, <2>1, <3>1 DEF PairInv, SnapOwed, At
    <3>2. CASE tick.pc = "frontier"
      <4>1. Unsaid(steps[r][n][l])
        BY <1>0, <1>2, <1>5, <2>1, <2>2, <3>2 DEF PairInv, SnapOwed, Unsaid
      <4> QED BY <1>2, <2>1, <2>2, <3>2, <4>1 DEF PairInv, PostsOwed, At
    <3> QED BY <1>2, <3>1, <3>2
  <2>4. \A k : Yeses(r, n, k)' = Yeses(r, n, k) /\ (Tapped(r, n, k)' <=> Tapped(r, n, k))
    BY <1>4 DEF Yeses, Tapped
  <2>5. NoneOwed(r, n)'
    BY <1>4, <2>3, <2>4 DEF NoneOwed
  <2>6. AnswersStand(r, n)'
    BY <1>0, <1>3, <1>4, <2>1, <2>4 DEF PairInv, AnswersStand, Ids
  <2>7. RowsSpent(r, n)'
    BY <1>4, <2>1, <2>4 DEF PairInv, RowsSpent, FailedOrYes, Ids
  <2>8. PostsOwed(r, n)'
    BY <1>4, <2>1, <2>4, <2>5 DEF PairInv, PostsOwed
  <2>9. SnapSpent(r, n)'
    BY <1>0, <1>2, <1>3, <1>4, <1>5, <1>8, <2>1, <2>4 DEF PairInv, SnapSpent, FailedOrYes
  <2>10. SnapOwed(r, n)'
    BY <1>0, <1>2, <1>3, <1>4, <1>5, <2>1, <2>4, <2>5 DEF PairInv, SnapOwed, At
  <2> QED BY <2>6, <2>7, <2>8, <2>9, <2>10 DEF PairInv
<1> QED BY <1>9, <1>10 DEF BudgetInv

-----------------------------------------------------------------------------
(* A tick leaves a run, reads one, and calls the scheduler *)

\* Nothing is written and nobody answers: the table says what it said.
LEMMA TableStays ==
  ASSUME UNCHANGED <<steps, yes, settled, inflight>>, NEW r \in Runs, NEW n \in Nodes,
         PairInv(r, n),
         \A i \in Ids(r, n) : <<r, n, i>> \in settled /\ tick'.run = r /\ tick'.view[n].id = i =>
           tick'.view[n].status = "succeeded"
  PROVE  /\ AnswersStand(r, n)' /\ RowsSpent(r, n)'
         /\ \A k : Yeses(r, n, k)' = Yeses(r, n, k) /\ (Tapped(r, n, k)' <=> Tapped(r, n, k))
<1>1. \A k : Yeses(r, n, k)' = Yeses(r, n, k) /\ (Tapped(r, n, k)' <=> Tapped(r, n, k))
  BY DEF Yeses, Tapped
<1>2. AnswersStand(r, n)'
  BY <1>1 DEF PairInv, AnswersStand, Ids
<1>3. RowsSpent(r, n)'
  BY <1>1 DEF PairInv, RowsSpent, FailedOrYes, Ids
<1> QED BY <1>1, <1>2, <1>3

\* What the posts of a pair have to satisfy when the tick leaves it.
Accounted(r, n) == Kind[n] = "publish" =>
  LET l == Len(steps[r][n])  row == steps[r][n][Len(steps[r][n])] IN
  /\ posts'[r][n] <= 1 + unknown'[r][n] + Yeses(r, n, l)
  /\ l > 0 /\ (Unsaid(row) \/ NotSent(row) \/ <<r, n, l>> \in yes) =>
       posts'[r][n] <= unknown'[r][n] + Yeses(r, n, l)

LEMMA PairLeft ==
  ASSUME RunnerInv, NEW r \in Runs, NEW n \in Nodes, PairInv(r, n), tick'.run = None,
         UNCHANGED <<steps, yes, settled, inflight>>, Accounted(r, n)
  PROVE  PairInv(r, n)'
<1>1. r # None
  BY BoundsAssumption
<1>2. /\ AnswersStand(r, n)' /\ RowsSpent(r, n)'
      /\ \A k : Yeses(r, n, k)' = Yeses(r, n, k) /\ (Tapped(r, n, k)' <=> Tapped(r, n, k))
  BY <1>1, TableStays
<1>3. PostsOwed(r, n)'
  BY <1>2 DEF PairInv, PostsOwed, NoneOwed, Accounted
<1>4. SnapSpent(r, n)' /\ SnapOwed(r, n)'
  BY <1>1 DEF SnapSpent, SnapOwed
<1> QED BY <1>2, <1>3, <1>4 DEF PairInv

\* A pair whose posts the step does not count, and at which no record is under way.
LEMMA LeftAccounted ==
  ASSUME NEW r \in Runs, NEW n \in Nodes, PairInv(r, n), ~(tick.run = r /\ At({"accepted"}, n)),
         posts'[r][n] = posts[r][n], unknown'[r][n] = unknown[r][n]
  PROVE  Accounted(r, n)
BY DEF PairInv, PostsOwed, NoneOwed, Accounted

\* The row of a fresh publish runs, and nobody has answered it.
LEMMA FreshRow ==
  ASSUME RunnerInv, NEW r \in Runs, NEW n \in Nodes, PairInv(r, n), tick.run = r,
         At({"check", "send", "accepted", "unsent"}, n)
  PROVE  LET l == Len(steps[r][n]) IN
         /\ l \in Nat /\ l > 0 /\ Kind[n] = "publish"
         /\ tick.view[n].status \in {"running", "waiting"}
         /\ tick.view[n].status = "running" =>
              /\ steps[r][n][l].status = "running"
              /\ <<r, n, l>> \notin yes /\ ~Tapped(r, n, l)
<1>1. TypeOK /\ TickInv /\ r # None
  BY BoundsAssumption DEF RunnerInv
<1>2. /\ Kind[n] = "publish" /\ tick.view[n].status \in {"running", "waiting"}
  BY <1>1 DEF TickInv, AtANode, At, AtWork, KindOf
<1>3. Len(steps[r][n]) \in Nat /\ tick.view[n].id \in Ids(r, n)
  BY <1>1, <1>2, RowsAreRows, ViewNamesRow DEF TypeOK
<1>4. Len(steps[r][n]) > 0
  BY <1>3 DEF Ids
<1> QED BY <1>2, <1>3, <1>4 DEF PairInv, SnapOwed

\* The tick leaves a run or is interrupted at it.
LEMMA LeavingBudget ==
  ASSUME RunnerInv, BudgetInv,
         Interrupted \/ TickBegin \/ TickEnd \/ FailRun \/ CloseRun
  PROVE  BudgetInv'
<1>1. TypeOK /\ TickInv /\ tick \in Tick
  BY DEF RunnerInv, TypeOK
<1>2. UNCHANGED <<steps, yes, settled, inflight, posts>>
  BY DEF Interrupted, TickBegin, TickEnd, FailRun, CloseRun, record, founder, history
<1>3. tick'.run = None
  <2>1. CASE TickBegin
    <3>1. PICK exec, parked : tick' = [IdleTick EXCEPT !.pc = "next", !.parked = parked, !.exec = exec]
      BY <2>1 DEF TickBegin
    <3> QED BY <3>1 DEF IdleTick
  <2>2. CASE ~TickBegin
    <3>1. LeaveRun \/ tick' = IdleTick
      BY <2>2 DEF Interrupted, TickEnd, FailRun, CloseRun
    <3> QED BY <1>1, <3>1, LeaveIs
  <2> QED BY <2>1, <2>2
<1>4. CASE tick.pc = "accepted" /\ Interrupted
  <2>0. PICK p, n : p = tick.run /\ n = tick.node
    OBVIOUS
  <2>1. p \in Runs /\ n \in Nodes
    BY <1>1, <1>4, <2>0 DEF Tick, TickInv, Between, AtANode, AtWork
  <2>2. unknown' = IF Deferred(n) THEN [unknown EXCEPT ![p][n] = @ + 1] ELSE unknown
    BY <1>4, <2>0 DEF Interrupted
  <2>3. /\ \A q \in Runs, m \in Nodes : ~(q = p /\ m = n) => unknown'[q][m] = unknown[q][m]
        /\ unknown'[p][n] = IF Deferred(n) THEN unknown[p][n] + 1 ELSE unknown[p][n]
    <3>1. unknown \in [Runs -> [Nodes -> Nat]]
      BY <1>1 DEF TypeOK
    <3> QED BY <2>1, <2>2, <3>1
  <2>4. Accounted(p, n)
    <3>1. PairInv(p, n) /\ At({"accepted"}, n) /\ At({"check", "send", "accepted", "unsent"}, n)
          /\ tick.run = p
      BY <1>4, <2>0, <2>1 DEF BudgetInv, At
    <3>2. PICK l : l = Len(steps[p][n])
      OBVIOUS
    <3>3. /\ l \in Nat /\ l > 0 /\ tick.view[n].status \in {"running", "waiting"}
          /\ tick.view[n].status = "running" =>
               steps[p][n][l].status = "running" /\ <<p, n, l>> \notin yes
      BY <2>1, <3>1, <3>2, FreshRow
    <3>4. posts[p][n] \in Nat /\ unknown[p][n] \in Nat
      BY <1>1, <2>1 DEF TypeOK
    <3>5. Yeses(p, n, l) \in Nat
      <4>1. l \in Int
        BY <3>3
      <4> QED BY <2>1, <4>1, YesesCount
    <3>6. Kind[n] = "publish" => posts[p][n] <= 1 + unknown[p][n] + Yeses(p, n, l)
      BY <3>1, <3>2 DEF PairInv, PostsOwed
    <3>7. posts'[p][n] = posts[p][n]
      BY <1>2
    <3>8. CASE Deferred(n)
      BY <2>3, <3>2, <3>4, <3>5, <3>6, <3>7, <3>8 DEF Accounted
    <3>9. CASE ~Deferred(n)
      BY <2>3, <3>2, <3>3, <3>6, <3>7, <3>9 DEF Accounted, Unsaid, NotSent, Deferred
    <3> QED BY <3>8, <3>9
  <2>5. ASSUME NEW q \in Runs, NEW m \in Nodes
        PROVE  Accounted(q, m)
    <3>1. CASE q = p /\ m = n
      BY <2>4, <3>1
    <3>2. CASE ~(q = p /\ m = n)
      <4>1. ~(tick.run = q /\ At({"accepted"}, m)) /\ PairInv(q, m)
        BY <2>0, <3>2 DEF At, BudgetInv
      <4>2. posts'[q][m] = posts[q][m] /\ unknown'[q][m] = unknown[q][m]
        BY <1>2, <2>3, <3>2
      <4> QED BY <4>1, <4>2, LeftAccounted
    <3> QED BY <3>1, <3>2
  <2> QED BY <1>2, <1>3, <2>5, PairLeft DEF BudgetInv
<1>5. CASE ~(tick.pc = "accepted" /\ Interrupted)
  <2>1. tick.pc # "accepted" /\ unknown' = unknown
    BY <1>5 DEF Interrupted, TickBegin, TickEnd, FailRun, CloseRun, history
  <2>2. ASSUME NEW q \in Runs, NEW m \in Nodes
        PROVE  Accounted(q, m)
    <3>1. ~(tick.run = q /\ At({"accepted"}, m)) /\ PairInv(q, m)
      BY <2>1 DEF At, BudgetInv
    <3> QED BY <1>2, <2>1, <3>1, LeftAccounted
  <2> QED BY <1>2, <1>3, <2>2, PairLeft DEF BudgetInv
<1> QED BY <1>4, <1>5


\* A snapshot is taken of the run: what is known of the rows is known of the snapshot.
LEMMA LoadBudget ==
  ASSUME RunnerInv, BudgetInv, NEW r \in Runs, LoadRun(r)
  PROVE  BudgetInv'
<1>1. TypeOK /\ StoreInv /\ TickInv /\ tick \in Tick /\ r # None
  BY BoundsAssumption DEF RunnerInv, TypeOK
<1>2. UNCHANGED <<steps, yes, settled, inflight, posts, unknown>>
  BY DEF LoadRun, record, founder, history
<1>3. tick.pc = "next" /\ tick.run = None
  BY <1>1 DEF LoadRun, TickInv, Between
<1>4. \A q \in Runs, m \in Nodes : ~(tick.run = q /\ At({"accepted"}, m)) /\ PairInv(q, m)
  BY <1>3 DEF At, BudgetInv
<1>5. CASE run[r] # "running"
  <2>1. tick'.run = None
    BY <1>1, <1>5 DEF LoadRun, Tick
  <2>2. \A q \in Runs, m \in Nodes : Accounted(q, m)
    BY <1>2, <1>4, LeftAccounted
  <2> QED BY <1>2, <1>4, <2>1, <2>2, PairLeft DEF BudgetInv
<1>6. CASE run[r] = "running"
  <2>1. /\ tick'.run = r /\ tick'.pc = "frontier"
        /\ \A n \in Nodes : tick'.view[n] = Latest(r, n) /\ tick'.older[n] = FailedBefore(r, n)
    BY <1>1, <1>6 DEF LoadRun, Tick
  <2>2. ASSUME NEW q \in Runs, NEW m \in Nodes, q # r
        PROVE  PairInv(q, m)'
    <3>1. RowsKept(q, m)
      BY <1>2, NothingWritten
    <3>2. SnapKept(q, m)
      BY <1>4, <2>1, <2>2 DEF SnapKept
    <3> QED BY <1>1, <1>4, <3>1, <3>2, PairStays
  <2>3. ASSUME NEW n \in Nodes
        PROVE  PairInv(r, n)'
    <3>0. PICK l : l = Len(steps[r][n])
      OBVIOUS
    <3>1. l \in Nat /\ l \in Int /\ l - 1 \in Int
      BY <1>1, <3>0, RowsAreRows DEF TypeOK
    <3>2. PICK v : v = tick'.view[n]
      OBVIOUS
    <3>3. /\ v.id = l
          /\ l = 0 => v.status = "none"
          /\ l > 0 => v.status = steps[r][n][l].status /\ v.note = steps[r][n][l].note
      BY <1>1, <2>1, <3>0, <3>2, LatestIs
    <3>4. l \in Ids(r, n) <=> l > 0
      BY <3>0, <3>1 DEF Ids
    <3>5. \A i \in Ids(r, n) : <<r, n, i>> \in settled /\ v.id = i => v.status = "succeeded"
      BY <1>4, <3>0, <3>1, <3>3 DEF PairInv, AnswersStand, Ids
    <3>6. /\ AnswersStand(r, n)' /\ RowsSpent(r, n)'
          /\ \A k : Yeses(r, n, k)' = Yeses(r, n, k) /\ (Tapped(r, n, k)' <=> Tapped(r, n, k))
      BY <1>2, <1>4, <3>2, <3>5, TableStays
    <3>7. Yeses(r, n, l) \in Nat /\ Budget \in Nat
      BY <3>1, YesesCount, BoundsAssumption
    <3>8. NoneOwed(r, n)' <=> NoneOwed(r, n)
      BY <1>2, <3>6 DEF NoneOwed
    <3>9. PostsOwed(r, n)'
      BY <1>2, <1>4, <3>6, <3>8 DEF PairInv, PostsOwed
    <3>10. SnapSpent(r, n)'
      <4>1. l > 0 /\ v.status = "failed" => FailedOrYes(r, n, l)
        BY <3>3 DEF FailedOrYes
      <4>2. l = 0 => l <= Budget + Yeses(r, n, l)
        BY <3>7
      <4>3. Kind[n] = "publish" /\ v.status = "succeeded" /\ v.note # "accepted" => <<r, n, l>> \in yes
        BY <1>4, <3>0, <3>1, <3>3, <3>4 DEF PairInv, RowsSpent
      <4>4. l <= 1 + tick'.older[n] + Yeses(r, n, l - 1)
        <5>1. \A i \in 1 .. Len(steps[r][n]) - 1 : FailedOrYes(r, n, i)
          BY <1>4 DEF PairInv, RowsSpent
        <5> QED BY <1>1, <2>1, <3>0, <5>1, OlderCounts
      <4>5. ~At({"send", "accepted"}, n)'
        BY <2>1 DEF At
      <4>6. FailedOrYes(r, n, l) => FailedOrYes(r, n, Len(steps[r][n]))'
        BY <1>2, <3>0 DEF FailedOrYes
      <4>7. Len(steps'[r][n]) = l
        BY <1>2, <3>0
      <4> QED BY <1>2, <3>1, <3>2, <3>3, <3>6, <4>1, <4>2, <4>3, <4>4, <4>5, <4>6, <4>7 DEF SnapSpent
    <3>11. SnapOwed(r, n)'
      <4>1. l = 0 => NoneOwed(r, n)
        <5>1. posts[r][n] \in Nat /\ unknown[r][n] \in Nat /\ (l = 0 => ~(posts[r][n] > 0))
          BY <1>1, <3>0 DEF TypeOK, StoreInv, PostedWasStarted
        <5> QED BY <3>0, <3>7, <5>1 DEF NoneOwed
      <4>2. Kind[n] = "publish" /\ NotSent(v) => NoneOwed(r, n)
        <5>1. NotSent(v) => l > 0 /\ NotSent(steps[r][n][l])
          BY <3>1, <3>3 DEF NotSent
        <5> QED BY <1>4, <3>0, <5>1 DEF PairInv, PostsOwed
      <4>3. l > 0 /\ Unsaid(v) => Unsaid(steps[r][n][l])
        BY <3>3 DEF Unsaid
      <4>4. ~At({"check", "send", "unsent"}, n)' /\ ~At({"check", "send", "accepted", "unsent"}, n)'
        BY <2>1 DEF At
      <4> QED BY <1>2, <3>0, <3>2, <3>3, <3>8, <4>1, <4>2, <4>3, <4>4 DEF SnapOwed
    <3> QED BY <3>6, <3>9, <3>10, <3>11 DEF PairInv
  <2> QED BY <2>2, <2>3 DEF BudgetInv
<1> QED BY <1>5, <1>6

\* Section 2 is done: the tick keeps its snapshot for section 3 or 4.
LEMMA FrontierDoneBudget ==
  ASSUME RunnerInv, BudgetInv, FrontierDone
  PROVE  BudgetInv'
<1>1. TypeOK /\ TickInv /\ tick \in Tick
  BY DEF RunnerInv, TypeOK
<1>2. UNCHANGED <<steps, yes, settled, inflight, posts, unknown>>
  BY DEF FrontierDone, record, founder, history
<1>3. tick.pc = "frontier"
  BY DEF FrontierDone, Reached2c
<1>4. /\ tick'.pc \in {"skip", "start"} /\ tick'.run = tick.run /\ tick'.view = tick.view
      /\ tick'.older = tick.older
  BY <1>1 DEF FrontierDone, Section, Tick
<1>5. ASSUME NEW q \in Runs, NEW m \in Nodes
      PROVE  PairInv(q, m)'
  <2>1. RowsKept(q, m)
    BY <1>2, NothingWritten
  <2>2. SnapKept(q, m)
    BY <1>3, <1>4 DEF SnapKept, At, AtWork, Retriable, InFrontier
  <2> QED BY <1>1, <2>1, <2>2, PairStays DEF BudgetInv
<1> QED BY <1>5 DEF BudgetInv

\* A node is forgotten only within the budget, and a publish only when it owes no post.
LEMMA ForgetBudget ==
  ASSUME RunnerInv, BudgetInv, NEW n \in Nodes, Forget(n)
  PROVE  BudgetInv'
<1>0. PICK r : r = tick.run
  OBVIOUS
<1>1. TypeOK /\ TickInv /\ tick \in Tick /\ n # None
  BY BoundsAssumption DEF RunnerInv, TypeOK
<1>2. UNCHANGED <<steps, yes, settled, inflight, posts, unknown>>
  BY DEF Forget, record, founder, history
<1>3. tick.pc = "frontier" /\ tick.node = None /\ r \in Runs /\ tick.run # None
  BY <1>0, <1>1 DEF Forget, Reached2c, TickInv, Between, Agenda, AtWork, Tick
<1>4. PairInv(r, n)
  BY <1>3 DEF BudgetInv
<1>5. /\ tick'.pc = "frontier" /\ tick'.run = r /\ tick'.todo = tick.todo /\ tick'.older = tick.older
      /\ tick'.node = None
      /\ \A m \in Nodes : tick'.view[m] = IF m = n THEN Unstarted ELSE tick.view[m]
  <2>1. tick' = [tick EXCEPT !.view = [tick.view EXCEPT ![n] = Unstarted]]
    BY DEF Forget
  <2> QED BY <1>0, <1>1, <1>3, <2>1 DEF Tick
<1>6. ASSUME NEW q \in Runs, NEW m \in Nodes, ~(q = r /\ m = n)
      PROVE  PairInv(q, m)'
  <2>1. RowsKept(q, m)
    BY <1>2, NothingWritten
  <2>2. m # n => (Retriable(m)' => Retriable(m))
    BY <1>3, <1>5 DEF Retriable, InFrontier, FreshGate, At
  <2>3. SnapKept(q, m)
    BY <1>0, <1>3, <1>5, <1>6, <2>2 DEF SnapKept, At, AtWork
  <2> QED BY <1>1, <2>1, <2>3, PairStays DEF BudgetInv
<1>7. PairInv(r, n)'
  <2>0. PICK l : l = Len(steps[r][n])
    OBVIOUS
  <2>1. PICK v : v = tick.view[n]
    OBVIOUS
  <2>2. /\ Kind[n] = "publish" /\ v.status = "succeeded" /\ v.note # "accepted"
        \/ /\ v.status = "failed" /\ tick.older[n] + 1 <= Budget
           /\ Kind[n] = "publish" => NotSent(v)
    BY <2>1 DEF Forget, ToRetry, YesToRetry, MayRetry, Attempts, Ambiguous, PublishKnownNotSent, NotSent
  <2>3. /\ l \in Nat /\ l \in Int /\ l - 1 \in Int /\ tick.older[n] \in Nat /\ Budget \in Nat
        /\ l > 0 /\ v.id = l
    <3>1. v.id \in Ids(r, n) /\ Len(steps[r][n]) \in Nat
      BY <1>0, <1>1, <1>3, <2>1, <2>2, ViewNamesRow, RowsAreRows DEF TypeOK
    <3>2. v.id \in {0, l}
      BY <1>0, <1>4, <2>0, <2>1 DEF PairInv, SnapSpent
    <3> QED BY <1>1, <2>0, <3>1, <3>2, BoundsAssumption DEF Ids, Tick
  <2>4. /\ Yeses(r, n, l) \in Nat /\ Yeses(r, n, l - 1) \in Nat
        /\ Yeses(r, n, l - 1) <= Yeses(r, n, l)
        /\ <<r, n, l>> \in yes => Yeses(r, n, l) = Yeses(r, n, l - 1) + 1
    <3>1. l - 1 \in Nat /\ (l - 1) + 1 = l
      BY <2>3
    <3>2. PICK k : k = l - 1
      OBVIOUS
    <3>3. /\ Yeses(r, n, k) \in Nat /\ Yeses(r, n, k + 1) \in Nat
          /\ Yeses(r, n, k) <= Yeses(r, n, k + 1)
          /\ <<r, n, k + 1>> \in yes => Yeses(r, n, k + 1) = Yeses(r, n, k) + 1
      <4>1. k \in Nat /\ k \in Int /\ k + 1 \in Int
        BY <3>1, <3>2
      <4> QED BY <1>3, <4>1, YesesCount
    <3>4. k + 1 = l
      BY <3>1, <3>2
    <3> QED BY <3>2, <3>3, <3>4
  <2>5. l <= Budget + Yeses(r, n, l)
    <3>1. CASE Kind[n] = "publish" /\ v.status = "succeeded" /\ v.note # "accepted"
      <4>1. <<r, n, l>> \in yes /\ l <= 1 + Budget + Yeses(r, n, l - 1)
        BY <1>0, <1>4, <2>0, <2>1, <3>1 DEF PairInv, SnapSpent, RowsSpent
      <4> QED BY <2>3, <2>4, <4>1
    <3>2. CASE v.status = "failed" /\ tick.older[n] + 1 <= Budget
      <4>1. Retriable(n)
        BY <1>3, <2>1, <3>2 DEF Retriable, InFrontier, FreshGate, At
      <4>2. l <= 1 + tick.older[n] + Yeses(r, n, l - 1)
        BY <1>0, <1>4, <2>0, <2>1, <2>3, <4>1 DEF PairInv, SnapSpent
      <4> QED BY <2>3, <2>4, <3>2, <4>2
    <3> QED BY <2>2, <3>1, <3>2
  <2>6. FailedOrYes(r, n, l)
    BY <1>0, <1>4, <2>0, <2>1, <2>2, <2>3 DEF PairInv, SnapSpent, FailedOrYes
  <2>7. Kind[n] = "publish" => NoneOwed(r, n)
    BY <1>0, <1>4, <2>0, <2>1, <2>2, <2>3 DEF PairInv, SnapSpent, SnapOwed, PostsOwed
  <2>8. Unstarted.id = 0 /\ Unstarted.status = "none"
    BY DEF Unstarted
  <2>9. /\ AnswersStand(r, n)' /\ RowsSpent(r, n)'
        /\ \A k : Yeses(r, n, k)' = Yeses(r, n, k) /\ (Tapped(r, n, k)' <=> Tapped(r, n, k))
    <3>1. \A i \in Ids(r, n) : i # tick'.view[n].id
      BY <1>5, <2>8 DEF Ids
    <3> QED BY <1>2, <1>3, <1>4, <3>1, TableStays
  <2>10. NoneOwed(r, n)' <=> NoneOwed(r, n)
    BY <1>2, <2>9 DEF NoneOwed
  <2>11. PostsOwed(r, n)'
    BY <1>0, <1>2, <1>3, <1>4, <2>9, <2>10 DEF PairInv, PostsOwed, At
  <2>12. ~At({"send", "accepted"}, n)' /\ ~At({"check", "send", "unsent"}, n)'
         /\ ~At({"check", "send", "accepted", "unsent"}, n)'
    BY <1>5 DEF At
  <2>13. FailedOrYes(r, n, l) => FailedOrYes(r, n, Len(steps[r][n]))'
    BY <1>2, <2>0 DEF FailedOrYes
  <2>14. SnapSpent(r, n)'
    BY <1>2, <1>5, <2>0, <2>5, <2>6, <2>8, <2>9, <2>12, <2>13 DEF SnapSpent
  <2>15. SnapOwed(r, n)'
    BY <1>5, <2>7, <2>8, <2>10, <2>12 DEF SnapOwed, Unsaid
  <2> QED BY <2>9, <2>11, <2>14, <2>15 DEF PairInv
<1> QED BY <1>6, <1>7 DEF BudgetInv


-----------------------------------------------------------------------------
(* A row is put behind the others *)

\* StartStep is about one pair.
LEMMA OthersAppended ==
  ASSUME TypeOK, NEW r \in Runs, NEW n \in Nodes, StartStep(r, n), UNCHANGED rest,
         NEW q \in Runs, NEW m \in Nodes, ~(q = r /\ m = n)
  PROVE  RowsKept(q, m)
<1>1. /\ Len(steps'[q][m]) = Len(steps[q][m])
      /\ \A k \in Ids(q, m) : steps'[q][m][k] = steps[q][m][k]
  <2>1. steps \in Rows
    BY DEF TypeOK
  <2> QED BY <2>1, RowAppended
<1> QED BY <1>1 DEF RowsKept, Tapped, rest, founder

\* There is room for another row of n, and no post of it is owed if it may be sent.
Room(r, n) ==
  /\ Len(steps[r][n]) > 0 => FailedOrYes(r, n, Len(steps[r][n]))
  /\ Len(steps[r][n]) <= Budget + Yeses(r, n, Len(steps[r][n]))

\* The tick works on the row it has just put behind the others.
OnNewRow(r, n) ==
  /\ tick'.run = r /\ tick'.node = n /\ tick'.pc \notin {"send", "accepted"}
  /\ tick'.view[n].id = Len(steps[r][n]) + 1 /\ tick'.view[n].status = "running"
  /\ ~Retriable(n)'
  /\ Kind[n] = "publish" /\ tick'.pc \in {"check", "unsent"} => NoneOwed(r, n)

LEMMA PairAppended ==
  ASSUME RunnerInv, NEW r \in Runs, NEW n \in Nodes, PairInv(r, n), StartStep(r, n), UNCHANGED rest,
         Room(r, n), OnNewRow(r, n)
  PROVE  PairInv(r, n)'
<1>0. PICK l : l = Len(steps[r][n])
  OBVIOUS
<1>1. TypeOK /\ StoreInv /\ l \in Nat /\ l \in Int /\ l + 1 \in Int /\ l + 1 > 0
  <2>1. TypeOK /\ StoreInv /\ steps \in Rows
    BY DEF RunnerInv, TypeOK
  <2>2. l \in Nat
    BY <1>0, <2>1, RowsAreRows
  <2> QED BY <2>1, <2>2
<1>2. /\ Len(steps'[r][n]) = l + 1
      /\ \A k \in Ids(r, n) : steps'[r][n][k] = steps[r][n][k]
      /\ steps'[r][n][l + 1].status = "running"
  <2>1. steps \in Rows
    BY <1>1 DEF TypeOK
  <2> QED BY <1>0, <2>1, RowAppended
<1>3. /\ Ids(r, n) \subseteq Ids(r, n)' /\ l + 1 \notin Ids(r, n)
      /\ \A i \in Ids(r, n)' : i \in Ids(r, n) \/ i = l + 1
      /\ \A i \in 1 .. (l + 1) - 1 : i \in Ids(r, n) /\ (i = l \/ i \in 1 .. l - 1)
  BY <1>0, <1>1, <1>2 DEF Ids
<1>4. UNCHANGED <<yes, settled, inflight, posts, unknown>>
  BY DEF rest, founder
<1>5. \A k : Yeses(r, n, k)' = Yeses(r, n, k) /\ (Tapped(r, n, k)' <=> Tapped(r, n, k))
  BY <1>4 DEF Yeses, Tapped
<1>6. /\ <<r, n, l + 1>> \notin yes /\ ~Tapped(r, n, l + 1)
      /\ Yeses(r, n, l) <= Yeses(r, n, l + 1) /\ Yeses(r, n, l) \in Nat /\ Yeses(r, n, l + 1) \in Nat
  <2>1. <<r, n, l + 1>> \notin yes
    BY <1>1, <1>3 DEF PairInv, AnswersStand
  <2>2. ~Tapped(r, n, l + 1)
    <3> SUFFICES ASSUME NEW t \in inflight, t.step = <<r, n, l + 1>>
                 PROVE  FALSE
      BY DEF Tapped
    <3> QED BY <1>1, <1>3 DEF StoreInv, AnswersAreRows
  <2>3. /\ Yeses(r, n, l) <= Yeses(r, n, l + 1) /\ Yeses(r, n, l) \in Nat
        /\ Yeses(r, n, l + 1) \in Nat
    BY <1>1, YesesCount
  <2> QED BY <2>1, <2>2, <2>3
<1>7. posts[r][n] \in Nat /\ unknown[r][n] \in Nat
  BY <1>1 DEF TypeOK
<1>8. NoneOwed(r, n) => NoneOwed(r, n)'
  BY <1>0, <1>2, <1>4, <1>5, <1>6, <1>7 DEF NoneOwed
<1>9. AnswersStand(r, n)'
  <2> SUFFICES ASSUME NEW i \in Nat
               PROVE  /\ <<r, n, i>> \in yes => i \in Ids(r, n)'
                      /\ <<r, n, i>> \in settled =>
                           /\ i \in Ids(r, n)' /\ steps'[r][n][i].status = "succeeded"
                           /\ ~Tapped(r, n, i)
                           /\ tick'.view[n].id = i => tick'.view[n].status = "succeeded"
    BY <1>4, <1>5 DEF AnswersStand
  <2>1. tick'.view[n].id = l + 1
    BY <1>0 DEF OnNewRow
  <2>2. /\ <<r, n, i>> \in yes => i \in Ids(r, n)
        /\ <<r, n, i>> \in settled =>
             i \in Ids(r, n) /\ steps[r][n][i].status = "succeeded" /\ ~Tapped(r, n, i)
    BY DEF PairInv, AnswersStand
  <2>3. i \in Ids(r, n) => i \in Ids(r, n)' /\ i # l + 1 /\ steps'[r][n][i] = steps[r][n][i]
    BY <1>2, <1>3
  <2> QED BY <2>1, <2>2, <2>3
<1>10. RowsSpent(r, n)'
  <2>1. \A i \in 1 .. (l + 1) - 1 : FailedOrYes(r, n, i)'
    <3> SUFFICES ASSUME NEW i \in 1 .. (l + 1) - 1
                 PROVE  FailedOrYes(r, n, i)'
      OBVIOUS
    <3>1. i \in Ids(r, n) /\ (i = l \/ i \in 1 .. l - 1) /\ l > 0
      BY <1>0, <1>1, <1>3 DEF Ids
    <3>2. FailedOrYes(r, n, i)
      BY <1>0, <3>1 DEF Room, PairInv, RowsSpent
    <3> QED BY <1>2, <1>4, <3>1, <3>2 DEF FailedOrYes
  <2>2. l + 1 <= 1 + Budget + Yeses(r, n, l) /\ (l + 1) - 1 = l
    BY <1>0, <1>1, <1>6, BoundsAssumption DEF Room
  <2>3. ASSUME NEW i \in Ids(r, n)', Kind[n] = "publish", steps'[r][n][i].status = "succeeded",
               steps'[r][n][i].note # "accepted"
        PROVE  <<r, n, i>> \in yes
    <3>1. i \in Ids(r, n)
      BY <1>2, <1>3, <2>3
    <3> QED BY <1>2, <2>3, <3>1 DEF PairInv, RowsSpent
  <2>4. Yeses(r, n, (l + 1) - 1)' = Yeses(r, n, l)
    BY <1>5, <2>2
  <2> QED BY <1>2, <1>4, <2>1, <2>2, <2>3, <2>4 DEF RowsSpent
<1>11. PostsOwed(r, n)'
  <2> SUFFICES ASSUME Kind[n] = "publish" PROVE PostsOwed(r, n)'
    BY DEF PostsOwed
  <2>1. posts[r][n] <= 1 + unknown[r][n] + Yeses(r, n, l + 1)
    <3>1. posts[r][n] <= 1 + unknown[r][n] + Yeses(r, n, l)
      BY <1>0 DEF PairInv, PostsOwed
    <3> QED BY <1>6, <1>7, <3>1
  <2>2. posts'[r][n] <= 1 + unknown'[r][n] + Yeses(r, n, l + 1)'
    BY <1>4, <1>5, <2>1
  <2>3. ~Unsaid(steps'[r][n][l + 1]) /\ ~NotSent(steps'[r][n][l + 1])
    BY <1>2 DEF Unsaid, NotSent
  <2>4. <<r, n, l + 1>> \notin yes'
    BY <1>4, <1>6
  <2> QED BY <1>2, <2>2, <2>3, <2>4 DEF PostsOwed
<1>12. tick'.view[n].id = l + 1 /\ tick'.view[n].status = "running"
  BY <1>0 DEF OnNewRow
<1>13. SnapSpent(r, n)'
  <2>1. ~At({"send", "accepted"}, n)' /\ ~Retriable(n)'
    BY DEF OnNewRow, At
  <2> QED BY <1>1, <1>2, <1>12, <2>1 DEF SnapSpent
<1>14. SnapOwed(r, n)'
  <2> SUFFICES ASSUME Kind[n] = "publish" PROVE SnapOwed(r, n)'
    BY DEF SnapOwed
  <2>1. ~Unsaid(tick'.view[n]) /\ ~NotSent(tick'.view[n]) /\ tick'.view[n].id # 0
    BY <1>1, <1>12 DEF Unsaid, NotSent
  <2>2. At({"check", "send", "unsent"}, n)' => NoneOwed(r, n)'
    BY <1>8 DEF OnNewRow, At
  <2>3. <<r, n, l + 1>> \notin yes' /\ ~Tapped(r, n, l + 1)'
    BY <1>4, <1>5, <1>6
  <2> QED BY <1>2, <2>1, <2>2, <2>3 DEF SnapOwed
<1> QED BY <1>9, <1>10, <1>11, <1>13, <1>14 DEF PairInv

\* A ready node is started: it was never started, or section 2 has forgotten it.
LEMMA StartNodeBudget ==
  ASSUME RunnerInv, BudgetInv, NEW n \in Nodes, StartNode(n)
  PROVE  BudgetInv'
<1>0. PICK r : r = tick.run
  OBVIOUS
<1>1. TypeOK /\ TickInv /\ tick \in Tick /\ n # None
  BY BoundsAssumption DEF RunnerInv, TypeOK
<1>2. tick.pc = "start" /\ n \in tick.todo /\ r \in Runs /\ tick.run # None /\ tick.node = None
  BY <1>0, <1>1 DEF StartNode, TickInv, Between, Agenda, AtWork, Tick
<1>3. StartStep(r, n) /\ UNCHANGED rest
  BY <1>0 DEF StartNode, rest, founder, history
<1>4. tick.view[n].id = 0 /\ PairInv(r, n)
  BY <1>1, <1>2 DEF TickInv, Agenda, InStart, BudgetInv
<1>5. FirstStep(Kind[n]) \in {"task", "park", "check", "act"}
  BY GraphAssumption DEF FirstStep, NodeKind
<1>6. PICK e : e = [Unstarted EXCEPT !.id = Len(steps[tick.run][n]) + 1, !.status = "running"]
  OBVIOUS
<1>7. e.id = Len(steps[r][n]) + 1 /\ e.status = "running"
  BY <1>0, <1>6 DEF Unstarted
<1>8. tick' = [tick EXCEPT !.pc = FirstStep(Kind[n]), !.node = n, !.view = [tick.view EXCEPT ![n] = e]]
  BY <1>6 DEF StartNode
<1>9. /\ tick'.pc \in {"task", "park", "check", "act"} /\ tick'.run = r /\ tick'.node = n
      /\ tick'.older = tick.older
      /\ \A m \in Nodes : tick'.view[m] = IF m = n THEN e ELSE tick.view[m]
  BY <1>0, <1>1, <1>5, <1>8 DEF Tick
<1>10. ~InFrontier'
  BY <1>9 DEF InFrontier
<1>11. ASSUME NEW q \in Runs, NEW m \in Nodes, ~(q = r /\ m = n)
       PROVE  PairInv(q, m)'
  <2>1. RowsKept(q, m)
    BY <1>1, <1>2, <1>3, <1>11, OthersAppended
  <2>2. SnapKept(q, m)
    BY <1>0, <1>2, <1>9, <1>10, <1>11 DEF SnapKept, Retriable, At
  <2> QED BY <1>1, <2>1, <2>2, PairStays DEF BudgetInv
<1>12. Room(r, n) /\ (Kind[n] = "publish" => NoneOwed(r, n))
  BY <1>0, <1>4 DEF PairInv, SnapSpent, SnapOwed, Room
<1>13. OnNewRow(r, n)
  BY <1>7, <1>9, <1>10, <1>12 DEF OnNewRow, Retriable
<1>14. PairInv(r, n)'
  BY <1>2, <1>3, <1>4, <1>12, <1>13, PairAppended
<1> QED BY <1>11, <1>14 DEF BudgetInv

\* A retry gate is an attempt within the budget.
LEMMA OpenGateBudget ==
  ASSUME RunnerInv, BudgetInv, NEW n \in Nodes, OpenGate(n)
  PROVE  BudgetInv'
<1>0. PICK r : r = tick.run
  OBVIOUS
<1>1. TypeOK /\ TickInv /\ tick \in Tick /\ n # None
  BY BoundsAssumption DEF RunnerInv, TypeOK
<1>2. tick.pc = "frontier" /\ tick.todo = {} /\ r \in Runs /\ tick.run # None /\ tick.node = None
  BY <1>0, <1>1 DEF OpenGate, Reached2c, TickInv, Between, Agenda, AtWork, Tick
<1>3. StartStep(r, n) /\ UNCHANGED rest
  BY <1>0 DEF OpenGate, rest, founder, history
<1>4. /\ tick.view[n].status = "failed" /\ tick.older[n] + 1 <= Budget /\ PairInv(r, n)
  BY <1>2 DEF OpenGate, ToRetry, MayRetry, Attempts, Ambiguous, BudgetInv
<1>5. PICK l : l = Len(steps[r][n])
  OBVIOUS
<1>6. /\ l \in Nat /\ l \in Int /\ l - 1 \in Int /\ l - 1 \in Nat /\ tick.older[n] \in Nat /\ Budget \in Nat
      /\ tick.view[n].id = l /\ l > 0
  <2>1. tick.view[n].id \in Ids(r, n) /\ Len(steps[r][n]) \in Nat
    BY <1>0, <1>1, <1>2, <1>4, ViewNamesRow, RowsAreRows DEF TypeOK
  <2>2. tick.view[n].id \in {0, l}
    BY <1>0, <1>4, <1>5 DEF PairInv, SnapSpent
  <2>3. tick.older[n] \in Nat /\ Budget \in Nat
    BY <1>1, BoundsAssumption DEF Tick
  <2> QED BY <1>5, <2>1, <2>2, <2>3 DEF Ids
<1>7. /\ Yeses(r, n, l) \in Nat /\ Yeses(r, n, l - 1) \in Nat
      /\ Yeses(r, n, l - 1) <= Yeses(r, n, l)
  <2>1. PICK k : k = l - 1
    OBVIOUS
  <2>2. k \in Int /\ k + 1 = l
    BY <1>6, <2>1
  <2>3. Yeses(r, n, k) \in Nat /\ Yeses(r, n, k) <= Yeses(r, n, k + 1)
    BY <1>2, <2>2, YesesCount
  <2>4. Yeses(r, n, l) \in Nat
    BY <1>2, <1>6, YesesCount
  <2> QED BY <2>1, <2>2, <2>3, <2>4
<1>8. InFrontier /\ Retriable(n)
  BY <1>2, <1>4 DEF Retriable, InFrontier, FreshGate, At
<1>9. Room(r, n)
  <2>1. l <= 1 + tick.older[n] + Yeses(r, n, l - 1) /\ FailedOrYes(r, n, l)
    BY <1>0, <1>4, <1>5, <1>6, <1>8 DEF PairInv, SnapSpent
  <2>2. l <= Budget + Yeses(r, n, l)
    BY <1>4, <1>6, <1>7, <2>1
  <2> QED BY <1>5, <2>1, <2>2 DEF Room
<1>10. PICK e : e = [tick.view[n] EXCEPT !.id = Len(steps[tick.run][n]) + 1, !.status = "running"]
  OBVIOUS
<1>11. tick.view[n] \in Entry
  BY <1>1 DEF Tick
<1>12. e.id = Len(steps[r][n]) + 1 /\ e.status = "running"
  BY <1>0, <1>10, <1>11 DEF Entry
<1>13. tick' = [tick EXCEPT !.pc = "gate", !.node = n, !.view = [tick.view EXCEPT ![n] = e]]
  BY <1>1, <1>10 DEF OpenGate, Tick
<1>14. /\ tick'.pc = "gate" /\ tick'.run = r /\ tick'.node = n /\ tick'.todo = tick.todo
       /\ tick'.older = tick.older
       /\ \A m \in Nodes : tick'.view[m] = IF m = n THEN e ELSE tick.view[m]
  BY <1>0, <1>1, <1>13 DEF Tick
<1>15. ASSUME NEW q \in Runs, NEW m \in Nodes, ~(q = r /\ m = n)
       PROVE  PairInv(q, m)'
  <2>1. RowsKept(q, m)
    BY <1>1, <1>2, <1>3, <1>15, OthersAppended
  <2>2. m # n => (FreshGate(m) => FreshGate(m)')
    BY <1>2, <1>14 DEF FreshGate, At
  <2>3. SnapKept(q, m)
    BY <1>0, <1>2, <1>8, <1>14, <1>15, <2>2 DEF SnapKept, Retriable, At
  <2> QED BY <1>1, <2>1, <2>3, PairStays DEF BudgetInv
<1>16. OnNewRow(r, n)
  <2>1. FreshGate(n)'
    BY <1>14 DEF FreshGate, At
  <2> QED BY <1>12, <1>14, <2>1 DEF OnNewRow, Retriable
<1>17. PairInv(r, n)'
  BY <1>2, <1>3, <1>4, <1>9, <1>16, PairAppended
<1> QED BY <1>15, <1>17 DEF BudgetInv


-----------------------------------------------------------------------------
(* The scheduler is called *)

\* The tick goes on with a post it is to record, or with none that is owed.
GoesOn(r, n) ==
  /\ tick'.run = r /\ tick'.view = tick.view /\ tick'.older = tick.older
  /\ \/ tick'.pc = "frontier" /\ tick'.node = None /\ Deferred(n)
     \/ tick'.pc = "unsent" /\ tick'.node = n
     \/ tick'.pc = "accepted" /\ tick'.node = n
  /\ posts'[r][n] <= 1 + unknown'[r][n] + Yeses(r, n, Len(steps[r][n]))
  /\ tick'.pc # "accepted" => posts'[r][n] <= unknown'[r][n] + Yeses(r, n, Len(steps[r][n]))

LEMMA PairSent ==
  ASSUME RunnerInv, NEW r \in Runs, NEW n \in Nodes, PairInv(r, n), tick.run = r, At({"send"}, n),
         UNCHANGED <<steps, yes, settled, inflight>>, GoesOn(r, n)
  PROVE  PairInv(r, n)'
<1>0. PICK l : l = Len(steps[r][n])
  OBVIOUS
<1>1. n # None /\ r # None
  BY BoundsAssumption
<1>2. /\ l \in Nat /\ l > 0 /\ Kind[n] = "publish" /\ tick.view[n].status \in {"running", "waiting"}
      /\ tick.view[n].status = "running" =>
           steps[r][n][l].status = "running" /\ <<r, n, l>> \notin yes /\ ~Tapped(r, n, l)
  <2>1. At({"check", "send", "accepted", "unsent"}, n)
    BY DEF At
  <2> QED BY <1>0, <2>1, FreshRow
<1>3. /\ AnswersStand(r, n)' /\ RowsSpent(r, n)'
      /\ \A k : Yeses(r, n, k)' = Yeses(r, n, k) /\ (Tapped(r, n, k)' <=> Tapped(r, n, k))
  <2>1. \A i \in Ids(r, n) : <<r, n, i>> \in settled /\ tick'.view[n].id = i =>
          tick'.view[n].status = "succeeded"
    <3>1. Len(steps[r][n]) \in Nat
      BY RowsAreRows DEF RunnerInv, TypeOK
    <3>2. \A i \in Ids(r, n) : i \in Nat
      BY <3>1 DEF Ids
    <3> QED BY <3>2 DEF GoesOn, PairInv, AnswersStand
  <2> QED BY <2>1, TableStays
<1>4. tick'.pc # "accepted" => NoneOwed(r, n)'
  BY <1>3 DEF GoesOn, NoneOwed
<1>5. \/ Unsaid(steps[r][n][l]) /\ <<r, n, l>> \notin yes /\ ~Tapped(r, n, l)
      \/ steps[r][n][l].status = "running" /\ <<r, n, l>> \notin yes
  <2>1. CASE tick.view[n].status = "running"
    BY <1>2, <2>1
  <2>2. CASE tick.view[n].status = "waiting"
    <3>1. Unsaid(tick.view[n])
      BY <2>2 DEF PairInv, SnapSpent, Unsaid, At
    <3>2. Unsaid(steps[r][n][l])
      BY <1>0, <1>2, <3>1 DEF PairInv, SnapOwed
    <3> QED BY <1>0, <1>2, <3>2 DEF PairInv, PostsOwed
  <2> QED BY <1>2, <2>1, <2>2
<1>6. PostsOwed(r, n)'
  <2>1. posts'[r][n] <= 1 + unknown'[r][n] + Yeses(r, n, l)'
    BY <1>0, <1>3 DEF GoesOn
  <2>2. (At({"accepted"}, n)' /\ tick'.run = r) \/ NoneOwed(r, n)'
    BY <1>4 DEF GoesOn, At
  <2>3. <<r, n, l>> \notin yes' /\ ~NotSent(steps'[r][n][l])
        /\ (Unsaid(steps'[r][n][l]) => ~Tapped(r, n, l)')
    BY <1>3, <1>5 DEF Unsaid, NotSent
  <2>4. Len(steps'[r][n]) = l
    BY <1>0
  <2> QED BY <2>1, <2>2, <2>3, <2>4 DEF PostsOwed
<1>7. SnapSpent(r, n)'
  <2>1. Retriable(n)' => Retriable(n)
    <3>1. InFrontier' => tick.view[n].status = "waiting"
      BY DEF GoesOn, InFrontier, Deferred
    <3>2. tick.view[n].status = "waiting" => InFrontier /\ ~FreshGate(n)
      BY DEF InFrontier, At, FreshGate, PairInv, SnapSpent
    <3> QED BY <3>1, <3>2 DEF Retriable
  <2>2. FailedOrYes(r, n, l) => FailedOrYes(r, n, l)'
    BY DEF FailedOrYes
  <2>3. At({"send", "accepted"}, n)
    BY DEF At
  <2>4. Len(steps'[r][n]) = l
    BY <1>0
  <2>5. tick'.view = tick.view /\ tick'.older = tick.older
    BY DEF GoesOn
  <2> QED BY <1>0, <1>3, <2>1, <2>2, <2>3, <2>4, <2>5 DEF PairInv, SnapSpent
<1>8. SnapOwed(r, n)'
  <2>1. tick.view[n].id # 0
    BY <1>2 DEF RunnerInv, TickInv, ViewIsOld, AtANode, AtWork, At
  <2>2. ~NotSent(tick.view[n])
    BY <1>2 DEF NotSent
  <2>3. At({"check", "send", "unsent"}, n)' => NoneOwed(r, n)'
    BY <1>4 DEF At
  <2>4. tick'.view = tick.view /\ Len(steps'[r][n]) = l /\ (Unsaid(tick.view[n]) => Unsaid(steps[r][n][l]))
    BY <1>0, <1>2 DEF GoesOn, PairInv, SnapOwed
  <2> QED BY <1>2, <1>3, <2>1, <2>2, <2>3, <2>4 DEF SnapOwed
<1> QED BY <1>3, <1>6, <1>7, <1>8 DEF PairInv

\* A call of the scheduler: whatever it did and whatever it answers.
LEMMA CallBudget ==
  ASSUME RunnerInv, BudgetInv, NEW n \in Nodes, Send(n)
  PROVE  BudgetInv'
<1>0. PICK r : r = tick.run
  OBVIOUS
<1>1. TypeOK /\ TickInv /\ tick \in Tick /\ n # None
  BY BoundsAssumption DEF RunnerInv, TypeOK
<1>2. /\ tick.pc = "send" /\ tick.node = n /\ r \in Runs /\ tick.run # None /\ Kind[n] = "publish"
      /\ At({"send"}, n) /\ At({"check", "send", "accepted", "unsent"}, n)
  BY <1>0, <1>1 DEF Send, TickInv, Between, AtANode, AtWork, KindOf, Tick, At
<1>3. UNCHANGED <<steps, yes, settled, inflight>>
  BY DEF Send, record, founder
<1>4. PairInv(r, n)
  BY <1>2 DEF BudgetInv
<1>5. PICK l : l = Len(steps[r][n])
  OBVIOUS
<1>6. /\ l \in Nat /\ l > 0 /\ tick.view[n].status \in {"running", "waiting"}
      /\ tick.view[n].status = "running" => steps[r][n][l].status = "running" /\ <<r, n, l>> \notin yes
  BY <1>0, <1>2, <1>4, <1>5, FreshRow
<1>7. PICK accepted \in BOOLEAN, answer \in {"ok", "error", "none"} :
        /\ answer = "ok" => accepted
        /\ posts' = [posts EXCEPT ![tick.run][n] = @ + IF accepted THEN 1 ELSE 0]
        /\ unknown' = [unknown EXCEPT ![tick.run][n] =
             @ + IF accepted /\ (answer = "error" \/ (answer = "none" /\ Deferred(n))) THEN 1 ELSE 0]
        /\ CASE answer = "ok"    -> failures' = 0 /\ tick' = [tick EXCEPT !.pc = "accepted"]
             [] answer = "error" ->
                  /\ failures' = IF CircuitOpen THEN failures ELSE failures + 1
                  /\ tick' = IF Deferred(n) THEN Handled("frontier", n)
                             ELSE [tick EXCEPT !.pc = "unsent"]
             [] answer = "none"  -> LeaveRun /\ UNCHANGED failures
  BY DEF Send
<1>8. PICK a \in {0, 1}, u \in {0, 1} :
        /\ posts' = [posts EXCEPT ![r][n] = posts[r][n] + a]
        /\ unknown' = [unknown EXCEPT ![r][n] = unknown[r][n] + u]
        /\ answer = "error" \/ (answer = "none" /\ Deferred(n)) => u = a
  <2>1. PICK a : a = IF accepted THEN 1 ELSE 0
    OBVIOUS
  <2>2. PICK u : u = IF accepted /\ (answer = "error" \/ (answer = "none" /\ Deferred(n))) THEN 1 ELSE 0
    OBVIOUS
  <2>3. a \in {0, 1} /\ u \in {0, 1}
    BY <2>1, <2>2
  <2>4. /\ posts' = [posts EXCEPT ![r][n] = posts[r][n] + a]
        /\ unknown' = [unknown EXCEPT ![r][n] = unknown[r][n] + u]
    BY <1>0, <1>7, <2>1, <2>2
  <2>5. answer = "error" \/ (answer = "none" /\ Deferred(n)) => u = a
    BY <2>1, <2>2
  <2> QED BY <2>3, <2>4, <2>5
<1>9. /\ posts \in [Runs -> [Nodes -> Nat]] /\ unknown \in [Runs -> [Nodes -> Nat]]
      /\ posts[r][n] \in Nat /\ unknown[r][n] \in Nat
  BY <1>1, <1>2 DEF TypeOK
<1>10. \A q \in Runs, m \in Nodes :
         /\ posts'[q][m] = IF q = r /\ m = n THEN posts[r][n] + a ELSE posts[q][m]
         /\ unknown'[q][m] = IF q = r /\ m = n THEN unknown[r][n] + u ELSE unknown[q][m]
  <2>1. posts[r][n] + a \in Nat /\ unknown[r][n] + u \in Nat
    BY <1>9
  <2>2. \A q \in Runs, m \in Nodes :
          posts'[q][m] = IF q = r /\ m = n THEN posts[r][n] + a ELSE posts[q][m]
    BY <1>2, <1>8, <1>9, <2>1, CountedUp
  <2>3. \A q \in Runs, m \in Nodes :
          unknown'[q][m] = IF q = r /\ m = n THEN unknown[r][n] + u ELSE unknown[q][m]
    BY <1>2, <1>8, <1>9, <2>1, CountedUp
  <2> QED BY <2>2, <2>3
<1>11. /\ posts'[r][n] = posts[r][n] + a /\ unknown'[r][n] = unknown[r][n] + u
       /\ posts'[r][n] <= 1 + unknown'[r][n] + Yeses(r, n, l)
       /\ u = a => posts'[r][n] <= unknown'[r][n] + Yeses(r, n, l)
  <2>1. posts[r][n] <= unknown[r][n] + Yeses(r, n, l)
    BY <1>0, <1>2, <1>4, <1>5 DEF PairInv, SnapOwed, At, NoneOwed
  <2>2. Yeses(r, n, l) \in Nat
    <3>1. l \in Int
      BY <1>6
    <3> QED BY <1>2, <3>1, YesesCount
  <2> QED BY <1>2, <1>9, <1>10, <2>1, <2>2
<1>12. CASE answer = "none"
  <2>1. tick'.run = None
    BY <1>1, <1>7, <1>12, LeaveIs
  <2>2. Accounted(r, n)
    <3>1. CASE Deferred(n)
      BY <1>5, <1>8, <1>11, <1>12, <3>1 DEF Accounted
    <3>2. CASE ~Deferred(n)
      BY <1>5, <1>6, <1>11, <3>2 DEF Accounted, Unsaid, NotSent, Deferred
    <3> QED BY <3>1, <3>2
  <2>3. ASSUME NEW q \in Runs, NEW m \in Nodes
        PROVE  Accounted(q, m)
    <3>1. CASE q = r /\ m = n
      BY <2>2, <3>1
    <3>2. CASE ~(q = r /\ m = n)
      <4>1. ~(tick.run = q /\ At({"accepted"}, m)) /\ PairInv(q, m)
        BY <1>2 DEF At, BudgetInv
      <4> QED BY <1>10, <3>2, <4>1, LeftAccounted
    <3> QED BY <3>1, <3>2
  <2> QED BY <1>3, <2>1, <2>3, PairLeft DEF BudgetInv
<1>13. CASE answer # "none"
  <2>1. /\ tick'.run = r /\ tick'.view = tick.view /\ tick'.older = tick.older
        /\ tick'.todo \subseteq tick.todo
        /\ \/ tick'.pc = "frontier" /\ tick'.node = None /\ Deferred(n)
           \/ tick'.pc = "unsent" /\ tick'.node = n
           \/ tick'.pc = "accepted" /\ tick'.node = n
        /\ tick'.pc # "accepted" => u = a
    <3>1. CASE answer = "ok"
      <4>1. tick' = [tick EXCEPT !.pc = "accepted"]
        BY <1>7, <3>1
      <4> QED BY <1>0, <1>1, <1>2, <4>1 DEF Tick
    <3>2. CASE answer = "error" /\ Deferred(n)
      <4>1. tick' = Handled("frontier", n) /\ "frontier" \in TickPc
        BY <1>7, <3>2 DEF TickPc
      <4>2. /\ tick'.pc = "frontier" /\ tick'.run = tick.run /\ tick'.todo = tick.todo \ {n}
            /\ tick'.node = None /\ tick'.view = tick.view /\ tick'.older = tick.older
        BY <1>1, <4>1, HandledIs
      <4> QED BY <1>0, <1>8, <3>2, <4>2
    <3>3. CASE answer = "error" /\ ~Deferred(n)
      <4>1. tick' = [tick EXCEPT !.pc = "unsent"]
        BY <1>7, <3>3
      <4> QED BY <1>0, <1>1, <1>2, <1>8, <3>3, <4>1 DEF Tick
    <3> QED BY <1>13, <3>1, <3>2, <3>3
  <2>2. GoesOn(r, n)
    BY <1>5, <1>11, <2>1 DEF GoesOn
  <2>3. PairInv(r, n)'
    BY <1>0, <1>2, <1>3, <1>4, <2>2, PairSent
  <2>4. ASSUME NEW q \in Runs, NEW m \in Nodes, ~(q = r /\ m = n)
        PROVE  PairInv(q, m)'
    <3>1. RowsKept(q, m)
      <4>1. posts'[q][m] = posts[q][m] /\ unknown'[q][m] = unknown[q][m]
        BY <1>10, <2>4
      <4> QED BY <1>3, <4>1 DEF RowsKept, Tapped
    <3>2. InFrontier' => InFrontier
      BY <1>2, <2>1 DEF InFrontier, Deferred
    <3>3. FreshGate(m) => FreshGate(m)'
      BY <1>2, <2>1 DEF FreshGate, At
    <3>4. tick'.run = q => tick'.node # m
      BY <2>1, <2>4, BoundsAssumption
    <3>5. SnapKept(q, m)
      BY <1>0, <1>2, <2>1, <3>2, <3>3, <3>4 DEF SnapKept, Retriable, At
    <3> QED BY <1>1, <3>1, <3>5, PairStays DEF BudgetInv
  <2> QED BY <2>3, <2>4 DEF BudgetInv
<1> QED BY <1>12, <1>13


-----------------------------------------------------------------------------
(* Effects, new runs, the clock and the founder *)

\* An effect takes place: no row is written and no post is made.
LEMMA ActBudget ==
  ASSUME RunnerInv, BudgetInv, NEW n \in Nodes, Act(n)
  PROVE  BudgetInv'
<1>0. PICK r : r = tick.run
  OBVIOUS
<1>1. TypeOK /\ TickInv /\ tick \in Tick /\ n # None
  BY BoundsAssumption DEF RunnerInv, TypeOK
<1>2. tick.pc = "act" /\ tick.node = n /\ r \in Runs /\ Kind[n] = "effect"
  BY <1>0, <1>1 DEF Act, TickInv, Between, AtANode, AtWork, KindOf, Tick
<1>3. CASE tick' = Handled("start", n)
  BY <1>3, StartBudget
<1>4. CASE tick' # Handled("start", n)
  <2>1. UNCHANGED <<steps, yes, settled, inflight, posts, unknown>> /\ tick' = [tick EXCEPT !.pc = "acted"]
    BY <1>4 DEF Act, founder
  <2>2. /\ tick'.pc = "acted" /\ tick'.run = tick.run /\ tick'.view = tick.view
        /\ tick'.older = tick.older /\ tick'.node = n
    BY <1>1, <1>2, <2>1 DEF Tick
  <2>3. ~InFrontier'
    BY <2>2 DEF InFrontier
  <2>4. ASSUME NEW q \in Runs, NEW m \in Nodes
        PROVE  PairInv(q, m)'
    <3>1. PairInv(q, m)
      BY DEF BudgetInv
    <3>2. CASE m # n
      <4>1. RowsKept(q, m)
        BY <2>1, NothingWritten
      <4>2. SnapKept(q, m)
        BY <1>2, <2>2, <2>3, <3>2 DEF SnapKept, Retriable, At
      <4> QED BY <1>1, <3>1, <4>1, <4>2, PairStays
    <3>3. CASE m = n
      <4>1. /\ AnswersStand(q, m)' /\ RowsSpent(q, m)'
            /\ \A k : Yeses(q, m, k)' = Yeses(q, m, k) /\ (Tapped(q, m, k)' <=> Tapped(q, m, k))
        <5>1. \A i \in Ids(q, m) : <<q, m, i>> \in settled /\ tick'.run = q /\ tick'.view[m].id = i =>
                tick'.view[m].status = "succeeded"
          <6>1. Len(steps[q][m]) \in Nat
            BY <1>1, RowsAreRows DEF TypeOK
          <6>2. \A i \in Ids(q, m) : i \in Nat
            BY <6>1 DEF Ids
          <6> QED BY <2>2, <3>1, <6>2 DEF PairInv, AnswersStand
        <5> QED BY <2>1, <3>1, <5>1, TableStays
      <4>2. PostsOwed(q, m)' /\ SnapOwed(q, m)'
        BY <1>2, <3>3 DEF PostsOwed, SnapOwed
      <4>3. SnapSpent(q, m)'
        <5>1. ~Retriable(m)' /\ ~At({"send", "accepted"}, m)'
          BY <2>2, <2>3 DEF Retriable, At
        <5>2. FailedOrYes(q, m, Len(steps[q][m]))' <=> FailedOrYes(q, m, Len(steps[q][m]))
          BY <2>1 DEF FailedOrYes
        <5> QED BY <2>1, <2>2, <3>1, <4>1, <5>1, <5>2 DEF PairInv, SnapSpent
      <4> QED BY <4>1, <4>2, <4>3 DEF PairInv
    <3> QED BY <3>2, <3>3
  <2> QED BY <2>4 DEF BudgetInv
<1> QED BY <1>3, <1>4

\* The tick, the answers and the posts stay, and with them what is known of every pair.
LEMMA QuietBudget ==
  ASSUME TypeOK, BudgetInv, UNCHANGED <<tick, yes, settled, inflight, posts, unknown>>,
         \A q \in Runs, m \in Nodes : Len(steps'[q][m]) = Len(steps[q][m]),
         \A q \in Runs, m \in Nodes : \A k \in Ids(q, m) :
           /\ steps'[q][m][k].status = steps[q][m][k].status
           /\ steps'[q][m][k].note = steps[q][m][k].note
  PROVE  BudgetInv'
<1>1. ASSUME NEW q \in Runs, NEW m \in Nodes
      PROVE  PairInv(q, m)'
  <2>1. RowsKept(q, m)
    BY DEF RowsKept, Tapped
  <2>2. SnapKept(q, m)
    BY DEF SnapKept, Retriable, InFrontier, FreshGate, At
  <2> QED BY <2>1, <2>2, PairStays DEF BudgetInv
<1> QED BY <1>1 DEF BudgetInv

\* A new run, the clock, and a step of nothing.
LEMMA ClockBudget ==
  ASSUME RunnerInv, BudgetInv, Clock \/ (\E r \in Runs : StartRun(r)) \/ UNCHANGED vars
  PROVE  BudgetInv'
<1>1. TypeOK /\ steps \in Rows
  BY DEF RunnerInv, TypeOK
<1>2. UNCHANGED <<tick, yes, settled, inflight, posts, unknown>>
  BY DEF Clock, NextDay, CircuitExpires, Age, StartRun, vars, founder, history
<1>3. CASE NextDay
  BY <1>1, <1>2, <1>3, RowsOvernight, QuietBudget
<1>4. CASE \E r \in Runs, n \in Nodes : Age(r, n)
  <2>1. PICK r \in Runs, n \in Nodes : Age(r, n)
    BY <1>4
  <2> QED BY <1>1, <1>2, <2>1, RowAged, QuietBudget
<1>5. CASE CircuitExpires \/ (\E r \in Runs : StartRun(r)) \/ UNCHANGED vars
  <2>1. UNCHANGED steps
    BY <1>5 DEF CircuitExpires, StartRun, vars, record
  <2> QED BY <1>1, <1>2, <2>1, QuietBudget
<1> QED BY <1>3, <1>4, <1>5 DEF Clock

\* A tap is noted only for a row that waits for an answer: none that was answered before,
\* and none the tick may still send.
LEMMA TapCheckBudget ==
  ASSUME RunnerInv, BudgetInv, NEW r \in Runs, NEW n \in Nodes, NEW answer \in BOOLEAN,
         TapCheck(r, n, answer)
  PROVE  BudgetInv'
<1>0. PICK l : l = Len(steps[r][n])
  OBVIOUS
<1>1. TypeOK /\ steps \in Rows
  BY DEF RunnerInv, TypeOK
<1>2. UNCHANGED <<steps, tick, yes, settled, posts, unknown>>
  BY DEF TapCheck, record, history
<1>3. /\ l \in Nat /\ l > 0 /\ steps[r][n][l].status = "waiting"
      /\ Kind[n] = "publish" => steps[r][n][l].note = "gate"
  <2>1. l \in Nat /\ Latest(r, n).status = "waiting"
    BY <1>0, <1>1, RowsAreRows DEF TapCheck
  <2>2. l > 0
    BY <1>0, <1>1, <2>1, LatestIs
  <2>3. Latest(r, n).status = steps[r][n][l].status /\ Latest(r, n).note = steps[r][n][l].note
    BY <1>0, <1>1, <2>2, LatestIs
  <2>4. Kind[n] = "publish" => Latest(r, n).note = "gate"
    BY DEF TapCheck
  <2> QED BY <2>1, <2>2, <2>3, <2>4
<1>4. inflight' = inflight \cup {[step |-> <<r, n, l>>, answer |-> answer]}
  BY <1>0, <1>1, LatestIs DEF TapCheck
<1>5. \A q \in Runs, m \in Nodes : \A i \in Nat :
        Tapped(q, m, i)' <=> Tapped(q, m, i) \/ (q = r /\ m = n /\ i = l)
  <2>1. PICK u : u = [step |-> <<r, n, l>>, answer |-> answer]
    OBVIOUS
  <2>2. u.step = <<r, n, l>> /\ inflight' = inflight \cup {u}
    BY <1>4, <2>1
  <2> SUFFICES ASSUME NEW q \in Runs, NEW m \in Nodes, NEW i \in Nat
               PROVE  Tapped(q, m, i)' <=> Tapped(q, m, i) \/ (q = r /\ m = n /\ i = l)
    OBVIOUS
  <2>3. u.step = <<q, m, i>> <=> q = r /\ m = n /\ i = l
    BY <2>2
  <2>4. (\E t \in inflight' : t.step = <<q, m, i>>) <=>
          (\E t \in inflight : t.step = <<q, m, i>>) \/ u.step = <<q, m, i>>
    BY <2>2
  <2> QED BY <2>3, <2>4 DEF Tapped
<1>6. ASSUME NEW q \in Runs, NEW m \in Nodes, ~(q = r /\ m = n)
      PROVE  PairInv(q, m)'
  <2>1. RowsKept(q, m)
    BY <1>2, <1>5, <1>6 DEF RowsKept
  <2>2. SnapKept(q, m)
    BY <1>2 DEF SnapKept, Retriable, InFrontier, FreshGate, At
  <2> QED BY <1>1, <2>1, <2>2, PairStays DEF BudgetInv
<1>7. PairInv(r, n)'
  <2>1. PairInv(r, n)
    BY DEF BudgetInv
  <2>2. \A k : Yeses(r, n, k)' = Yeses(r, n, k)
    BY <1>2 DEF Yeses
  <2>3. NoneOwed(r, n)' <=> NoneOwed(r, n)
    BY <1>2, <2>2 DEF NoneOwed
  <2>4. AnswersStand(r, n)'
    <3> SUFFICES ASSUME NEW i \in Nat
                 PROVE  /\ <<r, n, i>> \in yes => i \in Ids(r, n)
                        /\ <<r, n, i>> \in settled =>
                             /\ i \in Ids(r, n) /\ steps[r][n][i].status = "succeeded"
                             /\ ~Tapped(r, n, i)'
                             /\ tick.run = r /\ tick.view[n].id = i => tick.view[n].status = "succeeded"
      BY <1>2 DEF AnswersStand, Ids
    <3> QED BY <1>3, <1>5, <2>1 DEF PairInv, AnswersStand
  <2>5. RowsSpent(r, n)'
    BY <1>2, <2>1, <2>2 DEF PairInv, RowsSpent, FailedOrYes, Ids
  <2>6. PostsOwed(r, n)'
    <3> SUFFICES ASSUME Kind[n] = "publish" PROVE PostsOwed(r, n)'
      BY DEF PostsOwed
    <3>1. ~Unsaid(steps[r][n][l]) /\ ~NotSent(steps[r][n][l])
      BY <1>3 DEF Unsaid, NotSent
    <3> QED BY <1>0, <1>2, <2>1, <2>2, <2>3, <3>1 DEF PairInv, PostsOwed
  <2>7. Retriable(n)' <=> Retriable(n)
    BY <1>2 DEF Retriable, InFrontier, FreshGate, At
  <2>8. SnapSpent(r, n)'
    BY <1>2, <2>1, <2>2, <2>7 DEF PairInv, SnapSpent, FailedOrYes, At
  <2>9. SnapOwed(r, n)'
    BY <1>0, <1>2, <1>3, <2>1, <2>3 DEF PairInv, SnapOwed, At
  <2> QED BY <2>4, <2>5, <2>6, <2>8, <2>9 DEF PairInv
<1> QED BY <1>6, <1>7 DEF BudgetInv

\* An answer is written: a no fails its row, a yes counts.
LEMMA TapWriteBudget ==
  ASSUME RunnerInv, BudgetInv, NEW t \in inflight, TapWrite(t)
  PROVE  BudgetInv'
<1>0. PICK r \in Runs, n \in Nodes, i \in Nat :
        t.step = <<r, n, i>> /\ i \in Ids(r, n) /\ t.answer \in BOOLEAN
  <2>1. t \in [step : Runs \X Nodes \X Nat, answer : BOOLEAN]
    BY DEF RunnerInv, TypeOK
  <2>2. /\ t.step[1] \in Runs /\ t.step[2] \in Nodes /\ t.step[3] \in Nat /\ t.answer \in BOOLEAN
        /\ t.step = <<t.step[1], t.step[2], t.step[3]>>
    BY <2>1
  <2>3. t.step[3] \in Ids(t.step[1], t.step[2])
    BY DEF RunnerInv, StoreInv, AnswersAreRows
  <2> QED BY <2>2, <2>3
<1>1. TypeOK /\ steps \in Rows
  BY DEF RunnerInv, TypeOK
<1>2. UNCHANGED <<tick, posts, unknown>> /\ inflight' = inflight \ {t} /\ yes \subseteq yes'
  BY DEF TapWrite
<1>3. PICK status \in {"succeeded", "failed"}, note \in {"yes", "refused"} :
        /\ FinishStep(r, n, i, status, note) /\ (status = "succeeded" <=> t.answer)
        /\ status = "failed" => note = "refused"
  BY <1>0 DEF TapWrite
<1>4. /\ \A q \in Runs, m \in Nodes : Len(steps'[q][m]) = Len(steps[q][m])
      /\ \A q \in Runs, m \in Nodes : \A k \in Ids(q, m) :
           /\ steps'[q][m][k].status = IF q = r /\ m = n /\ k = i THEN status
                                       ELSE steps[q][m][k].status
           /\ steps'[q][m][k].note = IF q = r /\ m = n /\ k = i THEN note
                                     ELSE steps[q][m][k].note
  <2>1. status \in RowStatus /\ note \in Note
    BY DEF RowStatus, Note
  <2> QED BY <1>0, <1>1, <1>3, <2>1, RowWritten
<1>5. \A q \in Runs, m \in Nodes : \A k \in Nat :
        /\ <<q, m, k>> \in yes' <=> <<q, m, k>> \in yes \/ (q = r /\ m = n /\ k = i /\ status = "succeeded")
        /\ <<q, m, k>> \in settled' =>
             \/ <<q, m, k>> \in settled
             \/ q = r /\ m = n /\ k = i /\ status = "succeeded" /\ ~Races(t)
        /\ Tapped(q, m, k)' => Tapped(q, m, k)
  BY <1>0, <1>2, <1>3 DEF TapWrite, Tapped
<1>6. Tapped(r, n, i)
  BY <1>0 DEF Tapped
<1>7. ASSUME NEW q \in Runs, NEW m \in Nodes, ~(q = r /\ m = n)
      PROVE  PairInv(q, m)'
  <2>1. RowsKept(q, m)
    BY <1>2, <1>4, <1>5, <1>7 DEF RowsKept
  <2>2. SnapKept(q, m)
    BY <1>2 DEF SnapKept, Retriable, InFrontier, FreshGate, At
  <2> QED BY <1>1, <2>1, <2>2, PairStays DEF BudgetInv
<1>8. PairInv(r, n)'
  <2>0. PICK l : l = Len(steps[r][n])
    OBVIOUS
  <2>1. PairInv(r, n) /\ l \in Nat /\ l \in Int /\ l - 1 \in Int /\ Ids(r, n) = 1 .. l
    BY <1>1, <2>0, RowsAreRows DEF BudgetInv, Ids
  <2>2. Len(steps'[r][n]) = l /\ Ids(r, n)' = Ids(r, n) /\ (l > 0 => l \in Ids(r, n))
    BY <1>4, <2>0, <2>1 DEF Ids
  <2>3. /\ Yeses(r, n, l) \in Nat /\ Yeses(r, n, l)' \in Nat /\ Yeses(r, n, l) <= Yeses(r, n, l)'
        /\ Yeses(r, n, l - 1) \in Nat /\ Yeses(r, n, l - 1)' \in Nat
        /\ Yeses(r, n, l - 1) <= Yeses(r, n, l - 1)'
        /\ \A k \in 1 .. l : <<r, n, k>> \in yes' /\ <<r, n, k>> \notin yes =>
             Yeses(r, n, l) + 1 <= Yeses(r, n, l)'
    <3>1. Yeses(r, n, l) \in Nat /\ Yeses(r, n, l - 1) \in Nat
      BY <2>1, YesesCount
    <3>2. /\ Yeses(r, n, l)' \in Nat /\ Yeses(r, n, l) <= Yeses(r, n, l)'
          /\ \A k \in 1 .. l : <<r, n, k>> \in yes' /\ <<r, n, k>> \notin yes =>
               Yeses(r, n, l) + 1 <= Yeses(r, n, l)'
      BY <1>2, <2>1, YesesGrow
    <3>3. Yeses(r, n, l - 1)' \in Nat /\ Yeses(r, n, l - 1) <= Yeses(r, n, l - 1)'
      BY <1>2, <2>1, YesesGrow
    <3> QED BY <3>1, <3>2, <3>3
  <2>4. posts[r][n] \in Nat /\ unknown[r][n] \in Nat
    BY <1>1 DEF TypeOK
  <2>5. NoneOwed(r, n) => NoneOwed(r, n)'
    BY <1>2, <2>0, <2>2, <2>3, <2>4 DEF NoneOwed
  <2>6. \A k \in Ids(r, n) : FailedOrYes(r, n, k) \/ k = i => FailedOrYes(r, n, k)'
    <3> SUFFICES ASSUME NEW k \in Ids(r, n), FailedOrYes(r, n, k) \/ k = i
                 PROVE  FailedOrYes(r, n, k)'
      OBVIOUS
    <3>1. k \in Nat
      BY <2>1
    <3>2. CASE k = i
      BY <1>3, <1>4, <1>5, <3>1, <3>2 DEF FailedOrYes
    <3>3. CASE k # i
      BY <1>2, <1>4, <3>3 DEF FailedOrYes
    <3> QED BY <3>2, <3>3
  <2>7. AnswersStand(r, n)'
    <3> SUFFICES ASSUME NEW k \in Nat
                 PROVE  /\ <<r, n, k>> \in yes' => k \in Ids(r, n)
                        /\ <<r, n, k>> \in settled' =>
                             /\ k \in Ids(r, n) /\ steps'[r][n][k].status = "succeeded"
                             /\ ~Tapped(r, n, k)'
                             /\ tick.run = r /\ tick.view[n].id = k => tick.view[n].status = "succeeded"
      BY <1>2, <2>2 DEF AnswersStand
    <3>1. <<r, n, k>> \in yes' => k \in Ids(r, n)
      BY <1>0, <1>5, <2>1 DEF PairInv, AnswersStand
    <3>2. CASE <<r, n, k>> \in settled
      <4>1. k # i /\ ~Tapped(r, n, k)' /\ k \in Ids(r, n)
        BY <1>5, <1>6, <2>1, <3>2 DEF PairInv, AnswersStand
      <4> QED BY <1>4, <2>1, <3>1, <3>2, <4>1 DEF PairInv, AnswersStand
    <3>3. CASE k = i /\ status = "succeeded" /\ ~Races(t)
      <4>1. tick.run # r
        BY <1>0, <3>3 DEF Races
      <4>2. ~Tapped(r, n, k)'
        BY <1>0, <1>2, <3>3 DEF Tapped, Races
      <4>3. steps'[r][n][k].status = "succeeded"
        BY <1>0, <1>4, <3>3
      <4> QED BY <1>0, <3>1, <3>3, <4>1, <4>2, <4>3
    <3> QED BY <1>5, <3>1, <3>2, <3>3
  <2>8. RowsSpent(r, n)'
    <3>1. \A k \in 1 .. l - 1 : FailedOrYes(r, n, k)'
      <4>1. \A k \in 1 .. l - 1 : k \in Ids(r, n) /\ FailedOrYes(r, n, k)
        BY <2>0, <2>1 DEF PairInv, RowsSpent
      <4> QED BY <2>6, <4>1
    <3>2. l <= 1 + Budget + Yeses(r, n, l - 1)'
      <4>1. l <= 1 + Budget + Yeses(r, n, l - 1) /\ Budget \in Nat
        BY <2>0, <2>1, BoundsAssumption DEF PairInv, RowsSpent
      <4> QED BY <2>1, <2>3, <4>1
    <3>3. ASSUME NEW k \in Ids(r, n), Kind[n] = "publish", steps'[r][n][k].status = "succeeded",
                 steps'[r][n][k].note # "accepted"
          PROVE  <<r, n, k>> \in yes'
      <4>1. k \in Nat
        BY <2>1
      <4>2. CASE k = i
        BY <1>4, <1>5, <3>3, <4>1, <4>2
      <4>3. CASE k # i
        BY <1>2, <1>4, <2>1, <3>3, <4>3 DEF PairInv, RowsSpent
      <4> QED BY <4>2, <4>3
    <3> QED BY <2>2, <3>1, <3>2, <3>3 DEF RowsSpent
  <2>9. PostsOwed(r, n)'
    <3> SUFFICES ASSUME Kind[n] = "publish" PROVE PostsOwed(r, n)'
      BY DEF PostsOwed
    <3>1. posts[r][n] <= 1 + unknown[r][n] + Yeses(r, n, l)
      BY <2>0, <2>1 DEF PairInv, PostsOwed
    <3>2. posts'[r][n] <= 1 + unknown'[r][n] + Yeses(r, n, l)'
      BY <1>2, <2>3, <2>4, <3>1
    <3>3. ASSUME l > 0
          PROVE  /\ Unsaid(steps'[r][n][l]) =>
                      /\ <<r, n, l>> \notin yes' /\ ~Tapped(r, n, l)'
                      /\ ~(tick'.run = r /\ At({"accepted"}, n)') => NoneOwed(r, n)'
                 /\ NotSent(steps'[r][n][l]) => NoneOwed(r, n)'
                 /\ <<r, n, l>> \in yes' => NoneOwed(r, n)'
      <4>1. l \in Ids(r, n) /\ l \in 1 .. l
        BY <2>1, <2>2, <3>3
      <4>2. CASE l = i
        <5>1. ~Unsaid(steps'[r][n][l]) /\ ~NotSent(steps'[r][n][l])
          BY <1>3, <1>4, <4>1, <4>2 DEF Unsaid, NotSent
        <5>2. <<r, n, l>> \in yes /\ <<r, n, l>> \in yes' => NoneOwed(r, n)'
          BY <2>0, <2>1, <2>5, <3>3 DEF PairInv, PostsOwed
        <5>3. <<r, n, l>> \notin yes /\ <<r, n, l>> \in yes' => NoneOwed(r, n)'
          <6>1. <<r, n, l>> \notin yes /\ <<r, n, l>> \in yes' => Yeses(r, n, l) + 1 <= Yeses(r, n, l)'
            BY <2>3, <4>1
          <6>2. <<r, n, l>> \notin yes /\ <<r, n, l>> \in yes' =>
                  posts'[r][n] <= unknown'[r][n] + Yeses(r, n, l)'
            BY <1>2, <2>3, <2>4, <3>1, <6>1
          <6> QED BY <2>2, <6>2 DEF NoneOwed
        <5> QED BY <5>1, <5>2, <5>3
      <4>3. CASE l # i
        <5>1. /\ steps'[r][n][l].status = steps[r][n][l].status
              /\ steps'[r][n][l].note = steps[r][n][l].note
              /\ <<r, n, l>> \in yes' <=> <<r, n, l>> \in yes
              /\ Tapped(r, n, l)' => Tapped(r, n, l)
              /\ At({"accepted"}, n)' <=> At({"accepted"}, n)
          BY <1>2, <1>4, <1>5, <2>1, <4>1, <4>3 DEF At
        <5>2. /\ Unsaid(steps'[r][n][l]) <=> Unsaid(steps[r][n][l])
              /\ NotSent(steps'[r][n][l]) <=> NotSent(steps[r][n][l])
          BY <5>1 DEF Unsaid, NotSent
        <5> QED BY <1>2, <2>0, <2>1, <2>5, <3>3, <5>1, <5>2 DEF PairInv, PostsOwed
      <4> QED BY <4>2, <4>3
    <3> QED BY <2>2, <3>2, <3>3 DEF PostsOwed
  <2>10. SnapSpent(r, n)'
    <3> SUFFICES ASSUME tick.run = r
                 PROVE  LET v == tick.view[n] IN
                        /\ v.id \in {0, l}
                        /\ l > 0 /\ (v.status = "failed" \/ v.id = 0) => FailedOrYes(r, n, l)'
                        /\ v.id = 0 => l <= Budget + Yeses(r, n, l)'
                        /\ Kind[n] = "publish" /\ v.status = "succeeded" /\ v.note # "accepted"
                             => <<r, n, l>> \in yes'
                        /\ Retriable(n) /\ v.id > 0 => l <= 1 + tick.older[n] + Yeses(r, n, l - 1)'
                        /\ At({"send", "accepted"}, n) /\ v.status = "waiting" => v.note # "gate"
      BY <1>2, <2>2 DEF SnapSpent, Retriable, InFrontier, FreshGate, At
    <3>1. LET v == tick.view[n] IN
          /\ v.id \in {0, l}
          /\ l > 0 /\ (v.status = "failed" \/ v.id = 0) => FailedOrYes(r, n, l)
          /\ v.id = 0 => l <= Budget + Yeses(r, n, l)
          /\ Kind[n] = "publish" /\ v.status = "succeeded" /\ v.note # "accepted" => <<r, n, l>> \in yes
          /\ Retriable(n) /\ v.id > 0 => l <= 1 + tick.older[n] + Yeses(r, n, l - 1)
          /\ At({"send", "accepted"}, n) /\ v.status = "waiting" => v.note # "gate"
      BY <2>0, <2>1 DEF PairInv, SnapSpent
    <3>2. l > 0 /\ FailedOrYes(r, n, l) => FailedOrYes(r, n, l)'
      BY <2>2, <2>6
    <3>3. tick.older[n] \in Nat /\ Budget \in Nat
      BY <1>1, BoundsAssumption DEF TypeOK, Tick
    <3>4. l <= Budget + Yeses(r, n, l) => l <= Budget + Yeses(r, n, l)'
      BY <2>1, <2>3, <3>3
    <3>5. l <= 1 + tick.older[n] + Yeses(r, n, l - 1) => l <= 1 + tick.older[n] + Yeses(r, n, l - 1)'
      BY <2>1, <2>3, <3>3
    <3> QED BY <1>2, <3>1, <3>2, <3>4, <3>5
  <2>11. SnapOwed(r, n)'
    <3> SUFFICES ASSUME tick.run = r, Kind[n] = "publish"
                 PROVE  LET v == tick.view[n]  row == steps'[r][n][l] IN
                        /\ v.id = 0 \/ NotSent(v) \/ At({"check", "send", "unsent"}, n) => NoneOwed(r, n)'
                        /\ l > 0 /\ Unsaid(v) => Unsaid(row)
                        /\ l > 0 /\ At({"check", "send", "accepted", "unsent"}, n) /\ v.status = "running" =>
                             row.status = "running" /\ <<r, n, l>> \notin yes' /\ ~Tapped(r, n, l)'
      BY <1>2, <2>2 DEF SnapOwed, At
    <3>1. LET v == tick.view[n]  row == steps[r][n][l] IN
          /\ v.id = 0 \/ NotSent(v) \/ At({"check", "send", "unsent"}, n) => NoneOwed(r, n)
          /\ l > 0 /\ Unsaid(v) => Unsaid(row) /\ ~Tapped(r, n, l)
          /\ l > 0 /\ At({"check", "send", "accepted", "unsent"}, n) /\ v.status = "running" =>
               row.status = "running" /\ <<r, n, l>> \notin yes /\ ~Tapped(r, n, l)
      BY <2>0, <2>1 DEF PairInv, SnapOwed, PostsOwed
    <3>2. l > 0 /\ ~Tapped(r, n, l) =>
            /\ steps'[r][n][l].status = steps[r][n][l].status
            /\ steps'[r][n][l].note = steps[r][n][l].note
            /\ <<r, n, l>> \in yes' <=> <<r, n, l>> \in yes
            /\ ~Tapped(r, n, l)'
      BY <1>4, <1>5, <1>6, <2>1, <2>2
    <3>3. l > 0 /\ ~Tapped(r, n, l) /\ Unsaid(steps[r][n][l]) => Unsaid(steps'[r][n][l])
      BY <3>2 DEF Unsaid
    <3> QED BY <2>5, <3>1, <3>2, <3>3
  <2> QED BY <2>7, <2>8, <2>9, <2>10, <2>11 DEF PairInv
<1> QED BY <1>7, <1>8 DEF BudgetInv


-----------------------------------------------------------------------------
(* The budget, the answers and the posts, over a whole behaviour *)

LEMMA InitBudget == Init => BudgetInv
<1> SUFFICES ASSUME Init, NEW r \in Runs, NEW n \in Nodes
             PROVE  PairInv(r, n)
  BY DEF BudgetInv
<1>1. /\ Len(steps[r][n]) = 0 /\ Ids(r, n) = {} /\ posts[r][n] = 0 /\ unknown[r][n] = 0
      /\ yes = {} /\ settled = {}
  BY DEF Init, Ids
<1>2. tick.run # r
  BY IdleIs, BoundsAssumption DEF Init
<1>3. Yeses(r, n, 0) \in Nat /\ Yeses(r, n, 0 - 1) \in Nat /\ Budget \in Nat
  <2>1. 0 \in Int /\ 0 - 1 \in Int
    OBVIOUS
  <2> QED BY <2>1, YesesCount, BoundsAssumption
<1>4. AnswersStand(r, n) /\ SnapSpent(r, n) /\ SnapOwed(r, n)
  BY <1>1, <1>2 DEF AnswersStand, SnapSpent, SnapOwed
<1>5. RowsSpent(r, n) /\ PostsOwed(r, n)
  BY <1>1, <1>3 DEF RowsSpent, PostsOwed
<1> QED BY <1>4, <1>5 DEF PairInv

\* A step of a tick at a node.
LEMMA NodeStepBudget ==
  ASSUME RunnerInv, BudgetInv, NEW n \in Nodes, NodeStep(n)
  PROVE  BudgetInv'
<1>1. CASE MaintainParked(n)
  <2>1. Working("send", n) \/ tick' = Handled("frontier", n)
    BY <1>1 DEF MaintainParked
  <2> QED BY <1>1, <2>1, SendBudget, DeferredBudget
<1>2. CASE CheckChannel(n)
  <2>1. tick' = Handled("start", n) \/ tick' = [tick EXCEPT !.pc = "send"]
    BY <1>2 DEF CheckChannel
  <2> QED BY <1>2, <2>1, SendBudget, StartBudget
<1>3. CASE RefuseContent(n) \/ RecordAccepted(n)
  BY <1>3, StartBudget, DeferredBudget
<1>4. CASE ~(MaintainParked(n) \/ CheckChannel(n) \/ RefuseContent(n) \/ RecordAccepted(n))
  BY <1>4, FrontierBudget, StartBudget, ForgetBudget, StartNodeBudget, OpenGateBudget, CallBudget,
     ActBudget DEF NodeStep
<1> QED BY <1>1, <1>2, <1>3, <1>4

LEMMA NextBudget ==
  ASSUME RunnerInv, BudgetInv, [Next]_vars
  PROVE  BudgetInv'
<1>1. CASE TickStep
  BY <1>1, LeavingBudget, LoadBudget, FrontierDoneBudget, NodeStepBudget DEF TickStep
<1>2. CASE FounderStep
  BY <1>2, TapCheckBudget, TapWriteBudget DEF FounderStep
<1>3. CASE Clock \/ (\E r \in Runs : StartRun(r)) \/ UNCHANGED vars
  BY <1>3, ClockBudget
<1>4. CASE Interrupted
  BY <1>4, LeavingBudget
<1> QED BY <1>1, <1>2, <1>3, <1>4 DEF Next

\* What the rows, the answers and the posts of a node of a run always satisfy.
THEOREM BudgetInvHolds == Spec => [](RunnerInv /\ BudgetInv)
<1>1. Init => RunnerInv /\ BudgetInv
  BY InitRunnerInv, InitBudget
<1>2. RunnerInv /\ BudgetInv /\ [Next]_vars => RunnerInv' /\ BudgetInv'
  BY NextRunnerInv, NextBudget
<1> QED BY <1>1, <1>2, PTL DEF Spec

\* For every graph and every interleaving of taps and ticks: a yes written while neither a
\* tick was at the run nor another tap at the step stands, whatever times out, fails fast
\* or is recovered from a crash afterwards.
THEOREM YesesStand == Spec => []UnracedYesStands
<1>1. RunnerInv /\ BudgetInv => UnracedYesStands
  <2> SUFFICES ASSUME RunnerInv, BudgetInv, NEW x \in settled
               PROVE  steps[x[1]][x[2]][x[3]].status = "succeeded"
    BY DEF UnracedYesStands
  <2>1. x \in Runs \X Nodes \X Nat
    BY DEF RunnerInv, TypeOK
  <2>2. x[1] \in Runs /\ x[2] \in Nodes /\ x[3] \in Nat /\ x = <<x[1], x[2], x[3]>>
    BY <2>1
  <2> QED BY <2>2 DEF BudgetInv, PairInv, AnswersStand
<1> QED BY <1>1, BudgetInvHolds, PTL

\* For every graph, every retry budget and every number of crashes: the rows of a node of a
\* run are at most one more than the budget and the yeses of the founder together.
THEOREM AttemptsStayInBudget == Spec => []AttemptsWithinBudget
<1>1. RunnerInv /\ BudgetInv => AttemptsWithinBudget
  <2> SUFFICES ASSUME RunnerInv, BudgetInv, NEW r \in Runs, NEW n \in Nodes
               PROVE  Len(steps[r][n]) <= 1 + Budget + Yeses(r, n, Len(steps[r][n]))
    BY DEF AttemptsWithinBudget, Yeses
  <2>0. PICK k : k = Len(steps[r][n]) - 1
    OBVIOUS
  <2>1. Len(steps[r][n]) \in Nat
    BY RowsAreRows DEF RunnerInv, TypeOK
  <2>2. k \in Int /\ k + 1 \in Int /\ k + 1 = Len(steps[r][n])
    BY <2>0, <2>1
  <2>3. Yeses(r, n, k) \in Nat /\ Yeses(r, n, k) <= Yeses(r, n, k + 1) /\ Yeses(r, n, k + 1) \in Nat
    BY <2>2, YesesCount
  <2>4. k + 1 <= 1 + Budget + Yeses(r, n, k) /\ Budget \in Nat
    BY <2>0, <2>2, BoundsAssumption DEF BudgetInv, PairInv, RowsSpent
  <2>5. k + 1 <= 1 + Budget + Yeses(r, n, k + 1)
    BY <2>2, <2>3, <2>4
  <2> QED BY <2>2, <2>5
<1> QED BY <1>1, BudgetInvHolds, PTL

\* For every graph and every pattern of lost answers, crashes and parks: a publish node
\* posts once, once more for each retry gate answered yes, and once more for each post the
\* runner had no way to know of.
THEOREM NoDuplicateUnapproved == Spec => []NoUnapprovedDuplicate
<1>1. BudgetInv => NoUnapprovedDuplicate
  BY DEF BudgetInv, PairInv, PostsOwed, NoUnapprovedDuplicate, Yeses, Of
<1> QED BY <1>1, BudgetInvHolds, PTL

-----------------------------------------------------------------------------
(* A run that succeeds has published *)

\* A publish is noted accepted only for a post; and a gate, or an answer that passes for a
\* success, is there only where the budget lets the node start afresh.
Explained(r, n, status, note) ==
  /\ note = "accepted" => posts[r][n] > 0
  /\ note = "gate" \/ (status = "succeeded" /\ note # "accepted") => Budget > 0
InputsPosted(r, h) == \A n \in Deps[h] \cap Of("publish") : posts[r][n] > 0

RowsExplained ==
  \A r \in Runs, n \in Of("publish") : \A i \in Ids(r, n) :
    Explained(r, n, steps[r][n][i].status, steps[r][n][i].note)
SnapExplained == tick.run # None =>
  \A n \in Of("publish") : Explained(tick.run, n, tick.view[n].status, tick.view[n].note)
GateInBudget == tick.pc = "gate" => Budget > 0
TapsInBudget == \A t \in inflight : Kind[t.step[2]] = "publish" => Budget > 0

\* What has started, and what section 4 is about to start, comes after the posts it needs.
StartsPosted == InStart => \A h \in tick.todo : InputsPosted(tick.run, h)
StartedPosted == \A r \in Runs, h \in Nodes : Len(steps[r][h]) > 0 => InputsPosted(r, h)

\* But for optional approvals, a skipped step is one of a run that is failing fast.
SkippedIsOver ==
  \A r \in Runs, n \in Nodes \ Optional : \A i \in Ids(r, n) :
    steps[r][n][i].status = "skipped" /\ run[r] = "running" => tick.run = r /\ tick.pc = "skip"

SnapCloses == SnapExplained /\ GateInBudget /\ StartsPosted
CloseInv == RowsExplained /\ StartedPosted /\ TapsInBudget /\ SnapCloses /\ SkippedIsOver

PostsStay == \A q \in Runs, m \in Nodes : posts[q][m] > 0 => posts'[q][m] > 0
RunsStay == \A q \in Runs : run'[q] = "running" => run[q] \in {"running", "none"}
-----------------------------------------------------------------------------

\* An explanation lasts.
LEMMA ExplainedStays ==
  ASSUME PostsStay, NEW r \in Runs, NEW n \in Nodes, NEW status, NEW note,
         Explained(r, n, status, note)
  PROVE  Explained(r, n, status, note)'
BY DEF PostsStay, Explained

\* Posts that are there stay.
LEMMA InputsPostedStay ==
  ASSUME PostsStay, NEW r \in Runs, NEW h \in Nodes, InputsPosted(r, h)
  PROVE  InputsPosted(r, h)'
BY DEF PostsStay, InputsPosted, Of

\* The table: a row is as it was or explained, and a node that gets its first row is one whose
\* inputs have posts.
LEMMA RowsClose ==
  ASSUME CloseInv, PostsStay,
         \A q \in Runs, m \in Of("publish") : \A k \in Ids(q, m)' :
           \/ /\ k \in Ids(q, m)
              /\ steps'[q][m][k].status = steps[q][m][k].status
              /\ steps'[q][m][k].note = steps[q][m][k].note
           \/ Explained(q, m, steps[q][m][k].status, steps[q][m][k].note)',
         \A q \in Runs, m \in Nodes :
           Len(steps'[q][m]) > 0 => Len(steps[q][m]) > 0 \/ InputsPosted(q, m)
  PROVE  RowsExplained' /\ StartedPosted'
<1>1. RowsExplained'
  <2> SUFFICES ASSUME NEW q \in Runs, NEW m \in Of("publish"), NEW k \in Ids(q, m)'
               PROVE  Explained(q, m, steps[q][m][k].status, steps[q][m][k].note)'
    BY DEF RowsExplained
  <2>1. m \in Nodes
    BY DEF Of
  <2>2. CASE /\ k \in Ids(q, m)
             /\ steps'[q][m][k].status = steps[q][m][k].status
             /\ steps'[q][m][k].note = steps[q][m][k].note
    <3>1. PICK status, note : status = steps[q][m][k].status /\ note = steps[q][m][k].note
      OBVIOUS
    <3>2. Explained(q, m, status, note)
      BY <2>2, <3>1 DEF CloseInv, RowsExplained
    <3>3. Explained(q, m, status, note)'
      BY <2>1, <3>2, ExplainedStays
    <3> QED BY <2>2, <3>1, <3>3 DEF Explained
  <2> QED BY <2>2
<1>2. StartedPosted'
  <2> SUFFICES ASSUME NEW q \in Runs, NEW m \in Nodes, Len(steps'[q][m]) > 0
               PROVE  InputsPosted(q, m)'
    BY DEF StartedPosted
  <2>1. InputsPosted(q, m)
    BY DEF CloseInv, StartedPosted
  <2> QED BY <2>1, InputsPostedStay
<1> QED BY <1>1, <1>2

\* The rows keep their number, their status and their summary.
LEMMA RowsCloseAsTheyAre ==
  ASSUME CloseInv, PostsStay,
         \A q \in Runs, m \in Nodes : Len(steps'[q][m]) = Len(steps[q][m]),
         \A q \in Runs, m \in Nodes : \A k \in Ids(q, m) :
           /\ steps'[q][m][k].status = steps[q][m][k].status
           /\ steps'[q][m][k].note = steps[q][m][k].note
  PROVE  RowsExplained' /\ StartedPosted'
<1>1. \A q \in Runs, m \in Nodes : Ids(q, m)' = Ids(q, m)
  BY DEF Ids
<1>2. Of("publish") \subseteq Nodes
  BY DEF Of
<1>3. \A q \in Runs, m \in Of("publish") : \A k \in Ids(q, m)' :
        /\ k \in Ids(q, m)
        /\ steps'[q][m][k].status = steps[q][m][k].status
        /\ steps'[q][m][k].note = steps[q][m][k].note
  BY <1>1, <1>2
<1> QED BY <1>3, RowsClose

\* The tick leaves its run, or goes on with what it holds of it, explained where it changed.
TickGoesOn ==
  \/ tick'.run = None /\ tick'.pc \in {"idle", "next"}
  \/ /\ tick'.run = tick.run /\ tick.run \in Runs
     /\ \A m \in Of("publish") :
          \/ tick'.view[m].status = tick.view[m].status /\ tick'.view[m].note = tick.view[m].note
          \/ Explained(tick.run, m, tick.view[m].status, tick.view[m].note)'
     /\ InStart' => InStart /\ tick'.todo \subseteq tick.todo /\ tick.todo \subseteq Nodes
     /\ tick'.pc = "gate" => Budget > 0

\* The snapshot: it is explained, and what section 4 starts has the posts of its inputs.
LEMMA SnapClosesOn ==
  ASSUME CloseInv, PostsStay, TickGoesOn
  PROVE  SnapCloses'
<1>1. CASE tick'.run = None /\ tick'.pc \in {"idle", "next"}
  BY <1>1 DEF SnapCloses, SnapExplained, GateInBudget, StartsPosted, InStart
<1>2. CASE tick'.run # None
  <2>1. PICK r \in Runs : r = tick.run /\ r = tick'.run
    BY <1>2 DEF TickGoesOn
  <2>2. SnapExplained'
    <3> SUFFICES ASSUME NEW m \in Of("publish")
                 PROVE  Explained(tick.run, m, tick.view[m].status, tick.view[m].note)'
      BY DEF SnapExplained
    <3>1. CASE tick'.view[m].status = tick.view[m].status /\ tick'.view[m].note = tick.view[m].note
      <4>1. PICK status, note : status = tick.view[m].status /\ note = tick.view[m].note
        OBVIOUS
      <4>2. Explained(r, m, status, note) /\ m \in Nodes
        BY <1>2, <2>1, <4>1 DEF CloseInv, SnapCloses, SnapExplained, Of
      <4>3. Explained(r, m, status, note)'
        BY <4>2, ExplainedStays
      <4> QED BY <2>1, <3>1, <4>1, <4>3 DEF Explained
    <3> QED BY <1>2, <3>1 DEF TickGoesOn
  <2>3. GateInBudget'
    BY <1>2 DEF TickGoesOn, GateInBudget
  <2>4. StartsPosted'
    <3> SUFFICES ASSUME InStart', NEW h \in tick'.todo
                 PROVE  InputsPosted(r, h)'
      BY <2>1 DEF StartsPosted, InputsPosted
    <3>1. InputsPosted(r, h) /\ h \in Nodes
      BY <1>2, <2>1 DEF TickGoesOn, CloseInv, SnapCloses, StartsPosted
    <3> QED BY <3>1, InputsPostedStay
  <2> QED BY <2>2, <2>3, <2>4 DEF SnapCloses
<1> QED BY <1>1, <1>2, BoundsAssumption DEF TickGoesOn

\* A step is skipped by a tick that is failing its run fast, and that is what it stays at.
LEMMA SkippedStaysOver ==
  ASSUME RunnerInv, CloseInv, RunsStay,
         \A q \in Runs, m \in Nodes \ Optional : \A k \in Ids(q, m)' :
           steps'[q][m][k].status = "skipped" =>
             \/ k \in Ids(q, m) /\ steps[q][m][k].status = "skipped"
             \/ tick'.run = q /\ tick'.pc = "skip",
         tick.pc = "skip" =>
           (tick'.pc = "skip" /\ tick'.run = tick.run) \/ run'[tick.run] # "running"
  PROVE  SkippedIsOver'
<1> SUFFICES ASSUME NEW q \in Runs, NEW m \in Nodes \ Optional, NEW k \in Ids(q, m)',
                    steps'[q][m][k].status = "skipped", run'[q] = "running"
             PROVE  tick'.run = q /\ tick'.pc = "skip"
  BY DEF SkippedIsOver
<1>1. CASE k \in Ids(q, m) /\ steps[q][m][k].status = "skipped"
  <2>1. Len(steps[q][m]) \in Nat
    BY RowsAreRows DEF RunnerInv, TypeOK
  <2>2. Len(steps[q][m]) > 0
    BY <1>1, <2>1 DEF Ids
  <2>3. run[q] = "running"
    BY <2>2 DEF RunnerInv, StoreInv, StartedInOrder, RunsStay
  <2>4. tick.run = q /\ tick.pc = "skip"
    BY <1>1, <2>3 DEF CloseInv, SkippedIsOver
  <2> QED BY <2>4
<1> QED BY <1>1

\* Nothing is written but, maybe, a post.
LEMMA QuietCloses ==
  ASSUME RunnerInv, CloseInv, PostsStay, RunsStay, SnapCloses', TapsInBudget',
         \A q \in Runs, m \in Nodes : Len(steps'[q][m]) = Len(steps[q][m]),
         \A q \in Runs, m \in Nodes : \A k \in Ids(q, m) :
           /\ steps'[q][m][k].status = steps[q][m][k].status
           /\ steps'[q][m][k].note = steps[q][m][k].note,
         tick.pc = "skip" =>
           (tick'.pc = "skip" /\ tick'.run = tick.run) \/ run'[tick.run] # "running"
  PROVE  CloseInv'
<1>1. RowsExplained' /\ StartedPosted'
  BY RowsCloseAsTheyAre
<1>2. \A q \in Runs, m \in Nodes : Ids(q, m)' = Ids(q, m)
  BY DEF Ids
<1>3. SkippedIsOver'
  BY <1>2, SkippedStaysOver
<1> QED BY <1>1, <1>3 DEF CloseInv

\* A row is written, and what it says of a publish is explained.
LEMMA WrittenCloses ==
  ASSUME RunnerInv, CloseInv, NEW r \in Runs, NEW n \in Nodes, NEW i \in Ids(r, n),
         NEW status \in RowStatus, NEW note \in Note, FinishStep(r, n, i, status, note),
         Kind[n] = "publish" => Explained(r, n, status, note),
         status = "skipped" => n \in Optional \/ (tick'.run = r /\ tick'.pc = "skip"),
         UNCHANGED <<run, posts>>, TapsInBudget', SnapCloses',
         tick.pc = "skip" => tick'.pc = "skip" /\ tick'.run = tick.run
  PROVE  CloseInv'
<1>1. PostsStay /\ RunsStay
  BY DEF PostsStay, RunsStay
<1>2. /\ \A q \in Runs, m \in Nodes : Len(steps'[q][m]) = Len(steps[q][m])
      /\ \A q \in Runs, m \in Nodes : \A k \in Ids(q, m) :
           /\ steps'[q][m][k].status = IF q = r /\ m = n /\ k = i THEN status
                                       ELSE steps[q][m][k].status
           /\ steps'[q][m][k].note = IF q = r /\ m = n /\ k = i THEN note
                                     ELSE steps[q][m][k].note
  <2>1. steps \in Rows
    BY DEF RunnerInv, TypeOK
  <2> QED BY <2>1, RowWritten
<1>3. \A q \in Runs, m \in Nodes : Ids(q, m)' = Ids(q, m)
  BY <1>2 DEF Ids
<1>4. RowsExplained' /\ StartedPosted'
  <2>1. ASSUME NEW q \in Runs, NEW m \in Of("publish"), NEW k \in Ids(q, m)'
        PROVE  \/ /\ k \in Ids(q, m)
                  /\ steps'[q][m][k].status = steps[q][m][k].status
                  /\ steps'[q][m][k].note = steps[q][m][k].note
               \/ Explained(q, m, steps[q][m][k].status, steps[q][m][k].note)'
    <3>1. m \in Nodes /\ Kind[m] = "publish" /\ k \in Ids(q, m)
      BY <1>3 DEF Of
    <3>2. CASE q = r /\ m = n /\ k = i
      <4>1. Explained(r, n, status, note)'
        BY <1>1, <3>1, <3>2, ExplainedStays
      <4>2. steps'[q][m][k].status = status /\ steps'[q][m][k].note = note
        BY <1>2, <3>1, <3>2
      <4> QED BY <3>2, <4>1, <4>2 DEF Explained
    <3>3. CASE ~(q = r /\ m = n /\ k = i)
      BY <1>2, <3>1, <3>3
    <3> QED BY <3>2, <3>3
  <2> QED BY <1>1, <1>2, <2>1, RowsClose
<1>5. SkippedIsOver'
  <2>1. \A q \in Runs, m \in Nodes \ Optional : \A k \in Ids(q, m)' :
          steps'[q][m][k].status = "skipped" =>
            \/ k \in Ids(q, m) /\ steps[q][m][k].status = "skipped"
            \/ tick'.run = q /\ tick'.pc = "skip"
    BY <1>2, <1>3
  <2> QED BY <1>1, <2>1, SkippedStaysOver
<1> QED BY <1>4, <1>5 DEF CloseInv

\* A tick writes the row it works on.
LEMMA TickWriteCloses ==
  ASSUME RunnerInv, CloseInv, NEW n \in Nodes, tick.view[n].status # "none",
         NEW status \in RowStatus, NEW note \in Note,
         FinishStep(tick.run, n, tick.view[n].id, status, note), UNCHANGED rest,
         Kind[n] = "publish" => Explained(tick.run, n, status, note),
         \/ tick' = Seen("frontier", n, status, note) /\ InFrontier
            /\ (status = "skipped" => n \in Optional)
         \/ tick' = Seen("skip", n, status, note) /\ tick.pc = "skip"
         \/ tick' = Handled("start", n) /\ InStart /\ status # "skipped"
  PROVE  CloseInv'
<1>0. PICK r : r = tick.run
  OBVIOUS
<1>1. TypeOK /\ TickInv /\ tick \in Tick
  BY DEF RunnerInv, TypeOK
<1>2. tick.run # None
  BY <1>1 DEF InFrontier, InStart, TickInv, Between
<1>3. r \in Runs /\ tick.view[n].id \in Ids(r, n)
  BY <1>0, <1>1, <1>2, ViewNamesRow
<1>4. /\ tick'.run = r /\ tick'.todo \subseteq tick.todo
      /\ \A m \in Nodes : \/ tick'.view[m] = tick.view[m]
                          \/ m = n /\ tick'.view[m].status = status /\ tick'.view[m].note = note
      /\ tick'.pc \in {"frontier", "skip", "start"}
      /\ tick'.pc = "start" => InStart
      /\ tick'.pc = "skip" <=> tick.pc = "skip"
  <2>1. CASE tick' = Seen("frontier", n, status, note) /\ InFrontier
    BY <1>0, <1>1, <2>1, SeenIs DEF TickPc, InFrontier
  <2>2. CASE tick' = Seen("skip", n, status, note) /\ tick.pc = "skip"
    BY <1>0, <1>1, <2>2, SeenIs DEF TickPc
  <2>3. CASE tick' = Handled("start", n) /\ InStart
    BY <1>0, <1>1, <2>3, HandledIs DEF TickPc, InStart
  <2> QED BY <2>1, <2>2, <2>3
<1>5. PostsStay /\ UNCHANGED <<run, posts>> /\ TapsInBudget'
  BY DEF rest, founder, PostsStay, CloseInv, TapsInBudget
<1>6. TickGoesOn
  <2>1. InStart' => InStart
    BY <1>4 DEF InStart
  <2>2. ASSUME NEW m \in Of("publish")
        PROVE  \/ tick'.view[m].status = tick.view[m].status /\ tick'.view[m].note = tick.view[m].note
               \/ Explained(tick.run, m, tick.view[m].status, tick.view[m].note)'
    <3>1. m \in Nodes /\ Kind[m] = "publish"
      BY DEF Of
    <3>2. CASE m = n /\ tick'.view[m].status = status /\ tick'.view[m].note = note
      <4>1. Explained(r, n, status, note)'
        BY <1>0, <1>3, <1>5, <3>1, <3>2, ExplainedStays
      <4> QED BY <1>4, <3>2, <4>1 DEF Explained
    <3> QED BY <1>4, <3>1, <3>2
  <2>3. tick.todo \subseteq Nodes
    BY <1>1 DEF Tick
  <2> QED BY <1>0, <1>3, <1>4, <2>1, <2>2, <2>3 DEF TickGoesOn
<1>7. SnapCloses'
  BY <1>5, <1>6, SnapClosesOn
<1>8. status = "skipped" => n \in Optional \/ (tick'.run = r /\ tick'.pc = "skip")
  BY <1>4
<1>9. FinishStep(r, n, tick.view[n].id, status, note)
      /\ (Kind[n] = "publish" => Explained(r, n, status, note))
  BY <1>0
<1> QED BY <1>0, <1>3, <1>4, <1>5, <1>7, <1>8, <1>9, WrittenCloses

\* A step that writes nothing and leaves the snapshot of the tick as it is.
LEMMA PassCloses ==
  ASSUME RunnerInv, CloseInv, UNCHANGED <<run, steps, inflight>>, PostsStay, TickGoesOn,
         tick.pc # "skip"
  PROVE  CloseInv'
<1>1. SnapCloses'
  BY SnapClosesOn
<1>2. RunsStay /\ TapsInBudget'
  <2>1. run \in [Runs -> RunStatus] /\ TapsInBudget
    BY DEF RunnerInv, TypeOK, CloseInv
  <2> QED BY <2>1 DEF RunsStay, TapsInBudget
<1> QED BY <1>1, <1>2, QuietCloses

\* A node of section 2 is put aside.
LEMMA HandledCloses ==
  ASSUME RunnerInv, CloseInv, NEW n \in Nodes, InFrontier, tick' = Handled("frontier", n),
         UNCHANGED <<run, steps, inflight>>, PostsStay
  PROVE  CloseInv'
<1>1. TypeOK /\ TickInv /\ tick \in Tick
  BY DEF RunnerInv, TypeOK
<1>2. tick.run \in Runs /\ tick.pc # "skip"
  BY <1>1 DEF TickInv, Between, Tick, InFrontier
<1>3. tick'.pc = "frontier" /\ tick'.run = tick.run /\ tick'.view = tick.view
  BY <1>1, HandledIs DEF TickPc
<1>4. TickGoesOn
  BY <1>2, <1>3 DEF TickGoesOn, InStart
<1> QED BY <1>2, <1>4, PassCloses

\* Section 2, and the steps section 3 skips.
LEMMA FrontierCloses ==
  ASSUME RunnerInv, CloseInv, NEW n \in Nodes,
         \/ Recover(n) \/ Decline(n) \/ ParkGate(n) \/ SkipStraggler(n)
         \/ MaintainHarvest(n) \/ MaintainAsk(n)
         \/ (RefuseContent(n) \/ RecordAccepted(n)) /\ Deferred(n)
  PROVE  CloseInv'
<1>1. TypeOK /\ TickInv
  BY DEF RunnerInv
<1>2. CASE Recover(n)
  <2>1. InFrontier /\ tick.view[n].status = "running"
    BY <1>2 DEF Recover, Stale, ViewIs, InFrontier
  <2>2. Explained(tick.run, n, "failed", "stale")
    BY DEF Explained
  <2> QED BY <2>1, <2>2, <1>2, TickWriteCloses DEF Recover, RowStatus, Note, rest
<1>3. CASE MaintainHarvest(n)
  <2>1. InFrontier /\ tick.view[n].status = "waiting" /\ Kind[n] # "publish"
    BY <1>1, <1>3 DEF MaintainHarvest, InFrontier, TickInv, Agenda, Of
  <2>2. UNCHANGED rest
    BY <1>3 DEF MaintainHarvest, rest
  <2>3. CASE FinishStep(tick.run, n, tick.view[n].id, "succeeded", "none")
             /\ tick' = Seen("frontier", n, "succeeded", "none")
    BY <2>1, <2>2, <2>3, TickWriteCloses DEF RowStatus, Note
  <2>4. CASE tick' = Handled("frontier", n) /\ UNCHANGED <<steps, done>>
    BY <2>1, <2>2, <2>4, HandledCloses DEF rest, founder, PostsStay
  <2> QED BY <1>3, <2>3, <2>4 DEF MaintainHarvest
<1>4. CASE MaintainAsk(n)
  <2>1. InFrontier /\ tick.view[n].status = "waiting" /\ TimedOut(n) \in {"skipped", "failed"}
        /\ (TimedOut(n) = "skipped" => n \in Optional)
    BY <1>1, <1>4 DEF MaintainAsk, InFrontier, TickInv, Agenda, TimedOut
  <2>2. UNCHANGED rest
    BY <1>4 DEF MaintainAsk, rest
  <2>3. PICK status \in {"skipped", "failed"} : status = TimedOut(n)
    BY <2>1
  <2>4. Explained(tick.run, n, status, "refused")
    BY DEF Explained
  <2>5. status \in RowStatus /\ "refused" \in Note
    BY DEF RowStatus, Note
  <2>6. CASE FinishStep(tick.run, n, tick.view[n].id, TimedOut(n), "refused")
             /\ tick' = Seen("frontier", n, TimedOut(n), "refused")
    BY <2>1, <2>2, <2>3, <2>4, <2>5, <2>6, TickWriteCloses
  <2>7. CASE tick' = Handled("frontier", n) /\ UNCHANGED <<steps, done>>
    BY <2>1, <2>2, <2>7, HandledCloses DEF rest, founder, PostsStay
  <2> QED BY <1>4, <2>6, <2>7 DEF MaintainAsk
<1>5. CASE Decline(n)
  <2>1. InFrontier /\ tick.view[n].status = "failed" /\ n \in Optional
    BY <1>5 DEF Decline, Declined, ViewIs, InFrontier
  <2>2. Explained(tick.run, n, "skipped", "none")
    BY DEF Explained
  <2> QED BY <2>1, <2>2, <1>5, TickWriteCloses DEF Decline, RowStatus, Note, rest
<1>6. CASE ParkGate(n)
  <2>1. InFrontier /\ tick.pc \in AtWork
    BY <1>6 DEF ParkGate, InFrontier, AtWork
  <2>2. tick.view[n].status # "none"
    BY <1>1, <1>6, <2>1 DEF ParkGate, TickInv, AtANode
  <2>3. Explained(tick.run, n, "waiting", "gate")
    BY <1>6 DEF ParkGate, CloseInv, SnapCloses, GateInBudget, Explained
  <2> QED BY <2>1, <2>2, <2>3, <1>6, TickWriteCloses DEF ParkGate, RowStatus, Note, rest
<1>7. CASE SkipStraggler(n)
  <2>1. tick.view[n].status = "waiting"
    BY <1>1, <1>7 DEF SkipStraggler, TickInv, Agenda
  <2>2. Explained(tick.run, n, "skipped", "none")
    BY DEF Explained
  <2>3. tick.pc = "skip"
    BY <1>7 DEF SkipStraggler
  <2> QED BY <2>1, <2>2, <2>3, <1>7, TickWriteCloses DEF SkipStraggler, RowStatus, Note, rest
<1>8. CASE (RefuseContent(n) \/ RecordAccepted(n)) /\ Deferred(n)
  <2>1. tick.pc \in {"send", "accepted"} /\ n = tick.node /\ tick.view[n].status = "waiting"
    BY <1>8 DEF RefuseContent, RecordAccepted, Deferred
  <2>2. InFrontier
    BY <2>1 DEF InFrontier
  <2>3. CASE RefuseContent(n)
    <3>1. Explained(tick.run, n, "failed", "not_sent")
      BY DEF Explained
    <3> QED BY <1>8, <2>1, <2>2, <2>3, <3>1, TickWriteCloses DEF RefuseContent, RowStatus, Note, rest
  <2>4. CASE RecordAccepted(n)
    <3>1. Explained(tick.run, n, "succeeded", "accepted")
      BY <1>1, <2>4 DEF RecordAccepted, TickInv, AtANode, AtWork, Explained
    <3> QED BY <1>8, <2>1, <2>2, <2>4, <3>1, TickWriteCloses DEF RecordAccepted, RowStatus, Note, rest
  <2> QED BY <1>8, <2>3, <2>4
<1> QED BY <1>2, <1>3, <1>4, <1>5, <1>6, <1>7, <1>8

\* Section 4 records or parks what it has started.
LEMMA StartCloses ==
  ASSUME RunnerInv, CloseInv, NEW n \in Nodes,
         \/ RunTask(n) \/ Park(n) \/ RecordUnsent(n) \/ RecordActed(n)
         \/ (CheckChannel(n) \/ Act(n)) /\ tick' = Handled("start", n)
         \/ (RefuseContent(n) \/ RecordAccepted(n)) /\ ~Deferred(n)
  PROVE  CloseInv'
<1>1. TypeOK /\ TickInv /\ tick \in Tick
  BY DEF RunnerInv, TypeOK
<1>2. /\ tick.pc \in AtWork /\ n = tick.node
      /\ tick.pc \in {"task", "park", "check", "unsent", "act", "acted", "send", "accepted"}
  BY DEF RunTask, Park, RecordUnsent, RecordActed, CheckChannel, Act, RefuseContent, RecordAccepted,
         AtWork
<1>3. tick.view[n].status \in {"running", "waiting"} /\ Kind[n] \in KindOf(tick.pc)
      /\ (tick.pc = "accepted" => posts[tick.run][n] > 0)
  BY <1>1, <1>2 DEF TickInv, AtANode
<1>4. InStart
  BY <1>2 DEF InStart, RefuseContent, RecordAccepted, Deferred, RunTask, Park, RecordUnsent,
              RecordActed, CheckChannel, Act
<1>5. Handled("start", n).pc = "start"
  BY <1>1 DEF Handled, Tick
<1>6. PICK status \in RowStatus \ {"skipped"}, note \in Note :
        /\ FinishStep(tick.run, n, tick.view[n].id, status, note)
        /\ note = "accepted" => tick.pc = "accepted"
        /\ note # "gate"
        /\ status = "succeeded" /\ note # "accepted" => Kind[n] # "publish"
  <2> USE DEF RowStatus, Note, KindOf
  <2>1. CASE RunTask(n)
    BY <1>3, <2>1 DEF RunTask
  <2>2. CASE Park(n)
    BY <2>2 DEF Park
  <2>3. CASE RecordUnsent(n)
    BY <2>3 DEF RecordUnsent
  <2>4. CASE RecordActed(n)
    BY <1>3, <2>4 DEF RecordActed
  <2>5. CASE CheckChannel(n) /\ tick' = Handled("start", n)
    <3>1. [tick EXCEPT !.pc = "send"].pc = "send"
      BY <1>1 DEF Tick
    <3>2. FinishStep(tick.run, n, tick.view[n].id, "waiting", "parked")
      BY <1>5, <2>5, <3>1 DEF CheckChannel
    <3> QED BY <3>2
  <2>6. CASE Act(n) /\ tick' = Handled("start", n)
    <3>1. [tick EXCEPT !.pc = "acted"].pc = "acted"
      BY <1>1 DEF Tick
    <3>2. FinishStep(tick.run, n, tick.view[n].id, "failed", "none")
      BY <1>5, <2>6, <3>1 DEF Act
    <3> QED BY <3>2
  <2>7. CASE RefuseContent(n)
    BY <2>7 DEF RefuseContent
  <2>8. CASE RecordAccepted(n)
    BY <2>8 DEF RecordAccepted
  <2> QED BY <2>1, <2>2, <2>3, <2>4, <2>5, <2>6, <2>7, <2>8
<1>7. tick' = Handled("start", n) /\ UNCHANGED rest
  <2>1. CASE RunTask(n) \/ Park(n) \/ RecordUnsent(n) \/ RecordActed(n)
    BY <2>1 DEF RunTask, Park, RecordUnsent, RecordActed, rest
  <2>2. CASE (RefuseContent(n) \/ RecordAccepted(n)) /\ ~Deferred(n)
    BY <2>2 DEF RefuseContent, RecordAccepted, rest
  <2>3. CASE (CheckChannel(n) \/ Act(n)) /\ tick' = Handled("start", n)
    <3>1. [tick EXCEPT !.pc = "acted"].pc = "acted"
      BY <1>1 DEF Tick
    <3> QED BY <1>5, <2>3, <3>1 DEF CheckChannel, Act, rest
  <2> QED BY <2>1, <2>2, <2>3
<1>8. Kind[n] = "publish" => Explained(tick.run, n, status, note)
  BY <1>3, <1>6 DEF Explained
<1> QED BY <1>3, <1>4, <1>6, <1>7, <1>8, TickWriteCloses

\* The tick turns to a post or an effect, or makes it.
LEMMA CallCloses ==
  ASSUME RunnerInv, CloseInv, NEW n \in Nodes,
         \/ MaintainParked(n) \/ Send(n)
         \/ (CheckChannel(n) \/ Act(n)) /\ tick' # Handled("start", n)
  PROVE  CloseInv'
<1>1. TypeOK /\ TickInv /\ tick \in Tick
  BY DEF RunnerInv, TypeOK
<1>2. tick.pc \in {"frontier", "send", "check", "act"}
  BY DEF MaintainParked, Send, CheckChannel, Act
<1>3. tick.run \in Runs /\ tick.todo \subseteq Nodes
  BY <1>1, <1>2 DEF TickInv, Between, Tick
<1>4. UNCHANGED <<run, steps, inflight>>
  BY DEF MaintainParked, Send, CheckChannel, Act, record, founder
<1>5. PostsStay
  <2>1. CASE Send(n)
    <3>1. PICK k \in {0, 1} : posts' = [posts EXCEPT ![tick.run][n] = posts[tick.run][n] + k]
      BY <2>1 DEF Send
    <3>2. posts \in [Runs -> [Nodes -> Nat]] /\ posts[tick.run][n] \in Nat
      BY <1>1, <1>3 DEF TypeOK
    <3>3. \A q \in Runs, m \in Nodes : posts'[q][m] = IF q = tick.run /\ m = n
            THEN posts[tick.run][n] + k ELSE posts[q][m]
      BY <1>3, <3>1, <3>2, CountedUp
    <3> QED BY <3>2, <3>3 DEF PostsStay
  <2>2. CASE UNCHANGED posts
    BY <2>2 DEF PostsStay
  <2> QED BY <2>1, <2>2 DEF MaintainParked, CheckChannel, Act, history
<1>6. /\ tick'.run = None /\ tick'.pc \in {"idle", "next"}
      \/ /\ tick'.run = tick.run /\ tick'.view = tick.view /\ tick'.pc # "gate"
         /\ tick'.todo \subseteq tick.todo /\ (InStart' => InStart)
  <2>1. CASE MaintainParked(n)
    <3>1. tick.view[n].status = "waiting"
      BY <1>1, <2>1 DEF MaintainParked, TickInv, Agenda, InFrontier
    <3>2. CASE tick' = Handled("frontier", n)
      BY <1>1, <3>2, HandledIs DEF TickPc, InStart
    <3>3. CASE Working("send", n)
      BY <1>1, <3>1, <3>3 DEF Working, Tick, InStart
    <3> QED BY <2>1, <3>2, <3>3 DEF MaintainParked
  <2>2. CASE CheckChannel(n) /\ tick' # Handled("start", n)
    <3>1. tick' = [tick EXCEPT !.pc = "send"] /\ tick.pc = "check"
      BY <2>2 DEF CheckChannel
    <3> QED BY <1>1, <3>1 DEF Tick, InStart
  <2>3. CASE Act(n) /\ tick' # Handled("start", n)
    <3>1. tick' = [tick EXCEPT !.pc = "acted"] /\ tick.pc = "act"
      BY <2>3 DEF Act
    <3> QED BY <1>1, <3>1 DEF Tick, InStart
  <2>4. CASE Send(n)
    <3>1. tick.pc = "send" /\ tick.node = n /\ (InStart <=> ~Deferred(n))
      BY <2>4 DEF Send, InStart, Deferred
    <3>2. \/ tick' = [tick EXCEPT !.pc = "accepted"]
          \/ tick' = Handled("frontier", n)
          \/ tick' = [tick EXCEPT !.pc = "unsent"] /\ ~Deferred(n)
          \/ LeaveRun
      BY <2>4 DEF Send
    <3>3. CASE tick' = [tick EXCEPT !.pc = "accepted"]
      BY <1>1, <3>1, <3>3 DEF Tick, InStart, Deferred
    <3>4. CASE tick' = Handled("frontier", n)
      BY <1>1, <3>4, HandledIs DEF TickPc, InStart
    <3>5. CASE tick' = [tick EXCEPT !.pc = "unsent"] /\ ~Deferred(n)
      BY <1>1, <3>1, <3>5 DEF Tick
    <3>6. CASE LeaveRun
      BY <1>1, <3>6, LeaveIs
    <3> QED BY <3>2, <3>3, <3>4, <3>5, <3>6
  <2> QED BY <2>1, <2>2, <2>3, <2>4
<1>7. TickGoesOn
  BY <1>3, <1>6 DEF TickGoesOn
<1>8. tick.pc # "skip"
  BY <1>2
<1> QED BY <1>4, <1>5, <1>7, <1>8, PassCloses

\* A row is put behind the others of a node that has one, or whose inputs have their posts.
LEMMA AppendedCloses ==
  ASSUME RunnerInv, CloseInv, NEW r \in Runs, NEW n \in Nodes, StartStep(r, n),
         UNCHANGED <<run, inflight, posts>>, SnapCloses', tick.pc # "skip",
         Len(steps[r][n]) > 0 \/ InputsPosted(r, n)
  PROVE  CloseInv'
<1>1. steps \in Rows /\ PostsStay /\ RunsStay /\ TapsInBudget'
  BY DEF RunnerInv, TypeOK, PostsStay, RunsStay, CloseInv, TapsInBudget
<1>2. /\ \A q \in Runs, m \in Nodes :
           Len(steps'[q][m]) = IF q = r /\ m = n THEN Len(steps[q][m]) + 1 ELSE Len(steps[q][m])
      /\ \A q \in Runs, m \in Nodes : \A k \in Ids(q, m) : steps'[q][m][k] = steps[q][m][k]
  BY <1>1, RowAppended
<1>3. steps'[r][n][Len(steps[r][n]) + 1] = NewRow(n)
  <2>1. steps[r][n] \in Seq(Row) /\ NewRow(n) \in Row
    BY <1>1 DEF Rows, NewRow, Row, RowStatus, Note
  <2>2. steps'[r][n] = Append(steps[r][n], NewRow(n))
    BY <1>1 DEF StartStep, Rows
  <2> QED BY <2>1, <2>2, AppendProperties
<1>4. NewRow(n).status = "running" /\ NewRow(n).note = "none"
  BY DEF NewRow
<1>5. ASSUME NEW q \in Runs, NEW m \in Nodes, NEW k \in Ids(q, m)'
      PROVE  \/ k \in Ids(q, m) /\ steps'[q][m][k] = steps[q][m][k]
             \/ steps'[q][m][k].status = "running" /\ steps'[q][m][k].note = "none"
  <2>1. Len(steps[q][m]) \in Nat
    BY <1>1, RowsAreRows
  <2>2. k \in Ids(q, m) \/ (q = r /\ m = n /\ k = Len(steps[r][n]) + 1)
    BY <1>2, <2>1 DEF Ids
  <2> QED BY <1>2, <1>3, <1>4, <2>2
<1>6. RowsExplained' /\ StartedPosted'
  <2>1. ASSUME NEW q \in Runs, NEW m \in Of("publish"), NEW k \in Ids(q, m)'
        PROVE  \/ /\ k \in Ids(q, m)
                  /\ steps'[q][m][k].status = steps[q][m][k].status
                  /\ steps'[q][m][k].note = steps[q][m][k].note
               \/ Explained(q, m, steps[q][m][k].status, steps[q][m][k].note)'
    <3>1. m \in Nodes
      BY DEF Of
    <3>2. steps'[q][m][k].status = "running" /\ steps'[q][m][k].note = "none" =>
            Explained(q, m, steps[q][m][k].status, steps[q][m][k].note)'
      BY DEF Explained
    <3> QED BY <1>5, <3>1, <3>2
  <2>2. \A q \in Runs, m \in Nodes :
          Len(steps'[q][m]) > 0 => Len(steps[q][m]) > 0 \/ InputsPosted(q, m)
    BY <1>2
  <2> QED BY <1>1, <2>1, <2>2, RowsClose
<1>7. SkippedIsOver'
  <2>1. \A q \in Runs, m \in Nodes \ Optional : \A k \in Ids(q, m)' :
          steps'[q][m][k].status = "skipped" => k \in Ids(q, m) /\ steps[q][m][k].status = "skipped"
    BY <1>5
  <2> QED BY <1>1, <2>1, SkippedStaysOver
<1> QED BY <1>1, <1>6, <1>7 DEF CloseInv

\* A node starts after the posts it needs; a gate is a second row of its node, or a later one.
LEMMA StartedCloses ==
  ASSUME RunnerInv, CloseInv, NEW n \in Nodes, StartNode(n) \/ OpenGate(n)
  PROVE  CloseInv'
<1>1. TypeOK /\ TickInv /\ tick \in Tick
  BY DEF RunnerInv, TypeOK
<1>2. tick.pc \in {"start", "frontier"} /\ StartStep(tick.run, n) /\ UNCHANGED rest
  BY DEF StartNode, OpenGate, Reached2c, rest, history
<1>3. tick.run \in Runs /\ tick.run # None /\ tick.todo \subseteq Nodes
  BY <1>1, <1>2 DEF TickInv, Between, Tick
<1>4. UNCHANGED <<run, inflight, posts>> /\ PostsStay
  BY <1>2 DEF rest, founder, PostsStay
<1>5. CASE StartNode(n)
  <2>1. n \in tick.todo /\ InStart /\ tick.pc = "start"
    BY <1>5 DEF StartNode, InStart
  <2>2. PICK l : l = Len(steps[tick.run][n]) + 1
    OBVIOUS
  <2>3. PICK e : e = [Unstarted EXCEPT !.id = l, !.status = "running"]
    OBVIOUS
  <2>4. e.status = "running" /\ e.note = "none"
    BY <2>3 DEF Unstarted
  <2>5. tick' = [tick EXCEPT !.pc = FirstStep(Kind[n]), !.node = n,
                   !.view = [tick.view EXCEPT ![n] = e]]
    BY <1>5, <2>2, <2>3 DEF StartNode
  <2>6. FirstStep(Kind[n]) \in {"task", "park", "check", "act"}
    BY GraphAssumption DEF FirstStep, NodeKind
  <2>7. /\ tick'.run = tick.run /\ tick'.todo = tick.todo /\ tick'.pc # "gate"
        /\ \A m \in Nodes : tick'.view[m] = IF m = n THEN e ELSE tick.view[m]
    BY <1>1, <2>5, <2>6 DEF Tick
  <2>8. ASSUME NEW m \in Of("publish")
        PROVE  \/ tick'.view[m].status = tick.view[m].status /\ tick'.view[m].note = tick.view[m].note
               \/ Explained(tick.run, m, tick.view[m].status, tick.view[m].note)'
    <3>1. m \in Nodes
      BY DEF Of
    <3> QED BY <2>4, <2>7, <3>1 DEF Explained
  <2>9. TickGoesOn
    BY <1>3, <2>1, <2>7, <2>8 DEF TickGoesOn
  <2>10. InputsPosted(tick.run, n) /\ SnapCloses'
    BY <1>4, <2>1, <2>9, SnapClosesOn DEF CloseInv, SnapCloses, StartsPosted
  <2> QED BY <1>2, <1>3, <1>4, <2>1, <2>10, AppendedCloses
<1>6. CASE OpenGate(n)
  <2>1. tick.pc = "frontier" /\ Budget > 0 /\ tick.view[n].status # "none"
    BY <1>6 DEF OpenGate, Reached2c, ToRetry, MayRetry
  <2>2. tick.view[n].id \in Ids(tick.run, n) /\ Len(steps[tick.run][n]) \in Nat
    BY <1>1, <1>3, <2>1, ViewNamesRow, RowsAreRows DEF TypeOK
  <2>3. Len(steps[tick.run][n]) > 0
    BY <2>2 DEF Ids
  <2>4. PICK l : l = Len(steps[tick.run][n]) + 1
    OBVIOUS
  <2>5. PICK e : e = [tick.view[n] EXCEPT !.id = l, !.status = "running"]
    OBVIOUS
  <2>6. e.status = "running" /\ e.note = tick.view[n].note
    BY <1>1, <2>5 DEF Tick, Entry
  <2>7. tick' = [tick EXCEPT !.pc = "gate", !.node = n, !.view = [tick.view EXCEPT ![n] = e]]
    BY <1>1, <1>6, <2>4, <2>5 DEF OpenGate, Tick
  <2>8. /\ tick'.run = tick.run /\ tick'.todo = tick.todo /\ tick'.pc = "gate"
        /\ \A m \in Nodes : tick'.view[m] = IF m = n THEN e ELSE tick.view[m]
    BY <1>1, <2>7 DEF Tick
  <2>9. ASSUME NEW m \in Of("publish")
        PROVE  \/ tick'.view[m].status = tick.view[m].status /\ tick'.view[m].note = tick.view[m].note
               \/ Explained(tick.run, m, tick.view[m].status, tick.view[m].note)'
    <3>1. m \in Nodes
      BY DEF Of
    <3>2. CASE m = n
      <4>1. tick.view[n].note = "accepted" => posts[tick.run][n] > 0
        BY <1>3, <3>2 DEF CloseInv, SnapCloses, SnapExplained, Explained
      <4>2. tick'.view[m].status = "running" /\ tick'.view[m].note = tick.view[n].note
        BY <2>6, <2>8, <3>1, <3>2
      <4> QED BY <1>4, <2>1, <2>8, <3>2, <4>1, <4>2 DEF Explained
    <3> QED BY <2>8, <3>1, <3>2
  <2>10. TickGoesOn
    BY <1>3, <2>1, <2>8, <2>9 DEF TickGoesOn, InStart
  <2>11. SnapCloses'
    BY <1>4, <2>10, SnapClosesOn
  <2> QED BY <1>2, <1>3, <1>4, <2>1, <2>3, <2>11, AppendedCloses
<1> QED BY <1>5, <1>6

\* A node is forgotten; section 2 hands over; a run is loaded.
LEMMA ForgetCloses ==
  ASSUME RunnerInv, CloseInv, NEW n \in Nodes, Forget(n)
  PROVE  CloseInv'
<1>1. TypeOK /\ TickInv /\ tick \in Tick
  BY DEF RunnerInv, TypeOK
<1>2. tick.pc = "frontier" /\ UNCHANGED <<run, steps, inflight, posts>>
  BY DEF Forget, Reached2c, record, founder, history
<1>3. tick.run \in Runs
  BY <1>1, <1>2 DEF TickInv, Between, Tick
<1>4. /\ tick'.run = tick.run /\ tick'.pc = "frontier"
      /\ \A m \in Nodes : tick'.view[m] = IF m = n THEN Unstarted ELSE tick.view[m]
  BY <1>1, <1>2 DEF Forget, Tick
<1>5. TickGoesOn
  <2>1. ASSUME NEW m \in Of("publish")
        PROVE  \/ tick'.view[m].status = tick.view[m].status /\ tick'.view[m].note = tick.view[m].note
               \/ Explained(tick.run, m, tick.view[m].status, tick.view[m].note)'
    <3>1. m \in Nodes
      BY DEF Of
    <3> QED BY <1>4, <3>1 DEF Explained, Unstarted
  <2> QED BY <1>3, <1>4, <2>1 DEF TickGoesOn, InStart
<1> QED BY <1>2, <1>5, PassCloses DEF PostsStay

\* Where section 2 ends, a publish that seems to have succeeded has its post: an answer that
\* passes for one would have been forgotten.
LEMMA FrontierDoneCloses ==
  ASSUME RunnerInv, CloseInv, FrontierDone
  PROVE  CloseInv'
<1>1. TypeOK /\ TickInv /\ tick \in Tick
  BY DEF RunnerInv, TypeOK
<1>2. tick.pc = "frontier" /\ ToRetry = {} /\ UNCHANGED <<run, steps, inflight, posts>>
  BY DEF FrontierDone, Reached2c, record, founder, history
<1>3. tick.run \in Runs /\ tick.run # None
  BY <1>1, <1>2 DEF TickInv, Between, Tick
<1>4. /\ tick'.run = tick.run /\ tick'.view = tick.view /\ tick'.pc \in {"skip", "start"}
      /\ tick'.pc = "start" => tick'.todo = ReadyNodes(tick.view)
  BY <1>1 DEF FrontierDone, Section, Tick
<1>5. SnapExplained' /\ GateInBudget'
  BY <1>2, <1>4 DEF CloseInv, SnapCloses, SnapExplained, Explained, GateInBudget
<1>6. StartsPosted'
  <2> SUFFICES ASSUME NEW h \in ReadyNodes(tick.view), NEW n \in Deps[h] \cap Of("publish")
               PROVE  posts[tick.run][n] > 0
    BY <1>2, <1>4 DEF StartsPosted, InStart, InputsPosted
  <2>1. n \in Nodes /\ Kind[n] = "publish" /\ tick.view[n].status = "succeeded"
    BY DEF ReadyNodes, Of
  <2>2. Explained(tick.run, n, tick.view[n].status, tick.view[n].note)
    BY <1>3 DEF CloseInv, SnapCloses, SnapExplained
  <2>3. tick.view[n].note = "accepted"
    BY <1>2, <2>1, <2>2 DEF Explained, ToRetry, YesToRetry, Retryable
  <2> QED BY <2>2, <2>3 DEF Explained
<1>7. TapsInBudget' /\ RunsStay /\ PostsStay
  <2>1. run \in [Runs -> RunStatus]
    BY <1>1 DEF TypeOK
  <2> QED BY <1>2, <2>1 DEF CloseInv, TapsInBudget, RunsStay, PostsStay
<1> QED BY <1>2, <1>5, <1>6, <1>7, QuietCloses DEF SnapCloses

\* A run is loaded: the snapshot says what the rows say.
LEMMA LoadCloses ==
  ASSUME RunnerInv, CloseInv, NEW r \in Runs, LoadRun(r)
  PROVE  CloseInv'
<1>1. TypeOK /\ TickInv /\ tick \in Tick /\ r # None
  BY BoundsAssumption DEF RunnerInv, TypeOK
<1>2. tick.pc = "next" /\ UNCHANGED <<run, steps, inflight, posts>>
  BY DEF LoadRun, record, founder, history
<1>3. CASE run[r] # "running"
  <2>1. tick'.run = None /\ tick'.pc = "next"
    BY <1>1, <1>3 DEF LoadRun, Tick
  <2>2. TickGoesOn /\ PostsStay
    BY <1>2, <2>1 DEF TickGoesOn, PostsStay
  <2> QED BY <1>2, <2>2, PassCloses
<1>4. CASE run[r] = "running"
  <2>1. tick'.run = r /\ tick'.pc = "frontier" /\ \A n \in Nodes : tick'.view[n] = Latest(r, n)
    BY <1>1, <1>4 DEF LoadRun, Tick
  <2>2. SnapExplained'
    <3> SUFFICES ASSUME NEW n \in Of("publish")
                 PROVE  Explained(r, n, Latest(r, n).status, Latest(r, n).note)
      BY <1>2, <2>1 DEF SnapExplained, Explained, Of
    <3>1. n \in Nodes
      BY DEF Of
    <3>2. CASE Len(steps[r][n]) = 0
      <4>1. Latest(r, n) = Unstarted
        BY <1>1, <3>1, <3>2, RowsAreRows DEF TypeOK, Latest
      <4> QED BY <4>1 DEF Unstarted, Explained
    <3>3. CASE Len(steps[r][n]) # 0
      <4>1. Len(steps[r][n]) \in Nat
        BY <1>1, <3>1, RowsAreRows DEF TypeOK
      <4>2. Len(steps[r][n]) \in Ids(r, n) /\ Len(steps[r][n]) > 0
        BY <3>3, <4>1 DEF Ids
      <4> QED BY <1>1, <3>1, <4>2, LatestIs DEF CloseInv, RowsExplained
    <3> QED BY <3>2, <3>3
  <2>3. SnapCloses'
    BY <2>1, <2>2 DEF SnapCloses, GateInBudget, StartsPosted, InStart
  <2>4. TapsInBudget' /\ RunsStay /\ PostsStay
    <3>1. run \in [Runs -> RunStatus]
      BY <1>1 DEF TypeOK
    <3> QED BY <1>2, <3>1 DEF CloseInv, TapsInBudget, RunsStay, PostsStay
  <2> QED BY <1>2, <2>3, <2>4, QuietCloses
<1> QED BY <1>3, <1>4

\* The tick leaves a run: none of its steps was skipped, or it is failed.
LEMMA LeavingCloses ==
  ASSUME RunnerInv, CloseInv,
         \/ Interrupted /\ tick.pc # "skip"
         \/ TickBegin \/ TickEnd \/ FailRun \/ CloseRun
  PROVE  CloseInv'
<1>1. TypeOK /\ TickInv /\ tick \in Tick
  BY DEF RunnerInv, TypeOK
<1>2. UNCHANGED <<steps, inflight, posts>>
  BY DEF Interrupted, TickBegin, TickEnd, FailRun, CloseRun, record, founder, history
<1>3. tick'.run = None /\ tick'.pc \in {"idle", "next"}
  <2>1. CASE TickBegin
    <3>1. PICK exec, parked : tick' = [IdleTick EXCEPT !.pc = "next", !.parked = parked, !.exec = exec]
      BY <2>1 DEF TickBegin
    <3> QED BY <3>1 DEF IdleTick
  <2>2. CASE ~TickBegin
    <3>1. LeaveRun \/ tick' = IdleTick
      BY <2>2 DEF Interrupted, TickEnd, FailRun, CloseRun
    <3> QED BY <1>1, <3>1, LeaveIs
  <2> QED BY <2>1, <2>2
<1>4. RunsStay /\ (tick.pc = "skip" => run'[tick.run] # "running")
  <2>1. run \in [Runs -> RunStatus]
    BY <1>1 DEF TypeOK
  <2>2. CASE (Interrupted /\ tick.pc # "skip") \/ TickEnd
    BY <2>1, <2>2 DEF Interrupted, TickEnd, record, RunsStay
  <2>3. CASE TickBegin
    <3>1. PICK starved : run' = [r \in Runs |-> IF r \in starved THEN "failed" ELSE run[r]]
      BY <2>3 DEF TickBegin
    <3> QED BY <2>1, <2>3, <3>1 DEF RunsStay, TickBegin
  <2>4. CASE FailRun \/ CloseRun
    <3>1. tick.run \in Runs
      BY <1>1, <2>4 DEF FailRun, CloseRun, TickInv, Between, Tick
    <3>2. UNCHANGED run \/ \E end \in {"failed", "succeeded"} : run' = [run EXCEPT ![tick.run] = end]
      BY <2>4 DEF FailRun, CloseRun
    <3>3. tick.pc = "skip" => run' = [run EXCEPT ![tick.run] = "failed"]
      BY <2>4 DEF FailRun, CloseRun
    <3> QED BY <2>1, <3>1, <3>2, <3>3 DEF RunsStay
  <2> QED BY <2>2, <2>3, <2>4
<1>5. SnapCloses' /\ TapsInBudget' /\ PostsStay
  BY <1>2, <1>3 DEF SnapCloses, SnapExplained, GateInBudget, StartsPosted, InStart, CloseInv,
                    TapsInBudget, PostsStay
<1> QED BY <1>2, <1>4, <1>5, QuietCloses

\* The steps nobody but the tick, the clock or a new run takes: rows keep status and summary.
LEMMA OutsideCloses ==
  ASSUME RunnerInv, CloseInv, UNCHANGED <<tick, posts>>, RunsStay, TapsInBudget',
         \A q \in Runs : run[q] = "running" => run'[q] = "running",
         \A q \in Runs, m \in Nodes : Len(steps'[q][m]) = Len(steps[q][m]),
         \A q \in Runs, m \in Nodes : \A k \in Ids(q, m) :
           /\ steps'[q][m][k].status = steps[q][m][k].status
           /\ steps'[q][m][k].note = steps[q][m][k].note
  PROVE  CloseInv'
<1>1. PostsStay /\ SnapCloses'
  BY DEF PostsStay, CloseInv, SnapCloses, SnapExplained, Explained, GateInBudget, StartsPosted,
         InStart, InputsPosted
<1> QED BY <1>1, QuietCloses

\* A retry gate is in the budget, so the answer to it is.
LEMMA TapCheckCloses ==
  ASSUME RunnerInv, CloseInv, NEW r \in Runs, NEW n \in Nodes, NEW answer \in BOOLEAN,
         TapCheck(r, n, answer)
  PROVE  CloseInv'
<1>1. TypeOK
  BY DEF RunnerInv
<1>2. UNCHANGED <<run, steps, tick, posts>>
  BY DEF TapCheck, record, history
<1>3. Kind[n] = "publish" => Budget > 0
  <2> SUFFICES ASSUME Kind[n] = "publish" PROVE Budget > 0
    OBVIOUS
  <2>1. Latest(r, n).status = "waiting" /\ Latest(r, n).note = "gate"
    BY DEF TapCheck
  <2>2. Len(steps[r][n]) \in Nat /\ Len(steps[r][n]) # 0
    BY <1>1, <2>1, LatestIs, RowsAreRows DEF TypeOK
  <2>3. Len(steps[r][n]) \in Ids(r, n) /\ steps[r][n][Len(steps[r][n])].note = "gate"
    BY <1>1, <2>1, <2>2, LatestIs DEF Ids
  <2> QED BY <2>3 DEF CloseInv, RowsExplained, Explained, Of
<1>4. TapsInBudget'
  <2> SUFFICES ASSUME NEW t \in inflight', Kind[t.step[2]] = "publish" PROVE Budget > 0
    BY DEF TapsInBudget
  <2>1. t \in inflight \/ t.step[2] = n
    BY DEF TapCheck
  <2> QED BY <1>3, <2>1 DEF CloseInv, TapsInBudget
<1>5. RunsStay
  <2>1. run \in [Runs -> RunStatus]
    BY <1>1 DEF TypeOK
  <2> QED BY <1>2, <2>1 DEF RunsStay
<1> QED BY <1>2, <1>4, <1>5, OutsideCloses

\* The answer is written: an approval is no publish, and a gate is in the budget.
LEMMA TapWriteCloses ==
  ASSUME RunnerInv, CloseInv, NEW t \in inflight, TapWrite(t)
  PROVE  CloseInv'
<1>1. TypeOK /\ StoreInv
  BY DEF RunnerInv
<1>2. UNCHANGED <<run, tick, posts>>
  BY DEF TapWrite
<1>3. PICK r \in Runs, n \in Nodes, i \in Nat : r = t.step[1] /\ n = t.step[2] /\ i = t.step[3]
  BY <1>1 DEF TypeOK
<1>4. i \in Ids(r, n)
  BY <1>1, <1>3 DEF StoreInv, AnswersAreRows
<1>5. PICK status \in {"succeeded", "failed"}, note \in {"yes", "refused"} :
        FinishStep(r, n, i, status, note)
  BY <1>3 DEF TapWrite
<1>6. status \in RowStatus /\ note \in Note /\ status # "skipped"
  BY DEF RowStatus, Note
<1>7. Kind[n] = "publish" => Explained(r, n, status, note)
  BY <1>3 DEF CloseInv, TapsInBudget, Explained
<1>8. TapsInBudget'
  BY DEF TapWrite, CloseInv, TapsInBudget
<1>9. SnapCloses'
  BY <1>2 DEF CloseInv, SnapCloses, SnapExplained, Explained, GateInBudget, StartsPosted,
              InStart, InputsPosted
<1> QED BY <1>2, <1>4, <1>5, <1>6, <1>7, <1>8, <1>9, WrittenCloses

\* Time passes, or a run starts: no status and no summary of a row changes.
LEMMA ClockCloses ==
  ASSUME RunnerInv, CloseInv, Clock \/ (\E r \in Runs : StartRun(r)) \/ UNCHANGED vars
  PROVE  CloseInv'
<1>1. TypeOK
  BY DEF RunnerInv
<1>2. UNCHANGED <<tick, posts, inflight>>
  BY DEF Clock, NextDay, CircuitExpires, Age, StartRun, vars, founder, record, history
<1>3. RunsStay /\ \A q \in Runs : run[q] = "running" => run'[q] = "running"
  <2>1. run \in [Runs -> RunStatus]
    BY <1>1 DEF TypeOK
  <2>2. CASE \E r \in Runs : StartRun(r)
    BY <2>1, <2>2 DEF StartRun, RunsStay
  <2>3. CASE Clock \/ UNCHANGED vars
    BY <2>1, <2>3 DEF Clock, NextDay, CircuitExpires, Age, record, vars, RunsStay
  <2> QED BY <2>2, <2>3
<1>4. /\ \A q \in Runs, m \in Nodes : Len(steps'[q][m]) = Len(steps[q][m])
      /\ \A q \in Runs, m \in Nodes : \A k \in Ids(q, m) :
           /\ steps'[q][m][k].status = steps[q][m][k].status
           /\ steps'[q][m][k].note = steps[q][m][k].note
  <2>1. steps \in Rows
    BY <1>1 DEF TypeOK
  <2>2. CASE NextDay
    BY <2>1, <2>2, RowsOvernight
  <2>3. CASE \E r \in Runs, n \in Nodes : Age(r, n)
    BY <2>1, <2>3, RowAged
  <2>4. CASE UNCHANGED steps
    BY <2>4
  <2> QED BY <2>2, <2>3, <2>4 DEF Clock, CircuitExpires, StartRun, vars, record
<1>5. TapsInBudget'
  BY <1>2 DEF CloseInv, TapsInBudget
<1> QED BY <1>2, <1>3, <1>4, <1>5, OutsideCloses

\* At first there are no rows and no tick.
LEMMA InitCloses == Init => CloseInv
<1> SUFFICES ASSUME Init PROVE CloseInv
  OBVIOUS
<1>1. tick.pc = "idle" /\ tick.run = None /\ inflight = {}
  BY IdleIs DEF Init, IdleTick
<1>2. \A r \in Runs, n \in Nodes : Len(steps[r][n]) = 0 /\ Ids(r, n) = {}
  BY DEF Init, Ids
<1> QED BY <1>1, <1>2 DEF CloseInv, RowsExplained, StartedPosted, TapsInBudget, SnapCloses,
       SnapExplained, GateInBudget, StartsPosted, InStart, SkippedIsOver, Of

\* Every step a tick takes for a node.
LEMMA NodeStepCloses ==
  ASSUME RunnerInv, CloseInv, NEW n \in Nodes, NodeStep(n)
  PROVE  CloseInv'
<1>1. CASE CheckChannel(n) \/ Act(n)
  BY <1>1, StartCloses, CallCloses
<1>2. CASE RefuseContent(n) \/ RecordAccepted(n)
  BY <1>2, FrontierCloses, StartCloses
<1>3. CASE ~(CheckChannel(n) \/ Act(n) \/ RefuseContent(n) \/ RecordAccepted(n))
  BY <1>3, FrontierCloses, StartCloses, CallCloses, ForgetCloses, StartedCloses DEF NodeStep
<1> QED BY <1>1, <1>2, <1>3

\* Every step that is not the end of a tick amid the steps it fails.
LEMMA NextCloses ==
  ASSUME RunnerInv, CloseInv, [Next]_vars, [tick.pc = "skip" => ~Interrupted]_vars
  PROVE  CloseInv'
<1>1. CASE TickStep
  BY <1>1, LeavingCloses, FrontierDoneCloses, LoadCloses, NodeStepCloses DEF TickStep
<1>2. CASE FounderStep
  BY <1>2, TapCheckCloses, TapWriteCloses DEF FounderStep
<1>3. CASE Clock \/ (\E r \in Runs : StartRun(r)) \/ UNCHANGED vars
  BY <1>3, ClockCloses
<1>4. CASE Interrupted /\ ~UNCHANGED vars
  BY <1>4, LeavingCloses
<1> QED BY <1>1, <1>2, <1>3, <1>4 DEF Next

\* A run is closed as succeeded when nothing is ready, under way or failed. Of the nodes at or
\* above the publish that have not succeeded, one has only inputs that have: it has been
\* started, so it was skipped, and only an optional approval is skipped in a run that goes on.
\* If there is no such node, the publish seems to have succeeded, so the one that waits for it
\* alone has started, and for that there had to be a post.
LEMMA ClosedAsSucceeded ==
  ASSUME RunnerInv, CloseInv, CloseRun, NEW r \in Runs, r = tick.run,
         run[r] # "succeeded", run'[r] = "succeeded",
         NEW n \in Of("publish"), NEW h \in Nodes, Deps[h] = {n}
  PROVE  \/ posts[r][n] > 0
         \/ \E a \in Optional : Upstream(a, n) /\ Latest(r, a).status # "succeeded"
<1>1. TypeOK /\ TickInv /\ n \in Nodes /\ Kind[n] = "publish"
  BY DEF RunnerInv, Of
<1>2. PICK state : state = [m \in Nodes |-> Latest(r, m)]
  OBVIOUS
<1>3. tick.pc = "start" /\ run[r] = "running"
  BY <1>1, BoundsAssumption DEF CloseRun, TickInv, AtARun
<1>4. IsRunComplete(state) /\ {m \in Nodes : state[m].status = "failed"} = {}
  <2>1. run \in [Runs -> RunStatus]
    BY <1>1 DEF TypeOK
  <2>2. ~UNCHANGED run
    BY <1>3
  <2> QED BY <1>2, <2>1, <2>2 DEF CloseRun
<1>5. ASSUME NEW m \in Nodes, \A d \in Deps[m] : Latest(r, d).status = "succeeded"
      PROVE  /\ Len(steps[r][m]) > 0 /\ Latest(r, m).status \in {"succeeded", "skipped"}
             /\ Latest(r, m).status = "skipped" => m \in Optional
  <2>1. Len(steps[r][m]) \in Nat
    BY <1>1, RowsAreRows DEF TypeOK
  <2>2. \A d \in Deps[m] : d \in Nodes
    BY GraphAssumption
  <2>3. state[m].id # 0
    BY <1>2, <1>4, <1>5, <2>2 DEF IsRunComplete, ReadyNodes
  <2>4. Len(steps[r][m]) > 0
    BY <1>1, <1>2, <2>1, <2>3, LatestIs
  <2>5. Latest(r, m).status \in {"succeeded", "skipped"}
    <3>1. state[m].status = Latest(r, m).status
      BY <1>2
    <3>2. Latest(r, m).status \notin {"running", "waiting", "failed"}
      BY <1>4, <3>1 DEF IsRunComplete
    <3>3. Latest(r, m).status \in RowStatus
      BY <1>1, <2>4, LatestIs
    <3> QED BY <3>2, <3>3 DEF RowStatus
  <2>6. ASSUME Latest(r, m).status = "skipped", m \notin Optional
        PROVE  FALSE
    <3>1. Len(steps[r][m]) \in Ids(r, m) /\ steps[r][m][Len(steps[r][m])].status = "skipped"
      BY <1>1, <2>1, <2>4, <2>6, LatestIs DEF Ids
    <3> QED BY <1>3, <2>6, <3>1 DEF CloseInv, SkippedIsOver
  <2> QED BY <2>4, <2>5, <2>6
<1>6. CASE \A m \in Nodes : Upstream(m, n) => Latest(r, m).status = "succeeded"
  <2>1. Upstream(n, n)
    BY DEF Upstream
  <2>2. Len(steps[r][h]) > 0
    BY <1>1, <1>5, <1>6, <2>1
  <2> QED BY <2>2 DEF CloseInv, StartedPosted, InputsPosted
<1>7. CASE \E m \in Nodes : Upstream(m, n) /\ Latest(r, m).status # "succeeded"
  <2> DEFINE S == {m \in Nodes : Upstream(m, n) /\ Latest(r, m).status # "succeeded"}
  <2>1. PICK m \in S : Deps[m] \cap S = {}
    <3>1. S \in SUBSET Nodes /\ S # {}
      BY <1>7
    <3> HIDE DEF S
    <3> QED BY <3>1, GraphAssumption
  <2>2. ASSUME NEW d \in Deps[m]
        PROVE  Latest(r, d).status = "succeeded"
    <3>1. d \in Nodes
      BY GraphAssumption
    <3>2. Upstream(d, n)
      BY GraphAssumption DEF Upstream
    <3> QED BY <2>1, <3>1, <3>2
  <2>3. m \in Optional
    BY <1>5, <2>1, <2>2
  <2> QED BY <2>1, <2>3
<1> QED BY <1>6, <1>7

\* For every graph in which some node waits for each post alone, as `wait` does in the graphs
\* of the registry, and every number of taps, retries and crashes but one in the middle of
\* failing a run fast: a run recorded as succeeded has made each of its posts, or an optional
\* approval above it was not given.
THEOREM SuccessIsPublished ==
  ASSUME \A n \in Of("publish") : \E h \in Nodes : Deps[h] = {n}
  PROVE  Spec /\ [][tick.pc = "skip" => ~Interrupted]_vars => SucceededRunPublished
<1>1. Init => RunnerInv /\ CloseInv
  BY InitRunnerInv, InitCloses
<1>2. RunnerInv /\ CloseInv /\ [Next]_vars /\ [tick.pc = "skip" => ~Interrupted]_vars
        => RunnerInv' /\ CloseInv'
  BY NextRunnerInv, NextCloses
<1>3. RunnerInv /\ CloseInv /\ [Next]_vars =>
        [\A r \in Runs, n \in Of("publish") : run[r] # "succeeded" /\ run'[r] = "succeeded" =>
           \/ posts[r][n] > 0
           \/ \E a \in Optional : Upstream(a, n) /\ Latest(r, a).status # "succeeded"]_vars
  <2> SUFFICES ASSUME RunnerInv, CloseInv, Next, NEW r \in Runs, NEW n \in Of("publish"),
                      run[r] # "succeeded", run'[r] = "succeeded"
               PROVE  \/ posts[r][n] > 0
                      \/ \E a \in Optional : Upstream(a, n) /\ Latest(r, a).status # "succeeded"
    OBVIOUS
  <2>1. PICK h \in Nodes : Deps[h] = {n}
    OBVIOUS
  <2>2. CloseRun /\ r = tick.run
    <3>1. run \in [Runs -> RunStatus] /\ ~UNCHANGED run
      BY DEF RunnerInv, TypeOK
    <3>2. ~(FounderStep \/ Clock \/ Interrupted)
      BY <3>1 DEF FounderStep, TapCheck, TapWrite, Clock, NextDay, CircuitExpires, Age, Interrupted,
                  record
    <3>3. ~ \E q \in Runs : StartRun(q)
      BY <3>1 DEF StartRun
    <3>4. ~ \E m \in Nodes : NodeStep(m)
      BY <3>1 DEF NodeStep, Recover, MaintainHarvest, MaintainAsk, MaintainParked, Decline, Forget,
                  OpenGate, ParkGate, SkipStraggler, StartNode, RunTask, Park, CheckChannel,
                  RefuseContent, Send, RecordAccepted, RecordUnsent, Act, RecordActed, record
    <3>5. ~(TickEnd \/ FrontierDone \/ \E q \in Runs : LoadRun(q))
      BY <3>1 DEF TickEnd, FrontierDone, LoadRun, record
    <3>6. ~TickBegin
      BY <3>1 DEF TickBegin
    <3>7. ~FailRun
      BY <3>1 DEF FailRun
    <3>8. CloseRun
      BY <3>2, <3>3, <3>4, <3>5, <3>6, <3>7 DEF Next, TickStep
    <3> QED BY <3>1, <3>8 DEF CloseRun
  <2> QED BY <2>1, <2>2, ClosedAsSucceeded
<1> QED BY <1>1, <1>2, <1>3, PTL DEF Spec, SucceededRunPublished

=============================================================================
