--------------------------- MODULE StripeWebhooksProofs ---------------------------
(***************************************************************************)
(* Proofs about the mails and the subscription, for any number of polls,   *)
(* requests, events, mails of a sequence and faults. First the mails: NInv *)
(* is their invariant, and a purchase only touches it by suppressing. Then *)
(* the subscription: the types of its state, and that the plan of the      *)
(* tenant settles on what Stripe said last.                                *)
(***************************************************************************)
EXTENDS StripeWebhooks, FiniteSetTheorems, TLAPS

-----------------------------------------------------------------------------
(* The invariant of the mails *)

Count(c) == DOMAIN c = Series /\ \A s \in Series : c[s] \in [Mail(s) -> Nat]

MailTypes ==
  /\ enrollment \in [Series -> RowRec] /\ sendLog \subseteq Series \X Nat
  /\ poll \in [Polls -> PollRec]
  /\ Count(mails) /\ Count(unlogged) /\ Count(overlaps)
  /\ silenced \subseteq Series /\ late \subseteq Series

\* a row is at a step of its sequence until it is completed
RowInside(row, s) == row.step <= Steps[s] /\ (~row.completed => row.step < Steps[s])
RowsInside == \A s \in Series : RowInside(enrollment[s], s)

\* before a step is read, or has been, by q, every earlier one has been logged
Behind(s, k) == \A j \in Nat : j < k => <<s, j>> \in sendLog
PollInside(q) ==
  /\ \A x \in q.todo : x[2] \in Mail(x[1]) /\ Behind(x[1], x[2])
  /\ q.pc \notin {"idle", "next"} => /\ q.seq \in Series /\ q.step \in Mail(q.seq)
                                     /\ Behind(q.seq, q.step)
  /\ q.pc = "log" => mails[q.seq][q.step] > 0
  /\ q.pc \in {"advance", "plan", "chain"} => <<q.seq, q.step>> \in sendLog
  /\ q.pc \in {"plan", "chain"} => q.seq = Growth
  /\ q.pc = "chain" => q.plan = "free"
PollsInside == \A q \in PollRec : (\E p \in Polls : poll[p] = q) => PollInside(q)

\* what is in the log was mailed, and a row's cursor is behind the log
LogInv ==
  /\ \A s \in Series : Behind(s, enrollment[s].step)
  /\ \A s \in Series : \A k \in Mail(s) : <<s, k>> \in sendLog => mails[s][k] > 0

\* each poll that is about to mail a step has one mail to its credit: the first one, or the
\* overlap it made when it looked
Looks(q, s, k) == q.seq = s /\ q.step = k /\ q.pc \in {"recheck", "send"}
Looking(s, k) == {p \in Polls : Looks(poll[p], s, k)}
Opened(s, k) == <<s, k>> \in sendLog \/ \E p \in Polls : Undecided(p, <<s, k>>)
Account(s, k) ==
  mails[s][k] + Cardinality(Looking(s, k))
    <= unlogged[s][k] + overlaps[s][k] + (IF Opened(s, k) THEN 1 ELSE 0)
Accounts == \A s \in Series : \A k \in Mail(s) : Account(s, k)

\* a sequence that has been silenced is suppressed, and no poll is past its re-check
SilenceInv ==
  \A s \in silenced : /\ enrollment[s].exists /\ enrollment[s].suppressed
                      /\ \A p \in Polls : ~(poll[p].pc = "send" /\ poll[p].seq = s)

NInv == MailTypes /\ RowsInside /\ PollsInside /\ LogInv /\ Accounts /\ SilenceInv
-----------------------------------------------------------------------------
(* Counters and sets of polls *)

\* One more at one place.
LEMMA Bumped ==
  ASSUME NEW c, Count(c), NEW s \in Series, NEW k \in Mail(s),
         NEW d, d = [c EXCEPT ![s][k] = @ + 1]
  PROVE  /\ Count(d) /\ d[s][k] = c[s][k] + 1
         /\ \A t \in Series : \A j \in Mail(t) : ~(t = s /\ j = k) => d[t][j] = c[t][j]
BY DEF Count

\* A set of polls grows or shrinks by one poll.
LEMMA OnePoll ==
  ASSUME NEW S \in SUBSET Polls, NEW p \in Polls
  PROVE  /\ Cardinality(S) \in Nat
         /\ Cardinality(S \cup {p}) = IF p \in S THEN Cardinality(S) ELSE Cardinality(S) + 1
         /\ Cardinality(S \ {p}) = IF p \in S THEN Cardinality(S) - 1 ELSE Cardinality(S)
<1>1. IsFiniteSet(S)
  BY NurtureAssumption, FS_Subset
<1> QED BY <1>1, FS_CardinalityType, FS_AddElement, FS_RemoveElement

\* The polls that look at a step, when one poll moves.
LEMMA LookingMoves ==
  ASSUME poll \in [Polls -> PollRec], NEW p \in Polls, NEW q \in PollRec,
         poll' = [poll EXCEPT ![p] = q], NEW s, NEW k
  PROVE  /\ Looks(q, s, k) => Looking(s, k)' = Looking(s, k) \cup {p}
         /\ ~Looks(q, s, k) => Looking(s, k)' = Looking(s, k) \ {p}
BY DEF Looking, Looks

\* Whether a step is opened, when one poll moves.
LEMMA OpenedMoves ==
  ASSUME poll \in [Polls -> PollRec], NEW p \in Polls, NEW q \in PollRec,
         poll' = [poll EXCEPT ![p] = q], NEW s, NEW k
  PROVE  /\ <<s, k>> \in sendLog' => Opened(s, k)'
         /\ <<q.seq, q.step>> = <<s, k>> /\ q.pc \in {"recheck", "send", "log"} => Opened(s, k)'
         /\ Opened(s, k) /\ ~Undecided(p, <<s, k>>) /\ sendLog \subseteq sendLog' => Opened(s, k)'
         /\ <<s, k>> \in sendLog /\ sendLog \subseteq sendLog' => Opened(s, k)'
BY DEF Opened, Undecided

\* An account other than that of the step the poll is at.
LEMMA OtherAccount ==
  ASSUME poll \in [Polls -> PollRec], NEW p \in Polls, NEW q \in PollRec,
         poll' = [poll EXCEPT ![p] = q], NEW s \in Series, NEW k \in Mail(s), Account(s, k),
         mails[s][k] \in Nat, unlogged[s][k] \in Nat, overlaps[s][k] \in Nat,
         ~Looks(q, s, k), ~Undecided(p, <<s, k>>), sendLog \subseteq sendLog',
         mails'[s][k] = mails[s][k], unlogged'[s][k] = unlogged[s][k],
         overlaps'[s][k] >= overlaps[s][k], overlaps'[s][k] \in Nat
  PROVE  Account(s, k)'
<1>1. Looking(s, k)' = Looking(s, k) \ {p} /\ p \notin Looking(s, k)
  BY LookingMoves DEF Looking, Looks, Undecided
<1>2. Opened(s, k) => Opened(s, k)'
  BY OpenedMoves
<1>3. Cardinality(Looking(s, k)') = Cardinality(Looking(s, k)) /\ Cardinality(Looking(s, k)) \in Nat
  BY <1>1, OnePoll DEF Looking
<1> QED BY <1>2, <1>3 DEF Account

\* A poll moves that is not at a step, to where it is not at one either.
LEMMA QuietAccounts ==
  ASSUME MailTypes, Accounts, NEW p \in Polls, NEW q \in PollRec,
         poll' = [poll EXCEPT ![p] = q], UNCHANGED <<sendLog, mails, unlogged, overlaps>>,
         poll[p].pc \notin {"recheck", "send", "log"}, q.pc \notin {"recheck", "send"}
  PROVE  Accounts'
<1> SUFFICES ASSUME NEW s \in Series, NEW k \in Mail(s) PROVE Account(s, k)'
  BY DEF Accounts, Mail
<1>1. mails[s][k] \in Nat /\ unlogged[s][k] \in Nat /\ overlaps[s][k] \in Nat
  BY DEF MailTypes, Count
<1>2. ~Looks(q, s, k) /\ ~Undecided(p, <<s, k>>)
  BY DEF Looks, Undecided
<1>3. Account(s, k) /\ poll \in [Polls -> PollRec]
  BY DEF MailTypes, Accounts
<1>4. overlaps'[s][k] >= overlaps[s][k] /\ overlaps'[s][k] \in Nat
  BY <1>1
<1> QED BY <1>1, <1>2, <1>3, <1>4, OtherAccount

\* What is known of a poll stays known while log and mails only grow.
LEMMA InsideKept ==
  ASSUME NEW q \in PollRec, PollInside(q), sendLog \subseteq sendLog',
         \A s \in Series : \A k \in Mail(s) :
           mails[s][k] \in Nat /\ mails'[s][k] \in Nat /\ mails'[s][k] >= mails[s][k]
  PROVE  PollInside(q)'
<1>1. \A s, k : Behind(s, k) => Behind(s, k)'
  BY DEF Behind
<1>2. q.pc = "log" => mails'[q.seq][q.step] > 0
  BY DEF PollInside
<1>3. \A x \in q.todo : x[2] \in Mail(x[1]) /\ Behind(x[1], x[2])'
  BY <1>1 DEF PollInside
<1>4. q.pc \notin {"idle", "next"} => /\ q.seq \in Series /\ q.step \in Mail(q.seq)
                                     /\ Behind(q.seq, q.step)'
  BY <1>1 DEF PollInside
<1> QED BY <1>2, <1>3, <1>4 DEF PollInside, Mail

\* A step of one poll.
LEMMA PollMoved ==
  ASSUME NInv, NEW p \in Polls, NEW q \in PollRec, poll' = [poll EXCEPT ![p] = q],
         PollInside(q)', sendLog \subseteq sendLog',
         \A s \in Series : \A k \in Mail(s) : mails'[s][k] >= mails[s][k],
         MailTypes', RowsInside', LogInv', SilenceInv', Accounts'
  PROVE  NInv'
<1>1. PollsInside'
  <2> SUFFICES ASSUME NEW q2 \in PollRec, NEW r \in Polls, poll'[r] = q2
               PROVE  PollInside(q2)'
    BY DEF PollsInside
  <2>1. CASE r = p
    BY <2>1 DEF NInv, MailTypes
  <2>2. CASE r # p
    <3>1. PollInside(q2)
      BY <2>2 DEF NInv, MailTypes, PollsInside
    <3>2. \A s \in Series : \A k \in Mail(s) : mails[s][k] \in Nat /\ mails'[s][k] \in Nat
      BY DEF NInv, MailTypes, Count
    <3> QED BY <3>1, <3>2, InsideKept
  <2> QED BY <2>1, <2>2
<1> QED BY <1>1 DEF NInv

\* Everything but the poll is as it was.
LEMMA Frame ==
  ASSUME NInv, NEW p \in Polls, NEW q \in PollRec, poll' = [poll EXCEPT ![p] = q],
         UNCHANGED <<enrollment, sendLog, mails, unlogged, overlaps, silenced, late>>
  PROVE  /\ MailTypes' /\ RowsInside' /\ LogInv' /\ sendLog \subseteq sendLog'
         /\ \A s \in Series : \A k \in Mail(s) :
              mails[s][k] \in Nat /\ mails'[s][k] \in Nat /\ mails'[s][k] >= mails[s][k]
<1>1. MailTypes'
  BY DEF NInv, MailTypes, Count, Mail
<1>2. RowsInside' /\ LogInv'
  BY DEF NInv, RowsInside, RowInside, LogInv, Behind, Mail
<1>3. \A s \in Series : \A k \in Mail(s) : mails[s][k] \in Nat /\ mails'[s][k] = mails[s][k]
  BY DEF NInv, MailTypes, Count
<1> QED BY <1>1, <1>2, <1>3

\* A poll that was not at a step moves to where it is not at one, and nothing else does.
LEMMA QuietMove ==
  ASSUME NInv, NEW p \in Polls, NEW q \in PollRec, poll' = [poll EXCEPT ![p] = q],
         UNCHANGED <<enrollment, sendLog, mails, unlogged, overlaps, silenced, late>>,
         poll[p].pc \notin {"recheck", "send", "log"}, q.pc \notin {"recheck", "send"},
         PollInside(q)
  PROVE  NInv'
<1>1. MailTypes /\ Accounts /\ SilenceInv
  BY DEF NInv
<1>2. Accounts'
  BY <1>1, QuietAccounts
<1>3. SilenceInv'
  BY <1>1 DEF SilenceInv, MailTypes
<1>4. PollInside(q)'
  BY Frame, InsideKept
<1> QED BY <1>2, <1>3, <1>4, Frame, PollMoved

\* The account of the step the poll was at, when the step is mailed, logged or left: dm mails
\* more, du of them not logged.
LEMMA AccountAtHand ==
  ASSUME MailTypes, NEW p \in Polls, NEW q \in PollRec, poll' = [poll EXCEPT ![p] = q],
         NEW s \in Series, NEW k \in Mail(s), poll[p].seq = s, poll[p].step = k,
         poll[p].pc \in {"recheck", "send", "log"}, Account(s, k),
         NEW dm \in Nat, mails'[s][k] = mails[s][k] + dm,
         NEW du \in Nat, unlogged'[s][k] = unlogged[s][k] + du, overlaps' = overlaps,
         NEW was \in {0, 1}, was = 1 <=> Looks(poll[p], s, k),
         NEW will \in {0, 1}, will = 1 <=> Looks(q, s, k),
         (Opened(s, k)' /\ dm + will <= du + was) \/ dm + will + 1 <= du + was
  PROVE  Account(s, k)'
<1>1. Opened(s, k)
  BY DEF Opened, Undecided
<1>2. /\ Cardinality(Looking(s, k)) \in Nat
      /\ Cardinality(Looking(s, k)') = Cardinality(Looking(s, k)) - was + will
  <2>1. PICK L \in SUBSET Polls : L = Looking(s, k)
    BY DEF Looking
  <2>2. PICK M : M = Looking(s, k)'
    OBVIOUS
  <2>3. p \in L <=> was = 1
    BY <2>1 DEF Looking
  <2>4. (will = 1 => M = L \cup {p}) /\ (will = 0 => M = L \ {p})
    <3>1. poll \in [Polls -> PollRec]
      BY DEF MailTypes
    <3> QED BY <2>1, <2>2, <3>1, LookingMoves DEF Looking
  <2>5. Cardinality(L) \in Nat /\ Cardinality(M) = Cardinality(L) - was + will
    <3>1. /\ Cardinality(L) \in Nat
          /\ Cardinality(L \cup {p}) = IF p \in L THEN Cardinality(L) ELSE Cardinality(L) + 1
          /\ Cardinality(L \ {p}) = IF p \in L THEN Cardinality(L) - 1 ELSE Cardinality(L)
      BY OnePoll
    <3>2. was = (IF p \in L THEN 1 ELSE 0) /\ M = IF will = 1 THEN L \cup {p} ELSE L \ {p}
      BY <2>3, <2>4
    <3> QED BY <3>1, <3>2
  <2> QED BY <2>1, <2>2, <2>5
<1>3. mails[s][k] \in Nat /\ unlogged[s][k] \in Nat /\ overlaps[s][k] \in Nat
  BY DEF MailTypes, Count
<1>4. mails[s][k] + Cardinality(Looking(s, k)) <= unlogged[s][k] + overlaps[s][k] + 1
  BY <1>1 DEF Account
<1>5. CASE Opened(s, k)' /\ dm + will <= du + was
  <2>1. mails'[s][k] + Cardinality(Looking(s, k)') <= unlogged'[s][k] + overlaps'[s][k] + 1
    BY <1>2, <1>3, <1>4, <1>5
  <2> QED BY <1>5, <2>1 DEF Account
<1>6. CASE dm + will + 1 <= du + was
  <2>1. mails'[s][k] + Cardinality(Looking(s, k)') <= unlogged'[s][k] + overlaps'[s][k]
    BY <1>2, <1>3, <1>4, <1>6
  <2>2. unlogged'[s][k] + overlaps'[s][k] \in Nat
    BY <1>3
  <2> QED BY <2>1, <2>2, <1>2, <1>3 DEF Account
<1> QED BY <1>5, <1>6

\* the counter is as it was, or one higher at one place
Adds(c, d, s, k, n) == (n = 0 /\ d = c) \/ (n = 1 /\ d = [c EXCEPT ![s][k] = @ + 1])

\* The step a poll is at is mailed, logged or left.
LEMMA StepAtHand ==
  ASSUME NInv, NEW p \in Polls, NEW q \in PollRec, poll' = [poll EXCEPT ![p] = q],
         NEW s, NEW k, Undecided(p, <<s, k>>),
         UNCHANGED <<enrollment, overlaps, silenced, late>>,
         sendLog' \in {sendLog, sendLog \cup {<<s, k>>}}, sendLog' # sendLog => mails[s][k] > 0,
         NEW dm \in {0, 1}, Adds(mails, mails', s, k, dm),
         NEW du \in {0, 1}, Adds(unlogged, unlogged', s, k, du),
         NEW was \in {0, 1}, was = 1 <=> Looks(poll[p], s, k),
         NEW will \in {0, 1}, will = 1 <=> Looks(q, s, k),
         q.pc \in {"recheck", "send"} => q.seq = s /\ q.step = k,
         (Opened(s, k)' /\ dm + will <= du + was) \/ dm + will + 1 <= du + was,
         q.pc = "send" => ~enrollment[s].suppressed,
         s \in Series /\ k \in Mail(s) => PollInside(q)'
  PROVE  NInv'
<1>1. /\ MailTypes /\ RowsInside /\ PollsInside /\ LogInv /\ Accounts /\ SilenceInv
      /\ poll[p] \in PollRec
  BY DEF NInv, MailTypes
<1>2. s \in Series /\ k \in Mail(s) /\ k \in Nat
  <2>1. PollInside(poll[p])
    BY <1>1 DEF PollsInside
  <2> QED BY <2>1 DEF PollInside, Mail, Undecided
<1>3. /\ Count(mails') /\ mails'[s][k] = mails[s][k] + dm
      /\ \A t \in Series : \A j \in Mail(t) : ~(t = s /\ j = k) => mails'[t][j] = mails[t][j]
  <2>1. CASE dm = 0
    BY <1>1, <1>2, <2>1 DEF MailTypes, Count, Adds
  <2>2. CASE dm = 1
    <3>1. mails' = [mails EXCEPT ![s][k] = @ + 1] /\ Count(mails)
      BY <1>1, <2>2 DEF MailTypes, Adds
    <3>2. PICK c, d : c = mails /\ d = mails'
      OBVIOUS
    <3>3. /\ Count(d) /\ d[s][k] = c[s][k] + 1
          /\ \A t \in Series : \A j \in Mail(t) : ~(t = s /\ j = k) => d[t][j] = c[t][j]
      <4>1. Count(c) /\ d = [c EXCEPT ![s][k] = @ + 1]
        BY <3>1, <3>2
      <4> QED BY <1>2, <4>1 DEF Count
    <3> QED BY <2>2, <3>2, <3>3
  <2> QED BY <2>1, <2>2
<1>4. /\ Count(unlogged') /\ unlogged'[s][k] = unlogged[s][k] + du
      /\ \A t \in Series : \A j \in Mail(t) : ~(t = s /\ j = k) => unlogged'[t][j] = unlogged[t][j]
  <2>1. CASE du = 0
    BY <1>1, <1>2, <2>1 DEF MailTypes, Count, Adds
  <2>2. CASE du = 1
    <3>1. unlogged' = [unlogged EXCEPT ![s][k] = @ + 1] /\ Count(unlogged)
      BY <1>1, <2>2 DEF MailTypes, Adds
    <3>2. PICK c, d : c = unlogged /\ d = unlogged'
      OBVIOUS
    <3>3. /\ Count(d) /\ d[s][k] = c[s][k] + 1
          /\ \A t \in Series : \A j \in Mail(t) : ~(t = s /\ j = k) => d[t][j] = c[t][j]
      <4>1. Count(c) /\ d = [c EXCEPT ![s][k] = @ + 1]
        BY <3>1, <3>2
      <4> QED BY <1>2, <4>1 DEF Count
    <3> QED BY <2>2, <3>2, <3>3
  <2> QED BY <2>1, <2>2
<1>5. /\ sendLog \subseteq sendLog' /\ sendLog' \subseteq Series \X Nat
      /\ \A t \in Series : \A j \in Mail(t) :
           mails[t][j] \in Nat /\ mails'[t][j] \in Nat /\ mails'[t][j] >= mails[t][j]
  BY <1>1, <1>2, <1>3 DEF MailTypes, Count
<1>6. MailTypes' /\ RowsInside'
  BY <1>1, <1>3, <1>4, <1>5 DEF MailTypes, RowsInside, RowInside, Count, Mail
<1>7. LogInv'
  <2>1. \A t \in Series : \A j \in Mail(t) : <<t, j>> \in sendLog' => mails'[t][j] > 0
    BY <1>1, <1>2, <1>5 DEF LogInv
  <2>2. \A t, j : Behind(t, j) => Behind(t, j)'
    BY <1>5 DEF Behind
  <2> QED BY <1>1, <2>1, <2>2 DEF LogInv, Mail, Behind
<1>8. SilenceInv'
  BY <1>1 DEF SilenceInv, MailTypes
<1>9. Account(s, k)'
  <2>1. Account(s, k) /\ dm \in Nat /\ du \in Nat
    BY <1>1, <1>2 DEF Accounts
  <2>2. overlaps' = overlaps /\ mails'[s][k] = mails[s][k] + dm /\ unlogged'[s][k] = unlogged[s][k] + du
    BY <1>3, <1>4
  <2>3. poll[p].seq = s /\ poll[p].step = k /\ poll[p].pc \in {"recheck", "send", "log"}
    BY DEF Undecided
  <2> QED BY <1>1, <1>2, <2>1, <2>2, <2>3, AccountAtHand, ZenonT(30)
<1>10. ASSUME NEW t \in Series, NEW j \in Mail(t) PROVE Account(t, j)'
  <2>1. CASE t = s /\ j = k
    BY <1>9, <2>1
  <2>2. CASE ~(t = s /\ j = k)
    <3>1. ~Looks(q, t, j) /\ ~Undecided(p, <<t, j>>)
      BY <2>2 DEF Looks, Undecided
    <3>2. mails'[t][j] = mails[t][j] /\ unlogged'[t][j] = unlogged[t][j]
      BY <1>3, <1>4, <2>2
    <3>3. /\ mails[t][j] \in Nat /\ unlogged[t][j] \in Nat /\ overlaps[t][j] \in Nat
          /\ Account(t, j) /\ poll \in [Polls -> PollRec]
      BY <1>1 DEF MailTypes, Count, Accounts
    <3>4. overlaps'[t][j] >= overlaps[t][j] /\ overlaps'[t][j] \in Nat
      BY <3>3
    <3> QED BY <1>5, <3>1, <3>2, <3>3, <3>4, OtherAccount
  <2> QED BY <2>1, <2>2
<1>11. Accounts'
  BY <1>10 DEF Accounts, Mail
<1> QED BY <1>2, <1>5, <1>6, <1>7, <1>8, <1>11, PollMoved
-----------------------------------------------------------------------------
(* The steps of a poll *)

\* The poll goes to another step of the same row.
LEMMA Went ==
  ASSUME NInv, NEW p \in Polls, NEW pc \in PollPc, Goto(p, pc)
  PROVE  \E q \in PollRec : /\ poll' = [poll EXCEPT ![p] = q] /\ q.pc = pc
                            /\ q.seq = poll[p].seq /\ q.step = poll[p].step
                            /\ q.todo = poll[p].todo
<1>1. poll[p] \in PollRec
  BY DEF NInv, MailTypes
<1>2. PICK q : q = [poll[p] EXCEPT !.pc = pc]
  OBVIOUS
<1>3. q \in PollRec
  BY <1>1, <1>2 DEF PollRec
<1>4. q.pc = pc /\ q.seq = poll[p].seq /\ q.step = poll[p].step /\ q.todo = poll[p].todo
  BY <1>1, <1>2 DEF PollRec
<1>5. poll' = [poll EXCEPT ![p] = q]
  BY <1>2 DEF Goto
<1> QED BY <1>3, <1>4, <1>5

\* The poll turns to its next row, or ends, or dies.
LEMMA Turned ==
  ASSUME NInv, NEW p \in Polls, NextRow(p) \/ poll' = [poll EXCEPT ![p] = IdlePoll]
  PROVE  \E q \in PollRec : /\ poll' = [poll EXCEPT ![p] = q] /\ PollInside(q)
                            /\ q.pc \in {"idle", "next"} /\ q.seq = None
<1>1. poll[p] \in PollRec /\ PollInside(poll[p])
  BY DEF NInv, MailTypes, PollsInside
<1>2. IdlePoll \in PollRec /\ PollInside(IdlePoll)
  BY DEF IdlePoll, PollRec, PollPc, PollInside
<1>3. PICK q : q = [IdlePoll EXCEPT !.pc = "next", !.todo = poll[p].todo]
  OBVIOUS
<1>4. q \in PollRec /\ PollInside(q) /\ q.pc = "next" /\ q.seq = None
  BY <1>1, <1>3 DEF IdlePoll, PollRec, PollPc, PollInside
<1>5. poll' = [poll EXCEPT ![p] = IdlePoll] \/ poll' = [poll EXCEPT ![p] = q]
  BY <1>3 DEF NextRow
<1> QED BY <1>2, <1>4, <1>5 DEF IdlePoll

\* A step is left: refused, suppressed or broken off; a mail that nothing is known of is
\* among the unlogged ones.
LEMMA StepLeft ==
  ASSUME NInv, NEW p \in Polls, poll[p].pc \in {"recheck", "send", "log"},
         NextRow(p) \/ poll' = [poll EXCEPT ![p] = IdlePoll],
         UNCHANGED <<enrollment, sendLog, overlaps, silenced, late>>,
         NEW dm \in {0, 1}, Adds(mails, mails', poll[p].seq, poll[p].step, dm),
         NEW du \in {0, 1}, Adds(unlogged, unlogged', poll[p].seq, poll[p].step, du),
         du = IF poll[p].pc = "log" THEN dm + 1 ELSE dm
  PROVE  NInv'
<1>1. PICK q \in PollRec : /\ poll' = [poll EXCEPT ![p] = q] /\ PollInside(q)
                           /\ q.pc \in {"idle", "next"} /\ q.seq = None
  BY Turned
<1>2. PICK s, k : s = poll[p].seq /\ k = poll[p].step
  OBVIOUS
<1>3. Undecided(p, <<s, k>>) /\ ~Looks(q, s, k)
  BY <1>1, <1>2 DEF Undecided, Looks
<1>4. Adds(mails, mails', s, k, dm) /\ Adds(unlogged, unlogged', s, k, du)
  BY <1>2
<1>5. PICK was \in {0, 1} : was = 1 <=> Looks(poll[p], s, k)
  OBVIOUS
<1>6. PICK will \in {0, 1} : will = 0
  OBVIOUS
<1>7. will = 1 <=> Looks(q, s, k)
  BY <1>3, <1>6
<1>8. dm + will + 1 <= du + was
  BY <1>2, <1>5, <1>6 DEF Looks
<1>9. /\ UNCHANGED <<enrollment, overlaps, silenced, late>>
      /\ sendLog' \in {sendLog, sendLog \cup {<<s, k>>}}
      /\ sendLog' # sendLog => mails[s][k] > 0
      /\ q.pc \in {"recheck", "send"} => q.seq = s /\ q.step = k
      /\ q.pc = "send" => ~enrollment[s].suppressed
      /\ s \in Series /\ k \in Mail(s) => PollInside(q)'
  BY <1>1 DEF PollInside, Behind
<1> QED BY <1>1, <1>3, <1>4, <1>5, <1>7, <1>8, <1>9, StepAtHand, ZenonT(30)

\* A step is taken: the mail may go, has gone, or is in the log.
LEMMA StepTaken ==
  ASSUME NInv, NEW p \in Polls, NEW pc \in {"send", "log", "advance"}, Goto(p, pc),
         poll[p].pc \in {"recheck", "send", "log"},
         UNCHANGED <<enrollment, unlogged, overlaps, silenced, late>>,
         NEW dm \in {0, 1}, Adds(mails, mails', poll[p].seq, poll[p].step, dm),
         pc = "send" => /\ poll[p].pc = "recheck" /\ dm = 0 /\ sendLog' = sendLog
                        /\ ~enrollment[poll[p].seq].suppressed,
         pc = "log" => poll[p].pc = "send" /\ dm = 1 /\ sendLog' = sendLog,
         pc = "advance" => /\ poll[p].pc = "log" /\ dm = 0
                           /\ sendLog' = sendLog \cup {<<poll[p].seq, poll[p].step>>}
  PROVE  NInv'
<1>1. pc \in PollPc
  BY DEF PollPc
<1>2. PICK q \in PollRec : /\ poll' = [poll EXCEPT ![p] = q] /\ q.pc = pc
                           /\ q.seq = poll[p].seq /\ q.step = poll[p].step
                           /\ q.todo = poll[p].todo
  BY <1>1, Went
<1>3. PICK s, k : s = poll[p].seq /\ k = poll[p].step
  OBVIOUS
<1>4. PICK was, will, du \in {0, 1} :
        (was = 1 <=> Looks(poll[p], s, k)) /\ (will = 1 <=> Looks(q, s, k)) /\ du = 0
  <2>1. \E was \in {0, 1} : was = 1 <=> Looks(poll[p], s, k)
    OBVIOUS
  <2>2. \E will \in {0, 1} : will = 1 <=> Looks(q, s, k)
    OBVIOUS
  <2> QED BY <2>1, <2>2
<1>5. Undecided(p, <<s, k>>) /\ Adds(mails, mails', s, k, dm) /\ Adds(unlogged, unlogged', s, k, du)
  BY <1>3, <1>4 DEF Undecided, Adds
<1>6. Opened(s, k)'
  <2>1. <<q.seq, q.step>> = <<s, k>> /\ poll \in [Polls -> PollRec]
    BY <1>2, <1>3 DEF NInv, MailTypes
  <2>2. CASE pc \in {"send", "log"}
    BY <1>2, <2>1, <2>2, OpenedMoves
  <2>3. CASE pc = "advance"
    BY <1>3, <2>3 DEF Opened
  <2> QED BY <2>2, <2>3
<1>7. dm + will <= du + was
  BY <1>2, <1>3, <1>4 DEF Looks
<1>8. PollInside(poll[p]) /\ Count(mails) /\ poll[p] \in PollRec
  BY DEF NInv, PollsInside, MailTypes
<1>9. s \in Series /\ k \in Mail(s) /\ mails[s][k] \in Nat
  BY <1>3, <1>8 DEF PollInside, Count
<1>10. PollInside(q)'
  <2>1. \A t, j : Behind(t, j) => Behind(t, j)'
    BY DEF Behind
  <2>2. \A x \in q.todo : x[2] \in Mail(x[1]) /\ Behind(x[1], x[2])'
    BY <1>2, <1>8, <2>1 DEF PollInside
  <2>3. q.seq \in Series /\ q.step \in Mail(q.seq) /\ Behind(q.seq, q.step)'
    BY <1>2, <1>8, <2>1 DEF PollInside
  <2>4. q.pc = "log" => mails'[q.seq][q.step] > 0
    <3>1. q.pc = "log" => mails' = [mails EXCEPT ![s][k] = @ + 1]
      BY <1>2, <1>5 DEF Adds
    <3>2. q.pc = "log" => mails'[s][k] = mails[s][k] + 1
      BY <1>8, <1>9, <3>1 DEF Count
    <3> QED BY <1>2, <1>3, <1>9, <3>2
  <2>5. /\ q.pc \in {"advance", "plan", "chain"} => <<q.seq, q.step>> \in sendLog'
        /\ q.pc \notin {"plan", "chain"}
    BY <1>2
  <2> QED BY <2>2, <2>3, <2>4, <2>5 DEF PollInside, Mail
<1>11. /\ UNCHANGED <<enrollment, overlaps, silenced, late>>
       /\ sendLog' \in {sendLog, sendLog \cup {<<s, k>>}}
       /\ sendLog' # sendLog => mails[s][k] > 0
       /\ q.pc \in {"recheck", "send"} => q.seq = s /\ q.step = k
       /\ q.pc = "send" => ~enrollment[s].suppressed
       /\ s \in Series /\ k \in Mail(s) => PollInside(q)'
  BY <1>2, <1>3, <1>8, <1>10 DEF PollInside
<1> QED BY <1>2, <1>4, <1>5, <1>6, <1>7, <1>11, StepAtHand, ZenonT(30)

LEMMA FetchDueKeeps == ASSUME NInv, NEW p \in Polls, FetchDue(p) PROVE NInv'
<1>1. PICK q : q = [IdlePoll EXCEPT !.pc = "next",
                                    !.todo = {<<s, enrollment[s].step>> : s \in DueRows}]
  OBVIOUS
<1>2. \A s \in DueRows : s \in Series /\ enrollment[s].step \in Mail(s) /\ Behind(s, enrollment[s].step)
  <2> SUFFICES ASSUME NEW s \in DueRows PROVE s \in Series /\ enrollment[s].step \in Mail(s)
                                              /\ Behind(s, enrollment[s].step)
    OBVIOUS
  <2>1. s \in Series /\ enrollment[s] \in RowRec /\ ~enrollment[s].completed
    BY DEF DueRows, NInv, MailTypes
  <2>2. enrollment[s].step \in Nat /\ enrollment[s].step < Steps[s] /\ Behind(s, enrollment[s].step)
    BY <2>1 DEF NInv, RowsInside, RowInside, LogInv, RowRec
  <2>3. Steps[s] \in Nat \ {0}
    BY <2>1, NurtureAssumption
  <2> QED BY <2>1, <2>2, <2>3 DEF Mail
<1>3. q.todo \subseteq Series \X Nat /\ \A x \in q.todo : x[2] \in Mail(x[1]) /\ Behind(x[1], x[2])
  BY <1>1, <1>2 DEF IdlePoll, Mail
<1>4. q \in PollRec /\ PollInside(q) /\ q.pc = "next"
  <2>1. q.pc = "next" /\ q.seq = None /\ q.step = 0
    BY <1>1 DEF IdlePoll
  <2>2. q = [pc |-> "next", todo |-> q.todo, seq |-> None, step |-> 0, plan |-> "unread"]
    BY <1>1 DEF IdlePoll
  <2> QED BY <1>3, <2>1, <2>2 DEF PollRec, PollPc, PollInside
<1>5. /\ poll' = [poll EXCEPT ![p] = q] /\ poll[p].pc \notin {"recheck", "send", "log"}
      /\ UNCHANGED <<enrollment, sendLog, mails, unlogged, overlaps, silenced, late>>
      /\ q.pc \notin {"recheck", "send"}
  BY <1>1, <1>4 DEF FetchDue, history
<1> QED BY <1>4, <1>5, QuietMove

LEMMA RecheckKeeps == ASSUME NInv, NEW p \in Polls, Recheck(p) PROVE NInv'
<1>1. CASE enrollment[poll[p].seq].suppressed
  <2>1. PICK d \in {0, 1} : d = 0
    OBVIOUS
  <2>2. /\ Adds(mails, mails', poll[p].seq, poll[p].step, d)
        /\ Adds(unlogged, unlogged', poll[p].seq, poll[p].step, d)
        /\ d = IF poll[p].pc = "log" THEN d + 1 ELSE d
        /\ poll[p].pc \in {"recheck", "send", "log"} /\ NextRow(p)
        /\ UNCHANGED <<enrollment, sendLog, overlaps, silenced, late>>
    BY <1>1, <2>1 DEF Recheck, Adds, history
  <2> QED BY <2>2, StepLeft
<1>2. CASE ~enrollment[poll[p].seq].suppressed
  <2>1. PICK d \in {0, 1}, pc \in {"send", "log", "advance"} : d = 0 /\ pc = "send"
    OBVIOUS
  <2>2. /\ Adds(mails, mails', poll[p].seq, poll[p].step, d) /\ Goto(p, pc)
        /\ poll[p].pc = "recheck" /\ sendLog' = sendLog
        /\ UNCHANGED <<enrollment, unlogged, overlaps, silenced, late>>
    BY <1>2, <2>1 DEF Recheck, Adds, history
  <2> QED BY <1>2, <2>1, <2>2, StepTaken
<1> QED BY <1>1, <1>2

LEMMA SendKeeps == ASSUME NInv, NEW p \in Polls, Send(p) PROVE NInv'
<1>1. /\ poll[p].pc = "send" /\ sendLog' = sendLog
      /\ UNCHANGED <<enrollment, overlaps, silenced, late>>
  BY DEF Send
<1>2. CASE /\ Goto(p, "log") /\ unlogged' = unlogged
           /\ mails' = [mails EXCEPT ![poll[p].seq][poll[p].step] = @ + 1]
  <2>1. PICK d \in {0, 1}, pc \in {"send", "log", "advance"} : d = 1 /\ pc = "log"
    OBVIOUS
  <2>2. Adds(mails, mails', poll[p].seq, poll[p].step, d)
    BY <1>2, <2>1 DEF Adds
  <2> QED BY <1>1, <1>2, <2>1, <2>2, StepTaken
<1>3. CASE NextRow(p) /\ mails' = mails /\ unlogged' = unlogged
  <2>1. PICK d \in {0, 1} : d = 0
    OBVIOUS
  <2>2. /\ Adds(mails, mails', poll[p].seq, poll[p].step, d)
        /\ Adds(unlogged, unlogged', poll[p].seq, poll[p].step, d)
    BY <1>3, <2>1 DEF Adds
  <2> QED BY <1>1, <1>3, <2>2, StepLeft
<1>4. CASE /\ NextRow(p)
           /\ mails' = [mails EXCEPT ![poll[p].seq][poll[p].step] = @ + 1]
           /\ unlogged' = [unlogged EXCEPT ![poll[p].seq][poll[p].step] = @ + 1]
  <2>1. PICK d \in {0, 1} : d = 1
    OBVIOUS
  <2>2. /\ Adds(mails, mails', poll[p].seq, poll[p].step, d)
        /\ Adds(unlogged, unlogged', poll[p].seq, poll[p].step, d)
    BY <1>4, <2>1 DEF Adds
  <2> QED BY <1>1, <1>4, <2>2, StepLeft
<1> QED BY <1>2, <1>3, <1>4 DEF Send

LEMMA InsertLogKeeps == ASSUME NInv, NEW p \in Polls, InsertLog(p) PROVE NInv'
<1>1. PICK d \in {0, 1}, pc \in {"send", "log", "advance"} : d = 0 /\ pc = "advance"
  OBVIOUS
<1>2. /\ Adds(mails, mails', poll[p].seq, poll[p].step, d) /\ Goto(p, pc) /\ poll[p].pc = "log"
      /\ sendLog' = sendLog \cup {<<poll[p].seq, poll[p].step>>}
      /\ UNCHANGED <<enrollment, unlogged, overlaps, silenced, late>>
  BY <1>1 DEF InsertLog, Adds, history
<1> QED BY <1>1, <1>2, StepTaken

\* The account of a step that a poll has just found unlogged.
LEMMA AccountOpened ==
  ASSUME MailTypes, NEW p \in Polls, NEW q \in PollRec, poll' = [poll EXCEPT ![p] = q],
         NEW s \in Series, NEW k \in Mail(s), poll[p].pc = "next", Account(s, k),
         UNCHANGED <<sendLog, mails, unlogged>>, <<s, k>> \notin sendLog,
         Looks(q, s, k), NEW n \in {0, 1}, n = 1 <=> Opened(s, k), Adds(overlaps, overlaps', s, k, n)
  PROVE  Account(s, k)'
<1>1. mails[s][k] \in Nat /\ unlogged[s][k] \in Nat /\ overlaps[s][k] \in Nat
  BY DEF MailTypes, Count
<1>2. overlaps'[s][k] = overlaps[s][k] + n
  BY <1>1 DEF Adds, MailTypes, Count
<1>3. Opened(s, k)'
  BY DEF Opened, Undecided, MailTypes, Looks
<1>4. /\ Cardinality(Looking(s, k)) \in Nat
      /\ Cardinality(Looking(s, k)') = Cardinality(Looking(s, k)) + 1
  <2>1. poll \in [Polls -> PollRec]
    BY DEF MailTypes
  <2>2. PICK L \in SUBSET Polls : L = Looking(s, k)
    BY DEF Looking
  <2>3. Looking(s, k)' = L \cup {p} /\ p \notin L
    BY <2>1, <2>2, LookingMoves DEF Looking, Looks
  <2>4. Cardinality(L) \in Nat /\ Cardinality(L \cup {p}) = Cardinality(L) + 1
    BY <2>3, OnePoll
  <2> QED BY <2>2, <2>3, <2>4
<1>5. mails[s][k] + Cardinality(Looking(s, k)) <= unlogged[s][k] + overlaps[s][k] + n
  BY DEF Account
<1>6. /\ mails'[s][k] = mails[s][k] /\ unlogged'[s][k] = unlogged[s][k]
  OBVIOUS
<1>7. mails'[s][k] + Cardinality(Looking(s, k)') <= unlogged'[s][k] + overlaps'[s][k] + 1
  BY <1>1, <1>2, <1>4, <1>5, <1>6
<1> QED BY <1>3, <1>7 DEF Account

LEMMA CheckLogKeeps == ASSUME NInv, NEW p \in Polls, CheckLog(p) PROVE NInv'
<1>1. PICK x \in poll[p].todo :
        /\ poll' = [poll EXCEPT ![p] = [IdlePoll EXCEPT
                      !.pc = IF x \in sendLog THEN "advance" ELSE "recheck",
                      !.todo = poll[p].todo \ {x}, !.seq = x[1], !.step = x[2]]]
        /\ overlaps' = IF x \notin sendLog /\ \E q \in Polls : Undecided(q, x)
                         THEN [overlaps EXCEPT ![x[1]][x[2]] = @ + 1] ELSE overlaps
  BY DEF CheckLog
<1>2. PICK s, k : s = x[1] /\ k = x[2]
  OBVIOUS
<1>t. PICK pc, todo : pc = (IF x \in sendLog THEN "advance" ELSE "recheck") /\ todo = poll[p].todo \ {x}
  OBVIOUS
<1>3. PICK q : q = [pc |-> pc, todo |-> todo, seq |-> s, step |-> k, plan |-> "unread"]
  OBVIOUS
<1>4. /\ poll[p] \in PollRec /\ PollInside(poll[p]) /\ poll[p].pc = "next"
      /\ UNCHANGED <<enrollment, sendLog, mails, unlogged, silenced, late>>
  BY DEF NInv, MailTypes, PollsInside, CheckLog
<1>5. x = <<s, k>> /\ s \in Series /\ k \in Nat /\ k \in Mail(s) /\ Behind(s, k)
  BY <1>2, <1>4 DEF PollRec, PollInside
<1>6. q \in PollRec /\ poll' = [poll EXCEPT ![p] = q]
  <2>1. q = [IdlePoll EXCEPT !.pc = pc, !.todo = todo, !.seq = s, !.step = k]
    <3>1. [IdlePoll EXCEPT !.pc = pc]
            = [pc |-> pc, todo |-> {}, seq |-> None, step |-> 0, plan |-> "unread"]
      BY DEF IdlePoll
    <3>2. [[pc |-> pc, todo |-> {}, seq |-> None, step |-> 0, plan |-> "unread"] EXCEPT !.todo = todo]
            = [pc |-> pc, todo |-> todo, seq |-> None, step |-> 0, plan |-> "unread"]
      OBVIOUS
    <3>3. [[pc |-> pc, todo |-> todo, seq |-> None, step |-> 0, plan |-> "unread"] EXCEPT !.seq = s]
            = [pc |-> pc, todo |-> todo, seq |-> s, step |-> 0, plan |-> "unread"]
      OBVIOUS
    <3>4. [[pc |-> pc, todo |-> todo, seq |-> s, step |-> 0, plan |-> "unread"] EXCEPT !.step = k]
            = [pc |-> pc, todo |-> todo, seq |-> s, step |-> k, plan |-> "unread"]
      OBVIOUS
    <3> QED BY Zenon, <1>3, <3>1, <3>2, <3>3, <3>4
  <2>2. poll' = [poll EXCEPT ![p] = q]
    BY <1>1, <1>2, <1>t, <2>1
  <2> QED BY <1>3, <1>4, <1>5, <1>t, <2>2 DEF PollRec, PollPc, MailTypes
<1>7. PollInside(q)
  BY <1>3, <1>4, <1>5, <1>t DEF PollInside
<1>8. CASE x \in sendLog
  <2>1. q.pc = "advance" /\ overlaps' = overlaps
    BY <1>1, <1>3, <1>8, <1>t
  <2> QED BY <1>4, <1>6, <1>7, <2>1, QuietMove
<1>9. CASE x \notin sendLog
  <2>1. q.pc = "recheck" /\ q.seq = s /\ q.step = k /\ <<s, k>> \notin sendLog
    BY <1>3, <1>5, <1>9, <1>t
  <2>2. PICK n \in {0, 1} : n = 1 <=> Opened(s, k)
    OBVIOUS
  <2>3. Adds(overlaps, overlaps', s, k, n)
    BY <1>1, <1>2, <1>5, <1>9, <2>2 DEF Adds, Opened
  <2>4. MailTypes /\ Accounts /\ Account(s, k) /\ Count(overlaps)
    BY <1>5 DEF NInv, Accounts, MailTypes
  <2>5. Account(s, k)'
    <3>1. Looks(q, s, k)
      BY <2>1 DEF Looks
    <3> QED BY <1>4, <1>5, <1>6, <2>1, <2>2, <2>3, <2>4, <3>1, AccountOpened
  <2>6. /\ Count(overlaps')
        /\ \A t \in Series : \A j \in Mail(t) : ~(t = s /\ j = k) => overlaps'[t][j] = overlaps[t][j]
    BY <1>5, <2>3, <2>4 DEF Adds, Count
  <2>7. ASSUME NEW t \in Series, NEW j \in Mail(t) PROVE Account(t, j)'
    <3>1. CASE t = s /\ j = k
      BY <2>5, <3>1
    <3>2. CASE ~(t = s /\ j = k)
      <4>1. ~Looks(q, t, j) /\ ~Undecided(p, <<t, j>>)
        BY <1>4, <2>1, <3>2 DEF Looks, Undecided
      <4>2. /\ mails[t][j] \in Nat /\ unlogged[t][j] \in Nat /\ overlaps[t][j] \in Nat
            /\ Account(t, j) /\ poll \in [Polls -> PollRec]
        BY <2>4 DEF MailTypes, Count, Accounts
      <4>3. overlaps'[t][j] >= overlaps[t][j] /\ overlaps'[t][j] \in Nat
        BY <2>6, <3>2, <4>2
      <4>4. /\ mails'[t][j] = mails[t][j] /\ unlogged'[t][j] = unlogged[t][j]
            /\ sendLog \subseteq sendLog'
        BY <1>4
      <4> QED BY <1>6, <4>1, <4>2, <4>3, <4>4, OtherAccount
    <3> QED BY <3>1, <3>2
  <2>8. Accounts'
    BY <2>7 DEF Accounts, Mail
  <2>9. MailTypes' /\ RowsInside' /\ LogInv' /\ SilenceInv'
    <3>1. MailTypes'
      BY <1>4, <1>6, <2>4, <2>6 DEF MailTypes, Count, Mail
    <3>2. RowsInside' /\ LogInv'
      BY <1>4 DEF NInv, RowsInside, RowInside, LogInv, Behind, Mail
    <3>3. SilenceInv'
      BY <1>4, <1>6, <2>1, <2>4 DEF NInv, SilenceInv, MailTypes
    <3> QED BY <3>1, <3>2, <3>3
  <2>10. /\ PollInside(q)' /\ sendLog \subseteq sendLog'
         /\ \A t \in Series : \A j \in Mail(t) : mails'[t][j] >= mails[t][j]
    <3>1. \A t \in Series : \A j \in Mail(t) : mails[t][j] \in Nat /\ mails'[t][j] = mails[t][j]
      BY <1>4, <2>4 DEF MailTypes, Count
    <3> QED BY <1>4, <1>6, <1>7, <3>1, InsideKept
  <2> QED BY <1>6, <2>8, <2>9, <2>10, PollMoved
<1> QED BY <1>8, <1>9

LEMMA ChainCheckPlanKeeps == ASSUME NInv, NEW p \in Polls, ChainCheckPlan(p) PROVE NInv'
<1>1. /\ poll[p].pc = "plan" /\ poll[p] \in PollRec /\ PollInside(poll[p])
      /\ UNCHANGED <<enrollment, sendLog, mails, unlogged, overlaps, silenced, late>>
  BY DEF ChainCheckPlan, history, NInv, MailTypes, PollsInside
<1>2. \E q \in PollRec : /\ poll' = [poll EXCEPT ![p] = q] /\ PollInside(q)
                         /\ q.pc \in {"idle", "next", "chain"}
  <2>1. CASE NextRow(p)
    BY <2>1, Turned
  <2>2. CASE /\ planTier = "free"
             /\ poll' = [poll EXCEPT ![p] = [@ EXCEPT !.pc = "chain", !.plan = planTier]]
    <3>1. PICK q : q = [poll[p] EXCEPT !.pc = "chain", !.plan = "free"]
      OBVIOUS
    <3>2. /\ q \in PollRec /\ q.pc = "chain" /\ q.plan = "free"
          /\ q.seq = poll[p].seq /\ q.step = poll[p].step /\ q.todo = poll[p].todo
      BY <1>1, <3>1 DEF PollRec, PollPc, Tier
    <3>3. PollInside(q)
      BY <1>1, <3>2 DEF PollInside
    <3>4. poll' = [poll EXCEPT ![p] = q]
      BY <2>2, <3>1
    <3> QED BY <3>2, <3>3, <3>4
  <2> QED BY <2>1, <2>2 DEF ChainCheckPlan, HasPaidSubscription
<1> QED BY <1>1, <1>2, QuietMove

LEMMA PollFailsKeeps == ASSUME NInv, NEW p \in Polls, PollFails(p) PROVE NInv'
<1>1. /\ NextRow(p) \/ poll' = [poll EXCEPT ![p] = IdlePoll]
      /\ UNCHANGED <<enrollment, sendLog, mails, overlaps, silenced, late>>
      /\ unlogged' = IF poll[p].pc = "log"
                       THEN [unlogged EXCEPT ![poll[p].seq][poll[p].step] = @ + 1] ELSE unlogged
  BY DEF PollFails
<1>2. CASE poll[p].pc \in {"recheck", "send", "log"}
  <2>1. PICK dm, du \in {0, 1} : dm = 0 /\ du = IF poll[p].pc = "log" THEN 1 ELSE 0
    OBVIOUS
  <2>2. /\ Adds(mails, mails', poll[p].seq, poll[p].step, dm)
        /\ Adds(unlogged, unlogged', poll[p].seq, poll[p].step, du)
        /\ du = IF poll[p].pc = "log" THEN dm + 1 ELSE dm
    BY <1>1, <2>1 DEF Adds
  <2>3. UNCHANGED <<enrollment, sendLog, overlaps, silenced, late>>
    BY <1>1
  <2> QED BY <1>1, <1>2, <2>2, <2>3, StepLeft
<1>3. CASE poll[p].pc \notin {"recheck", "send", "log"}
  <2>1. UNCHANGED <<enrollment, sendLog, mails, unlogged, overlaps, silenced, late>>
    BY <1>1, <1>3
  <2>2. PICK q \in PollRec : /\ poll' = [poll EXCEPT ![p] = q] /\ PollInside(q)
                             /\ q.pc \in {"idle", "next"} /\ q.seq = None
    BY <1>1, Turned
  <2> QED BY <1>3, <2>1, <2>2, QuietMove
<1> QED BY <1>2, <1>3
-----------------------------------------------------------------------------
(* The rows *)

\* A poll that is at no mail writes a row.
LEMMA RowWritten ==
  ASSUME NInv, NEW p \in Polls, NEW q \in PollRec, poll' = [poll EXCEPT ![p] = q],
         UNCHANGED <<sendLog, mails, unlogged, overlaps, silenced>>, late' \subseteq Series,
         poll[p].pc \notin {"recheck", "send", "log"}, q.pc \notin {"recheck", "send"},
         PollInside(q), enrollment' \in [Series -> RowRec], RowsInside',
         \A s \in Series : /\ Behind(s, enrollment'[s].step)
                           /\ enrollment[s].exists =>
                                /\ enrollment'[s].exists
                                /\ enrollment'[s].suppressed = enrollment[s].suppressed
  PROVE  NInv'
<1>1. MailTypes /\ Accounts /\ SilenceInv /\ LogInv
  BY DEF NInv
<1>2. Accounts'
  BY <1>1, QuietAccounts
<1>3. SilenceInv'
  BY <1>1 DEF SilenceInv, MailTypes
<1>4. MailTypes'
  BY <1>1 DEF MailTypes, Count, Mail
<1>5. LogInv'
  BY <1>1 DEF LogInv, Behind, Mail
<1>6. /\ sendLog \subseteq sendLog'
      /\ \A s \in Series : \A k \in Mail(s) :
           mails[s][k] \in Nat /\ mails'[s][k] \in Nat /\ mails'[s][k] >= mails[s][k]
  BY <1>1 DEF MailTypes, Count
<1>7. PollInside(q)'
  BY <1>6, InsideKept
<1> QED BY <1>2, <1>3, <1>4, <1>5, <1>6, <1>7, PollMoved

\* A row is suppressed or falls due.
LEMMA RowsMarked ==
  ASSUME NInv, UNCHANGED <<poll, sendLog, mails, unlogged, overlaps, late>>,
         enrollment' \in [Series -> RowRec], silenced' \subseteq Series, SilenceInv',
         \A s \in Series : /\ enrollment'[s].step = enrollment[s].step
                           /\ enrollment'[s].completed = enrollment[s].completed
  PROVE  NInv'
<1>1. MailTypes' /\ LogInv' /\ RowsInside'
  BY DEF NInv, MailTypes, Count, Mail, LogInv, Behind, RowsInside, RowInside
<1>2. Accounts'
  <2>1. ASSUME NEW s \in Series, NEW k \in Mail(s) PROVE Account(s, k)'
    <3>1. Account(s, k)
      BY DEF NInv, Accounts
    <3> QED BY <3>1 DEF Account, Looking, Looks, Opened, Undecided
  <2> QED BY <2>1 DEF Accounts, Mail
<1>3. PollsInside'
  <2>1. ASSUME NEW q \in PollRec, NEW p \in Polls, poll'[p] = q PROVE PollInside(q)'
    <3>1. PollInside(q)
      BY <2>1 DEF NInv, PollsInside
    <3> QED BY <3>1 DEF PollInside, Behind, Mail
  <2> QED BY <2>1 DEF PollsInside
<1> QED BY <1>1, <1>2, <1>3 DEF NInv

LEMMA AdvanceKeeps == ASSUME NInv, NEW p \in Polls, Advance(p) PROVE NInv'
<1>1. /\ poll[p].pc = "advance" /\ poll[p] \in PollRec /\ PollInside(poll[p])
      /\ UNCHANGED <<sendLog, mails, unlogged, overlaps, silenced, late>>
      /\ enrollment \in [Series -> RowRec] /\ late \subseteq Series
  BY DEF Advance, history, NInv, MailTypes, PollsInside
<1>2. PICK s, k : s = poll[p].seq /\ k = poll[p].step + 1
  OBVIOUS
<1>3. s \in Series /\ poll[p].step \in Mail(s) /\ Steps[s] \in Nat \ {0} /\ k \in Nat /\ k <= Steps[s]
  <2>1. s \in Series /\ poll[p].step \in Mail(s)
    BY <1>1, <1>2 DEF PollInside
  <2>2. Steps[s] \in Nat \ {0}
    BY <2>1, NurtureAssumption
  <2> QED BY <1>2, <2>1, <2>2 DEF Mail
<1>4. Behind(s, k)
  <2>1. Behind(s, poll[p].step) /\ <<s, poll[p].step>> \in sendLog /\ poll[p].step \in Nat
    BY <1>1, <1>2, <1>3 DEF PollInside, Mail
  <2> QED BY <1>2, <2>1 DEF Behind
<1>5. \/ enrollment' = [enrollment EXCEPT ![s].step = k, ![s].completed = TRUE] /\ k >= Steps[s]
      \/ enrollment' = [enrollment EXCEPT ![s].step = k, ![s].due = FALSE] /\ k < Steps[s]
  BY <1>2, <1>3 DEF Advance
<1>6. /\ enrollment' \in [Series -> RowRec] /\ enrollment'[s].step = k
      /\ k < Steps[s] \/ enrollment'[s].completed
      /\ \A t \in Series \ {s} : enrollment'[t] = enrollment[t]
      /\ \A t \in Series : /\ enrollment'[t].exists = enrollment[t].exists
                           /\ enrollment'[t].suppressed = enrollment[t].suppressed
  BY <1>1, <1>3, <1>5 DEF RowRec
<1>7. RowsInside' /\ \A t \in Series : Behind(t, enrollment'[t].step)
  BY <1>3, <1>4, <1>6 DEF NInv, RowsInside, RowInside, LogInv
<1>8. \E q \in PollRec : /\ poll' = [poll EXCEPT ![p] = q] /\ PollInside(q)
                         /\ q.pc \in {"idle", "next", "plan"}
  <2>1. CASE NextRow(p)
    BY <2>1, Turned
  <2>2. CASE Goto(p, "plan") /\ Chained(s) # None
    <3>1. PICK pc \in PollPc : pc = "plan"
      BY DEF PollPc
    <3>2. PICK q \in PollRec : /\ poll' = [poll EXCEPT ![p] = q] /\ q.pc = pc
                               /\ q.seq = poll[p].seq /\ q.step = poll[p].step
                               /\ q.todo = poll[p].todo
      BY <2>2, <3>1, Went
    <3>3. s = Growth
      BY <2>2 DEF Chained
    <3>4. PollInside(q)
      BY <1>1, <1>2, <3>1, <3>2, <3>3 DEF PollInside
    <3> QED BY <3>1, <3>2, <3>4
  <2> QED BY <1>2, <2>1, <2>2 DEF Advance
<1>9. PICK q \in PollRec : /\ poll' = [poll EXCEPT ![p] = q] /\ PollInside(q)
                           /\ q.pc \in {"idle", "next", "plan"}
  BY <1>8
<1> QED BY <1>1, <1>6, <1>7, <1>9, RowWritten

LEMMA ChainInsertKeeps == ASSUME NInv, NEW p \in Polls, ChainInsert(p) PROVE NInv'
<1>1. /\ poll[p].pc = "chain" /\ poll[p] \in PollRec /\ PollInside(poll[p]) /\ NextRow(p)
      /\ UNCHANGED <<sendLog, mails, unlogged, overlaps, silenced>>
      /\ enrollment \in [Series -> RowRec] /\ late \subseteq Series
  BY DEF ChainInsert, NInv, MailTypes, PollsInside
<1>2. Chained(poll[p].seq) = Dfy /\ Dfy \in Series /\ Steps[Dfy] \in Nat \ {0}
  BY <1>1, NurtureAssumption DEF PollInside, Chained, Series
<1>3. /\ late' \subseteq Series
      /\ enrollment' = [enrollment EXCEPT ![Dfy] = IF @.exists THEN @ ELSE NewRow]
  BY <1>1, <1>2 DEF ChainInsert, Enroll
<1>4. PICK row : row = NewRow
  OBVIOUS
<1>5. row \in RowRec /\ row.exists /\ ~row.suppressed /\ row.step = 0 /\ ~row.completed
  BY <1>4 DEF NewRow, NoRow, RowRec
<1>6. /\ enrollment' \in [Series -> RowRec]
      /\ \A s \in Series : \/ enrollment'[s] = enrollment[s]
                           \/ s = Dfy /\ ~enrollment[s].exists /\ enrollment'[s] = row
  BY <1>1, <1>2, <1>3, <1>4, <1>5
<1>7. RowsInside' /\ \A s \in Series : Behind(s, enrollment'[s].step)
  BY <1>2, <1>5, <1>6 DEF NInv, RowsInside, RowInside, LogInv, Behind
<1>8. PICK q \in PollRec : /\ poll' = [poll EXCEPT ![p] = q] /\ PollInside(q)
                           /\ q.pc \in {"idle", "next"} /\ q.seq = None
  BY <1>1, Turned
<1> QED BY <1>1, <1>3, <1>6, <1>7, <1>8, RowWritten

LEMMA SuppressKeeps ==
  ASSUME NInv, NEW S \in SUBSET Series, Suppress(S),
         UNCHANGED <<poll, sendLog, mails, unlogged, overlaps, late>>
  PROVE  NInv'
<1>1. enrollment \in [Series -> RowRec] /\ silenced \subseteq Series /\ SilenceInv
  BY DEF NInv, MailTypes
<1>2. /\ enrollment' \in [Series -> RowRec]
      /\ \A s \in Series : /\ enrollment'[s].step = enrollment[s].step
                           /\ enrollment'[s].completed = enrollment[s].completed
                           /\ enrollment'[s].exists = enrollment[s].exists
                           /\ enrollment[s].suppressed => enrollment'[s].suppressed
                           /\ s \in S /\ Active(s) => enrollment'[s].suppressed
  BY <1>1 DEF Suppress, Active, RowRec
<1>3. silenced' \subseteq Series
  BY <1>1 DEF Suppress
<1>4. SilenceInv'
  BY <1>1, <1>2 DEF SilenceInv, Suppress, Active
<1> QED BY <1>2, <1>3, <1>4, RowsMarked

LEMMA DelayPassesKeeps == ASSUME NInv, NEW s \in Series, DelayPasses(s) PROVE NInv'
<1>1. /\ enrollment \in [Series -> RowRec] /\ silenced \subseteq Series /\ SilenceInv
      /\ UNCHANGED <<poll, sendLog, mails, unlogged, overlaps, silenced, late>>
      /\ enrollment' = [enrollment EXCEPT ![s].due = TRUE]
  BY DEF NInv, MailTypes, DelayPasses, history
<1>2. /\ enrollment' \in [Series -> RowRec]
      /\ \A t \in Series : /\ enrollment'[t].step = enrollment[t].step
                           /\ enrollment'[t].completed = enrollment[t].completed
                           /\ enrollment'[t].exists = enrollment[t].exists
                           /\ enrollment'[t].suppressed = enrollment[t].suppressed
  BY <1>1 DEF RowRec
<1>3. SilenceInv' /\ silenced' \subseteq Series
  BY <1>1, <1>2 DEF SilenceInv
<1> QED BY <1>1, <1>2, <1>3, RowsMarked

-----------------------------------------------------------------------------
(* The mails as a whole *)

LEMMA NInit == Init => NInv
<1> SUFFICES ASSUME Init PROVE NInv
  OBVIOUS
<1>1. \A s \in Series : Steps[s] \in Nat \ {0} /\ Mail(s) \subseteq Nat
  BY NurtureAssumption DEF Mail
<1>2. PICK fresh, none : fresh = NewRow /\ none = NoRow
  OBVIOUS
<1>3. /\ fresh \in RowRec /\ fresh.step = 0 /\ ~fresh.completed
      /\ none \in RowRec /\ none.step = 0 /\ ~none.completed
  BY <1>2 DEF NewRow, NoRow, RowRec
<1>4. enrollment = [s \in Series |-> IF s = Growth THEN fresh ELSE none]
  BY <1>2 DEF Init, NurtureInit
<1>5. /\ Count(mails) /\ \A s \in Series : \A k \in Mail(s) : mails[s][k] = 0
      /\ unlogged = mails /\ overlaps = mails
      /\ sendLog = {} /\ silenced = {} /\ late = {}
      /\ \A p \in Polls : poll[p] = IdlePoll
  BY DEF Init, NurtureInit, Count
<1>6. MailTypes
  <2>1. IdlePoll \in PollRec
    BY DEF IdlePoll, PollRec, PollPc
  <2>2. poll \in [Polls -> PollRec]
    BY <2>1 DEF Init, NurtureInit
  <2> QED BY <1>3, <1>4, <1>5, <2>2 DEF MailTypes
<1>7. RowsInside
  BY <1>1, <1>3, <1>4 DEF RowsInside, RowInside
<1>8. PollsInside
  BY <1>5 DEF PollsInside, PollInside, IdlePoll
<1>9. LogInv
  BY <1>3, <1>4, <1>5 DEF LogInv, Behind
<1>10. Accounts
  <2> SUFFICES ASSUME NEW s \in Series, NEW k \in Mail(s) PROVE Account(s, k)
    BY DEF Accounts
  <2>1. Looking(s, k) = {}
    BY <1>5 DEF Looking, Looks, IdlePoll
  <2>2. Cardinality(Looking(s, k)) = 0
    BY <2>1, FS_EmptySet
  <2> QED BY <1>5, <2>2 DEF Account
<1>11. SilenceInv
  BY <1>5 DEF SilenceInv
<1> QED BY <1>6, <1>7, <1>8, <1>9, <1>10, <1>11 DEF NInv

LEMMA NStep == NInv /\ [Next]_vars => NInv'
<1> SUFFICES ASSUME NInv, [Next]_vars PROVE NInv'
  OBVIOUS
<1>1. CASE UNCHANGED <<enrollment, sendLog, poll, history>>
  <2>1. UNCHANGED <<enrollment, sendLog, poll, mails, unlogged, overlaps, silenced, late>>
    BY <1>1 DEF history
  <2>2. enrollment' \in [Series -> RowRec] /\ silenced' \subseteq Series /\ SilenceInv'
    BY <2>1 DEF NInv, MailTypes, SilenceInv
  <2> QED BY <2>1, <2>2, RowsMarked
<1>2. CASE NurtureStep
  <2>1. ASSUME NEW p \in Polls, StartPoll(p) \/ PollStep(p) \/ PollFails(p) PROVE NInv'
    BY <2>1, FetchDueKeeps, CheckLogKeeps, RecheckKeeps, SendKeeps, InsertLogKeeps, AdvanceKeeps,
       ChainCheckPlanKeeps, ChainInsertKeeps, PollFailsKeeps DEF StartPoll, PollStep
  <2>2. ASSUME NEW s \in Series, Unsubscribe(s) PROVE NInv'
    BY <2>2, SuppressKeeps DEF Unsubscribe
  <2>3. ASSUME NEW s \in Series, DelayPasses(s) PROVE NInv'
    BY <2>3, DelayPassesKeeps
  <2> QED BY <1>2, <2>1, <2>2, <2>3 DEF NurtureStep
<1>3. ASSUME NEW d \in Deliveries, SuppressOnConversion(d) PROVE NInv'
  <2>1. UNCHANGED <<poll, sendLog, mails, unlogged, overlaps, late>>
    BY <1>3 DEF SuppressOnConversion
  <2>2. CASE Suppress(Ladder)
    <3>1. Ladder \in SUBSET Series
      BY DEF Ladder, Series
    <3> QED BY <2>1, <2>2, <3>1, SuppressKeeps
  <2>3. CASE UNCHANGED <<enrollment, silenced>>
    BY <1>1, <2>1, <2>3 DEF history
  <2> QED BY <1>3, <2>2, <2>3 DEF SuppressOnConversion
<1>4. CASE WebhookStep
  <2>1. CASE Happens
    BY <1>1, <2>1 DEF Happens, nurtureVars
  <2>2. ASSUME NEW d \in Deliveries, DeliveryStep(d) \/ DeliveryFails(d) PROVE NInv'
    BY <1>1, <1>3, <2>2 DEF DeliveryStep, DeliveryFails, CheckMarker, WriteRow, SyncTier,
       Acknowledge, nurtureVars
  <2>3. ASSUME NEW d \in Deliveries, NEW e \in Events, Deliver(d, e) PROVE NInv'
    BY <1>1, <2>3 DEF Deliver, nurtureVars
  <2> QED BY <1>4, <2>1, <2>2, <2>3 DEF WebhookStep
<1>5. CASE UNCHANGED vars
  BY <1>1, <1>5 DEF vars, nurtureVars
<1> QED BY <1>2, <1>4, <1>5 DEF Next

LEMMA NInvAlways == Spec => []NInv
BY NInit, NStep, PTL DEF Spec

\* However polls overlap, die or lose an answer, a step goes out once, and once more only for
\* a mail that was never logged and for a look at the log while another poll was between its
\* look and its entry.
THEOREM MailsAreExplained == Spec => []MailsExplained
<1>1. NInv => MailsExplained
  <2> SUFFICES ASSUME NInv, NEW s \in Series, NEW k \in Mail(s)
               PROVE  mails[s][k] <= 1 + unlogged[s][k] + overlaps[s][k]
    BY DEF MailsExplained
  <2>1. mails[s][k] \in Nat /\ unlogged[s][k] \in Nat /\ overlaps[s][k] \in Nat /\ Account(s, k)
    BY DEF NInv, MailTypes, Count, Accounts
  <2>2. PICK L \in SUBSET Polls : L = Looking(s, k)
    BY DEF Looking
  <2>3. Cardinality(L) \in Nat
    BY NurtureAssumption, FS_Subset, FS_CardinalityType
  <2>4. \/ mails[s][k] + Cardinality(L) <= unlogged[s][k] + overlaps[s][k] + 1
        \/ mails[s][k] + Cardinality(L) <= unlogged[s][k] + overlaps[s][k] + 0
    BY <2>1, <2>2 DEF Account
  <2> QED BY <2>1, <2>3, <2>4
<1> QED BY <1>1, NInvAlways, PTL

\* No step is left out: the cursor of a row only passes what was mailed and logged.
THEOREM CursorsFollowTheLog == Spec => []CursorFollowsLog
<1>1. NInv => CursorFollowsLog
  <2> SUFFICES ASSUME NInv, NEW s \in Series, NEW k \in Mail(s), k < enrollment[s].step
               PROVE  <<s, k>> \in sendLog /\ mails[s][k] > 0
    BY DEF CursorFollowsLog
  <2>1. k \in Nat
    BY DEF Mail
  <2>2. <<s, k>> \in sendLog
    BY <2>1 DEF NInv, LogInv, Behind
  <2> QED BY <2>2 DEF NInv, LogInv
<1> QED BY <1>1, NInvAlways, PTL

\* A sequence suppressed while no poll was past its re-check mails nothing any more.
THEOREM SuppressionIsSilent == Spec => SuppressedStaysSilent
<1>1. NInv /\ [Next]_vars => [\A s \in silenced : mails'[s] = mails[s]]_<<mails, silenced>>
  <2> SUFFICES ASSUME NInv, [Next]_vars, NEW s \in silenced PROVE mails'[s] = mails[s]
    OBVIOUS
  <2>1. CASE mails' = mails
    BY <2>1
  <2>2. ASSUME NEW p \in Polls, Send(p) PROVE mails'[s] = mails[s]
    <3>1. poll[p].pc = "send" /\ poll[p].seq # s
      BY <2>2 DEF Send, NInv, SilenceInv
    <3>2. DOMAIN mails = Series /\ s \in Series
      BY DEF NInv, MailTypes, Count
    <3> QED BY <2>2, <3>1, <3>2 DEF Send
  <2>3. mails' = mails \/ \E p \in Polls : Send(p)
    BY DEF Next, NurtureStep, WebhookStep, StartPoll, PollStep, PollFails, FetchDue, CheckLog, Recheck,
       InsertLog, Advance, ChainCheckPlan, ChainInsert, Unsubscribe, DelayPasses, Happens, Deliver,
       DeliveryStep, DeliveryFails, CheckMarker, WriteRow, SyncTier, SuppressOnConversion,
       Acknowledge, history, nurtureVars, vars
  <2> QED BY <2>1, <2>2, <2>3
<1> QED BY <1>1, NInvAlways, PTL DEF Spec, SuppressedStaysSilent

\* Once a purchase is through its suppression, the only rung a subscriber still has running is
\* one that a poll enrolled after the plan was written, and that poll had found the contact
\* without a plan: where it had found one it does not enroll.
THEOREM LaddersStopAtPurchase == Spec => []LadderStopsAtPurchase
<1>1. Init => LadderStopsAtPurchase
  BY DEF Init, LadderStopsAtPurchase
<1>2. LadderStopsAtPurchase /\ NInv /\ [Next]_vars => LadderStopsAtPurchase'
  <2> SUFFICES ASSUME LadderStopsAtPurchase, NInv, [Next]_vars, (planTier = "paid" /\ sold)',
                      NEW s \in Series, Active(s)'
               PROVE  s \in late'
    BY DEF LadderStopsAtPurchase
  <2>1. /\ enrollment \in [Series -> RowRec]
        /\ \A p \in Polls : poll[p].pc = "chain" => poll[p].seq = Growth /\ poll[p].plan = "free"
        /\ \A p \in Polls : poll[p].pc = "advance" => poll[p].seq \in Series
    BY DEF NInv, MailTypes, PollsInside, PollInside
  <2>2. CASE planTier = "paid" /\ sold /\ (Active(s) \/ s \in late) /\ late \subseteq late'
    BY <2>2 DEF LadderStopsAtPurchase
  <2>3. CASE UNCHANGED <<enrollment, late, planTier, sold>>
    BY <2>2, <2>3 DEF Active
  <2>4. CASE NurtureStep
    <3>1. planTier = "paid" /\ sold
      BY <2>4 DEF NurtureStep, StartPoll, PollStep, PollFails, FetchDue, CheckLog, Recheck, Send,
         InsertLog, Advance, ChainCheckPlan, ChainInsert, Unsubscribe, DelayPasses, webhookVars
    <3>2. ASSUME NEW p \in Polls, StartPoll(p) \/ PollStep(p) \/ PollFails(p) PROVE s \in late'
      <4>1. CASE UNCHANGED <<enrollment, late>>
        BY <2>2, <3>1, <4>1 DEF Active
      <4>2. CASE Advance(p)
        <5>1. poll[p].seq \in Series /\ late' = late
          BY <2>1, <4>2 DEF Advance, history
        <5>2. Active(s)
          BY <2>1, <4>2, <5>1 DEF Advance, Active, RowRec
        <5> QED BY <2>2, <3>1, <5>1, <5>2
      <4>3. CASE ChainInsert(p)
        <5>1. Enroll(Dfy, "free")
          BY <2>1, <4>3 DEF ChainInsert, Chained
        <5>2. CASE s = Dfy /\ ~enrollment[s].exists
          BY <3>1, <5>1, <5>2 DEF Enroll
        <5>3. CASE ~(s = Dfy /\ ~enrollment[s].exists)
          <6>1. enrollment'[s] = enrollment[s] /\ late \subseteq late'
            BY <2>1, <5>1, <5>3 DEF Enroll
          <6> QED BY <2>2, <3>1, <6>1 DEF Active
        <5> QED BY <5>2, <5>3
      <4> QED BY <3>2, <4>1, <4>2, <4>3 DEF StartPoll, PollStep, PollFails, FetchDue, CheckLog,
                 Recheck, Send, InsertLog, ChainCheckPlan, history
    <3>3. ASSUME NEW t \in Series, Unsubscribe(t) \/ DelayPasses(t) PROVE s \in late'
      <4>1. late' = late
        BY <3>3 DEF Unsubscribe, DelayPasses, history
      <4>2. Active(s)
        BY <2>1, <3>3 DEF Unsubscribe, DelayPasses, Suppress, Active, RowRec
      <4> QED BY <2>2, <3>1, <4>1, <4>2
    <3> QED BY <2>4, <3>2, <3>3 DEF NurtureStep
  <2>5. ASSUME NEW d \in Deliveries, SyncTier(d) PROVE FALSE
    BY <2>5 DEF SyncTier
  <2>6. ASSUME NEW d \in Deliveries, SuppressOnConversion(d) PROVE s \in late'
    <3>1. planTier' = planTier /\ late' = late
      BY <2>6 DEF SuppressOnConversion
    <3>2. CASE Suppress(Ladder)
      <4>1. ~Active(s)'
        BY <2>1, <3>2 DEF Suppress, Active, Ladder, Series, RowRec
      <4> QED BY <4>1
    <3>3. CASE UNCHANGED <<enrollment, silenced, sold>>
      BY <2>3, <3>1, <3>3
    <3> QED BY <2>6, <3>2, <3>3 DEF SuppressOnConversion
  <2>7. CASE WebhookStep
    <3>1. CASE Happens
      BY <2>3, <3>1 DEF Happens, nurtureVars, history
    <3>2. ASSUME NEW d \in Deliveries, DeliveryStep(d) \/ DeliveryFails(d) PROVE s \in late'
      BY <2>3, <2>5, <2>6, <3>2 DEF DeliveryStep, DeliveryFails, CheckMarker, WriteRow, Acknowledge,
         nurtureVars, history
    <3>3. ASSUME NEW d \in Deliveries, NEW e \in Events, Deliver(d, e) PROVE s \in late'
      BY <2>3, <3>3 DEF Deliver, nurtureVars, history
    <3> QED BY <2>7, <3>1, <3>2, <3>3 DEF WebhookStep
  <2>8. CASE UNCHANGED vars
    BY <2>3, <2>8 DEF vars, nurtureVars, history, webhookVars
  <2> QED BY <2>4, <2>7, <2>8 DEF Next
<1> QED BY <1>1, <1>2, NInvAlways, PTL DEF Spec
-----------------------------------------------------------------------------
(* Types *)

\* a request is about an event that Stripe has told of
WebhookTypes ==
  /\ planTier \in Tier /\ faults \in 0 .. MaxFaults
  /\ story \in Seq(Kinds) /\ Len(story) <= MaxEvents /\ acked \subseteq Events /\ marker \subseteq Events
  /\ subscription \in [exists : BOOLEAN, tier : Tier, last : Events \cup {0}]
  /\ delivery \in [Deliveries -> [pc : DeliveryPc, event : Events \cup {0}]]
  /\ \A d \in Deliveries : delivery[d].pc # "idle" => delivery[d].event \in DOMAIN story
  /\ sold \in BOOLEAN /\ newest \in Events \cup {0} /\ disordered \in BOOLEAN /\ cutOff \in BOOLEAN

\* What a request changes of the events.
LEMMA AtKeeps ==
  ASSUME WebhookTypes, NEW d \in Deliveries, NEW pc \in DeliveryPc, At(d, pc), story' = story,
         delivery[d].pc # "idle"
  PROVE  /\ delivery' \in [Deliveries -> [pc : DeliveryPc, event : Events \cup {0}]]
         /\ \A c \in Deliveries : delivery'[c].pc # "idle" => delivery'[c].event \in DOMAIN story'
BY DEF WebhookTypes, At

LEMMA IdleKeeps ==
  ASSUME WebhookTypes, NEW d \in Deliveries, delivery' = [delivery EXCEPT ![d] = IdleDelivery],
         story' = story
  PROVE  /\ delivery' \in [Deliveries -> [pc : DeliveryPc, event : Events \cup {0}]]
         /\ \A c \in Deliveries : delivery'[c].pc # "idle" => delivery'[c].event \in DOMAIN story'
BY DEF WebhookTypes, IdleDelivery, DeliveryPc

LEMMA EventAtHand ==
  ASSUME WebhookTypes, NEW d \in Deliveries, delivery[d].pc # "idle"
  PROVE  /\ delivery[d].event \in Events /\ delivery[d].event \in 1 .. Len(story)
         /\ Kind(d) \in Kinds /\ TierOf(Kind(d)) \in Tier /\ newest \in Nat /\ Len(story) \in Nat
<1>1. delivery[d].event \in DOMAIN story /\ story \in Seq(Kinds) /\ Len(story) <= MaxEvents
  BY DEF WebhookTypes
<1>2. delivery[d].event \in 1 .. Len(story) /\ Len(story) \in Nat /\ story[delivery[d].event] \in Kinds
  BY <1>1
<1>3. delivery[d].event \in Events
  BY <1>1, <1>2, BoundsAssumption DEF Events
<1> QED BY <1>2, <1>3, BoundsAssumption DEF Kind, TierOf, Tier, WebhookTypes, Events

LEMMA FaultTypes == WebhookTypes /\ Fault => faults' \in 0 .. MaxFaults
BY NurtureAssumption DEF WebhookTypes, Fault

LEMMA WebhookTypesInit == Init => WebhookTypes
<1> SUFFICES ASSUME Init PROVE WebhookTypes
  OBVIOUS
<1>1. planTier \in Tier /\ faults \in 0 .. MaxFaults
  BY NurtureAssumption DEF Init, NurtureInit, Tier
<1>2. story \in Seq(Kinds) /\ Len(story) <= MaxEvents
  BY BoundsAssumption DEF Init
<1>3. subscription \in [exists : BOOLEAN, tier : Tier, last : Events \cup {0}]
  BY DEF Init, NoSubscription, Tier
<1>4. /\ delivery \in [Deliveries -> [pc : DeliveryPc, event : Events \cup {0}]]
      /\ \A d \in Deliveries : delivery[d].pc = "idle"
  BY DEF Init, IdleDelivery, DeliveryPc
<1> QED BY <1>1, <1>2, <1>3, <1>4 DEF Init, WebhookTypes

LEMMA WebhookTypesStep == WebhookTypes /\ [Next]_vars => WebhookTypes'
<1> SUFFICES ASSUME WebhookTypes, [Next]_vars PROVE WebhookTypes'
  OBVIOUS
<1>1. CASE Happens
  <2>1. PICK kind \in Kinds : story' = Append(story, kind)
    BY <1>1 DEF Happens
  <2>2. story \in Seq(Kinds) /\ Len(story) < MaxEvents /\ Len(story) \in Nat
    BY <1>1 DEF Happens, WebhookTypes
  <2>3. /\ story' \in Seq(Kinds) /\ Len(story') <= MaxEvents /\ DOMAIN story \subseteq DOMAIN story'
    BY <2>1, <2>2, BoundsAssumption
  <2> QED BY <1>1, <2>3 DEF Happens, WebhookTypes
<1>2. ASSUME NEW d \in Deliveries, NEW e \in Events, Deliver(d, e) PROVE WebhookTypes'
  <2>1. faults' \in 0 .. MaxFaults
    BY <1>2, FaultTypes DEF Deliver, WebhookTypes
  <2>2. e \in DOMAIN story
    BY <1>2, BoundsAssumption DEF Deliver, WebhookTypes, Events
  <2> QED BY <1>2, <2>1, <2>2 DEF Deliver, WebhookTypes, DeliveryPc
<1>3. ASSUME NEW d \in Deliveries, CheckMarker(d) PROVE WebhookTypes'
  <2>1. faults' \in 0 .. MaxFaults
    BY <1>3, FaultTypes DEF CheckMarker, WebhookTypes
  <2>2. acked' \subseteq Events
    BY <1>3, EventAtHand DEF CheckMarker, WebhookTypes
  <2>3. "row" \in DeliveryPc /\ delivery[d].pc # "idle" /\ story' = story
    BY <1>3 DEF DeliveryPc, CheckMarker
  <2>4. /\ delivery' \in [Deliveries -> [pc : DeliveryPc, event : Events \cup {0}]]
        /\ \A c \in Deliveries : delivery'[c].pc # "idle" => delivery'[c].event \in DOMAIN story'
    BY <1>3, <2>3, AtKeeps, IdleKeeps DEF CheckMarker
  <2> QED BY <1>3, <2>1, <2>2, <2>4 DEF CheckMarker, WebhookTypes
<1>4. ASSUME NEW d \in Deliveries, WriteRow(d) PROVE WebhookTypes'
  <2>1. delivery[d].pc # "idle" /\ story' = story
    BY <1>4 DEF WriteRow
  <2>2. /\ delivery[d].event \in Events /\ TierOf(Kind(d)) \in Tier
        /\ subscription \in [exists : BOOLEAN, tier : Tier, last : Events \cup {0}]
    BY <2>1, EventAtHand DEF WebhookTypes
  <2>3. /\ subscription' \in [exists : BOOLEAN, tier : Tier, last : Events \cup {0}]
    BY <1>4, <2>2 DEF WriteRow
  <2>4. newest' \in Events \cup {0} /\ disordered' \in BOOLEAN
    BY <1>4, <2>2 DEF WriteRow, Reaches, WebhookTypes
  <2>5. \E pc \in DeliveryPc : At(d, pc)
    BY <1>4 DEF WriteRow, DeliveryPc
  <2> QED BY <1>4, <2>1, <2>3, <2>4, <2>5, AtKeeps DEF WriteRow, WebhookTypes
<1>5. ASSUME NEW d \in Deliveries, SyncTier(d) PROVE WebhookTypes'
  <2>1. delivery[d].pc # "idle" /\ story' = story
    BY <1>5 DEF SyncTier
  <2>2. delivery[d].event \in Events /\ TierOf(Kind(d)) \in Tier
    BY <2>1, EventAtHand
  <2>3. newest' \in Events \cup {0} /\ disordered' \in BOOLEAN
    BY <1>5, <2>2 DEF SyncTier, Reaches, WebhookTypes
  <2>4. \E pc \in DeliveryPc : At(d, pc)
    BY <1>5 DEF SyncTier, DeliveryPc
  <2> QED BY <1>5, <2>1, <2>2, <2>3, <2>4, AtKeeps DEF SyncTier, WebhookTypes
<1>6. ASSUME NEW d \in Deliveries, SuppressOnConversion(d) PROVE WebhookTypes'
  <2>1. faults' \in 0 .. MaxFaults /\ sold' \in BOOLEAN
    BY <1>6, FaultTypes DEF SuppressOnConversion, WebhookTypes
  <2>2. "mark" \in DeliveryPc /\ delivery[d].pc # "idle" /\ story' = story /\ At(d, "mark")
    BY <1>6 DEF DeliveryPc, SuppressOnConversion
  <2> QED BY <1>6, <2>1, <2>2, AtKeeps DEF SuppressOnConversion, WebhookTypes
<1>7. ASSUME NEW d \in Deliveries, Acknowledge(d) PROVE WebhookTypes'
  <2>1. faults' \in 0 .. MaxFaults
    BY <1>7, FaultTypes DEF Acknowledge, WebhookTypes
  <2>2. delivery[d].event \in Events
    BY <1>7, EventAtHand DEF Acknowledge
  <2>3. acked' \subseteq Events /\ marker' \subseteq Events
    BY <1>7, <2>2 DEF Acknowledge, WebhookTypes
  <2> QED BY <1>7, <2>1, <2>3, IdleKeeps DEF Acknowledge, WebhookTypes
<1>8. ASSUME NEW d \in Deliveries, DeliveryFails(d) PROVE WebhookTypes'
  <2>1. faults' \in 0 .. MaxFaults /\ cutOff' \in BOOLEAN
    BY <1>8, FaultTypes DEF DeliveryFails, WebhookTypes
  <2> QED BY <1>8, <2>1, IdleKeeps DEF DeliveryFails, WebhookTypes
<1>9. CASE NurtureStep
  <2>1. UNCHANGED webhookVars /\ planTier' = planTier
    BY <1>9 DEF NurtureStep, StartPoll, PollStep, PollFails, FetchDue, CheckLog, Recheck, Send,
       InsertLog, Advance, ChainCheckPlan, ChainInsert, Unsubscribe, DelayPasses
  <2>2. faults' = faults \/ Fault
    BY <1>9 DEF NurtureStep, StartPoll, PollStep, PollFails, FetchDue, CheckLog, Recheck, Send,
       InsertLog, Advance, ChainCheckPlan, ChainInsert, Unsubscribe, DelayPasses
  <2>3. faults' \in 0 .. MaxFaults
    BY <2>2, FaultTypes DEF WebhookTypes
  <2> QED BY <2>1, <2>3 DEF WebhookTypes, webhookVars
<1>10. CASE UNCHANGED vars
  BY <1>10 DEF vars, webhookVars, WebhookTypes
<1>11. CASE WebhookStep
  BY <1>1, <1>2, <1>3, <1>4, <1>5, <1>6, <1>7, <1>8, <1>11 DEF WebhookStep, DeliveryStep
<1> QED BY <1>9, <1>10, <1>11 DEF Next

LEMMA WebhookTypesAlways == Spec => []WebhookTypes
BY WebhookTypesInit, WebhookTypesStep, PTL DEF Spec

\* Rows, log, polls, subscription, requests and counters are of their kinds, and no row goes
\* past the end of its sequence.
THEOREM TypesHold == Spec => []TypeOK
<1>1. NInv /\ WebhookTypes => TypeOK
  <2> SUFFICES ASSUME NInv, WebhookTypes PROVE TypeOK
    OBVIOUS
  <2>1. \A c \in {mails, unlogged, overlaps} : Count(c)
    BY DEF NInv, MailTypes
  <2>2. NurtureTypeOK
    BY <2>1 DEF NInv, MailTypes, WebhookTypes, NurtureTypeOK, Count, RowsInside, RowInside
  <2> QED BY <2>2 DEF TypeOK, WebhookTypes
<1> QED BY <1>1, NInvAlways, WebhookTypesAlways, PTL
-----------------------------------------------------------------------------
(* The plan *)

\* an event's request is through the tables, or was, or has written the row
Handled(e) ==
  \/ e \in acked \cup marker
  \/ \E d \in Deliveries : delivery[d].event = e /\ delivery[d].pc \in {"suppress", "mark"}
AtTier(e) == \E d \in Deliveries : delivery[d].event = e /\ delivery[d].pc = "tier"

StoryInv == \A e \in DOMAIN story : story[e] = "subscribe" <=> e = 1
\* newest is the last of the events that are handled, and the purchase makes the row
NewestInv ==
  /\ newest <= Len(story)
  /\ \A e \in Events : Handled(e) \/ AtTier(e) => e <= newest /\ (e = 1 => subscription.exists)
  /\ newest = 1 => subscription.exists
  /\ newest = 0 => planTier = "free"
  /\ subscription.exists => newest # 0
  /\ ~subscription.exists => subscription = NoSubscription
\* while nothing has come out of its order, row and plan are those of the last event handled,
\* but for the plan of a refund that is under way or has been broken off
RowInv == subscription.last = newest /\ subscription.tier = TierOf(story[newest])
PaidInv == story[newest] # "refund" /\ Handled(newest) => planTier = TierOf(story[newest])
RefundInv == story[newest] = "refund" /\ ~cutOff => planTier = "free" \/ AtTier(newest)
OrderInv == ~disordered /\ subscription.exists => RowInv /\ PaidInv /\ RefundInv

PlanInv == WebhookTypes /\ StoryInv /\ NewestInv /\ OrderInv

\* Requests come no nearer to an answer, and the rest of the plan's state is as it was.
LEMMA PlanKept ==
  ASSUME PlanInv, WebhookTypes', UNCHANGED <<story, planTier, subscription, newest, disordered>>,
         \A e \in Events : Handled(e)' => Handled(e), \A e \in Events : AtTier(e)' => AtTier(e),
         cutOff' \/ \A e \in Events : AtTier(e) /\ story[e] = "refund" => AtTier(e)',
         cutOff => cutOff'
  PROVE  PlanInv'
<1>1. StoryInv' /\ NewestInv'
  BY DEF PlanInv, StoryInv, NewestInv
<1>2. OrderInv'
  <2> SUFFICES ASSUME ~disordered, subscription.exists PROVE RowInv' /\ PaidInv' /\ RefundInv'
    BY DEF OrderInv
  <2>1. RowInv /\ PaidInv /\ RefundInv /\ newest \in Events
    BY DEF PlanInv, OrderInv, NewestInv, WebhookTypes
  <2> QED BY <2>1 DEF RowInv, PaidInv, RefundInv
<1> QED BY <1>1, <1>2 DEF PlanInv

LEMMA HappensKeepsPlan == ASSUME PlanInv, WebhookTypes', Happens PROVE PlanInv'
<1>1. PICK kind \in Kinds : (kind = "subscribe") = (story = <<>>) /\ story' = Append(story, kind)
  BY DEF Happens
<1>2. /\ story \in Seq(Kinds) /\ Len(story) \in Nat /\ newest \in Nat
      /\ UNCHANGED <<planTier, acked, marker, subscription, delivery, newest, disordered, cutOff>>
  BY BoundsAssumption DEF PlanInv, WebhookTypes, Happens, Events
<1>3. Len(story') = Len(story) + 1 /\ \A e \in 1 .. Len(story) : story'[e] = story[e]
  BY <1>1, <1>2
<1>4. story'[Len(story) + 1] = kind /\ DOMAIN story' = 1 .. Len(story) + 1 /\ DOMAIN story = 1 .. Len(story)
  BY <1>1, <1>2
<1>5. StoryInv'
  <2>1. kind = "subscribe" <=> Len(story) + 1 = 1
    BY <1>1, <1>2
  <2>2. ASSUME NEW e \in 1 .. Len(story) + 1 PROVE story'[e] = "subscribe" <=> e = 1
    <3>1. CASE e = Len(story) + 1
      BY <1>4, <2>1, <3>1
    <3>2. CASE e \in 1 .. Len(story)
      BY <1>3, <1>4, <3>2 DEF PlanInv, StoryInv
    <3> QED BY <1>2, <3>1, <3>2
  <2> QED BY <1>4, <2>2 DEF StoryInv
<1>6. NewestInv'
  BY <1>2, <1>3 DEF PlanInv, NewestInv, Handled, AtTier
<1>7. OrderInv'
  <2> SUFFICES ASSUME ~disordered, subscription.exists PROVE RowInv' /\ PaidInv' /\ RefundInv'
    BY <1>2 DEF OrderInv
  <2>1. newest \in 1 .. Len(story) /\ RowInv /\ PaidInv /\ RefundInv
    BY <1>2 DEF PlanInv, NewestInv, OrderInv
  <2>2. story'[newest] = story[newest]
    BY <1>3, <2>1
  <2> QED BY <1>2, <2>1, <2>2 DEF RowInv, PaidInv, RefundInv, Handled, AtTier
<1> QED BY <1>5, <1>6, <1>7 DEF PlanInv

LEMMA WriteRowKeepsPlan ==
  ASSUME PlanInv, WebhookTypes', NEW d \in Deliveries, WriteRow(d) PROVE PlanInv'
<1>1. PICK e : e = delivery[d].event
  OBVIOUS
<1>2. PICK kind : kind = Kind(d)
  OBVIOUS
<1>3. /\ delivery[d].pc = "row" /\ delivery \in [Deliveries -> [pc : DeliveryPc, event : Events \cup {0}]]
      /\ UNCHANGED <<planTier, story, acked, marker, cutOff>>
      /\ disordered' = (disordered \/ e < newest) /\ newest' = IF e > newest THEN e ELSE newest
  BY <1>1 DEF WriteRow, Reaches, PlanInv, WebhookTypes
<1>4. /\ e \in Events /\ e \in 1 .. Len(story) /\ newest \in Nat /\ Len(story) \in Nat
      /\ kind \in Kinds /\ kind = story[e] /\ newest <= Len(story) /\ (kind = "subscribe" <=> e = 1)
  <2>1. WebhookTypes /\ delivery[d].pc # "idle" /\ StoryInv /\ newest <= Len(story)
    BY <1>3 DEF PlanInv, NewestInv
  <2>2. /\ e \in Events /\ e \in 1 .. Len(story) /\ newest \in Nat /\ Len(story) \in Nat
        /\ kind \in Kinds /\ kind = story[e]
    BY <1>1, <1>2, <2>1, EventAtHand DEF Kind
  <2> QED BY <2>1, <2>2 DEF StoryInv
<1>5. /\ \/ subscription.last # e /\ (kind = "subscribe" \/ subscription.exists)
           /\ subscription' = [exists |-> TRUE, tier |-> TierOf(kind), last |-> e] /\ At(d, "tier")
         \/ /\ ~(subscription.last # e /\ (kind = "subscribe" \/ subscription.exists))
            /\ subscription' = subscription /\ At(d, IF kind = "refund" THEN "mark" ELSE "tier")
  BY <1>1, <1>2 DEF WriteRow, Fresh
<1>6. PICK pc \in {"tier", "mark"} :
        /\ delivery' = [delivery EXCEPT ![d].pc = pc]
        /\ pc = "mark" => kind = "refund" /\ subscription' = subscription
                          /\ (subscription.last = e \/ ~subscription.exists)
  BY <1>5 DEF At
<1>7. \A x \in Events : /\ Handled(x)' => Handled(x) \/ (x = e /\ pc = "mark")
                        /\ AtTier(x)' => AtTier(x) \/ (x = e /\ pc = "tier")
                        /\ AtTier(x) => AtTier(x)'
                        /\ x = e /\ pc = "tier" => AtTier(x)'
  BY <1>1, <1>3, <1>6 DEF Handled, AtTier
<1>8. e = 1 => subscription'.exists
  <2>1. ~subscription.exists => subscription.last = 0
    BY DEF PlanInv, NewestInv, NoSubscription
  <2> QED BY <1>4, <1>5, <2>1
<1>9. subscription.exists => subscription'.exists
  BY <1>5
<1>10. NewestInv'
  <2>1. newest' <= Len(story') /\ newest' # 0 /\ newest' >= newest /\ newest' >= e /\ newest' \in Nat
    BY <1>3, <1>4
  <2>2. ASSUME NEW x \in Events, Handled(x)' \/ AtTier(x)'
        PROVE  x <= newest' /\ (x = 1 => subscription'.exists)
    <3>1. CASE x = e
      BY <1>8, <2>1, <3>1
    <3>2. CASE Handled(x) \/ AtTier(x)
      <4>1. x <= newest /\ (x = 1 => subscription.exists)
        BY <3>2 DEF PlanInv, NewestInv
      <4> QED BY <1>3, <1>4, <1>9, <2>1, <4>1, BoundsAssumption DEF Events
    <3> QED BY <1>7, <2>2, <3>1, <3>2
  <2>3. newest' = 1 => subscription'.exists
    BY <1>3, <1>8, <1>9 DEF PlanInv, NewestInv
  <2>4. ~subscription'.exists => subscription' = NoSubscription
    BY <1>5, <1>9 DEF PlanInv, NewestInv
  <2> QED BY <2>1, <2>2, <2>3, <2>4 DEF NewestInv
<1>11. OrderInv'
  <2> SUFFICES ASSUME ~disordered', subscription'.exists PROVE RowInv' /\ PaidInv' /\ RefundInv'
    BY DEF OrderInv
  <2>1. ~disordered /\ e >= newest /\ newest' = e
    <3>1. ~disordered /\ ~(e < newest)
      BY <1>3
    <3> QED BY <1>3, <1>4, <3>1
  <2>2. subscription.exists => RowInv /\ PaidInv /\ RefundInv
    BY <2>1 DEF PlanInv, OrderInv
  <2>3. CASE e = newest
    <3>1. subscription.exists
      <4>1. CASE kind = "subscribe"
        BY <1>4, <2>3, <4>1 DEF PlanInv, NewestInv
      <4>2. CASE kind # "subscribe"
        BY <1>5, <4>2
      <4> QED BY <4>1, <4>2
    <3>2. subscription' = subscription
      BY <1>5, <2>2, <2>3, <3>1 DEF RowInv
    <3>3. RowInv'
      BY <1>3, <2>1, <2>2, <2>3, <3>1, <3>2 DEF RowInv
    <3>4. PaidInv'
      <4>1. story[e] # "refund" /\ Handled(e)' => Handled(e)
        BY <1>4, <1>6, <1>7
      <4> QED BY <1>3, <2>1, <2>2, <2>3, <3>1, <4>1 DEF PaidInv, Handled
    <3>5. RefundInv'
      <4>1. AtTier(e) => AtTier(e)'
        BY <1>4, <1>7
      <4> QED BY <1>3, <2>1, <2>2, <2>3, <3>1, <4>1 DEF RefundInv, AtTier
    <3> QED BY <3>3, <3>4, <3>5
  <2>4. CASE e > newest
    <3>1. subscription' = [exists |-> TRUE, tier |-> TierOf(kind), last |-> e] /\ pc = "tier"
      <4>1. subscription.exists => subscription.last # e
        BY <1>4, <2>2, <2>4 DEF RowInv
      <4>2. CASE subscription.exists
        BY <1>5, <1>6, <4>1, <4>2
      <4>3. CASE ~subscription.exists
        <5>1. subscription' # subscription
          BY <4>3
        <5> QED BY <1>5, <1>6, <5>1
      <4> QED BY <4>2, <4>3
    <3>2. RowInv'
      BY <1>3, <1>4, <2>1, <3>1 DEF RowInv
    <3>3. PaidInv'
      <4>1. Handled(e) => e <= newest
        BY <1>4 DEF PlanInv, NewestInv
      <4>2. ~Handled(e)'
        BY <1>4, <1>7, <2>4, <3>1, <4>1
      <4> QED BY <2>1, <4>2 DEF PaidInv, Handled
    <3>4. RefundInv'
      <4>1. AtTier(e)'
        BY <1>4, <1>7, <3>1
      <4> QED BY <2>1, <4>1 DEF RefundInv, AtTier
    <3> QED BY <3>2, <3>3, <3>4
  <2> QED BY <1>4, <2>1, <2>3, <2>4
<1> QED BY <1>3, <1>10, <1>11 DEF PlanInv, StoryInv

LEMMA SyncTierKeepsPlan ==
  ASSUME PlanInv, WebhookTypes', NEW d \in Deliveries, SyncTier(d) PROVE PlanInv'
<1>1. PICK e : e = delivery[d].event
  OBVIOUS
<1>2. /\ delivery[d].pc = "tier" /\ delivery \in [Deliveries -> [pc : DeliveryPc, event : Events \cup {0}]]
      /\ UNCHANGED <<story, acked, marker, subscription>>
      /\ disordered' = (disordered \/ e < newest) /\ newest' = IF e > newest THEN e ELSE newest
      /\ planTier' = TierOf(story[e])
  BY <1>1 DEF SyncTier, Reaches, PlanInv, WebhookTypes, Kind
<1>3. e \in Events /\ e \in Nat \ {0} /\ newest \in Nat /\ AtTier(e)
  <2>1. WebhookTypes /\ delivery[d].pc # "idle"
    BY <1>2 DEF PlanInv
  <2>2. e \in Events /\ newest \in Nat
    BY <1>1, <2>1, EventAtHand
  <2> QED BY <1>1, <1>2, <2>2 DEF AtTier, Events
<1>4. e <= newest /\ (e = 1 => subscription.exists) /\ newest' = newest
  <2>1. e <= newest /\ (e = 1 => subscription.exists)
    BY <1>3 DEF PlanInv, NewestInv
  <2> QED BY <1>2, <1>3, <2>1
<1>5. PICK pc \in {"suppress", "mark"} : delivery' = [delivery EXCEPT ![d].pc = pc]
  BY DEF SyncTier, At
<1>6. \A x \in Events : /\ Handled(x)' => Handled(x) \/ x = e
                        /\ AtTier(x)' => AtTier(x)
  BY <1>1, <1>2, <1>5 DEF Handled, AtTier
<1>7. NewestInv'
  <2>1. newest # 0
    BY <1>3, <1>4
  <2> QED BY <1>2, <1>4, <1>6, <2>1 DEF PlanInv, NewestInv, Handled, AtTier
<1>8. OrderInv'
  <2> SUFFICES ASSUME ~disordered', subscription.exists PROVE RowInv' /\ PaidInv' /\ RefundInv'
    BY <1>2 DEF OrderInv
  <2>1. ~disordered /\ ~(e < newest)
    BY <1>2
  <2>2. e = newest
    BY <1>3, <1>4, <2>1
  <2>3. RowInv
    BY <2>1 DEF PlanInv, OrderInv
  <2> QED BY <1>2, <1>4, <2>2, <2>3 DEF RowInv, PaidInv, RefundInv, TierOf
<1> QED BY <1>2, <1>7, <1>8 DEF PlanInv, StoryInv

LEMMA PlanInit == Init => PlanInv
<1> SUFFICES ASSUME Init PROVE PlanInv
  OBVIOUS
<1>1. WebhookTypes
  BY WebhookTypesInit
<1>2. StoryInv /\ OrderInv
  BY DEF Init, StoryInv, OrderInv, NoSubscription
<1>3. NewestInv
  BY DEF Init, NurtureInit, NewestInv, Handled, AtTier, IdleDelivery, NoSubscription
<1> QED BY <1>1, <1>2, <1>3 DEF PlanInv

LEMMA PlanStep == PlanInv /\ [Next]_vars => PlanInv'
<1> SUFFICES ASSUME PlanInv, [Next]_vars PROVE PlanInv'
  OBVIOUS
<1>1. WebhookTypes'
  BY WebhookTypesStep DEF PlanInv
<1>2. delivery \in [Deliveries -> [pc : DeliveryPc, event : Events \cup {0}]]
  BY DEF PlanInv, WebhookTypes
<1>3. CASE UNCHANGED <<webhookVars, planTier>>
  <2>1. /\ UNCHANGED <<story, planTier, subscription, newest, disordered, acked, marker, delivery, cutOff>>
    BY <1>3 DEF webhookVars
  <2>2. \A e \in Events : (Handled(e)' <=> Handled(e)) /\ (AtTier(e)' <=> AtTier(e))
    BY <2>1 DEF Handled, AtTier
  <2>3. UNCHANGED <<story, planTier, subscription, newest, disordered>> /\ (cutOff => cutOff')
    BY <2>1
  <2> QED BY <1>1, <2>2, <2>3, PlanKept
<1>4. CASE NurtureStep
  <2>1. UNCHANGED webhookVars /\ planTier' = planTier
    BY <1>4 DEF NurtureStep, StartPoll, PollStep, PollFails, FetchDue, CheckLog, Recheck, Send,
       InsertLog, Advance, ChainCheckPlan, ChainInsert, Unsubscribe, DelayPasses
  <2> QED BY <1>3, <2>1
<1>5. ASSUME NEW d \in Deliveries, NEW e \in Events, Deliver(d, e) PROVE PlanInv'
  <2>1. /\ UNCHANGED <<story, planTier, subscription, newest, disordered, acked, marker, cutOff>>
        /\ delivery[d].pc = "idle" /\ delivery' = [delivery EXCEPT ![d] = [pc |-> "check", event |-> e]]
    BY <1>5 DEF Deliver
  <2>2. \A x \in Events : (Handled(x)' => Handled(x)) /\ (AtTier(x)' <=> AtTier(x))
    BY <1>2, <2>1 DEF Handled, AtTier
  <2>3. UNCHANGED <<story, planTier, subscription, newest, disordered>> /\ (cutOff => cutOff')
    BY <2>1
  <2> QED BY <1>1, <2>2, <2>3, PlanKept
<1>6. ASSUME NEW d \in Deliveries,
             CheckMarker(d) \/ SuppressOnConversion(d) \/ Acknowledge(d) \/ DeliveryFails(d)
      PROVE  PlanInv'
  <2>1. UNCHANGED <<story, planTier, subscription, newest, disordered>> /\ (cutOff => cutOff')
    <3>1. UNCHANGED <<story, planTier, subscription, newest, disordered>>
      BY <1>6 DEF CheckMarker, SuppressOnConversion, Acknowledge, DeliveryFails, nurtureVars
    <3>2. cutOff => cutOff'
      BY <1>6 DEF CheckMarker, SuppressOnConversion, Acknowledge, DeliveryFails
    <3> QED BY <3>1, <3>2
  <2>2. \A x \in Events : (Handled(x)' => Handled(x)) /\ (AtTier(x)' => AtTier(x))
    <3>1. CASE CheckMarker(d)
      BY <1>2, <3>1 DEF CheckMarker, At, Handled, AtTier, IdleDelivery
    <3>2. CASE SuppressOnConversion(d)
      BY <1>2, <3>2 DEF SuppressOnConversion, At, Handled, AtTier
    <3>3. CASE Acknowledge(d)
      BY <1>2, <3>3 DEF Acknowledge, Handled, AtTier, IdleDelivery
    <3>4. CASE DeliveryFails(d)
      BY <1>2, <3>4 DEF DeliveryFails, Handled, AtTier, IdleDelivery
    <3> QED BY <1>6, <3>1, <3>2, <3>3, <3>4
  <2>3. cutOff' \/ \A x \in Events : AtTier(x) /\ story[x] = "refund" => AtTier(x)'
    <3>1. CASE CheckMarker(d)
      BY <1>2, <3>1 DEF CheckMarker, At, AtTier, IdleDelivery
    <3>2. CASE SuppressOnConversion(d)
      BY <1>2, <3>2 DEF SuppressOnConversion, At, AtTier
    <3>3. CASE Acknowledge(d)
      BY <1>2, <3>3 DEF Acknowledge, AtTier, IdleDelivery
    <3>4. CASE DeliveryFails(d)
      BY <1>2, <3>4 DEF DeliveryFails, AtTier, IdleDelivery, Kind
    <3> QED BY <1>6, <3>1, <3>2, <3>3, <3>4
  <2> QED BY <1>1, <2>1, <2>2, <2>3, PlanKept
<1>7. CASE WebhookStep
  BY <1>1, <1>5, <1>6, <1>7, HappensKeepsPlan, WriteRowKeepsPlan, SyncTierKeepsPlan
     DEF WebhookStep, DeliveryStep
<1>8. CASE UNCHANGED vars
  BY <1>3, <1>8 DEF vars
<1> QED BY <1>4, <1>7, <1>8 DEF Next

\* Whatever is sent twice or broken off, once every event is answered plan and row say what
\* the last one says, but after events out of their order and a refund cut off in between.
THEOREM PlanSettles == Spec => []SettledPlanIsRight
<1>1. PlanInv => SettledPlanIsRight
  <2> SUFFICES ASSUME PlanInv, DOMAIN story \subseteq acked, ~disordered, ~cutOff,
                      \A d \in Deliveries : delivery[d].pc = "idle"
               PROVE  /\ planTier = IF story = <<>> THEN "free" ELSE TierOf(Last(story))
                      /\ subscription.tier = planTier
    BY DEF SettledPlanIsRight
  <2>1. /\ story \in Seq(Kinds) /\ Len(story) \in Nat /\ DOMAIN story = 1 .. Len(story)
        /\ newest \in Nat /\ newest <= Len(story)
    BY BoundsAssumption DEF PlanInv, NewestInv, WebhookTypes, Events
  <2>2. CASE story = <<>>
    <3>1. newest = 0
      BY <2>1, <2>2
    <3>2. planTier = "free" /\ subscription = NoSubscription
      BY <3>1 DEF PlanInv, NewestInv
    <3> QED BY <2>2, <3>2 DEF NoSubscription
  <2>3. CASE story # <<>>
    <3>1. Len(story) \in DOMAIN story /\ 1 \in DOMAIN story /\ Last(story) = story[Len(story)]
      BY <2>1, <2>3 DEF Last
    <3>2. Len(story) \in Events /\ 1 \in Events /\ Handled(Len(story)) /\ Handled(1)
      BY <3>1 DEF Handled, PlanInv, WebhookTypes
    <3>3. newest = Len(story) /\ subscription.exists
      <4>1. subscription.exists /\ newest <= Len(story)
        BY <3>2 DEF PlanInv, NewestInv
      <4>2. Len(story) <= newest
        BY <3>2 DEF PlanInv, NewestInv
      <4>3. PICK n \in Nat : n = Len(story)
        BY <2>1
      <4>4. newest = n
        <5>1. n <= newest /\ newest <= n
          BY <4>1, <4>2, <4>3
        <5>2. newest \in Nat
          BY <2>1
        <5> QED BY <5>1, <5>2
      <4> QED BY <4>1, <4>3, <4>4
    <3>4. RowInv /\ PaidInv /\ RefundInv
      BY <3>3 DEF PlanInv, OrderInv
    <3>5. ~AtTier(newest)
      BY DEF AtTier
    <3> QED BY <2>3, <3>1, <3>2, <3>3, <3>4, <3>5 DEF RowInv, PaidInv, RefundInv, TierOf
  <2> QED BY <2>2, <2>3
<1> QED BY <1>1, PlanInit, PlanStep, PTL DEF Spec
=============================================================================
