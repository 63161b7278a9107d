---------------------------- MODULE CreditLedger ----------------------------
(***************************************************************************)
(* The credit ledger of one tenant and everything that writes to it.       *)
(*                                                                         *)
(*   GET /api/billing/credits    routes/billing.ts, lib/credits.ts         *)
(*   POST /api/brands/:id/content   routes/audits.ts, lib/hosted-content   *)
(*   audit debit                 apps/worker/src/jobs/audit-run.ts         *)
(*   credit pack                 the Stripe webhook in routes/billing.ts   *)
(*                                                                         *)
(* Rows are only ever inserted, and the balance is their sum. Each query   *)
(* is a transaction of its own and so an action of its own; the two unique *)
(* indexes and ON CONFLICT DO NOTHING are inside Insert.                   *)
(***************************************************************************)
EXTENDS Integers, FiniteSets, FiniteSetsExt

CONSTANTS
  Requests,        \* API requests in flight at most
  Keys,            \* generation keys of content drafts
  Audits, Sessions, \* audits that complete, Stripe sessions that buy a pack
  MaxPeriod,       \* bound: months that pass
  MaxFaults,       \* bound: queries that fail
  MonthlyCredits, ResidualCredits, AuditCredits, DraftCredits, PackCredits,
  GrantsAsPlatform, \* does the content route write its grant outside the tenant scope?
  None

Periods == 1 .. MaxPeriod

ASSUME CreditConstants ==
  /\ None \notin Keys
  /\ Requests # {} /\ IsFiniteSet(Requests)
  /\ MaxPeriod \in Nat \ {0} /\ MaxFaults \in Nat
  /\ {MonthlyCredits, ResidualCredits, AuditCredits, DraftCredits, PackCredits}
       \subseteq Nat \ {0}
  /\ GrantsAsPlatform \in BOOLEAN

VARIABLES
  period,    \* the current month
  ledger,    \* credit_ledger
  pieces,    \* content_piece
  req,       \* local state of the requests in flight
  faults

vars == <<period, ledger, pieces, req, faults>>

Kinds == {"monthly_grant", "period_expiry", "signup_residual", "purchase", "audit", "content"}
Refs == Periods \cup Audits \cup Sessions \cup Keys \cup {None}
Pcs == {"idle", "check", "sums", "expire", "grant", "residual", "gate", "generate", "store",
        "debit"}

IdleReq == [pc |-> "idle", route |-> "billing", period |-> 1, expire |-> 0, key |-> None,
            hosted |-> FALSE]

RowRec == [kind : Kinds, ref : Refs, delta : Int \ {0}, nth : Nat]
PieceRec == [key : Keys \cup {None}, of : Keys, hosted : BOOLEAN, nth : Nat]
ReqRec == [pc : Pcs, route : {"billing", "content"}, period : Periods, expire : Nat,
           key : Keys \cup {None}, hosted : BOOLEAN]

TypeOK ==
  /\ period \in Periods /\ faults \in Nat
  /\ ledger \subseteq RowRec /\ pieces \subseteq PieceRec
  /\ req \in [Requests -> ReqRec]

Init ==
  /\ period = 1 /\ ledger = {} /\ pieces = {} /\ faults = 0
  /\ req = [r \in Requests |-> IdleReq]

Rows(kind) == {x \in ledger : x.kind = kind}
SumOf(rows) == MapThenSumSet(LAMBDA x : x.delta, rows)
Balance == SumOf(ledger)

RowsAt(kind, ref) == {x \in ledger : x.kind = kind /\ x.ref = ref}

\* mutant: a plain INSERT, no unique index to conflict with
Insert_Plain(kind, ref, delta) ==
  ledger' = ledger \cup {[kind |-> kind, ref |-> ref, delta |-> delta,
                          nth |-> Cardinality(RowsAt(kind, ref))]}

\* INSERT ... ON CONFLICT DO NOTHING. `nth` stands for the identity column as far as it
\* tells apart rows that agree in everything else.
Insert(kind, ref, delta) ==
  ledger' = IF RowsAt(kind, ref) # {} THEN ledger
            ELSE ledger \cup {[kind |-> kind, ref |-> ref, delta |-> delta, nth |-> 0]}

Ends(r) == req' = [req EXCEPT ![r] = IdleReq]
Goes(r, pc) == req' = [req EXCEPT ![r].pc = pc]
-----------------------------------------------------------------------------
(* ensureMonthlyGrant, called by both routes *)

GrantCheck(r) ==
  /\ req[r].pc = "check"
  /\ req' = [req EXCEPT ![r] = [@ EXCEPT !.period = period,
               !.pc = IF RowsAt("monthly_grant", period) = {} THEN "sums" ELSE "grant"]]
  /\ UNCHANGED <<period, ledger, pieces, faults>>

\* plan credits do not roll over: what is left beyond the packs ever bought expires
expiringAmount_NoFloor == Balance - SumOf(Rows("purchase"))   \* mutant: no floor at zero
Max0(n) == IF n > 0 THEN n ELSE 0
expiringAmount == Max0(Balance - SumOf(Rows("purchase")))

SumLedger(r) ==
  /\ req[r].pc = "sums"
  /\ req' = [req EXCEPT ![r] = [@ EXCEPT !.expire = expiringAmount,
               !.pc = IF expiringAmount > 0 THEN "expire" ELSE "grant"]]
  /\ UNCHANGED <<period, ledger, pieces, faults>>

ExpireInsert(r) ==
  /\ req[r].pc = "expire"
  /\ Insert("period_expiry", req[r].period, -req[r].expire)
  /\ Goes(r, "grant")
  /\ UNCHANGED <<period, pieces, faults>>

\* a tenant session may insert no positive row: row-level security throws, conflict or
\* not. On return the locals of ensureMonthlyGrant are gone.
Privileged(r) == req[r].route = "billing" \/ GrantsAsPlatform
GrantInsert(r) ==
  /\ req[r].pc = "grant"
  /\ IF Privileged(r)
       THEN /\ Insert("monthly_grant", req[r].period, MonthlyCredits)
            /\ req' = [req EXCEPT ![r] = [@ EXCEPT !.period = 1, !.expire = 0,
                        !.pc = IF req[r].route = "billing" THEN "residual" ELSE "gate"]]
       ELSE Ends(r) /\ UNCHANGED ledger
  /\ UNCHANGED <<period, pieces, faults>>
-----------------------------------------------------------------------------
(* GET /api/billing/credits of a free tenant *)

ReadCredits(r) ==
  /\ req[r].pc = "idle"
  /\ req' = [req EXCEPT ![r] = [IdleReq EXCEPT !.pc = "check"]]
  /\ UNCHANGED <<period, ledger, pieces, faults>>

\* then the balance is read and answered, which changes nothing
ResidualInsert(r) ==
  /\ req[r].pc = "residual"
  /\ Insert("signup_residual", None, ResidualCredits)
  /\ Ends(r)
  /\ UNCHANGED <<period, pieces, faults>>
-----------------------------------------------------------------------------
(* POST /api/brands/:id/content *)

\* An existing draft of the key is the answer. The lookup that fails counts as "unknown,
\* carry on". `hosted`: no client key, ours is used and credits pay for it.
CreateContent(r, k, hosted) ==
  /\ req[r].pc = "idle"
  /\ \/ /\ ~\E p \in pieces : p.key = k
        /\ UNCHANGED faults
     \/ faults < MaxFaults /\ faults' = faults + 1
  /\ req' = [req EXCEPT ![r] = [IdleReq EXCEPT !.pc = IF hosted THEN "check" ELSE "generate",
                                  !.route = "content", !.key = k, !.hosted = hosted]]
  /\ UNCHANGED <<period, ledger, pieces>>

\* mutant: the balance is not looked at
CanGenerate_Always == TRUE
CanGenerate == Balance >= DraftCredits

CreditGate(r) ==
  /\ req[r].pc = "gate"
  /\ IF CanGenerate THEN Goes(r, "generate") ELSE Ends(r)
  /\ UNCHANGED <<period, ledger, pieces, faults>>

\* mutant: the debit is recorded first, and storing the draft may still fail
Generate_DebitFirst(r) ==
  /\ req[r].pc = "generate"
  /\ Goes(r, "debit")
  /\ UNCHANGED <<period, ledger, pieces, faults>>

\* the provider gives no draft, or the fact check refuses it: nothing stored or charged
Generate(r) ==
  /\ req[r].pc = "generate"
  /\ Goes(r, "store") \/ Ends(r)
  /\ UNCHANGED <<period, ledger, pieces, faults>>

Piece(k, of, hosted) ==
  [key |-> k, of |-> of, hosted |-> hosted,
   nth |-> Cardinality({p \in pieces : p.key = k /\ p.of = of /\ p.hosted = hosted})]

\* Any error of the first INSERT, the unique index's included, is taken for a missing
\* column: the draft is stored again without its key.
StorePiece(r) ==
  LET k == req[r].key IN
  /\ req[r].pc = "store"
  /\ \/ /\ ~\E p \in pieces : p.key = k
        /\ pieces' = pieces \cup {Piece(k, k, req[r].hosted)} /\ UNCHANGED faults
     \/ /\ \/ (\E p \in pieces : p.key = k) /\ UNCHANGED faults
           \/ faults < MaxFaults /\ faults' = faults + 1
        /\ pieces' = pieces \cup {Piece(None, k, req[r].hosted)}
  /\ IF req[r].hosted THEN Goes(r, "debit") ELSE Ends(r)
  /\ UNCHANGED <<period, ledger>>

\* mutant: the balance is asked once more, and the debit dropped if it no longer covers it
DebitForContentDraft_Gated(r) ==
  /\ req[r].pc = "debit"
  /\ IF CanGenerate THEN Insert("content", req[r].key, -DraftCredits) ELSE UNCHANGED ledger
  /\ Ends(r)
  /\ UNCHANGED <<period, pieces, faults>>

DebitForContentDraft(r) ==
  /\ req[r].pc = "debit"
  /\ Insert("content", req[r].key, -DraftCredits)
  /\ Ends(r)
  /\ UNCHANGED <<period, pieces, faults>>
-----------------------------------------------------------------------------
(* The other writers, time, failures *)

\* at the end of an audit, and again whenever BullMQ retries the job
DebitForAudit(a) ==
  /\ Insert("audit", a, -AuditCredits)
  /\ UNCHANGED <<period, pieces, req, faults>>

\* checkout.session.completed, delivered any number of times
CreditPack(s) ==
  /\ Insert("purchase", s, PackCredits)
  /\ UNCHANGED <<period, pieces, req, faults>>

NextPeriod ==
  /\ period < MaxPeriod /\ period' = period + 1
  /\ UNCHANGED <<ledger, pieces, req, faults>>

\* a query fails or the API process dies: what was written stays
RequestFails(r) ==
  /\ req[r].pc # "idle" /\ faults < MaxFaults /\ faults' = faults + 1
  /\ Ends(r)
  /\ UNCHANGED <<period, ledger, pieces>>

Next ==
  \/ \E r \in Requests :
       \/ ReadCredits(r) \/ GrantCheck(r) \/ SumLedger(r) \/ ExpireInsert(r)
       \/ GrantInsert(r) \/ ResidualInsert(r) \/ CreditGate(r) \/ Generate(r)
       \/ StorePiece(r) \/ DebitForContentDraft(r) \/ RequestFails(r)
       \/ \E k \in Keys, hosted \in BOOLEAN : CreateContent(r, k, hosted)
  \/ \E a \in Audits : DebitForAudit(a)
  \/ \E s \in Sessions : CreditPack(s)
  \/ NextPeriod

Spec == Init /\ [][Next]_vars
-----------------------------------------------------------------------------
(* Properties *)

\* However often an audit's job is retried, a Stripe event redelivered, a content request
\* repeated or the first page of the month loaded twice, the ledger holds one row for
\* each: one debit per audit and per draft, one credit per session, one grant and one
\* expiry per month.
OneRowPerReference ==
  \A x, y \in ledger : x.kind = y.kind /\ x.ref = y.ref => x = y

\* A draft that was not generated and stored is not charged for, and neither is one that
\* only the client's own key wrote: a content debit points at a stored hosted draft.
ChargedDraftExists ==
  \A x \in Rows("content") : \E p \in pieces : p.of = x.ref /\ p.hosted

\* Without a failed query the opposite: a stored hosted draft is charged for, unless the
\* request that wrote it is still about to do it.
HostedDraftIsCharged ==
  faults = 0 => \A p \in pieces : p.hosted =>
    \/ RowsAt("content", p.of) # {}
    \/ \E r \in Requests : req[r].pc = "debit" /\ req[r].key = p.of

\* The credit gate is check-then-act, so drafts written at the same time can overdraw the
\* balance, but only by the drafts in flight beside the first. Audits, which are not
\* gated, and the month's expiry, which may be stale, are left out of the account.
GateBoundsOverdraft ==
  Balance - SumOf(Rows("audit")) - SumOf(Rows("period_expiry"))
    >= -(Cardinality(Requests) - 1) * DraftCredits
-----------------------------------------------------------------------------
(* Statements of the repository that the code does not keep *)

\* credits.ts says of two first reads of a month: the race is handled by the database,
\* the second grant is a no-op. So the month's allowance is there to be spent: whatever
\* was spent, ever, is all that can be missing from it.
MonthlyGrantIsSpendable ==
  RowsAt("monthly_grant", period) # {} =>
    Balance - SumOf(Rows("audit")) - SumOf(Rows("content")) >= MonthlyCredits

\* Migration 20260904000001 and the route say: reprocessing must not create a second
\* draft, and the guard is a unique index.
OneDraftPerKey == \A p, q \in pieces : p.of = q.of => p = q

\* audits.ts says: without a client key the platform's is used and the balance decides,
\* a refusal answers in drafts. So a hosted request comes as far as the balance.
HostedRequestReachesGate ==
  [][\A r \in Requests : req[r].pc = "grant" /\ req[r].route = "content" /\ faults' = faults
       => req'[r].pc \in {"grant", "gate"}]_vars
=============================================================================
