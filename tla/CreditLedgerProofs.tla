-------------------------- MODULE CreditLedgerProofs --------------------------
(***************************************************************************)
(* The ledger of a tenant, for every number of requests, keys, audits,     *)
(* sessions and months and every price: one row per reference, a draft for *)
(* every content debit and a debit for every draft, the types, and the     *)
(* bound on what the credit gate lets drafts overdraw.                     *)
(*                                                                         *)
(* The last one speaks of sums, which are a fold over a set of rows. That  *)
(* the fold adds up, in whatever order it picks the rows, is shown from    *)
(* the well-foundedness of the subsets of a finite set: among the subsets  *)
(* that a claim fails for there would be a smallest one.                   *)
(***************************************************************************)
EXTENDS CreditLedger, FiniteSetTheorems, WellFoundedInduction, TLAPS

\* The unique indexes of credit_ledger: whatever Insert is asked to write, no two rows
\* share a kind and a reference.
LEMMA InsertKeepsOneRow ==
  ASSUME NEW kind, NEW ref, NEW delta, OneRowPerReference, Insert(kind, ref, delta)
  PROVE  OneRowPerReference'
<1>1. CASE RowsAt(kind, ref) # {}
  BY <1>1 DEF Insert, OneRowPerReference
<1>2. CASE RowsAt(kind, ref) = {}
  <2>. DEFINE new == [kind |-> kind, ref |-> ref, delta |-> delta, nth |-> 0]
  <2>1. ledger' = ledger \cup {new}
    BY <1>2 DEF Insert
  <2>2. \A x \in ledger : ~(x.kind = new.kind /\ x.ref = new.ref)
    BY <1>2 DEF RowsAt
  <2>. HIDE DEF new
  <2>. QED
    BY <2>1, <2>2 DEF OneRowPerReference
<1>. QED
  BY <1>1, <1>2

\* A retried audit, a redelivered Stripe event, a repeated content request and two first
\* reads of a month each leave one row in the ledger.
THEOREM OneRow == Spec => []OneRowPerReference
<1>1. Init => OneRowPerReference
  BY DEF Init, OneRowPerReference
<1>2. OneRowPerReference /\ [Next]_vars => OneRowPerReference'
  <2>. SUFFICES ASSUME OneRowPerReference, [Next]_vars PROVE OneRowPerReference'
    OBVIOUS
  <2>1. ASSUME NEW r \in Requests, ExpireInsert(r) PROVE OneRowPerReference'
    BY <2>1, InsertKeepsOneRow DEF ExpireInsert
  <2>2. ASSUME NEW r \in Requests, GrantInsert(r) PROVE OneRowPerReference'
    <3>1. Insert("monthly_grant", req[r].period, MonthlyCredits) \/ UNCHANGED ledger
      BY <2>2 DEF GrantInsert
    <3>. QED
      BY <3>1, InsertKeepsOneRow DEF OneRowPerReference
  <2>3. ASSUME NEW r \in Requests, ResidualInsert(r) PROVE OneRowPerReference'
    BY <2>3, InsertKeepsOneRow DEF ResidualInsert
  <2>4. ASSUME NEW r \in Requests, DebitForContentDraft(r) PROVE OneRowPerReference'
    BY <2>4, InsertKeepsOneRow DEF DebitForContentDraft
  <2>5. ASSUME NEW a \in Audits, DebitForAudit(a) PROVE OneRowPerReference'
    BY <2>5, InsertKeepsOneRow DEF DebitForAudit
  <2>6. ASSUME NEW s \in Sessions, CreditPack(s) PROVE OneRowPerReference'
    BY <2>6, InsertKeepsOneRow DEF CreditPack
  <2>7. CASE UNCHANGED ledger
    BY <2>7 DEF OneRowPerReference
  <2>. QED
    BY Zenon, <2>1, <2>2, <2>3, <2>4, <2>5, <2>6, <2>7
    DEF Next, vars, ReadCredits, GrantCheck, SumLedger, CreditGate, Generate, StorePiece,
        RequestFails, CreateContent, NextPeriod
<1>. QED
  BY <1>1, <1>2, PTL DEF Spec
-----------------------------------------------------------------------------
(* Debits and drafts *)

\* the local state of a request has the fields the code writes
Fields == {"pc", "route", "period", "expire", "key", "hosted"}
Shaped(x) == x = [f \in Fields |-> x[f]]
ReqShape == req = [r \in Requests |-> req[r]] /\ \A r \in Requests : Shaped(req[r])

\* a request about to debit has stored the hosted draft it debits for
DebitHasDraft ==
  \A r \in Requests : req[r].pc = "debit" => \E p \in pieces : p.of = req[r].key /\ p.hosted

DraftInv == ReqShape /\ faults \in Nat /\ DebitHasDraft /\ ChargedDraftExists
            /\ HostedDraftIsCharged

\* A local state keeps its fields under every update the routes make of it.
LEMMA UpdatesShaped ==
  /\ Shaped(IdleReq)
  /\ \A x, p : Shaped(x) => Shaped([x EXCEPT !.pc = p])
  /\ \A x, p, n : Shaped(x) => /\ Shaped([x EXCEPT !.period = n, !.pc = p])
                               /\ Shaped([x EXCEPT !.expire = n, !.pc = p])
                               /\ Shaped([x EXCEPT !.period = 1, !.expire = 0, !.pc = p])
  /\ \A p, k, h : Shaped([IdleReq EXCEPT !.pc = p, !.route = "content", !.key = k, !.hosted = h])
<1>1. Shaped(IdleReq)
  BY DEF Shaped, Fields, IdleReq
<1>2. \A x, p : Shaped(x) => Shaped([x EXCEPT !.pc = p])
  BY DEF Shaped, Fields
<1>3. \A x, p, n : Shaped(x) => Shaped([x EXCEPT !.period = n, !.pc = p])
  BY DEF Shaped, Fields
<1>4. \A x, p, n : Shaped(x) => Shaped([x EXCEPT !.expire = n, !.pc = p])
  BY DEF Shaped, Fields
<1>5. \A x, p : Shaped(x) => Shaped([x EXCEPT !.period = 1, !.expire = 0, !.pc = p])
  BY DEF Shaped, Fields
<1>6. \A p, k, h : Shaped([IdleReq EXCEPT !.pc = p, !.route = "content", !.key = k, !.hosted = h])
  BY <1>1 DEF Shaped, Fields
<1>. QED
  BY Zenon, <1>1, <1>2, <1>3, <1>4, <1>5, <1>6

\* the request r goes to the point p, and to a debit with the key it has
GoesTo(r, p) ==
  /\ req'[r].pc = p /\ (p = "debit" => req'[r].key = req[r].key)
  /\ \A q \in Requests \ {r} : req'[q] = req[q]

\* Each action takes its request to the next point of the route, or ends it, and leaves
\* the other requests alone; the only way to a debit is a stored hosted draft.
LEMMA RequestsGo ==
  ASSUME ReqShape, NEW r \in Requests
  PROVE  /\ ReadCredits(r) => ReqShape' /\ GoesTo(r, "check")
         /\ GrantCheck(r) => ReqShape' /\ (GoesTo(r, "sums") \/ GoesTo(r, "grant"))
         /\ SumLedger(r) => ReqShape' /\ (GoesTo(r, "expire") \/ GoesTo(r, "grant"))
         /\ ExpireInsert(r) => ReqShape' /\ GoesTo(r, "grant")
         /\ GrantInsert(r) => ReqShape' /\ \E p \in {"idle", "residual", "gate"} : GoesTo(r, p)
         /\ CreditGate(r) => ReqShape' /\ (GoesTo(r, "generate") \/ GoesTo(r, "idle"))
         /\ Generate(r) => ReqShape' /\ (GoesTo(r, "store") \/ GoesTo(r, "idle"))
         /\ StorePiece(r) => ReqShape' /\ GoesTo(r, IF req[r].hosted THEN "debit" ELSE "idle")
         /\ ResidualInsert(r) \/ DebitForContentDraft(r) \/ RequestFails(r)
              => ReqShape' /\ GoesTo(r, "idle")
         /\ \A k \in Keys, hosted \in BOOLEAN :
              CreateContent(r, k, hosted) => ReqShape' /\ (GoesTo(r, "check") \/ GoesTo(r, "generate"))
<1>1. ASSUME NEW x, NEW p, Shaped(x), req' = [req EXCEPT ![r] = x], x.pc = p, p # "debit"
      PROVE  ReqShape' /\ GoesTo(r, p)
  BY <1>1 DEF ReqShape, GoesTo
<1>2. Ends(r) => ReqShape' /\ GoesTo(r, "idle")
  BY Zenon, <1>1, UpdatesShaped DEF Ends, IdleReq
<1>3. \A p : Goes(r, p) => ReqShape' /\ GoesTo(r, p)
  <2>. SUFFICES ASSUME NEW p, Goes(r, p) PROVE ReqShape' /\ GoesTo(r, p)
    OBVIOUS
  <2>1. req' = [req EXCEPT ![r] = [@ EXCEPT !.pc = p]]
    BY DEF Goes
  <2>2. Shaped([req[r] EXCEPT !.pc = p])
    BY Zenon, UpdatesShaped DEF ReqShape
  <2>3. [req[r] EXCEPT !.pc = p].pc = p /\ [req[r] EXCEPT !.pc = p].key = req[r].key
    BY DEF ReqShape, Shaped, Fields
  <2>. QED
    BY Zenon, <2>1, <2>2, <2>3 DEF ReqShape, GoesTo
<1>4. ReadCredits(r) => ReqShape' /\ GoesTo(r, "check")
  <2>1. Shaped([IdleReq EXCEPT !.pc = "check"]) /\ [IdleReq EXCEPT !.pc = "check"].pc = "check"
    BY Zenon, UpdatesShaped DEF IdleReq
  <2>. QED
    BY <1>1, <2>1 DEF ReadCredits
<1>5. \A p, n : /\ req' = [req EXCEPT ![r] = [@ EXCEPT !.period = n, !.pc = p]] /\ p # "debit"
                     => ReqShape' /\ GoesTo(r, p)
                /\ req' = [req EXCEPT ![r] = [@ EXCEPT !.expire = n, !.pc = p]] /\ p # "debit"
                     => ReqShape' /\ GoesTo(r, p)
                /\ req' = [req EXCEPT ![r] = [@ EXCEPT !.period = 1, !.expire = 0, !.pc = p]]
                     /\ p # "debit" => ReqShape' /\ GoesTo(r, p)
  <2>. SUFFICES ASSUME NEW p, NEW n, p # "debit"
                PROVE  /\ req' = [req EXCEPT ![r] = [@ EXCEPT !.period = n, !.pc = p]]
                            => ReqShape' /\ GoesTo(r, p)
                       /\ req' = [req EXCEPT ![r] = [@ EXCEPT !.expire = n, !.pc = p]]
                            => ReqShape' /\ GoesTo(r, p)
                       /\ req' = [req EXCEPT ![r] = [@ EXCEPT !.period = 1, !.expire = 0, !.pc = p]]
                            => ReqShape' /\ GoesTo(r, p)
    BY Zenon
  <2>0. Shaped(req[r])
    BY DEF ReqShape
  <2>1. Shaped([req[r] EXCEPT !.period = n, !.pc = p]) /\ [req[r] EXCEPT !.period = n, !.pc = p].pc = p
    BY Zenon, <2>0, UpdatesShaped DEF Shaped, Fields
  <2>2. Shaped([req[r] EXCEPT !.expire = n, !.pc = p]) /\ [req[r] EXCEPT !.expire = n, !.pc = p].pc = p
    BY Zenon, <2>0, UpdatesShaped DEF Shaped, Fields
  <2>3. /\ Shaped([req[r] EXCEPT !.period = 1, !.expire = 0, !.pc = p])
        /\ [req[r] EXCEPT !.period = 1, !.expire = 0, !.pc = p].pc = p
    BY Zenon, <2>0, UpdatesShaped DEF Shaped, Fields
  <2>. QED
    BY Zenon, <1>1, <2>1, <2>2, <2>3
<1>6. GrantCheck(r) => ReqShape' /\ (GoesTo(r, "sums") \/ GoesTo(r, "grant"))
  BY Zenon, <1>5 DEF GrantCheck
<1>7. SumLedger(r) => ReqShape' /\ (GoesTo(r, "expire") \/ GoesTo(r, "grant"))
  BY Zenon, <1>5 DEF SumLedger
<1>8. ExpireInsert(r) => ReqShape' /\ GoesTo(r, "grant")
  BY <1>3 DEF ExpireInsert
<1>9. GrantInsert(r) => ReqShape' /\ \E p \in {"idle", "residual", "gate"} : GoesTo(r, p)
  BY Zenon, <1>2, <1>5 DEF GrantInsert
<1>10. CreditGate(r) => ReqShape' /\ (GoesTo(r, "generate") \/ GoesTo(r, "idle"))
  BY <1>2, <1>3 DEF CreditGate
<1>11. Generate(r) => ReqShape' /\ (GoesTo(r, "store") \/ GoesTo(r, "idle"))
  BY <1>2, <1>3 DEF Generate
<1>12. StorePiece(r) => ReqShape' /\ GoesTo(r, IF req[r].hosted THEN "debit" ELSE "idle")
  BY <1>2, <1>3 DEF StorePiece
<1>13. ResidualInsert(r) \/ DebitForContentDraft(r) \/ RequestFails(r)
         => ReqShape' /\ GoesTo(r, "idle")
  BY <1>2 DEF ResidualInsert, DebitForContentDraft, RequestFails
<1>14. ASSUME NEW k \in Keys, NEW hosted \in BOOLEAN, CreateContent(r, k, hosted)
       PROVE  ReqShape' /\ (GoesTo(r, "check") \/ GoesTo(r, "generate"))
  <2>. DEFINE x(p) == [IdleReq EXCEPT !.pc = p, !.route = "content", !.key = k, !.hosted = hosted]
  <2>1. req' = [req EXCEPT ![r] = x(IF hosted THEN "check" ELSE "generate")]
    BY <1>14 DEF CreateContent
  <2>2. \A p : Shaped(x(p)) /\ x(p).pc = p
    BY Zenon, UpdatesShaped DEF IdleReq
  <2>. HIDE DEF x
  <2>. QED
    BY <1>1, <2>1, <2>2
<1>. QED
  BY <1>4, <1>6, <1>7, <1>8, <1>9, <1>10, <1>11, <1>12, <1>13, <1>14

\* The ledger and the drafts only grow, and what Insert was asked for is there.
LEMMA InsertGrows ==
  ASSUME NEW kind, NEW ref, NEW delta, Insert(kind, ref, delta)
  PROVE  /\ ledger \subseteq ledger'
         /\ \A x \in ledger' \ ledger : x.kind = kind /\ x.ref = ref
         /\ \E x \in ledger' : x.kind = kind /\ x.ref = ref
<1>1. CASE RowsAt(kind, ref) # {}
  BY <1>1 DEF Insert, RowsAt
<1>2. CASE RowsAt(kind, ref) = {}
  <2>. DEFINE new == [kind |-> kind, ref |-> ref, delta |-> delta, nth |-> 0]
  <2>1. ledger' = ledger \cup {new}
    BY <1>2 DEF Insert
  <2>2. new.kind = kind /\ new.ref = ref
    OBVIOUS
  <2>. HIDE DEF new
  <2>. QED
    BY <2>1, <2>2
<1>. QED
  BY <1>1, <1>2

\* A step that writes no content debit and no draft, and takes no request to or from a
\* debit, charges for nothing new and leaves nothing uncharged.
LEMMA QuietStep ==
  ASSUME DebitHasDraft, ChargedDraftExists, HostedDraftIsCharged, faults \in Nat,
         NEW r \in Requests, NEW p, GoesTo(r, p), p # "debit",
         ledger \subseteq ledger', \A x \in ledger' \ ledger : x.kind # "content",
         UNCHANGED pieces, faults' \in {faults, faults + 1},
         faults' = 0 => req[r].pc # "debit"
  PROVE  DebitHasDraft' /\ ChargedDraftExists' /\ HostedDraftIsCharged'
<1>1. DebitHasDraft'
  BY DEF DebitHasDraft, GoesTo
<1>2. ChargedDraftExists'
  BY DEF ChargedDraftExists, Rows
<1>3. HostedDraftIsCharged'
  <2>. SUFFICES ASSUME faults' = 0, NEW q \in pieces, q.hosted
                PROVE  \/ RowsAt("content", q.of)' # {}
                       \/ \E t \in Requests : req'[t].pc = "debit" /\ req'[t].key = q.of
    BY DEF HostedDraftIsCharged
  <2>1. faults = 0
    OBVIOUS
  <2>2. CASE RowsAt("content", q.of) # {}
    BY <2>2 DEF RowsAt
  <2>3. CASE \E t \in Requests : req[t].pc = "debit" /\ req[t].key = q.of
    BY <2>3 DEF GoesTo
  <2>. QED
    BY <2>1, <2>2, <2>3 DEF HostedDraftIsCharged
<1>. QED
  BY <1>1, <1>2, <1>3

\* Storing the draft comes before its debit, and the debit follows unless something fails.
LEMMA DraftStep == DraftInv /\ [Next]_vars => DraftInv'
<1>. SUFFICES ASSUME DraftInv, [Next]_vars PROVE DraftInv'
  OBVIOUS
<1>0. /\ ReqShape /\ DebitHasDraft /\ ChargedDraftExists /\ HostedDraftIsCharged
      /\ faults \in Nat
  BY DEF DraftInv
<1>1. ASSUME NEW r \in Requests,
             \/ ReadCredits(r) \/ GrantCheck(r) \/ SumLedger(r) \/ CreditGate(r)
             \/ Generate(r)
             \/ \E k \in Keys, hosted \in BOOLEAN : CreateContent(r, k, hosted)
      PROVE  DraftInv'
  <2>1. PICK p : ReqShape' /\ GoesTo(r, p) /\ p # "debit"
    BY <1>0, <1>1, RequestsGo
  <2>2. UNCHANGED <<ledger, pieces>> /\ faults' \in {faults, faults + 1} /\ req[r].pc # "debit"
    BY Zenon, <1>1 DEF ReadCredits, GrantCheck, SumLedger, CreditGate, Generate, CreateContent
  <2>. QED
    BY <1>0, <2>1, <2>2, QuietStep DEF DraftInv
<1>2. ASSUME NEW r \in Requests, ExpireInsert(r) \/ GrantInsert(r) \/ ResidualInsert(r)
      PROVE  DraftInv'
  <2>1. PICK p : ReqShape' /\ GoesTo(r, p) /\ p # "debit"
    BY <1>0, <1>2, RequestsGo
  <2>2. UNCHANGED <<pieces, faults>> /\ req[r].pc # "debit"
    BY <1>2 DEF ExpireInsert, GrantInsert, ResidualInsert
  <2>3. \/ UNCHANGED ledger
        \/ \E kind \in Kinds \ {"content"} : \E ref, delta : Insert(kind, ref, delta)
    BY <1>2 DEF ExpireInsert, GrantInsert, ResidualInsert, Kinds
  <2>4. ledger \subseteq ledger' /\ \A x \in ledger' \ ledger : x.kind # "content"
    BY <2>3, InsertGrows
  <2>. QED
    BY <1>0, <2>1, <2>2, <2>4, QuietStep DEF DraftInv
<1>3. ASSUME NEW r \in Requests, RequestFails(r)
      PROVE  DraftInv'
  <2>1. ReqShape' /\ GoesTo(r, "idle")
    BY <1>0, <1>3, RequestsGo
  <2>2. UNCHANGED <<ledger, pieces>> /\ faults' = faults + 1
    BY <1>3 DEF RequestFails
  <2>. QED
    BY <1>0, <2>1, <2>2, QuietStep DEF DraftInv
<1>4. ASSUME NEW r \in Requests, StorePiece(r)
      PROVE  DraftInv'
  <2>. DEFINE k == req[r].key
  <2>1. ReqShape' /\ GoesTo(r, IF req[r].hosted THEN "debit" ELSE "idle")
    BY <1>0, <1>4, RequestsGo
  <2>2. PICK key : pieces' = pieces \cup {Piece(key, k, req[r].hosted)}
    BY <1>4 DEF StorePiece
  <2>3. req[r].pc = "store" /\ UNCHANGED ledger /\ faults' \in {faults, faults + 1}
    BY <1>4 DEF StorePiece
  <2>4. PICK new : pieces' = pieces \cup {new} /\ new.of = k /\ new.hosted = req[r].hosted
    <3>1. Piece(key, k, req[r].hosted).of = k
          /\ Piece(key, k, req[r].hosted).hosted = req[r].hosted
      BY DEF Piece
    <3>. QED
      BY <2>2, <3>1
  <2>. HIDE DEF k
  <2>5. DebitHasDraft'
    <3>. SUFFICES ASSUME NEW q \in Requests, req'[q].pc = "debit"
                  PROVE  \E x \in pieces' : x.of = req'[q].key /\ x.hosted
      BY DEF DebitHasDraft
    <3>1. CASE q = r
      BY <2>1, <2>4, <3>1 DEF GoesTo, k
    <3>2. CASE q # r
      BY <1>0, <2>1, <2>4, <3>2 DEF GoesTo, DebitHasDraft
    <3>. QED
      BY <3>1, <3>2
  <2>6. ChargedDraftExists'
    BY <1>0, <2>3, <2>4 DEF ChargedDraftExists, Rows
  <2>7. HostedDraftIsCharged'
    <3>. SUFFICES ASSUME faults' = 0, NEW x \in pieces', x.hosted
                  PROVE  \/ RowsAt("content", x.of)' # {}
                         \/ \E q \in Requests : req'[q].pc = "debit" /\ req'[q].key = x.of
      BY DEF HostedDraftIsCharged
    <3>1. faults = 0
      BY <1>0, <2>3
    <3>2. CASE x \in pieces
      BY <1>0, <2>1, <2>3, <3>1, <3>2 DEF HostedDraftIsCharged, RowsAt, GoesTo
    <3>3. CASE x = new
      BY <2>1, <2>4, <3>3 DEF GoesTo, k
    <3>. QED
      BY <2>4, <3>2, <3>3
  <2>. QED
    BY <1>0, <2>1, <2>3, <2>5, <2>6, <2>7 DEF DraftInv
<1>5. ASSUME NEW r \in Requests, DebitForContentDraft(r)
      PROVE  DraftInv'
  <2>1. ReqShape' /\ GoesTo(r, "idle")
    BY <1>0, <1>5, RequestsGo
  <2>2. /\ req[r].pc = "debit" /\ UNCHANGED <<pieces, faults>>
        /\ Insert("content", req[r].key, -DraftCredits)
    BY <1>5 DEF DebitForContentDraft
  <2>3. /\ ledger \subseteq ledger'
        /\ \E x \in ledger' : x.kind = "content" /\ x.ref = req[r].key
        /\ \A x \in ledger' \ ledger : x.ref = req[r].key
    BY <2>2, InsertGrows
  <2>4. DebitHasDraft'
    BY <1>0, <2>1, <2>2 DEF DebitHasDraft, GoesTo
  <2>5. ChargedDraftExists'
    BY <1>0, <2>2, <2>3 DEF ChargedDraftExists, DebitHasDraft, Rows
  <2>6. HostedDraftIsCharged'
    <3>. SUFFICES ASSUME faults = 0, NEW x \in pieces, x.hosted
                  PROVE  \/ RowsAt("content", x.of)' # {}
                         \/ \E q \in Requests : req'[q].pc = "debit" /\ req'[q].key = x.of
      BY <2>2 DEF HostedDraftIsCharged
    <3>1. CASE RowsAt("content", x.of) # {}
      BY <2>3, <3>1 DEF RowsAt
    <3>2. ASSUME NEW q \in Requests, req[q].pc = "debit", req[q].key = x.of
          PROVE  \/ RowsAt("content", x.of)' # {}
                 \/ req'[q].pc = "debit" /\ req'[q].key = x.of
      <4>1. CASE q = r
        <5>1. x.of = req[r].key
          BY <3>2, <4>1
        <5>. QED
          BY <2>3, <5>1 DEF RowsAt
      <4>2. CASE q # r
        BY <2>1, <3>2, <4>2 DEF GoesTo
      <4>. QED
        BY <4>1, <4>2
    <3>. QED
      BY <1>0, <3>1, <3>2 DEF HostedDraftIsCharged
  <2>. QED
    BY <1>0, <2>1, <2>2, <2>4, <2>5, <2>6 DEF DraftInv
<1>6. ASSUME UNCHANGED <<pieces, req, faults>>, ledger \subseteq ledger',
             \A x \in ledger' \ ledger : x.kind # "content"
      PROVE  DraftInv'
  BY <1>0, <1>6
  DEF DraftInv, ReqShape, Shaped, Fields, DebitHasDraft, ChargedDraftExists, Rows,
      HostedDraftIsCharged, RowsAt
<1>7. ASSUME (\E a \in Audits : DebitForAudit(a)) \/ (\E s \in Sessions : CreditPack(s))
      PROVE  DraftInv'
  <2>1. UNCHANGED <<pieces, req, faults>>
        /\ \E kind \in Kinds \ {"content"} : \E ref, delta : Insert(kind, ref, delta)
    BY <1>7 DEF DebitForAudit, CreditPack, Kinds
  <2>. QED
    BY <1>6, <2>1, InsertGrows
<1>8. ASSUME UNCHANGED <<ledger, pieces, req, faults>>
      PROVE  DraftInv'
  BY <1>6, <1>8
<1>. QED
  BY <1>1, <1>2, <1>3, <1>4, <1>5, <1>7, <1>8 DEF Next, vars, NextPeriod

\* The invariant holds of an empty ledger and in every state after it.
LEMMA DraftInvariance == Spec => []DraftInv
<1>1. Init => DraftInv
  <2>. SUFFICES ASSUME Init PROVE DraftInv
    OBVIOUS
  <2>1. ReqShape /\ DebitHasDraft
    BY Zenon, UpdatesShaped DEF Init, ReqShape, DebitHasDraft, IdleReq
  <2>. QED
    BY <2>1 DEF Init, DraftInv, ChargedDraftExists, HostedDraftIsCharged, Rows
<1>. QED
  BY <1>1, DraftStep, PTL DEF Spec

\* A content debit always points at a hosted draft that was generated and stored: a refused
\* generation or a failed store is never charged for.
THEOREM ChargedDraft == Spec => []ChargedDraftExists
<1>1. DraftInv => ChargedDraftExists
  BY DEF DraftInv
<1>. QED
  BY DraftInvariance, <1>1, PTL

\* While nothing fails, a stored hosted draft is charged for or its request is about to.
THEOREM HostedCharged == Spec => []HostedDraftIsCharged
<1>1. DraftInv => HostedDraftIsCharged
  BY DEF DraftInv
<1>. QED
  BY DraftInvariance, <1>1, PTL
-----------------------------------------------------------------------------
(* Sums of rows *)

\* the recursion of the fold, and the function that satisfies it
Pick(s) == CHOOSE x \in s : TRUE
Rest(s) == s \ {Pick(s)}
Adds(f, S) == f = [s \in SUBSET S |-> IF s = {} THEN 0 ELSE Pick(s).delta + f[Rest(s)]]
Adding(S) == CHOOSE f : Adds(f, S)

\* A sum is the last value of the fold.
LEMMA SumIsFold == \A S : SumOf(S) = Adding(S)[S]
BY DEF SumOf, MapThenSumSet, MapThenFoldSet, Adding, Adds, Rest, Pick

\* Among sets of subsets of a finite set there is always a smallest one.
LEMMA SmallestSubset ==
  ASSUME NEW S, IsFiniteSet(S), NEW B \in SUBSET (SUBSET S), B # {}
  PROVE  \E T \in B : \A U \in B : U \subseteq T => U = T
<1>1. IsWellFoundedOn(StrictSubsetOrdering(S), SUBSET S)
  BY FS_StrictSubsetOrderingWellFounded, FS_FiniteSubsetsOfFinite
<1>2. \E T \in B : \A U \in B : <<U, T>> \notin StrictSubsetOrdering(S)
  BY <1>1, WFMin
<1> QED BY <1>2 DEF StrictSubsetOrdering

\* The row that is picked is one of them, so the rest is less.
LEMMA RestIsLess ==
  ASSUME NEW T, T # {}
  PROVE  Pick(T) \in T /\ Rest(T) \subseteq T /\ Rest(T) # T
BY DEF Pick, Rest

\* Whatever larger set it is the fold of, the recursion gives a finite set one value.
LEMMA AddsAgree ==
  ASSUME NEW S, IsFiniteSet(S), NEW A, NEW B, S \subseteq A, S \subseteq B,
         NEW f, NEW g, Adds(f, A), Adds(g, B)
  PROVE  f[S] = g[S]
<1> DEFINE Bad == {T \in SUBSET S : f[T] # g[T]}
<1>1. SUFFICES ASSUME Bad # {} PROVE FALSE
  OBVIOUS
<1>2. PICK T \in Bad : \A U \in Bad : U \subseteq T => U = T
  <2>1. Bad \in SUBSET (SUBSET S)
    OBVIOUS
  <2> HIDE DEF Bad
  <2> QED BY <1>1, <2>1, SmallestSubset
<1>3. T \in SUBSET A /\ T \in SUBSET B /\ T \in SUBSET S
  OBVIOUS
<1>4. /\ f[T] = IF T = {} THEN 0 ELSE Pick(T).delta + f[Rest(T)]
      /\ g[T] = IF T = {} THEN 0 ELSE Pick(T).delta + g[Rest(T)]
  BY <1>3 DEF Adds
<1>5. T # {} /\ f[Rest(T)] # g[Rest(T)]
  BY <1>4
<1>6. Rest(T) \in Bad
  BY <1>3, <1>5, RestIsLess
<1> QED BY <1>2, <1>5, <1>6, RestIsLess

\* and there is such a fold.
LEMMA AddingAdds ==
  ASSUME NEW S, IsFiniteSet(S)
  PROVE  Adds(Adding(S), S)
<1> DEFINE Bad == {T \in SUBSET S : ~\E f : Adds(f, T)}
<1>1. SUFFICES ASSUME Bad # {} PROVE FALSE
  BY DEF Adding
<1>2. PICK T \in Bad : \A U \in Bad : U \subseteq T => U = T
  <2>1. Bad \in SUBSET (SUBSET S)
    OBVIOUS
  <2> HIDE DEF Bad
  <2> QED BY <1>1, <2>1, SmallestSubset
<1>3. \A U \in SUBSET T : U # T => IsFiniteSet(U) /\ Adds(Adding(U), U)
  <2>1. \A U \in SUBSET T : U # T => U \notin Bad /\ U \in SUBSET S
    BY <1>2
  <2> QED BY <2>1, FS_Subset DEF Adding
<1> DEFINE g == [s \in SUBSET T |-> IF s = {} THEN 0 ELSE Pick(s).delta + Adding(Rest(s))[Rest(s)]]
<1>4. \A s \in SUBSET T : s # {} => Rest(s) \in SUBSET T /\ Rest(s) # T
  BY RestIsLess
<1>5. ASSUME NEW U \in SUBSET T, U # T PROVE g[U] = Adding(U)[U]
  <2>1. Adding(U)[U] = IF U = {} THEN 0 ELSE Pick(U).delta + Adding(U)[Rest(U)]
    BY <1>3, <1>5 DEF Adds
  <2>2. ASSUME U # {} PROVE Adding(U)[Rest(U)] = Adding(Rest(U))[Rest(U)]
    BY <1>3, <1>4, <1>5, <2>2, AddsAgree, RestIsLess
  <2> QED BY <2>1, <2>2
<1>6. \A s \in SUBSET T : s # {} => g[Rest(s)] = Adding(Rest(s))[Rest(s)]
  BY <1>4, <1>5
<1>7. Adds(g, T)
  BY <1>6 DEF Adds
<1> QED BY <1>2, <1>7

\* The sum of a finite set of rows: nothing for none, or one of them and the rest.
LEMMA SumUnfolds ==
  ASSUME NEW S, IsFiniteSet(S)
  PROVE  SumOf(S) = IF S = {} THEN 0 ELSE Pick(S).delta + SumOf(Rest(S))
<1>1. SumOf(S) = IF S = {} THEN 0 ELSE Pick(S).delta + Adding(S)[Rest(S)]
  BY AddingAdds, SumIsFold DEF Adds
<1>2. ASSUME S # {} PROVE Adding(S)[Rest(S)] = SumOf(Rest(S))
  <2>1. IsFiniteSet(Rest(S)) /\ Rest(S) \subseteq S
    BY <1>2, RestIsLess, FS_Subset
  <2> QED BY <2>1, AddsAgree, AddingAdds, SumIsFold
<1> QED BY <1>1, <1>2

\* Sums are whole, and it does not matter which row is added last.
LEMMA SumOfRows ==
  ASSUME NEW S, IsFiniteSet(S), \A x \in S : x.delta \in Int
  PROVE  SumOf(S) \in Int /\ \A y \in S : SumOf(S) = y.delta + SumOf(S \ {y})
<1> DEFINE Good(T) == SumOf(T) \in Int /\ \A y \in T : SumOf(T) = y.delta + SumOf(T \ {y})
           Bad == {T \in SUBSET S : ~Good(T)}
<1>1. SUFFICES ASSUME Bad # {} PROVE FALSE
  OBVIOUS
<1>2. PICK T \in Bad : \A U \in Bad : U \subseteq T => U = T
  <2>1. Bad \in SUBSET (SUBSET S)
    OBVIOUS
  <2> HIDE DEF Bad
  <2> QED BY <1>1, <2>1, SmallestSubset
<1>3. \A U \in SUBSET T : IsFiniteSet(U) /\ (U # T => Good(U))
  BY <1>2, FS_Subset
<1> HIDE DEF Good
<1>4. SumOf(T) = IF T = {} THEN 0 ELSE Pick(T).delta + SumOf(Rest(T))
  BY <1>3, SumUnfolds
<1>5. CASE T = {}
  BY <1>2, <1>4, <1>5 DEF Good
<1>6. CASE T # {}
  <2> DEFINE c == Pick(T)
  <2>1. c \in T /\ Rest(T) = T \ {c} /\ Good(T \ {c}) /\ \A x \in T : x.delta \in Int
    BY <1>3, <1>6, RestIsLess DEF Rest
  <2> HIDE DEF c
  <2>2. SumOf(T) = c.delta + SumOf(T \ {c}) /\ SumOf(T \ {c}) \in Int /\ c.delta \in Int
    BY <1>4, <1>6, <2>1 DEF Good, c
  <2>3. ASSUME NEW y \in T, y # c PROVE SumOf(T) = y.delta + SumOf(T \ {y})
    <3>1. T \ {y} \in SUBSET T /\ T \ {y} # T /\ Good(T \ {y})
      BY <1>3
    <3>2. SumOf(T \ {c}) = y.delta + SumOf((T \ {c}) \ {y})
      BY <2>1, <2>3 DEF Good
    <3>3. SumOf(T \ {y}) = c.delta + SumOf((T \ {y}) \ {c})
      BY <2>1, <2>3, <3>1 DEF Good
    <3>4. (T \ {c}) \ {y} = (T \ {y}) \ {c} /\ SumOf((T \ {c}) \ {y}) \in Int
      <4>1. (T \ {c}) \ {y} \in SUBSET T /\ (T \ {c}) \ {y} # T
        BY <2>1
      <4> QED BY <1>3, <4>1 DEF Good
    <3>5. y.delta \in Int
      BY <2>1
    <3>6. PICK p \in Int, q \in Int, n \in Int :
            p = c.delta /\ q = y.delta /\ n = SumOf((T \ {c}) \ {y})
      BY <2>2, <3>4, <3>5
    <3>7. SumOf(T) = p + (q + n) /\ SumOf(T \ {y}) = p + n
      BY <2>2, <3>2, <3>3, <3>4, <3>6
    <3>8. p + (q + n) = q + (p + n)
      OBVIOUS
    <3> QED BY <3>6, <3>7, <3>8
  <2>4. Good(T)
    <3>1. SumOf(T) \in Int
      BY <2>2
    <3>2. \A y \in T : SumOf(T) = y.delta + SumOf(T \ {y})
      BY <2>2, <2>3
    <3> QED BY <3>1, <3>2 DEF Good
  <2> QED BY <1>2, <2>4
<1> QED BY <1>5, <1>6

\* One row more adds what it says.
LEMMA SumAdds ==
  ASSUME NEW S, IsFiniteSet(S), \A x \in S : x.delta \in Int, NEW y, y \notin S, y.delta \in Int
  PROVE  SumOf(S \cup {y}) = SumOf(S) + y.delta
<1>1. IsFiniteSet(S \cup {y}) /\ (S \cup {y}) \ {y} = S
  BY FS_AddElement
<1>2. SumOf(S \cup {y}) = y.delta + SumOf(S) /\ SumOf(S) \in Int
  BY <1>1, SumOfRows
<1> QED BY <1>2
-----------------------------------------------------------------------------
(* Types and balances *)

\* hosted requests past the credit gate, whose draft may still be charged for
Underway == {r \in Requests : req[r].hosted /\ req[r].pc \in {"generate", "store", "debit"}}
\* the balance but for what no gate bounds
AuditSum == SumOf(Rows("audit"))
ExpirySum == SumOf(Rows("period_expiry"))
Spendable == Balance - AuditSum - ExpirySum
\* it covers a number n of drafts under way but for those beside the first
Covered(spendable, n) == spendable >= n * DraftCredits - (Cardinality(Requests) - 1) * DraftCredits

\* a request that expires credits has some to expire, one that writes a draft has its key,
\* and one that charges for it wrote it on the platform's account
Prepared(x) ==
  /\ x.pc = "expire" => x.expire > 0
  /\ x.pc \in {"gate", "generate", "store", "debit"} => x.route = "content"
  /\ x.route = "content" => x.key \in Keys
  /\ x.pc = "debit" => x.hosted

\* the types, and that there are finitely many rows and drafts
TypeInv ==
  /\ TypeOK /\ IsFiniteSet(ledger) /\ IsFiniteSet(pieces)
  /\ \A r \in Requests : Prepared(req[r])

\* What is spendable covers the drafts under way.
BalanceInv == AuditSum <= 0 /\ ExpirySum <= 0 /\ Covered(Spendable, Cardinality(Underway))

\* What the sums of a finite ledger are.
LEMMA SumsAreInts ==
  ASSUME TypeInv
  PROVE  /\ Balance \in Int /\ Spendable \in Int
         /\ \A kind : SumOf(Rows(kind)) \in Int /\ IsFiniteSet(Rows(kind))
<1>1. \A x \in ledger : x.delta \in Int
  BY DEF TypeInv, TypeOK, RowRec
<1>2. Balance \in Int
  BY <1>1, SumOfRows DEF TypeInv, Balance
<1>3. ASSUME NEW kind PROVE SumOf(Rows(kind)) \in Int /\ IsFiniteSet(Rows(kind))
  <2>1. Rows(kind) \in SUBSET ledger
    BY DEF Rows
  <2>2. IsFiniteSet(Rows(kind))
    BY <2>1, FS_Subset DEF TypeInv
  <2> QED BY <1>1, <2>1, <2>2, SumOfRows
<1> QED BY <1>2, <1>3 DEF Spendable, AuditSum, ExpirySum

\* An INSERT either meets its index and changes nothing, or adds its delta to the balance
\* and to the sum of its kind.
LEMMA InsertSums ==
  ASSUME TypeInv, NEW kind \in Kinds, NEW ref \in Refs, NEW delta \in Int \ {0},
         Insert(kind, ref, delta)
  PROVE  /\ ledger' \subseteq RowRec /\ IsFiniteSet(ledger')
         /\ \/ ledger' = ledger
            \/ /\ Balance' = Balance + delta
               /\ SumOf(Rows(kind))' = SumOf(Rows(kind)) + delta
               /\ \A k : k # kind => Rows(k)' = Rows(k)
<1>1. CASE RowsAt(kind, ref) # {}
  BY <1>1 DEF Insert, TypeInv, TypeOK
<1>2. CASE RowsAt(kind, ref) = {}
  <2> DEFINE new == [kind |-> kind, ref |-> ref, delta |-> delta, nth |-> 0]
  <2>1. ledger' = ledger \cup {new}
    BY <1>2 DEF Insert
  <2>2. new \in RowRec
    BY DEF RowRec
  <2>3. new.kind = kind /\ new.delta = delta /\ new \notin ledger
    BY <1>2 DEF RowsAt
  <2>4. ledger \subseteq RowRec /\ IsFiniteSet(ledger) /\ \A x \in ledger : x.delta \in Int
    BY DEF TypeInv, TypeOK, RowRec
  <2> HIDE DEF new
  <2>5. ledger' \subseteq RowRec /\ IsFiniteSet(ledger')
    BY <2>1, <2>2, <2>4, FS_AddElement
  <2>6. Balance' = Balance + delta
    BY <2>1, <2>3, <2>4, SumAdds DEF Balance
  <2>7. Rows(kind)' = Rows(kind) \cup {new} /\ \A k : k # kind => Rows(k)' = Rows(k)
    BY <2>1, <2>3 DEF Rows
  <2>8. SumOf(Rows(kind))' = SumOf(Rows(kind)) + delta
    <3>1. IsFiniteSet(Rows(kind)) /\ new \notin Rows(kind) /\ \A x \in Rows(kind) : x.delta \in Int
      BY <2>3, <2>4, SumsAreInts DEF Rows
    <3> QED BY <2>3, <2>7, <3>1, SumAdds
  <2> QED BY <2>5, <2>6, <2>7, <2>8
<1> QED BY <1>1, <1>2

\* the request r goes on as x says, which is a state its route knows
Becomes(r, x) == x \in ReqRec /\ Prepared(x) /\ req' = [req EXCEPT ![r] = x]

\* What an idle request and one that has just come in look like.
LEMMA IdleIsIdle ==
  /\ IdleReq.pc = "idle" /\ ~IdleReq.hosted
  /\ [IdleReq EXCEPT !.pc = "check"].pc = "check"
BY DEF IdleReq

\* It is then in that state, and the others are in the one they were in.
LEMMA BecomesTyped ==
  ASSUME TypeInv, NEW r \in Requests, NEW x, Becomes(r, x)
  PROVE  /\ req' \in [Requests -> ReqRec] /\ \A q \in Requests : Prepared(req'[q])
         /\ req'[r] = x /\ \A q \in Requests \ {r} : req'[q] = req[q]
BY DEF TypeInv, TypeOK, Becomes

\* The states a request goes to.
LEMMA RequestsBecome ==
  ASSUME TypeInv, NEW r \in Requests
  PROVE  /\ Ends(r) => Becomes(r, IdleReq)
         /\ \A p \in Pcs \ {"expire"} :
                /\ Goes(r, p)
                /\ p \in {"gate", "generate", "store", "debit"} => req[r].route = "content"
                /\ p = "debit" => req[r].hosted
              => Becomes(r, [req[r] EXCEPT !.pc = p])
         /\ ReadCredits(r) => Becomes(r, [IdleReq EXCEPT !.pc = "check"])
         /\ GrantCheck(r) => \E p \in {"sums", "grant"} : Becomes(r, [req[r] EXCEPT !.period = period, !.pc = p])
         /\ SumLedger(r) => \E p \in {"expire", "grant"} :
                              Becomes(r, [req[r] EXCEPT !.expire = expiringAmount, !.pc = p])
         /\ GrantInsert(r) /\ Privileged(r) =>
              \E p \in {"residual", "gate"} :
                Becomes(r, [req[r] EXCEPT !.period = 1, !.expire = 0, !.pc = p])
<1>0. req[r] \in ReqRec /\ Prepared(req[r]) /\ period \in Periods /\ 1 \in Periods
  BY CreditConstants DEF TypeInv, TypeOK, Periods
<1>1. IdleReq \in ReqRec /\ Prepared(IdleReq)
  BY <1>0 DEF IdleReq, ReqRec, Pcs, Prepared
<1>2. Ends(r) => Becomes(r, IdleReq)
  BY <1>1 DEF Ends, Becomes
<1>3. ASSUME NEW p \in Pcs \ {"expire"}, Goes(r, p),
             p \in {"gate", "generate", "store", "debit"} => req[r].route = "content",
             p = "debit" => req[r].hosted
      PROVE  Becomes(r, [req[r] EXCEPT !.pc = p])
  <2>1. [req[r] EXCEPT !.pc = p] \in ReqRec
    BY <1>0 DEF ReqRec
  <2>2. Prepared([req[r] EXCEPT !.pc = p])
    BY <1>0, <1>3 DEF Prepared, ReqRec
  <2> QED BY <1>3, <2>1, <2>2 DEF Becomes, Goes
<1>4. ReadCredits(r) => Becomes(r, [IdleReq EXCEPT !.pc = "check"])
  <2>1. [IdleReq EXCEPT !.pc = "check"] \in ReqRec /\ Prepared([IdleReq EXCEPT !.pc = "check"])
    BY <1>0 DEF IdleReq, ReqRec, Pcs, Prepared
  <2> QED BY <2>1 DEF ReadCredits, Becomes
<1>5. ASSUME GrantCheck(r)
      PROVE  \E p \in {"sums", "grant"} : Becomes(r, [req[r] EXCEPT !.period = period, !.pc = p])
  <2>1. \A p \in {"sums", "grant"} : /\ [req[r] EXCEPT !.period = period, !.pc = p] \in ReqRec
                                     /\ Prepared([req[r] EXCEPT !.period = period, !.pc = p])
    BY <1>0 DEF ReqRec, Pcs, Prepared
  <2>2. \E p \in {"sums", "grant"} : req' = [req EXCEPT ![r] = [req[r] EXCEPT !.period = period, !.pc = p]]
    BY <1>5 DEF GrantCheck
  <2> QED BY <2>1, <2>2 DEF Becomes
<1>6. ASSUME SumLedger(r)
      PROVE  \E p \in {"expire", "grant"} : Becomes(r, [req[r] EXCEPT !.expire = expiringAmount, !.pc = p])
  <2>1. expiringAmount \in Nat
    BY SumsAreInts DEF expiringAmount, Max0
  <2>2. PICK p \in {"expire", "grant"} :
          /\ req' = [req EXCEPT ![r] = [req[r] EXCEPT !.expire = expiringAmount, !.pc = p]]
          /\ p = "expire" => expiringAmount > 0
    BY <1>6 DEF SumLedger
  <2> HIDE DEF expiringAmount
  <2>3. PICK n \in Nat : n = expiringAmount
    BY <2>1
  <2>4. /\ [req[r] EXCEPT !.expire = n, !.pc = p] \in ReqRec
        /\ Prepared([req[r] EXCEPT !.expire = n, !.pc = p])
    BY <1>0, <2>2, <2>3 DEF ReqRec, Pcs, Prepared
  <2> QED BY <2>2, <2>3, <2>4 DEF Becomes
<1>7. ASSUME GrantInsert(r), Privileged(r)
      PROVE  \E p \in {"residual", "gate"} : Becomes(r, [req[r] EXCEPT !.period = 1, !.expire = 0, !.pc = p])
  <2>1. PICK p \in {"residual", "gate"} :
          /\ req' = [req EXCEPT ![r] = [req[r] EXCEPT !.period = 1, !.expire = 0, !.pc = p]]
          /\ p = "gate" => req[r].route = "content"
    <3>1. req[r].route \in {"billing", "content"}
      BY <1>0 DEF ReqRec
    <3> QED BY <1>7, <3>1 DEF GrantInsert
  <2>2. /\ [req[r] EXCEPT !.period = 1, !.expire = 0, !.pc = p] \in ReqRec
        /\ Prepared([req[r] EXCEPT !.period = 1, !.expire = 0, !.pc = p])
    BY <1>0, <2>1 DEF ReqRec, Pcs, Prepared
  <2> QED BY <2>1, <2>2 DEF Becomes
<1> QED BY <1>2, <1>3, <1>4, <1>5, <1>6, <1>7

\* A content request comes in with its key, and goes to the gate's side or straight to the
\* provider.
LEMMA ContentBecomes ==
  ASSUME TypeInv, NEW r \in Requests, NEW k \in Keys, NEW hosted \in BOOLEAN, CreateContent(r, k, hosted)
  PROVE  \E x : /\ Becomes(r, x)
                /\ x.hosted = hosted /\ x.pc = IF hosted THEN "check" ELSE "generate"
<1>1. 1 \in Periods
  BY CreditConstants DEF Periods
<1> DEFINE p == IF hosted THEN "check" ELSE "generate"
           x == [IdleReq EXCEPT !.pc = p, !.route = "content", !.key = k, !.hosted = hosted]
<1>2. x \in ReqRec /\ Prepared(x) /\ x.hosted = hosted /\ x.pc = p
  BY <1>1 DEF IdleReq, ReqRec, Pcs, Prepared
<1>3. req' = [req EXCEPT ![r] = x]
  BY DEF CreateContent
<1> HIDE DEF x
<1>4. Becomes(r, x)
  BY <1>2, <1>3 DEF Becomes
<1> QED BY <1>2, <1>4

\* a row of this kind is inserted, unless there is one already
Writes(kind, delta) == \E ref \in Refs : Insert(kind, ref, delta)

\* Who writes rows, of which kind and sign.
LEMMA Writers ==
  ASSUME TypeInv
  PROVE  /\ \A r \in Requests :
              /\ ExpireInsert(r) => \E n \in Nat \ {0} : Writes("period_expiry", -n)
              /\ GrantInsert(r) => UNCHANGED ledger \/ Writes("monthly_grant", MonthlyCredits)
              /\ ResidualInsert(r) => Writes("signup_residual", ResidualCredits)
              /\ DebitForContentDraft(r) => Writes("content", -DraftCredits)
         /\ \A a \in Audits : DebitForAudit(a) => Writes("audit", -AuditCredits)
         /\ \A s \in Sessions : CreditPack(s) => Writes("purchase", PackCredits)
<1>1. ASSUME NEW r \in Requests
      PROVE  /\ ExpireInsert(r) => \E n \in Nat \ {0} : Writes("period_expiry", -n)
             /\ GrantInsert(r) => UNCHANGED ledger \/ Writes("monthly_grant", MonthlyCredits)
             /\ ResidualInsert(r) => Writes("signup_residual", ResidualCredits)
             /\ DebitForContentDraft(r) => Writes("content", -DraftCredits)
  <2>1. /\ req[r].period \in Refs /\ req[r].key \in Refs /\ None \in Refs
        /\ req[r].expire \in Nat /\ (req[r].pc = "expire" => req[r].expire # 0)
    BY DEF TypeInv, TypeOK, ReqRec, Refs, Prepared
  <2> QED BY <2>1 DEF Writes, ExpireInsert, GrantInsert, ResidualInsert, DebitForContentDraft
<1>2. Audits \subseteq Refs /\ Sessions \subseteq Refs
  BY DEF Refs
<1> QED BY <1>1, <1>2 DEF Writes, DebitForAudit, CreditPack

\* No price is zero.
LEMMA PricesTyped ==
  /\ {MonthlyCredits, ResidualCredits, PackCredits} \subseteq Int \ {0}
  /\ -AuditCredits \in Int \ {0} /\ -DraftCredits \in Int \ {0} /\ \A n \in Nat \ {0} : -n \in Int \ {0}
BY CreditConstants

\* Rows, drafts and requests keep their types, and there are finitely many of the first two.
LEMMA TypeStep == TypeInv /\ [Next]_vars => TypeInv'
<1> SUFFICES ASSUME TypeInv, [Next]_vars PROVE TypeInv'
  OBVIOUS
<1>0. /\ period \in Periods /\ faults \in Nat /\ pieces \subseteq PieceRec /\ IsFiniteSet(pieces)
      /\ ledger \subseteq RowRec /\ IsFiniteSet(ledger)
      /\ req \in [Requests -> ReqRec] /\ \A r \in Requests : Prepared(req[r])
  BY DEF TypeInv, TypeOK
<1>1. ASSUME NEW kind \in Kinds, NEW delta \in Int \ {0}, Writes(kind, delta)
      PROVE  ledger' \subseteq RowRec /\ IsFiniteSet(ledger')
  BY <1>1, InsertSums DEF Writes
<1>2. ASSUME NEW r \in Requests, NEW x, Becomes(r, x), ledger' \subseteq RowRec, IsFiniteSet(ledger'),
             pieces' \subseteq PieceRec, IsFiniteSet(pieces'), faults' \in {faults, faults + 1}, period' = period
      PROVE  TypeInv'
  <2>1. req' \in [Requests -> ReqRec] /\ \A q \in Requests : Prepared(req'[q])
    BY <1>2, BecomesTyped
  <2>2. faults' \in Nat
    BY <1>0, <1>2
  <2> QED BY <1>0, <1>2, <2>1, <2>2 DEF TypeInv, TypeOK
<1>3. ASSUME NEW r \in Requests,
             ReadCredits(r) \/ GrantCheck(r) \/ SumLedger(r) \/ CreditGate(r) \/ Generate(r) \/ RequestFails(r)
      PROVE  TypeInv'
  <2>1. UNCHANGED <<ledger, pieces, period>> /\ faults' \in {faults, faults + 1}
    BY Zenon, <1>3 DEF ReadCredits, GrantCheck, SumLedger, CreditGate, Generate, RequestFails
  <2>2. \E x : Becomes(r, x)
    <3>1. CASE ReadCredits(r) \/ GrantCheck(r) \/ SumLedger(r)
      BY <3>1, RequestsBecome
    <3>2. CASE CreditGate(r) \/ Generate(r)
      <4>1. req[r].route = "content"
        BY <1>0, <3>2 DEF CreditGate, Generate, Prepared
      <4>2. Goes(r, "generate") \/ Goes(r, "store") \/ Ends(r)
        BY <3>2 DEF CreditGate, Generate
      <4> QED BY <4>1, <4>2, RequestsBecome DEF Pcs
    <3>3. CASE RequestFails(r)
      BY <3>3, RequestsBecome DEF RequestFails
    <3> QED BY <1>3, <3>1, <3>2, <3>3
  <2> QED BY <1>0, <1>2, <2>1, <2>2
<1>4. ASSUME NEW r \in Requests, ExpireInsert(r) \/ GrantInsert(r) \/ ResidualInsert(r) \/ DebitForContentDraft(r)
      PROVE  TypeInv'
  <2>1. UNCHANGED <<pieces, period, faults>> /\ faults' \in {faults, faults + 1}
    BY <1>4 DEF ExpireInsert, GrantInsert, ResidualInsert, DebitForContentDraft
  <2>2. ledger' \subseteq RowRec /\ IsFiniteSet(ledger')
    <3>1. UNCHANGED ledger \/ \E kind \in Kinds, delta \in Int \ {0} : Writes(kind, delta)
      <4>1. CASE ExpireInsert(r)
        BY <4>1, Writers, PricesTyped DEF Kinds
      <4>2. CASE GrantInsert(r)
        BY <4>2, Writers, PricesTyped DEF Kinds
      <4>3. CASE ResidualInsert(r)
        BY <4>3, Writers, PricesTyped DEF Kinds
      <4>4. CASE DebitForContentDraft(r)
        BY <4>4, Writers, PricesTyped DEF Kinds
      <4> QED BY <1>4, <4>1, <4>2, <4>3, <4>4
    <3> QED BY <1>0, <1>1, <3>1
  <2>3. \E x : Becomes(r, x)
    <3>1. CASE ExpireInsert(r)
      BY <3>1, RequestsBecome DEF ExpireInsert, Pcs
    <3>2. CASE GrantInsert(r)
      <4>1. Privileged(r) \/ Ends(r)
        BY <3>2 DEF GrantInsert
      <4> QED BY <3>2, <4>1, RequestsBecome
    <3>3. CASE ResidualInsert(r) \/ DebitForContentDraft(r)
      BY <3>3, RequestsBecome DEF ResidualInsert, DebitForContentDraft
    <3> QED BY <1>4, <3>1, <3>2, <3>3
  <2> QED BY <1>0, <1>2, <2>1, <2>2, <2>3
<1>5. ASSUME NEW r \in Requests, NEW k \in Keys, NEW hosted \in BOOLEAN, CreateContent(r, k, hosted)
      PROVE  TypeInv'
  <2>1. UNCHANGED <<ledger, pieces, period>> /\ faults' \in {faults, faults + 1}
    BY <1>5 DEF CreateContent
  <2>2. \E x : Becomes(r, x)
    BY <1>5, ContentBecomes
  <2> QED BY <1>0, <1>2, <2>1, <2>2
<1>6. ASSUME NEW r \in Requests, StorePiece(r)
      PROVE  TypeInv'
  <2>1. UNCHANGED <<ledger, period>> /\ faults' \in {faults, faults + 1} /\ req[r].pc = "store"
    BY <1>6 DEF StorePiece
  <2>2. req[r].route = "content" /\ req[r].key \in Keys /\ req[r].hosted \in BOOLEAN
    BY <1>0, <2>1 DEF Prepared, ReqRec
  <2>3. ASSUME NEW k \in Keys \cup {None} PROVE Piece(k, req[r].key, req[r].hosted) \in PieceRec
    <3> DEFINE same == {p \in pieces : p.key = k /\ p.of = req[r].key /\ p.hosted = req[r].hosted}
    <3>1. same \in SUBSET pieces
      OBVIOUS
    <3>2. Piece(k, req[r].key, req[r].hosted)
            = [key |-> k, of |-> req[r].key, hosted |-> req[r].hosted, nth |-> Cardinality(same)]
      BY DEF Piece
    <3> HIDE DEF same
    <3>3. Cardinality(same) \in Nat
      BY <1>0, <3>1, FS_Subset, FS_CardinalityType
    <3> QED BY <2>2, <3>2, <3>3 DEF PieceRec
  <2>4. \E k \in Keys \cup {None} : pieces' = pieces \cup {Piece(k, req[r].key, req[r].hosted)}
    BY <1>6, <2>2 DEF StorePiece
  <2>5. pieces' \subseteq PieceRec /\ IsFiniteSet(pieces')
    BY <1>0, <2>3, <2>4, FS_AddElement
  <2>6. \E x : Becomes(r, x)
    BY <1>6, <2>2, RequestsBecome DEF StorePiece, Pcs
  <2> QED BY <1>0, <1>2, <2>1, <2>5, <2>6
<1>7. ASSUME UNCHANGED <<period, pieces, req, faults>>, ledger' \subseteq RowRec, IsFiniteSet(ledger')
      PROVE  TypeInv'
  BY <1>0, <1>7 DEF TypeInv, TypeOK, Prepared
<1>8. ASSUME NEW a \in Audits, DebitForAudit(a) PROVE TypeInv'
  <2>1. ledger' \subseteq RowRec /\ IsFiniteSet(ledger')
    BY <1>1, <1>8, Writers, PricesTyped DEF Kinds
  <2> QED BY <1>7, <1>8, <2>1 DEF DebitForAudit
<1>9. ASSUME NEW s \in Sessions, CreditPack(s) PROVE TypeInv'
  <2>1. ledger' \subseteq RowRec /\ IsFiniteSet(ledger')
    BY <1>1, <1>9, Writers, PricesTyped DEF Kinds
  <2> QED BY <1>7, <1>9, <2>1 DEF CreditPack
<1>10. CASE NextPeriod
  <2>1. period' \in Periods
    BY <1>0, <1>10, CreditConstants DEF NextPeriod, Periods
  <2> QED BY <1>0, <1>10, <2>1 DEF NextPeriod, TypeInv, TypeOK, Prepared
<1>11. CASE UNCHANGED vars
  BY <1>0, <1>7, <1>11 DEF vars
<1> QED BY <1>3, <1>4, <1>5, <1>6, <1>8, <1>9, <1>10, <1>11 DEF Next

\* An audit's debit and a month's expiry leave what is spendable as it is, every other row
\* adds its delta to it.
LEMMA WritesCount ==
  ASSUME TypeInv, AuditSum <= 0, ExpirySum <= 0,
         NEW kind \in Kinds, NEW delta \in Int \ {0}, Writes(kind, delta)
  PROVE  /\ kind \in {"audit", "period_expiry"} /\ delta < 0 =>
              AuditSum' <= 0 /\ ExpirySum' <= 0 /\ Spendable' = Spendable
         /\ kind \notin {"audit", "period_expiry"} =>
              /\ AuditSum' <= 0 /\ ExpirySum' <= 0
              /\ Spendable' = Spendable \/ Spendable' = Spendable + delta
<1>1. /\ Balance \in Int /\ AuditSum \in Int /\ ExpirySum \in Int
      /\ Spendable = Balance - AuditSum - ExpirySum
      /\ Spendable' = Balance' - AuditSum' - ExpirySum'
  BY SumsAreInts DEF AuditSum, ExpirySum, Spendable
<1>2. CASE ledger' = ledger
  BY <1>2 DEF Spendable, Balance, AuditSum, ExpirySum, Rows
<1>3. CASE /\ Balance' = Balance + delta
           /\ SumOf(Rows(kind))' = SumOf(Rows(kind)) + delta
           /\ \A k : k # kind => Rows(k)' = Rows(k)
  <2>1. CASE kind = "audit"
    <3>1. AuditSum' = AuditSum + delta /\ ExpirySum' = ExpirySum
      BY <1>3, <2>1 DEF AuditSum, ExpirySum
    <3> QED BY <1>1, <1>3, <2>1, <3>1
  <2>2. CASE kind = "period_expiry"
    <3>1. AuditSum' = AuditSum /\ ExpirySum' = ExpirySum + delta
      BY <1>3, <2>2 DEF AuditSum, ExpirySum
    <3> QED BY <1>1, <1>3, <2>2, <3>1
  <2>3. CASE kind \notin {"audit", "period_expiry"}
    <3>1. AuditSum' = AuditSum /\ ExpirySum' = ExpirySum
      BY <1>3, <2>3 DEF AuditSum, ExpirySum
    <3> QED BY <1>1, <1>3, <2>3, <3>1
  <2> QED BY <2>1, <2>2, <2>3
<1> QED BY <1>2, <1>3, InsertSums DEF Writes

\* One request at a time joins the drafts under way or leaves them, and it is not among
\* those that are there when it joins.
LEMMA UnderwayCount ==
  ASSUME TypeInv, NEW r \in Requests, \A q \in Requests \ {r} : req'[q] = req[q]
  PROVE  /\ r \in Underway' /\ r \in Underway => Underway' = Underway
         /\ r \notin Underway' /\ r \notin Underway => Underway' = Underway
         /\ r \notin Underway' /\ r \in Underway => Cardinality(Underway') = Cardinality(Underway) - 1
         /\ r \in Underway' /\ r \notin Underway =>
              /\ Cardinality(Underway') = Cardinality(Underway) + 1
              /\ Cardinality(Underway) + 1 <= Cardinality(Requests)
<1>0. IsFiniteSet(Requests) /\ Underway \in SUBSET Requests /\ IsFiniteSet(Underway)
  BY CreditConstants, FS_Subset DEF Underway
<1>1. \A q \in Requests : q # r => (q \in Underway' <=> q \in Underway)
  BY DEF Underway
<1>2. Underway' \in SUBSET Requests
  BY DEF Underway
<1>3. ASSUME r \notin Underway', r \in Underway PROVE Cardinality(Underway') = Cardinality(Underway) - 1
  <2>1. Underway' = Underway \ {r}
    BY <1>0, <1>1, <1>2, <1>3
  <2> QED BY <1>0, <1>3, <2>1, FS_RemoveElement
<1>4. ASSUME r \in Underway', r \notin Underway
      PROVE  /\ Cardinality(Underway') = Cardinality(Underway) + 1
             /\ Cardinality(Underway) + 1 <= Cardinality(Requests)
  <2>1. Underway' = Underway \cup {r}
    BY <1>0, <1>1, <1>2, <1>4
  <2>2. Cardinality(Underway') = Cardinality(Underway) + 1
    BY <1>0, <1>4, <2>1, FS_AddElement
  <2> QED BY <1>0, <1>2, <2>2, FS_Subset
<1>5. /\ r \in Underway' /\ r \in Underway => Underway' = Underway
      /\ r \notin Underway' /\ r \notin Underway => Underway' = Underway
  BY <1>0, <1>1, <1>2
<1> QED BY <1>3, <1>4, <1>5

\* The bound survives credits that come in, a draft that is given up or charged for, and
\* one let through by the gate.
LEMMA CoveredSteps ==
  ASSUME NEW s \in Int, NEW n \in Int, NEW t \in Int
  PROVE  /\ Covered(s, n) /\ t >= s => Covered(t, n)
         /\ Covered(s, n) => Covered(s, n - 1) /\ Covered(s - DraftCredits, n - 1)
         /\ s >= DraftCredits /\ n + 1 <= Cardinality(Requests) => Covered(s, n + 1)
<1>1. DraftCredits \in Nat /\ Cardinality(Requests) \in Int
  BY CreditConstants, FS_CardinalityType
<1>2. PICK c \in Int, d \in Nat : c = Cardinality(Requests) /\ d = DraftCredits
  BY <1>1
<1>3. \A x \in Int, m \in Int : Covered(x, m) <=> x >= m * d - (c - 1) * d
  BY <1>2 DEF Covered
<1>4. (n - 1) * d = n * d - d /\ (n + 1) * d = n * d + d /\ (c - 1) * d = c * d - d /\ n * d \in Int /\ c * d \in Int
  BY <1>2
<1>5. n + 1 <= c => (n + 1) * d <= c * d
  BY <1>2
<1>6. PICK nd \in Int, cd \in Int : nd = n * d /\ cd = c * d
  BY <1>4
<1>7. \A x \in Int : /\ Covered(x, n) <=> x >= nd - (cd - d)
                     /\ Covered(x, n - 1) <=> x >= (nd - d) - (cd - d)
                     /\ Covered(x, n + 1) <=> x >= (nd + d) - (cd - d)
  <2>1. n - 1 \in Int /\ n + 1 \in Int
    OBVIOUS
  <2> QED BY <1>3, <1>4, <1>6, <2>1
<1>8. Covered(s, n) /\ t >= s => Covered(t, n)
  BY <1>2, <1>7
<1>9. Covered(s, n) => Covered(s, n - 1) /\ Covered(s - d, n - 1)
  <2>1. s - d \in Int
    BY <1>2
  <2> QED BY <1>2, <1>7, <2>1
<1>10. s >= d /\ n + 1 <= c => Covered(s, n + 1)
  BY <1>2, <1>4, <1>5, <1>6, <1>7
<1> QED BY <1>2, <1>8, <1>9, <1>10

\* The gate lets a draft through when the balance covers it, and every draft that is let
\* through is charged for at most once: the drafts under way stay covered.
LEMMA BalanceStep == TypeInv /\ BalanceInv /\ [Next]_vars => BalanceInv'
<1> SUFFICES ASSUME TypeInv, BalanceInv, [Next]_vars PROVE BalanceInv'
  OBVIOUS
<1>0. /\ AuditSum <= 0 /\ ExpirySum <= 0 /\ Covered(Spendable, Cardinality(Underway))
      /\ req \in [Requests -> ReqRec]
  BY DEF BalanceInv, TypeInv, TypeOK
<1>1. Cardinality(Underway) \in Int /\ Spendable \in Int /\ DraftCredits \in Nat \ {0}
  <2>1. IsFiniteSet(Underway)
    BY CreditConstants, FS_Subset DEF Underway
  <2> QED BY <2>1, CreditConstants, SumsAreInts, FS_CardinalityType
<1>2. ASSUME UNCHANGED ledger, Covered(Spendable, Cardinality(Underway'))
      PROVE  BalanceInv'
  <2>1. Spendable' = Spendable /\ AuditSum' = AuditSum /\ ExpirySum' = ExpirySum
    BY <1>2 DEF Spendable, Balance, AuditSum, ExpirySum, Rows
  <2> QED BY <1>0, <1>2, <2>1 DEF BalanceInv, Covered
<1>3. ASSUME NEW kind \in Kinds \ {"content"}, NEW delta \in Int \ {0}, Writes(kind, delta),
             IF kind \in {"audit", "period_expiry"} THEN delta < 0 ELSE delta > 0,
             Underway' = Underway
      PROVE  BalanceInv'
  <2>1. /\ AuditSum' <= 0 /\ ExpirySum' <= 0
        /\ \/ Spendable' = Spendable
           \/ Spendable' = Spendable + delta /\ delta > 0
    <3>1. CASE kind \in {"audit", "period_expiry"}
      BY <1>0, <1>3, <3>1, WritesCount
    <3>2. CASE kind \notin {"audit", "period_expiry"}
      BY <1>0, <1>3, <3>2, WritesCount
    <3> QED BY <3>1, <3>2
  <2>2. Spendable' \in Int /\ Spendable' >= Spendable
    BY <1>1, <2>1
  <2>3. Covered(Spendable', Cardinality(Underway))
    BY <1>0, <1>1, <2>2, CoveredSteps
  <2> QED BY <1>3, <2>1, <2>3 DEF BalanceInv, Covered
<1>4. ASSUME NEW r \in Requests, NEW x, Becomes(r, x), UNCHANGED ledger,
             x.hosted /\ x.pc \in {"generate", "store", "debit"} => r \in Underway
      PROVE  BalanceInv'
  <2>1. req'[r] = x /\ \A q \in Requests \ {r} : req'[q] = req[q]
    BY <1>4, BecomesTyped
  <2>2. r \in Underway' => r \in Underway
    BY <1>4, <2>1 DEF Underway
  <2>3. Underway' = Underway \/ Cardinality(Underway') = Cardinality(Underway) - 1
    BY <2>1, <2>2, UnderwayCount
  <2>4. Covered(Spendable, Cardinality(Underway'))
    BY <1>0, <1>1, <2>3, CoveredSteps
  <2> QED BY <1>2, <1>4, <2>4
<1>5. ASSUME NEW r \in Requests, ReadCredits(r) \/ GrantCheck(r) \/ SumLedger(r) \/ RequestFails(r)
      PROVE  BalanceInv'
  <2>1. UNCHANGED ledger
    BY <1>5 DEF ReadCredits, GrantCheck, SumLedger, RequestFails
  <2>2. \E x : Becomes(r, x) /\ x.pc \notin {"generate", "store", "debit"}
    <3>1. req[r] \in ReqRec
      BY <1>0
    <3>2. CASE ReadCredits(r)
      BY <3>2, IdleIsIdle, RequestsBecome
    <3>3. CASE GrantCheck(r)
      <4>1. PICK p \in {"sums", "grant"} : Becomes(r, [req[r] EXCEPT !.period = period, !.pc = p])
        BY <3>3, RequestsBecome
      <4>2. [req[r] EXCEPT !.period = period, !.pc = p].pc = p
        BY <3>1 DEF ReqRec
      <4> QED BY <4>1, <4>2
    <3>4. CASE SumLedger(r)
      <4>1. PICK p \in {"expire", "grant"} : Becomes(r, [req[r] EXCEPT !.expire = expiringAmount, !.pc = p])
        BY <3>4, RequestsBecome
      <4>2. [req[r] EXCEPT !.expire = expiringAmount, !.pc = p].pc = p
        BY <3>1 DEF ReqRec
      <4> QED BY <4>1, <4>2
    <3>5. CASE RequestFails(r)
      BY <3>5, IdleIsIdle, RequestsBecome DEF RequestFails
    <3> QED BY <1>5, <3>2, <3>3, <3>4, <3>5
  <2> QED BY <1>4, <2>1, <2>2
<1>6. ASSUME NEW r \in Requests, NEW k \in Keys, NEW hosted \in BOOLEAN, CreateContent(r, k, hosted)
      PROVE  BalanceInv'
  <2>1. UNCHANGED ledger
    BY <1>6 DEF CreateContent
  <2>2. \E x : Becomes(r, x) /\ ~(x.hosted /\ x.pc \in {"generate", "store", "debit"})
    BY <1>6, ContentBecomes
  <2> QED BY <1>4, <2>1, <2>2
<1>7. ASSUME NEW r \in Requests, Generate(r) \/ StorePiece(r)
      PROVE  BalanceInv'
  <2>1. UNCHANGED ledger /\ req[r].pc \in {"generate", "store"} /\ req[r] \in ReqRec /\ Prepared(req[r])
    BY <1>0, <1>7 DEF Generate, StorePiece, TypeInv
  <2>2. Ends(r) \/ \E p \in {"store", "debit"} : Goes(r, p) /\ (p = "debit" => req[r].hosted)
    BY <1>7 DEF Generate, StorePiece
  <2>3. CASE Ends(r)
    BY <1>4, <2>1, <2>3, IdleIsIdle, RequestsBecome
  <2>4. ASSUME NEW p \in {"store", "debit"}, Goes(r, p), p = "debit" => req[r].hosted PROVE BalanceInv'
    <3>1. Becomes(r, [req[r] EXCEPT !.pc = p])
      BY <2>1, <2>4, RequestsBecome DEF Pcs, Prepared
    <3>2. [req[r] EXCEPT !.pc = p].hosted = req[r].hosted
      BY <2>1 DEF ReqRec
    <3> QED BY <1>4, <2>1, <3>1, <3>2 DEF Underway
  <2> QED BY <2>2, <2>3, <2>4
<1>8. ASSUME NEW r \in Requests, CreditGate(r)
      PROVE  BalanceInv'
  <2>1. UNCHANGED ledger /\ req[r].pc = "gate" /\ req[r] \in ReqRec /\ Prepared(req[r])
    BY <1>0, <1>8 DEF CreditGate, TypeInv
  <2>2. CASE Ends(r)
    BY <1>4, <2>1, <2>2, IdleIsIdle, RequestsBecome
  <2>3. CASE CanGenerate /\ Goes(r, "generate")
    <3>1. Becomes(r, [req[r] EXCEPT !.pc = "generate"])
      BY <2>1, <2>3, RequestsBecome DEF Pcs, Prepared
    <3>2. \A q \in Requests \ {r} : req'[q] = req[q]
      BY <3>1, BecomesTyped
    <3>3. Spendable >= DraftCredits
      <4>1. Balance \in Int /\ AuditSum \in Int /\ ExpirySum \in Int /\ Balance >= DraftCredits
        BY <2>3, SumsAreInts DEF CanGenerate, AuditSum, ExpirySum
      <4> QED BY <1>0, <1>1, <4>1 DEF Spendable
    <3>4. r \notin Underway
      BY <2>1 DEF Underway
    <3>5. CASE r \in Underway'
      <4>1. Cardinality(Underway') = Cardinality(Underway) + 1 /\ Cardinality(Underway) + 1 <= Cardinality(Requests)
        BY <3>2, <3>4, <3>5, UnderwayCount
      <4> QED BY <1>1, <1>2, <2>1, <3>3, <4>1, CoveredSteps
    <3>6. CASE r \notin Underway'
      BY <1>0, <1>2, <2>1, <3>2, <3>4, <3>6, UnderwayCount
    <3> QED BY <3>5, <3>6
  <2> QED BY <1>8, <2>2, <2>3 DEF CreditGate
<1>9. ASSUME NEW r \in Requests, ExpireInsert(r) \/ GrantInsert(r) \/ ResidualInsert(r)
      PROVE  BalanceInv'
  <2>1. req[r] \in ReqRec /\ r \notin Underway
    BY <1>0, <1>9 DEF ExpireInsert, GrantInsert, ResidualInsert, Underway
  <2>2. \E x : Becomes(r, x) /\ x.pc \notin {"generate", "store", "debit"}
    <3>1. CASE ExpireInsert(r)
      <4>1. Becomes(r, [req[r] EXCEPT !.pc = "grant"]) /\ [req[r] EXCEPT !.pc = "grant"].pc = "grant"
        BY <2>1, <3>1, RequestsBecome DEF ExpireInsert, Pcs, ReqRec
      <4> QED BY <4>1
    <3>2. CASE GrantInsert(r) /\ Privileged(r)
      <4>1. PICK p \in {"residual", "gate"} : Becomes(r, [req[r] EXCEPT !.period = 1, !.expire = 0, !.pc = p])
        BY <3>2, RequestsBecome
      <4>2. [req[r] EXCEPT !.period = 1, !.expire = 0, !.pc = p].pc = p
        BY <2>1 DEF ReqRec
      <4> QED BY <4>1, <4>2
    <3>3. CASE Ends(r)
      BY <3>3, IdleIsIdle, RequestsBecome
    <3> QED BY <1>9, <3>1, <3>2, <3>3 DEF GrantInsert, ResidualInsert
  <2>3. Underway' = Underway
    <3>1. PICK x : Becomes(r, x) /\ x.pc \notin {"generate", "store", "debit"}
      BY <2>2
    <3>2. req'[r] = x /\ \A q \in Requests \ {r} : req'[q] = req[q]
      BY <3>1, BecomesTyped
    <3>3. r \notin Underway'
      BY <3>1, <3>2 DEF Underway
    <3> QED BY <2>1, <3>2, <3>3, UnderwayCount
  <2>4. UNCHANGED ledger \/ \E kind \in Kinds \ {"content"}, delta \in Int \ {0} :
          /\ Writes(kind, delta)
          /\ IF kind \in {"audit", "period_expiry"} THEN delta < 0 ELSE delta > 0
    <3>1. ASSUME ExpireInsert(r)
          PROVE  \E n \in Int \ {0} : Writes("period_expiry", n) /\ n < 0
      <4>1. PICK n \in Nat \ {0} : Writes("period_expiry", -n)
        BY <3>1, Writers
      <4> QED BY <4>1
    <3>2. /\ GrantInsert(r) => UNCHANGED ledger \/ Writes("monthly_grant", MonthlyCredits)
          /\ ResidualInsert(r) => Writes("signup_residual", ResidualCredits)
          /\ MonthlyCredits \in Nat \ {0} /\ ResidualCredits \in Nat \ {0}
      BY Writers, CreditConstants
    <3> QED BY <1>9, <3>1, <3>2 DEF Kinds
  <2>5. CASE UNCHANGED ledger
    BY <1>0, <1>2, <2>3, <2>5
  <2> QED BY <1>3, <2>3, <2>4, <2>5
<1>10. ASSUME NEW r \in Requests, DebitForContentDraft(r)
       PROVE  BalanceInv'
  <2>1. Becomes(r, IdleReq) /\ Writes("content", -DraftCredits) /\ req[r].pc = "debit"
    BY <1>10, RequestsBecome, Writers DEF DebitForContentDraft
  <2>2. req'[r] = IdleReq /\ \A q \in Requests \ {r} : req'[q] = req[q]
    BY <2>1, BecomesTyped
  <2>3. r \notin Underway'
    BY <2>2 DEF Underway, IdleReq
  <2>4. /\ AuditSum' <= 0 /\ ExpirySum' <= 0
        /\ Spendable' = Spendable \/ Spendable' = Spendable + -DraftCredits
    BY <1>0, <2>1, WritesCount, PricesTyped DEF Kinds
  <2>5. r \in Underway
    BY <2>1 DEF Underway, TypeInv, Prepared
  <2>6. Cardinality(Underway') = Cardinality(Underway) - 1
    BY <2>2, <2>3, <2>5, UnderwayCount
  <2>7. Covered(Spendable, Cardinality(Underway) - 1) /\ Covered(Spendable - DraftCredits, Cardinality(Underway) - 1)
    BY <1>0, <1>1, CoveredSteps
  <2>8. Spendable + -DraftCredits = Spendable - DraftCredits
    BY <1>1
  <2> QED BY <2>4, <2>6, <2>7, <2>8 DEF BalanceInv, Covered
<1>11. ASSUME (\E a \in Audits : DebitForAudit(a)) \/ (\E s \in Sessions : CreditPack(s))
       PROVE  BalanceInv'
  <2>1. Underway' = Underway
    BY <1>11 DEF DebitForAudit, CreditPack, Underway
  <2>2. Writes("audit", -AuditCredits) \/ Writes("purchase", PackCredits)
    BY <1>11, Writers
  <2>3. -AuditCredits \in Int \ {0} /\ -AuditCredits < 0 /\ PackCredits \in Int \ {0} /\ PackCredits > 0
    BY CreditConstants
  <2> QED BY <1>3, <2>1, <2>2, <2>3 DEF Kinds
<1>12. CASE NextPeriod \/ UNCHANGED vars
  <2>1. UNCHANGED <<ledger, req>>
    BY <1>12 DEF NextPeriod, vars
  <2>2. Underway' = Underway
    BY <2>1 DEF Underway
  <2> QED BY <1>0, <1>2, <2>1, <2>2
<1> QED BY <1>5, <1>6, <1>7, <1>8, <1>9, <1>10, <1>11, <1>12 DEF Next

\* The invariants hold of an empty ledger and in every state after it.
LEMMA BalanceInvariance == Spec => [](TypeInv /\ BalanceInv)
<1>1. Init => TypeInv /\ BalanceInv
  <2> SUFFICES ASSUME Init PROVE TypeInv /\ BalanceInv
    OBVIOUS
  <2>1. IdleReq \in ReqRec /\ Prepared(IdleReq) /\ 1 \in Periods
    BY CreditConstants DEF IdleReq, ReqRec, Pcs, Prepared, Periods
  <2>2. TypeInv
    BY <2>1, FS_EmptySet DEF Init, TypeInv, TypeOK
  <2>3. Underway = {} /\ Rows("audit") = {} /\ Rows("period_expiry") = {} /\ ledger = {}
    BY DEF Init, Underway, Rows, IdleReq
  <2>4. SumOf({}) = 0
    BY FS_EmptySet, SumUnfolds
  <2>5. AuditSum = 0 /\ ExpirySum = 0 /\ Spendable = 0 /\ Cardinality(Underway) = 0
    BY <2>3, <2>4, FS_EmptySet DEF AuditSum, ExpirySum, Spendable, Balance
  <2>6. Cardinality(Requests) \in Nat \ {0} /\ DraftCredits \in Nat
    BY CreditConstants, FS_CardinalityType, FS_EmptySet
  <2>7. (Cardinality(Requests) - 1) * DraftCredits >= 0
    BY <2>6
  <2> QED BY <2>2, <2>5, <2>6, <2>7 DEF BalanceInv, Covered
<1>2. TypeInv /\ BalanceInv /\ [Next]_vars => TypeInv' /\ BalanceInv'
  BY TypeStep, BalanceStep
<1> QED BY <1>1, <1>2, PTL DEF Spec

\* Every row, draft and request keeps its type: the amount that expires is a number, and
\* no row is written with a delta of zero.
THEOREM LedgerTypes == Spec => []TypeOK
<1>1. TypeInv => TypeOK
  BY DEF TypeInv
<1> QED BY <1>1, BalanceInvariance, PTL

\* However many requests pass the credit gate on the same balance, the drafts overdraw it
\* by no more than those in flight beside the first.
THEOREM OverdraftIsBounded == Spec => []GateBoundsOverdraft
<1>1. TypeInv /\ BalanceInv => GateBoundsOverdraft
  <2> SUFFICES ASSUME TypeInv, BalanceInv PROVE GateBoundsOverdraft
    OBVIOUS
  <2>1. Cardinality(Underway) \in Nat /\ Cardinality(Requests) \in Nat /\ DraftCredits \in Nat
    BY CreditConstants, FS_Subset, FS_CardinalityType DEF Underway
  <2>2. Cardinality(Underway) * DraftCredits \in Nat /\ (Cardinality(Requests) - 1) * DraftCredits \in Int
    BY <2>1
  <2>3. -(Cardinality(Requests) - 1) * DraftCredits = -((Cardinality(Requests) - 1) * DraftCredits)
    BY <2>1
  <2>4. Spendable \in Int /\ Spendable >= -((Cardinality(Requests) - 1) * DraftCredits)
    BY <2>2, SumsAreInts DEF BalanceInv, Covered
  <2> QED BY <2>3, <2>4 DEF GateBoundsOverdraft, Spendable, AuditSum, ExpirySum
<1> QED BY <1>1, BalanceInvariance, PTL
===============================================================================
