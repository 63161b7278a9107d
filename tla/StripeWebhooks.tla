----------------------------- MODULE StripeWebhooks -----------------------------
(***************************************************************************)
(* What Stripe's events make of a tenant's subscription, and of the mail   *)
(* sequences of its owner. Stripe sends an event until it is answered with *)
(* 2xx, in no particular order, and sometimes twice at once; a handler     *)
(* looks the event up in Redis, writes the subscription row and the        *)
(* tenant's plan in two queries, and marks the event at the end.           *)
(*                                                                         *)
(*   webhook  apps/api/src/routes/billing.ts                               *)
(*   mails    module Nurture                                               *)
(*                                                                         *)
(* One tenant with one subscription, bought from an account that exists.   *)
(***************************************************************************)
EXTENDS Nurture, Sequences, SequencesExt

CONSTANTS
  MaxEvents,     \* bound: events Stripe tells of
  Deliveries,    \* webhook requests that may be under way
  MaxBusy        \* bound: polls and requests under way at the same time

Kinds == {"subscribe", "cancel", "refund"}
Events == 1 .. MaxEvents

ASSUME BoundsAssumption == MaxEvents \in Nat /\ MaxBusy \in Nat \ {0}

VARIABLES
  story,       \* what happened at Stripe: the kinds of its events, in order
  acked,       \* those answered with 2xx
  marker,      \* Redis billing:event:<id>
  subscription,  \* billing_subscriptions: the row, with the id of the last event
  delivery,    \* local state of a request
  \* what happened, for the properties to speak about
  sold,        \* the tenant's purchase has been through suppressOnConversion
  newest,      \* the latest event of the story a handler has gone to the tables with
  disordered,  \* one has done so after a later one had
  cutOff       \* a refund has written the row and died before the plan

webhookVars == <<story, acked, marker, subscription, delivery, sold, newest, disordered, cutOff>>
vars == <<nurtureVars, planTier, faults, webhookVars>>

NoSubscription == [exists |-> FALSE, tier |-> "free", last |-> 0]
DeliveryPc == {"idle", "check", "row", "tier", "suppress", "mark"}
IdleDelivery == [pc |-> "idle", event |-> 0]

TypeOK ==
  /\ NurtureTypeOK
  /\ story \in Seq(Kinds) /\ Len(story) <= MaxEvents /\ acked \subseteq Events /\ marker \subseteq Events
  /\ subscription \in [exists : BOOLEAN, tier : Tier, last : Events \cup {0}]
  /\ delivery \in [Deliveries -> [pc : DeliveryPc, event : Events \cup {0}]]
  /\ sold \in BOOLEAN /\ newest \in Events \cup {0} /\ disordered \in BOOLEAN /\ cutOff \in BOOLEAN

Init ==
  /\ NurtureInit
  /\ story = <<>> /\ acked = {} /\ marker = {} /\ subscription = NoSubscription
  /\ delivery = [d \in Deliveries |-> IdleDelivery]
  /\ sold = FALSE /\ newest = 0 /\ disordered = FALSE /\ cutOff = FALSE

Busy == Cardinality({p \in Polls : poll[p].pc # "idle"})
          + Cardinality({d \in Deliveries : delivery[d].pc # "idle"})
Kind(d) == story[delivery[d].event]
\* the plan an event of this kind leaves behind
TierOf(kind) == IF kind = "subscribe" THEN "paid" ELSE "free"
At(d, pc) == delivery' = [delivery EXCEPT ![d].pc = pc]
\* the handler of an event reaches one of the two tables
Reaches(d) ==
  LET e == delivery[d].event IN
  /\ disordered' = (disordered \/ e < newest)
  /\ newest' = IF e > newest THEN e ELSE newest
-----------------------------------------------------------------------------
(* Stripe *)

\* bought once; then cancelled, refunded, or both
Happens ==
  /\ Len(story) < MaxEvents
  /\ \E kind \in Kinds \ Range(story) :
       /\ (kind = "subscribe") = (story = <<>>)
       /\ story' = Append(story, kind)
  /\ UNCHANGED <<nurtureVars, planTier, faults, acked, marker, subscription, delivery, sold,
                 newest, disordered, cutOff>>

UnderWay(e) == \E d \in Deliveries : delivery[d].event = e

\* an event is sent until it is answered; sent again before the answer, or after it, now
\* and then
Deliver(d, e) ==
  /\ delivery[d].pc = "idle" /\ Busy < MaxBusy /\ e <= Len(story)
  /\ IF e \in acked \/ UnderWay(e) THEN Fault ELSE UNCHANGED faults
  /\ delivery' = [delivery EXCEPT ![d] = [pc |-> "check", event |-> e]]
  /\ UNCHANGED <<nurtureVars, planTier, story, acked, marker, subscription, sold, newest,
                 disordered, cutOff>>
-----------------------------------------------------------------------------
(* POST /api/billing/webhook *)

\* a duplicate is answered at once; an event is handled when Redis cannot be asked
CheckMarker(d) ==
  LET e == delivery[d].event IN
  /\ delivery[d].pc = "check"
  /\ \/ /\ e \in marker /\ acked' = acked \cup {e} /\ UNCHANGED faults
        /\ delivery' = [delivery EXCEPT ![d] = IdleDelivery]
     \/ /\ IF e \in marker THEN Fault ELSE UNCHANGED faults
        /\ At(d, "row") /\ UNCHANGED acked
  /\ UNCHANGED <<nurtureVars, planTier, story, marker, subscription, sold, newest,
                 disordered, cutOff>>

\* the row takes an event it did not take last
Fresh(e) == subscription.last # e

\* mutant: an event the row has taken already is done with
WriteRow_EndsReplay(d) ==
  LET e == delivery[d].event IN
  /\ delivery[d].pc = "row"
  /\ IF Fresh(e) /\ (Kind(d) = "subscribe" \/ subscription.exists)
       THEN /\ subscription' = [exists |-> TRUE, tier |-> TierOf(Kind(d)), last |-> e]
            /\ At(d, "tier")
       ELSE At(d, "mark") /\ UNCHANGED subscription
  /\ Reaches(d)
  /\ UNCHANGED <<nurtureVars, planTier, faults, story, acked, marker, sold, cutOff>>

\* A checkout inserts the row or updates it, the others update what is there. A refund goes
\* on to the plan of the tenants whose rows it changed; the others go on in any case.
WriteRow(d) ==
  LET e == delivery[d].event
      hit == Fresh(e) /\ (Kind(d) = "subscribe" \/ subscription.exists) IN
  /\ delivery[d].pc = "row"
  /\ subscription' = IF hit THEN [exists |-> TRUE, tier |-> TierOf(Kind(d)), last |-> e]
                     ELSE subscription
  /\ Reaches(d)
  /\ At(d, IF Kind(d) = "refund" /\ ~hit THEN "mark" ELSE "tier")
  /\ UNCHANGED <<nurtureVars, planTier, faults, story, acked, marker, sold, cutOff>>

\* UPDATE tenants SET plan_tier
SyncTier(d) ==
  /\ delivery[d].pc = "tier"
  /\ planTier' = TierOf(Kind(d)) /\ sold' = FALSE /\ cutOff' = FALSE /\ Reaches(d)
  /\ At(d, IF Kind(d) = "subscribe" THEN "suppress" ELSE "mark")
  /\ UNCHANGED <<nurtureVars, faults, story, acked, marker, subscription>>

\* mutant: a subscription ends the first rung only
Ladder_GrowthOnly == {Growth}
\* NURTURE_SUPPRESS_ON_CONVERSION: what a subscription ends
Ladder == {Growth, Dfy}

\* nurtureAfterPurchase: a failure is swallowed
SuppressOnConversion(d) ==
  /\ delivery[d].pc = "suppress" /\ At(d, "mark")
  /\ \/ Suppress(Ladder) /\ sold' = TRUE /\ UNCHANGED faults
     \/ Fault /\ UNCHANGED <<enrollment, silenced, sold>>
  /\ UNCHANGED <<sendLog, planTier, poll, mails, unlogged, overlaps, late, story, acked, marker,
                 subscription, newest, disordered, cutOff>>

\* the marker, whose failure is only logged, and the answer, which may be lost
Acknowledge(d) ==
  LET e == delivery[d].event IN
  /\ delivery[d].pc = "mark"
  /\ \/ marker' = marker \cup {e} /\ acked' = acked \cup {e} /\ UNCHANGED faults
     \/ Fault /\ UNCHANGED marker /\ acked' = acked \cup {e}
     \/ Fault /\ marker' = marker \cup {e} /\ UNCHANGED acked
  /\ delivery' = [delivery EXCEPT ![d] = IdleDelivery]
  /\ UNCHANGED <<nurtureVars, planTier, story, subscription, sold, newest, disordered, cutOff>>

\* a query throws and the answer is 500, or the API process dies: the event is not marked
DeliveryFails(d) ==
  /\ delivery[d].pc # "idle" /\ Fault
  /\ delivery' = [delivery EXCEPT ![d] = IdleDelivery]
  /\ cutOff' = (cutOff \/ (delivery[d].pc = "tier" /\ Kind(d) = "refund"))
  /\ UNCHANGED <<nurtureVars, planTier, story, acked, marker, subscription, sold, newest,
                 disordered>>
-----------------------------------------------------------------------------
DeliveryStep(d) ==
  \/ CheckMarker(d) \/ WriteRow(d) \/ SyncTier(d) \/ SuppressOnConversion(d)
  \/ Acknowledge(d)

WebhookStep ==
  \/ Happens \/ \E d \in Deliveries : DeliveryStep(d) \/ DeliveryFails(d)
  \/ \E d \in Deliveries, e \in Events : Deliver(d, e)

StartPoll(p) == Busy < MaxBusy /\ FetchDue(p)

NurtureStep ==
  /\ \/ \E p \in Polls : StartPoll(p) \/ PollStep(p) \/ PollFails(p)
     \/ \E s \in Series : Unsubscribe(s) \/ DelayPasses(s)
  /\ UNCHANGED webhookVars

Next == WebhookStep \/ NurtureStep

Spec == Init /\ [][Next]_vars
-----------------------------------------------------------------------------
(* Properties *)

\* What Stripe charges for is what the tenant has: when every event has been answered and no
\* request is under way, plan and row say what the last event of the story says, whatever was
\* sent twice or broken off. Left out are events handled out of their order, which nothing in
\* the code notices, and a refund broken off between row and plan: sent again, it finds no
\* row to change and leaves the plan as it is.
SettledPlanIsRight ==
  (DOMAIN story \subseteq acked /\ (\A d \in Deliveries : delivery[d].pc = "idle")
     /\ ~disordered /\ ~cutOff)
  => /\ planTier = IF story = <<>> THEN "free" ELSE TierOf(Last(story))
     /\ subscription.tier = planTier

\* "A Growth conversion means the DFY rung is never started (suppressOnConversion also covers
\* the race)": once a purchase is through its suppression, a subscriber has no rung of the
\* ladder running but one enrolled after the plan was written, by a poll that had found the
\* contact without one before.
LadderStopsAtPurchase ==
  planTier = "paid" /\ sold => \A s \in Series : Active(s) => s \in late
=============================================================================
