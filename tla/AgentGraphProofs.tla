-------------------------- MODULE AgentGraphProofs --------------------------
(***************************************************************************)
(* Nothing publishes without a human, for every graph: AgentGraph keeps    *)
(* its promise whatever the nodes and their dependencies are.              *)
(***************************************************************************)
EXTENDS AgentGraph, TLAPS

\* What is finished had its inputs.
OrderKept == \A r \in Runs, n \in Nodes : <<r, n>> \in finished => Ready(r, n)

\* An approval is finished by a yes.
FinishedByYes == \A r \in Runs, a \in Of("approval") : <<r, a>> \in finished => <<r, a>> \in approved

\* What is posted is a publish whose inputs exist.
PostedInOrder ==
  \A r \in Runs, n \in Nodes : <<r, n>> \in posted => Ready(r, n) /\ Kind[n] = "publish"

PromiseInv == OrderKept /\ FinishedByYes /\ PostedInOrder

\* Nothing is finished or posted in the beginning.
LEMMA InitPromiseInv == Init => PromiseInv
BY DEF Init, PromiseInv, OrderKept, FinishedByYes, PostedInOrder

\* Inputs that exist go on existing.
LEMMA ReadyStays ==
  ASSUME NEW r, NEW n, Ready(r, n), finished \subseteq finished'
  PROVE  Ready(r, n)'
BY DEF Ready

\* Every action of a run keeps the order of the graph and the meaning of an approval.
LEMMA NextPromiseInv == PromiseInv /\ [Next]_vars => PromiseInv'
<1> SUFFICES ASSUME PromiseInv, [Next]_vars PROVE PromiseInv'
    OBVIOUS
<1> USE GraphAssumption DEF PromiseInv, OrderKept, FinishedByYes, PostedInOrder, Of
<1>1. CASE UNCHANGED vars
  BY <1>1 DEF vars, Ready
<1>2. CASE \E r \in Runs : Start(r)
  BY <1>2 DEF Start, Ready
<1>3. ASSUME NEW r \in Runs, NEW n \in Nodes, Finish(r, n) PROVE PromiseInv'
  <2>1. finished \subseteq finished'
    BY <1>3 DEF Finish
  <2>2. OrderKept'
    BY <1>3, <2>1, ReadyStays DEF Finish
  <2>3. FinishedByYes'
    BY <1>3 DEF Finish
  <2>4. PostedInOrder'
    BY <1>3, <2>1, ReadyStays DEF Finish
  <2> QED BY <2>2, <2>3, <2>4
<1>4. ASSUME NEW r \in Runs, NEW n \in Nodes, Approve(r, n) PROVE PromiseInv'
  <2>1. finished \subseteq finished'
    BY <1>4 DEF Approve
  <2>2. OrderKept'
    BY <1>4, <2>1, ReadyStays DEF Approve
  <2>3. FinishedByYes'
    BY <1>4 DEF Approve
  <2>4. PostedInOrder'
    BY <1>4, <2>1, ReadyStays DEF Approve
  <2> QED BY <2>2, <2>3, <2>4
<1>5. ASSUME NEW r \in Runs, NEW n \in Nodes, Post(r, n) PROVE PromiseInv'
  BY <1>5 DEF Post, Ready
<1>6. ASSUME NEW R \in SUBSET Runs, Close(R, "failed") \/ Close(R, "succeeded")
      PROVE PromiseInv'
  BY <1>6 DEF Close, Ready
<1> QED BY <1>1, <1>2, <1>3, <1>4, <1>5, <1>6 DEF Next

\* The nodes that are finished, and a posted one with them, are closed under Deps: whatever
\* is above the post is among them.
LEMMA PromiseInvSuffices == PromiseInv => NoPostWithoutYes
<1> SUFFICES ASSUME PromiseInv, NEW r \in Runs, NEW n \in Nodes, NEW a \in Of("approval"),
                    <<r, n>> \in posted, Upstream(a, n)
             PROVE  <<r, a>> \in approved
    BY DEF NoPostWithoutYes
<1> DEFINE S == {n} \cup {m \in Nodes : <<r, m>> \in finished}
<1>1. Ready(r, n) /\ Kind[n] = "publish"
  BY DEF PromiseInv, PostedInOrder
<1>2. \A m \in S : Deps[m] \subseteq S
  BY <1>1, GraphAssumption DEF PromiseInv, OrderKept, Ready
<1>3. a \in S
  BY <1>2 DEF Upstream
<1>4. a # n
  BY <1>1 DEF Of
<1> QED BY <1>3, <1>4 DEF PromiseInv, FinishedByYes

\* Whatever has been posted, every approval above it in the graph has the founder's yes
\* (agent-graphs.ts: "nothing publishes without a human").
THEOREM PostsAreApproved == Spec => []NoPostWithoutYes
<1>1. Init => PromiseInv
  BY InitPromiseInv
<1>2. PromiseInv /\ [Next]_vars => PromiseInv'
  BY NextPromiseInv
<1>3. PromiseInv => NoPostWithoutYes
  BY PromiseInvSuffices
<1> QED BY <1>1, <1>2, <1>3, PTL DEF Spec
=============================================================================
