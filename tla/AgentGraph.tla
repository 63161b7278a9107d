----------------------------- MODULE AgentGraph -----------------------------
(***************************************************************************)
(* What a run of an agent graph promises, without ticks, rows, taps in     *)
(* flight or crashes: nodes finish in the order of the graph, an approval  *)
(* is finished by the founder's yes and by nothing else, a post comes from *)
(* a run that is open and a node whose inputs exist, and what is over      *)
(* stays over. GraphRunner implements it.                                  *)
(*                                                                         *)
(*   apps/api/src/lib/agent-graphs.ts                                      *)
(***************************************************************************)
EXTENDS GraphDefinition

CONSTANT Runs

VARIABLES
  status,    \* of each run
  finished,  \* nodes that succeeded, of each run
  approved,  \* nodes the founder said yes to
  posted     \* publish nodes the scheduler accepted a post of

vars == <<status, finished, approved, posted>>

Init ==
  /\ status = [r \in Runs |-> "none"]
  /\ finished = {} /\ approved = {} /\ posted = {}

\* the inputs of n exist
Ready(r, n) == \A m \in Deps[n] : <<r, m>> \in finished

Start(r) ==
  /\ status[r] = "none" /\ status' = [status EXCEPT ![r] = "running"]
  /\ UNCHANGED <<finished, approved, posted>>

\* a publish is finished by its post
Finish(r, n) ==
  /\ status[r] = "running" /\ Ready(r, n)
  /\ Kind[n] # "approval" /\ (Kind[n] = "publish" => <<r, n>> \in posted)
  /\ finished' = finished \cup {<<r, n>>}
  /\ UNCHANGED <<status, approved, posted>>

\* the founder's yes to an approval, or to trying a publish again. A tap that was under way
\* when the run was closed is still written.
Approve(r, n) ==
  /\ status[r] # "none" /\ Ready(r, n) /\ Kind[n] \in {"approval", "publish"}
  /\ approved' = approved \cup {<<r, n>>} /\ finished' = finished \cup {<<r, n>>}
  /\ UNCHANGED <<status, posted>>

Post(r, n) ==
  /\ status[r] = "running" /\ Ready(r, n) /\ Kind[n] = "publish"
  /\ posted' = posted \cup {<<r, n>>}
  /\ UNCHANGED <<status, finished, approved>>

\* runs that are starved are failed together
Close(R, end) ==
  /\ \A r \in R : status[r] = "running"
  /\ status' = [r \in Runs |-> IF r \in R THEN end ELSE status[r]]
  /\ UNCHANGED <<finished, approved, posted>>

Next ==
  \/ \E r \in Runs : Start(r) \/ \E n \in Nodes : Finish(r, n) \/ Approve(r, n) \/ Post(r, n)
  \/ \E R \in SUBSET Runs : Close(R, "failed") \/ Close(R, "succeeded")

Spec == Init /\ [][Next]_vars

\* "Nothing publishes without a human": whatever has been posted, every approval above it
\* in the graph has the founder's yes.
NoPostWithoutYes ==
  \A r \in Runs, n \in Nodes, a \in Of("approval") :
    <<r, n>> \in posted /\ Upstream(a, n) => <<r, a>> \in approved
=============================================================================
