--------------------------- MODULE GraphDefinition ---------------------------
(***************************************************************************)
(* A graph of the registry: its nodes, what each of them does, and which   *)
(* nodes have to succeed before it may start.                              *)
(*                                                                         *)
(*   apps/api/src/lib/agent-graphs.ts                                      *)
(***************************************************************************)
CONSTANTS Nodes, Kind, Deps

\* task stands for task, debate, synthesis and snapshot; harvest for wait and harvest;
\* effect for store, spawn, verdict and report
NodeKind == {"task", "approval", "publish", "harvest", "effect"}
Of(kind) == {n \in Nodes : Kind[n] = kind}

\* n depends on a, directly or through others: every set that holds n and is closed
\* under Deps holds a
Upstream(a, n) ==
  \A S \in SUBSET Nodes : n \in S /\ (\A m \in S : Deps[m] \subseteq S) => a \in S

\* what validateGraph lets into the registry
ASSUME GraphAssumption ==
  /\ Kind \in [Nodes -> NodeKind] /\ Deps \in [Nodes -> SUBSET Nodes]
  /\ \A S \in SUBSET Nodes : S # {} => \E n \in S : Deps[n] \cap S = {}
  /\ \A n \in Of("publish") :
       /\ \E a \in Of("approval") : Upstream(a, n)
       /\ \E h \in Of("harvest") : Upstream(n, h)
=============================================================================
