--------------------------- MODULE MCGraphRunner ---------------------------
(* A content graph as in the registry: a draft, the founder's approval, a post and its   *)
(* measurement, and beside the post an optional experiment with a side effect.           *)
EXTENDS GraphRunner

CONSTANTS draft, ask, publish, harvest, bet, spawn

MCKind == [n \in Nodes |->
  CASE n = draft -> "task" [] n \in {ask, bet} -> "approval" [] n = publish -> "publish"
    [] n = harvest -> "harvest" [] OTHER -> "effect"]
MCDeps == [n \in Nodes |->
  CASE n = draft -> {} [] n = ask -> {draft} [] n \in {publish, bet} -> {ask}
    [] n = harvest -> {publish} [] OTHER -> {bet}]
=============================================================================
