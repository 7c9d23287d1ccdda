----------------------------- MODULE MCWorkspace -----------------------------
\* The parts of a workspace on small instances.
EXTENDS Workspace, TLC

CONSTANTS w1, w2, w3

\* Two wheels carry one version.
WheelsMC == {w1, w2, w3}
VersionMC == w1 :> 1 @@ w2 :> 2 @@ w3 :> 2

\* Two files and a directory of each, and one file by itself.
LayoutPathsMC == {"a", "ax", "b", "by", "c"}
BelowMC == [p \in LayoutPathsMC |-> CASE p = "a" -> {"a", "ax"} [] p = "b" -> {"b", "by"} [] OTHER -> {p}]
=============================================================================
