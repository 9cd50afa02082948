-------------------------- MODULE MC_RGReconciler --------------------------
(* Instances of RGReconciler for TLC: two clusters, one base name.        *)
EXTENDS RGReconciler

CONSTANTS C1, C2, d1, d2, p1, p2

(* The names a pass can build from a name n in one step.                   *)
OneStep(n) ==
    {n, <<Replicated>> \o n, TrimReplicatedPrefix(n)}
        \cup {QualifiedName(id, n) : id \in Clusters \cup {Self}}

(* Names derived from the initial RGs' names in at most two steps: a       *)
(* create outside them is refused, standing for the API server's limit on *)
(* the length of a name.                                                   *)
MCNameSpace ==
    LET first == UNION {OneStep(o[2]) : o \in UserRGs \cup OptionalRGs}
    IN  UNION {OneStep(n) : n \in first}

MCBases == {"a", "b"}
MCPolicyValues == {"", "Delete"}

\* one user RG on each cluster under different names: no name is taken
\* before the controllers create it
CleanUserRGs == {<<C1, <<"a">>>>, <<C2, <<"b">>>>}
\* a single user RG
OneUserRG == {<<C1, <<"a">>>>}
\* a user RG on C1 and, possibly, an RG of the same name already on C2
CollisionUserRGs == {<<C1, <<"a">>>>}
CollisionOptionalRGs == {<<C2, <<"a">>>>}
NoRGs == {}
=============================================================================
