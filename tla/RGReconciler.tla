---------------------------- MODULE RGReconciler ----------------------------
(***************************************************************************)
(* The replication-group controller of dellcsireplicationgroup_controller *)
(* .go: one instance of Reconcile runs on every cluster and mirrors each  *)
(* DellCSIReplicationGroup (RG) of its cluster onto the cluster named in  *)
(* Spec.RemoteClusterID (or onto its own cluster under a "replicated-"    *)
(* name when that id is "self").  The controllers of the two clusters     *)
(* talk only through the RG objects they read and write: the mirror a     *)
(* controller creates is reconciled, in turn, by the controller of the    *)
(* remote cluster, and the deletion handshake is an annotation one        *)
(* controller puts on the other cluster's RG.                             *)
(*                                                                         *)
(* A pass of Reconcile is one step.  Every pass ends at its first write   *)
(* (local Update/Delete, remote Create/Update), except the create-and-     *)
(* record path which writes twice; a failure or a crash between those two *)
(* writes is the action SyncCreateOnly.  Every other failed call leaves   *)
(* the objects as they were and is a stuttering step.  The API server's   *)
(* optimistic concurrency makes a write on a stale read fail, so a pass   *)
(* is atomic with respect to the other passes.                            *)
(***************************************************************************)
EXTENDS Naturals, Sequences, FiniteSets

CONSTANTS
    Clusters,      \* the cluster ids of the connected clusters
    Self,          \* controller.Self, the RemoteClusterID meaning "this cluster"
    Bases,         \* name tokens an RG name may be built from
    Drivers,       \* CSI driver names
    PGIDs,         \* protection-group ids
    PolicyValues,  \* values the RemoteRGRetentionPolicy annotation may take
    Absent,        \* an annotation that is not set
    User,          \* creator of an RG made by an actor outside the controller
    UserRGs,       \* <<cluster, name>> of the RGs present initially
    OptionalRGs,   \* <<cluster, name>> of RGs that may or may not be present
    NameSpace      \* the names the API server accepts for a new RG

(* "replicated" is the package constant the code joins to a name with "-";*)
(* the other tokens come from the "SourceClusterId-%s-%s" format.          *)
Replicated == "replicated"
SourceClusterId == "SourceClusterId"

(* A name is the sequence of its "-"-separated tokens; "" is << >>.  No   *)
(* base token and no cluster id contains the text "replicated".            *)
Tokens == {Replicated, SourceClusterId} \cup Bases \cup Clusters \cup {Self}
Names == Seq(Tokens)

ASSUME ConstantsAssumption ==
    /\ Self \notin Clusters
    /\ Replicated \notin Bases /\ SourceClusterId \notin Bases
    /\ "" \in PolicyValues
    /\ Absent \notin PolicyValues
    /\ User \notin Clusters \X Names
    /\ UserRGs \subseteq Clusters \X Names
    /\ OptionalRGs \subseteq Clusters \X Names
    /\ NameSpace \subseteq Names /\ IsFiniteSet(NameSpace)
    /\ \A o \in UserRGs \cup OptionalRGs : o[2] \in NameSpace /\ o[2] # << >>

VARIABLE store   \* store[c]: the RGs on cluster c, a function from names

vars == <<store>>

(* The modelled part of an RG.  annNil: Annotations == nil; rrg: the      *)
(* RemoteReplicationGroup annotation (<< >> when unset); synced: the      *)
(* RGSyncComplete annotation is "yes"; policy: RemoteRGRetentionPolicy;   *)
(* delReq: the DeletionRequested annotation is present; finalizer: the    *)
(* RG finalizer is present; deleting: DeletionTimestamp is set.  creator  *)
(* is a history variable: the <<cluster, name>> of the RG whose pass       *)
(* created this one, or User.                                              *)
RG == [annNil: BOOLEAN, rrg: Names, synced: BOOLEAN,
       policy: PolicyValues \cup {Absent}, delReq: BOOLEAN,
       finalizer: BOOLEAN, deleting: BOOLEAN, driver: Drivers,
       remoteCluster: Clusters \cup {Self}, pg: PGIDs, rpg: PGIDs,
       creator: (Clusters \X Names) \cup {User}]

TypeOK ==
    /\ store = [c \in Clusters |-> store[c]]
    /\ \A c \in Clusters :
          /\ store[c] = [n \in DOMAIN store[c] |-> store[c][n]]
          /\ DOMAIN store[c] \subseteq Names
          /\ \A n \in DOMAIN store[c] : store[c][n] \in RG

-----------------------------------------------------------------------------
(* Names as the code builds and tests them.                                *)

HasReplicatedPrefix(n) == Len(n) > 0 /\ n[1] = Replicated
ContainsReplicated(n) == \E i \in 1..Len(n) : n[i] = Replicated
ContainsReplicatedReplicated(n) ==
    \E i \in 1..(Len(n) - 1) : n[i] = Replicated /\ n[i + 1] = Replicated
\* strings.TrimPrefix(n, "replicated-")
TrimReplicatedPrefix(n) ==
    IF Len(n) > 1 /\ n[1] = Replicated THEN Tail(n) ELSE n
\* fmt.Sprintf("SourceClusterId-%s-%s", localClusterID, localRGName)
QualifiedName(id, n) == <<SourceClusterId, id>> \o n

(* The API server's view of an object store: a function whose domain is  *)
(* the set of names present.                                               *)
PutObj(f, n, r) == [m \in DOMAIN f \cup {n} |-> IF m = n THEN r ELSE f[m]]
DropObj(f, n) == [m \in DOMAIN f \ {n} |-> f[m]]

-----------------------------------------------------------------------------
(* What one pass of Reconcile computes before it touches anything.        *)

\* r.Config.GetClusterID(), replaced by Self for a self-replicating RG
LocalClusterID(c, L) == IF L.remoteCluster = Self THEN Self ELSE c
\* r.Config.GetConnection(remoteClusterID): the cluster the client reaches
TargetCluster(c, L) == IF L.remoteCluster = Self THEN c ELSE L.remoteCluster

\* remoteRGName after lines 80-105
RemoteRGName(n, L) ==
    LET fromAnnotation == IF L.synced \/ L.rrg # << >> THEN L.rrg ELSE n
    IN  IF L.remoteCluster = Self /\ ~HasReplicatedPrefix(n)
          THEN <<Replicated>> \o n
          ELSE fromAnnotation

\* retention policy, "retain" by default; strings.ToLower(p) == "delete"
RetentionPolicy(L) == IF L.policy = Absent THEN "retain" ELSE L.policy

\* mutant: the effective retention policy copied, not the annotation
MirrorOfEffectivePolicy(c, n, L) ==
    [annNil |-> FALSE, rrg |-> n, synced |-> FALSE,
     policy |-> RetentionPolicy(L),
     delReq |-> FALSE, finalizer |-> FALSE, deleting |-> FALSE,
     driver |-> L.driver, remoteCluster |-> LocalClusterID(c, L),
     pg |-> L.rpg, rpg |-> L.pg, creator |-> <<c, n>>]

\* mutant: the protection-group ids copied instead of swapped
MirrorOfUnswapped(c, n, L) ==
    [annNil |-> FALSE, rrg |-> n, synced |-> FALSE,
     policy |-> IF L.policy = Absent THEN "" ELSE L.policy,
     delReq |-> FALSE, finalizer |-> FALSE, deleting |-> FALSE,
     driver |-> L.driver, remoteCluster |-> LocalClusterID(c, L),
     pg |-> L.pg, rpg |-> L.rpg, creator |-> <<c, n>>]

\* the remote RG object the pass builds (lines 107-144)
MirrorOf(c, n, L) ==
    [annNil |-> FALSE, rrg |-> n, synced |-> FALSE,
     policy |-> IF L.policy = Absent THEN "" ELSE L.policy,
     delReq |-> FALSE, finalizer |-> FALSE, deleting |-> FALSE,
     driver |-> L.driver, remoteCluster |-> LocalClusterID(c, L),
     pg |-> L.rpg, rpg |-> L.pg, creator |-> <<c, n>>]

DeleteSpellings == {"delete", "Delete", "DELETE"}
IsDeletePolicy(L) == RetentionPolicy(L) \in DeleteSpellings

-----------------------------------------------------------------------------

(* The decision of lines 222-285 on the remote RG: whether to create it,  *)
(* under which name, and whether the sync is still complete; or stop, on  *)
(* a failed Get, on a mirror lost after sync, or on a conflicting RG.     *)
Stop == [stop |-> TRUE, create |-> FALSE, name |-> << >>, synced |-> TRUE]
Go(create, name, synced) ==
    [stop |-> FALSE, create |-> create, name |-> name, synced |-> synced]

\* mutant: an existing remote RG is never recognised as this RG's mirror
SyncPlanNoAdopt(c, n) ==
    LET L   == store[c][n]
        t   == TargetCluster(c, L)
        rn  == RemoteRGName(n, L)
        lid == LocalClusterID(c, L)
    IN  CASE rn = << >>                                         -> Stop
          [] rn \notin DOMAIN store[t] /\ L.synced              -> Stop
          [] rn \notin DOMAIN store[t] /\ ~L.synced             ->
                Go(~ContainsReplicatedReplicated(rn), rn, FALSE)
          [] rn # << >> /\ rn \in DOMAIN store[t]              ->
                Go(TRUE, QualifiedName(lid, n), FALSE)

SyncPlan(c, n) ==
    LET L        == store[c][n]
        t        == TargetCluster(c, L)
        rn       == RemoteRGName(n, L)
        lid      == LocalClusterID(c, L)
        R        == store[t][rn]
        missing  == rn # << >> /\ rn \notin DOMAIN store[t]
        found    == rn # << >> /\ rn \in DOMAIN store[t]
        ours     == found /\ R.remoteCluster = lid
        conflict == R.pg # L.rpg \/ R.rpg # L.pg
    IN  CASE rn = << >>                                -> Stop
          [] missing /\ L.synced                       -> Stop
          [] missing /\ ~L.synced                      ->
                Go(~ContainsReplicatedReplicated(rn), rn, FALSE)
          [] ours /\ R.driver # L.driver               ->
                Go(TRUE, QualifiedName(lid, n), FALSE)
          [] ours /\ R.driver = L.driver /\ conflict   -> Stop
          [] ours /\ R.driver = L.driver /\ ~conflict  -> Go(FALSE, rn, L.synced)
          [] found /\ R.remoteCluster # lid            ->
                Go(TRUE, QualifiedName(lid, n), FALSE)

\* CreateReplicationGroup fails when the name is taken or not accepted
CanCreate(c, n, P) ==
    P.create =>
        /\ P.name \notin DOMAIN store[TargetCluster(c, store[c][n])]
        /\ P.name \in NameSpace

\* the store once the remote RG of plan P is created (line 288)
AfterCreate(c, n, P) ==
    LET t == TargetCluster(c, store[c][n])
    IN  IF P.create
          THEN [store EXCEPT ![t] = PutObj(@, P.name, MirrorOf(c, n, store[c][n]))]
          ELSE store

\* mutant: the local name recorded as the remote one
RecordedNameLocal(n, L, P) == n

\* mutant: the annotation value read at the start of the pass written back
RecordedNameStale(n, L, P) == L.rrg

\* the RemoteReplicationGroup annotation written at lines 302-306
RecordedName(n, L, P) ==
    IF ContainsReplicated(n) THEN TrimReplicatedPrefix(n) ELSE P.name

-----------------------------------------------------------------------------
(* The passes of Reconcile(c, n) that change an object.  All start after  *)
(* the Get at line 74 and the nil-annotations return at line 86.           *)

Loaded(c, n) == n \in DOMAIN store[c] /\ ~store[c][n].annNil

\* mutant: the finalizer removed whatever the retention policy
ReleaseIgnoringPolicy(c, n) ==
    LET L == store[c][n]
    IN  /\ Loaded(c, n)
        /\ L.deleting
        /\ L.delReq \/ L.rrg # << >>
        /\ L.finalizer
        /\ store' = [store EXCEPT ![c] = DropObj(@, n)]

\* lines 161-204: the deletion handshake is resolved or unnecessary, the
\* finalizer is removed, and the API server removes the deleting RG
Release(c, n) ==
    LET L == store[c][n]
        t == TargetCluster(c, L)
    IN  /\ Loaded(c, n)
        /\ L.deleting
        /\ \/ L.delReq
           \/ /\ L.rrg # << >>
              /\ L.rrg \notin DOMAIN store[t] \/ ~IsDeletePolicy(L)
        /\ L.finalizer
        /\ store' = [store EXCEPT ![c] = DropObj(@, n)]

\* lines 168-191: ask the remote RG to delete itself
RequestRemoteDeletion(c, n) ==
    LET L == store[c][n]
        t == TargetCluster(c, L)
    IN  /\ Loaded(c, n)
        /\ L.deleting
        /\ ~L.delReq
        /\ L.rrg # << >>
        /\ L.rrg \in DOMAIN store[t]
        /\ IsDeletePolicy(L)
        /\ ~store[t][L.rrg].delReq
        /\ store' = [store EXCEPT ![t][L.rrg].delReq = TRUE]

\* mutant: the finalizer added to rgCopy but localRG written back
AddFinalizerOnOriginal(c, n) ==
    /\ Loaded(c, n)
    /\ ~store[c][n].deleting
    /\ ~store[c][n].finalizer
    /\ store' = store

\* lines 207-214; the API server refuses a new finalizer on a deleting RG
AddFinalizer(c, n) ==
    /\ Loaded(c, n)
    /\ ~store[c][n].deleting
    /\ ~store[c][n].finalizer
    /\ store' = [store EXCEPT ![c][n].finalizer = TRUE]

\* mutant: the requested deletion never issued
DeleteRequestedDropped(c, n) ==
    /\ Loaded(c, n)
    /\ ~store[c][n].deleting
    /\ store[c][n].finalizer
    /\ store[c][n].delReq
    /\ store' = store

\* lines 216-220: a deletion requested by the other side is carried out
DeleteRequested(c, n) ==
    /\ Loaded(c, n)
    /\ ~store[c][n].deleting
    /\ store[c][n].finalizer
    /\ store[c][n].delReq
    /\ store' = [store EXCEPT ![c][n].deleting = TRUE]

SyncReady(c, n) ==
    /\ Loaded(c, n)
    /\ ~store[c][n].deleting
    /\ store[c][n].finalizer
    /\ ~store[c][n].delReq

\* lines 222-309: create the remote RG if needed, then record it
Sync(c, n) ==
    LET P == SyncPlan(c, n)
    IN  /\ SyncReady(c, n)
        /\ ~P.stop
        /\ ~P.synced
        /\ CanCreate(c, n, P)
        /\ store' = [AfterCreate(c, n, P) EXCEPT
                        ![c][n].rrg = RecordedName(n, store[c][n], P),
                        ![c][n].synced = TRUE]

\* line 288 succeeds, then the Update of line 307 fails or the process stops
SyncCreateOnly(c, n) ==
    LET P == SyncPlan(c, n)
    IN  /\ SyncReady(c, n)
        /\ ~P.stop
        /\ P.create
        /\ CanCreate(c, n, P)
        /\ store' = AfterCreate(c, n, P)

ReconcileOk(c, n) ==
    \/ Release(c, n)
    \/ RequestRemoteDeletion(c, n)
    \/ AddFinalizer(c, n)
    \/ DeleteRequested(c, n)
    \/ Sync(c, n)

Reconcile(c, n) == ReconcileOk(c, n) \/ SyncCreateOnly(c, n)

-----------------------------------------------------------------------------
(* The environment: the RG's owner fills in its annotations, and a user    *)
(* deletes an RG (the API server sets DeletionTimestamp while a finalizer *)
(* is present and removes the object otherwise).                          *)

OwnerInitialize(c, n) ==
    /\ n \in DOMAIN store[c]
    /\ store[c][n].annNil
    /\ \E p \in PolicyValues \cup {Absent} :
          store' = [store EXCEPT ![c][n].annNil = FALSE, ![c][n].policy = p]

UserDelete(c, n) ==
    /\ n \in DOMAIN store[c]
    /\ ~store[c][n].deleting
    /\ \/ /\ store[c][n].finalizer
          /\ store' = [store EXCEPT ![c][n].deleting = TRUE]
       \/ /\ ~store[c][n].finalizer
          /\ store' = [store EXCEPT ![c] = DropObj(@, n)]

-----------------------------------------------------------------------------

InitialRG(s) ==
    [annNil |-> TRUE, rrg |-> << >>, synced |-> FALSE, policy |-> Absent,
     delReq |-> FALSE, finalizer |-> FALSE, deleting |-> FALSE,
     driver |-> s.driver, remoteCluster |-> s.remoteCluster,
     pg |-> s.pg, rpg |-> s.rpg, creator |-> User]

RGSpec == [driver: Drivers, remoteCluster: Clusters \cup {Self},
           pg: PGIDs, rpg: PGIDs]

Init ==
    \E present \in SUBSET OptionalRGs :
      \E spec \in [UserRGs \cup present -> RGSpec] :
        /\ \A o \in UserRGs \cup present : spec[o].remoteCluster # o[1]
        /\ store = [c \in Clusters |->
                      [n \in {o[2] : o \in {p \in UserRGs \cup present : p[1] = c}} |->
                         InitialRG(spec[<<c, n>>])]]

Next ==
    \/ \E c \in Clusters : \E n \in DOMAIN store[c] : Release(c, n)
    \/ \E c \in Clusters : \E n \in DOMAIN store[c] : RequestRemoteDeletion(c, n)
    \/ \E c \in Clusters : \E n \in DOMAIN store[c] : AddFinalizer(c, n)
    \/ \E c \in Clusters : \E n \in DOMAIN store[c] : DeleteRequested(c, n)
    \/ \E c \in Clusters : \E n \in DOMAIN store[c] : Sync(c, n)
    \/ \E c \in Clusters : \E n \in DOMAIN store[c] : SyncCreateOnly(c, n)
    \/ \E c \in Clusters : \E n \in DOMAIN store[c] : OwnerInitialize(c, n)
    \/ \E c \in Clusters : \E n \in DOMAIN store[c] : UserDelete(c, n)

Spec == Init /\ [][Next]_vars

(* Every RG is reconciled again after each change and on periodic resync, *)
(* and a failed pass is requeued with back-off: a pass that would succeed *)
(* is not put off forever.                                                 *)
Fairness == \A c \in Clusters : \A n \in NameSpace : WF_vars(ReconcileOk(c, n))

FairSpec == Spec /\ Fairness


-----------------------------------------------------------------------------
(* Properties.                                                             *)

(* Once an RG records its sync as complete (lines 301-308), the           *)
(* RemoteReplicationGroup annotation names every RG its passes created on *)
(* the target cluster: the deletion handshake (line 170) and every later  *)
(* sync pass (line 91) look the mirror up by that annotation.             *)
MirrorAnnotationTracksMirror ==
    \A c \in Clusters : \A n \in DOMAIN store[c] :
        LET L == store[c][n]
            t == TargetCluster(c, L)
        IN  L.synced =>
              \A m \in DOMAIN store[t] : store[t][m].creator = <<c, n>> => m = L.rrg

(* A synced RG always carries a non-empty RemoteReplicationGroup         *)
(* annotation: the re-verification of line 91 and the deletion handshake  *)
(* of line 170 of a synced RG look up a real name, never Get("").         *)
SyncedNamed ==
    \A c \in Clusters : \A n \in DOMAIN store[c] :
        store[c][n].synced => store[c][n].rrg # << >>

(* The RG a synced RG's annotation names, when it exists, is a mirror of *)
(* it: it names the synced RG's cluster as its remote cluster, has its    *)
(* driver and the swapped protection-group ids.  Lines 255-277 check this *)
(* before adopting an existing RG; the property says no later step of     *)
(* either controller, nor a renamed create, breaks it.                    *)
MirrorMatches(c, L, R) ==
    /\ R.remoteCluster = LocalClusterID(c, L)
    /\ R.driver = L.driver
    /\ R.pg = L.rpg
    /\ R.rpg = L.pg

SyncedMirrorMatches ==
    \A c \in Clusters : \A n \in DOMAIN store[c] :
        LET L == store[c][n]
            t == TargetCluster(c, L)
        IN  L.synced /\ L.rrg \in DOMAIN store[t] =>
              MirrorMatches(c, L, store[t][L.rrg])

(* No RG has two live mirrors on a cluster: across failed Updates         *)
(* (line 307), crashes and re-created RGs, the create of line 288 is made *)
(* at most once per RG that is still there.                               *)
MirrorUnique ==
    \A d \in Clusters : \A m1, m2 \in DOMAIN store[d] :
        /\ store[d][m1].creator # User
        /\ store[d][m1].creator = store[d][m2].creator
        => m1 = m2

(* A mirror never creates an RG: every RG the controller created, whose   *)
(* creator is still there, was created by the pass of a user's RG.  The  *)
(* not-found branch of lines 232-252 skips the create only for a synced  *)
(* RG, so a mirror whose origin vanished before its first pass re-creates *)
(* the origin it mirrors.                                                 *)
MirrorNeverCreates ==
    \A c \in Clusters : \A n \in DOMAIN store[c] :
        LET k == store[c][n].creator
        IN  k # User /\ k[2] \in DOMAIN store[k[1]] =>
              store[k[1]][k[2]].creator = User

(* RGs related by a create: one created the other.                         *)
Partners(c, n, d, m) ==
    store'[d][m].creator = <<c, n>> \/ store[c][n].creator = <<d, m>>

(* The finalizer of a deleting RG whose retention policy is "delete" is   *)
(* removed (line 203) only when each of its partners is itself being      *)
(* deleted or has been asked to delete itself (lines 168-197): deletion   *)
(* never strands the other side of a replicated pair.                      *)
ReleaseWaitsForPartner ==
    [][\A c \in Clusters : \A n \in DOMAIN store[c] :
          /\ store[c][n].deleting
          /\ IsDeletePolicy(store[c][n])
          /\ n \notin DOMAIN store'[c]
          => \A d \in Clusters : \A m \in DOMAIN store'[d] :
                Partners(c, n, d, m) => store'[d][m].deleting \/ store'[d][m].delReq
      ]_vars

(* An RG that is being deleted after its sync completed is eventually     *)
(* removed: the handshake of lines 168-197 always terminates.              *)
SyncedDeletionCompletes ==
    \A c \in Clusters : \A n \in NameSpace :
        (n \in DOMAIN store[c] /\ store[c][n].deleting /\ store[c][n].synced)
            ~> n \notin DOMAIN store[c]

(* Every RG that is being deleted is eventually removed (spec 4.1 step 4: *)
(* a remote RG that is not found lets the finalizer go).                   *)
DeletionCompletes ==
    \A c \in Clusters : \A n \in NameSpace :
        (n \in DOMAIN store[c] /\ store[c][n].deleting) ~> n \notin DOMAIN store[c]

(* Every initialised RG of a user is eventually synced, unless it is       *)
(* deleted first (spec 5: a pass cut short after the remote create must be *)
(* completed idempotently by the next one).                                *)
SyncCompletes ==
    \A o \in UserRGs :
        LET c == o[1]
            n == o[2]
        IN  (n \in DOMAIN store[c] /\ ~store[c][n].annNil /\ ~store[c][n].deleting)
              ~> (n \notin DOMAIN store[c] \/ store[c][n].synced \/ store[c][n].deleting)

=============================================================================
