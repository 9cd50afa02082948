------------------------- MODULE RGReconciler_proofs -------------------------
(***************************************************************************)
(* Proofs about the replication-group controller model RGReconciler, for  *)
(* every value of its constants: the store is always well typed, and a    *)
(* synced RG always records a non-empty remote name.                      *)
(***************************************************************************)
EXTENDS RGReconciler, SequenceTheorems, TLAPS

(* An object store of one cluster: a function from names to RGs.           *)
StoreOK(f) ==
    /\ f = [m \in DOMAIN f |-> f[m]]
    /\ DOMAIN f \subseteq Names
    /\ \A m \in DOMAIN f : f[m] \in RG

(* TypeOK for an arbitrary value of the store variable.                    *)
StoresOK(s) == s = [c \in Clusters |-> s[c]] /\ \A c \in Clusters : StoreOK(s[c])

(* No RG is ever named "": every name the controller creates is built     *)
(* from a non-empty name, and the initial names are non-empty.            *)
NamesNonEmpty == \A c \in Clusters : << >> \notin DOMAIN store[c]

(* The inductive invariant behind SyncedNamed.                             *)
IInv == TypeOK /\ NamesNonEmpty /\ SyncedNamed

-----------------------------------------------------------------------------
(* Lemmas about names.                                                     *)

\* The tokens the code joins into names.
LEMMA TokenFacts ==
    /\ Replicated \in Tokens
    /\ SourceClusterId \in Tokens
    /\ Clusters \cup {Self} \subseteq Tokens
BY DEF Tokens, Replicated, SourceClusterId

\* The renamed remote name "SourceClusterId-<id>-<name>" (lines 262, 280) is a non-empty name.
LEMMA QualifiedNameOK ==
    ASSUME NEW id \in Clusters \cup {Self}, NEW n \in Names
    PROVE  QualifiedName(id, n) \in Names /\ QualifiedName(id, n) # << >>
BY TokenFacts DEF QualifiedName, Names

\* The self-replication name "replicated-<name>" (lines 102-103) is a non-empty name.
LEMMA PrefixedNameOK ==
    ASSUME NEW n \in Names
    PROVE  <<Replicated>> \o n \in Names /\ <<Replicated>> \o n # << >>
BY TokenFacts DEF Names

\* strings.TrimPrefix of a non-empty name (line 303) is a non-empty name.
LEMMA TrimOK ==
    ASSUME NEW n \in Names, n # << >>
    PROVE  TrimReplicatedPrefix(n) \in Names /\ TrimReplicatedPrefix(n) # << >>
<1>1. CASE Len(n) > 1 /\ n[1] = Replicated
  <2>1. Tail(n) \in Names /\ Len(Tail(n)) = Len(n) - 1
    BY HeadTailProperties DEF Names
  <2>2. Tail(n) # << >>
    BY <1>1, <2>1
  <2>. QED  BY <1>1, <2>1, <2>2 DEF TrimReplicatedPrefix
<1>2. CASE ~(Len(n) > 1 /\ n[1] = Replicated)
  BY <1>2 DEF TrimReplicatedPrefix
<1>. QED  BY <1>1, <1>2

\* The remote name a pass looks up (lines 80-105) is a name.
LEMMA RemoteRGNameOK ==
    ASSUME NEW n \in Names, NEW L \in RG
    PROVE  RemoteRGName(n, L) \in Names
BY PrefixedNameOK DEF RemoteRGName, RG

-----------------------------------------------------------------------------
(* Lemmas about the object stores.                                          *)

\* TypeOK says each cluster's store is an object store.
LEMMA TypeOKStores == TypeOK <=> StoresOK(store)
BY DEF TypeOK, StoresOK, StoreOK

\* Creating an object keeps a store well formed and changes only that name.
LEMMA PutObjOK ==
    ASSUME NEW f, StoreOK(f), NEW n \in Names, NEW r \in RG
    PROVE  /\ StoreOK(PutObj(f, n, r))
           /\ DOMAIN PutObj(f, n, r) = DOMAIN f \cup {n}
           /\ PutObj(f, n, r)[n] = r
           /\ \A m \in DOMAIN f \ {n} : PutObj(f, n, r)[m] = f[m]
BY DEF StoreOK, PutObj

\* Removing an object keeps a store well formed and changes only that name.
LEMMA DropObjOK ==
    ASSUME NEW f, StoreOK(f), NEW n
    PROVE  /\ StoreOK(DropObj(f, n))
           /\ DOMAIN DropObj(f, n) = DOMAIN f \ {n}
           /\ \A m \in DOMAIN f \ {n} : DropObj(f, n)[m] = f[m]
BY DEF StoreOK, DropObj

\* Updating an existing object with an RG keeps a store well formed.
LEMMA UpdateObjOK ==
    ASSUME NEW f, StoreOK(f), NEW n \in DOMAIN f, NEW r \in RG
    PROVE  StoreOK([f EXCEPT ![n] = r])
BY DEF StoreOK

\* Replacing one cluster's store by a well-formed one keeps TypeOK.
LEMMA StoresExcept ==
    ASSUME NEW s, StoresOK(s), NEW c \in Clusters, NEW g, StoreOK(g)
    PROVE  StoresOK([s EXCEPT ![c] = g])
BY DEF StoresOK

-----------------------------------------------------------------------------
(* Lemmas about what one pass computes.                                     *)

\* What a pass reads from the RG it reconciles (line 74) is well typed.
LEMMA LoadedRG ==
    ASSUME TypeOK, NEW c \in Clusters, NEW n \in DOMAIN store[c]
    PROVE  /\ n \in Names
           /\ store[c][n] \in RG
           /\ TargetCluster(c, store[c][n]) \in Clusters
           /\ LocalClusterID(c, store[c][n]) \in Clusters \cup {Self}
BY DEF TypeOK, RG, TargetCluster, LocalClusterID

\* The remote RG built at lines 107-144 is an RG, created unsynced.
LEMMA MirrorOfOK ==
    ASSUME NEW c \in Clusters, NEW n \in Names, NEW L \in RG
    PROVE  MirrorOf(c, n, L) \in RG /\ ~MirrorOf(c, n, L).synced
BY ConstantsAssumption DEF MirrorOf, RG, LocalClusterID

(* The plan of a pass names a well-formed remote RG, a non-empty one      *)
(* unless the pass stops.                                                  *)
PlanOK(P) ==
    /\ P.name \in Names
    /\ P.create \in BOOLEAN
    /\ P.stop \in BOOLEAN
    /\ ~P.stop => P.name # << >>

\* The decision of lines 222-285 is a well-formed plan.
LEMMA SyncPlanOK ==
    ASSUME TypeOK, NEW c \in Clusters, NEW n \in DOMAIN store[c]
    PROVE  PlanOK(SyncPlan(c, n))
<1>. DEFINE L   == store[c][n]
            t   == TargetCluster(c, L)
            rn  == RemoteRGName(n, L)
            lid == LocalClusterID(c, L)
<1>1. /\ n \in Names /\ L \in RG /\ t \in Clusters /\ lid \in Clusters \cup {Self}
  BY LoadedRG
<1>2. rn \in Names
  BY <1>1, RemoteRGNameOK
<1>3. QualifiedName(lid, n) \in Names /\ QualifiedName(lid, n) # << >>
  BY <1>1, QualifiedNameOK
<1>4. PlanOK(Stop)
  BY DEF PlanOK, Stop, Names
<1>5. \A cr \in BOOLEAN, sy \in BOOLEAN : PlanOK(Go(cr, rn, sy)) \/ rn = << >>
  BY <1>2 DEF PlanOK, Go
<1>6. \A cr \in BOOLEAN, sy \in BOOLEAN : PlanOK(Go(cr, QualifiedName(lid, n), sy))
  BY <1>3 DEF PlanOK, Go
<1>7. L.synced \in BOOLEAN
  BY <1>1 DEF RG
<1>. QED
  BY <1>4, <1>5, <1>6, <1>7 DEF SyncPlan

\* The create of line 288 adds at most the planned, unsynced RG and keeps every other one.
LEMMA AfterCreateOK ==
    ASSUME TypeOK, NEW c \in Clusters, NEW n \in DOMAIN store[c],
           NEW P, PlanOK(P), CanCreate(c, n, P)
    PROVE  /\ StoresOK(AfterCreate(c, n, P))
           /\ AfterCreate(c, n, P)[c][n] = store[c][n]
           /\ \A d \in Clusters :
                 /\ DOMAIN store[d] \subseteq DOMAIN AfterCreate(c, n, P)[d]
                 /\ \A m \in DOMAIN AfterCreate(c, n, P)[d] :
                       \/ m \in DOMAIN store[d] /\ AfterCreate(c, n, P)[d][m] = store[d][m]
                       \/ m = P.name /\ ~AfterCreate(c, n, P)[d][m].synced
<1>. DEFINE L == store[c][n]
            t == TargetCluster(c, L)
            M == MirrorOf(c, n, L)
<1>1. /\ n \in Names /\ L \in RG /\ t \in Clusters
      /\ M \in RG /\ ~M.synced
  BY LoadedRG, MirrorOfOK
<1>2. CASE P.create
  <2>. DEFINE g == PutObj(store[t], P.name, M)
              A == [store EXCEPT ![t] = g]
  <2>1. StoreOK(store[t]) /\ P.name \in Names
    BY <1>1 DEF TypeOK, StoreOK, PlanOK
  <2>2. /\ StoreOK(g)
        /\ DOMAIN g = DOMAIN store[t] \cup {P.name}
        /\ g[P.name] = M
        /\ \A m \in DOMAIN store[t] \ {P.name} : g[m] = store[t][m]
    <3>1. StoreOK(store[t]) /\ P.name \in Names /\ M \in RG
      BY <1>1, <2>1
    <3>. QED
      BY <3>1, PutObjOK, Zenon DEF g
  <2>3. StoresOK(A)
    BY <1>1, <2>2, TypeOKStores, StoresExcept
  <2>4. AfterCreate(c, n, P) = A
    BY <1>2 DEF AfterCreate
  <2>5. \A d \in Clusters : A[d] = IF d = t THEN g ELSE store[d]
    BY <1>1 DEF TypeOK
  <2>6. A[c][n] = store[c][n]
    <3>1. CASE c = t /\ n = P.name
      \* impossible: the create would fail with AlreadyExists
      BY <3>1, <1>2 DEF CanCreate
    <3>2. CASE ~(c = t /\ n = P.name)
      BY <3>2, <2>2, <2>5
    <3>. QED  BY <3>1, <3>2
  <2>7. ASSUME NEW d \in Clusters
        PROVE  /\ DOMAIN store[d] \subseteq DOMAIN A[d]
               /\ \A m \in DOMAIN A[d] :
                     \/ m \in DOMAIN store[d] /\ A[d][m] = store[d][m]
                     \/ m = P.name /\ ~A[d][m].synced
    BY <1>1, <2>2, <2>5
  <2>. QED
    BY <2>3, <2>4, <2>6, <2>7
<1>3. CASE ~P.create
  BY <1>3, TypeOKStores DEF AfterCreate
<1>. QED  BY <1>2, <1>3

-----------------------------------------------------------------------------
(* How a step may change an object: it keeps the object's sync fields, it  *)
(* creates an unsynced RG under a non-empty name, or it records a          *)
(* non-empty remote name.                                                  *)
ObjStepOK(d, m) ==
    \/ /\ m \in DOMAIN store[d]
       /\ store'[d][m].synced = store[d][m].synced
       /\ store'[d][m].rrg = store[d][m].rrg
    \/ m # << >> /\ ~store'[d][m].synced
    \/ m \in DOMAIN store[d] /\ store'[d][m].rrg # << >>

\* A well-typed step whose objects all change as ObjStepOK allows preserves IInv.
LEMMA StepPreserves ==
    ASSUME IInv, StoresOK(store'),
           \A d \in Clusters : \A m \in DOMAIN store'[d] : ObjStepOK(d, m)
    PROVE  IInv'
<1>1. TypeOK'
  BY TypeOKStores DEF StoresOK, StoreOK, TypeOK
<1>2. NamesNonEmpty'
  BY DEF IInv, NamesNonEmpty, ObjStepOK
<1>3. SyncedNamed'
  BY DEF IInv, SyncedNamed, ObjStepOK
<1>. QED  BY <1>1, <1>2, <1>3 DEF IInv

(* A step that rewrites one RG without touching its sync fields.           *)
LEMMA UpdateKeepsSync ==
    ASSUME TypeOK, NEW d \in Clusters, NEW m \in DOMAIN store[d], NEW r \in RG,
           r.synced = store[d][m].synced, r.rrg = store[d][m].rrg,
           store' = [store EXCEPT ![d] = [store[d] EXCEPT ![m] = r]]
    PROVE  /\ StoresOK(store')
           /\ \A d2 \in Clusters : \A m2 \in DOMAIN store'[d2] : ObjStepOK(d2, m2)
<1>1. StoreOK(store[d])
  BY DEF TypeOK, StoreOK
<1>2. StoreOK([store[d] EXCEPT ![m] = r])
  BY <1>1, UpdateObjOK
<1>3. StoresOK(store')
  BY <1>2, TypeOKStores, StoresExcept
<1>4. \A d2 \in Clusters : \A m2 \in DOMAIN store'[d2] : ObjStepOK(d2, m2)
  BY DEF TypeOK, ObjStepOK
<1>. QED  BY <1>3, <1>4

(* A step that removes one RG.                                              *)
LEMMA DropKeepsSync ==
    ASSUME TypeOK, NEW d \in Clusters, NEW m,
           store' = [store EXCEPT ![d] = DropObj(store[d], m)]
    PROVE  /\ StoresOK(store')
           /\ \A d2 \in Clusters : \A m2 \in DOMAIN store'[d2] : ObjStepOK(d2, m2)
<1>1. StoreOK(store[d])
  BY DEF TypeOK, StoreOK
<1>2. /\ StoreOK(DropObj(store[d], m))
      /\ DOMAIN DropObj(store[d], m) = DOMAIN store[d] \ {m}
      /\ \A m2 \in DOMAIN store[d] \ {m} : DropObj(store[d], m)[m2] = store[d][m2]
  BY <1>1, DropObjOK
<1>3. StoresOK(store')
  BY <1>2, TypeOKStores, StoresExcept
<1>4. \A d2 \in Clusters : \A m2 \in DOMAIN store'[d2] : ObjStepOK(d2, m2)
  BY <1>2 DEF TypeOK, ObjStepOK
<1>. QED  BY <1>3, <1>4

\* The annotation written at lines 302-306 names a non-empty RG.
LEMMA RecordedNameOK ==
    ASSUME NEW n \in Names, n # << >>, NEW L, NEW P, PlanOK(P), ~P.stop
    PROVE  RecordedName(n, L, P) \in Names /\ RecordedName(n, L, P) # << >>
BY TrimOK DEF RecordedName, PlanOK

(* The create-and-record pass, and its variant cut short after the create. *)
LEMMA SyncStep ==
    ASSUME IInv, NEW c \in Clusters, NEW n \in DOMAIN store[c],
           Sync(c, n) \/ SyncCreateOnly(c, n)
    PROVE  IInv'
<1>. DEFINE P == SyncPlan(c, n)
            A == AfterCreate(c, n, P)
<1>1. /\ TypeOK /\ n \in Names /\ n # << >>
      /\ PlanOK(P) /\ ~P.stop /\ CanCreate(c, n, P)
  BY SyncPlanOK, LoadedRG DEF IInv, NamesNonEmpty, Sync, SyncCreateOnly
<1>2. /\ StoresOK(A)
      /\ A[c][n] = store[c][n]
      /\ \A d \in Clusters :
            /\ DOMAIN store[d] \subseteq DOMAIN A[d]
            /\ \A m \in DOMAIN A[d] :
                  \/ m \in DOMAIN store[d] /\ A[d][m] = store[d][m]
                  \/ m = P.name /\ ~A[d][m].synced
  BY <1>1, AfterCreateOK
<1>3. P.name # << >>
  BY <1>1 DEF PlanOK
<1>4. CASE SyncCreateOnly(c, n)
  <2>1. store' = A
    BY <1>4 DEF SyncCreateOnly
  <2>2. \A d \in Clusters : \A m \in DOMAIN store'[d] : ObjStepOK(d, m)
    BY <1>2, <1>3, <2>1 DEF ObjStepOK
  <2>. QED  BY <1>2, <2>1, <2>2, StepPreserves
<1>5. CASE Sync(c, n)
  <2>. DEFINE rec == RecordedName(n, store[c][n], P)
              r   == [A[c][n] EXCEPT !.rrg = rec, !.synced = TRUE]
  <2>1. store' = [A EXCEPT ![c] = [A[c] EXCEPT ![n] = r]]
    BY <1>5 DEF Sync
  <2>2. rec \in Names /\ rec # << >>
    BY <1>1, RecordedNameOK
  <2>3. store[c][n] \in RG /\ n \in DOMAIN A[c] /\ StoreOK(A[c])
    BY <1>1, <1>2, LoadedRG DEF StoresOK
  <2>4. r \in RG
    BY <1>2, <2>2, <2>3 DEF RG
  <2>5. StoreOK([A[c] EXCEPT ![n] = r])
    BY <2>3, <2>4, UpdateObjOK
  <2>6. StoresOK(store')
    BY <1>2, <2>1, <2>5, StoresExcept
  <2>7. \A d \in Clusters : \A m \in DOMAIN store'[d] : ObjStepOK(d, m)
    <3>. SUFFICES ASSUME NEW d \in Clusters, NEW m \in DOMAIN store'[d]
                  PROVE  ObjStepOK(d, m)
      OBVIOUS
    <3>1. CASE d = c /\ m = n
      <4>1. store'[c][n] = r
        BY <1>2, <2>1, <2>3 DEF StoresOK
      <4>2. r.rrg = rec
        BY <1>2, <2>3 DEF RG
      <4>. QED  BY <3>1, <4>1, <4>2, <2>2 DEF ObjStepOK
    <3>2. CASE ~(d = c /\ m = n)
      <4>1. m \in DOMAIN A[d] /\ store'[d][m] = A[d][m]
        BY <3>2, <1>2, <2>1, <2>3 DEF StoresOK
      <4>. QED  BY <4>1, <1>2, <1>3 DEF ObjStepOK
    <3>. QED  BY <3>1, <3>2
  <2>. QED  BY <2>6, <2>7, StepPreserves
<1>. QED  BY <1>4, <1>5

(* The steps that change one flag or annotation of one RG.                  *)
LEMMA FlagStep ==
    ASSUME IInv, NEW c \in Clusters, NEW n \in DOMAIN store[c],
           \/ RequestRemoteDeletion(c, n)
           \/ AddFinalizer(c, n)
           \/ DeleteRequested(c, n)
           \/ OwnerInitialize(c, n)
           \/ UserDelete(c, n) /\ store[c][n].finalizer
    PROVE  IInv'
<1>1. TypeOK /\ store[c][n] \in RG
  BY LoadedRG DEF IInv
<1>2. CASE RequestRemoteDeletion(c, n)
  <2>. DEFINE t == TargetCluster(c, store[c][n])
              m == store[c][n].rrg
  <2>1. t \in Clusters /\ m \in DOMAIN store[t] /\ store[t][m] \in RG
    BY <1>1, <1>2, LoadedRG DEF RequestRemoteDeletion, TypeOK
  <2>2. store' = [store EXCEPT ![t] = [store[t] EXCEPT ![m] =
                    [store[t][m] EXCEPT !.delReq = TRUE]]]
    BY <1>2 DEF RequestRemoteDeletion
  <2>3. [store[t][m] EXCEPT !.delReq = TRUE] \in RG
    BY <2>1 DEF RG
  <2>9. /\ StoresOK(store')
        /\ \A d2 \in Clusters : \A m2 \in DOMAIN store'[d2] : ObjStepOK(d2, m2)
    BY <1>1, <2>1, <2>2, <2>3, UpdateKeepsSync DEF RG, t, m
  <2>. QED  BY <2>9, StepPreserves
<1>3. CASE AddFinalizer(c, n)
  <2>1. store' = [store EXCEPT ![c] = [store[c] EXCEPT ![n] =
                    [store[c][n] EXCEPT !.finalizer = TRUE]]]
    BY <1>3 DEF AddFinalizer
  <2>2. [store[c][n] EXCEPT !.finalizer = TRUE] \in RG
    BY <1>1 DEF RG
  <2>9. /\ StoresOK(store')
        /\ \A d2 \in Clusters : \A m2 \in DOMAIN store'[d2] : ObjStepOK(d2, m2)
    BY <1>1, <2>1, <2>2, UpdateKeepsSync DEF RG
  <2>. QED  BY <2>9, StepPreserves
<1>4. CASE DeleteRequested(c, n) \/ (UserDelete(c, n) /\ store[c][n].finalizer)
  <2>1. store' = [store EXCEPT ![c] = [store[c] EXCEPT ![n] =
                    [store[c][n] EXCEPT !.deleting = TRUE]]]
    BY <1>4 DEF DeleteRequested, UserDelete
  <2>2. [store[c][n] EXCEPT !.deleting = TRUE] \in RG
    BY <1>1 DEF RG
  <2>9. /\ StoresOK(store')
        /\ \A d2 \in Clusters : \A m2 \in DOMAIN store'[d2] : ObjStepOK(d2, m2)
    BY <1>1, <2>1, <2>2, UpdateKeepsSync DEF RG
  <2>. QED  BY <2>9, StepPreserves
<1>5. CASE OwnerInitialize(c, n)
  <2>1. PICK p \in PolicyValues \cup {Absent} :
           store' = [store EXCEPT ![c] = [store[c] EXCEPT ![n] =
                       [store[c][n] EXCEPT !.annNil = FALSE, !.policy = p]]]
    <3>1. c \in DOMAIN store /\ store[c][n] \in RG
      BY <1>1 DEF TypeOK
    <3>2. \A q : [store EXCEPT ![c][n].annNil = FALSE, ![c][n].policy = q]
                 = [store EXCEPT ![c] = [store[c] EXCEPT ![n] =
                       [store[c][n] EXCEPT !.annNil = FALSE, !.policy = q]]]
      BY <3>1 DEF RG
    <3>. QED  BY <1>5, <3>2 DEF OwnerInitialize
  <2>2. [store[c][n] EXCEPT !.annNil = FALSE, !.policy = p] \in RG
    BY <1>1 DEF RG
  <2>9. /\ StoresOK(store')
        /\ \A d2 \in Clusters : \A m2 \in DOMAIN store'[d2] : ObjStepOK(d2, m2)
    BY <1>1, <2>1, <2>2, UpdateKeepsSync DEF RG
  <2>. QED  BY <2>9, StepPreserves
<1>. QED  BY <1>2, <1>3, <1>4, <1>5

(* The steps that remove one RG.                                           *)
LEMMA RemoveStep ==
    ASSUME IInv, NEW c \in Clusters, NEW n \in DOMAIN store[c],
           Release(c, n) \/ (UserDelete(c, n) /\ ~store[c][n].finalizer)
    PROVE  IInv'
<1>1. store' = [store EXCEPT ![c] = DropObj(store[c], n)]
  BY DEF Release, UserDelete
<1>. QED  BY <1>1, DropKeepsSync, StepPreserves DEF IInv

-----------------------------------------------------------------------------
(* The theorems.                                                            *)

(* The initial RGs are well typed, named and unsynced.                      *)
LEMMA InitIInv == Init => IInv
<1>. SUFFICES ASSUME Init PROVE IInv
  OBVIOUS
<1>1. PICK present \in SUBSET OptionalRGs :
        \E spec \in [UserRGs \cup present -> RGSpec] :
          /\ \A o \in UserRGs \cup present : spec[o].remoteCluster # o[1]
          /\ store = [c \in Clusters |->
                        [n \in {o[2] : o \in {p \in UserRGs \cup present : p[1] = c}} |->
                           InitialRG(spec[<<c, n>>])]]
  BY DEF Init
<1>2. PICK spec \in [UserRGs \cup present -> RGSpec] :
          store = [c \in Clusters |->
                     [n \in {o[2] : o \in {p \in UserRGs \cup present : p[1] = c}} |->
                        InitialRG(spec[<<c, n>>])]]
  BY <1>1
<1>. DEFINE Os == UserRGs \cup present
<1>3. \A o \in Os : o \in Clusters \X Names /\ o[2] # << >>
  BY ConstantsAssumption
<1>4. ASSUME NEW c \in Clusters, NEW o \in Os, o[1] = c
      PROVE  /\ o[2] \in Names /\ o[2] # << >>
             /\ <<c, o[2]>> \in Os
             /\ InitialRG(spec[<<c, o[2]>>]) \in RG
             /\ ~InitialRG(spec[<<c, o[2]>>]).synced
  <2>1. o = <<c, o[2]>> /\ o[2] \in Names /\ o[2] # << >>
    BY <1>3, <1>4
  <2>2. spec[<<c, o[2]>>] \in RGSpec
    BY <2>1, <1>2
  <2>3. << >> \in Names
    BY DEF Names
  <2>4. InitialRG(spec[<<c, o[2]>>]) \in RG
    BY <2>2, <2>3 DEF InitialRG, RGSpec, RG
  <2>. QED  BY <2>1, <2>4 DEF InitialRG
<1>5. TypeOK
  BY <1>2, <1>4 DEF TypeOK
<1>6. NamesNonEmpty
  BY <1>2, <1>4 DEF NamesNonEmpty
<1>7. SyncedNamed
  BY <1>2, <1>4 DEF SyncedNamed
<1>. QED  BY <1>5, <1>6, <1>7 DEF IInv

(* Every step of the controllers and of the users preserves IInv.           *)
LEMMA NextIInv == IInv /\ [Next]_vars => IInv'
<1>. SUFFICES ASSUME IInv, [Next]_vars PROVE IInv'
  OBVIOUS
<1>1. CASE UNCHANGED vars
  BY <1>1 DEF vars, IInv, TypeOK, NamesNonEmpty, SyncedNamed
<1>2. ASSUME NEW c \in Clusters, NEW n \in DOMAIN store[c],
             \/ Release(c, n) \/ RequestRemoteDeletion(c, n) \/ AddFinalizer(c, n)
             \/ DeleteRequested(c, n) \/ Sync(c, n) \/ SyncCreateOnly(c, n)
             \/ OwnerInitialize(c, n) \/ UserDelete(c, n)
      PROVE  IInv'
  <2>1. CASE Release(c, n)
    BY <2>1, RemoveStep
  <2>2. CASE RequestRemoteDeletion(c, n) \/ AddFinalizer(c, n)
             \/ DeleteRequested(c, n) \/ OwnerInitialize(c, n)
    BY <2>2, FlagStep
  <2>3. CASE Sync(c, n) \/ SyncCreateOnly(c, n)
    BY <2>3, SyncStep
  <2>4. CASE UserDelete(c, n)
    BY <2>4, RemoveStep, FlagStep
  <2>. QED  BY <1>2, <2>1, <2>2, <2>3, <2>4
<1>. QED  BY <1>1, <1>2 DEF Next

(* The store is always well typed: every cluster's RGs are a function from *)
(* names to RG records, whatever the interleaving of the two controllers,  *)
(* the users, and the passes cut short between the create of line 288 and  *)
(* the Update of line 307.                                                  *)
THEOREM TypeCorrect == Spec => []TypeOK
<1>1. IInv => TypeOK
  BY DEF IInv
<1>. QED  BY <1>1, InitIInv, NextIInv, PTL DEF Spec

(* A synced RG never records "" as its remote RG: the sync bookkeeping of  *)
(* lines 301-308 writes RGSyncComplete only together with a non-empty       *)
(* RemoteReplicationGroup annotation, so the later lookups of lines 91 and  *)
(* 170 never call Get("") for a synced RG.                                 *)
THEOREM SyncedNamedInvariant == Spec => []SyncedNamed
<1>1. IInv => SyncedNamed
  BY DEF IInv
<1>. QED  BY <1>1, InitIInv, NextIInv, PTL DEF Spec

=============================================================================
