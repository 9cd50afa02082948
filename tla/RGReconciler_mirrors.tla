------------------------ MODULE RGReconciler_mirrors ------------------------
(***************************************************************************)
(* Proofs of the mirror invariants of RGReconciler for every instance in  *)
(* which the RGs present initially have distinct names, none containing   *)
(* "replicated".  In such an instance every RG has at most one partner:   *)
(* the RG on its remote cluster under the same name, or, for a self-      *)
(* replicating RG, the RG on its own cluster under the "replicated-"      *)
(* name (or without it).  The lookups of lines 80-105 always find the     *)
(* partner or nothing, lines 255-277 always recognise the partner as the  *)
(* RG's own mirror, and so no pass ever builds a renamed                  *)
(* "SourceClusterId-..." mirror: each create of line 288 puts the mirror  *)
(* at the partner's place.  The violation runs orphan_mirror and          *)
(* annotation_rename show the invariants fail without the hypothesis.     *)
(***************************************************************************)
EXTENDS RGReconciler_proofs, SequenceTheorems, TLAPS

\* the names of the RGs the users may create
UNames == {o[2] : o \in UserRGs \cup OptionalRGs}

(* The hypothesis on the instance: no two initial RGs share a name, and    *)
(* no initial name contains the token "replicated".                        *)
CleanInstance ==
    /\ \A o1, o2 \in UserRGs \cup OptionalRGs : o1[2] = o2[2] => o1 = o2
    /\ \A u \in UNames : ~ContainsReplicated(u)

\* "replicated-" + name (lines 102-103)
Pre(u) == <<Replicated>> \o u

\* the names an RG may carry: a user's name, or it prefixed
ValidNames == UNames \cup {Pre(u) : u \in UNames}

\* the name without its "replicated-" prefix
BaseName(m) == IF HasReplicatedPrefix(m) THEN Tail(m) ELSE m

\* the name of the partner of the RG x named m
PartnerName(m, x) ==
    IF x.remoteCluster = Self
    THEN IF HasReplicatedPrefix(m) THEN Tail(m) ELSE Pre(m)
    ELSE m

\* where the partner of the RG x at <<d, m>> lives
PartnerAt(d, m, x) ==
    <<IF x.remoteCluster = Self THEN d ELSE x.remoteCluster, PartnerName(m, x)>>

(* Every name is a user's name or that name prefixed; a prefixed name is   *)
(* a self-replicating RG's; no RG names its own cluster as remote.         *)
NameShapeOf(s) ==
    \A d \in Clusters : \A m \in DOMAIN s[d] :
        /\ m \in ValidNames
        /\ HasReplicatedPrefix(m) => s[d][m].remoteCluster = Self
        /\ s[d][m].remoteCluster # d

(* The RemoteReplicationGroup annotation is empty or names the partner,   *)
(* and names it once the sync is complete.                                 *)
RecordShapeOf(s) ==
    \A d \in Clusters : \A m \in DOMAIN s[d] :
        /\ s[d][m].rrg \in {<< >>, PartnerName(m, s[d][m])}
        /\ s[d][m].synced => s[d][m].rrg = PartnerName(m, s[d][m])

(* A mirror's creator is its partner's place.                              *)
CreatorShapeOf(s) ==
    \A d \in Clusters : \A m \in DOMAIN s[d] :
        s[d][m].creator # User => s[d][m].creator = PartnerAt(d, m, s[d][m])

(* Two RGs of the same base name are partners: each at the other's        *)
(* partner place, same driver, swapped protection-group ids.               *)
FamilyOf(s) ==
    \A d1, d2 \in Clusters : \A m1 \in DOMAIN s[d1] : \A m2 \in DOMAIN s[d2] :
        BaseName(m1) = BaseName(m2) /\ <<d1, m1>> # <<d2, m2>> =>
            /\ <<d2, m2>> = PartnerAt(d1, m1, s[d1][m1])
            /\ s[d2][m2].driver = s[d1][m1].driver
            /\ s[d2][m2].pg = s[d1][m1].rpg

ShapeOK(s) == NameShapeOf(s) /\ RecordShapeOf(s) /\ CreatorShapeOf(s) /\ FamilyOf(s)

(* The inductive invariant behind the three mirror properties.            *)
FamInv == IInv /\ ShapeOK(store)

-----------------------------------------------------------------------------
(* Names.                                                                  *)

\* A user's name and the same name prefixed with "replicated-".
LEMMA UNameFacts ==
    ASSUME CleanInstance, NEW u \in UNames
    PROVE  /\ u \in Names /\ u # << >>
           /\ ~HasReplicatedPrefix(u) /\ ~ContainsReplicated(u)
           /\ Pre(u) \in Names /\ Pre(u) # << >> /\ Pre(u) # u
           /\ HasReplicatedPrefix(Pre(u)) /\ ContainsReplicated(Pre(u))
           /\ Tail(Pre(u)) = u /\ TrimReplicatedPrefix(Pre(u)) = u
           /\ BaseName(u) = u /\ BaseName(Pre(u)) = u
<1>1. u \in Names /\ u # << >>
      BY ConstantsAssumption DEF UNames
<1>2. Len(u) \in Nat \ {0}
      BY <1>1, EmptySeq DEF Names
<1>3. ~ContainsReplicated(u)
      BY DEF CleanInstance
<1>4. ~HasReplicatedPrefix(u)
      BY <1>2, <1>3 DEF HasReplicatedPrefix, ContainsReplicated
<1>5. /\ <<Replicated>> \in Seq(Tokens)
      /\ Pre(u) \in Names
      /\ Len(Pre(u)) = 1 + Len(u)
      /\ \A i \in 1..Len(Pre(u)) : Pre(u)[i] = IF i <= 1 THEN Replicated ELSE u[i - 1]
      <2>1. <<Replicated>> \in Seq(Tokens) /\ Len(<<Replicated>>) = 1
            BY TokenFacts
      <2> QED
          BY <1>1, <2>1, ConcatProperties DEF Pre, Names
<1>6. Tail(Pre(u)) = u
      <2>1. Pre(u) # << >>
            BY <1>2, <1>5
      <2>2. Tail(Pre(u)) \in Seq(Tokens) /\ Len(Tail(Pre(u))) = Len(u)
            /\ \A i \in 1..Len(u) : Tail(Pre(u))[i] = Pre(u)[i + 1]
            BY <1>2, <1>5, <2>1, HeadTailProperties DEF Names
      <2> QED
          BY <1>1, <1>2, <1>5, <2>2, SeqEqual DEF Names
<1>7. HasReplicatedPrefix(Pre(u)) /\ ContainsReplicated(Pre(u)) /\ Len(Pre(u)) > 1
      BY <1>2, <1>5 DEF HasReplicatedPrefix, ContainsReplicated
<1>8. Pre(u) # u /\ Pre(u) # << >>
      BY <1>4, <1>7 DEF HasReplicatedPrefix
<1> QED
    BY <1>1, <1>3, <1>4, <1>5, <1>6, <1>7, <1>8
    DEF TrimReplicatedPrefix, BaseName, HasReplicatedPrefix

\* Every valid name is a user's name, unprefixed, or one prefixed.
LEMMA ValidNameCases ==
    ASSUME CleanInstance, NEW m \in ValidNames
    PROVE  /\ m \in Names /\ m # << >>
           /\ \/ m \in UNames /\ ~HasReplicatedPrefix(m) /\ ~ContainsReplicated(m)
                 /\ BaseName(m) = m
              \/ \E u \in UNames : /\ m = Pre(u) /\ HasReplicatedPrefix(m)
                                   /\ ContainsReplicated(m)
                                   /\ Tail(m) = u /\ TrimReplicatedPrefix(m) = u
                                   /\ BaseName(m) = u
BY UNameFacts DEF ValidNames

(* The partner's name is a valid name of the same base, and the partner's  *)
(* partner is the RG itself.                                               *)
LEMMA PartnerNameFacts ==
    ASSUME CleanInstance, NEW m \in ValidNames, NEW x, NEW y,
           HasReplicatedPrefix(m) => x.remoteCluster = Self,
           x.remoteCluster = Self <=> y.remoteCluster = Self
    PROVE  /\ PartnerName(m, x) \in ValidNames
           /\ BaseName(PartnerName(m, x)) = BaseName(m)
           /\ PartnerName(PartnerName(m, x), y) = m
           /\ HasReplicatedPrefix(PartnerName(m, x)) => x.remoteCluster = Self
           /\ x.remoteCluster = Self => PartnerName(m, x) # m
<1>1. CASE x.remoteCluster # Self
      BY <1>1 DEF PartnerName
<1>2. CASE x.remoteCluster = Self /\ m \in UNames /\ ~HasReplicatedPrefix(m)
      <2>1. PartnerName(m, x) = Pre(m) /\ PartnerName(Pre(m), y) = Tail(Pre(m))
            BY <1>2, UNameFacts DEF PartnerName
      <2> QED
          BY <1>2, <2>1, UNameFacts DEF ValidNames
<1>3. CASE x.remoteCluster = Self /\ \E u \in UNames : m = Pre(u)
      <2>1. PICK u \in UNames : m = Pre(u)
            BY <1>3
      <2>2. PartnerName(m, x) = u /\ PartnerName(u, y) = Pre(u)
            BY <1>3, <2>1, UNameFacts DEF PartnerName
      <2> QED
          BY <2>1, <2>2, UNameFacts DEF ValidNames
<1> QED
    BY <1>1, <1>2, <1>3, ValidNameCases

-----------------------------------------------------------------------------
(* What a pass plans (lines 80-105 and 222-285).                           *)

\* What the invariant says of the RG a pass reconciles.
LEMMA LoadedShape ==
    ASSUME FamInv, NEW c \in Clusters, NEW n \in DOMAIN store[c]
    PROVE  /\ n \in ValidNames /\ store[c][n] \in RG
           /\ TargetCluster(c, store[c][n]) \in Clusters
           /\ HasReplicatedPrefix(n) => store[c][n].remoteCluster = Self
           /\ store[c][n].remoteCluster # c
           /\ store[c][n].rrg \in {<< >>, PartnerName(n, store[c][n])}
           /\ store[c][n].synced => store[c][n].rrg = PartnerName(n, store[c][n])
<1>1. TypeOK /\ ShapeOK(store)
      BY DEF FamInv, IInv
<1>2. store[c][n] \in RG /\ TargetCluster(c, store[c][n]) \in Clusters
      BY <1>1, LoadedRG
<1> QED
    BY <1>1, <1>2 DEF ShapeOK, NameShapeOf, RecordShapeOf

(* The remote name a pass looks up is the partner's, except for a          *)
(* prefixed self-replicating RG not yet synced, which looks itself up.     *)
LEMMA RemoteNameIsPartner ==
    ASSUME CleanInstance, FamInv, NEW c \in Clusters, NEW n \in DOMAIN store[c]
    PROVE  LET L  == store[c][n]
               rn == RemoteRGName(n, L)
           IN  \/ rn = PartnerName(n, L)
               \/ rn = n /\ TargetCluster(c, L) = c /\ HasReplicatedPrefix(n)
<1> DEFINE L == store[c][n]
<1>1. /\ n \in ValidNames /\ L \in RG
      /\ HasReplicatedPrefix(n) => L.remoteCluster = Self
      /\ L.rrg \in {<< >>, PartnerName(n, L)}
      /\ L.synced => L.rrg = PartnerName(n, L)
      BY LoadedShape
<1>2. CASE L.remoteCluster # Self
      BY <1>1, <1>2 DEF RemoteRGName, PartnerName
<1>3. CASE L.remoteCluster = Self /\ ~HasReplicatedPrefix(n)
      BY <1>3 DEF RemoteRGName, PartnerName, Pre
<1>4. CASE L.remoteCluster = Self /\ HasReplicatedPrefix(n)
      BY <1>1, <1>4 DEF RemoteRGName, TargetCluster
<1> QED
    BY <1>2, <1>3, <1>4

(* The remote RG a pass finds is its own mirror: it names the pass's       *)
(* cluster (or Self) and has the same driver.                              *)
LEMMA FoundIsOurs ==
    ASSUME CleanInstance, FamInv, NEW c \in Clusters, NEW n \in DOMAIN store[c],
           NEW t, t = TargetCluster(c, store[c][n]),
           NEW rn \in DOMAIN store[t],
           \/ rn = PartnerName(n, store[c][n])
           \/ rn = n /\ t = c
    PROVE  /\ store[t][rn].remoteCluster = LocalClusterID(c, store[c][n])
           /\ store[t][rn].driver = store[c][n].driver
<1> DEFINE L == store[c][n]
           R == store[t][rn]
<1>1. /\ n \in ValidNames /\ L \in RG /\ t \in Clusters
      /\ HasReplicatedPrefix(n) => L.remoteCluster = Self
      /\ L.remoteCluster # c
      BY LoadedShape
<1>2. t = c <=> L.remoteCluster = Self
      BY <1>1, ConstantsAssumption DEF TargetCluster
<1>3. CASE <<t, rn>> = <<c, n>>
      BY <1>2, <1>3 DEF LocalClusterID
<1>4. CASE <<t, rn>> # <<c, n>>
      <2>1. rn = PartnerName(n, L)
            BY <1>4
      <2>2. BaseName(rn) = BaseName(n)
            BY <1>1, <2>1, PartnerNameFacts
      <2>3. R.driver = L.driver
            BY <1>1, <1>4, <2>2 DEF FamInv, ShapeOK, FamilyOf
      <2>4. <<c, n>> = PartnerAt(t, rn, R)
            BY <1>1, <1>4, <2>2 DEF FamInv, ShapeOK, FamilyOf
      <2>5. R.remoteCluster # t
            BY <1>1 DEF FamInv, ShapeOK, NameShapeOf
      <2>6. R.remoteCluster = Self => t = c
            BY <2>4 DEF PartnerAt
      <2>7. R.remoteCluster # Self => R.remoteCluster = c
            BY <2>4 DEF PartnerAt
      <2> QED
          BY <1>2, <2>3, <2>5, <2>6, <2>7 DEF LocalClusterID
<1> QED
    BY <1>3, <1>4

(* A pass that goes on plans no renamed mirror: it creates only at the     *)
(* partner's place, when that place is free and the RG is not yet synced, *)
(* it records the partner's name, and it records only for an unsynced RG. *)
LEMMA PlanFacts ==
    ASSUME CleanInstance, FamInv, NEW c \in Clusters, NEW n \in DOMAIN store[c],
           ~SyncPlan(c, n).stop
    PROVE  LET L == store[c][n]
               P == SyncPlan(c, n)
               t == TargetCluster(c, L)
           IN  /\ P.create => /\ P.name = PartnerName(n, L)
                              /\ P.name \notin DOMAIN store[t]
                              /\ ~L.synced
               /\ ~P.synced => ~L.synced
               /\ RecordedName(n, L, P) = PartnerName(n, L)
<1> DEFINE L        == store[c][n]
           t        == TargetCluster(c, L)
           rn       == RemoteRGName(n, L)
           lid      == LocalClusterID(c, L)
           R        == store[t][rn]
           missing  == rn # << >> /\ rn \notin DOMAIN store[t]
           found    == rn # << >> /\ rn \in DOMAIN store[t]
           ours     == found /\ R.remoteCluster = lid
           conflict == R.pg # L.rpg \/ R.rpg # L.pg
           P        == SyncPlan(c, n)
<1>1. /\ n \in ValidNames /\ L \in RG /\ t \in Clusters
      /\ HasReplicatedPrefix(n) => L.remoteCluster = Self
      /\ L.remoteCluster # c
      BY LoadedShape
<1>2. \/ rn = PartnerName(n, L)
      \/ rn = n /\ t = c /\ HasReplicatedPrefix(n)
      BY RemoteNameIsPartner
<1>3. rn # << >>
      <2>1. PartnerName(n, L) \in ValidNames /\ n # << >>
            BY <1>1, PartnerNameFacts, ValidNameCases
      <2> QED
          BY <1>2, <2>1, ValidNameCases
<1>4. RecordedName(n, L, Go(FALSE, rn, L.synced)) = PartnerName(n, L)
      /\ \A cr \in BOOLEAN : RecordedName(n, L, Go(cr, PartnerName(n, L), FALSE))
                              = PartnerName(n, L)
      <2>1. CASE HasReplicatedPrefix(n)
            <3>1. PICK u \in UNames : n = Pre(u) /\ ContainsReplicated(n)
                                      /\ TrimReplicatedPrefix(n) = u /\ Tail(n) = u
                  BY <1>1, <2>1, ValidNameCases
            <3>2. PartnerName(n, L) = u
                  BY <1>1, <2>1, <3>1 DEF PartnerName
            <3> QED
                BY <3>1, <3>2 DEF RecordedName
      <2>2. CASE ~HasReplicatedPrefix(n)
            <3>1. ~ContainsReplicated(n)
                  BY <1>1, <2>2, ValidNameCases
            <3>2. rn = PartnerName(n, L)
                  BY <1>2, <2>2
            <3> QED
                BY <3>1, <3>2 DEF RecordedName, Go
      <2> QED
          BY <2>1, <2>2
<1>5. CASE found
      <2>1. R.remoteCluster = lid /\ R.driver = L.driver
            BY <1>2, <1>5, FoundIsOurs
      <2>2. /\ rn # << >> /\ ~missing /\ ours /\ R.driver = L.driver
            BY <1>3, <1>5, <2>1
      <2>3. ~conflict
            <3>1. conflict => P = Stop
                  BY <2>2 DEF SyncPlan
            <3> QED
                BY <3>1 DEF Stop
      <2>4. P = Go(FALSE, rn, L.synced)
            BY <2>2, <2>3 DEF SyncPlan
      <2> QED
          BY <1>4, <2>4 DEF Go
<1>6. CASE ~found
      <2>1. rn = PartnerName(n, L)
            BY <1>2, <1>3, <1>6
      <2>2. rn # << >> /\ missing
            BY <1>3, <1>6
      <2>3. ~L.synced
            <3>1. L.synced => P = Stop
                  BY <2>2 DEF SyncPlan
            <3> QED
                BY <3>1 DEF Stop
      <2>4. P = Go(~ContainsReplicatedReplicated(rn), rn, FALSE)
            BY <2>2, <2>3 DEF SyncPlan
      <2>5. RecordedName(n, L, P) = PartnerName(n, L)
            <3>1. CASE ContainsReplicatedReplicated(rn)
                  BY <1>4, <2>1, <2>4, <3>1 DEF Go
            <3>2. CASE ~ContainsReplicatedReplicated(rn)
                  BY <1>4, <2>1, <2>4, <3>2 DEF Go
            <3> QED
                BY <3>1, <3>2
      <2>6. P.create => P.name = PartnerName(n, L) /\ P.name \notin DOMAIN store[t]
            BY <2>1, <2>2, <2>4 DEF Go
      <2> QED
          BY <2>3, <2>5, <2>6
<1> QED
    BY <1>5, <1>6

-----------------------------------------------------------------------------
(* How the steps change the stores.                                        *)

(* A store whose RGs are RGs of the old store, with the same remote       *)
(* cluster, creator, driver and protection-group ids, and whose           *)
(* annotation is kept or set, with the sync, to the partner's name, keeps *)
(* the shape: the flags, the removals and the record of lines 301-308.    *)
(* s2 keeps the RGs of s it has, with their remote cluster, creator,      *)
(* driver and protection-group ids; an annotation is kept, or set with    *)
(* the sync to the partner's name.                                         *)
KeepsShapeFields(s, s2) ==
    /\ \A d \in Clusters : DOMAIN s2[d] \subseteq DOMAIN s[d]
    /\ \A d \in Clusters : \A m \in DOMAIN s2[d] :
          /\ s2[d][m].remoteCluster = s[d][m].remoteCluster
          /\ s2[d][m].creator = s[d][m].creator
          /\ s2[d][m].driver = s[d][m].driver
          /\ s2[d][m].pg = s[d][m].pg
          /\ s2[d][m].rpg = s[d][m].rpg
          /\ \/ s2[d][m].rrg = s[d][m].rrg /\ s2[d][m].synced = s[d][m].synced
             \/ s2[d][m].rrg = PartnerName(m, s[d][m]) /\ s2[d][m].synced = TRUE

LEMMA SubStoreShape ==
    ASSUME NEW s, ShapeOK(s), NEW s2, KeepsShapeFields(s, s2)
    PROVE  ShapeOK(s2)
<1> USE DEF KeepsShapeFields
<1>1. \A d \in Clusters : \A m \in DOMAIN s2[d] :
         /\ PartnerName(m, s2[d][m]) = PartnerName(m, s[d][m])
         /\ PartnerAt(d, m, s2[d][m]) = PartnerAt(d, m, s[d][m])
      BY DEF PartnerName, PartnerAt
<1>2. NameShapeOf(s2)
      BY DEF ShapeOK, NameShapeOf
<1>3. RecordShapeOf(s2)
      BY <1>1 DEF ShapeOK, RecordShapeOf
<1>4. CreatorShapeOf(s2)
      BY <1>1 DEF ShapeOK, CreatorShapeOf
<1>5. FamilyOf(s2)
      <2> SUFFICES ASSUME NEW d1 \in Clusters, NEW d2 \in Clusters,
                          NEW m1 \in DOMAIN s2[d1], NEW m2 \in DOMAIN s2[d2],
                          BaseName(m1) = BaseName(m2), <<d1, m1>> # <<d2, m2>>
                   PROVE  /\ <<d2, m2>> = PartnerAt(d1, m1, s2[d1][m1])
                          /\ s2[d2][m2].driver = s2[d1][m1].driver
                          /\ s2[d2][m2].pg = s2[d1][m1].rpg
          BY DEF FamilyOf
      <2>1. m1 \in DOMAIN s[d1] /\ m2 \in DOMAIN s[d2]
            OBVIOUS
      <2>2. /\ <<d2, m2>> = PartnerAt(d1, m1, s[d1][m1])
            /\ s[d2][m2].driver = s[d1][m1].driver
            /\ s[d2][m2].pg = s[d1][m1].rpg
            BY <2>1 DEF ShapeOK, FamilyOf
      <2> QED
          BY <1>1, <2>2
<1> QED
    BY <1>2, <1>3, <1>4, <1>5 DEF ShapeOK

(* The create of line 288 at the partner's free place keeps the shape:    *)
(* the new mirror is the partner of the RG whose pass creates it, and of  *)
(* no other RG.                                                            *)
LEMMA CreateShape ==
    ASSUME CleanInstance, NEW s, ShapeOK(s), StoresOK(s),
           NEW c \in Clusters, NEW n \in DOMAIN s[c],
           NEW t, t = TargetCluster(c, s[c][n]),
           NEW mn, mn = PartnerName(n, s[c][n]), mn \notin DOMAIN s[t]
    PROVE  ShapeOK([s EXCEPT ![t] = PutObj(s[t], mn, MirrorOf(c, n, s[c][n]))])
<1> DEFINE L  == s[c][n]
           M  == MirrorOf(c, n, L)
           s2 == [s EXCEPT ![t] = PutObj(s[t], mn, M)]
<1>1. /\ n \in ValidNames /\ L \in RG
      /\ HasReplicatedPrefix(n) => L.remoteCluster = Self
      /\ L.remoteCluster # c
      BY DEF ShapeOK, NameShapeOf, StoresOK, StoreOK
<1>2. t \in Clusters /\ (t = c <=> L.remoteCluster = Self)
      BY <1>1, ConstantsAssumption DEF TargetCluster, RG
<1>3. /\ M.remoteCluster = IF L.remoteCluster = Self THEN Self ELSE c
      /\ M.driver = L.driver /\ M.pg = L.rpg /\ M.rpg = L.pg
      /\ M.rrg = n /\ M.synced = FALSE /\ M.creator = <<c, n>>
      BY DEF MirrorOf, LocalClusterID
<1>4. M.remoteCluster = Self <=> L.remoteCluster = Self
      BY <1>3, ConstantsAssumption
<1>5. /\ mn \in ValidNames
      /\ BaseName(mn) = BaseName(n)
      /\ PartnerName(mn, M) = n
      /\ HasReplicatedPrefix(mn) => L.remoteCluster = Self
      BY <1>1, <1>4, PartnerNameFacts
<1>6. PartnerAt(t, mn, M) = <<c, n>> /\ PartnerAt(c, n, L) = <<t, mn>>
      BY <1>2, <1>3, <1>4, <1>5 DEF PartnerAt, TargetCluster
<1>7. M.remoteCluster # t
      BY <1>2, <1>3, ConstantsAssumption DEF TargetCluster
<1>8. /\ \A d \in Clusters : DOMAIN s2[d] = IF d = t THEN DOMAIN s[t] \cup {mn}
                                                     ELSE DOMAIN s[d]
      /\ \A d \in Clusters : \A m \in DOMAIN s2[d] :
            s2[d][m] = IF d = t /\ m = mn THEN M ELSE s[d][m]
      BY <1>2 DEF PutObj, StoresOK
<1>9. <<t, mn>> # <<c, n>>
      BY <1>2
<1>10. NameShapeOf(s2)
      BY <1>4, <1>5, <1>7, <1>8 DEF ShapeOK, NameShapeOf
<1>11. RecordShapeOf(s2)
      BY <1>3, <1>5, <1>8 DEF ShapeOK, RecordShapeOf
<1>12. CreatorShapeOf(s2)
      BY <1>3, <1>6, <1>8 DEF ShapeOK, CreatorShapeOf
<1>13. FamilyOf(s2)
      <2> SUFFICES ASSUME NEW d1 \in Clusters, NEW d2 \in Clusters,
                          NEW m1 \in DOMAIN s2[d1], NEW m2 \in DOMAIN s2[d2],
                          BaseName(m1) = BaseName(m2), <<d1, m1>> # <<d2, m2>>
                   PROVE  /\ <<d2, m2>> = PartnerAt(d1, m1, s2[d1][m1])
                          /\ s2[d2][m2].driver = s2[d1][m1].driver
                          /\ s2[d2][m2].pg = s2[d1][m1].rpg
          BY DEF FamilyOf
      (* an old RG of the new mirror's base is the creating RG *)
      <2>1. ASSUME NEW d \in Clusters, NEW m \in DOMAIN s[d], BaseName(m) = BaseName(mn)
            PROVE  <<d, m>> = <<c, n>>
            <3>1. SUFFICES ASSUME <<d, m>> # <<c, n>> PROVE FALSE
                  OBVIOUS
            <3>2. <<d, m>> = PartnerAt(c, n, L)
                  BY <2>1, <3>1, <1>5 DEF ShapeOK, FamilyOf
            <3> QED
                BY <3>2, <1>6
      <2>2. CASE <<d1, m1>> = <<t, mn>>
            <3>1. m2 \in DOMAIN s[d2] /\ s2[d2][m2] = s[d2][m2]
                  BY <2>2, <1>8
            <3>2. <<d2, m2>> = <<c, n>>
                  <4>1. BaseName(m2) = BaseName(mn)
                        BY <2>2
                  <4> QED
                      BY <3>1, <4>1, <2>1
            <3>3. s2[d1][m1] = M /\ s2[d2][m2] = L
                  BY <2>2, <3>1, <3>2, <1>8
            <3> QED
                BY <2>2, <3>2, <3>3, <1>3, <1>6
      <2>3. CASE <<d2, m2>> = <<t, mn>>
            <3>1. m1 \in DOMAIN s[d1] /\ s2[d1][m1] = s[d1][m1]
                  BY <2>3, <1>8
            <3>2. <<d1, m1>> = <<c, n>>
                  <4>1. BaseName(m1) = BaseName(mn)
                        BY <2>3
                  <4> QED
                      BY <3>1, <4>1, <2>1
            <3>3. s2[d2][m2] = M /\ s2[d1][m1] = L
                  BY <2>3, <3>1, <3>2, <1>8
            <3> QED
                BY <2>3, <3>2, <3>3, <1>3, <1>6
      <2>4. CASE <<d1, m1>> # <<t, mn>> /\ <<d2, m2>> # <<t, mn>>
            <3>1. /\ m1 \in DOMAIN s[d1] /\ s2[d1][m1] = s[d1][m1]
                  /\ m2 \in DOMAIN s[d2] /\ s2[d2][m2] = s[d2][m2]
                  BY <2>4, <1>8
            <3> QED
                BY <3>1 DEF ShapeOK, FamilyOf
      <2> QED
          BY <2>2, <2>3, <2>4
<1> QED
    BY <1>10, <1>11, <1>12, <1>13 DEF ShapeOK

(* The create-and-record pass, and its variant cut short after the create. *)
LEMMA SyncShape ==
    ASSUME CleanInstance, FamInv, NEW c \in Clusters, NEW n \in DOMAIN store[c],
           Sync(c, n) \/ SyncCreateOnly(c, n)
    PROVE  ShapeOK(store')
<1> DEFINE L == store[c][n]
           t == TargetCluster(c, L)
           P == SyncPlan(c, n)
           A == AfterCreate(c, n, P)
<1>1. /\ TypeOK /\ StoresOK(store) /\ ShapeOK(store)
      /\ PlanOK(P) /\ ~P.stop /\ CanCreate(c, n, P)
      BY SyncPlanOK, TypeOKStores DEF FamInv, IInv, Sync, SyncCreateOnly
<1>2. /\ P.create => /\ P.name = PartnerName(n, L)
                     /\ P.name \notin DOMAIN store[t]
      /\ ~P.synced => ~L.synced
      /\ RecordedName(n, L, P) = PartnerName(n, L)
      BY <1>1, PlanFacts
<1>3. ShapeOK(A)
      <2>1. CASE P.create
            <3>1. A = [store EXCEPT ![t] = PutObj(store[t], P.name, MirrorOf(c, n, L))]
                  BY <2>1 DEF AfterCreate
            <3>2. P.name = PartnerName(n, store[c][n]) /\ P.name \notin DOMAIN store[t]
                  BY <1>2, <2>1
            <3>3. ShapeOK(store) /\ StoresOK(store)
                  BY <1>1
            <3>4. ShapeOK([store EXCEPT ![t] = PutObj(store[t], P.name, MirrorOf(c, n, L))])
                  BY <3>2, <3>3, CreateShape
            <3> QED
                BY <3>1, <3>4
      <2>2. CASE ~P.create
            BY <1>1, <2>2 DEF AfterCreate
      <2> QED
          BY <2>1, <2>2
<1>4. /\ StoresOK(A)
      /\ A[c][n] = store[c][n]
      /\ \A d \in Clusters : DOMAIN store[d] \subseteq DOMAIN A[d]
      BY <1>1, AfterCreateOK
<1>5. CASE SyncCreateOnly(c, n)
      BY <1>3, <1>5 DEF SyncCreateOnly
<1>6. CASE Sync(c, n)
      <2> DEFINE rec == RecordedName(n, store[c][n], P)
                 r   == [A[c][n] EXCEPT !.rrg = rec, !.synced = TRUE]
                 s2  == [A EXCEPT ![c] = [A[c] EXCEPT ![n] = r]]
      <2>1. store' = s2
            BY <1>6 DEF Sync
      <2>2. L \in RG /\ n \in DOMAIN A[c]
            BY <1>1, <1>4, LoadedRG
      <2>3. /\ \A d \in Clusters : DOMAIN s2[d] = DOMAIN A[d]
            /\ \A d \in Clusters : \A m \in DOMAIN s2[d] :
                  s2[d][m] = IF d = c /\ m = n THEN r ELSE A[d][m]
            BY <1>4, <2>2 DEF StoresOK
      <2>4. /\ r.remoteCluster = L.remoteCluster /\ r.creator = L.creator
            /\ r.driver = L.driver /\ r.pg = L.pg /\ r.rpg = L.rpg
            /\ r.rrg = PartnerName(n, L) /\ r.synced = TRUE
            BY <1>2, <1>4, <2>2 DEF RG
      <2>5. PartnerName(n, A[c][n]) = PartnerName(n, L)
            BY <1>4
      <2>6. ASSUME NEW d \in Clusters, NEW m \in DOMAIN s2[d]
            PROVE  /\ s2[d][m].remoteCluster = A[d][m].remoteCluster
                   /\ s2[d][m].creator = A[d][m].creator
                   /\ s2[d][m].driver = A[d][m].driver
                   /\ s2[d][m].pg = A[d][m].pg
                   /\ s2[d][m].rpg = A[d][m].rpg
                   /\ \/ s2[d][m].rrg = A[d][m].rrg /\ s2[d][m].synced = A[d][m].synced
                      \/ s2[d][m].rrg = PartnerName(m, A[d][m]) /\ s2[d][m].synced = TRUE
            <3>1. CASE d = c /\ m = n
                  <4>1. s2[d][m] = r /\ A[d][m] = L
                        BY <3>1, <2>3, <1>4
                  <4> QED
                      BY <3>1, <4>1, <2>4
            <3>2. CASE ~(d = c /\ m = n)
                  BY <3>2, <2>3
            <3> QED
                BY <3>1, <3>2
      <2>7. ShapeOK(s2)
            <3>1. \A d \in Clusters : DOMAIN s2[d] \subseteq DOMAIN A[d]
                  BY <2>3
            <3>2. KeepsShapeFields(A, s2)
                  BY <2>6, <3>1 DEF KeepsShapeFields
            <3> QED
                BY <1>3, <3>2, SubStoreShape
      <2> QED
          BY <2>1, <2>7
<1> QED
    BY <1>5, <1>6

(* r has the remote cluster, creator, driver, protection-group ids,       *)
(* annotation and sync of x: it differs only in the flags.                 *)
SameKeyFields(r, x) ==
    /\ r.remoteCluster = x.remoteCluster /\ r.creator = x.creator
    /\ r.driver = x.driver /\ r.pg = x.pg /\ r.rpg = x.rpg
    /\ r.rrg = x.rrg /\ r.synced = x.synced

(* A step that rewrites flags of one RG, or removes one RG.                *)
LEMMA UpdateShape ==
    ASSUME TypeOK, ShapeOK(store), NEW d \in Clusters, NEW m \in DOMAIN store[d],
           NEW r, SameKeyFields(r, store[d][m])
    PROVE  ShapeOK([store EXCEPT ![d] = [store[d] EXCEPT ![m] = r]])
<1> DEFINE s2 == [store EXCEPT ![d] = [store[d] EXCEPT ![m] = r]]
<1>1. /\ \A e \in Clusters : DOMAIN s2[e] = DOMAIN store[e]
      /\ \A e \in Clusters : \A k \in DOMAIN s2[e] :
            s2[e][k] = IF e = d /\ k = m THEN r ELSE store[e][k]
      BY DEF TypeOK
<1>2. KeepsShapeFields(store, s2)
      BY <1>1 DEF KeepsShapeFields, SameKeyFields
<1> QED
    BY <1>2, SubStoreShape

LEMMA DropShape ==
    ASSUME TypeOK, ShapeOK(store), NEW d \in Clusters, NEW m
    PROVE  ShapeOK([store EXCEPT ![d] = DropObj(store[d], m)])
<1> DEFINE s2 == [store EXCEPT ![d] = DropObj(store[d], m)]
<1>1. /\ \A e \in Clusters : DOMAIN s2[e] \subseteq DOMAIN store[e]
      /\ \A e \in Clusters : \A k \in DOMAIN s2[e] : s2[e][k] = store[e][k]
      BY DEF TypeOK, DropObj
<1>2. KeepsShapeFields(store, s2)
      BY <1>1 DEF KeepsShapeFields
<1> QED
    BY <1>2, SubStoreShape

(* The steps that change one flag or annotation of one RG, or remove it.   *)
LEMMA OtherShape ==
    ASSUME FamInv, NEW c \in Clusters, NEW n \in DOMAIN store[c],
           \/ Release(c, n) \/ RequestRemoteDeletion(c, n)
           \/ AddFinalizer(c, n) \/ DeleteRequested(c, n)
           \/ OwnerInitialize(c, n) \/ UserDelete(c, n)
    PROVE  ShapeOK(store')
<1>1. TypeOK /\ ShapeOK(store) /\ store[c][n] \in RG
      BY LoadedRG DEF FamInv, IInv
<1>2. CASE Release(c, n) \/ (UserDelete(c, n) /\ ~store[c][n].finalizer)
      <2>1. store' = [store EXCEPT ![c] = DropObj(store[c], n)]
            BY <1>2 DEF Release, UserDelete
      <2>2. ShapeOK([store EXCEPT ![c] = DropObj(store[c], n)])
            BY <1>1, DropShape
      <2> QED
          BY <2>1, <2>2
<1>3. CASE RequestRemoteDeletion(c, n)
      <2> DEFINE t == TargetCluster(c, store[c][n])
                 m == store[c][n].rrg
                 r == [store[t][m] EXCEPT !.delReq = TRUE]
      <2>1. t \in Clusters /\ m \in DOMAIN store[t] /\ store[t][m] \in RG
            <3>1. t \in Clusters
                  BY <1>1, LoadedRG
            <3>2. m \in DOMAIN store[t]
                  BY <1>3 DEF RequestRemoteDeletion
            <3> QED
                BY <1>1, <3>1, <3>2 DEF TypeOK
      <2>2. store' = [store EXCEPT ![t] = [store[t] EXCEPT ![m] = r]]
            BY <1>3 DEF RequestRemoteDeletion
      <2>3. SameKeyFields(r, store[t][m])
            BY <2>1 DEF SameKeyFields, RG
      <2>4. ShapeOK([store EXCEPT ![t] = [store[t] EXCEPT ![m] = r]])
            BY <1>1, <2>1, <2>3, UpdateShape
      <2> QED
          BY <2>2, <2>4
<1>4. CASE AddFinalizer(c, n)
      <2> DEFINE r == [store[c][n] EXCEPT !.finalizer = TRUE]
      <2>1. store' = [store EXCEPT ![c] = [store[c] EXCEPT ![n] = r]]
            BY <1>4 DEF AddFinalizer
      <2>2. SameKeyFields(r, store[c][n])
            BY <1>1 DEF SameKeyFields, RG
      <2>3. ShapeOK([store EXCEPT ![c] = [store[c] EXCEPT ![n] = r]])
            BY <1>1, <2>2, UpdateShape
      <2> QED
          BY <2>1, <2>3
<1>5. CASE DeleteRequested(c, n) \/ (UserDelete(c, n) /\ store[c][n].finalizer)
      <2> DEFINE r == [store[c][n] EXCEPT !.deleting = TRUE]
      <2>1. store' = [store EXCEPT ![c] = [store[c] EXCEPT ![n] = r]]
            BY <1>5 DEF DeleteRequested, UserDelete
      <2>2. SameKeyFields(r, store[c][n])
            BY <1>1 DEF SameKeyFields, RG
      <2>3. ShapeOK([store EXCEPT ![c] = [store[c] EXCEPT ![n] = r]])
            BY <1>1, <2>2, UpdateShape
      <2> QED
          BY <2>1, <2>3
<1>6. CASE OwnerInitialize(c, n)
      <2>1. PICK p \in PolicyValues \cup {Absent} :
               store' = [store EXCEPT ![c] = [store[c] EXCEPT ![n] =
                           [store[c][n] EXCEPT !.annNil = FALSE, !.policy = p]]]
            <3>1. \A q : [store EXCEPT ![c][n].annNil = FALSE, ![c][n].policy = q]
                         = [store EXCEPT ![c] = [store[c] EXCEPT ![n] =
                               [store[c][n] EXCEPT !.annNil = FALSE, !.policy = q]]]
                  BY <1>1 DEF TypeOK, RG
            <3> QED
                BY <1>6, <3>1 DEF OwnerInitialize
      <2> DEFINE r == [store[c][n] EXCEPT !.annNil = FALSE, !.policy = p]
      <2>2. SameKeyFields(r, store[c][n])
            BY <1>1 DEF SameKeyFields, RG
      <2>3. ShapeOK([store EXCEPT ![c] = [store[c] EXCEPT ![n] = r]])
            BY <1>1, <2>2, UpdateShape
      <2> QED
          BY <2>1, <2>3
<1> QED
    BY <1>2, <1>3, <1>4, <1>5, <1>6 DEF UserDelete

-----------------------------------------------------------------------------
(* The induction.                                                          *)

(* The initial RGs are the users', under distinct unprefixed names.        *)
LEMMA InitFamInv ==
    ASSUME CleanInstance, Init
    PROVE  FamInv
<1>1. IInv
      BY InitIInv
<1>2. PICK present \in SUBSET OptionalRGs :
        \E spec \in [UserRGs \cup present -> RGSpec] :
          /\ \A o \in UserRGs \cup present : spec[o].remoteCluster # o[1]
          /\ store = [c \in Clusters |->
                        [n \in {o[2] : o \in {p \in UserRGs \cup present : p[1] = c}} |->
                           InitialRG(spec[<<c, n>>])]]
      BY DEF Init
<1>3. PICK spec \in [UserRGs \cup present -> RGSpec] :
          /\ \A o \in UserRGs \cup present : spec[o].remoteCluster # o[1]
          /\ store = [c \in Clusters |->
                        [n \in {o[2] : o \in {p \in UserRGs \cup present : p[1] = c}} |->
                           InitialRG(spec[<<c, n>>])]]
      BY <1>2
<1> DEFINE Os == UserRGs \cup present
<1>4. ASSUME NEW d \in Clusters, NEW m \in DOMAIN store[d]
      PROVE  /\ <<d, m>> \in Os /\ m \in UNames
             /\ store[d][m] = InitialRG(spec[<<d, m>>])
             /\ store[d][m].remoteCluster # d
      <2>1. PICK o \in Os : o[1] = d /\ o[2] = m
            BY <1>3
      <2>2. o = <<d, m>>
            <3>1. o \in Clusters \X Names
                  <4>1. UserRGs \subseteq Clusters \X Names /\ OptionalRGs \subseteq Clusters \X Names
                        BY ConstantsAssumption
                  <4> QED
                      BY <1>2, <4>1 DEF Os
            <3> QED
                BY <2>1, <3>1
      <2>3. <<d, m>> \in Os /\ m \in UNames
            BY <2>1, <2>2 DEF UNames
      <2>4. store[d][m] = InitialRG(spec[<<d, m>>])
            BY <1>3
      <2>5. spec[<<d, m>>].remoteCluster # d
            BY <1>3, <2>3
      <2> QED
          BY <2>3, <2>4, <2>5 DEF InitialRG
<1>5. ASSUME NEW d \in Clusters, NEW m \in DOMAIN store[d]
      PROVE  /\ m \in UNames /\ ~HasReplicatedPrefix(m) /\ BaseName(m) = m
             /\ store[d][m].rrg = << >> /\ ~store[d][m].synced
             /\ store[d][m].creator = User /\ store[d][m].remoteCluster # d
      <2>1. m \in UNames /\ store[d][m] = InitialRG(spec[<<d, m>>])
            /\ store[d][m].remoteCluster # d
            BY <1>4
      <2>2. ~HasReplicatedPrefix(m) /\ BaseName(m) = m
            BY <2>1, UNameFacts
      <2> QED
          BY <2>1, <2>2 DEF InitialRG
<1>6. NameShapeOf(store) /\ RecordShapeOf(store) /\ CreatorShapeOf(store)
      BY <1>5 DEF NameShapeOf, RecordShapeOf, CreatorShapeOf, ValidNames
<1>7. FamilyOf(store)
      <2> SUFFICES ASSUME NEW d1 \in Clusters, NEW d2 \in Clusters,
                          NEW m1 \in DOMAIN store[d1], NEW m2 \in DOMAIN store[d2],
                          BaseName(m1) = BaseName(m2), <<d1, m1>> # <<d2, m2>>
                   PROVE  FALSE
          BY DEF FamilyOf
      <2>1. m1 = m2
            BY <1>5
      <2>2. <<d1, m1>> \in Os /\ <<d2, m2>> \in Os
            BY <1>4
      <2> QED
          BY <2>1, <2>2 DEF CleanInstance
<1> QED
    BY <1>1, <1>6, <1>7 DEF FamInv, ShapeOK

LEMMA NextFamInv ==
    ASSUME CleanInstance, FamInv, [Next]_vars
    PROVE  FamInv'
<1>1. IInv'
      BY NextIInv DEF FamInv
<1>2. CASE UNCHANGED vars
      BY <1>1, <1>2 DEF vars, FamInv, ShapeOK, NameShapeOf, RecordShapeOf,
                        CreatorShapeOf, FamilyOf
<1>3. ASSUME NEW c \in Clusters, NEW n \in DOMAIN store[c],
             \/ Release(c, n) \/ RequestRemoteDeletion(c, n) \/ AddFinalizer(c, n)
             \/ DeleteRequested(c, n) \/ Sync(c, n) \/ SyncCreateOnly(c, n)
             \/ OwnerInitialize(c, n) \/ UserDelete(c, n)
      PROVE  ShapeOK(store')
      <2>1. CASE Sync(c, n) \/ SyncCreateOnly(c, n)
            BY <2>1, SyncShape
      <2>2. CASE ~(Sync(c, n) \/ SyncCreateOnly(c, n))
            BY <1>3, <2>2, OtherShape
      <2> QED
          BY <2>1, <2>2
<1>4. CASE Next
      <2>1. PICK c \in Clusters :
               \E n \in DOMAIN store[c] :
                  \/ Release(c, n) \/ RequestRemoteDeletion(c, n) \/ AddFinalizer(c, n)
                  \/ DeleteRequested(c, n) \/ Sync(c, n) \/ SyncCreateOnly(c, n)
                  \/ OwnerInitialize(c, n) \/ UserDelete(c, n)
            BY <1>4 DEF Next
      <2>2. PICK n \in DOMAIN store[c] :
                  \/ Release(c, n) \/ RequestRemoteDeletion(c, n) \/ AddFinalizer(c, n)
                  \/ DeleteRequested(c, n) \/ Sync(c, n) \/ SyncCreateOnly(c, n)
                  \/ OwnerInitialize(c, n) \/ UserDelete(c, n)
            BY <2>1
      <2> QED
          BY <1>1, <2>2, <1>3 DEF FamInv
<1> QED
    BY <1>1, <1>2, <1>4 DEF FamInv

-----------------------------------------------------------------------------
(* The three properties follow from the shape.                            *)

\* whether an RG replicates onto its own cluster
LEMMA SelfCases ==
    ASSUME TypeOK, NameShapeOf(store), NEW d \in Clusters, NEW m \in DOMAIN store[d]
    PROVE  /\ m \in ValidNames
           /\ HasReplicatedPrefix(m) => store[d][m].remoteCluster = Self
           /\ (IF store[d][m].remoteCluster = Self THEN d ELSE store[d][m].remoteCluster) = d
              <=> store[d][m].remoteCluster = Self
BY DEF NameShapeOf

LEMMA UniqueFromShape ==
    ASSUME CleanInstance, TypeOK, ShapeOK(store)
    PROVE  MirrorUnique
<1> SUFFICES ASSUME NEW d \in Clusters, NEW m1 \in DOMAIN store[d],
                    NEW m2 \in DOMAIN store[d],
                    store[d][m1].creator # User,
                    store[d][m1].creator = store[d][m2].creator
             PROVE  m1 = m2
    BY DEF MirrorUnique
<1> DEFINE x1 == store[d][m1]
           x2 == store[d][m2]
<1>1. x1.creator = PartnerAt(d, m1, x1) /\ x2.creator = PartnerAt(d, m2, x2)
      BY DEF ShapeOK, CreatorShapeOf
<1>2. /\ m1 \in ValidNames
      /\ HasReplicatedPrefix(m1) => x1.remoteCluster = Self
      /\ (IF x1.remoteCluster = Self THEN d ELSE x1.remoteCluster) = d
         <=> x1.remoteCluster = Self
      BY SelfCases DEF ShapeOK
<1>3. /\ m2 \in ValidNames
      /\ HasReplicatedPrefix(m2) => x2.remoteCluster = Self
      /\ (IF x2.remoteCluster = Self THEN d ELSE x2.remoteCluster) = d
         <=> x2.remoteCluster = Self
      BY SelfCases DEF ShapeOK
<1>8. PartnerAt(d, m1, x1) = PartnerAt(d, m2, x2)
      BY <1>1
<1>9. /\ PartnerAt(d, m1, x1)[1] = IF x1.remoteCluster = Self THEN d ELSE x1.remoteCluster
      /\ PartnerAt(d, m1, x1)[2] = PartnerName(m1, x1)
      /\ PartnerAt(d, m2, x2)[1] = IF x2.remoteCluster = Self THEN d ELSE x2.remoteCluster
      /\ PartnerAt(d, m2, x2)[2] = PartnerName(m2, x2)
      BY DEF PartnerAt
<1>4. x1.remoteCluster = Self <=> x2.remoteCluster = Self
      BY <1>2, <1>3, <1>8, <1>9
<1>5. PartnerName(m1, x1) = PartnerName(m2, x2)
      BY <1>8, <1>9
<1>6. PartnerName(PartnerName(m1, x1), x1) = m1
      BY <1>2, PartnerNameFacts
<1>7. PartnerName(PartnerName(m2, x2), x1) = m2
      BY <1>3, <1>4, PartnerNameFacts
<1> QED
    BY <1>5, <1>6, <1>7

LEMMA TracksFromShape ==
    ASSUME CleanInstance, TypeOK, ShapeOK(store)
    PROVE  MirrorAnnotationTracksMirror
<1> SUFFICES ASSUME NEW c \in Clusters, NEW n \in DOMAIN store[c],
                    store[c][n].synced,
                    NEW m \in DOMAIN store[TargetCluster(c, store[c][n])],
                    store[TargetCluster(c, store[c][n])][m].creator = <<c, n>>
             PROVE  m = store[c][n].rrg
    BY DEF MirrorAnnotationTracksMirror
<1> DEFINE L == store[c][n]
           t == TargetCluster(c, L)
           R == store[t][m]
<1>1. L \in RG /\ t \in Clusters /\ n \in Names
      BY LoadedRG DEF TypeOK, TargetCluster, RG
<1>2. L.rrg = PartnerName(n, L)
      BY DEF ShapeOK, RecordShapeOf
<1>3. R.creator # User
      <2>1. <<c, n>> \in Clusters \X Names
            BY <1>1
      <2>2. User \notin Clusters \X Names
            BY ConstantsAssumption
      <2> QED
          BY <2>1, <2>2
<1>4. <<c, n>> = PartnerAt(t, m, R)
      BY <1>1, <1>3 DEF ShapeOK, CreatorShapeOf
<1>5. L.remoteCluster # c /\ R.remoteCluster # t
      BY <1>1 DEF ShapeOK, NameShapeOf
<1>6. L.remoteCluster = Self <=> R.remoteCluster = Self
      BY <1>4, <1>5 DEF PartnerAt, TargetCluster
<1>7. n = PartnerName(m, R)
      BY <1>4 DEF PartnerAt
<1> QED
    BY <1>1, <1>2, <1>6, <1>7, SelfCases, PartnerNameFacts DEF ShapeOK

LEMMA MatchesFromShape ==
    ASSUME CleanInstance, TypeOK, ShapeOK(store)
    PROVE  SyncedMirrorMatches
<1> SUFFICES ASSUME NEW c \in Clusters, NEW n \in DOMAIN store[c],
                    store[c][n].synced,
                    store[c][n].rrg \in DOMAIN store[TargetCluster(c, store[c][n])]
             PROVE  MirrorMatches(c, store[c][n],
                        store[TargetCluster(c, store[c][n])][store[c][n].rrg])
    BY DEF SyncedMirrorMatches
<1> DEFINE L == store[c][n]
           t == TargetCluster(c, L)
           m == L.rrg
           R == store[t][m]
<1>1. L \in RG /\ t \in Clusters
      BY LoadedRG DEF TypeOK, TargetCluster, RG
<1>2. m = PartnerName(n, L) /\ PartnerAt(c, n, L) = <<t, m>>
      BY DEF ShapeOK, RecordShapeOf, PartnerAt, TargetCluster
<1>3. BaseName(m) = BaseName(n) /\ (L.remoteCluster = Self => m # n)
      BY <1>2, SelfCases, PartnerNameFacts DEF ShapeOK
<1>4. L.remoteCluster # c /\ R.remoteCluster # t
      BY <1>1 DEF ShapeOK, NameShapeOf
<1>5. <<c, n>> # <<t, m>>
      BY <1>3, <1>4 DEF TargetCluster
<1>6. /\ R.driver = L.driver /\ R.pg = L.rpg
      /\ L.pg = R.rpg /\ <<c, n>> = PartnerAt(t, m, R)
      BY <1>1, <1>2, <1>3, <1>5 DEF ShapeOK, FamilyOf
<1>7. R.remoteCluster = LocalClusterID(c, L)
      BY <1>4, <1>6 DEF PartnerAt, TargetCluster, LocalClusterID
<1> QED
    BY <1>6, <1>7 DEF MirrorMatches

-----------------------------------------------------------------------------
(* The theorems.                                                           *)

LEMMA FamInvariant == CleanInstance => (Spec => []FamInv)
<1> SUFFICES ASSUME CleanInstance PROVE Spec => []FamInv
    OBVIOUS
<1>1. Init => FamInv
      BY InitFamInv
<1>2. FamInv /\ [Next]_vars => FamInv'
      BY NextFamInv
<1> QED
    BY <1>1, <1>2, PTL DEF Spec

(* In an instance whose initial RGs have distinct names free of the token  *)
(* "replicated", no cluster ever holds two mirrors of the same RG: the     *)
(* create of line 288 lands only at the partner's place, which it finds   *)
(* free.                                                                   *)
THEOREM MirrorUniqueInvariant == CleanInstance => (Spec => []MirrorUnique)
<1> SUFFICES ASSUME CleanInstance PROVE Spec => []MirrorUnique
    OBVIOUS
<1>1. FamInv => MirrorUnique
      BY UniqueFromShape DEF FamInv, IInv
<1> QED
    BY <1>1, FamInvariant, PTL

(* In such an instance the RemoteReplicationGroup annotation of a synced   *)
(* RG (written at line 307) names every mirror that RG has created on its  *)
(* target cluster.                                                         *)
THEOREM MirrorAnnotationTracksMirrorInvariant ==
    CleanInstance => (Spec => []MirrorAnnotationTracksMirror)
<1> SUFFICES ASSUME CleanInstance PROVE Spec => []MirrorAnnotationTracksMirror
    OBVIOUS
<1>1. FamInv => MirrorAnnotationTracksMirror
      BY TracksFromShape DEF FamInv, IInv
<1> QED
    BY <1>1, FamInvariant, PTL

(* In such an instance the RG a synced RG's annotation names on its target *)
(* cluster is a matching mirror: it points back at the RG's cluster, has  *)
(* the same driver and the swapped protection-group ids (lines 255-277).  *)
THEOREM SyncedMirrorMatchesInvariant ==
    CleanInstance => (Spec => []SyncedMirrorMatches)
<1> SUFFICES ASSUME CleanInstance PROVE Spec => []SyncedMirrorMatches
    OBVIOUS
<1>1. FamInv => SyncedMirrorMatches
      BY MatchesFromShape DEF FamInv, IInv
<1> QED
    BY <1>1, FamInvariant, PTL

=============================================================================
