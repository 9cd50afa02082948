------------------------ MODULE ActionProcessor_proofs ------------------------
(***************************************************************************)
(* Proofs about the Action Processor and the Snapshot Materializer: no    *)
(* action is dispatched twice while nothing interrupts the stamp (lines   *)
(* 339 and 351-352), and the claims restored never land in the namespace  *)
(* of the live source claim (lines 430-433).                               *)
(***************************************************************************)
EXTENDS ActionProcessor, FiniteSetTheorems, TLAPS

PassFields == {"phase", "act", "ns", "todo", "cur", "pvc", "content", "made"}
WorldFields == {"ns", "classes", "contents", "snaps", "pvcs"}

(* The pair in flight: its claim, when one was found, is the source claim *)
(* of the volume, and the namespace the pair writes to differs from it.   *)
PairOK ==
    /\ pass.cur \in Vols
    /\ pass.pvc # None => pass.pvc = PVCOf[pass.cur] /\ pass.ns # pass.pvc

ClaimInv ==
    /\ DOMAIN pass = PassFields
    /\ DOMAIN world = WorldFields
    /\ pass.todo \subseteq Vols
    /\ lastAction # NoAction => lastAction.attrs \subseteq Vols
    /\ pass.phase \in {"content", "snapshot", "pvc"} => PairOK
    /\ pass.phase = "pvc" => pass.pvc # None
    /\ \A q \in world.pvcs : q.name \in Vols /\ q.ns # PVCOf[q.name]

(* The locals of a pass in the phases that use them: the namespace the   *)
(* pass writes to once the Action annotation was read, and the content  *)
(* name a snapshot is bound to.                                           *)
PassShape ==
    /\ pass.phase \in Phases \ {"idle", "stamp"} => pass.ns \in AllNs
    /\ pass.phase = "snapshot" => pass.content \in Vols \X (0..MaxTime)
    /\ lastAction # NoAction => lastAction \in history

TypeInv == TypeOK /\ ClaimInv /\ PassShape

(* "cloned-" + a namespace is never that namespace. *)
LEMMA ClonedDiffers ==
    ASSUME NEW n
    PROVE  Cloned(<<n>>) # <<n>>
BY DEF Cloned

LEMMA InitClaimInv == Init => ClaimInv
BY DEF Init, ClaimInv, Idle, PassFields, WorldFields

(* A step that leaves the pass in a phase outside the pair's, and the     *)
(* claims alone, keeps the invariant.                                      *)
LEMMA PhaseOnly ==
    ASSUME ClaimInv, NEW ph,
           ph \notin {"content", "snapshot", "pvc"},
           pass' = [pass EXCEPT !.phase = ph],
           world'.pvcs = world.pvcs, DOMAIN world' = WorldFields,
           lastAction' = lastAction
    PROVE  ClaimInv'
BY DEF ClaimInv, PairOK

LEMMA NextClaimInv == ClaimInv /\ [Next]_vars => ClaimInv'
<1> SUFFICES ASSUME ClaimInv, [Next]_vars PROVE ClaimInv'
    OBVIOUS
<1> USE APAssumption
<1>1. CASE ProcessLastActionResult
      BY <1>1 DEF ProcessLastActionResult, FirstPhase, ClaimInv, PairOK, Idle,
                 PassFields
<1>2. CASE EnsureNamespace
      BY <1>2, PhaseOnly DEF EnsureNamespace, Goto, Fail, AfterError, ClaimInv, WorldFields
<1>3. CASE EnsureSnapshotClass
      BY <1>3, PhaseOnly DEF EnsureSnapshotClass, Goto, Fail, AfterError, ClaimInv, WorldFields
<1>4. CASE BeginPair
      <2>1. PICK v \in pass.todo :
              \E p \in IF ShouldCreatePvc THEN GetPVCInformation(v) ELSE {None} :
                 LET next == [pass EXCEPT !.todo = @ \ {v}, !.cur = v, !.pvc = p,
                                          !.phase = "content"]
                 IN IF MustClone(p, pass.ns)
                    THEN \E ok \in NamespaceCreated(world, Cloned(pass.ns)) :
                            IF ok
                            THEN /\ pass' = [next EXCEPT !.ns = Cloned(pass.ns)]
                                 /\ world' = [world EXCEPT !.ns = @ \cup {Cloned(pass.ns)}]
                            ELSE /\ pass' = [next EXCEPT !.ns = Cloned(pass.ns),
                                                         !.phase = AfterError]
                                 /\ UNCHANGED world
                    ELSE pass' = next /\ UNCHANGED world
            BY <1>4 DEF BeginPair
      <2>2. PICK p \in IF ShouldCreatePvc THEN GetPVCInformation(v) ELSE {None} :
                 LET next == [pass EXCEPT !.todo = @ \ {v}, !.cur = v, !.pvc = p,
                                          !.phase = "content"]
                 IN IF MustClone(p, pass.ns)
                    THEN \E ok \in NamespaceCreated(world, Cloned(pass.ns)) :
                            IF ok
                            THEN /\ pass' = [next EXCEPT !.ns = Cloned(pass.ns)]
                                 /\ world' = [world EXCEPT !.ns = @ \cup {Cloned(pass.ns)}]
                            ELSE /\ pass' = [next EXCEPT !.ns = Cloned(pass.ns),
                                                         !.phase = AfterError]
                                 /\ UNCHANGED world
                    ELSE pass' = next /\ UNCHANGED world
            BY <2>1
      <2>3. v \in Vols /\ (p = None \/ p = PVCOf[v])
            BY <2>1, <2>2 DEF ClaimInv, GetPVCInformation
      <2>4. lastAction' = lastAction
            BY <1>4 DEF BeginPair
      <2>5. CASE MustClone(p, pass.ns)
            <3> DEFINE next == [pass EXCEPT !.todo = @ \ {v}, !.cur = v, !.pvc = p,
                                            !.phase = "content"]
            <3>1. p \in NsNames
                  BY <2>3, <2>5 DEF MustClone
            <3>2. Cloned(pass.ns) # p
                  BY <2>5, <3>1, ClonedDiffers DEF MustClone, NsNames
            <3>3. \/ /\ pass' = [next EXCEPT !.ns = Cloned(pass.ns)]
                     /\ world' = [world EXCEPT !.ns = @ \cup {Cloned(pass.ns)}]
                  \/ /\ pass' = [next EXCEPT !.ns = Cloned(pass.ns),
                                             !.phase = AfterError]
                     /\ world' = world
                  BY <2>2, <2>5
            <3>4. /\ DOMAIN world' = WorldFields
                  /\ world'.pvcs = world.pvcs
                  BY <3>3 DEF ClaimInv, WorldFields
            <3>5. /\ DOMAIN pass' = PassFields
                  /\ pass'.todo \subseteq Vols
                  /\ pass'.phase \in {"content", "stamp"}
                  /\ pass'.cur = v /\ pass'.pvc = p
                  /\ pass'.ns = Cloned(pass.ns)
                  <4>1. /\ DOMAIN next = PassFields
                        /\ next.todo \subseteq Vols
                        /\ next.cur = v /\ next.pvc = p
                        BY <2>3 DEF ClaimInv, PassFields, next
                  <4> QED
                      BY <3>3, <4>1 DEF AfterError, PassFields
            <3> QED
                BY <2>3, <2>4, <2>5, <3>2, <3>4, <3>5 DEF ClaimInv, PairOK
      <2>6. CASE ~MustClone(p, pass.ns)
            BY <2>2, <2>3, <2>4, <2>6 DEF ClaimInv, PairOK, PassFields, MustClone
      <2> QED
          BY <2>5, <2>6
<1>5. CASE LoopDone
      BY <1>5, PhaseOnly DEF LoopDone, Goto, ClaimInv
<1>6. CASE CreateSnapshotContent
      BY <1>6 DEF CreateSnapshotContent, Goto, Fail, AfterError, ClaimInv, PairOK,
                  PassFields, WorldFields
<1>7. CASE CreateSnapshotObject
      BY <1>7 DEF CreateSnapshotObject, Goto, Fail, AfterError, ClaimInv, PairOK,
                  PassFields, WorldFields
<1>8. CASE CreatePVC
      <2> DEFINE q == ClaimFromSnapshot(pass.cur, pass.ns, <<pass.act.id, pass.cur>>)
      <2>1. /\ world'.pvcs \subseteq world.pvcs \cup {q}
            /\ DOMAIN world' = WorldFields
            BY <1>8 DEF CreatePVC, ClaimInv, WorldFields
      <2>2. \/ pass' = [pass EXCEPT !.phase = "loop"]
            \/ pass' = [pass EXCEPT !.phase = "stamp"]
            BY <1>8 DEF CreatePVC, Goto, Fail, AfterError
      <2>3. q.name \in Vols /\ q.ns # PVCOf[q.name]
            BY <1>8 DEF CreatePVC, ClaimInv, PairOK, ClaimFromSnapshot
      <2>4. lastAction' = lastAction
            BY <1>8 DEF CreatePVC
      <2> QED
          BY <2>1, <2>2, <2>3, <2>4 DEF ClaimInv, PairOK, PassFields
<1>9. CASE MarkProcessed
      BY <1>9 DEF MarkProcessed, ClaimInv, PairOK, Idle, PassFields
<1>10. CASE Crash
      BY <1>10 DEF Crash, ClaimInv, PairOK, Idle, PassFields
<1>11. CASE Report
      BY <1>11 DEF Report, Ledger!LedgerReport, Ledger!Actions, ClaimInv, PairOK
<1>12. CASE Tick
      BY <1>12 DEF Tick, Ledger!LedgerTick, ClaimInv, PairOK
<1>13. CASE UNCHANGED vars
      BY <1>13 DEF vars, ClaimInv, PairOK
<1> QED
    BY <1>1, <1>2, <1>3, <1>4, <1>5, <1>6, <1>7, <1>8, <1>9, <1>10, <1>11,
       <1>12, <1>13 DEF Next, ControllerStep

(* The redirect of lines 430-433 keeps every restored claim out of the    *)
(* namespace of its live source claim, for every instance.                 *)
THEOREM RestoreOutsideLiveClaim == Spec => []NoRestoreOverLiveClaim
<1>1. Init => ClaimInv
      BY InitClaimInv
<1>2. ClaimInv /\ [Next]_vars => ClaimInv'
      BY NextClaimInv
<1>3. ClaimInv => NoRestoreOverLiveClaim
      BY DEF ClaimInv, NoRestoreOverLiveClaim
<1> QED
    BY <1>1, <1>2, <1>3, PTL DEF Spec

-----------------------------------------------------------------------------
(* Type correctness.                                                       *)

\* Every id of a reported action is one of Ids.
LEMMA ActionIds ==
    ASSUME NEW a \in Actions
    PROVE  a.id \in Ids /\ a.time \in 0..MaxTime /\ a.attrs \subseteq Vols
BY DEF Actions, Ledger!Actions, Ledger!Ids, Ids

LEMMA InitTypeInv == Init => TypeInv
<1> SUFFICES ASSUME Init PROVE TypeInv
    OBVIOUS
<1>1. ClaimInv
      BY InitClaimInv
<1>2. PICK cls \in SUBSET InitClasses :
        world = [ns |-> {}, classes |-> cls, contents |-> {}, snaps |-> {}, pvcs |-> {}]
      BY DEF Init
<1>3. TypeOK
      BY <1>2, APAssumption DEF Init, TypeOK, Idle, Phases
<1>4. PassShape
      BY DEF Init, PassShape, Idle
<1> QED
    BY <1>1, <1>3, <1>4 DEF TypeInv

(* A step of a pass in flight that changes only the pass's phase keeps    *)
(* TypeOK and the pass's shape, when it leaves the snapshot phase alone.  *)
LEMMA PhaseStepType ==
    ASSUME TypeInv, NEW ph \in Phases \ {"idle", "snapshot"},
           pass.phase \in Phases \ {"idle", "stamp", "snapshot"},
           pass' = [pass EXCEPT !.phase = ph],
           UNCHANGED <<now, lastAction, history, stamp, world, done, interrupts>>
    PROVE  TypeOK' /\ PassShape'
BY DEF TypeInv, ClaimInv, TypeOK, PassShape, PassFields, Phases

LEMMA NextTypeInv == TypeInv /\ [Next]_vars => TypeInv'
<1> SUFFICES ASSUME TypeInv, [Next]_vars PROVE TypeInv'
    OBVIOUS
<1> USE APAssumption
<1>0. ClaimInv'
      BY NextClaimInv DEF TypeInv
<1> SUFFICES TypeOK' /\ PassShape'
    BY <1>0 DEF TypeInv
<1>1. CASE ProcessLastActionResult
      <2>1. lastAction \in history /\ lastAction \in Actions
            BY <1>1 DEF ProcessLastActionResult, TypeInv, PassShape, TypeOK
      <2>2. lastAction.payload \in Namespaces => <<lastAction.payload>> \in AllNs
            BY DEF AllNs, NsNames
      <2> QED
          BY <1>1, <2>1, <2>2
          DEF ProcessLastActionResult, FirstPhase, Idle, TypeInv, TypeOK, PassShape,
              Phases, AllNs
<1>2. CASE EnsureNamespace
      <2>1. pass.ns \in AllNs
            BY <1>2 DEF EnsureNamespace, TypeInv, PassShape, Phases
      <2>2. CASE pass.ns \in world.ns /\ Goto("class") /\ UNCHANGED world
            BY <1>2, <2>2, PhaseStepType DEF EnsureNamespace, Goto, Phases
      <2>3. CASE world' = [world EXCEPT !.ns = @ \cup {pass.ns}] /\ Goto("class")
            BY <1>2, <2>1, <2>3
            DEF EnsureNamespace, Goto, TypeInv, ClaimInv, TypeOK, PassShape,
                PassFields, WorldFields, Phases
      <2>4. CASE Fail /\ UNCHANGED world
            BY <1>2, <2>4, PhaseStepType DEF EnsureNamespace, Fail, Goto, AfterError, Phases
      <2> QED
          BY <1>2, <2>2, <2>3, <2>4 DEF EnsureNamespace
<1>3. CASE EnsureSnapshotClass
      <2>1. CASE Goto("loop") /\ UNCHANGED world
            BY <1>3, <2>1, PhaseStepType DEF EnsureSnapshotClass, Goto, Phases
      <2>2. CASE Fail /\ UNCHANGED world
            BY <1>3, <2>2, PhaseStepType DEF EnsureSnapshotClass, Fail, Goto, AfterError, Phases
      <2>3. CASE /\ SnapshotClassAnn = ""
                 /\ world' = [world EXCEPT !.classes = @ \cup {SnClass}]
                 /\ Goto("loop")
            BY <1>3, <2>3
            DEF EnsureSnapshotClass, Goto, SnClass, TypeInv, ClaimInv, TypeOK, PassShape,
                PassFields, WorldFields, Phases
      <2> QED
          BY <1>3, <2>1, <2>2, <2>3 DEF EnsureSnapshotClass
<1>4. CASE BeginPair
      <2>0. PICK v \in pass.todo :
              \E p \in IF ShouldCreatePvc THEN GetPVCInformation(v) ELSE {None} :
                 LET next == [pass EXCEPT !.todo = @ \ {v}, !.cur = v, !.pvc = p,
                                          !.phase = "content"]
                 IN IF MustClone(p, pass.ns)
                    THEN \E ok \in NamespaceCreated(world, Cloned(pass.ns)) :
                            IF ok
                            THEN /\ pass' = [next EXCEPT !.ns = Cloned(pass.ns)]
                                 /\ world' = [world EXCEPT !.ns = @ \cup {Cloned(pass.ns)}]
                            ELSE /\ pass' = [next EXCEPT !.ns = Cloned(pass.ns),
                                                         !.phase = AfterError]
                                 /\ UNCHANGED world
                    ELSE pass' = next /\ UNCHANGED world
            BY <1>4 DEF BeginPair
      <2>1. PICK p \in IF ShouldCreatePvc THEN GetPVCInformation(v) ELSE {None} :
                 LET next == [pass EXCEPT !.todo = @ \ {v}, !.cur = v, !.pvc = p,
                                          !.phase = "content"]
                 IN IF MustClone(p, pass.ns)
                    THEN \E ok \in NamespaceCreated(world, Cloned(pass.ns)) :
                            IF ok
                            THEN /\ pass' = [next EXCEPT !.ns = Cloned(pass.ns)]
                                 /\ world' = [world EXCEPT !.ns = @ \cup {Cloned(pass.ns)}]
                            ELSE /\ pass' = [next EXCEPT !.ns = Cloned(pass.ns),
                                                         !.phase = AfterError]
                                 /\ UNCHANGED world
                    ELSE pass' = next /\ UNCHANGED world
            BY <2>0
      <2> DEFINE next == [pass EXCEPT !.todo = @ \ {v}, !.cur = v, !.pvc = p,
                                      !.phase = "content"]
      <2>2. pass.phase = "loop" /\ pass.ns \in AllNs
            /\ UNCHANGED <<now, lastAction, history, stamp, done, interrupts>>
            BY <1>4 DEF BeginPair, TypeInv, PassShape, Phases
      <2>3. /\ DOMAIN next = PassFields /\ next.phase = "content"
            /\ next.act = pass.act /\ next.ns = pass.ns
            BY DEF TypeInv, ClaimInv, PassFields
      <2>4. MustClone(p, pass.ns) => Cloned(pass.ns) \in AllNs
            <3>1. p \in NsNames \cup {None}
                  BY <2>0 DEF GetPVCInformation, ClaimInv, TypeInv
            <3> QED
                BY <3>1 DEF MustClone, AllNs
      <2>5. CASE ~MustClone(p, pass.ns)
            BY <2>1, <2>2, <2>3, <2>5
            DEF TypeInv, ClaimInv, TypeOK, PassShape, PassFields, Phases
      <2>6. CASE MustClone(p, pass.ns)
            <3>1. \/ /\ pass' = [next EXCEPT !.ns = Cloned(pass.ns)]
                     /\ world' = [world EXCEPT !.ns = @ \cup {Cloned(pass.ns)}]
                  \/ /\ pass' = [next EXCEPT !.ns = Cloned(pass.ns), !.phase = AfterError]
                     /\ world' = world
                  BY <2>1, <2>6
            <3>2. Cloned(pass.ns) \in AllNs
                  BY <2>4, <2>6
            <3>3. CASE /\ pass' = [next EXCEPT !.ns = Cloned(pass.ns)]
                       /\ world' = [world EXCEPT !.ns = @ \cup {Cloned(pass.ns)}]
                  BY <2>2, <2>3, <3>2, <3>3
                  DEF TypeInv, ClaimInv, TypeOK, PassShape, PassFields, WorldFields, Phases
            <3>4. CASE /\ pass' = [next EXCEPT !.ns = Cloned(pass.ns), !.phase = AfterError]
                       /\ world' = world
                  BY <2>2, <2>3, <3>2, <3>4
                  DEF AfterError, TypeInv, ClaimInv, TypeOK, PassShape, PassFields, Phases
            <3> QED
                BY <3>1, <3>3, <3>4
      <2> QED
          BY <2>5, <2>6
<1>5. CASE LoopDone
      BY <1>5, PhaseStepType DEF LoopDone, Goto, Phases
<1>6. CASE CreateSnapshotContent
      <2> DEFINE c == VolSnapContent(<<pass.act.id, pass.cur>>, pass.cur, pass.ns)
      <2>1. pass.phase = "content" /\ pass.act \in Actions /\ pass.cur \in Vols
            /\ pass.ns \in AllNs /\ now \in 0..MaxTime
            BY <1>6 DEF CreateSnapshotContent, TypeInv, TypeOK, ClaimInv, PairOK,
                        PassShape, Phases
      <2>2. c \in Contents /\ c.name \in Vols \X (0..MaxTime)
            BY <2>1, ActionIds DEF VolSnapContent, Contents, Handles
      <2>3. CASE /\ world' = [world EXCEPT !.contents = @ \cup {c}]
                 /\ pass' = [pass EXCEPT !.phase = "snapshot", !.content = c.name,
                                         !.made = @ \cup {c.name}]
            BY <1>6, <2>1, <2>2, <2>3
            DEF CreateSnapshotContent, TypeInv, ClaimInv, TypeOK, PassShape,
                PassFields, WorldFields, Phases
      <2>4. CASE Fail /\ UNCHANGED world
            BY <1>6, <2>1, <2>4, PhaseStepType
            DEF CreateSnapshotContent, Fail, Goto, AfterError, Phases
      <2> QED
          BY <1>6, <2>3, <2>4 DEF CreateSnapshotContent
<1>7. CASE CreateSnapshotObject
      <2> DEFINE sn == SnapshotObject(<<pass.act.id, pass.cur>>, pass.ns, pass.content)
      <2>1. pass.phase = "snapshot" /\ pass.act \in Actions /\ pass.cur \in Vols
            /\ pass.ns \in AllNs /\ pass.content \in Vols \X (0..MaxTime)
            BY <1>7 DEF CreateSnapshotObject, TypeInv, TypeOK, ClaimInv, PairOK,
                        PassShape, Phases
      <2>2. sn \in Snaps
            BY <2>1, ActionIds DEF SnapshotObject, Snaps, Handles
      <2>3. CASE world' = [world EXCEPT !.snaps = @ \cup {sn}]
                 /\ Goto(IF ShouldCreatePvc /\ pass.pvc # None THEN "pvc" ELSE "loop")
            BY <1>7, <2>1, <2>2, <2>3
            DEF CreateSnapshotObject, Goto, TypeInv, ClaimInv, TypeOK, PassShape,
                PassFields, WorldFields, Phases
      <2>4. CASE Fail /\ UNCHANGED world
            BY <1>7, <2>1, <2>4
            DEF CreateSnapshotObject, Fail, Goto, AfterError, TypeInv, ClaimInv, TypeOK,
                PassShape, PassFields, Phases
      <2> QED
          BY <1>7, <2>3, <2>4 DEF CreateSnapshotObject
<1>8. CASE CreatePVC
      <2> DEFINE q == ClaimFromSnapshot(pass.cur, pass.ns, <<pass.act.id, pass.cur>>)
      <2>1. pass.phase = "pvc" /\ pass.act \in Actions /\ pass.cur \in Vols
            /\ pass.ns \in AllNs
            BY <1>8 DEF CreatePVC, TypeInv, TypeOK, ClaimInv, PairOK, PassShape, Phases
      <2>2. q \in Claims
            BY <2>1, ActionIds DEF ClaimFromSnapshot, Claims, Handles
      <2>3. CASE Goto("loop") /\ UNCHANGED world
            BY <1>8, <2>1, <2>3, PhaseStepType DEF CreatePVC, Goto, Phases
      <2>4. CASE world' = [world EXCEPT !.pvcs = @ \cup {q}] /\ Goto("loop")
            BY <1>8, <2>1, <2>2, <2>4
            DEF CreatePVC, Goto, TypeInv, ClaimInv, TypeOK, PassShape,
                PassFields, WorldFields, Phases
      <2>5. CASE Fail /\ UNCHANGED world
            BY <1>8, <2>1, <2>5, PhaseStepType DEF CreatePVC, Fail, Goto, AfterError, Phases
      <2> QED
          BY <1>8, <2>3, <2>4, <2>5 DEF CreatePVC
<1>9. CASE MarkProcessed
      <2>1. pass.act \in Actions
            BY <1>9 DEF MarkProcessed, TypeInv, TypeOK
      <2> QED
          BY <1>9, <2>1, ActionIds
          DEF MarkProcessed, Idle, TypeInv, TypeOK, PassShape, Phases
<1>10. CASE Crash
      <2>1. pass.act \in Actions
            BY <1>10 DEF Crash, TypeInv, TypeOK
      <2> QED
          BY <1>10, <2>1, ActionIds DEF Crash, Idle, TypeInv, TypeOK, PassShape, Phases
<1>11. CASE Report
      BY <1>11 DEF Report, Ledger!LedgerReport, Actions, TypeInv, TypeOK, PassShape
<1>12. CASE Tick
      BY <1>12 DEF Tick, Ledger!LedgerTick, TypeInv, TypeOK, PassShape
<1>13. CASE UNCHANGED vars
      BY <1>13 DEF vars, TypeInv, TypeOK, PassShape
<1> QED
    BY <1>1, <1>2, <1>3, <1>4, <1>5, <1>6, <1>7, <1>8, <1>9, <1>10, <1>11,
       <1>12, <1>13 DEF Next, ControllerStep

(* Every reachable state of the processor is well typed, for every        *)
(* instance: the objects the materializer creates on the remote cluster,  *)
(* the stamp, and the locals of the pass in flight.                       *)
THEOREM TypeCorrect == Spec => []TypeOK
<1>1. Init => TypeInv
      BY InitTypeInv
<1>2. TypeInv /\ [Next]_vars => TypeInv'
      BY NextTypeInv
<1>3. TypeInv => TypeOK
      BY DEF TypeInv
<1> QED
    BY <1>1, <1>2, <1>3, PTL DEF Spec

-----------------------------------------------------------------------------
(* Dispatch at most once.  Reported actions have distinct ids no larger   *)
(* than the number reported, so a new action was never handled; while     *)
(* nothing has interrupted a stamp, the action in flight is not yet        *)
(* handled, and a handled last action carries the stamp of its time.     *)
OnceInv ==
    /\ DOMAIN pass = PassFields
    /\ history \subseteq Actions
    /\ IsFiniteSet(history)
    /\ \A b \in history : b.id <= Cardinality(history)
    /\ \A a, b \in history : a.id = b.id => a = b
    /\ lastAction # NoAction => lastAction \in history
    /\ pass.phase # "idle" => pass.act \in history
    /\ done \subseteq {b.id : b \in history}
    /\ interrupts \in Nat
    /\ interrupts = 0 =>
          /\ pass.phase # "idle" => pass.act.id \notin done
          /\ lastAction # NoAction /\ lastAction.id \in done =>
                stamp = lastAction.time


LEMMA InitOnceInv == Init => OnceInv
BY FS_EmptySet DEF Init, OnceInv, Idle, PassFields

(* A step of a pass in flight that keeps the action it works on, and the *)
(* reported actions, the stamp and the handled set alone, keeps OnceInv.  *)
LEMMA PassStepOnce ==
    ASSUME OnceInv, pass.phase # "idle",
           pass'.phase # "idle", pass'.act = pass.act,
           DOMAIN pass' = PassFields,
           UNCHANGED <<lastAction, history, stamp, done, interrupts>>
    PROVE  OnceInv'
BY DEF OnceInv

(* The ledger counts with the same Cardinality. *)
LEMMA LedgerCardinality ==
    ASSUME NEW S
    PROVE  Ledger!Cardinality(S) = Cardinality(S)
BY DEF Ledger!Cardinality, Cardinality

(* A newly reported action has an id above every reported one, so it is  *)
(* new, it was never handled, and the ids stay distinct and bounded.      *)
LEMMA ReportOnce ==
    ASSUME OnceInv, Report
    PROVE  OnceInv'
<1> USE APAssumption
<1>1. PICK a \in Actions : /\ a.id = Cardinality(history) + 1
                          /\ a.time = now
                          /\ lastAction' = a
                          /\ history' = history \cup {a}
      BY LedgerCardinality DEF Report, Ledger!LedgerReport, Actions
<1>2. UNCHANGED <<stamp, pass, interrupts, done>>
      BY DEF Report, Ledger!LedgerReport
<1>3. Cardinality(history) \in Nat
      BY FS_CardinalityType DEF OnceInv
<1>0. a.id \in Nat /\ \A b \in history : b.id \in Nat
      BY <1>1 DEF OnceInv, Actions, Ledger!Actions, Ledger!Ids
<1>4. \A b \in history : b.id < a.id
      BY <1>0, <1>1, <1>3 DEF OnceInv
<1>5. a \notin history
      BY <1>0, <1>4
<1>6. IsFiniteSet(history') /\ Cardinality(history') = Cardinality(history) + 1
      BY <1>1, <1>5, FS_AddElement DEF OnceInv
<1>7. history' \subseteq Actions
      BY <1>1 DEF OnceInv
<1>8. \A b \in history' : b.id <= Cardinality(history')
      BY <1>0, <1>1, <1>3, <1>6 DEF OnceInv
<1>9. \A x, y \in history' : x.id = y.id => x = y
      BY <1>0, <1>1, <1>4 DEF OnceInv
<1>10. a.id \notin done
      BY <1>0, <1>4 DEF OnceInv
<1>11. done' \subseteq {b.id : b \in history'}
      BY <1>1, <1>2 DEF OnceInv
<1>12. pass'.phase # "idle" => pass'.act \in history'
      BY <1>1, <1>2 DEF OnceInv
<1>13. interrupts' = 0 =>
          /\ pass'.phase # "idle" => pass'.act.id \notin done'
          /\ lastAction' # NoAction /\ lastAction'.id \in done' =>
                stamp' = lastAction'.time
      BY <1>1, <1>2, <1>10 DEF OnceInv
<1> QED
    BY <1>1, <1>2, <1>6, <1>7, <1>8, <1>9, <1>11, <1>12, <1>13 DEF OnceInv

LEMMA NextOnceInv == OnceInv /\ [Next]_vars => OnceInv'
<1> SUFFICES ASSUME OnceInv, [Next]_vars PROVE OnceInv'
    OBVIOUS
<1>1. CASE ProcessLastActionResult
      <2>1. lastAction \in history /\ pass'.act = lastAction
            BY <1>1 DEF ProcessLastActionResult, OnceInv, Idle
      <2>2. interrupts = 0 => lastAction.id \notin done
            BY <1>1 DEF ProcessLastActionResult, AlreadyProcessed, OnceInv
      <2>3. pass'.phase # "idle" /\ DOMAIN pass' = PassFields
            BY <1>1 DEF ProcessLastActionResult, FirstPhase, Idle, PassFields
      <2> QED
          BY <1>1, <2>1, <2>2, <2>3 DEF ProcessLastActionResult, OnceInv, PassFields
<1>2. CASE EnsureNamespace
      BY <1>2, PassStepOnce DEF EnsureNamespace, Goto, Fail, AfterError, OnceInv, PassFields
<1>3. CASE EnsureSnapshotClass
      BY <1>3, PassStepOnce DEF EnsureSnapshotClass, Goto, Fail, AfterError, OnceInv, PassFields
<1>4. CASE BeginPair
      <2>0. PICK v \in pass.todo :
              \E p \in IF ShouldCreatePvc THEN GetPVCInformation(v) ELSE {None} :
                 LET next == [pass EXCEPT !.todo = @ \ {v}, !.cur = v, !.pvc = p,
                                          !.phase = "content"]
                 IN IF MustClone(p, pass.ns)
                    THEN \E ok \in NamespaceCreated(world, Cloned(pass.ns)) :
                            IF ok
                            THEN /\ pass' = [next EXCEPT !.ns = Cloned(pass.ns)]
                                 /\ world' = [world EXCEPT !.ns = @ \cup {Cloned(pass.ns)}]
                            ELSE /\ pass' = [next EXCEPT !.ns = Cloned(pass.ns),
                                                         !.phase = AfterError]
                                 /\ UNCHANGED world
                    ELSE pass' = next /\ UNCHANGED world
            BY <1>4 DEF BeginPair
      <2>1. PICK p \in IF ShouldCreatePvc THEN GetPVCInformation(v) ELSE {None} :
                 LET next == [pass EXCEPT !.todo = @ \ {v}, !.cur = v, !.pvc = p,
                                          !.phase = "content"]
                 IN IF MustClone(p, pass.ns)
                    THEN \E ok \in NamespaceCreated(world, Cloned(pass.ns)) :
                            IF ok
                            THEN /\ pass' = [next EXCEPT !.ns = Cloned(pass.ns)]
                                 /\ world' = [world EXCEPT !.ns = @ \cup {Cloned(pass.ns)}]
                            ELSE /\ pass' = [next EXCEPT !.ns = Cloned(pass.ns),
                                                         !.phase = AfterError]
                                 /\ UNCHANGED world
                    ELSE pass' = next /\ UNCHANGED world
            BY <2>0
      <2> DEFINE next == [pass EXCEPT !.todo = @ \ {v}, !.cur = v, !.pvc = p,
                                      !.phase = "content"]
      <2>2. \/ pass' = next
            \/ pass' = [next EXCEPT !.ns = Cloned(pass.ns)]
            \/ pass' = [next EXCEPT !.ns = Cloned(pass.ns), !.phase = AfterError]
            BY <2>1
      <2>3. /\ DOMAIN next = PassFields /\ next.act = pass.act
            /\ next.phase = "content"
            BY DEF OnceInv, PassFields
      <2>4. pass'.phase # "idle" /\ pass'.act = pass.act /\ DOMAIN pass' = PassFields
            BY <2>2, <2>3 DEF AfterError, PassFields, next
      <2> QED
          BY <1>4, <2>4, PassStepOnce DEF BeginPair
<1>5. CASE LoopDone
      BY <1>5, PassStepOnce DEF LoopDone, Goto, OnceInv, PassFields
<1>6. CASE CreateSnapshotContent
      BY <1>6, PassStepOnce DEF CreateSnapshotContent, Goto, Fail, AfterError, OnceInv, PassFields
<1>7. CASE CreateSnapshotObject
      BY <1>7, PassStepOnce DEF CreateSnapshotObject, Goto, Fail, AfterError, OnceInv, PassFields
<1>8. CASE CreatePVC
      BY <1>8, PassStepOnce DEF CreatePVC, Goto, Fail, AfterError, OnceInv, PassFields
<1>9. CASE MarkProcessed
      <2>1. /\ pass' = Idle /\ done' = done \cup {pass.act.id}
            /\ UNCHANGED <<lastAction, history>>
            /\ pass.act \in history
            BY <1>9 DEF MarkProcessed, OnceInv
      <2>2. lastAction # NoAction /\ lastAction # pass.act
              => lastAction.id # pass.act.id
            BY <2>1 DEF OnceInv
      <2>3. CASE lastAction = pass.act /\ stamp' = pass.act.time
                 /\ UNCHANGED interrupts
            BY <2>1, <2>3 DEF OnceInv, Idle, PassFields
      <2>4. CASE lastAction # pass.act /\ UNCHANGED <<stamp, interrupts>>
            BY <2>1, <2>2, <2>4 DEF OnceInv, Idle, PassFields
      <2>5. CASE interrupts' = interrupts + 1 /\ UNCHANGED stamp
            BY <2>1, <2>5 DEF OnceInv, Idle, PassFields
      <2> QED
          BY <1>9, <2>3, <2>4, <2>5 DEF MarkProcessed
<1>10. CASE Crash
      BY <1>10 DEF Crash, OnceInv, Idle, PassFields
<1>11. CASE Report
      BY <1>11, ReportOnce
<1>12. CASE Tick
      BY <1>12 DEF Tick, Ledger!LedgerTick, OnceInv, PassFields
<1>13. CASE UNCHANGED vars
      BY <1>13 DEF vars, OnceInv, PassFields
<1> QED
    BY <1>1, <1>2, <1>3, <1>4, <1>5, <1>6, <1>7, <1>8, <1>9, <1>10, <1>11,
       <1>12, <1>13 DEF Next, ControllerStep

(* The guard of line 339 against the stamp of lines 351-352 dispatches no *)
(* action twice while no stamp Update failed and no restart happened,     *)
(* for every instance.                                                     *)
THEOREM DispatchOnce == Spec => NoRedispatch
<1>1. Init => OnceInv
      BY InitOnceInv
<1>2. OnceInv /\ [Next]_vars => OnceInv'
      BY NextOnceInv
<1>3. OnceInv /\ [Next]_vars =>
        [ProcessLastActionResult /\ interrupts = 0 => lastAction.id \notin done]_vars
      BY DEF OnceInv, ProcessLastActionResult, AlreadyProcessed
<1> QED
    BY <1>1, <1>2, <1>3, PTL DEF Spec, NoRedispatch

=============================================================================
