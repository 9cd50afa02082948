--------------------- MODULE ActionProcessor_refinement ---------------------
(***************************************************************************)
(* The proof that the Action Processor implements ActionLedger when no    *)
(* restart and no failed stamp Update occurs (MaxInterrupts = 0): every   *)
(* controller step is a ledger stutter except the stamp of lines 350-354, *)
(* which is the ledger's dispatch of the action in flight, with the       *)
(* contents its pass created as the pairs that succeeded.                  *)
(***************************************************************************)
EXTENDS ActionProcessor_proofs, FiniteSetTheorems, TLAPS

\* the volumes whose contents the pass in flight has created
MadeVols == {x.handle[2] : x \in {y \in world.contents : y.name \in pass.made}}

(* The contents of the pass in flight.  CreateSnapshotContent (440-447)   *)
(* creates one per pair, for the handle <<action id, volume>>, and only   *)
(* under a name no content has yet; the loop takes each volume of         *)
(* ActionAttributes once (419), so the contents of one pass have distinct *)
(* handles, all of the action in flight; an idle pass has made none.      *)
MadeInv ==
    /\ IsFiniteSet(world.contents)
    /\ pass.phase = "idle" => pass.made = {}
    /\ pass.phase # "idle" =>
          /\ ~pass.act.err
          /\ pass.todo \subseteq pass.act.attrs
          /\ MadeVols \cap pass.todo = {}
    /\ pass.phase = "content" =>
          pass.cur \in pass.act.attrs /\ pass.cur \notin MadeVols \cup pass.todo
    /\ \A x \in world.contents : x.name \in pass.made =>
          x.handle \in {<<pass.act.id, v>> : v \in pass.act.attrs}
    /\ \A x, y \in world.contents :
          x.name \in pass.made /\ y.name \in pass.made /\ x.handle = y.handle
          => x = y

RInv == TypeInv /\ OnceInv /\ MadeInv


(* The initial state is the ledger's: nothing dispatched, nothing counted. *)
LEMMA InitLedger == Init => Ledger!LedgerInit
<1> SUFFICES ASSUME Init PROVE Ledger!LedgerInit
    OBVIOUS
<1>1. world.contents = {}
      BY DEF Init
<1>2. Materialized = [h \in Ledger!Handles |-> 0]
      BY <1>1, FS_EmptySet DEF Materialized, Handles, Ids, Ledger!Handles, Ledger!Ids
<1> QED
    BY <1>2 DEF Init, Ledger!LedgerInit

(* A step that keeps the contents, the contents in flight, the clock,     *)
(* the reported actions and the handled set is a stutter of the ledger.   *)
LEMMA LocalStepLedger ==
    ASSUME world'.contents = world.contents, pass'.made = pass.made,
           UNCHANGED <<now, lastAction, history, done>>
    PROVE  UNCHANGED Ledger!ledgerVars
BY DEF Ledger!ledgerVars, Materialized, InFlight

(* The frame of BeginPair (419-438): the pair's volume leaves `todo` and  *)
(* becomes `cur`; the contents and the contents in flight stay.           *)
LEMMA BeginPairFrame ==
    ASSUME ClaimInv, BeginPair
    PROVE  /\ world'.contents = world.contents
           /\ pass.phase = "loop"
           /\ pass'.made = pass.made /\ pass'.act = pass.act
           /\ pass'.phase \in {"content", "stamp"}
           /\ \E v \in pass.todo : pass'.todo = pass.todo \ {v} /\ pass'.cur = v
<1>0. DOMAIN world = WorldFields /\ DOMAIN pass = PassFields
      BY DEF ClaimInv
<1>1. PICK v \in pass.todo :
        \E p \in IF ShouldCreatePvc THEN GetPVCInformation(v) ELSE {None} :
           LET next == [pass EXCEPT !.todo = @ \ {v}, !.cur = v, !.pvc = p,
                                    !.phase = "content"]
           IN \/ pass' = next
              \/ \E ns : pass' = [next EXCEPT !.ns = ns]
              \/ \E ns : pass' = [next EXCEPT !.ns = ns, !.phase = AfterError]
      BY DEF BeginPair
<1>2. PICK p \in IF ShouldCreatePvc THEN GetPVCInformation(v) ELSE {None} :
           LET next == [pass EXCEPT !.todo = @ \ {v}, !.cur = v, !.pvc = p,
                                    !.phase = "content"]
           IN \/ pass' = next
              \/ \E ns : pass' = [next EXCEPT !.ns = ns]
              \/ \E ns : pass' = [next EXCEPT !.ns = ns, !.phase = AfterError]
      BY <1>1
<1>3. world'.contents = world.contents /\ pass.phase = "loop"
      BY <1>0 DEF BeginPair, WorldFields
<1>4. /\ pass'.made = pass.made /\ pass'.act = pass.act
      /\ pass'.todo = pass.todo \ {v} /\ pass'.cur = v
      /\ pass'.phase \in {"content", "stamp"}
      BY <1>0, <1>2 DEF PassFields, AfterError
<1> QED
    BY <1>3, <1>4

LEMMA InitMadeInv == Init => MadeInv
BY FS_EmptySet DEF Init, MadeInv, MadeVols, Idle

(* A step that changes only the phase of a pass in flight, to a phase     *)
(* other than the content phase, and leaves the contents alone.           *)
LEMMA PhaseStepMade ==
    ASSUME MadeInv, ClaimInv, pass.phase # "idle",
           NEW ph \in Phases \ {"idle", "content"},
           pass' = [pass EXCEPT !.phase = ph],
           world'.contents = world.contents
    PROVE  MadeInv'
BY DEF MadeInv, MadeVols, ClaimInv, PassFields

(* A step that ends the pass leaves no contents in flight. *)
LEMMA IdleStepMade ==
    ASSUME MadeInv, pass' = Idle, world'.contents = world.contents
    PROVE  MadeInv'
BY DEF MadeInv, MadeVols, Idle

LEMMA NextMadeInv == TypeInv /\ MadeInv /\ [Next]_vars => MadeInv'
<1> SUFFICES ASSUME TypeInv, MadeInv, [Next]_vars PROVE MadeInv'
    OBVIOUS
<1>0. ClaimInv /\ TypeOK /\ DOMAIN world = WorldFields /\ DOMAIN pass = PassFields
      BY DEF TypeInv, ClaimInv
<1>1. CASE ProcessLastActionResult
      BY <1>1 DEF ProcessLastActionResult, FirstPhase, Idle, MadeInv, MadeVols
<1>2. CASE EnsureNamespace
      <2>1. world'.contents = world.contents /\ pass.phase = "namespace"
            BY <1>0, <1>2 DEF EnsureNamespace, WorldFields
      <2>2. \E ph \in {"class", "stamp"} : pass' = [pass EXCEPT !.phase = ph]
            BY <1>2 DEF EnsureNamespace, Goto, Fail, AfterError
      <2> QED
          BY <1>0, <2>1, <2>2, PhaseStepMade DEF Phases
<1>3. CASE EnsureSnapshotClass
      <2>1. world'.contents = world.contents /\ pass.phase = "class"
            BY <1>0, <1>3 DEF EnsureSnapshotClass, WorldFields
      <2>2. \E ph \in {"loop", "stamp"} : pass' = [pass EXCEPT !.phase = ph]
            BY <1>3 DEF EnsureSnapshotClass, Goto, Fail, AfterError
      <2> QED
          BY <1>0, <2>1, <2>2, PhaseStepMade DEF Phases
<1>4. CASE BeginPair
      BY <1>0, <1>4, BeginPairFrame DEF MadeInv, MadeVols
<1>5. CASE LoopDone
      BY <1>0, <1>5, PhaseStepMade DEF LoopDone, Goto, Phases
<1>6. CASE CreateSnapshotContent
      <2> DEFINE c == VolSnapContent(<<pass.act.id, pass.cur>>, pass.cur, pass.ns)
      <2>1. CASE /\ \A x \in world.contents : x.name # c.name
                 /\ world' = [world EXCEPT !.contents = @ \cup {c}]
                 /\ pass' = [pass EXCEPT !.phase = "snapshot", !.content = c.name,
                                         !.made = @ \cup {c.name}]
            <3>1. pass.phase = "content"
                  BY <1>6 DEF CreateSnapshotContent
            <3>2. /\ world'.contents = world.contents \cup {c}
                  /\ pass'.made = pass.made \cup {c.name}
                  /\ pass'.phase = "snapshot" /\ pass'.act = pass.act
                  /\ pass'.todo = pass.todo
                  BY <1>0, <2>1 DEF WorldFields, PassFields
            <3>3. c.handle = <<pass.act.id, pass.cur>> /\ c.handle[2] = pass.cur
                  BY DEF VolSnapContent
            <3>4. \A x \in world.contents :
                     (x.name \in pass'.made) = (x.name \in pass.made)
                  BY <2>1, <3>2
            <3>5. MadeVols' = MadeVols \cup {pass.cur}
                  BY <3>2, <3>3, <3>4 DEF MadeVols
            <3>6. IsFiniteSet(world'.contents)
                  BY <3>2, FS_AddElement DEF MadeInv
            <3>7. \A x \in world'.contents : x.name \in pass'.made =>
                     x.handle \in {<<pass'.act.id, w>> : w \in pass'.act.attrs}
                  BY <3>1, <3>2, <3>3, <3>4 DEF MadeInv
            <3>8. \A x, y \in world'.contents :
                     x.name \in pass'.made /\ y.name \in pass'.made
                     /\ x.handle = y.handle => x = y
                  <4> SUFFICES ASSUME NEW x \in world'.contents, NEW y \in world'.contents,
                                      x.name \in pass'.made, y.name \in pass'.made,
                                      x.handle = y.handle
                               PROVE  x = y
                      OBVIOUS
                  <4>1. \A z \in world.contents : z.name \in pass.made =>
                           z.handle[2] # pass.cur
                        BY <3>1 DEF MadeInv, MadeVols
                  <4>2. CASE x \in world.contents /\ y \in world.contents
                        BY <4>2, <3>4 DEF MadeInv
                  <4>3. CASE x = c /\ y \in world.contents
                        BY <4>3, <4>1, <3>3, <3>4
                  <4>4. CASE y = c /\ x \in world.contents
                        BY <4>4, <4>1, <3>3, <3>4
                  <4> QED
                      BY <3>2, <4>2, <4>3, <4>4
            <3> QED
                BY <3>1, <3>2, <3>5, <3>6, <3>7, <3>8 DEF MadeInv
      <2>2. CASE Fail /\ UNCHANGED world
            <3>1. pass.phase # "idle" /\ pass' = [pass EXCEPT !.phase = "stamp"]
                  BY <1>6, <2>2 DEF CreateSnapshotContent, Fail, Goto, AfterError
            <3>2. "stamp" \in Phases \ {"idle", "content"}
                  BY DEF Phases
            <3> QED
                BY <1>0, <2>2, <3>1, <3>2, PhaseStepMade
      <2> QED
          BY <1>6, <2>1, <2>2 DEF CreateSnapshotContent, Call
<1>7. CASE CreateSnapshotObject
      <2>1. world'.contents = world.contents /\ pass.phase = "snapshot"
            BY <1>0, <1>7 DEF CreateSnapshotObject, WorldFields
      <2>2. \E ph \in {"pvc", "loop", "stamp"} : pass' = [pass EXCEPT !.phase = ph]
            BY <1>7 DEF CreateSnapshotObject, Goto, Fail, AfterError
      <2> QED
          BY <1>0, <2>1, <2>2, PhaseStepMade DEF Phases
<1>8. CASE CreatePVC
      <2>1. world'.contents = world.contents /\ pass.phase = "pvc"
            BY <1>0, <1>8 DEF CreatePVC, WorldFields
      <2>2. \E ph \in {"loop", "stamp"} : pass' = [pass EXCEPT !.phase = ph]
            BY <1>8 DEF CreatePVC, Goto, Fail, AfterError
      <2> QED
          BY <1>0, <2>1, <2>2, PhaseStepMade DEF Phases
<1>9. CASE MarkProcessed
      BY <1>9, IdleStepMade DEF MarkProcessed
<1>10. CASE Crash
      BY <1>10, IdleStepMade DEF Crash
<1>11. CASE Report \/ Tick \/ UNCHANGED vars
      BY <1>11 DEF Report, Tick, vars, MadeInv, MadeVols
<1> QED
    BY <1>1, <1>2, <1>3, <1>4, <1>5, <1>6, <1>7, <1>8, <1>9, <1>10, <1>11
    DEF Next, ControllerStep

-----------------------------------------------------------------------------
(* The ledger's view of each step.                                         *)

LEMMA InitRInv == Init => RInv
BY InitTypeInv, InitOnceInv, InitMadeInv DEF RInv

LEMMA NextRInv == RInv /\ [Next]_vars => RInv'
BY NextTypeInv, NextOnceInv, NextMadeInv DEF RInv

(* The contents of one pass have distinct handles: counting the contents  *)
(* in flight as well adds one to each handle the pass created, and        *)
(* nothing to the others.                                                  *)
LEMMA CountAtStamp ==
    ASSUME MadeInv, NEW h
    PROVE  Cardinality({c \in world.contents : c.handle = h})
             = Cardinality({c \in world.contents : c.handle = h /\ ~(c.name \in pass.made)})
               + (IF h \in {x.handle : x \in {y \in world.contents : y.name \in pass.made}}
                  THEN 1 ELSE 0)
<1> DEFINE A == {c \in world.contents : c.handle = h}
           B == {c \in world.contents : c.handle = h /\ ~(c.name \in pass.made)}
           M == {y \in world.contents : y.name \in pass.made}
<1>1. IsFiniteSet(B) /\ Cardinality(B) \in Nat
      BY FS_Subset, FS_CardinalityType DEF MadeInv
<1>2. CASE h \in {x.handle : x \in M}
      <2>1. PICK x0 \in M : x0.handle = h
            BY <1>2
      <2>2. A = B \cup {x0}
            BY <2>1 DEF MadeInv
      <2>3. x0 \notin B
            BY <2>1
      <2>4. Cardinality(A) = Cardinality(B) + 1
            BY <1>1, <2>2, <2>3, FS_AddElement
      <2> QED
          BY <1>2, <2>4
<1>3. CASE h \notin {x.handle : x \in M}
      <2>1. A = B
            BY <1>3
      <2> QED
          BY <1>1, <1>3, <2>1
<1> QED
    BY <1>2, <1>3

(* The stamp (350-354), with no restart and no failed Update, is the      *)
(* ledger's dispatch of the action in flight: it was reported, carries no *)
(* error and was not handled, and its pass created one content for each   *)
(* pair in S.                                                              *)
LEMMA StampStep ==
    ASSUME MaxInterrupts = 0, RInv, MarkProcessed
    PROVE  Ledger!LedgerHandle
<1> DEFINE M == {y \in world.contents : y.name \in pass.made}
           S == {x.handle : x \in M}
<1>1. interrupts = 0 /\ pass.phase = "stamp"
      BY DEF RInv, TypeInv, TypeOK, MarkProcessed
<1>2. /\ pass.act \in history
      /\ pass.act.id \notin done
      /\ ~pass.act.err
      BY <1>1 DEF RInv, TypeInv, TypeOK, OnceInv, MadeInv
<1>3. S \in SUBSET Ledger!Handles /\ S \subseteq Ledger!HandlesOf(pass.act)
      <2>1. \A x \in M : x.handle \in {<<pass.act.id, v>> : v \in pass.act.attrs}
            BY DEF RInv, MadeInv
      <2>2. pass.act \in Actions
            BY <1>2 DEF RInv, TypeInv, TypeOK
      <2>3. \A v \in pass.act.attrs : <<pass.act.id, v>> \in Ledger!Handles
            BY <2>2, ActionIds DEF Ids, Ledger!Handles, Ledger!Ids
      <2> QED
          BY <2>1, <2>3 DEF Ledger!HandlesOf
<1>4. /\ UNCHANGED <<now, lastAction, history, world>>
      /\ done' = done \cup {pass.act.id}
      /\ pass' = Idle
      BY DEF MarkProcessed
<1>5. Materialized' = [h \in Ledger!Handles |->
                         Materialized[h] + (IF h \in S THEN 1 ELSE 0)]
      <2>1. Materialized' = [h \in Handles |->
                               Cardinality({c \in world.contents : c.handle = h})]
            BY <1>4 DEF Materialized, InFlight, Idle
      <2>2. \A h \in Handles :
               Cardinality({c \in world.contents : c.handle = h})
               = Materialized[h] + (IF h \in S THEN 1 ELSE 0)
            BY CountAtStamp DEF RInv, Materialized, InFlight
      <2> QED
          BY <2>1, <2>2 DEF Handles, Ids, Ledger!Handles, Ledger!Ids
<1> QED
    BY <1>2, <1>3, <1>4, <1>5 DEF Ledger!LedgerHandle

(* Every step of the processor is a step or a stutter of the ledger.      *)
LEMMA RefinementStep ==
    ASSUME MaxInterrupts = 0, RInv, [Next]_vars
    PROVE  [Ledger!LedgerNext]_Ledger!ledgerVars
<1>0. /\ TypeOK /\ ClaimInv /\ MadeInv /\ interrupts = 0
      /\ DOMAIN world = WorldFields /\ DOMAIN pass = PassFields
      BY DEF RInv, TypeInv, TypeOK, ClaimInv
<1> SUFFICES ASSUME ~UNCHANGED Ledger!ledgerVars
             PROVE  Ledger!LedgerNext
    OBVIOUS
(* a step that changes only the pass's phase and leaves the contents *)
<1>1. ASSUME \E ph : pass' = [pass EXCEPT !.phase = ph],
             world'.contents = world.contents,
             UNCHANGED <<now, lastAction, history, done>>
      PROVE  FALSE
      <2>1. pass'.made = pass.made
            BY <1>0, <1>1 DEF PassFields
      <2> QED
          BY <1>1, <2>1, LocalStepLedger
<1>2. CASE ProcessLastActionResult
      <2>1. pass'.made = pass.made /\ world'.contents = world.contents
            BY <1>0, <1>2 DEF ProcessLastActionResult, MadeInv, Idle
      <2> QED
          BY <1>2, <2>1, LocalStepLedger DEF ProcessLastActionResult
<1>3. CASE EnsureNamespace
      BY <1>0, <1>1, <1>3 DEF EnsureNamespace, Goto, Fail, WorldFields
<1>4. CASE EnsureSnapshotClass
      BY <1>0, <1>1, <1>4 DEF EnsureSnapshotClass, Goto, Fail, WorldFields
<1>5. CASE BeginPair
      BY <1>0, <1>5, BeginPairFrame, LocalStepLedger DEF BeginPair
<1>6. CASE LoopDone
      BY <1>1, <1>6 DEF LoopDone, Goto
<1>7. CASE CreateSnapshotContent
      <2> DEFINE c == VolSnapContent(<<pass.act.id, pass.cur>>, pass.cur, pass.ns)
      <2>1. CASE /\ \A x \in world.contents : x.name # c.name
                 /\ world' = [world EXCEPT !.contents = @ \cup {c}]
                 /\ pass' = [pass EXCEPT !.phase = "snapshot", !.content = c.name,
                                         !.made = @ \cup {c.name}]
            <3>1. /\ world'.contents = world.contents \cup {c}
                  /\ pass'.made = pass.made \cup {c.name}
                  BY <1>0, <2>1 DEF WorldFields, PassFields
            <3>2. \A h : {x \in world'.contents : x.handle = h /\ ~(x.name \in pass'.made)}
                         = {x \in world.contents : x.handle = h /\ ~(x.name \in pass.made)}
                  BY <2>1, <3>1
            <3>3. Materialized' = Materialized
                  BY <3>2 DEF Materialized, InFlight
            <3> QED
                BY <1>7, <3>3 DEF CreateSnapshotContent, Ledger!ledgerVars
      <2>2. CASE Fail /\ UNCHANGED world
            BY <1>1, <1>7, <2>2 DEF CreateSnapshotContent, Fail, Goto
      <2> QED
          BY <1>7, <2>1, <2>2 DEF CreateSnapshotContent, Call
<1>8. CASE MarkProcessed
      BY <1>8, StampStep DEF Ledger!LedgerNext
<1>9. CASE Crash
      BY <1>0, <1>9 DEF Crash
<1>10. CASE CreateSnapshotObject
      BY <1>0, <1>1, <1>10 DEF CreateSnapshotObject, Goto, Fail, WorldFields
<1>11. CASE CreatePVC
      BY <1>0, <1>1, <1>11 DEF CreatePVC, Goto, Fail, WorldFields
<1>12. CASE Report \/ Tick
      BY <1>12 DEF Report, Tick, Ledger!LedgerNext
<1>13. CASE UNCHANGED vars
      BY <1>13 DEF vars, Ledger!ledgerVars, Materialized, InFlight
<1> QED
    BY <1>2, <1>3, <1>4, <1>5, <1>6, <1>7, <1>8, <1>9, <1>10, <1>11, <1>12,
       <1>13 DEF Next, ControllerStep

(* With no restart and no failed stamp Update, the controller implements  *)
(* ActionLedger for every instance: each reported action without error is *)
(* dispatched at most once (the guard of line 339 against the stamp of    *)
(* lines 351-352), and the remote snapshot contents of a pair appear only *)
(* at the stamp of its action, at most one per pair.                       *)
THEOREM ImplementsLedger == MaxInterrupts = 0 => (Spec => LedgerRefinement)
<1> SUFFICES ASSUME MaxInterrupts = 0 PROVE Spec => LedgerRefinement
    OBVIOUS
<1>1. Init => RInv /\ Ledger!LedgerInit
      BY InitRInv, InitLedger
<1>2. RInv /\ [Next]_vars => RInv'
      BY NextRInv
<1>3. RInv /\ [Next]_vars => [Ledger!LedgerNext]_Ledger!ledgerVars
      BY RefinementStep
<1> QED
    BY <1>1, <1>2, <1>3, PTL DEF Spec, LedgerRefinement, Ledger!LedgerSpec

=============================================================================
