--------------------------- MODULE ActionProcessor ---------------------------
(***************************************************************************)
(* The Action Processor and the Snapshot Materializer of the replication- *)
(* group controller: processLastActionResult (lines 321-355), called at   *)
(* line 311 by every pass over an RG that is already synced, and          *)
(* processSnapshotEvent (357-477) with getPVCInformation (479-503) and    *)
(* the object helpers (505-593).                                           *)
(*                                                                         *)
(* One RG is modelled.  The driver side reports actions on its status     *)
(* (Status.LastAction); the controller dispatches each new one and stamps *)
(* the ActionProcessedTime annotation with the action's time.  A pass is  *)
(* split into one step per remote call, its locals kept in `pass`: the    *)
(* status may be rewritten, the clock may advance and the process may     *)
(* restart while a pass is in flight.                                      *)
(***************************************************************************)
EXTENDS Naturals, FiniteSets, Sequences

CONSTANTS
    Vols,             \* volume handles in ActionAttributes
    Namespaces,       \* namespace names, as single tokens
    PVCOf,            \* PVCOf[v]: namespace of the source PVC of v, or None
    None,             \* no PVC / no value
    NoAction,         \* Status.LastAction with no condition or no time
    Absent,           \* the ActionProcessedTime annotation is missing
    NoPayload,        \* the Action annotation is missing
    Malformed,        \* the Action annotation is not valid JSON
    SnapshotClassAnn, \* the SnapshotClass annotation ("" if unset)
    DefaultClass,     \* the class name built from the driver, 389-390
    InitClasses,      \* snapshot classes the remote cluster may hold
    CreatePVCAnn,     \* the snapshotCreatePVC annotation
    StorageClassAnn,  \* the snapshotStorageClass annotation
    ReplicationSC,    \* that storage class has replication "true"
    RemoteFaults,     \* remote calls may fail transiently
    MaxInterrupts,    \* bound on restarts and failed stamp Updates
    MaxActions, MaxTime, StartTime, InitialStamp

NsNames == {<<n>> : n \in Namespaces}
Payloads == Namespaces \cup {NoPayload, Malformed}

ASSUME APAssumption ==
    /\ PVCOf \in [Vols -> NsNames \cup {None}]
    /\ None \notin NsNames
    /\ RemoteFaults \in BOOLEAN /\ ReplicationSC \in BOOLEAN
    /\ MaxActions \in Nat /\ MaxTime \in Nat /\ MaxInterrupts \in Nat
    /\ StartTime \in 0..MaxTime
    /\ InitialStamp \in {Absent} \cup 0..MaxTime

VARIABLES
    now,          \* wall clock, seconds (metav1.Time and Unix())
    lastAction,   \* Status.LastAction, written by the driver side
    history,      \* history: every reported action
    stamp,        \* the ActionProcessedTime annotation
    world,        \* objects on the remote cluster
    pass,         \* the locals of the pass in flight
    done,         \* history: ids of the actions whose pass has ended
    interrupts    \* restarts and failed stamp Updates so far

vars == <<now, lastAction, history, stamp, world, pass, done, interrupts>>

Ids == 1..MaxActions
Handles == Ids \X Vols

\* "cloned-" + namespace (432)
Cloned(ns) == <<"cloned">> \o ns
AllNs == NsNames \cup {Cloned(ns) : ns \in NsNames}

Contents == [name: Vols \X (0..MaxTime), handle: Handles, ns: AllNs]
Snaps == [name: Handles, ns: AllNs, content: Vols \X (0..MaxTime)]
Claims == [name: Vols, ns: AllNs, source: Handles]
Phases == {"idle", "namespace", "class", "loop", "content", "snapshot",
           "pvc", "stamp"}

Idle == [phase |-> "idle", act |-> NoAction, ns |-> <<>>, todo |-> {},
         cur |-> None, pvc |-> None, content |-> <<>>, made |-> {}]

(* Contents made by the pass in flight are not yet counted: a pass is the *)
(* dispatch of one action, which ends at the stamp or at a restart.       *)
InFlight(c) == c.name \in pass.made
Materialized ==
    [h \in Handles |->
        Cardinality({c \in world.contents : c.handle = h /\ ~InFlight(c)})]

Ledger == INSTANCE ActionLedger WITH handled <- done,
              materialized <- Materialized

Actions == Ledger!Actions

TypeOK ==
    /\ now \in 0..MaxTime
    /\ lastAction \in Actions \cup {NoAction}
    /\ history \subseteq Actions
    /\ stamp \in {Absent} \cup 0..MaxTime
    /\ world \in [ns: SUBSET AllNs, classes: SUBSET (InitClasses \cup {DefaultClass}),
                  contents: SUBSET Contents, snaps: SUBSET Snaps,
                  pvcs: SUBSET Claims]
    /\ pass.phase \in Phases
    /\ pass.phase # "idle" => pass.act \in history /\ pass.ns \in AllNs \cup {<<>>}
    /\ done \subseteq Ids
    /\ interrupts \in 0..MaxInterrupts

-----------------------------------------------------------------------------
(* The object helpers and the remote calls.                                *)

\* the outcomes of a remote call that succeeds when ok holds
Call(ok) == IF ok THEN (IF RemoteFaults THEN {TRUE, FALSE} ELSE {TRUE})
                  ELSE {FALSE}

\* CreateNamespace(ctx, namespace, remoteClient): an existing one fails
NamespaceCreated(w, ns) == Call(ns \notin w.ns)

\* the snapshot class name, defaulted from the driver label (386-390)
SnClass == IF SnapshotClassAnn = "" THEN DefaultClass ELSE SnapshotClassAnn

\* shouldCreatePvc (398-404)
ShouldCreatePvc == CreatePVCAnn = "true" /\ StorageClassAnn # ""

\* getPVCInformation: the PVC bound to v, or nil when List or Get fails
GetPVCInformation(v) == {PVCOf[v]} \cup (IF RemoteFaults THEN {None} ELSE {})

\* mutant: the redirect of line 430 dropped
MustCloneNever(p, ns) == FALSE

\* mutant: every found claim redirected, whatever its namespace
MustCloneAnyClaim(p, ns) == p # None

\* the source PVC lies in the namespace the snapshots go to (430)
MustClone(p, ns) == p # None /\ p = ns

\* makeSnapReference and makeVolSnapContent: the content of handle h of
\* volume v, named "volume-<v>-<Unix seconds>"
VolSnapContent(h, v, ns) == [name |-> <<v, now>>, handle |-> h, ns |-> ns]

\* makeSnapshotObject: "snapshot-<handle>" bound to the content
SnapshotObject(h, ns, cname) == [name |-> h, ns |-> ns, content |-> cname]

\* makePersistentVolumeClaimFromSnapshot: the source PVC's name, restored
\* from the snapshot
ClaimFromSnapshot(v, ns, h) == [name |-> v, ns |-> ns, source |-> h]

\* mutant: an error of processSnapshotEvent ends the pass without the stamp
AfterErrorRetry == "idle"

\* an error of processSnapshotEvent is kept in returnErr; the stamp follows
AfterError == "stamp"

Goto(ph) == pass' = [pass EXCEPT !.phase = ph]
Fail == Goto(AfterError)

-----------------------------------------------------------------------------
(* processLastActionResult, up to the dispatch (324-348), and the first   *)
(* lines of processSnapshotEvent (358-371).                                *)

\* mutant: the comparison of line 339 dropped
AlreadyProcessedNever(s, a) == FALSE

\* the comparison of ActionProcessedTime with LastAction.Time.String() (339)
AlreadyProcessed(s, a) == s = a.time

\* where processSnapshotEvent goes after reading the Action annotation
FirstPhase(a) == IF a.snapshot /\ a.payload \in Namespaces THEN "namespace"
                 ELSE "stamp"

ProcessLastActionResult ==
    /\ pass.phase = "idle"
    /\ lastAction # NoAction
    /\ ~lastAction.err
    /\ stamp # Absent
    /\ ~AlreadyProcessed(stamp, lastAction)
    /\ pass' = [Idle EXCEPT !.phase = FirstPhase(lastAction),
                            !.act = lastAction,
                            !.ns = IF lastAction.payload \in Namespaces
                                   THEN <<lastAction.payload>> ELSE <<>>,
                            !.todo = lastAction.attrs]
    /\ UNCHANGED <<now, lastAction, history, stamp, world, done, interrupts>>

(* GetNamespace, else CreateNamespace (373-381) *)
EnsureNamespace ==
    /\ pass.phase = "namespace"
    /\ \/ /\ pass.ns \in world.ns
          /\ Goto("class") /\ UNCHANGED world
       \/ /\ pass.ns \notin world.ns \/ RemoteFaults
          /\ \E ok \in NamespaceCreated(world, pass.ns) :
                IF ok THEN /\ world' = [world EXCEPT !.ns = @ \cup {pass.ns}]
                           /\ Goto("class")
                      ELSE Fail /\ UNCHANGED world
    /\ UNCHANGED <<now, lastAction, history, stamp, done, interrupts>>

(* the user's class must exist (391-396); a missing class is created with *)
(* makeSnapshotClassRef (406-417)                                          *)
EnsureSnapshotClass ==
    /\ pass.phase = "class"
    /\ \/ /\ SnClass \in world.classes
          /\ Goto("loop") /\ UNCHANGED world
       \/ /\ SnClass \notin world.classes /\ SnapshotClassAnn = ""
          /\ \E ok \in Call(TRUE) :
                IF ok THEN /\ world' = [world EXCEPT !.classes = @ \cup {SnClass}]
                           /\ Goto("loop")
                      ELSE Fail /\ UNCHANGED world
       \/ /\ SnClass \notin world.classes /\ SnapshotClassAnn # ""
          /\ Fail /\ UNCHANGED world
       \/ /\ RemoteFaults
          /\ Fail /\ UNCHANGED world
    /\ UNCHANGED <<now, lastAction, history, stamp, done, interrupts>>

-----------------------------------------------------------------------------
(* The loop over ActionAttributes (419-474), in map order: any order.      *)

(* a pair's PVC lookup and the redirect to "cloned-<namespace>" (419-438) *)
BeginPair ==
    /\ pass.phase = "loop"
    /\ \E v \in pass.todo :
       \E p \in IF ShouldCreatePvc THEN GetPVCInformation(v) ELSE {None} :
          LET next == [pass EXCEPT !.todo = @ \ {v}, !.cur = v, !.pvc = p,
                                   !.phase = "content"]
          IN IF MustClone(p, pass.ns)
             THEN \E ok \in NamespaceCreated(world, Cloned(pass.ns)) :
                     IF ok
                     THEN /\ pass' = [next EXCEPT !.ns = Cloned(pass.ns)]
                          /\ world' = [world EXCEPT !.ns = @ \cup {Cloned(pass.ns)}]
                     ELSE /\ pass' = [next EXCEPT !.ns = Cloned(pass.ns),
                                                  !.phase = AfterError]
                          /\ UNCHANGED world
             ELSE pass' = next /\ UNCHANGED world
    /\ UNCHANGED <<now, lastAction, history, stamp, done, interrupts>>

(* the end of the loop: processSnapshotEvent returns nil (476) *)
LoopDone ==
    /\ pass.phase = "loop"
    /\ pass.todo = {}
    /\ Goto("stamp")
    /\ UNCHANGED <<now, lastAction, history, stamp, world, done, interrupts>>

(* CreateSnapshotContent (440-447) *)
CreateSnapshotContent ==
    /\ pass.phase = "content"
    /\ LET c == VolSnapContent(<<pass.act.id, pass.cur>>, pass.cur, pass.ns)
       IN \E ok \in Call(\A x \in world.contents : x.name # c.name) :
             IF ok THEN /\ world' = [world EXCEPT !.contents = @ \cup {c}]
                        /\ pass' = [pass EXCEPT !.phase = "snapshot",
                                                !.content = c.name,
                                                !.made = @ \cup {c.name}]
                   ELSE Fail /\ UNCHANGED world
    /\ UNCHANGED <<now, lastAction, history, stamp, done, interrupts>>

(* CreateSnapshotObject (449-454) *)
CreateSnapshotObject ==
    /\ pass.phase = "snapshot"
    /\ LET s == SnapshotObject(<<pass.act.id, pass.cur>>, pass.ns, pass.content)
       IN \E ok \in Call(\A x \in world.snaps : x.name # s.name \/ x.ns # s.ns) :
             IF ok THEN /\ world' = [world EXCEPT !.snaps = @ \cup {s}]
                        /\ Goto(IF ShouldCreatePvc /\ pass.pvc # None
                                THEN "pvc" ELSE "loop")
                   ELSE Fail /\ UNCHANGED world
    /\ UNCHANGED <<now, lastAction, history, stamp, done, interrupts>>

(* GetStorageClass: replication enabled skips the claim, unless the Get   *)
(* fails; then CreatePersistentVolumeClaim (456-473)                       *)
CreatePVC ==
    /\ pass.phase = "pvc"
    /\ \/ /\ ReplicationSC
          /\ Goto("loop") /\ UNCHANGED world
       \/ /\ ~ReplicationSC \/ RemoteFaults
          /\ LET q == ClaimFromSnapshot(pass.cur, pass.ns, <<pass.act.id, pass.cur>>)
             IN \E ok \in Call(\A x \in world.pvcs : x.name # q.name \/ x.ns # q.ns) :
                   IF ok THEN /\ world' = [world EXCEPT !.pvcs = @ \cup {q}]
                              /\ Goto("loop")
                         ELSE Fail /\ UNCHANGED world
    /\ UNCHANGED <<now, lastAction, history, stamp, done, interrupts>>

-----------------------------------------------------------------------------
(* The stamp (350-354): ActionProcessedTime := the time of the action the *)
(* pass read, and r.Update with its error ignored.  The Update conflicts  *)
(* when the status was rewritten since the read, and may fail because of  *)
(* another writer of the RG.                                               *)
MarkProcessed ==
    /\ pass.phase = "stamp"
    /\ pass' = Idle
    /\ done' = done \cup {pass.act.id}
    /\ \/ /\ lastAction = pass.act
          /\ stamp' = pass.act.time
          /\ UNCHANGED interrupts
       \/ /\ lastAction # pass.act
          /\ UNCHANGED <<stamp, interrupts>>
       \/ /\ interrupts < MaxInterrupts
          /\ interrupts' = interrupts + 1
          /\ UNCHANGED stamp
    /\ UNCHANGED <<now, lastAction, history, world>>

(* The controller restarts while a pass is in flight. *)
Crash ==
    /\ pass.phase # "idle"
    /\ interrupts < MaxInterrupts
    /\ interrupts' = interrupts + 1
    /\ pass' = Idle
    /\ done' = done \cup {pass.act.id}
    /\ UNCHANGED <<now, lastAction, history, stamp, world>>

-----------------------------------------------------------------------------
(* The driver side reports an action; the clock advances.                  *)

Report ==
    /\ UNCHANGED <<stamp, world, pass, interrupts>>
    /\ Ledger!LedgerReport

Tick ==
    /\ UNCHANGED <<stamp, world, pass, interrupts>>
    /\ Ledger!LedgerTick

Init ==
    /\ now = StartTime
    /\ lastAction = NoAction
    /\ history = {}
    /\ stamp = InitialStamp
    /\ \E cls \in SUBSET InitClasses :
          world = [ns |-> {}, classes |-> cls, contents |-> {},
                   snaps |-> {}, pvcs |-> {}]
    /\ pass = Idle
    /\ done = {}
    /\ interrupts = 0

ControllerStep ==
    \/ ProcessLastActionResult \/ EnsureNamespace \/ EnsureSnapshotClass
    \/ BeginPair \/ LoopDone \/ CreateSnapshotContent
    \/ CreateSnapshotObject \/ CreatePVC \/ MarkProcessed

Next == ControllerStep \/ Crash \/ Report \/ Tick

Spec == Init /\ [][Next]_vars

(* Every change of the RG, the stamp's Update included, queues a pass      *)
(* (SetupWithManager, For(RG)), and a pass runs to its end unless the      *)
(* process restarts.                                                       *)
FairSpec == Spec /\ WF_vars(ControllerStep)

-----------------------------------------------------------------------------
(* Properties.                                                             *)

(* The redirect of lines 430-433 keeps a restored claim out of the        *)
(* namespace of the live source claim it was cloned from, whatever the    *)
(* map order of the pairs and however the loop's namespace has already    *)
(* been rewritten by an earlier pair.                                      *)
NoRestoreOverLiveClaim ==
    \A q \in world.pvcs : q.ns # PVCOf[q.name]

(* The dispatch is at most once per action (spec 4.3 and 8): the         *)
(* controller implements ActionLedger when the contents a pass creates    *)
(* are counted at its stamp.  This is what the guard of line 339 and the  *)
(* stamp of 351-352 are for.                                               *)
LedgerRefinement == Ledger!LedgerSpec

(* The harm a second dispatch would do (spec 8): no volume/snapshot pair   *)
(* of an action ever has two snapshot contents on the remote cluster, as   *)
(* a pass redone after a lost stamp (352) in a later second would make     *)
(* with a new volume-<vol>-<seconds> name (551).                           *)
ContentOncePerPair ==
    \A h \in Handles : Cardinality({c \in world.contents : c.handle = h}) <= 1

(* No action is dispatched a second time while no stamp Update has      *)
(* failed and the controller has not restarted: the guard of line 339    *)
(* against the stamp of lines 351-352 is enough, even when the driver    *)
(* side reports a new action while a pass is in flight and the stamp's   *)
(* Update conflicts.                                                      *)
NoRedispatch ==
    [][ProcessLastActionResult /\ interrupts = 0 => lastAction.id \notin done]_vars

(* Every action that carries no error and is not yet stamped, while it    *)
(* stays the last action, eventually gets ActionProcessedTime = its time: *)
(* failures of processSnapshotEvent do not block the stamp (345-352).     *)
ActionEventuallyStamped ==
    \A i \in Ids :
        (/\ lastAction # NoAction /\ lastAction.id = i /\ ~lastAction.err
         /\ stamp # Absent /\ stamp # lastAction.time)
        ~> (lastAction = NoAction \/ lastAction.id # i
            \/ stamp = lastAction.time)

(* Spec 4.4: every pair of a dispatched, well-formed snapshot action       *)
(* gets its snapshot when no remote call fails transiently, with the      *)
(* cloned namespace created "if absent".                                   *)
SnapshotActionMaterialized ==
    \A a \in history :
        (a.id \in done /\ a.snapshot /\ a.payload \in Namespaces /\ ~a.err)
        => \A v \in a.attrs : \E s \in world.snaps : s.name = <<a.id, v>>

(* ActionProcessedTime equal to the last action's time means that action  *)
(* was processed (the comparison of line 339).                             *)
StampedActionDispatched ==
    (lastAction # NoAction /\ stamp = lastAction.time) => lastAction.id \in done

=============================================================================
