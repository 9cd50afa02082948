---------------------------- MODULE ActionLedger ----------------------------
(***************************************************************************)
(* What the Action Processor of the replication-group controller promises *)
(* (spec 4.3 and 8): the driver side reports actions on the RG's status   *)
(* one after the other; each reported action that carries no error is     *)
(* dispatched at most once, and the snapshot contents it materializes on  *)
(* the remote cluster appear only when it is dispatched, at most one per  *)
(* volume-handle/snapshot-handle pair of the action.  Which actions are   *)
(* dispatched, and which of their pairs succeed, is left open.            *)
(***************************************************************************)
EXTENDS Naturals, FiniteSets

CONSTANTS
    Vols,         \* volume handles of the replicated volumes
    Payloads,     \* the values the action annotation may take
    NoAction,     \* Status.LastAction before any action was reported
    MaxActions,   \* bound on the number of reported actions
    MaxTime,      \* bound on the clock, in seconds
    StartTime     \* the clock when the model starts

VARIABLES
    now,          \* the wall clock, in seconds
    lastAction,   \* Status.LastAction of the RG
    history,      \* every action reported so far
    handled,      \* ids of the actions dispatched so far
    materialized  \* materialized[h]: remote snapshot contents of pair h

ledgerVars == <<now, lastAction, history, handled, materialized>>

Ids == 1..MaxActions
Handles == Ids \X Vols

(* A reported action: its time has the precision of metav1.Time, seconds.*)
Actions == [id: Ids, time: 0..MaxTime, snapshot: BOOLEAN, err: BOOLEAN,
            payload: Payloads, attrs: SUBSET Vols]

\* the snapshot handles of an action's ActionAttributes
HandlesOf(a) == {<<a.id, v>> : v \in a.attrs}

LedgerInit ==
    /\ now = StartTime
    /\ lastAction = NoAction
    /\ history = {}
    /\ handled = {}
    /\ materialized = [h \in Handles |-> 0]

LedgerReport ==
    /\ Cardinality(history) < MaxActions
    /\ \E a \in Actions :
          /\ a.id = Cardinality(history) + 1
          /\ a.time = now
          /\ lastAction' = a
          /\ history' = history \cup {a}
    /\ UNCHANGED <<now, handled, materialized>>

LedgerTick ==
    /\ now < MaxTime
    /\ now' = now + 1
    /\ UNCHANGED <<lastAction, history, handled, materialized>>

(* An action without error is dispatched once; some of its pairs get one  *)
(* content each.                                                           *)
LedgerHandle ==
    \E a \in history, S \in SUBSET Handles :
        /\ a.id \notin handled
        /\ ~a.err
        /\ S \subseteq HandlesOf(a)
        /\ handled' = handled \cup {a.id}
        /\ materialized' =
              [h \in Handles |-> materialized[h] + (IF h \in S THEN 1 ELSE 0)]
        /\ UNCHANGED <<now, lastAction, history>>

LedgerNext == LedgerReport \/ LedgerTick \/ LedgerHandle

LedgerSpec == LedgerInit /\ [][LedgerNext]_ledgerVars

=============================================================================
