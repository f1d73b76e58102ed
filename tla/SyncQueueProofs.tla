-------------------------- MODULE SyncQueueProofs --------------------------
(***************************************************************************)
(* Proofs about SyncQueue, for any set of askers and any number of pushes: *)
(* its invariants, and that queue and loop implement RunQueue.             *)
(***************************************************************************)
EXTENDS SyncQueue, TLAPS

\* What the properties need besides themselves: only askers get into the
\* queue, and the one request without reasons is the nil one.
QueueInv ==
    /\ TypeOK
    /\ pending.reasons \subseteq Asks
    /\ pending.reasons = {} => pending = NoRequest
    /\ NoLostWakeup
    /\ RefreshesAsAsked
    /\ NoRunForNothing

\* What a merged request is made of.
LEMMA MergedIsBoth ==
    ASSUME NEW r \in Requests, NEW o \in Requests
    PROVE  /\ Merged(r, o) \in Requests
           /\ Merged(r, o).refresh <=> r.refresh \/ o.refresh
           /\ Merged(r, o).reasons = r.reasons \cup o.reasons
BY DEF Merged, Requests

\* The requests the code builds, and whether they refresh.
LEMMA NilRequest ==
    /\ NoRequest \in Requests
    /\ ~NoRequest.refresh
    /\ NoRequest.reasons = {}
BY DEF NoRequest, Requests

LEMMA OwnRequests ==
    ASSUME NEW reason \in {Startup, Scheduled}
    PROVE  /\ ByItself(reason) \in Requests
           /\ ByItself(reason).refresh
           /\ ByItself(reason).reasons = {reason}
           /\ reason \in Refreshing
BY DEF ByItself, Requests, Refreshing

LEMMA AskedRequests ==
    ASSUME NEW a \in Asks
    PROVE  /\ AskFor(a) \in Requests
           /\ AskFor(a).refresh <=> a \in Refreshing
           /\ AskFor(a).reasons = {a}
<1>1. Refreshes[a] \in BOOLEAN /\ a # Startup /\ a # Scheduled
  BY AsksAssumption DEF Startup, Scheduled
<1>2. a \in Refreshing <=> Refreshes[a]
  BY <1>1 DEF Refreshing
<1> QED
  BY <1>1, <1>2 DEF AskFor, Requests

\* Initially a startup run goes on and nothing waits.
LEMMA InitQueueInv == Init => QueueInv
<1> SUFFICES ASSUME Init PROVE QueueInv
  OBVIOUS
<1>1. TypeOK
  BY NilRequest, OwnRequests DEF Init, TypeOK
<1>2. RefreshesAsAsked
  BY NilRequest, OwnRequests DEF Init, RefreshesAsAsked
<1>3. NoRunForNothing
  BY OwnRequests DEF Init, NoRunForNothing
<1> QED
  BY <1>1, <1>2, <1>3, NilRequest DEF Init, QueueInv, NoLostWakeup

\* Every step keeps the invariant.
LEMMA StepQueueInv == QueueInv /\ [Next]_vars => QueueInv'
<1> SUFFICES ASSUME QueueInv, [Next]_vars PROVE QueueInv'
  OBVIOUS
<1> USE DEF QueueInv
<1>1. CASE PushMerge
  <2>1. PICK a \in Asks \ sending :
            pending' = Merged(pending, AskFor(a)) /\ sending' = sending \cup {a}
    BY <1>1 DEF PushMerge
  <2>2. /\ AskFor(a) \in Requests
        /\ AskFor(a).refresh <=> a \in Refreshing
        /\ AskFor(a).reasons = {a}
    BY AskedRequests
  <2>3. /\ pending' \in Requests
        /\ pending'.refresh <=> (pending.refresh \/ a \in Refreshing)
        /\ pending'.reasons = pending.reasons \cup {a}
    BY <2>1, <2>2, MergedIsBoth DEF TypeOK
  <2>4. TypeOK'
    BY <1>1, <2>1, <2>3 DEF PushMerge, TypeOK
  <2>5. NoLostWakeup'
    BY <2>1 DEF NoLostWakeup
  <2>6. RefreshesAsAsked'
    BY <1>1, <2>3 DEF PushMerge, RefreshesAsAsked, Refreshing
  <2> QED
    BY <1>1, <2>3, <2>4, <2>5, <2>6 DEF PushMerge, NoRunForNothing
<1>2. CASE PushWake
  BY <1>2 DEF PushWake, Offered, TypeOK, NoLostWakeup, RefreshesAsAsked, NoRunForNothing
<1>3. CASE RunEnds
  BY <1>3 DEF RunEnds, TypeOK, NoLostWakeup, RefreshesAsAsked, NoRunForNothing
<1>4. CASE ReceiveToken
  BY <1>4 DEF ReceiveToken, TypeOK, NoLostWakeup, RefreshesAsAsked, NoRunForNothing
<1>5. CASE TimerFires
  BY <1>5 DEF TimerFires, TypeOK, NoLostWakeup, RefreshesAsAsked, NoRunForNothing
<1>6. CASE TakeWoken
  <2>1. CASE FindsRequest
    <3>1. run' = pending /\ pending' = NoRequest /\ loop' = "running"
          /\ UNCHANGED <<tokens, sending, pushes, crashes>>
      BY <1>6, <2>1 DEF TakeWoken
    <3>2. pending.reasons # {}
      BY <2>1 DEF FindsRequest
    <3>3. NoRequest \in Requests /\ ~NoRequest.refresh /\ NoRequest.reasons = {}
      BY DEF NoRequest, Requests
    <3>4. TypeOK'
      BY <3>1, <3>3 DEF TypeOK
    <3>5. RefreshesAsAsked'
      BY <3>1, <3>3 DEF RefreshesAsAsked
    <3> QED
      BY <3>1, <3>2, <3>3, <3>4, <3>5 DEF NoLostWakeup, NoRunForNothing
  <2>2. CASE ~FindsRequest
    BY <1>6, <2>2
       DEF TakeWoken, FindsRequest, TypeOK, NoLostWakeup, RefreshesAsAsked,
           NoRunForNothing
  <2> QED
    BY <2>1, <2>2
<1>7. CASE TakeDue
  <2>1. /\ run' \in Requests
        /\ run'.refresh
        /\ run'.reasons = {Scheduled} \cup pending.reasons
    BY <1>7, OwnRequests, MergedIsBoth DEF TakeDue, DueRequest, TypeOK
  <2>2. pending' = NoRequest /\ loop' = "running"
        /\ UNCHANGED <<tokens, sending, pushes, crashes>>
    BY <1>7 DEF TakeDue
  <2>3. TypeOK'
    BY <2>1, <2>2, NilRequest DEF TypeOK
  <2>4. RefreshesAsAsked'
    BY <2>1, <2>2, NilRequest, OwnRequests DEF RefreshesAsAsked, Refreshing
  <2> QED
    BY <2>1, <2>2, <2>3, <2>4, NilRequest DEF NoLostWakeup, NoRunForNothing
<1>8. CASE Crash
  <2>1. TypeOK'
    BY <1>8, NilRequest, OwnRequests DEF Crash, TypeOK
  <2>2. RefreshesAsAsked'
    BY <1>8, NilRequest, OwnRequests DEF Crash, RefreshesAsAsked, Refreshing
  <2>3. NoRunForNothing'
    BY <1>8, OwnRequests DEF Crash, NoRunForNothing
  <2> QED
    BY <1>8, <2>1, <2>2, <2>3, NilRequest DEF Crash, NoLostWakeup
<1>9. CASE UNCHANGED vars
  BY <1>9 DEF vars, TypeOK, NoLostWakeup, RefreshesAsAsked, NoRunForNothing
<1> QED
  BY <1>1, <1>2, <1>3, <1>4, <1>5, <1>6, <1>7, <1>8, <1>9 DEF Next

\* The invariant holds throughout.
THEOREM QueueInvHolds == Spec => []QueueInv
BY InitQueueInv, StepQueueInv, PTL DEF Spec

\* Type correctness of queue and loop.
THEOREM TypeCorrect == Spec => []TypeOK
BY QueueInvHolds, PTL DEF QueueInv

\* No wake-up is lost between Push, the channel and Take.
THEOREM WakeupsAreNotLost == Spec => []NoLostWakeup
BY QueueInvHolds, PTL DEF QueueInv

\* A merged request refreshes exactly if one of its parts does.
THEOREM MergesKeepRefreshes == Spec => []RefreshesAsAsked
BY QueueInvHolds, PTL DEF QueueInv

\* The loop never runs for a left-over token.
THEOREM RunsHaveReasons == Spec => []NoRunForNothing
BY QueueInvHolds, PTL DEF QueueInv

---------------------------------------------------------------------------

\* Every step of queue and loop is a step of RunQueue or leaves it alone.
LEMMA StepQueue == QueueInv /\ [Next]_vars => [Queue!Next]_Queue!vars
<1> SUFFICES ASSUME QueueInv, [Next]_vars
             PROVE  Queue!Next \/ UNCHANGED Queue!vars
  OBVIOUS
<1> DEFINE doing == IF loop = "running" THEN run.reasons ELSE {}
<1> USE DEF QueueInv
<1>1. CASE PushMerge
  <2>1. PICK a \in Asks \ sending : pending' = Merged(pending, AskFor(a))
    BY <1>1 DEF PushMerge
  <2>2. pending'.reasons = pending.reasons \cup {a}
    BY <2>1 DEF Merged, AskFor
  <2> QED
    BY <1>1, <2>2 DEF PushMerge, Queue!Next, Queue!Ask
<1>2. CASE PushWake
  BY <1>2 DEF PushWake, Queue!vars
<1>3. CASE RunEnds
  BY <1>3 DEF RunEnds, NoRunForNothing, Queue!Next, Queue!Finish
<1>4. CASE ReceiveToken
  BY <1>4 DEF ReceiveToken, Queue!vars
<1>5. CASE TimerFires
  BY <1>5 DEF TimerFires, Queue!vars
<1>6. CASE TakeWoken
  <2>1. CASE FindsRequest
    BY <1>6, <2>1 DEF TakeWoken, FindsRequest, NoRequest, Queue!Next, Queue!Start
  <2>2. CASE ~FindsRequest
    BY <1>6, <2>2 DEF TakeWoken, Queue!vars
  <2> QED
    BY <2>1, <2>2
<1>7. CASE TakeDue
  <2>1. run'.reasons = {Scheduled} \cup pending.reasons
    BY <1>7 DEF TakeDue, DueRequest, Merged, ByItself
  <2> QED
    BY <1>7, <2>1
       DEF TakeDue, NoRequest, Scheduled, Queue!Next, Queue!StartScheduled, Queue!Scheduled
<1>8. CASE Crash
  BY <1>8
     DEF Crash, NoRequest, ByItself, Startup, Queue!Next, Queue!Restart, Queue!Startup
<1>9. CASE UNCHANGED vars
  BY <1>9 DEF vars, Queue!vars
<1> QED
  BY <1>1, <1>2, <1>3, <1>4, <1>5, <1>6, <1>7, <1>8, <1>9 DEF Next

\* Every behaviour of queue and loop is one of RunQueue, its fairness apart.
THEOREM QueueImplementsRunQueue == Spec => Queue!SafeSpec
<1>1. Init => Queue!Init
  BY DEF Init, NoRequest, ByItself, Startup, Queue!Init, Queue!Startup
<1> QED
  BY <1>1, StepQueue, QueueInvHolds, PTL DEF Spec, Queue!SafeSpec
=============================================================================
