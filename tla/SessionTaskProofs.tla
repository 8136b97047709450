--------------------------- MODULE SessionTaskProofs ---------------------------
(* Proofs about SessionTask, for any threads: its types, that no wake-up is lost   *)
(* and that no shutdown is overlooked.                                           *)
EXTENDS SessionTask, TLAPS

(* ShutdownSeen speaks of the states in which the task waits.  It is inductive    *)
(* over the stretches between two reads of the shutdown mode: a task that sends  *)
(* its request or processes operations has not read it since it last waited.     *)
Unread == {"connect", "connect_sleep", "request", "await", "request_sleep",
           "process", "recv"}

ShutdownInv ==
  ShouldBreak /\ pc \in Unread =>
    token \/ \E t \in Leavers : thread[t] \in {"tx", "push", "commit"}

ThreadStates == {"idle", "pushed", "mode", "tx", "push", "commit", "committed",
                 "failed", "wait", "clear", "done", "abandoned"}

-------------------------------------------------------------------------------
(* Where a thread goes, and that it is a thread.                                 *)
LEMMA StepMoves ==
  ASSUME thread \in [Threads -> ThreadStates], NEW t \in Threads,
         NEW from, NEW to \in ThreadStates, Step(t, from, to)
  PROVE  /\ thread' \in [Threads -> ThreadStates]
         /\ thread[t] = from /\ thread'[t] = to
         /\ \A u \in Threads \ {t} : thread'[u] = thread[u]
BY DEF Step

(* A calling thread keeps the types.                                             *)
LEMMA ThreadStep ==
  ASSUME TypeOK, NEW t \in Threads, Thread(t)
  PROVE  TypeOK'
<1> USE DEF ThreadStates
<1>1. /\ thread \in [Threads -> ThreadStates] /\ inbox \in Seq(Threads)
      /\ t \in Threads /\ leave_tx \in Leavers \cup {NoLeaver}
      /\ freed \subseteq Leavers /\ token \in BOOLEAN
  BY DEF TypeOK
<1>2. Commit => token' \in BOOLEAN
  BY <1>1 DEF Commit
<1>3. CASE Request(t)
  BY <1>1, <1>3, StepMoves DEF Request, Push, TypeOK, taskVars
<1>4. CASE RequestCommits(t)
  BY <1>1, <1>2, <1>4, StepMoves DEF RequestCommits, TypeOK, taskVars
<1>5. CASE LeaveSkips(t) \/ LeaveStarts(t) \/ LeaveReturns(t) \/ LeaveAbandoned(t)
  BY <1>1, <1>5, StepMoves DEF LeaveSkips, LeaveStarts, LeaveReturns, LeaveAbandoned, TypeOK, taskVars,
                               sharedVars
<1>6. CASE LeaveSetsMode(t)
  BY <1>1, <1>6, StepMoves DEF LeaveSetsMode, TypeOK, taskVars
<1>7. CASE LeaveSetsTx(t)
  BY <1>1, <1>7, StepMoves DEF LeaveSetsTx, TypeOK, taskVars
<1>8. CASE LeavePushes(t)
  BY <1>1, <1>8, StepMoves DEF LeavePushes, Push, TypeOK, taskVars
<1>9. CASE LeaveCommits(t)
  BY <1>1, <1>2, <1>9, StepMoves DEF LeaveCommits, TypeOK, taskVars
<1>10. CASE LeaveCommitsAgain(t)
  BY <1>1, <1>2, <1>10, StepMoves DEF LeaveCommitsAgain, TypeOK, taskVars
<1>11. CASE LeaveClears(t)
  BY <1>1, <1>11, StepMoves DEF LeaveClears, TypeOK, taskVars
<1>12. QED
  BY <1>3, <1>4, <1>5, <1>6, <1>7, <1>8, <1>9, <1>10, <1>11 DEF Thread

(* So does the task.                                                             *)
LEMMA TaskStep ==
  ASSUME TypeOK, Connect \/ Work \/ Close \/ Finish \/ Gone
  PROVE  TypeOK'
<1> USE DEF TypeOK, Rest, OnlyPc, Goto, End, TakeToken, EndOfQueue
<1>1. CASE Enter \/ ConnectOk \/ ConnectFails \/ ConnectFailed \/ SleepOver
           \/ RequestSent \/ RequestFails \/ Refused \/ RequestFailed \/ MaxTimeout
  BY <1>1 DEF Enter, ConnectOk, ConnectFails, ConnectFailed, SleepOver, RequestSent,
              RequestFails, Refused, RequestFailed, MaxTimeout
<1>2. CASE ConnectWoken \/ SleepWoken \/ AwaitWoken
  BY <1>2 DEF ConnectWoken, SleepWoken, AwaitWoken
<1>3. CASE Accepted
  BY <1>3 DEF Accepted
<1>4. CASE ProcessOp
  BY <1>4 DEF ProcessOp
<1>5. CASE ProcessDone \/ RecvEvent
  BY <1>5 DEF ProcessDone, RecvEvent
<1>6. CASE RecvWoken
  BY <1>6 DEF RecvWoken
<1>7. CASE RecvClosed \/ WorkOver
  BY <1>7 DEF RecvClosed, WorkOver
<1>8. CASE SetClosed \/ ReleaseLeave
  BY <1>8 DEF SetClosed, ReleaseLeave
<1>9. CASE TellListener
  BY <1>9 DEF TellListener, Status, sharedVars
<1>10. CASE Finish \/ Gone
  BY <1>10 DEF Finish, Gone, vars, taskVars, sharedVars
<1>11. QED
  BY <1>1, <1>2, <1>3, <1>4, <1>5, <1>6, <1>7, <1>8, <1>9, <1>10
     DEF Connect, Work, Close

LEMMA TypeStep == TypeOK /\ [Next]_vars => TypeOK'
<1> SUFFICES ASSUME TypeOK, [Next]_vars PROVE TypeOK'
  OBVIOUS
<1>1. CASE UNCHANGED vars
  BY <1>1 DEF TypeOK, vars, taskVars, sharedVars
<1>2. QED
  BY <1>1, ThreadStep, TaskStep DEF Next

LEMMA TypeInit == Init => TypeOK
<1> SUFFICES ASSUME Init PROVE TypeOK
  OBVIOUS
<1>1. inbox \in Seq(Threads) /\ thread \in [Threads -> {"idle"}]
  BY DEF Init
<1>2. QED
  BY <1>1 DEF Init, TypeOK

(* Every variable of SessionTask keeps its type, for any threads.                *)
THEOREM TypeCorrect == Spec => []TypeOK
BY TypeInit, TypeStep, PTL DEF Spec

-------------------------------------------------------------------------------
(* A thread that pushed has yet to commit; one that commits fills the channel    *)
(* unless the task is gone; no other step of a thread touches the channel.       *)
LEMMA ThreadWakes ==
  ASSUME TypeOK, NEW t \in Threads, Thread(t)
  PROVE  /\ pc' = pc /\ phase' = phase
         /\ token /\ pc # "gone" => token'
         /\ \A u \in Threads : u # t => thread'[u] = thread[u]
         /\ \/ inbox' = inbox \/ thread'[t] \in {"pushed", "commit"}
         /\ thread[t] \in {"pushed", "commit"} /\ pc # "gone" => token'
         /\ \/ mode' = mode \/ (t \in Leavers /\ thread'[t] = "tx")
         /\ thread[t] \in {"tx", "push"} => thread'[t] \in {"push", "commit"}
<1> USE DEF ThreadStates
<1>1. /\ thread \in [Threads -> ThreadStates] /\ t \in Threads /\ token \in BOOLEAN
      /\ Callers \cap Leavers = {}
  BY TaskAssumption DEF TypeOK
<1>2. Commit /\ pc # "gone" => token'
  BY DEF Commit
<1>3. CASE Request(t)
  BY <1>1, <1>3, StepMoves DEF Request, Push, taskVars
<1>4. CASE RequestCommits(t)
  BY <1>1, <1>2, <1>4, StepMoves DEF RequestCommits, taskVars
<1>5. CASE LeaveSkips(t) \/ LeaveStarts(t) \/ LeaveReturns(t) \/ LeaveAbandoned(t)
  BY <1>1, <1>5, StepMoves DEF LeaveSkips, LeaveStarts, LeaveReturns, LeaveAbandoned, taskVars,
                               sharedVars
<1>6. CASE LeaveSetsMode(t)
  BY <1>1, <1>6, StepMoves DEF LeaveSetsMode, taskVars
<1>7. CASE LeaveSetsTx(t)
  BY <1>1, <1>7, StepMoves DEF LeaveSetsTx, taskVars
<1>8. CASE LeavePushes(t)
  BY <1>1, <1>8, StepMoves DEF LeavePushes, Push, taskVars
<1>9. CASE LeaveCommits(t)
  BY <1>1, <1>2, <1>9, StepMoves DEF LeaveCommits, taskVars
<1>10. CASE LeaveCommitsAgain(t)
  BY <1>1, <1>2, <1>10, StepMoves DEF LeaveCommitsAgain, taskVars
<1>11. CASE LeaveClears(t)
  BY <1>1, <1>11, StepMoves DEF LeaveClears, taskVars
<1>12. QED
  BY <1>3, <1>4, <1>5, <1>6, <1>7, <1>8, <1>9, <1>10, <1>11 DEF Thread

(* The initial state waits for nothing.                                          *)
LEMMA WakeInit == Init => NoLostWakeup
BY DEF Init, NoLostWakeup

LEMMA WakeStep == TypeOK /\ NoLostWakeup /\ [Next]_vars => NoLostWakeup'
<1> SUFFICES ASSUME TypeOK, NoLostWakeup, [Next]_vars, pc' = "recv", inbox' # <<>>
             PROVE  token' \/ \E t \in Threads : thread'[t] \in {"pushed", "commit"}
  BY DEF NoLostWakeup
<1>1. CASE \E t \in Threads : Thread(t)
  <2>1. PICK t \in Threads : Thread(t)
    BY <1>1
  <2>2. CASE inbox' = inbox
    BY <2>1, <2>2, ThreadWakes DEF NoLostWakeup
  <2>3. QED
    BY <2>1, <2>2, ThreadWakes
<1>2. CASE Finish
  BY <1>2 DEF Finish, NoLostWakeup, taskVars
<1>3. CASE ProcessDone
  BY <1>3 DEF ProcessDone, OnlyPc, Rest
<1>4. CASE Connect
  BY <1>4 DEF Connect, Enter, ConnectOk, ConnectFails, ConnectWoken, ConnectFailed,
       SleepWoken, SleepOver, RequestSent, RequestFails, AwaitWoken, Accepted, Refused,
       RequestFailed, MaxTimeout, Goto, End
<1>5. CASE ProcessOp \/ RecvWoken \/ RecvEvent \/ RecvClosed \/ WorkOver \/ Close
  BY <1>5 DEF ProcessOp, RecvWoken, RecvEvent, RecvClosed, WorkOver, Close, SetClosed,
       ReleaseLeave, TellListener, Goto, End
<1>6. CASE Gone \/ UNCHANGED vars
  BY <1>6 DEF Gone, vars, taskVars, sharedVars, NoLostWakeup
<1>7. QED
  BY <1>1, <1>2, <1>3, <1>4, <1>5, <1>6 DEF Next, Work

(* No wake-up is lost, for any threads: an operation pushed while the task waits  *)
(* for packets will be seen.                                                     *)
THEOREM WakeupsSeen == Spec => []NoLostWakeup
<1>1. Init => TypeOK /\ NoLostWakeup
  BY TypeInit, WakeInit
<1>2. TypeOK /\ NoLostWakeup /\ [Next]_vars => (TypeOK /\ NoLostWakeup)'
  BY TypeStep, WakeStep
<1>3. QED
  BY <1>1, <1>2, PTL DEF Spec

-------------------------------------------------------------------------------
LEMMA ShutdownInit == Init => ShutdownInv
BY DEF Init, ShutdownInv, ShouldBreak, Unread

(* The task reads the mode before it starts to wait, or it was already between    *)
(* two reads; what it consumes of the channel it consumes with a read.           *)
LEMMA TaskReads ==
  ASSUME TypeOK, Connect \/ Work, ShouldBreak', pc' \in Unread
  PROVE  ShouldBreak /\ pc \in Unread /\ token' = token /\ UNCHANGED <<mode, thread>>
<1> USE DEF Rest, OnlyPc, Goto, End, TakeToken, EndOfQueue, Unread
<1>1. UNCHANGED <<mode, thread>>
  BY DEF Connect, Enter, ConnectOk, ConnectFails, ConnectWoken, ConnectFailed, SleepWoken,
         SleepOver, RequestSent, RequestFails, AwaitWoken, Accepted, Refused,
         RequestFailed, MaxTimeout, Work, ProcessOp, ProcessDone, RecvWoken, RecvEvent,
         RecvClosed, WorkOver
<1>2. CASE Enter \/ ConnectOk \/ ConnectFails \/ ConnectFailed \/ SleepOver
           \/ RequestSent \/ RequestFails \/ Refused \/ RequestFailed \/ MaxTimeout
  <2>1. UNCHANGED <<mode, phase>> /\ (ShouldBreak' <=> ShouldBreak)
    BY <1>2 DEF Enter, ConnectOk, ConnectFails, ConnectFailed, SleepOver, RequestSent,
                RequestFails, Refused, RequestFailed, MaxTimeout, ShouldBreak
  <2>2. QED
    BY <1>1, <1>2, <2>1 DEF Enter, ConnectOk, ConnectFails, ConnectFailed, SleepOver,
         RequestSent, RequestFails, Refused, RequestFailed, MaxTimeout
<1>3. CASE ConnectWoken \/ SleepWoken \/ AwaitWoken \/ RecvWoken
  <2>1. UNCHANGED <<mode, phase>> /\ (ShouldBreak' <=> ShouldBreak)
    BY <1>3 DEF ConnectWoken, SleepWoken, AwaitWoken, RecvWoken, ShouldBreak
  <2>2. QED
    BY <1>1, <1>3, <2>1 DEF ConnectWoken, SleepWoken, AwaitWoken, RecvWoken
<1>4. CASE Accepted
  BY <1>1, <1>4 DEF Accepted, ShouldBreak
<1>5. CASE ProcessOp
  BY <1>1, <1>5 DEF ProcessOp, ShouldBreak
<1>6. CASE ProcessDone \/ RecvEvent \/ RecvClosed \/ WorkOver
  BY <1>1, <1>6 DEF ProcessDone, RecvEvent, RecvClosed, WorkOver, ShouldBreak
<1>7. QED
  BY <1>2, <1>3, <1>4, <1>5, <1>6 DEF Connect, Work

LEMMA ShutdownStep == TypeOK /\ ShutdownInv /\ [Next]_vars => ShutdownInv'
<1> SUFFICES ASSUME TypeOK, ShutdownInv, [Next]_vars, ShouldBreak', pc' \in Unread
             PROVE  token' \/ \E t \in Leavers : thread'[t] \in {"tx", "push", "commit"}
  BY DEF ShutdownInv, Unread
<1>1. CASE \E t \in Threads : Thread(t)
  <2>1. PICK t \in Threads : Thread(t)
    BY <1>1
  <2>2. CASE mode' = mode
    <3>1. ShouldBreak /\ pc \in Unread /\ pc # "gone"
      BY <2>1, <2>2, ThreadWakes DEF ShouldBreak, Unread
    <3>2. CASE token
      BY <3>1, <3>2, <2>1, ThreadWakes
    <3>3. CASE \E u \in Leavers : thread[u] \in {"tx", "push", "commit"}
      <4>1. PICK u \in Leavers : thread[u] \in {"tx", "push", "commit"}
        BY <3>3
      <4>2. u \in Threads
        BY DEF Threads
      <4>3. CASE u = t
        BY <2>1, <3>1, <4>1, <4>3, ThreadWakes
      <4>4. CASE u # t
        BY <2>1, <4>1, <4>2, <4>4, ThreadWakes
      <4>5. QED
        BY <4>3, <4>4
    <3>4. QED
      BY <3>1, <3>2, <3>3 DEF ShutdownInv
  <2>3. QED
    BY <2>1, <2>2, ThreadWakes
<1>2. CASE Connect \/ Work
  BY <1>2, TaskReads DEF ShutdownInv
<1>3. CASE Close
  BY <1>3 DEF Close, SetClosed, ReleaseLeave, TellListener, Goto, End, OnlyPc, Unread
<1>4. CASE Finish \/ Gone \/ UNCHANGED vars
  BY <1>4 DEF Finish, Gone, vars, taskVars, sharedVars, ShutdownInv, ShouldBreak
<1>5. QED
  BY <1>1, <1>2, <1>3, <1>4 DEF Next

(* No shutdown is overlooked, for any threads: wherever the task waits in a mode  *)
(* that ends what it is doing, it is woken or about to be.                       *)
THEOREM ShutdownsSeen == Spec => []ShutdownSeen
<1>1. Init => TypeOK /\ ShutdownInv
  BY TypeInit, ShutdownInit
<1>2. TypeOK /\ ShutdownInv /\ [Next]_vars => (TypeOK /\ ShutdownInv)'
  BY TypeStep, ShutdownStep
<1>3. ShutdownInv => ShutdownSeen
  BY DEF ShutdownInv, ShutdownSeen, Unread
<1>4. QED
  BY <1>1, <1>2, <1>3, PTL DEF Spec

-------------------------------------------------------------------------------
(* GracefulNeverCuts is not inductive: the task ends long after the shutdown mode  *)
(* was set, and on an error path some steps after its got_closed was.  A thread   *)
(* that asked for a forced leave has passed "mode" and never comes back to it;    *)
(* the task has no cause until it ends; the guard's got_closed means the client   *)
(* is gone, and the server's leads straight to the end.                           *)
ForcedCalled == \E t \in ForceLeavers : thread[t] \notin {"idle", "mode"}

CutInv ==
  /\ mode = "Force" => ForcedCalled
  /\ ~Ended => cause = "none"
  /\ got_closed = "guard" => finished
  /\ got_closed = "server" => Ended \/ pc = "work_over"
  /\ GracefulNeverCuts

(* What a calling thread leaves alone, and how far it goes: never back.          *)
LEMMA ThreadOnward ==
  ASSUME TypeOK, NEW t \in Threads, Thread(t)
  PROVE  /\ UNCHANGED <<taskVars, finished, closed>>
         /\ \A u \in Threads : u # t => thread'[u] = thread[u]
         /\ thread[t] # thread'[t] /\ thread'[t] # "idle"
         /\ thread'[t] = "mode" => thread[t] = "idle"
         /\ thread'[t] = "tx" => thread[t] = "mode"
         /\ mode' = "Force" => mode = "Force" \/ (t \in ForceLeavers /\ thread'[t] = "tx")
<1> USE DEF ThreadStates, taskVars
<1>1. thread \in [Threads -> ThreadStates] /\ t \in Threads
  BY DEF TypeOK
<1>2. CASE Request(t)
  BY <1>1, <1>2, StepMoves DEF Request, Push
<1>3. CASE RequestCommits(t)
  BY <1>1, <1>3, StepMoves DEF RequestCommits
<1>4. CASE LeaveSkips(t) \/ LeaveStarts(t) \/ LeaveReturns(t) \/ LeaveAbandoned(t)
  BY <1>1, <1>4, StepMoves DEF LeaveSkips, LeaveStarts, LeaveReturns, LeaveAbandoned, sharedVars
<1>5. CASE LeaveSetsMode(t)
  BY <1>1, <1>5, StepMoves DEF LeaveSetsMode
<1>6. CASE LeaveSetsTx(t)
  BY <1>1, <1>6, StepMoves DEF LeaveSetsTx
<1>7. CASE LeavePushes(t)
  BY <1>1, <1>7, StepMoves DEF LeavePushes, Push
<1>8. CASE LeaveCommits(t)
  BY <1>1, <1>8, StepMoves DEF LeaveCommits
<1>9. CASE LeaveCommitsAgain(t)
  BY <1>1, <1>9, StepMoves DEF LeaveCommitsAgain
<1>10. CASE LeaveClears(t)
  BY <1>1, <1>10, StepMoves DEF LeaveClears
<1>11. QED
  BY <1>2, <1>3, <1>4, <1>5, <1>6, <1>7, <1>8, <1>9, <1>10 DEF Thread

(* The task sets neither the mode nor a thread, and once it has ended it keeps     *)
(* its phase and the cause.                                                      *)
LEMMA TaskOnward ==
  ASSUME Connect \/ Work \/ Close
  PROVE  /\ UNCHANGED <<mode, finished, thread>>
         /\ Close => UNCHANGED <<phase, got_closed, cause>> /\ Ended /\ Ended'
         /\ Connect \/ Work => ~Ended /\ UNCHANGED <<told, closed, leave_tx, freed>>
<1> USE DEF Rest, OnlyPc, Goto, End, Ended
<1>1. CASE Connect
  BY <1>1 DEF Connect, Enter, ConnectOk, ConnectFails, ConnectWoken, ConnectFailed,
       SleepWoken, SleepOver, RequestSent, RequestFails, AwaitWoken, Accepted, Refused,
       RequestFailed, MaxTimeout, Close, SetClosed, ReleaseLeave, TellListener
<1>2. CASE Work
  BY <1>2 DEF Work, ProcessOp, ProcessDone, RecvWoken, RecvEvent, RecvClosed, WorkOver,
       Close, SetClosed, ReleaseLeave, TellListener
<1>3. CASE SetClosed \/ ReleaseLeave
  BY <1>3 DEF SetClosed, ReleaseLeave, Connect, Enter, ConnectOk, ConnectFails,
       ConnectWoken, ConnectFailed, SleepWoken, SleepOver, RequestSent, RequestFails,
       AwaitWoken, Accepted, Refused, RequestFailed, MaxTimeout, Work, ProcessOp,
       ProcessDone, RecvWoken, RecvEvent, RecvClosed, WorkOver
<1>4. CASE TellListener
  BY <1>4 DEF TellListener, sharedVars, Connect, Enter, ConnectOk, ConnectFails,
       ConnectWoken, ConnectFailed, SleepWoken, SleepOver, RequestSent, RequestFails,
       AwaitWoken, Accepted, Refused, RequestFailed, MaxTimeout, Work, ProcessOp,
       ProcessDone, RecvWoken, RecvEvent, RecvClosed, WorkOver
<1>5. QED
  BY <1>1, <1>2, <1>3, <1>4 DEF Close

LEMMA CutInit == Init => CutInv
BY DEF Init, CutInv, Ended, GracefulNeverCuts

(* The steps of the task that end it, and how got_closed changes.                *)
LEMMA TaskCuts ==
  ASSUME TypeOK, CutInv, Connect \/ Work
  PROVE  CutInv'
<1> USE DEF Rest, OnlyPc, Goto, End, TakeToken, EndOfQueue, Ended, ShouldBreak
<1>1. /\ UNCHANGED <<mode, finished, thread>> /\ cause = "none"
      /\ got_closed \in {"none", "guard", "server"}
  BY TaskOnward DEF CutInv, TypeOK
<1>2. ForcedCalled' = ForcedCalled
  BY <1>1 DEF ForcedCalled
<1> USE DEF CutInv, GracefulNeverCuts
<1>3. CASE Enter \/ ConnectOk \/ ConnectFails \/ SleepOver
           \/ RequestSent \/ RequestFails \/ Refused \/ MaxTimeout
  BY <1>1, <1>2, <1>3 DEF Enter, ConnectOk, ConnectFails, SleepOver, RequestSent,
              RequestFails, Refused, MaxTimeout, ForcedCalled
<1>4. CASE ConnectFailed \/ RequestFailed
  BY <1>1, <1>2, <1>4 DEF ConnectFailed, RequestFailed, ForcedCalled
<1>5. CASE ConnectWoken \/ SleepWoken \/ AwaitWoken \/ RecvWoken
  BY <1>1, <1>2, <1>5 DEF ConnectWoken, SleepWoken, AwaitWoken, RecvWoken, ForcedCalled
<1>6. CASE Accepted
  BY <1>1, <1>2, <1>6 DEF Accepted, ForcedCalled
<1>7. CASE ProcessOp \/ ProcessDone \/ RecvEvent \/ RecvClosed
  BY <1>1, <1>2, <1>7 DEF ProcessOp, ProcessDone, RecvEvent, RecvClosed, ForcedCalled
<1>8. CASE WorkOver
  BY <1>1, <1>2, <1>8 DEF WorkOver, ForcedCalled
<1>9. QED
  BY <1>3, <1>4, <1>5, <1>6, <1>7, <1>8 DEF Connect, Work

LEMMA CutStep == TypeOK /\ CutInv /\ [Next]_vars => CutInv'
<1> SUFFICES ASSUME TypeOK, CutInv, [Next]_vars PROVE CutInv'
  OBVIOUS
<1>1. CASE \E t \in Threads : Thread(t)
  <2>1. PICK t \in Threads : Thread(t)
    BY <1>1
  <2>2. ForceLeavers \subseteq Threads
    BY TaskAssumption DEF Threads
  <2>3. ForcedCalled => ForcedCalled'
    BY <2>1, <2>2, ThreadOnward DEF ForcedCalled
  <2>4. mode' = "Force" => ForcedCalled'
    BY <2>1, <2>2, <2>3, ThreadOnward DEF ForcedCalled, CutInv
  <2>5. UNCHANGED <<pc, phase, got_closed, cause, finished>>
    BY <2>1, ThreadOnward DEF taskVars
  <2>6. QED
    BY <2>3, <2>4, <2>5 DEF CutInv, GracefulNeverCuts, ForcedCalled, Ended
<1>2. CASE Connect \/ Work
  BY <1>2, TaskCuts
<1>3. CASE Close
  BY <1>3, TaskOnward DEF CutInv, GracefulNeverCuts, ForcedCalled
<1>4. CASE Finish
  BY <1>4 DEF Finish, taskVars, CutInv, GracefulNeverCuts, ForcedCalled, Ended
<1>5. CASE Gone \/ UNCHANGED vars
  BY <1>5 DEF Gone, vars, taskVars, sharedVars, CutInv, GracefulNeverCuts, ForcedCalled,
              Ended
<1>6. QED
  BY <1>1, <1>2, <1>3, <1>4, <1>5 DEF Next

(* A graceful leave never cuts an opened session off, and the task takes the      *)
(* client for dropped only when it is, whoever calls in whatever order.          *)
THEOREM OnlyForceCuts == Spec => []GracefulNeverCuts
<1>1. Init => TypeOK /\ CutInv
  BY TypeInit, CutInit
<1>2. TypeOK /\ CutInv /\ [Next]_vars => (TypeOK /\ CutInv)'
  BY TypeStep, CutStep
<1>3. CutInv => GracefulNeverCuts
  BY DEF CutInv
<1>4. QED
  BY <1>1, <1>2, <1>3, PTL DEF Spec

-------------------------------------------------------------------------------
(* What the promise to the callers of leave_room_and_wait rests on: the flag and   *)
(* the listener's call belong to the last steps of the task; a leaver whose       *)
(* sender is stored has begun its call, so that one whose sender is dropped while *)
(* the session lives was replaced by another; and a commit fails only when the     *)
(* task is gone.                                                                 *)
OtherCalled(t) == \E u \in Leavers \ {t} : thread[u] # "idle"

LeaveInv ==
  /\ told # "none" <=> pc = "gone"
  /\ closed <=> pc \in {"release", "tell", "gone"}
  /\ leave_tx # NoLeaver => thread[leave_tx] \notin {"idle", "mode", "tx"}
  /\ \A t \in freed : closed \/ OtherCalled(t)
  /\ \A t \in Threads : thread[t] \in {"failed", "clear"} => pc = "gone"

(* Which leaver a step frees, whose sender it stores, and when a commit fails.    *)
LEMMA ThreadFrees ==
  ASSUME TypeOK, LeaveInv, NEW t \in Threads, Thread(t)
  PROVE  /\ \/ UNCHANGED <<leave_tx, freed>>
            \/ /\ thread[t] = "tx" /\ thread'[t] = "push" /\ t \in Leavers
               /\ leave_tx' = t /\ freed' = freed \cup ({leave_tx} \ {NoLeaver})
            \/ /\ closed /\ leave_tx' = NoLeaver
               /\ freed' = freed \cup ({leave_tx} \ {NoLeaver})
         /\ thread'[t] \in {"failed", "clear"} => pc = "gone"
<1> USE DEF ThreadStates
<1>1. /\ thread \in [Threads -> ThreadStates] /\ t \in Threads
      /\ thread[t] \in {"failed", "clear"} => closed /\ pc = "gone"
  BY DEF TypeOK, LeaveInv
<1>2. CASE Request(t)
  BY <1>1, <1>2, StepMoves DEF Request, Push
<1>3. CASE RequestCommits(t)
  BY <1>1, <1>3, StepMoves DEF RequestCommits
<1>4. CASE LeaveSkips(t) \/ LeaveStarts(t) \/ LeaveReturns(t) \/ LeaveAbandoned(t)
  BY <1>1, <1>4, StepMoves DEF LeaveSkips, LeaveStarts, LeaveReturns, LeaveAbandoned, sharedVars
<1>5. CASE LeaveSetsMode(t)
  BY <1>1, <1>5, StepMoves DEF LeaveSetsMode
<1>6. CASE LeaveSetsTx(t)
  BY <1>1, <1>6, StepMoves DEF LeaveSetsTx
<1>7. CASE LeavePushes(t)
  BY <1>1, <1>7, StepMoves DEF LeavePushes, Push
<1>8. CASE LeaveCommits(t)
  BY <1>1, <1>8, StepMoves DEF LeaveCommits
<1>9. CASE LeaveCommitsAgain(t)
  BY <1>1, <1>9, StepMoves DEF LeaveCommitsAgain
<1>10. CASE LeaveClears(t)
  BY <1>1, <1>10, StepMoves DEF LeaveClears
<1>11. QED
  BY <1>2, <1>3, <1>4, <1>5, <1>6, <1>7, <1>8, <1>9, <1>10 DEF Thread

(* What each of the last three steps of the task does.                           *)
LEMMA CloseMoves ==
  ASSUME TypeOK, Close
  PROVE  \/ /\ pc = "closing" /\ pc' = "release" /\ closed'
            /\ UNCHANGED <<told, leave_tx, freed>>
         \/ /\ pc = "release" /\ pc' = "tell" /\ closed' = closed /\ told' = told
            /\ leave_tx' = NoLeaver /\ freed' = freed \cup ({leave_tx} \ {NoLeaver})
         \/ /\ pc = "tell" /\ pc' = "gone" /\ told' # "none"
            /\ UNCHANGED <<closed, leave_tx, freed>>
BY DEF Close, SetClosed, ReleaseLeave, TellListener, Status, Goto, sharedVars, TypeOK

(* Before its end the task comes at most to "closing".                           *)
LEMMA NotYetOver ==
  ASSUME Connect \/ Work
  PROVE  pc' \notin {"release", "tell", "gone"} /\ pc \notin {"release", "tell", "gone"}
<1> USE DEF OnlyPc, Goto, End
<1>1. CASE Connect
  BY <1>1 DEF Connect, Enter, ConnectOk, ConnectFails, ConnectWoken, ConnectFailed,
       SleepWoken, SleepOver, RequestSent, RequestFails, AwaitWoken, Accepted, Refused,
       RequestFailed, MaxTimeout
<1>2. CASE Work
  BY <1>2 DEF Work, ProcessOp, ProcessDone, RecvWoken, RecvEvent, RecvClosed, WorkOver
<1>3. QED
  BY <1>1, <1>2

LEMMA LeaveInit == Init => LeaveInv
BY DEF Init, LeaveInv

LEMMA LeaveStep == TypeOK /\ LeaveInv /\ [Next]_vars => LeaveInv'
<1> SUFFICES ASSUME TypeOK, LeaveInv, [Next]_vars PROVE LeaveInv'
  OBVIOUS
<1>1. Leavers \subseteq Threads /\ leave_tx \in Leavers \cup {NoLeaver}
      /\ NoLeaver \notin Leavers /\ freed \subseteq Leavers
  BY TaskAssumption DEF TypeOK, Threads
<1>2. CASE \E t \in Threads : Thread(t)
  <2>1. PICK t \in Threads : Thread(t)
    BY <1>2
  <2>2. UNCHANGED <<pc, told, closed>>
    BY <2>1, ThreadOnward DEF taskVars
  <2>3. \A u \in Leavers : OtherCalled(u) => OtherCalled(u)'
    BY <1>1, <2>1, ThreadOnward DEF OtherCalled
  <2>4. leave_tx # NoLeaver => thread'[leave_tx] \notin {"idle", "mode", "tx"}
    BY <1>1, <2>1, ThreadOnward DEF LeaveInv
  <2>5. leave_tx' # NoLeaver => thread'[leave_tx'] \notin {"idle", "mode", "tx"}
    BY <2>1, <2>4, ThreadFrees
  <2>6. \A u \in freed' : closed' \/ OtherCalled(u)'
    <3>1. SUFFICES ASSUME NEW u \in freed', ~closed PROVE OtherCalled(u)'
      BY <2>2
    <3>2. CASE u \in freed
      BY <1>1, <2>3, <3>1, <3>2 DEF LeaveInv
    <3>3. CASE u \notin freed
      <4>1. /\ u = leave_tx /\ u # NoLeaver
            /\ thread[t] = "tx" /\ thread'[t] = "push" /\ t \in Leavers
        BY <2>1, <3>1, <3>3, ThreadFrees
      <4>2. t # u
        BY <4>1 DEF LeaveInv
      <4>3. QED
        BY <4>1, <4>2 DEF OtherCalled
    <3>4. QED
      BY <3>2, <3>3
  <2>7. \A u \in Threads : thread'[u] \in {"failed", "clear"} => pc' = "gone"
    BY <2>1, <2>2, ThreadOnward, ThreadFrees DEF LeaveInv
  <2>8. QED
    BY <2>2, <2>5, <2>6, <2>7 DEF LeaveInv
<1>3. CASE Connect \/ Work
  BY <1>3, TaskOnward, NotYetOver DEF LeaveInv, OtherCalled
<1>4. CASE Close
  BY <1>4, TaskOnward, CloseMoves DEF LeaveInv, OtherCalled
<1>5. CASE Finish \/ Gone \/ UNCHANGED vars
  BY <1>5 DEF Finish, Gone, vars, taskVars, sharedVars, LeaveInv, OtherCalled
<1>6. QED
  BY <1>2, <1>3, <1>4, <1>5 DEF Next

-------------------------------------------------------------------------------
(* The refinement: the stages in terms of the flag and the phase, and each step    *)
(* of the task or of a thread as a step of the promise, or none.                 *)
Calls == [t \in Leavers |-> CallStage(t)]

LEMMA OverIsClosed ==
  ASSUME TypeOK, LeaveInv
  PROVE  Promise!Over <=> closed
<1>1. closed \in BOOLEAN /\ (told # "none" => closed)
  BY DEF TypeOK, LeaveInv
<1>2. QED
  BY <1>1 DEF LifeStage, Promise!Over

LEMMA PromiseInit == Init => Promise!Init
<1> SUFFICES ASSUME Init PROVE Promise!Init
  OBVIOUS
<1>1. \A t \in Leavers : CallStage(t) = "idle"
  BY DEF Init, CallStage, Threads
<1>2. LifeStage = "opening"
  BY DEF Init, LifeStage
<1>3. QED
  BY <1>1, <1>2 DEF Promise!Init

(* A leaver that enters its call, returns from it or is abandoned in it.         *)
LEMMA CallMoves ==
  ASSUME TypeOK, LeaveInv, NEW t \in Threads, Thread(t)
  PROVE  \/ Calls' = Calls
         \/ /\ t \in Leavers /\ CallStage(t) = "idle"
            /\ Calls' = [Calls EXCEPT ![t] = IF closed THEN "returned" ELSE "waiting"]
         \/ /\ t \in Leavers /\ CallStage(t) = "waiting"
            /\ closed \/ OtherCalled(t)
            /\ Calls' = [Calls EXCEPT ![t] = "returned"]
         \/ /\ t \in Leavers /\ CallStage(t) = "waiting"
            /\ Calls' = [Calls EXCEPT ![t] = "abandoned"]
<1>1. /\ thread \in [Threads -> ThreadStates] /\ thread' \in [Threads -> ThreadStates]
      /\ t \in Threads /\ Leavers \subseteq Threads
  BY ThreadStep DEF TypeOK, ThreadStates, Threads
<1>2. \A u \in Leavers : u # t => CallStage(u)' = CallStage(u)
  BY ThreadOnward DEF CallStage, Threads
<1>3. CASE t \notin Leavers
  BY <1>2, <1>3 DEF Calls
<1>4. CASE t \in Leavers
  <2>1. t \notin Callers
    BY <1>4, TaskAssumption
  <2>2. \A v : CallStage(t)' = v => Calls' = [Calls EXCEPT ![t] = v]
    BY <1>2, <1>4 DEF Calls
  <2>3. CallStage(t)' = CallStage(t) => Calls' = Calls
    BY <1>2, <1>4 DEF Calls
  <2>4. CASE LeaveSkips(t) \/ LeaveStarts(t)
    <3>1. /\ thread[t] = "idle"
          /\ thread'[t] = IF closed THEN "done" ELSE "mode"
      BY <1>1, <2>4, StepMoves DEF LeaveSkips, LeaveStarts, ThreadStates
    <3>2. /\ CallStage(t) = "idle"
          /\ CallStage(t)' = IF closed THEN "returned" ELSE "waiting"
      BY <3>1 DEF CallStage
    <3>3. QED
      BY <1>4, <2>2, <3>2
  <2>5. CASE LeaveSetsMode(t) \/ LeaveSetsTx(t) \/ LeavePushes(t) \/ LeaveCommits(t)
             \/ LeaveCommitsAgain(t)
    <3>1. /\ thread[t] \notin {"idle", "done", "abandoned"}
          /\ thread'[t] \notin {"idle", "done", "abandoned"}
      BY <1>1, <2>5, StepMoves DEF LeaveSetsMode, LeaveSetsTx, LeavePushes, Push,
           LeaveCommits, LeaveCommitsAgain, ThreadStates
    <3>2. CallStage(t) = "waiting" /\ CallStage(t)' = "waiting"
      BY <3>1 DEF CallStage
    <3>3. QED
      BY <2>3, <3>2
  <2>6. CASE LeaveClears(t) \/ LeaveReturns(t)
    <3>1. thread[t] \in {"clear", "wait"} /\ thread'[t] = "done"
      BY <1>1, <2>6, StepMoves DEF LeaveClears, LeaveReturns, ThreadStates
    <3>2. closed \/ OtherCalled(t)
      <4>1. thread[t] = "clear" => closed
        BY DEF LeaveInv
      <4>2. thread[t] = "wait" => t \in freed
        BY <1>1, <2>6, StepMoves DEF LeaveClears, LeaveReturns, ThreadStates
      <4>3. QED
        BY <3>1, <4>1, <4>2 DEF LeaveInv
    <3>3. CallStage(t) = "waiting" /\ CallStage(t)' = "returned"
      BY <3>1 DEF CallStage
    <3>4. QED
      BY <1>4, <2>2, <3>2, <3>3
  <2>7. CASE LeaveAbandoned(t)
    <3>1. thread[t] = "wait" /\ thread'[t] = "abandoned"
      BY <1>1, <2>7, StepMoves DEF LeaveAbandoned, ThreadStates
    <3>2. CallStage(t) = "waiting" /\ CallStage(t)' = "abandoned"
      BY <3>1 DEF CallStage
    <3>3. QED
      BY <1>4, <2>2, <3>2
  <2>8. QED
    BY <2>1, <2>4, <2>5, <2>6, <2>7 DEF Thread, Request, RequestCommits
<1>5. QED
  BY <1>3, <1>4

LEMMA PromiseStep ==
  TypeOK /\ LeaveInv /\ [Next]_vars => [Promise!Next]_<<LifeStage, Calls>>
<1> SUFFICES ASSUME TypeOK, LeaveInv, [Next]_vars
             PROVE  [Promise!Next]_<<LifeStage, Calls>>
  OBVIOUS
<1>1. LeaveInv'
  BY LeaveStep
<1>2. CASE \E t \in Threads : Thread(t)
  <2>1. PICK t \in Threads : Thread(t)
    BY <1>2
  <2>2. LifeStage' = LifeStage
    BY <2>1, ThreadOnward DEF taskVars, LifeStage
  <2>3. \A u \in Leavers : Calls[u] = CallStage(u)
    BY DEF Calls
  <2>4. \A u \in Leavers : OtherCalled(u) => \E w \in Leavers \ {u} : Calls[w] # "idle"
    BY <2>3 DEF OtherCalled, CallStage
  <2>5. CASE Calls' = Calls
    BY <2>2, <2>5
  <2>6. CASE /\ t \in Leavers /\ CallStage(t) = "idle"
             /\ Calls' = [Calls EXCEPT ![t] = IF closed THEN "returned" ELSE "waiting"]
    <3>1. Promise!Leave(t)
      BY <2>2, <2>3, <2>6, OverIsClosed DEF Promise!Leave, Calls
    <3>2. QED
      BY <2>6, <3>1 DEF Promise!Next
  <2>7. CASE /\ t \in Leavers /\ CallStage(t) = "waiting"
             /\ closed \/ OtherCalled(t)
             /\ Calls' = [Calls EXCEPT ![t] = "returned"]
    <3>1. Promise!Return(t)
      BY <2>2, <2>3, <2>4, <2>7, OverIsClosed DEF Promise!Return, Calls
    <3>2. QED
      BY <2>7, <3>1 DEF Promise!Next
  <2>8. CASE /\ t \in Leavers /\ CallStage(t) = "waiting"
             /\ Calls' = [Calls EXCEPT ![t] = "abandoned"]
    <3>1. Promise!Abandon(t)
      BY <2>2, <2>3, <2>8 DEF Promise!Abandon, Calls
    <3>2. QED
      BY <2>8, <3>1 DEF Promise!Next
  <2>9. QED
    BY <2>1, <2>5, <2>6, <2>7, <2>8, CallMoves
<1>3. CASE Connect \/ Work
  <2>1. /\ UNCHANGED <<thread, told, closed>> /\ told = "none" /\ ~closed
    BY <1>3, TaskOnward, NotYetOver DEF LeaveInv
  <2>2. Calls' = Calls
    BY <2>1 DEF Calls, CallStage
  <2>3. phase' = "open" => phase = "open"
    <3> USE DEF OnlyPc, Rest
    <3>1. CASE Connect
      BY <3>1 DEF Connect, Enter, ConnectOk, ConnectFails, ConnectWoken, ConnectFailed,
           SleepWoken, SleepOver, RequestSent, RequestFails, AwaitWoken, Accepted, Refused,
           RequestFailed, MaxTimeout
    <3>2. CASE Work
      BY <3>2 DEF Work, ProcessOp, ProcessDone, RecvWoken, RecvEvent, RecvClosed, WorkOver
    <3>3. QED
      BY <1>3, <3>1, <3>2
  <2>4. \/ LifeStage' = LifeStage
        \/ LifeStage = "opening" /\ LifeStage' = "open"
    BY <2>1, <2>3 DEF LifeStage
  <2>5. QED
    BY <2>2, <2>4 DEF Promise!Next, Promise!Open, Calls
<1>4. CASE Close
  <2>1. thread' = thread /\ phase' = phase /\ Calls' = Calls
    BY <1>4, TaskOnward DEF Calls, CallStage
  <2>2. \/ LifeStage' = LifeStage
        \/ LifeStage \in {"opening", "open"} /\ LifeStage' = "closed"
        \/ LifeStage = "closed" /\ LifeStage' = "told"
    BY <1>4, <2>1, CloseMoves DEF LifeStage, LeaveInv
  <2>3. QED
    BY <2>1, <2>2 DEF Promise!Next, Promise!Close, Promise!Tell, Calls
<1>5. CASE Finish \/ Gone \/ UNCHANGED vars
  <2>1. UNCHANGED <<thread, told, closed, phase>>
    BY <1>5 DEF Finish, Gone, vars, taskVars, sharedVars
  <2>2. QED
    BY <2>1 DEF Calls, CallStage, LifeStage
<1>6. QED
  BY <1>2, <1>3, <1>4, <1>5 DEF Next

(* The task and the calling threads keep the promise made to those who leave: a    *)
(* session opens at most once and closes once, the listener is told once and       *)
(* after that, and a leave that found the session alive returns only when it has   *)
(* closed or another leave was called.                                            *)
THEOREM PromiseKept == Spec => KeepsPromise
<1>1. Init => TypeOK /\ LeaveInv /\ Promise!Init
  BY TypeInit, LeaveInit, PromiseInit
<1>2. TypeOK /\ LeaveInv /\ [Next]_vars => (TypeOK /\ LeaveInv)'
  BY TypeStep, LeaveStep
<1>3. TypeOK /\ LeaveInv /\ [Next]_vars
        => [Promise!Next]_<<LifeStage, [t \in Leavers |-> CallStage(t)]>>
  BY PromiseStep DEF Calls
<1>4. QED
  BY <1>1, <1>2, <1>3, PTL DEF Spec, KeepsPromise, Promise!Spec
================================================================================
