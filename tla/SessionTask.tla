------------------------------ MODULE SessionTask ------------------------------
(* The life of a session: the worker task of client/worker.rs from its first     *)
(* connection attempt to on_closed, and the threads that call it through the     *)
(* SignalClient of glue/client.rs: requests, leave_room_and_wait, and the drop   *)
(* of the client.  They share an inbox, a channel of capacity one that only      *)
(* wakes the task, a shutdown mode, and the sender of the pending leave.         *)
(*                                                                               *)
(* What travels on the connection is left to SessionLink: here a connection      *)
(* attempt, a request and a packet just succeed or fail, and timers may fire     *)
(* whenever the task waits for them.                                             *)
EXTENDS Naturals, Sequences

CONSTANTS Callers,      \* threads that call conn_x, pub_stream, ...
          Leavers,      \* threads that call leave_room_and_wait ...
          ForceLeavers, \* ... and those that pass force = true
          NoLeaver      \* leave_tx holds no sender

ASSUME TaskAssumption == /\ ForceLeavers \subseteq Leavers
                         /\ NoLeaver \notin Leavers
                         /\ Callers \cap Leavers = {}

VARIABLES
  phase,       \* phase_open, phase_work or phase_reconnect
  pc,          \* where the task awaits
  got_closed,  \* Flag::got_closed: "none", "guard" or "server"
  cause,       \* history: why the task ended
  told,        \* history: the status on_closed was called with
  token,       \* the channel holds its one element
  finished,    \* the client was dropped: the channel has no sender left
  mode,        \* Worker::shutdown_mode
  inbox,       \* Shared::inbox, each operation named by the thread that pushed it
  leave_tx,    \* Shared::leave_tx
  closed,      \* Shared::closed
  freed,       \* leavers whose receiver got a value or lost its sender
  thread,      \* where each calling thread is
  done         \* history: operations the task took from the inbox

taskVars   == <<phase, pc, got_closed, cause, told>>
sharedVars == <<token, finished, mode, inbox, leave_tx, closed>>
vars == <<taskVars, sharedVars, freed, thread, done>>

Threads == Callers \cup Leavers

Init ==
  /\ phase = "open" /\ pc = "enter" /\ got_closed = "none"
  /\ cause = "none" /\ told = "none"
  /\ token = FALSE /\ finished = FALSE /\ mode = "None"
  /\ inbox = <<>> /\ leave_tx = NoLeaver /\ closed = FALSE
  /\ freed = {} /\ done = {}
  /\ thread = [t \in Threads |-> "idle"]

-------------------------------------------------------------------------------
(* The calling threads.                                                          *)
Step(t, from, to) == thread[t] = from /\ thread' = [thread EXCEPT ![t] = to]

(* Worker::commit fills the channel unless it is full; it fails when the task,    *)
(* and the receiver with it, is gone.                                            *)
Commit == token' = (token \/ pc # "gone")

(* commit_op: push the operation, then commit.                                   *)
Push(t, from, to) ==
  /\ Step(t, from, to)
  /\ inbox' = Append(inbox, t)
  /\ UNCHANGED <<taskVars, token, finished, mode, leave_tx, closed, freed, done>>

Request(t) == t \in Callers /\ ~finished /\ Push(t, "idle", "pushed")

RequestCommits(t) ==
  /\ t \in Callers /\ Step(t, "pushed", "done")
  /\ Commit
  /\ UNCHANGED <<taskVars, finished, mode, inbox, leave_tx, closed, freed, done>>

(* leave_room_and_wait, one shared access at a time.                             *)
LeaveSkips(t) ==
  /\ t \in Leavers /\ ~finished /\ closed
  /\ Step(t, "idle", "done")
  /\ UNCHANGED <<taskVars, sharedVars, freed, done>>

LeaveStarts(t) ==
  /\ t \in Leavers /\ ~finished /\ ~closed
  /\ Step(t, "idle", "mode")
  /\ UNCHANGED <<taskVars, sharedVars, freed, done>>

LeaveSetsMode(t) ==
  /\ t \in Leavers /\ Step(t, "mode", "tx")
  /\ mode' = IF t \in ForceLeavers THEN "Force" ELSE "Graceful"
  /\ UNCHANGED <<taskVars, token, finished, inbox, leave_tx, closed, freed, done>>

(* The sender that was stored is dropped.                                        *)
LeaveSetsTx(t) ==
  /\ t \in Leavers /\ Step(t, "tx", "push")
  /\ leave_tx' = t
  /\ freed' = freed \cup ({leave_tx} \ {NoLeaver})
  /\ UNCHANGED <<taskVars, token, finished, mode, inbox, closed, done>>

LeavePushes(t) == t \in Leavers /\ Push(t, "push", "commit")

LeaveCommits(t) ==
  /\ Step(t, "commit", IF pc = "gone" THEN "failed" ELSE "committed")
  /\ Commit
  /\ UNCHANGED <<taskVars, finished, mode, inbox, leave_tx, closed, freed, done>>

(* The second commit, whose result is ignored.                                   *)
LeaveCommitsAgain(t) ==
  /\ Step(t, "committed", "wait") \/ Step(t, "failed", "clear")
  /\ Commit
  /\ UNCHANGED <<taskVars, finished, mode, inbox, leave_tx, closed, freed, done>>

LeaveClears(t) ==
  /\ Step(t, "clear", "done")
  /\ leave_tx' = NoLeaver
  /\ freed' = freed \cup ({leave_tx} \ {NoLeaver})
  /\ UNCHANGED <<taskVars, token, finished, mode, inbox, closed, done>>

LeaveReturns(t) ==
  /\ t \in freed
  /\ Step(t, "wait", "done")
  /\ UNCHANGED <<taskVars, sharedVars, freed, done>>

(* The caller drops the future where it awaits: the receiver is gone, the sender, *)
(* the operation and the mode stay behind, and sending to it does nothing.       *)
LeaveAbandoned(t) ==
  /\ Step(t, "wait", "abandoned")
  /\ UNCHANGED <<taskVars, sharedVars, freed, done>>

(* Nobody holds the client any more: dropped, or consumed by into_finish.        *)
Finish ==
  /\ ~finished /\ \A t \in Threads : thread[t] \in {"idle", "done", "abandoned"}
  /\ finished' = TRUE
  /\ UNCHANGED <<taskVars, token, mode, inbox, leave_tx, closed, freed, thread, done>>

-------------------------------------------------------------------------------
(* The task.  should_break: while opening, any shutdown mode ends it; later only *)
(* a forced one.                                                                 *)
BreaksOnAny == mode # "None"   \* defective variant: graceful cuts a session off too

ShouldBreak == mode = "Force" \/ (phase = "open" /\ mode = "Graceful")

(* run: the error path reports the status of an Err, unless got_closed is set;    *)
(* the Ok path reports the default status whatever got_closed holds.             *)
End(why) == pc' = "closing" /\ cause' = why

Goto(to) == pc' = to /\ UNCHANGED cause

(* rx.recv() is ready: a token, or, once all senders are gone, the end of the     *)
(* channel, which check_guard turns into an error.                               *)
TakeToken  == token /\ token' = FALSE /\ UNCHANGED got_closed
EndOfQueue == ~token /\ finished /\ got_closed' = "guard" /\ UNCHANGED token

Rest == UNCHANGED <<told, finished, mode, inbox, leave_tx, closed, freed, thread, done>>
OnlyPc == Rest /\ UNCHANGED <<phase, got_closed, token>>

(* connect_loop is entered.                                                      *)
Enter ==
  /\ pc = "enter"
  /\ IF ShouldBreak THEN End("canceled") ELSE Goto("connect")
  /\ OnlyPc

ConnectOk     == pc = "connect" /\ Goto("request") /\ OnlyPc
ConnectFails  == pc = "connect" /\ Goto("connect_failed") /\ OnlyPc

(* A token while connecting: canceled, or the attempt starts over.               *)
ConnectWoken ==
  /\ pc = "connect"
  /\ \/ TakeToken /\ Goto(IF ShouldBreak THEN "connect_failed" ELSE "connect")
     \/ EndOfQueue /\ Goto("connect_failed")
  /\ Rest /\ UNCHANGED phase

(* The shutdown mode is read again after a failure.                              *)
ConnectFailed ==
  /\ pc = "connect_failed"
  /\ IF ShouldBreak THEN End(IF got_closed = "none" THEN "canceled" ELSE "dropped")
                    ELSE Goto("connect_sleep")
  /\ OnlyPc

SleepIgnoresMode ==  \* defective variant: a wake-up during the pause is only swallowed
  /\ pc \in {"connect_sleep", "request_sleep"}
  /\ \/ TakeToken /\ Goto(pc)
     \/ EndOfQueue /\ End("dropped")
  /\ Rest /\ UNCHANGED phase

SleepWoken ==
  /\ pc \in {"connect_sleep", "request_sleep"}
  /\ \/ TakeToken /\ IF ShouldBreak THEN End("canceled") ELSE Goto(pc)
     \/ EndOfQueue /\ End("dropped")
  /\ Rest /\ UNCHANGED phase

SleepOver ==
  /\ \/ pc = "connect_sleep" /\ Goto("connect")
     \/ pc = "request_sleep" /\ Goto("enter")
  /\ OnlyPc

(* open_session or reconnect_session: the request goes out ...                   *)
RequestSent  == pc = "request" /\ Goto("await") /\ OnlyPc
RequestFails == pc \in {"request", "await"} /\ Goto("request_failed") /\ OnlyPc

(* ... a wake-up while it waits cancels it, or it waits on ...                   *)
AwaitWoken ==
  /\ pc = "await"
  /\ \/ TakeToken /\ Goto(IF ShouldBreak THEN "request_failed" ELSE "await")
     \/ EndOfQueue /\ Goto("request_failed")
  /\ Rest /\ UNCHANGED phase

(* ... accepted, on_opened is called if the session is new, and phase_work runs;  *)
(* after a reconnect the flush may still fail ...                                *)
Accepted ==
  /\ pc = "await"
  /\ \/ phase' = "work" /\ Goto("process")
     \/ phase = "reconnect" /\ UNCHANGED phase /\ Goto("request_failed")
  /\ Rest /\ UNCHANGED <<got_closed, token>>

(* ... refused, or answered by something else while opening, the task ends.      *)
Refused ==
  /\ pc = "await"
  /\ End("refused") \/ (phase = "open" /\ End("invalid"))
  /\ OnlyPc

RequestFailed ==
  /\ pc = "request_failed"
  /\ IF ShouldBreak THEN End(IF got_closed = "none" THEN "canceled" ELSE "dropped")
                    ELSE Goto("request_sleep")
  /\ OnlyPc

(* max_timeout covers phase_open and phase_reconnect whole.                      *)
MaxTimeout ==
  /\ phase \in {"open", "reconnect"}
  /\ pc \in {"connect", "connect_sleep", "request", "await", "request_sleep"}
  /\ End("timeout")
  /\ OnlyPc

(* phase_work: on_process takes the operations one by one; one that fails ends   *)
(* the phase, like a failing flush.                                              *)
ProcessOnlyOne ==    \* defective variant: one operation per wake-up
  /\ pc = "process" /\ inbox # <<>>
  /\ done' = done \cup {Head(inbox)} /\ inbox' = Tail(inbox)
  /\ Goto("recv") \/ Goto("work_failed")
  /\ UNCHANGED <<phase, got_closed, told, token, finished, mode, leave_tx, closed,
                 freed, thread>>

ProcessOp ==
  /\ pc = "process" /\ inbox # <<>>
  /\ done' = done \cup {Head(inbox)} /\ inbox' = Tail(inbox)
  /\ Goto("process") \/ Goto("work_failed")
  /\ UNCHANGED <<phase, got_closed, told, token, finished, mode, leave_tx, closed,
                 freed, thread>>

ProcessDone ==
  /\ pc = "process" /\ inbox = <<>>
  /\ Goto("recv") \/ Goto("work_failed")
  /\ OnlyPc

RecvWokenStays ==    \* defective variant: the wait goes on, as it does while connecting
  /\ pc = "recv"
  /\ \/ TakeToken /\ Goto(IF ShouldBreak THEN "work_over" ELSE "recv")
     \/ EndOfQueue /\ Goto("work_failed")
  /\ Rest /\ UNCHANGED phase

RecvWokenByEnd ==    \* defective variant: the end of the channel is a wake-up like another
  /\ pc = "recv"
  /\ \/ TakeToken /\ Goto(IF ShouldBreak THEN "work_over" ELSE "process")
     \/ ~token /\ finished /\ Goto("process") /\ UNCHANGED <<token, got_closed>>
  /\ Rest /\ UNCHANGED phase

RecvWoken ==
  /\ pc = "recv"
  /\ \/ TakeToken /\ Goto(IF ShouldBreak THEN "work_over" ELSE "process")
     \/ EndOfQueue /\ Goto("work_failed")
  /\ Rest /\ UNCHANGED phase

(* A packet or a heartbeat tick is handled, or fails.                            *)
RecvEvent == pc = "recv" /\ (Goto("process") \/ Goto("work_failed")) /\ OnlyPc

(* A Closed push.                                                                *)
RecvClosed ==
  /\ pc = "recv"
  /\ got_closed' = "server" /\ Goto("work_over")
  /\ Rest /\ UNCHANGED <<phase, token>>

(* try_run looks at what phase_work returned.                                    *)
WorkOver ==
  /\ pc \in {"work_over", "work_failed"}
  /\ \/ got_closed # "none" /\ UNCHANGED phase
          /\ End(IF got_closed = "server" THEN "closed" ELSE "dropped")
     \/ got_closed = "none" /\ finished /\ pc = "work_failed" /\ UNCHANGED phase
          /\ End("dropped")
     \/ got_closed = "none" /\ ~(finished /\ pc = "work_failed")
          /\ phase' = "reconnect" /\ Goto("enter")
  /\ Rest /\ UNCHANGED <<got_closed, token>>

(* DelegateImpl::on_closed: the flag, the pending leave, the listener; then the   *)
(* task returns and the receiver is dropped.                                     *)
SetClosedLate ==    \* defective variant: the flag is left to whoever comes later
  /\ pc = "closing"
  /\ Goto("release")
  /\ OnlyPc

SetClosed ==
  /\ pc = "closing"
  /\ closed' = TRUE /\ Goto("release")
  /\ UNCHANGED <<phase, got_closed, told, token, finished, mode, inbox, leave_tx,
                 freed, thread, done>>

ReleaseSignalsOnly ==    \* defective variant: the sender is left where it was
  /\ pc = "release"
  /\ Goto("tell")
  /\ OnlyPc

ReleaseUnchecked ==    \* defective variant: a sender is used that is not there
  /\ pc = "release"
  /\ leave_tx' = NoLeaver
  /\ freed' = freed \cup {leave_tx}
  /\ Goto("tell")
  /\ UNCHANGED <<phase, got_closed, told, token, finished, mode, inbox, closed,
                 thread, done>>

ReleaseLeave ==
  /\ pc = "release"
  /\ leave_tx' = NoLeaver
  /\ freed' = freed \cup ({leave_tx} \ {NoLeaver})
  /\ Goto("tell")
  /\ UNCHANGED <<phase, got_closed, told, token, finished, mode, inbox, closed,
                 thread, done>>

(* The status run computed: zero once got_closed is set, whether try_run returned *)
(* Ok or an error; else the server's for a refusal, or an internal error.        *)
Status == IF got_closed # "none" THEN "zero"
          ELSE IF cause = "refused" THEN "server" ELSE "internal"

TellListener ==
  /\ pc = "tell"
  /\ told' = Status /\ Goto("gone")
  /\ UNCHANGED <<phase, got_closed, sharedVars, freed, thread, done>>

-------------------------------------------------------------------------------
Thread(t) == \/ Request(t) \/ RequestCommits(t)
             \/ LeaveSkips(t) \/ LeaveStarts(t) \/ LeaveSetsMode(t) \/ LeaveSetsTx(t)
             \/ LeavePushes(t) \/ LeaveCommits(t) \/ LeaveCommitsAgain(t)
             \/ LeaveClears(t) \/ LeaveReturns(t) \/ LeaveAbandoned(t)

Connect == \/ Enter \/ ConnectOk \/ ConnectFails \/ ConnectWoken \/ ConnectFailed
           \/ SleepWoken \/ SleepOver \/ RequestSent \/ RequestFails \/ AwaitWoken
           \/ Accepted \/ Refused \/ RequestFailed \/ MaxTimeout
Work    == \/ ProcessOp \/ ProcessDone \/ RecvWoken \/ RecvEvent \/ RecvClosed \/ WorkOver
Close   == SetClosed \/ ReleaseLeave \/ TellListener

Gone == pc = "gone" /\ UNCHANGED vars

Next == (\E t \in Threads : Thread(t)) \/ Finish \/ Connect \/ Work \/ Close \/ Gone

Spec == Init /\ [][Next]_vars

(* A thread that entered a call finishes it; the task is polled; select! picks    *)
(* among ready branches at random, so a wake-up is not passed over forever; and  *)
(* max_timeout bounds each opening and each reconnect, though not their number.  *)
Continues(t) == \/ RequestCommits(t) \/ LeaveSetsMode(t) \/ LeaveSetsTx(t)
                \/ LeavePushes(t) \/ LeaveCommits(t) \/ LeaveCommitsAgain(t)
                \/ LeaveClears(t) \/ LeaveReturns(t)

Ended   == pc \in {"closing", "release", "tell", "gone"}
Dialing == phase \in {"open", "reconnect"} /\ ~Ended

Fairness == /\ \A t \in Threads : WF_vars(Continues(t))
            /\ WF_vars(ProcessOp \/ ProcessDone) /\ WF_vars(WorkOver) /\ WF_vars(Close)
            /\ SF_vars(RecvWoken)
            /\ []<>~Dialing

FairSpec == Spec /\ Fairness

-------------------------------------------------------------------------------
(* Properties.                                                                   *)
Pushed == {inbox[i] : i \in 1..Len(inbox)}

(* The variables keep their shapes.                                              *)
TypeOK ==
  /\ phase \in {"open", "work", "reconnect"}
  /\ pc \in {"enter", "connect", "connect_failed", "connect_sleep", "request", "await",
             "request_failed", "request_sleep", "process", "recv", "work_over",
             "work_failed", "closing", "release", "tell", "gone"}
  /\ got_closed \in {"none", "guard", "server"}
  /\ cause \in {"none", "canceled", "dropped", "refused", "invalid", "timeout", "closed"}
  /\ told \in {"none", "zero", "server", "internal"}
  /\ token \in BOOLEAN /\ finished \in BOOLEAN /\ closed \in BOOLEAN
  /\ mode \in {"None", "Graceful", "Force"}
  /\ inbox \in Seq(Threads) /\ leave_tx \in Leavers \cup {NoLeaver}
  /\ freed \subseteq Leavers /\ done \subseteq Threads
  /\ thread \in [Threads -> {"idle", "pushed", "mode", "tx", "push", "commit", "committed",
                             "failed", "wait", "clear", "done", "abandoned"}]

(* commit_op pushes and then wakes through a channel of one: while the working    *)
(* task waits for packets with an operation in the inbox, a wake-up is pending   *)
(* or its thread has yet to commit.  Wake-ups spent while connecting are made up *)
(* for by the on_process that starts phase_work.                                 *)
NoLostWakeup ==
  pc = "recv" /\ inbox # <<>> =>
    token \/ \E t \in Threads : thread[t] \in {"pushed", "commit"}

(* A shutdown mode that ends what the task is doing is never overlooked: wherever *)
(* the task waits, a wake-up is pending or a leaving thread has yet to commit.   *)
ShutdownSeen ==
  ShouldBreak /\ pc \in {"connect", "connect_sleep", "await", "request_sleep", "recv"} =>
    token \/ \E t \in Leavers : thread[t] \in {"tx", "push", "commit"}

(* Only a forced leave cuts an opened session off; a graceful one leaves it to    *)
(* the server's Closed push, even while the client reconnects.  And the task      *)
(* takes the client for dropped only when it is.                                 *)
GracefulNeverCuts ==
  /\ cause = "canceled" /\ phase # "open" =>
       \E t \in ForceLeavers : thread[t] \notin {"idle", "mode"}
  /\ cause = "dropped" => finished

(* The TODO in leave_room_and_wait: the wait must unblock even if on_closed        *)
(* arrives before the leave is processed.                                        *)
LeaveUnblocks == pc = "gone" => \A t \in Leavers : thread[t] = "wait" => t \in freed

(* Every operation pushed is taken by on_process, in whatever phase it came,      *)
(* unless the task ends.                                                         *)
EveryOpTaken == \A t \in Threads : t \in Pushed ~> (t \in done \/ pc = "gone")

(* A forced leave whose sender is in place before on_closed takes it returns,     *)
(* whatever the server does: the task ends, or another leave replaces it, unless *)
(* its caller gives up.                                                          *)
ForcedLeaveReturns ==
  \A t \in ForceLeavers :
    (leave_tx = t /\ mode = "Force" /\ ~closed) ~> thread[t] \in {"done", "abandoned"}

(* A dropped client stops its task, whatever the server does (into_finish waits  *)
(* for it).                                                                      *)
FinishEnds == finished ~> pc = "gone"

-------------------------------------------------------------------------------
(* What the caller of leave_room_and_wait may rely on.                           *)
LifeStage == IF told # "none" THEN "told"
             ELSE IF closed THEN "closed"
             ELSE IF phase = "open" THEN "opening" ELSE "open"

CallStage(t) == CASE thread[t] = "idle" -> "idle"
                  [] thread[t] = "done" -> "returned"
                  [] thread[t] = "abandoned" -> "abandoned"
                  [] OTHER -> "waiting"

Promise == INSTANCE LeavePromise WITH stage <- LifeStage,
                                      call <- [t \in Leavers |-> CallStage(t)]

(* The task and the calling threads keep that promise.                           *)
KeepsPromise == Promise!Spec
================================================================================
