---------------------------------- MODULE Actor ----------------------------------
(* The actor runtime of kit/actor/actor.rs: callers put operations in a bounded     *)
(* mailbox, one task (run_actor) takes them, the owner's Actor value asks for the   *)
(* end when it is dropped.  A call stands for one caller: he holds an Invoker until *)
(* his call is over, or a WeakInvoker he has yet to upgrade.                        *)
(*                                                                                  *)
(* The channel is tokio's and external: permits go to waiting senders in the order  *)
(* they came, a sender with a permit still has to push, try_send finds only permits *)
(* that nobody waits for, and the receiver going away fails senders and drops what  *)
(* is queued.  What the handlers do is the user's: they may fail or finish the      *)
(* actor, and they return.                                                          *)
EXTENDS Naturals, Sequences

CONSTANTS Calls, Owner,   \* the callers, and the Actor value's own operation
          MailboxSize,    \* capacity of the channel (128)
          MoreOps         \* operations handle_more_op takes at most (8)

ASSUME ActorAssumption == /\ Owner \notin Calls
                          /\ MailboxSize \in Nat \ {0} /\ MoreOps \in Nat

VARIABLES
  call,      \* where each caller is: "weak" or "idle" before; "sending" in the channel's queue,
             \* "waiting" for a response; "ok", "err", "abandoned" or "gone" (never made) after
  op,        \* the Op of each call
  waiters,   \* callers in Sender::send without having pushed, in order
  mailbox,   \* the channel
  handle,    \* the Actor value: "held", "dropping" (the flag is set) or "gone"
  is_drop,   \* Actor::is_drop
  pc,        \* where run_actor is
  current,   \* the operation it handles
  budget,    \* what is left of handle_more_op's loop
  ran,       \* history: how often the handler of each call was run
  order,     \* history: operations in the order they entered the mailbox
  taken,     \* history: how many of them the task took
  at_drop    \* history: how many when is_drop was set

callVars  == <<call, op>>
chanVars  == <<waiters, mailbox, order>>
ownerVars == <<handle, is_drop, at_drop>>
taskVars  == <<pc, current, budget, ran, taken>>
vars == <<callVars, chanVars, ownerVars, taskVars>>

Ops == {"invoke", "msg", "shutdown"}

Init ==
  /\ call \in [Calls -> {"idle", "weak"}]
  /\ op = [c \in Calls |-> "none"]
  /\ waiters = <<>> /\ mailbox = <<>> /\ order = <<>>
  /\ handle = "held" /\ is_drop = FALSE /\ at_drop = 0
  /\ pc = "first" /\ current = Owner /\ budget = 0
  /\ ran = [c \in Calls |-> 0] /\ taken = 0

-------------------------------------------------------------------------------
(* The channel.                                                                     *)
Over == pc = "done"
Strong == handle # "gone" \/ \E c \in Calls : call[c] \in {"idle", "sending", "waiting"}

Free == Len(mailbox) + Len(waiters) < MailboxSize
Granted(c) == \E i \in 1..Len(waiters) :
                waiters[i] = c /\ i + Len(mailbox) <= MailboxSize

Enter(o) == mailbox' = Append(mailbox, o) /\ order' = Append(order, o)
Without(c) == SelectSeq(waiters, LAMBDA w : w # c)

-------------------------------------------------------------------------------
(* The callers.  invoke, send_msg, shutdown: the operation is sent ...              *)
Send(c, o) ==
  /\ call[c] = "idle"
  /\ op' = [op EXCEPT ![c] = o]
  /\ \/ Over /\ call' = [call EXCEPT ![c] = "err"] /\ UNCHANGED waiters
     \/ ~Over /\ call' = [call EXCEPT ![c] = "sending"] /\ waiters' = Append(waiters, c)
  /\ UNCHANGED <<mailbox, order, ownerVars, taskVars>>

(* ... when there is room; an invoke then waits for its response.                   *)
Push(c) ==
  /\ call[c] = "sending" /\ Granted(c)
  /\ Enter(c) /\ waiters' = Without(c)
  /\ call' = [call EXCEPT ![c] = IF op[c] = "invoke" THEN "waiting" ELSE "ok"]
  /\ UNCHANGED <<op, ownerVars, taskVars>>

(* try_send_msg does not wait: a full mailbox gives the message back.               *)
TrySend(c) ==
  /\ call[c] = "idle"
  /\ op' = [op EXCEPT ![c] = "msg"]
  /\ \/ ~Over /\ Free /\ Enter(c) /\ call' = [call EXCEPT ![c] = "ok"]
     \/ (Over \/ ~Free)
          /\ call' = [call EXCEPT ![c] = "err"] /\ UNCHANGED <<mailbox, order>>
  /\ UNCHANGED <<waiters, ownerVars, taskVars>>

(* A caller drops the future of his call, or his Invoker.                           *)
Abandon(c) ==
  /\ call[c] \in {"sending", "waiting"}
  /\ call' = [call EXCEPT ![c] = "abandoned"]
  /\ waiters' = Without(c)
  /\ UNCHANGED <<op, mailbox, order, ownerVars, taskVars>>

DropInvoker(c) ==
  /\ call[c] = "idle"
  /\ call' = [call EXCEPT ![c] = "gone"]
  /\ UNCHANGED <<op, chanVars, ownerVars, taskVars>>

(* WeakInvoker::upgrade.                                                            *)
Upgrade(c) ==
  /\ call[c] = "weak"
  /\ call' = [call EXCEPT ![c] = IF Strong THEN "idle" ELSE "gone"]
  /\ UNCHANGED <<op, chanVars, ownerVars, taskVars>>

(* Actor::drop: the flag, then a Shutdown if it fits, then the Invoker goes.        *)
DropFlag ==
  /\ handle = "held"
  /\ handle' = "dropping" /\ is_drop' = TRUE /\ at_drop' = taken
  /\ UNCHANGED <<callVars, chanVars, taskVars>>

DropShutdown ==
  /\ handle = "dropping"
  /\ handle' = "gone"
  /\ IF ~Over /\ Free THEN Enter(Owner) ELSE UNCHANGED <<mailbox, order>>
  /\ UNCHANGED <<callVars, waiters, is_drop, at_drop, taskVars>>

-------------------------------------------------------------------------------
(* The task.  It ends: op_rx is dropped, and with it the operations and the         *)
(* senders of their responses.                                                      *)
EndKeepsMailbox ==    \* defective variant: what is queued is kept
  /\ pc' = "done"
  /\ waiters' = <<>> /\ UNCHANGED mailbox
  /\ call' = [c \in Calls |-> IF call[c] = "sending" THEN "err" ELSE call[c]]

End ==
  /\ pc' = "done"
  /\ waiters' = <<>> /\ mailbox' = <<>>
  /\ call' = [c \in Calls |-> IF call[c] \in {"sending", "waiting"} THEN "err" ELSE call[c]]

Goto(p) == pc' = p /\ UNCHANGED <<call, waiters, mailbox>>

First ==
  /\ pc = "first"
  /\ Goto("select") \/ End
  /\ UNCHANGED <<op, order, ownerVars, current, budget, ran, taken>>

(* The select: handle_next fails, an operation comes, or can never come.  What      *)
(* handle_next does otherwise is not visible here.                                  *)
NextFails ==
  /\ pc = "select" /\ End
  /\ UNCHANGED <<op, order, ownerVars, current, budget, ran, taken>>

TakeOp(left) ==
  /\ mailbox # <<>>
  /\ current' = Head(mailbox) /\ mailbox' = Tail(mailbox) /\ taken' = taken + 1
  /\ budget' = left /\ pc' = "handle"
  /\ UNCHANGED <<callVars, waiters, order, ownerVars, ran>>

Take == pc = "select" /\ TakeOp(MoreOps)

NoSenders ==
  /\ pc = "select" /\ mailbox = <<>> /\ ~Strong /\ End
  /\ UNCHANGED <<op, order, ownerVars, current, budget, ran, taken>>

(* handle_op: a Shutdown ends the task; a message is handled, which may end it; an   *)
(* invoke whose caller has gone is skipped, else handled ...                        *)
OpOf(o) == IF o = Owner THEN "shutdown" ELSE op[o]

HandleShutdown ==
  /\ pc = "handle" /\ OpOf(current) = "shutdown" /\ End
  /\ UNCHANGED <<op, order, ownerVars, current, budget, ran, taken>>

HandleMsg ==
  /\ pc = "handle" /\ OpOf(current) = "msg"
  /\ ran' = [ran EXCEPT ![current] = @ + 1]
  /\ Goto("more") \/ End
  /\ UNCHANGED <<op, order, ownerVars, current, budget, taken>>

RespondBeforeRun ==    \* defective variant: an invoke that is skipped is answered too
  /\ pc = "handle" /\ OpOf(current) = "invoke"
  /\ call' = [call EXCEPT ![current] = "ok"]
  /\ pc' = "more"
  /\ UNCHANGED <<op, chanVars, ownerVars, current, budget, ran, taken>>

SkipWaiting ==    \* defective variant: an invoke is skipped though its caller waits
  /\ pc = "handle" /\ OpOf(current) = "invoke"
  /\ Goto("more")
  /\ UNCHANGED <<op, order, ownerVars, current, budget, ran, taken>>

SkipInvoke ==
  /\ pc = "handle" /\ OpOf(current) = "invoke" /\ call[current] = "abandoned"
  /\ Goto("more")
  /\ UNCHANGED <<op, order, ownerVars, current, budget, ran, taken>>

HandleInvoke ==
  /\ pc = "handle" /\ OpOf(current) = "invoke" /\ call[current] # "abandoned"
  /\ ran' = [ran EXCEPT ![current] = @ + 1]
  /\ Goto("running")
  /\ UNCHANGED <<op, order, ownerVars, current, budget, taken>>

(* ... and answered, if its caller still waits.                                     *)
Respond ==
  /\ pc = "running"
  /\ call' = [call EXCEPT ![current] = IF @ = "waiting" THEN "ok" ELSE @]
  /\ pc' = "more"
  /\ UNCHANGED <<op, chanVars, ownerVars, current, budget, ran, taken>>

(* handle_more_op: some more operations while there are any, then the flag.         *)
MoreOp == pc = "more" /\ budget > 0 /\ TakeOp(budget - 1)

MoreNoSenders ==
  /\ pc = "more" /\ budget > 0 /\ mailbox = <<>> /\ ~Strong /\ End
  /\ UNCHANGED <<op, order, ownerVars, current, budget, ran, taken>>

MoreDoneNoFlag ==    \* defective variant: only a Shutdown ends the task
  /\ pc = "more"
  /\ budget = 0 \/ (mailbox = <<>> /\ Strong)
  /\ Goto("select")
  /\ UNCHANGED <<op, order, ownerVars, current, budget, ran, taken>>

MoreDoneOnEmpty ==    \* defective variant: the flag is read only when the mailbox is empty
  /\ pc = "more"
  /\ budget = 0 \/ (mailbox = <<>> /\ Strong)
  /\ IF is_drop /\ mailbox = <<>> THEN End ELSE Goto("select")
  /\ UNCHANGED <<op, order, ownerVars, current, budget, ran, taken>>

MoreDone ==
  /\ pc = "more"
  /\ budget = 0 \/ (mailbox = <<>> /\ Strong)
  /\ IF is_drop THEN End ELSE Goto("select")
  /\ UNCHANGED <<op, order, ownerVars, current, budget, ran, taken>>

-------------------------------------------------------------------------------
Caller(c) == \/ \E o \in Ops : Send(c, o)
             \/ Push(c) \/ TrySend(c) \/ Abandon(c) \/ DropInvoker(c) \/ Upgrade(c)

Handle == HandleShutdown \/ HandleMsg \/ SkipInvoke \/ HandleInvoke \/ Respond
More == MoreOp \/ MoreNoSenders \/ MoreDone

Finished == Over /\ (\A c \in Calls : call[c] \notin {"idle", "weak"})
              /\ handle = "gone" /\ UNCHANGED vars

Next == \/ \E c \in Calls : Caller(c)
        \/ DropFlag \/ DropShutdown
        \/ First \/ NextFails \/ Take \/ NoSenders \/ Handle \/ More
        \/ Finished

Spec == Init /\ [][Next]_vars

(* The task is polled and handlers return; a select picks among ready branches at   *)
(* random, so events of the actor do not hide its mailbox for ever; a sender with a *)
(* permit pushes.  Nobody need call, or drop anything he holds.                     *)
Fairness == /\ WF_vars(First \/ NoSenders \/ Handle \/ More)
            /\ SF_vars(Take)
            /\ \A c \in Calls : WF_vars(Push(c))

FairSpec == Spec /\ Fairness

-------------------------------------------------------------------------------
(* Properties.                                                                      *)

(* An invoke that returns a response was run exactly once, one that returns an      *)
(* error never was: a caller told of an error may safely call somebody else.        *)
AnswerTrue ==
  \A c \in Calls : op[c] = "invoke" =>
    /\ ran[c] <= 1
    /\ call[c] = "ok" => ran[c] = 1
    /\ call[c] = "err" => ran[c] = 0

(* Operations are served in the order they came, none is passed over: before the    *)
(* next is taken, each was run or its caller had gone, so a shutdown lets all that  *)
(* came before it be served.                                                        *)
NoneSkipped ==
  /\ \A i \in 1..(taken - 1) : order[i] \in Calls
       /\ (ran[order[i]] = 1 \/ call[order[i]] = "abandoned")
  /\ pc # "done" => mailbox = SubSeq(order, taken + 1, Len(order))

(* Once the Actor value is being dropped the task takes at most one more round of   *)
(* operations, however many keep coming.                                            *)
FewAfterDrop == is_drop => taken <= at_drop + MoreOps + 1

(* The task ends after the Actor value is gone, though its Shutdown may not have    *)
(* found room: if anything is in the mailbox, the flag is read after it.            *)
DropEnds == handle = "gone" /\ mailbox # <<>> ~> Over

(* Every call returns: it is served, or fails when the task ends.                   *)
CallsReturn ==
  \A c \in Calls : call[c] \in {"sending", "waiting"} ~> call[c] \in {"ok", "err", "abandoned"}
=================================================================================
