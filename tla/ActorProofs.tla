------------------------------- MODULE ActorProofs -------------------------------
(* Proofs about Actor, for any callers, any capacity of the mailbox and any length   *)
(* of a round: operations are served in order and none is passed over, what a        *)
(* caller is told is true, and little is done after the owner dropped the actor.     *)
EXTENDS Actor, SequenceTheorems, TLAPS

Names == Calls \cup {Owner}

CallStates == {"weak", "idle", "sending", "waiting", "ok", "err", "abandoned", "gone"}

Typed ==
  /\ call \in [Calls -> CallStates] /\ op \in [Calls -> Ops \cup {"none"}]
  /\ order \in Seq(Names) /\ mailbox \in Seq(Names)
  /\ handle \in {"held", "dropping", "gone"} /\ is_drop \in BOOLEAN
  /\ pc \in {"first", "select", "handle", "running", "more", "done"}
  /\ current \in Names /\ budget \in 0..MoreOps
  /\ ran \in [Calls -> Nat] /\ taken \in Nat /\ at_drop \in Nat

(* The end of the task keeps the types, and so does staying.                         *)
LEMMA EndTyped ==
  ASSUME Typed, End \/ \E p \in {"select", "running", "more"} : Goto(p)
  PROVE  /\ call' \in [Calls -> CallStates] /\ mailbox' \in Seq(Names)
         /\ pc' \in {"first", "select", "handle", "running", "more", "done"}
<1>1. CASE End
  <2>1. <<>> \in Seq(Names)
    OBVIOUS
  <2>2. QED
    BY <1>1, <2>1 DEF End, Typed, CallStates
<1>2. CASE \E p \in {"select", "running", "more"} : Goto(p)
  BY <1>2 DEF Goto, Typed
<1>3. QED
  BY <1>1, <1>2

(* Taking the first operation of the mailbox does, too.                              *)
LEMMA TakeTyped ==
  ASSUME Typed, NEW left \in 0..MoreOps, TakeOp(left)
  PROVE  /\ mailbox # <<>> /\ mailbox' = Tail(mailbox) /\ mailbox' \in Seq(Names)
         /\ current' = Head(mailbox) /\ current' \in Names
         /\ Len(mailbox') = Len(mailbox) - 1 /\ Len(mailbox) \in Nat \ {0}
         /\ Head(mailbox) = mailbox[1]
         /\ \A i \in 1..Len(mailbox') : mailbox'[i] = mailbox[i + 1]
BY HeadTailProperties, EmptySeq DEF TakeOp, Typed

(* An operation that enters goes to the end of the mailbox and of the history.       *)
LEMMA EnterTyped ==
  ASSUME Typed, NEW o \in Names, Enter(o)
  PROVE  /\ mailbox' \in Seq(Names) /\ order' \in Seq(Names)
         /\ Len(mailbox) \in Nat /\ Len(order) \in Nat
         /\ Len(mailbox') = Len(mailbox) + 1 /\ Len(order') = Len(order) + 1
         /\ \A i \in 1..Len(mailbox) : mailbox'[i] = mailbox[i]
         /\ \A i \in 1..Len(order) : order'[i] = order[i]
         /\ mailbox'[Len(mailbox) + 1] = o /\ order'[Len(order) + 1] = o
BY AppendProperties DEF Enter, Typed

LEMMA TypedInit == Init => Typed
<1> SUFFICES ASSUME Init PROVE Typed
  OBVIOUS
<1>1. <<>> \in Seq(Names) /\ 0 \in 0..MoreOps
  BY ActorAssumption
<1>2. call \in [Calls -> CallStates]
  BY DEF Init, CallStates
<1>3. op \in [Calls -> Ops \cup {"none"}] /\ ran \in [Calls -> Nat]
  BY DEF Init
<1>4. QED
  BY <1>1, <1>2, <1>3 DEF Init, Typed, Names

(* The actions of the callers and the owner, and those of the task.                  *)
LEMMA TypedCaller ==
  ASSUME Typed, NEW c \in Calls, Caller(c)
  PROVE  Typed'
<1> USE DEF ownerVars, taskVars
<1>1. c \in Names /\ c \in Calls
  BY DEF Names
<1>2. \A v \in CallStates : [call EXCEPT ![c] = v] \in [Calls -> CallStates]
  BY DEF Typed
<1>3. CASE \E o \in Ops : Send(c, o)
  BY <1>2, <1>3 DEF Send, Typed, CallStates
<1>4. CASE Push(c)
  BY <1>1, <1>2, <1>4, EnterTyped DEF Push, Typed, CallStates
<1>5. CASE TrySend(c)
  BY <1>1, <1>2, <1>5, EnterTyped DEF TrySend, Typed, CallStates, Ops
<1>6. CASE Abandon(c)
  BY <1>2, <1>6 DEF Abandon, Typed, CallStates
<1>7. CASE DropInvoker(c)
  BY <1>2, <1>7 DEF DropInvoker, Typed, CallStates, chanVars
<1>8. CASE Upgrade(c)
  BY <1>2, <1>8 DEF Upgrade, Typed, CallStates, chanVars
<1>9. QED
  BY <1>3, <1>4, <1>5, <1>6, <1>7, <1>8 DEF Caller

LEMMA TypedOwner == Typed /\ (DropFlag \/ DropShutdown) => Typed'
<1> SUFFICES ASSUME Typed, DropFlag \/ DropShutdown PROVE Typed'
  OBVIOUS
<1>1. CASE DropFlag
  BY <1>1 DEF DropFlag, Typed, callVars, chanVars, taskVars
<1>2. CASE DropShutdown
  BY <1>2, EnterTyped DEF DropShutdown, Typed, callVars, taskVars, Names
<1>3. QED
  BY <1>1, <1>2

Task == First \/ NextFails \/ Take \/ NoSenders \/ Handle \/ More

(* The steps of the task that take, run and answer nothing: it goes on to another    *)
(* place or ends.                                                                    *)
Passes == First \/ NextFails \/ NoSenders \/ HandleShutdown \/ SkipInvoke
            \/ MoreNoSenders \/ MoreDone

LEMMA PassesShape ==
  ASSUME Passes
  PROVE  /\ UNCHANGED <<op, order, ownerVars, current, budget, ran, taken>>
         /\ End \/ Goto("select") \/ Goto("more")
         /\ pc # "running" /\ pc # "done"
         /\ Goto("more") => SkipInvoke
         /\ pc' = "select" => (First \/ (pc = "more" /\ ~is_drop))
BY DEF Passes, First, NextFails, NoSenders, HandleShutdown, SkipInvoke, MoreNoSenders,
       MoreDone, End, Goto

LEMMA TypedTask == Typed /\ Task => Typed'
<1> SUFFICES ASSUME Typed, Task PROVE Typed'
  OBVIOUS
<1> USE DEF ownerVars, callVars, chanVars
<1>1. MoreOps \in Nat /\ MoreOps \in 0..MoreOps
  BY ActorAssumption
<1>2. CASE Passes
  BY <1>2, PassesShape, EndTyped DEF Typed
<1>3. ASSUME NEW left \in 0..MoreOps, TakeOp(left) PROVE Typed'
  BY <1>3, TakeTyped DEF TakeOp, Typed
<1>4. CASE Take \/ MoreOp
  <2>1. budget > 0 /\ budget \in 0..MoreOps => budget - 1 \in 0..MoreOps
    BY <1>1
  <2>2. budget \in 0..MoreOps
    BY DEF Typed
  <2>3. CASE Take
    BY <1>1, <1>3, <2>3 DEF Take
  <2>4. CASE MoreOp
    BY <1>3, <2>1, <2>2, <2>4 DEF MoreOp
  <2>5. QED
    BY <1>4, <2>3, <2>4
<1>5. CASE HandleMsg \/ HandleInvoke
  <2>1. current \in Calls
    BY <1>5 DEF HandleMsg, HandleInvoke, OpOf, Typed, Names
  <2>2. ran' \in [Calls -> Nat]
    <3>1. ran \in [Calls -> Nat]
      BY DEF Typed
    <3>2. ran' = [ran EXCEPT ![current] = @ + 1]
      BY <1>5 DEF HandleMsg, HandleInvoke
    <3>3. ran[current] + 1 \in Nat
      BY <3>1, <2>1
    <3>4. QED
      BY <3>1, <3>2, <3>3
  <2>3. QED
    BY <1>5, <2>2, EndTyped DEF HandleMsg, HandleInvoke, Typed
<1>6. CASE Respond
  BY <1>6 DEF Respond, Typed, CallStates
<1>7. QED
  BY <1>2, <1>3, <1>4, <1>5, <1>6 DEF Task, Handle, More, Passes

LEMMA NextCases ==
  ASSUME [Next]_vars
  PROVE  \/ \E c \in Calls : Caller(c)
         \/ DropFlag \/ DropShutdown \/ Task
         \/ UNCHANGED vars
BY DEF Next, Finished, Task

LEMMA TypedStep == Typed /\ [Next]_vars => Typed'
<1> SUFFICES ASSUME Typed, [Next]_vars PROVE Typed'
  OBVIOUS
<1>1. CASE UNCHANGED vars
  BY <1>1 DEF vars, callVars, chanVars, ownerVars, taskVars, Typed
<1>2. QED
  BY <1>1, NextCases, TypedCaller, TypedOwner, TypedTask

-------------------------------------------------------------------------------
(* What is queued is what entered and was not taken: a caller enters at most once,   *)
(* the owner only while it is dropped, and nobody enters once the task is over.      *)
Entered(o) == \E i \in 1..Len(order) : order[i] = o

QueueInv ==
  /\ taken <= Len(order)
  /\ \A i, j \in 1..Len(order) : order[i] = order[j] => i = j
  /\ \A c \in Calls : Entered(c) => call[c] \in {"waiting", "ok", "err", "abandoned"}
  /\ \A c \in Calls : Entered(c) /\ call[c] = "err" => Over
  /\ Entered(Owner) => handle = "gone"
  /\ Over => \A c \in Calls : call[c] \notin {"sending", "waiting"}
  /\ ~Over => /\ Len(mailbox) = Len(order) - taken
              /\ \A i \in 1..Len(mailbox) : mailbox[i] = order[taken + i]
  /\ pc \in {"handle", "running"} => taken > 0 /\ current = order[taken]

LEMMA QueueInit == Init => QueueInv
BY DEF Init, QueueInv, Entered, Over

(* Nothing enters and nothing is taken: what the invariant needs of the rest.        *)
LEMMA QueueStays ==
  ASSUME Typed, QueueInv, UNCHANGED <<order, taken>>,
         \A c \in Calls : call[c] \in {"waiting", "ok", "err", "abandoned"}
                            => call'[c] \in {"waiting", "ok", "err", "abandoned"},
         \A c \in Calls : call'[c] = "err" => call[c] = "err" \/ ~Entered(c) \/ Over',
         handle = "gone" => handle' = "gone",
         Over' => \A c \in Calls : call'[c] \notin {"sending", "waiting"},
         Over => Over', ~Over' => mailbox' = mailbox,
         pc' \in {"handle", "running"} => pc \in {"handle", "running"} /\ current' = current
  PROVE  QueueInv'
BY DEF QueueInv, Entered

(* One that is new enters at the end.                                                *)
LEMMA QueueGrows ==
  ASSUME Typed, QueueInv, ~Over, UNCHANGED <<taken, pc, current>>,
         NEW o \in Names, Enter(o), ~Entered(o),
         o \in Calls => call'[o] \in {"waiting", "ok"},
         \A c \in Calls : c # o => call'[c] = call[c],
         handle' = handle \/ handle' = "gone", o = Owner => handle' = "gone"
  PROVE  QueueInv'
<1>1. /\ Len(mailbox) \in Nat /\ Len(order) \in Nat /\ taken \in Nat
      /\ Len(mailbox') = Len(mailbox) + 1 /\ Len(order') = Len(order) + 1
      /\ \A i \in 1..Len(mailbox) : mailbox'[i] = mailbox[i]
      /\ \A i \in 1..Len(order) : order'[i] = order[i]
      /\ mailbox'[Len(mailbox) + 1] = o /\ order'[Len(order) + 1] = o
  BY EnterTyped DEF Typed
<1>2. \A i \in 1..Len(order') : i \in 1..Len(order) \/ i = Len(order) + 1
  BY <1>1
<1>3. \A i \in 1..Len(order) : order[i] # o
  BY DEF Entered
<1>4. taken <= Len(order') /\ \A i, j \in 1..Len(order') : order'[i] = order'[j] => i = j
  <2>1. taken <= Len(order')
    BY <1>1 DEF QueueInv
  <2>2. ASSUME NEW i \in 1..Len(order'), NEW j \in 1..Len(order'), order'[i] = order'[j]
        PROVE  i = j
    BY <1>1, <1>2, <1>3, <2>2 DEF QueueInv
  <2>3. QED
    BY <2>1, <2>2
<1>5. \A p : Entered(p)' => Entered(p) \/ p = o
  BY <1>1, <1>2 DEF Entered
<1>6. \A c \in Calls : Entered(c)' => call'[c] \in {"waiting", "ok", "err", "abandoned"}
                                      /\ call'[c] # "err"
  BY <1>5 DEF QueueInv
<1>7. Entered(Owner)' => handle' = "gone"
  BY <1>5 DEF QueueInv
<1>8. Len(mailbox') = Len(order') - taken
      /\ \A i \in 1..Len(mailbox') : mailbox'[i] = order'[taken + i]
  <2>1. Len(mailbox) = Len(order) - taken /\ taken <= Len(order)
    BY DEF QueueInv
  <2>2. \A i \in 1..Len(mailbox) : taken + i \in 1..Len(order) /\ mailbox[i] = order[taken + i]
    BY <1>1, <2>1 DEF QueueInv
  <2>3. \A i \in 1..Len(mailbox') : i \in 1..Len(mailbox) \/ i = Len(mailbox) + 1
    BY <1>1
  <2>4. ASSUME NEW i \in 1..Len(mailbox') PROVE mailbox'[i] = order'[taken + i]
    <3>1. CASE i \in 1..Len(mailbox)
      BY <1>1, <2>2, <3>1
    <3>2. CASE i = Len(mailbox) + 1
      <4>1. taken + i = Len(order) + 1
        BY <1>1, <2>1, <3>2
      <4>2. QED
        BY <1>1, <3>2, <4>1
    <3>3. QED
      BY <2>3, <3>1, <3>2
  <2>5. QED
    BY <1>1, <2>1, <2>4
<1>9. pc' \in {"handle", "running"} => taken > 0 /\ current = order'[taken]
  <2>1. pc \in {"handle", "running"} => taken \in 1..Len(order)
    BY <1>1 DEF QueueInv
  <2>2. QED
    BY <1>1, <2>1 DEF QueueInv
<1>10. QED
  BY <1>4, <1>6, <1>7, <1>8, <1>9 DEF QueueInv, Over

(* The first is taken.                                                               *)
LEMMA QueueTakes ==
  ASSUME Typed, QueueInv, ~Over, NEW left \in 0..MoreOps, TakeOp(left)
  PROVE  QueueInv' /\ taken' = taken + 1 /\ taken' \in 1..Len(order)
         /\ current' = order[taken'] /\ UNCHANGED <<order, call, op, ran>>
<1>1. /\ Len(mailbox) \in Nat \ {0} /\ Len(order) \in Nat /\ taken \in Nat
      /\ Len(mailbox') = Len(mailbox) - 1
      /\ current' = mailbox[1]
      /\ \A i \in 1..Len(mailbox') : mailbox'[i] = mailbox[i + 1]
  BY TakeTyped DEF Typed
<1>2. /\ taken' = taken + 1 /\ pc' = "handle"
      /\ UNCHANGED <<order, call, op, ran, handle>>
  BY DEF TakeOp, callVars, ownerVars
<1>3. Len(mailbox) = Len(order) - taken
      /\ \A i \in 1..Len(mailbox) : mailbox[i] = order[taken + i]
  BY DEF QueueInv
<1>4. taken' \in 1..Len(order) /\ current' = order[taken']
  BY <1>1, <1>2, <1>3
<1>5. Len(mailbox') = Len(order) - taken'
      /\ \A i \in 1..Len(mailbox') : mailbox'[i] = order[taken' + i]
  <2>1. ASSUME NEW i \in 1..Len(mailbox') PROVE mailbox'[i] = order[taken' + i]
    <3>1. i + 1 \in 1..Len(mailbox) /\ taken + (i + 1) = taken' + i
      BY <1>1, <1>2
    <3>2. QED
      BY <1>1, <1>3, <3>1
  <2>2. QED
    BY <1>1, <1>2, <1>3, <2>1
<1>6. QueueInv'
  BY <1>1, <1>2, <1>4, <1>5 DEF QueueInv, Entered, Over
<1>7. QED
  BY <1>2, <1>4, <1>6

(* The call of another caller is not touched.                                        *)
LEMMA OneCall ==
  ASSUME Typed, NEW c \in Calls, NEW v, call' = [call EXCEPT ![c] = v]
  PROVE  call'[c] = v /\ \A d \in Calls : d # c => call'[d] = call[d]
BY DEF Typed

LEMMA QueueCaller ==
  ASSUME Typed, QueueInv, NEW c \in Calls, Caller(c)
  PROVE  QueueInv'
<1> USE DEF ownerVars, taskVars, chanVars
<1>1. c \in Names /\ c # Owner
  BY ActorAssumption DEF Names
<1>2. CASE \E o \in Ops : Send(c, o)
  <2>1. \/ Over /\ call' = [call EXCEPT ![c] = "err"]
        \/ ~Over /\ call' = [call EXCEPT ![c] = "sending"]
    BY <1>2 DEF Send
  <2>2. /\ call[c] = "idle" /\ \A d \in Calls : d # c => call'[d] = call[d]
        /\ Over => call'[c] = "err"
        /\ UNCHANGED <<order, taken, mailbox, handle, pc, current>>
    BY <1>2, <2>1, OneCall DEF Send
  <2>3. Over' = Over
    BY <2>2 DEF Over
  <2>4. Over' => \A d \in Calls : call'[d] \notin {"sending", "waiting"}
    BY <2>2, <2>3 DEF QueueInv
  <2>5. ~Entered(c)
    BY <2>2 DEF QueueInv
  <2>6. QED
    BY <2>2, <2>3, <2>4, <2>5, QueueStays
<1>3. CASE Push(c)
  <2>1. call[c] = "sending" /\ ~Over /\ ~Entered(c)
    BY <1>3 DEF Push, QueueInv
  <2>2. /\ call'[c] \in {"waiting", "ok"} /\ \A d \in Calls : d # c => call'[d] = call[d]
        /\ Enter(c) /\ UNCHANGED <<taken, pc, current, handle>>
    BY <1>3, OneCall DEF Push
  <2>3. QED
    BY <1>1, <2>1, <2>2, QueueGrows
<1>4. CASE TrySend(c)
  <2>1. call[c] = "idle" /\ ~Entered(c)
        /\ UNCHANGED <<taken, pc, current, handle>>
    BY <1>4 DEF TrySend, QueueInv
  <2>2. CASE ~Over /\ Enter(c) /\ call' = [call EXCEPT ![c] = "ok"]
    <3>1. call'[c] = "ok" /\ \A d \in Calls : d # c => call'[d] = call[d]
      BY <2>2, OneCall
    <3>2. QED
      BY <1>1, <2>1, <2>2, <3>1, QueueGrows
  <2>3. CASE call' = [call EXCEPT ![c] = "err"] /\ UNCHANGED <<mailbox, order>>
    <3>1. call'[c] = "err" /\ \A d \in Calls : d # c => call'[d] = call[d]
      BY <2>3, OneCall
    <3>2. Over' = Over
      BY <2>1 DEF Over
    <3>3. Over' => \A d \in Calls : call'[d] \notin {"sending", "waiting"}
      BY <3>1, <3>2 DEF QueueInv
    <3>4. QED
      BY <2>1, <2>3, <3>1, <3>2, <3>3, QueueStays
  <2>4. QED
    BY <1>4, <2>2, <2>3 DEF TrySend
<1>5. CASE Abandon(c) \/ DropInvoker(c) \/ Upgrade(c)
  <2>1. /\ call[c] \notin {"ok", "err", "abandoned"}
        /\ call'[c] \in {"abandoned", "gone", "idle"}
        /\ call[c] = "waiting" => call'[c] = "abandoned"
        /\ \A d \in Calls : d # c => call'[d] = call[d]
        /\ UNCHANGED <<order, taken, mailbox, handle, pc, current>>
    BY <1>5, OneCall DEF Abandon, DropInvoker, Upgrade
  <2>2. Over' = Over
    BY <2>1 DEF Over
  <2>3. Over' => \A d \in Calls : call'[d] \notin {"sending", "waiting"}
    BY <2>1, <2>2 DEF QueueInv
  <2>4. QED
    BY <2>1, <2>2, <2>3, QueueStays
<1>6. QED
  BY <1>2, <1>3, <1>4, <1>5 DEF Caller

LEMMA QueueOwner == Typed /\ QueueInv /\ (DropFlag \/ DropShutdown) => QueueInv'
<1> SUFFICES ASSUME Typed, QueueInv, DropFlag \/ DropShutdown PROVE QueueInv'
  OBVIOUS
<1>1. UNCHANGED <<call, taken, pc, current>> /\ handle # "gone"
  BY DEF DropFlag, DropShutdown, callVars, taskVars
<1>2. CASE UNCHANGED <<mailbox, order>>
  BY <1>1, <1>2, QueueStays DEF Over, QueueInv
<1>3. CASE ~Over /\ Enter(Owner) /\ handle' = "gone"
  <2>1. ~Entered(Owner) /\ Owner \in Names /\ Owner \notin Calls
    BY <1>1, ActorAssumption DEF QueueInv, Names
  <2>2. QED
    BY <1>1, <1>3, <2>1, QueueGrows
<1>4. QED
  BY <1>2, <1>3 DEF DropFlag, DropShutdown, chanVars

LEMMA QueueTask == Typed /\ QueueInv /\ Task => QueueInv'
<1> SUFFICES ASSUME Typed, QueueInv, Task PROVE QueueInv'
  OBVIOUS
<1> USE DEF ownerVars, callVars, chanVars
<1>1. CASE Take \/ MoreOp
  <2>1. \E left \in 0..MoreOps : ~Over /\ TakeOp(left)
    BY <1>1, ActorAssumption DEF Take, MoreOp, Over, Typed
  <2>2. QED
    BY <2>1, QueueTakes
<1>2. CASE Respond
  <2>1. /\ UNCHANGED <<order, taken, mailbox, handle>> /\ pc' = "more" /\ pc = "running"
        /\ \A c \in Calls : call'[c] = call[c] \/ call'[c] = "ok"
    BY <1>2 DEF Respond, Typed
  <2>2. QED
    BY <2>1, QueueStays DEF Over
<1>3. CASE Passes \/ HandleMsg \/ HandleInvoke
  <2>1. /\ UNCHANGED <<order, taken, handle, current>>
        /\ pc # "done"
        /\ End \/ \E p \in {"select", "more", "running"} : Goto(p)
        /\ Goto("running") => pc = "handle"
    BY <1>3, PassesShape DEF HandleMsg, HandleInvoke, End, Goto
  <2>2. CASE End
    <3>1. \A c \in Calls : call'[c] = IF call[c] \in {"sending", "waiting"} THEN "err"
                                      ELSE call[c]
      BY <2>2 DEF End
    <3>2. pc' = "done"
      BY <2>2 DEF End
    <3>3. QED
      BY <2>1, <3>1, <3>2, QueueStays DEF Over
  <2>3. CASE \E p \in {"select", "more", "running"} : Goto(p)
    BY <2>1, <2>3, QueueStays DEF Goto, Over
  <2>4. QED
    BY <2>1, <2>2, <2>3
<1>4. QED
  BY <1>1, <1>2, <1>3 DEF Task, Handle, More, Passes

LEMMA QueueStep == Typed /\ QueueInv /\ [Next]_vars => QueueInv'
<1> SUFFICES ASSUME Typed, QueueInv, [Next]_vars PROVE QueueInv'
  OBVIOUS
<1>1. CASE UNCHANGED vars
  BY <1>1 DEF vars, callVars, chanVars, ownerVars, taskVars, QueueInv, Entered, Over
<1>2. QED
  BY <1>1, NextCases, QueueCaller, QueueOwner, QueueTask

-------------------------------------------------------------------------------
(* Who was run.  AnswerTrue is not inductive: it holds because an invoke whose       *)
(* caller waits has not been run, or is the one being run now; because the one        *)
(* about to be handled was not run before; and because nobody is run before he is     *)
(* taken.                                                                            *)
Served(o) == o \in Calls /\ (ran[o] = 1 \/ call[o] = "abandoned")

RunInv ==
  /\ \A c \in Calls : (\A i \in 1..taken : order[i] # c) => ran[c] = 0
  /\ \A c \in Calls : ran[c] <= 1
  /\ pc = "handle" /\ current \in Calls => ran[current] = 0
  /\ pc = "running" => current \in Calls /\ op[current] = "invoke" /\ ran[current] = 1
  /\ \A c \in Calls : call[c] = "waiting" =>
       op[c] = "invoke" /\ (ran[c] = 0 \/ (pc = "running" /\ current = c))
  /\ AnswerTrue
  /\ \A i \in 1..(taken - 1) : Served(order[i])
  /\ taken > 0 /\ pc \in {"first", "select", "more"} => Served(order[taken])

LEMMA RunInit == Init => RunInv
<1> SUFFICES ASSUME Init PROVE RunInv
  OBVIOUS
<1>1. /\ taken = 0 /\ pc = "first" /\ \A c \in Calls : ran[c] = 0
      /\ \A c \in Calls : op[c] = "none" /\ call[c] \in {"idle", "weak"}
  BY DEF Init
<1>2. QED
  BY <1>1 DEF RunInv, AnswerTrue

(* Whoever is not in the history was never run.                                      *)
LEMMA NotRun ==
  ASSUME Typed, QueueInv, RunInv, NEW c \in Calls,
         call[c] \in {"idle", "weak", "sending", "gone"}
  PROVE  ran[c] = 0
<1>1. \A i \in 1..taken : i \in 1..Len(order)
  BY DEF QueueInv, Typed
<1>2. QED
  BY <1>1 DEF QueueInv, RunInv, Entered

(* A caller's step: what it needs to keep who was run.                               *)
LEMMA RunCaller ==
  ASSUME Typed, QueueInv, RunInv, NEW c \in Calls, Caller(c)
  PROVE  RunInv'
<1> USE DEF ownerVars, taskVars, chanVars
<1>1. UNCHANGED <<taken, pc, current, ran>> /\ \A i \in 1..taken : order'[i] = order[i]
  <2>1. \A i \in 1..taken : i \in 1..Len(order)
    BY DEF QueueInv, Typed
  <2>2. Enter(c) => \A i \in 1..taken : order'[i] = order[i]
    BY <2>1, EnterTyped DEF Names
  <2>3. QED
    BY <2>2 DEF Caller, Send, Push, TrySend, Abandon, DropInvoker, Upgrade
<1>2. \A d \in Calls : d # c => call'[d] = call[d] /\ op'[d] = op[d]
  BY DEF Caller, Send, Push, TrySend, Abandon, DropInvoker, Upgrade, Typed
<1>3. \/ /\ call[c] = "idle" /\ call'[c] \in {"err", "sending"} /\ op'[c] # "none"
      \/ /\ call[c] = "sending" /\ op'[c] = op[c]
         /\ call'[c] = IF op[c] = "invoke" THEN "waiting" ELSE "ok"
      \/ /\ call[c] = "idle" /\ op'[c] = "msg" /\ call'[c] \in {"ok", "err"}
      \/ /\ op'[c] = op[c] /\ call'[c] \in {"abandoned", "gone", "idle"}
         /\ call[c] \in {"idle", "weak", "sending", "waiting"}
  BY DEF Caller, Send, Push, TrySend, Abandon, DropInvoker, Upgrade, Typed, Ops
<1>4. call[c] # "waiting" => ran[c] = 0
  BY <1>3, NotRun
<1>5. Entered(c) => call[c] = "waiting"
  BY <1>3 DEF QueueInv
<1>6. \A i \in 1..taken : i \in 1..Len(order)
  BY DEF QueueInv, Typed
<1>7. \A i \in 1..taken : Served(order[i]) => Served(order[i])'
  <2>1. ASSUME NEW i \in 1..taken, Served(order[i]) PROVE Served(order[i])'
    <3>1. order'[i] = order[i] /\ order[i] \in Calls
      BY <1>1, <2>1 DEF Served
    <3>2. order[i] = c => call[c] = "waiting"
      BY <1>5, <1>6 DEF Entered
    <3>3. QED
      BY <1>1, <1>2, <1>3, <2>1, <3>1, <3>2 DEF Served
  <2>2. QED
    BY <2>1
<1>8. AnswerTrue'
  <2>1. ran[c] <= 1
    BY DEF RunInv
  <2>2. QED
    BY <1>1, <1>2, <1>3, <1>4, <2>1 DEF AnswerTrue, RunInv
<1>9. pc = "running" => op'[current] = "invoke"
  <2>1. pc = "running" => Entered(current) /\ current \in Calls
    BY <1>6 DEF RunInv, QueueInv, Entered, Typed
  <2>2. QED
    BY <1>2, <1>3, <1>5, <2>1 DEF RunInv
<1>10. \A d \in Calls : call'[d] = "waiting" =>
         op'[d] = "invoke" /\ (ran[d] = 0 \/ (pc = "running" /\ current = d))
  BY <1>2, <1>3, <1>4 DEF RunInv
<1>11. \A d \in Calls : (\A i \in 1..taken : order'[i] # d) => ran[d] = 0
  BY <1>1 DEF RunInv
<1>12. \A i \in 1..(taken - 1) : i \in 1..taken
  BY DEF Typed
<1>13. taken > 0 => taken \in 1..taken
  BY DEF Typed
<1>14. QED
  BY <1>1, <1>7, <1>8, <1>9, <1>10, <1>11, <1>12, <1>13 DEF RunInv

LEMMA RunOwner == Typed /\ QueueInv /\ RunInv /\ (DropFlag \/ DropShutdown) => RunInv'
<1> SUFFICES ASSUME Typed, QueueInv, RunInv, DropFlag \/ DropShutdown PROVE RunInv'
  OBVIOUS
<1>1. UNCHANGED <<call, op, taken, pc, current, ran>>
      /\ \A i \in 1..taken : order'[i] = order[i]
  <2>1. \A i \in 1..taken : i \in 1..Len(order)
    BY DEF QueueInv, Typed
  <2>2. Enter(Owner) => \A i \in 1..taken : order'[i] = order[i]
    BY <2>1, EnterTyped DEF Names
  <2>3. QED
    BY <2>2 DEF DropFlag, DropShutdown, callVars, chanVars, taskVars
<1>2. \A i \in 1..(taken - 1) : i \in 1..taken
  BY DEF Typed
<1>3. taken > 0 => taken \in 1..taken
  BY DEF Typed
<1>4. QED
  BY <1>1, <1>2, <1>3 DEF RunInv, AnswerTrue, Served

(* The next is taken: the last one was served, and this one is new.                  *)
LEMMA RunTakes ==
  ASSUME Typed, QueueInv, RunInv, pc \in {"select", "more"},
         NEW left \in 0..MoreOps, TakeOp(left)
  PROVE  RunInv'
<1>1. /\ taken' = taken + 1 /\ taken' \in 1..Len(order) /\ pc' = "handle"
      /\ current' = order[taken'] /\ UNCHANGED <<order, call, op, ran>>
      /\ taken \in Nat /\ Len(order) \in Nat
  BY QueueTakes DEF Over, TakeOp, Typed
<1>2. \A i \in 1..taken : i \in 1..taken'
  BY <1>1
<1>3. \A c \in Calls : (\A i \in 1..taken' : order[i] # c) => ran[c] = 0
  BY <1>2 DEF RunInv
<1>4. current' \in Calls => ran[current'] = 0
  <2>1. \A i \in 1..taken : i # taken' /\ i \in 1..Len(order)
    BY <1>1
  <2>2. \A i \in 1..taken : order[i] # current'
    BY <1>1, <2>1 DEF QueueInv
  <2>3. QED
    BY <2>2 DEF RunInv
<1>5. \A i \in 1..(taken' - 1) : Served(order[i])
  <2>1. \A i \in 1..(taken' - 1) : i \in 1..(taken - 1) \/ (i = taken /\ taken > 0)
    BY <1>1
  <2>2. QED
    BY <2>1 DEF RunInv
<1>6. \A i : Served(order[i]) => Served(order[i])'
  BY <1>1 DEF Served
<1>7. \A c \in Calls : call[c] = "waiting" => op[c] = "invoke" /\ ran[c] = 0
  BY DEF RunInv
<1>8. QED
  BY <1>1, <1>3, <1>4, <1>5, <1>6, <1>7 DEF RunInv, AnswerTrue

(* The end of the task fails those who wait: none of them was run.                   *)
LEMMA RunEnds ==
  ASSUME Typed, QueueInv, RunInv, End, pc # "running",
         UNCHANGED <<op, order, current, taken>>,
         \A c \in Calls : \/ ran'[c] = ran[c]
                          \/ /\ pc = "handle" /\ c = current /\ op[c] = "msg"
                             /\ ran'[c] = 1
  PROVE  RunInv'
<1>1. /\ pc' = "done" /\ \A c \in Calls : call'[c] = IF call[c] \in {"sending", "waiting"}
                                                   THEN "err" ELSE call[c]
  BY DEF End
<1>2. \A c \in Calls : ran'[c] <= 1 /\ ((\A i \in 1..taken : order[i] # c) => ran'[c] = 0)
  <2>1. pc = "handle" => taken \in 1..taken /\ current = order[taken]
    BY DEF QueueInv, Typed
  <2>2. QED
    BY <2>1 DEF RunInv
<1>3. \A c \in Calls : call'[c] # "waiting"
  BY <1>1
<1>4. AnswerTrue'
  <2>1. ASSUME NEW c \in Calls, op[c] = "invoke" PROVE ran'[c] = ran[c]
    BY <2>1
  <2>2. \A c \in Calls : call[c] = "sending" => ran[c] = 0
    BY NotRun
  <2>3. \A c \in Calls : call[c] = "waiting" => ran[c] = 0
    BY DEF RunInv
  <2>4. QED
    BY <1>1, <2>1, <2>2, <2>3 DEF RunInv, AnswerTrue
<1>5. \A i \in 1..(taken - 1) : Served(order[i])'
  <2>1. ASSUME NEW i \in 1..(taken - 1) PROVE Served(order[i])'
    <3>1. Served(order[i])
      BY DEF RunInv
    <3>2. ran'[order[i]] = 1 \/ ran'[order[i]] = ran[order[i]]
      BY <3>1 DEF Served
    <3>3. call[order[i]] = "abandoned" => call'[order[i]] = "abandoned"
      BY <1>1, <3>1 DEF Served
    <3>4. QED
      BY <3>1, <3>2, <3>3 DEF Served
  <2>2. QED
    BY <2>1
<1>6. QED
  BY <1>1, <1>2, <1>3, <1>4, <1>5 DEF RunInv

LEMMA RunTask == Typed /\ QueueInv /\ RunInv /\ Task => RunInv'
<1> SUFFICES ASSUME Typed, QueueInv, RunInv, Task PROVE RunInv'
  OBVIOUS
<1>1. CASE Take \/ MoreOp
  <2>1. \E left \in 0..MoreOps : pc \in {"select", "more"} /\ TakeOp(left)
    BY <1>1, ActorAssumption DEF Take, MoreOp, Typed
  <2>2. QED
    BY <2>1, RunTakes
<1>2. CASE Passes
  <2>1. /\ UNCHANGED <<op, order, current, ran, taken>> /\ pc # "running"
        /\ End \/ Goto("select") \/ Goto("more")
    BY <1>2, PassesShape
  <2>2. CASE End
    BY <2>1, <2>2, RunEnds
  <2>3. CASE Goto("select") \/ Goto("more")
    <3>1. call' = call /\ pc' \in {"select", "more"}
      BY <2>3 DEF Goto
    <3>2. taken > 0 => Served(order[taken])
      <4>1. CASE SkipInvoke
        BY <4>1 DEF SkipInvoke, QueueInv, Served, OpOf, Typed, Names
      <4>2. CASE ~SkipInvoke
        <5>1. pc \in {"first", "more"}
          BY <1>2, <2>3, <4>2, PassesShape DEF Goto, First
        <5>2. QED
          BY <5>1 DEF RunInv
      <4>3. QED
        BY <4>1, <4>2
    <3>3. QED
      BY <2>1, <3>1, <3>2 DEF RunInv, AnswerTrue, Served
  <2>4. QED
    BY <2>1, <2>2, <2>3
<1>3. CASE HandleMsg \/ HandleInvoke
  <2>1. /\ pc = "handle" /\ current \in Calls /\ taken \in 1..taken /\ current = order[taken]
        /\ ran[current] = 0 /\ UNCHANGED <<op, order, current, taken>>
    BY <1>3 DEF HandleMsg, HandleInvoke, OpOf, Typed, Names, QueueInv, RunInv, ownerVars
  <2>2. ran'[current] = 1 /\ \A c \in Calls : c # current => ran'[c] = ran[c]
    BY <1>3, <2>1 DEF HandleMsg, HandleInvoke, Typed
  <2>3. CASE End
    <3>1. op[current] = "msg"
      <4>1. ~HandleInvoke
        BY <2>3 DEF HandleInvoke, End, Goto
      <4>2. QED
        BY <1>3, <2>1, <4>1, ActorAssumption DEF HandleMsg, OpOf
    <3>2. QED
      BY <2>1, <2>2, <2>3, <3>1, RunEnds
  <2>4. CASE Goto("more") \/ Goto("running")
    <3>1. call' = call
      BY <2>4 DEF Goto
    <3>2. \A i \in 1..(taken - 1) : i \in 1..Len(order) /\ taken \in 1..Len(order) /\ i # taken
      BY <2>1 DEF QueueInv, Typed
    <3>3. \A i \in 1..(taken - 1) : order[i] # current
      BY <2>1, <3>2 DEF QueueInv
    <3>4. \A i \in 1..(taken - 1) : Served(order[i])'
      BY <2>1, <2>2, <3>1, <3>3 DEF RunInv, Served
    <3>5. Served(order[taken])'
      BY <2>1, <2>2 DEF Served
    <3>6. CASE HandleMsg /\ pc' = "more"
      <4>1. op[current] = "msg"
        BY <2>1, <3>6, ActorAssumption DEF HandleMsg, OpOf
      <4>2. \A c \in Calls : call[c] = "waiting" => op[c] = "invoke" /\ ran'[c] = 0
        BY <2>1, <2>2, <4>1 DEF RunInv
      <4>3. AnswerTrue'
        BY <2>1, <2>2, <3>1, <4>1 DEF RunInv, AnswerTrue
      <4>4. QED
        BY <2>1, <2>2, <3>1, <3>4, <3>5, <3>6, <4>2, <4>3 DEF RunInv
    <3>7. CASE HandleInvoke /\ pc' = "running"
      <4>1. op[current] = "invoke"
        BY <2>1, <3>7, ActorAssumption DEF HandleInvoke, OpOf
      <4>2. Entered(current) /\ call[current] = "waiting"
        <5>1. Entered(current)
          BY <2>1 DEF QueueInv, Entered, Typed
        <5>2. call[current] \in {"waiting", "ok", "err"}
          BY <2>1, <3>7, <5>1 DEF QueueInv, HandleInvoke
        <5>3. call[current] # "ok"
          BY <2>1, <4>1 DEF RunInv, AnswerTrue
        <5>4. call[current] # "err"
          BY <2>1, <5>1 DEF QueueInv, Over
        <5>5. QED
          BY <5>1, <5>2, <5>3, <5>4
      <4>3. \A c \in Calls : call[c] = "waiting" =>
              op[c] = "invoke" /\ (ran'[c] = 0 \/ c = current)
        BY <2>1, <2>2 DEF RunInv
      <4>4. AnswerTrue'
        BY <2>1, <2>2, <3>1, <4>2 DEF RunInv, AnswerTrue
      <4>5. QED
        BY <2>1, <2>2, <3>1, <3>4, <3>5, <3>7, <4>1, <4>3, <4>4 DEF RunInv
    <3>8. QED
      BY <1>3, <2>4, <3>6, <3>7 DEF HandleMsg, HandleInvoke, Goto, End
  <2>5. QED
    BY <1>3, <2>3, <2>4 DEF HandleMsg, HandleInvoke
<1>4. CASE Respond
  <2>1. /\ pc = "running" /\ pc' = "more" /\ UNCHANGED <<op, order, current, ran, taken>>
        /\ current \in Calls /\ op[current] = "invoke" /\ ran[current] = 1
        /\ current = order[taken]
    BY <1>4 DEF Respond, RunInv, QueueInv, chanVars, ownerVars
  <2>2. /\ call'[current] = IF call[current] = "waiting" THEN "ok" ELSE call[current]
        /\ \A c \in Calls : c # current => call'[c] = call[c]
    BY <1>4, <2>1 DEF Respond, Typed
  <2>3. \A i \in 1..(taken - 1) : Served(order[i])'
    BY <2>1, <2>2 DEF RunInv, Served
  <2>4. Served(order[taken])'
    BY <2>1 DEF Served
  <2>5. AnswerTrue'
    BY <2>1, <2>2 DEF RunInv, AnswerTrue
  <2>6. QED
    BY <2>1, <2>2, <2>3, <2>4, <2>5 DEF RunInv
<1>5. QED
  BY <1>1, <1>2, <1>3, <1>4 DEF Task, Handle, More, Passes

LEMMA RunStep == Typed /\ QueueInv /\ RunInv /\ [Next]_vars => RunInv'
<1> SUFFICES ASSUME Typed, QueueInv, RunInv, [Next]_vars PROVE RunInv'
  OBVIOUS
<1>1. CASE UNCHANGED vars
  BY <1>1 DEF vars, callVars, chanVars, ownerVars, taskVars, RunInv, AnswerTrue, Served
<1>2. QED
  BY <1>1, NextCases, RunCaller, RunOwner, RunTask

ServeInv == Typed /\ QueueInv /\ RunInv

LEMMA ServeHolds == Spec => []ServeInv
<1>1. Init => ServeInv
  BY TypedInit, QueueInit, RunInit DEF ServeInv
<1>2. ServeInv /\ [Next]_vars => ServeInv'
  BY TypedStep, QueueStep, RunStep DEF ServeInv
<1>3. QED
  BY <1>1, <1>2, PTL DEF Spec

(* An invoke that returned a response was run exactly once, and one that returned    *)
(* an error never was, however many call, abandon their calls and drop the actor.    *)
THEOREM AnswersTrue == Spec => []AnswerTrue
<1>1. ServeInv => AnswerTrue
  BY DEF ServeInv, RunInv
<1>2. QED
  BY <1>1, ServeHolds, PTL

(* Operations are served in the order they entered the mailbox, and none is passed   *)
(* over unless its caller had gone.                                                  *)
THEOREM ServedInOrder == Spec => []NoneSkipped
<1>1. ASSUME ServeInv PROVE NoneSkipped
  <2>1. \A i \in 1..(taken - 1) : order[i] \in Calls
          /\ (ran[order[i]] = 1 \/ call[order[i]] = "abandoned")
    BY <1>1 DEF ServeInv, RunInv, Served
  <2>2. ASSUME pc # "done" PROVE mailbox = SubSeq(order, taken + 1, Len(order))
    <3>1. /\ order \in Seq(Names) /\ mailbox \in Seq(Names) /\ taken \in Nat
          /\ Len(order) \in Nat /\ Len(mailbox) \in Nat
          /\ taken <= Len(order) /\ Len(mailbox) = Len(order) - taken
          /\ \A i \in 1..Len(mailbox) : mailbox[i] = order[taken + i]
      BY <1>1, <2>2 DEF ServeInv, Typed, QueueInv, Over
    <3>2. \A i \in (taken + 1)..Len(order) : order[i] \in Names
      BY <3>1, ElementOfSeq
    <3> DEFINE s == SubSeq(order, taken + 1, Len(order))
    <3>3. /\ s \in Seq(Names) /\ Len(s) = Len(order) - taken
          /\ \A i \in 1..(Len(order) - taken) : s[i] = order[taken + i]
      <4>1. taken + 1 \in Int /\ Len(order) \in Int
        BY <3>1
      <4>2. /\ s \in Seq(Names)
            /\ Len(s) = IF taken + 1 <= Len(order) THEN Len(order) - (taken + 1) + 1 ELSE 0
            /\ \A i \in 1..(Len(order) - (taken + 1) + 1) : s[i] = order[(taken + 1) + i - 1]
        BY <3>2, <4>1, SubSeqProperties
      <4>3. Len(s) = Len(order) - taken
        BY <3>1, <4>2
      <4>4. Len(order) - (taken + 1) + 1 = Len(order) - taken
        BY <3>1
      <4>5. \A i \in 1..(Len(order) - taken) : (taken + 1) + i - 1 = taken + i
        BY <3>1
      <4>6. QED
        BY <4>2, <4>3, <4>4, <4>5
    <3> HIDE DEF s
    <3>4. QED
      BY <3>1, <3>3, SeqEqual DEF s
  <2>3. QED
    BY <2>1, <2>2 DEF NoneSkipped
<1>2. QED
  BY <1>1, ServeHolds, PTL

-------------------------------------------------------------------------------
(* How much is done after the drop: where the task chooses what to do next, the flag *)
(* has been read since the last operation; within a round, what was taken and what   *)
(* is left of the round add up to one round since the flag was set.                  *)
DropInv ==
  is_drop => IF pc \in {"first", "select"} THEN taken = at_drop
             ELSE taken + budget <= at_drop + MoreOps + 1

LEMMA DropInit == Init => DropInv
BY DEF Init, DropInv

LEMMA DropStep == Typed /\ DropInv /\ [Next]_vars => DropInv'
<1> SUFFICES ASSUME Typed, DropInv, [Next]_vars PROVE DropInv'
  OBVIOUS
<1>1. /\ MoreOps \in Nat /\ taken \in Nat /\ at_drop \in Nat /\ budget \in Nat
      /\ budget <= MoreOps /\ is_drop \in BOOLEAN
  BY ActorAssumption DEF Typed
<1>2. CASE UNCHANGED <<is_drop, at_drop, pc, taken, budget>>
  BY <1>2 DEF DropInv
<1>3. CASE \/ \E c \in Calls : Caller(c)
           \/ DropShutdown \/ UNCHANGED vars
  BY <1>2, <1>3 DEF Caller, Send, Push, TrySend, Abandon, DropInvoker, Upgrade,
       DropShutdown, vars, ownerVars, taskVars
<1>4. CASE DropFlag
  BY <1>1, <1>4 DEF DropFlag, DropInv, taskVars
<1>5. CASE Passes
  <2>1. /\ UNCHANGED <<is_drop, at_drop, taken, budget>>
        /\ \/ pc' = "done"
           \/ pc' = "select" /\ (pc = "first" \/ (pc = "more" /\ ~is_drop))
           \/ pc' = "more" /\ pc = "handle"
    BY <1>5, PassesShape DEF ownerVars, End, Goto, First, SkipInvoke
  <2>2. is_drop => taken + budget <= at_drop + MoreOps + 1
    BY <1>1 DEF DropInv
  <2>3. QED
    BY <2>1, <2>2 DEF DropInv
<1>6. CASE HandleMsg \/ HandleInvoke \/ Respond
  BY <1>1, <1>6 DEF HandleMsg, HandleInvoke, Respond, DropInv, ownerVars, End, Goto
<1>7. CASE Take
  BY <1>1, <1>7 DEF Take, TakeOp, DropInv, ownerVars
<1>8. CASE MoreOp
  BY <1>1, <1>8 DEF MoreOp, TakeOp, DropInv, ownerVars
<1>9. QED
  BY <1>3, <1>4, <1>5, <1>6, <1>7, <1>8, NextCases DEF Task, Handle, More, Passes

(* Once the owner drops the actor, the task takes at most one more round of          *)
(* operations, however many keep coming and however long a round is.                 *)
THEOREM DropsBounded == Spec => []FewAfterDrop
<1>1. Init => Typed /\ DropInv
  BY TypedInit, DropInit
<1>2. Typed /\ DropInv /\ [Next]_vars => (Typed /\ DropInv)'
  BY TypedStep, DropStep
<1>3. Typed /\ DropInv => FewAfterDrop
  BY ActorAssumption DEF Typed, DropInv, FewAfterDrop
<1>4. QED
  BY <1>1, <1>2, <1>3, PTL DEF Spec
==================================================================================
