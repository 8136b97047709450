------------------------------ MODULE LeavePromise ------------------------------
(* What SignalClient promises the callers of leave_room_and_wait: the session is   *)
(* opened at most once and closed once, the listener hears of the end once and    *)
(* after that, and a call that found the session alive returns only when the      *)
(* session has closed or another leave was called.                                *)
CONSTANT Leavers

VARIABLES stage,  \* "opening", "open", "closed" (the flag is set), "told" (on_closed ran)
          call    \* per leaver: "idle", "waiting", "returned", "abandoned" by the caller

Init == stage = "opening" /\ call = [t \in Leavers |-> "idle"]

Open  == stage = "opening" /\ stage' = "open" /\ UNCHANGED call
Close == stage \in {"opening", "open"} /\ stage' = "closed" /\ UNCHANGED call
Tell  == stage = "closed" /\ stage' = "told" /\ UNCHANGED call

Over == stage \in {"closed", "told"}

Leave(t) ==
  /\ call[t] = "idle"
  /\ call' = [call EXCEPT ![t] = IF Over THEN "returned" ELSE "waiting"]
  /\ UNCHANGED stage

Return(t) ==
  /\ call[t] = "waiting"
  /\ Over \/ \E u \in Leavers \ {t} : call[u] # "idle"
  /\ call' = [call EXCEPT ![t] = "returned"]
  /\ UNCHANGED stage

Abandon(t) ==
  /\ call[t] = "waiting"
  /\ call' = [call EXCEPT ![t] = "abandoned"]
  /\ UNCHANGED stage

Next == Open \/ Close \/ Tell \/ \E t \in Leavers : Leave(t) \/ Return(t) \/ Abandon(t)

Spec == Init /\ [][Next]_<<stage, call>>
================================================================================
