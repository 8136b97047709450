------------------------------- MODULE Responses --------------------------------
(* Requests and their answers: the table response_handlers of DelegateImpl in      *)
(* glue/client.rs, over the session of SessionLink.  A request is queued with a    *)
(* number and leaves a handler under that number; the response that carries the    *)
(* number takes the handler out and calls the application back.  Heartbeats are    *)
(* numbered like requests but the worker answers for them.                         *)
(*                                                                                 *)
(* The server, which SessionLink lets answer anything at any time, is held here to *)
(* what a client may expect: it answers a request once, in kind, and what it       *)
(* numbers it sends again unchanged when it resumes after a reconnect.             *)
EXTENDS SessionLink

VARIABLES handlers,  \* the keys of response_handlers
          calls,     \* history: how often the callback of each request was called
          read,      \* history: numbers whose response was read
          orphans,   \* history: ... and rejected at the first reading
          beats,     \* history: numbers given to heartbeats
          log,       \* history: the numbered packets of the server, in order
          answered   \* history: numbers the server has answered

tableVars == <<handlers, calls, read, orphans>>
askVars   == <<beats, log, answered>>
allVars   == <<vars, tableVars, askVars>>

Answers == {"rsp", "hb_rsp"}
Content(m) == [typ |-> m.typ, ack |-> IF m.typ \in Answers THEN m.ack ELSE 0]

OpenedInit ==
  /\ Init
  /\ handlers = 1..OpenReqs
  /\ calls = [n \in 1..MaxSn |-> 0]
  /\ read = {} /\ orphans = {} /\ beats = {} /\ log = <<>> /\ answered = {}

-------------------------------------------------------------------------------
(* simple_request, sub_stream, unsub_stream, send_request: number, then handler.   *)
QueueRequest ==
  /\ ProcessOp
  /\ handlers' = handlers \cup {xfer'.tail_sn}
  /\ UNCHANGED <<calls, read, orphans, askVars>>

QueueHeartbeat ==
  /\ HeartbeatTick
  /\ beats' = beats \cup {xfer'.tail_sn}
  /\ UNCHANGED <<tableVars, log, answered>>

Reads(kinds) == pc = "recv" /\ s2c # <<>> /\ Head(s2c).typ \in kinds /\ RecvPacket

(* on_response: no handler is an error; a bad status drops the handler unused; a   *)
(* response of the wrong type fails before the callback, which may fail itself.    *)
Responded(n, left) ==
  /\ read' = read \cup {n} /\ handlers' = left
  /\ \/ /\ n \notin handlers /\ pc' = "dial"
        /\ orphans' = orphans \cup ({n} \ read)
        /\ UNCHANGED calls
     \/ /\ n \in handlers /\ UNCHANGED orphans
        /\ calls' \in {calls, [calls EXCEPT ![n] = @ + 1]}

ReadResponseKeeps ==    \* defective variant: the handler stays in the table
  /\ Reads({"rsp"}) /\ Responded(Head(s2c).ack, handlers) /\ UNCHANGED askVars

ReadResponse ==
  /\ Reads({"rsp"})
  /\ Responded(Head(s2c).ack, handlers \ {Head(s2c).ack})
  /\ UNCHANGED askVars

(* try_handle_heartbeat_response: consumed, whether or not one is pending.         *)
ReadHeartbeatPending ==    \* defective variant: only a pending heartbeat's is consumed
  /\ Reads({"hb_rsp"})
  /\ IF pending_hb_sn # 0 THEN UNCHANGED tableVars
                          ELSE Responded(Head(s2c).ack, handlers)
  /\ UNCHANGED askVars

ReadHeartbeat == Reads({"hb_rsp"}) /\ UNCHANGED <<tableVars, askVars>>

ReadOther == Reads({"push", "ack"}) /\ UNCHANGED <<tableVars, askVars>>

(* A reconnect keeps the table, although requests sent before may be lost.         *)
AdoptForgets ==    \* defective variant: it starts with an empty one
  Reconnected /\ handlers' = {} /\ UNCHANGED <<calls, read, orphans, askVars>>

Adopt == Reconnected /\ UNCHANGED <<tableVars, askVars>>

(* The server.                                                                     *)
Answer ==
  /\ pc # "closed" /\ SrvSend
  /\ LET m == s2c'[Len(s2c')]
         again == 0 < m.sn /\ m.sn <= srv_tail
     IN  /\ m.typ \in Answers => (m.typ = "hb_rsp") = (m.ack \in beats)
         /\ IF again THEN Content(m) = log[m.sn] /\ UNCHANGED <<log, answered>>
                     ELSE /\ m.typ \in Answers => m.ack \in Sns(got) \ answered
                          /\ log' = IF m.sn = 0 THEN log ELSE Append(log, Content(m))
                          /\ answered' = answered \cup ({Content(m).ack} \ {0})
  /\ UNCHANGED <<tableVars, beats>>

(* What touches neither the table nor the numbers.                                 *)
Redial == DialFail \/ Dial \/ ReconnectRefused \/ ReconnectFail \/ ReconnectTimeout

Elsewhere ==
  /\ \/ ProcessFail \/ ProcessDone \/ Flush
     \/ Wake \/ RecvClosed \/ RecvFail \/ HeartbeatTimeout
     \/ Redial \/ Stop \/ Closed
     \/ pc # "closed" /\ (Break \/ SrvRecv \/ SrvReconnect)
  /\ UNCHANGED <<tableVars, askVars>>

OpenedNext ==
  \/ QueueRequest \/ QueueHeartbeat
  \/ ReadResponse \/ ReadHeartbeat \/ ReadOther
  \/ Adopt \/ Answer \/ Elsewhere

OpenedSpec == OpenedInit /\ [][OpenedNext]_allVars

-------------------------------------------------------------------------------
(* Properties.                                                                     *)

(* A handler waits for exactly the requests whose response was not read yet: none   *)
(* is forgotten over reconnects, repeated responses and heartbeats, none is left.  *)
TableExact == handlers = (1..xfer.tail_sn) \ (beats \cup read)

(* The application hears of a request once at the most, though a response may come  *)
(* again after a reconnect.                                                        *)
CalledOnce == \A n \in 1..MaxSn : calls[n] <= 1

(* An answer that comes for the first time is never rejected for want of somebody   *)
(* who waits for it: not a response, however late, nor that of a heartbeat an       *)
(* earlier connection left behind.                                                 *)
FirstAnswersFindTaker == orphans = {}
=================================================================================
