------------------------------- MODULE LinkPromise -------------------------------
(* What an opened session promises whatever becomes of its connections, in terms of *)
(* numbers only.  The client's requests are numbered, handed to a connection once   *)
(* each and in their order, and arrive in that order; a cut loses those on their    *)
(* way and no others; the client forgets a request only when it or a later one has  *)
(* arrived.  What the server sends is read without a gap, and confirmed only when   *)
(* it has been read.  A new connection counts for nothing until the server has      *)
(* agreed to the attempt it was made by, and an old attempt is never agreed to.     *)
EXTENDS Naturals

CONSTANT Opening      \* requests handed over before the session is open

VARIABLES
  asked,      \* the client's requests are 1..asked
  handed,     \* it has handed over 1..handed
  coming,     \* those on their way on the connection
  arrived,    \* those the server has
  released,   \* the client no longer keeps 1..released
  read,       \* the server's packets the client has read are 1..read
  confirmed,  \* and the server knows that of 1..confirmed
  attempt,    \* reconnects tried
  agreed,     \* the last one the server agreed to
  over        \* the session has ended

requests == <<asked, handed, coming, arrived>>
attempts == <<attempt, agreed>>
vars == <<requests, released, read, confirmed, attempts, over>>

Init ==
  /\ asked = Opening /\ handed = Opening /\ coming = 1..Opening /\ arrived = {}
  /\ released = 0 /\ read = 0 /\ confirmed = 0
  /\ attempt = 0 /\ agreed = 0 /\ over = FALSE

Connected == agreed = attempt

Ask ==
  /\ asked' = asked + 1
  /\ UNCHANGED <<handed, coming, arrived, released, read, confirmed, attempts, over>>

(* A connection that is dead and not yet known to be takes a request and loses it.  *)
Hand ==
  /\ Connected /\ handed < asked /\ handed' = handed + 1
  /\ \/ coming' = coming \cup {handed'}
     \/ coming = {} /\ UNCHANGED coming
  /\ UNCHANGED <<asked, arrived, released, read, confirmed, attempts, over>>

Confirm == confirmed' \in confirmed..read

Arrive(n) ==
  /\ \A k \in coming : n <= k
  /\ coming' = coming \ {n} /\ arrived' = arrived \cup {n}
  /\ Confirm
  /\ UNCHANGED <<asked, handed, released, read, attempts, over>>

ConfirmOnly == Confirm /\ UNCHANGED <<requests, released, read, attempts, over>>

Cut ==
  /\ coming' = {}
  /\ attempt' \in {attempt, attempt + 1}
  /\ UNCHANGED <<asked, handed, arrived, released, read, confirmed, agreed, over>>

(* A packet from the server may be new, may confirm requests, and may be the last.  *)
TakePacket ==
  /\ read' \in {read, read + 1}
  /\ released' >= released
  /\ released' # released => \E n \in arrived : released' <= n

Read ==
  /\ Connected /\ TakePacket
  /\ over' \in BOOLEAN
  /\ UNCHANGED <<requests, confirmed, attempts>>

Agree ==
  /\ agreed < attempt /\ agreed' = attempt
  /\ TakePacket
  /\ UNCHANGED <<requests, confirmed, attempt, over>>

End == over' = TRUE /\ UNCHANGED <<requests, released, read, confirmed, attempts>>

Next ==
  /\ ~over
  /\ \/ Ask \/ Hand \/ (\E n \in coming : Arrive(n)) \/ ConfirmOnly \/ Cut
     \/ Read \/ Agree \/ End

Spec == Init /\ [][Next]_vars
================================================================================
