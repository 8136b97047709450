------------------------------- MODULE RoomUsers -------------------------------
(* The room as DelegateImpl::handle_server_push of glue/client.rs keeps it, and   *)
(* the room as an application sees it through the Listener.  The server pushes    *)
(* snapshots and changes of users; the delegate holds back what belongs to users  *)
(* that are not ready, and nobody is announced before the room is ready.          *)
(*                                                                                *)
(* A handler is what its listener calls tell the application, and what it leaves  *)
(* in the user table; a call that fails ends it halfway (and, in SessionLink, the *)
(* connection): the application has heard the calls before it, and the table is   *)
(* left as it is at that point.  Streams and users come out of hash maps, in any  *)
(* order; calls about different ones touch different parts of the picture, so the *)
(* calls made are the set of those they were about.                               *)
(* The server is external: any push may come at any time.                         *)
(* A stream is identified with its stype: a user has one stream of a type.        *)
(* Chat and room tree pushes only call the listener and are left out.             *)
EXTENDS Naturals

CONSTANTS Users, Stypes, Producers, Insts,
          MaxNodes        \* bound: user tree updates the server pushes

ASSUME RoomAssumption == MaxNodes \in Nat

VARIABLES users,       \* DelegateImpl::users: a UserCell (stage "Init" or "Ready", instance,
                       \* streams, tree nodes held back) per user, or NoCell
          room_ready,  \* DelegateImpl::got_room_ready
          view,        \* what the application was told
          nodes,       \* history: per user in the table, the tree nodes received
          last_node,   \* history: the newest tree node
          wronged,     \* history: users a failed call left with a wrong entry, until they are
                       \* announced or leave
          skipped,     \* history: users an RReady that failed did not come to, until they
                       \* are announced
          lost,        \* history: tree nodes that were in a call that failed
          orderly      \* history: snapshots were complete before the room, and once

harm == <<wronged, skipped, lost>>
vars == <<users, room_ready, view, nodes, last_node, harm, orderly>>

NoCell == [stage |-> "none"]
NoStream == [producer |-> "none"]
Stream == [producer : Producers, muted : BOOLEAN]
Streams == [Stypes -> Stream \cup {NoStream}]

-------------------------------------------------------------------------------
(* The application makes an entry for a user in on_user_joined, drops it in       *)
(* on_user_leaved and keeps in it the streams it is told of; an event for anybody *)
(* else finds no entry.  known has the users with an entry, app what is in it.    *)
(* shown and early collect the tree nodes it could and could not place,           *)
(* joined_twice the users announced while they were rightly there.                *)
NoStreams == [s \in Stypes |-> NoStream]

NothingHeard == [known |-> {}, app |-> [u \in Users |-> NoStreams], shown |-> {},
                 early |-> {}, joined_twice |-> {}]

(* on_user_leaved *)
Leaved(u) == [view EXCEPT !.known = @ \ {u}, !.app[u] = NoStreams]

(* on_update_user_tree *)
TreeNode(u, n) ==
  IF u \in view.known THEN [view EXCEPT !.shown = @ \cup {n}]
                      ELSE [view EXCEPT !.early = @ \cup {n}]

(* Calls about streams of u: told[s] is what they leave of the stream of type s.  *)
Told(u, told) ==
  IF u \in view.known
  THEN [view EXCEPT !.app[u] = [s \in Stypes |-> IF s \in DOMAIN told THEN told[s]
                                                                   ELSE view.app[u][s]]]
  ELSE view

(* The types of which a cell has a stream.                                        *)
Has(cell) == {s \in Stypes : cell.streams[s] # NoStream}

(* fire_user_joined for the users in S: on_user_joined with the tree held back,   *)
(* which makes an entry afresh, then on_add_stream for the types in added[u].     *)
Joined(table, S, added) ==
  [view EXCEPT
     !.known = @ \cup S,
     !.app   = [u \in Users |->
                  IF u \notin S THEN view.app[u]
                  ELSE [s \in Stypes |-> IF s \in added[u] THEN table[u].streams[s]
                                                          ELSE NoStream]],
     !.shown = @ \cup UNION {table[u].tree : u \in S},
     !.joined_twice = @ \cup ((S \cap view.known) \ wronged)]

(* UserCell::delta, about one type: on_remove_stream, on_update_stream, which     *)
(* says only whether the stream is muted, or on_add_stream, after an              *)
(* on_remove_stream if there was another.                                         *)
TellsIgnoresProducer(old, new) ==    \* defective variant
  IF new = NoStream THEN NoStream
  ELSE IF old # NoStream THEN [old EXCEPT !.muted = new.muted]
  ELSE new

Tells(old, new) ==
  IF new = NoStream THEN NoStream
  ELSE IF old # NoStream /\ old.producer = new.producer THEN [old EXCEPT !.muted = new.muted]
  ELSE new

Changed(old, new) == {s \in Stypes : old[s] \notin {NoStream, new[s]}}
Fresh(old, new) == {s \in Stypes : old[s] = NoStream /\ new[s] # NoStream}
Replaced(old, new) ==
  {s \in Changed(old, new) : new[s] # NoStream /\ new[s].producer # old[s].producer}

(* All calls about the types in S; and of one more, r, that its old stream is     *)
(* gone, with the call for the new one failing.                                   *)
DeltaOf(u, old, new, S) == Told(u, [s \in S |-> Tells(old[s], new[s])])

DeltaTorn(u, old, new, S, r) ==
  Told(u, [s \in S \cup {r} |-> IF s = r THEN NoStream ELSE Tells(old[s], new[s])])

(* UserCell::delta: what goes or changes, then what is new; and what has been     *)
(* told of it when a call fails.                                                  *)
Delta(u, old, new) == DeltaOf(u, old, new, Changed(old, new) \cup Fresh(old, new))

DeltaHalfway(u, old, new) ==
  LET first  == Changed(old, new)
      all    == first \cup Fresh(old, new)
      sofar  == {S \in SUBSET all : S # all /\ (S \subseteq first \/ first \subseteq S)}
  IN  {DeltaOf(u, old, new, S) : S \in sofar}
        \cup {DeltaTorn(u, old, new, S, r) : S \in SUBSET first, r \in Replaced(old, new)}

With(u, cell) == [users EXCEPT ![u] = cell]

(* on_user_leaved is called about u: it succeeds, or fails and leaves the handler.*)
(* complete and halfway are what becomes of his cell.                             *)
Leave(u, complete, halfway) ==
  /\ UNCHANGED <<skipped, lost>>
  /\ \/ view' = Leaved(u) /\ users' = With(u, complete) /\ wronged' = wronged \ {u}
     \/ users' = With(u, halfway) /\ wronged' = wronged \cup {u} /\ UNCHANGED view

(* fire_user_joined takes the tree out of the cell.                               *)
Emptied(table, S) ==
  [u \in Users |-> IF u \in S THEN [table[u] EXCEPT !.tree = {}] ELSE table[u]]

(* fire_user_joined for all of S, in any order; or a call for u fails, his        *)
(* on_user_joined, with his tree, or an on_add_stream.  Nothing is called then    *)
(* for those after u: who was not announced before is not now.                    *)
FireJoined(table, S) ==
  LET has == [u \in Users |-> IF u \in S THEN Has(table[u]) ELSE {}]
  IN  \/ /\ view' = Joined(table, S, has)
         /\ users' = Emptied(table, S)
         /\ wronged' = wronged \ S
         /\ skipped' = skipped \ S
         /\ UNCHANGED lost
      \/ \E done \in SUBSET S : \E u \in S \ done :
           /\ \/ view' = Joined(table, done, has) /\ lost' = lost \cup table[u].tree
              \/ \E T \in SUBSET has[u] :
                   /\ T # has[u]
                   /\ view' = Joined(table, done \cup {u}, [has EXCEPT ![u] = T])
                   /\ UNCHANGED lost
           /\ users' = Emptied(table, done \cup {u})
           /\ wronged' = (wronged \ done) \cup {u}
           /\ skipped' = (skipped \cup (S \ view.known)) \ (done \cup {u})

-------------------------------------------------------------------------------
Init ==
  /\ users = [u \in Users |-> NoCell]
  /\ room_ready = FALSE
  /\ view = NothingHeard
  /\ nodes = [u \in Users |-> {}]
  /\ last_node = 0
  /\ wronged = {} /\ skipped = {} /\ lost = {}
  /\ orderly = TRUE

(* UInit: a snapshot of the user starts; one it knew is gone.                     *)
UInit(u) ==
  /\ users[u] # NoCell
  /\ Leave(u, NoCell, NoCell)
  /\ nodes' = [nodes EXCEPT ![u] = {}]
  /\ UNCHANGED <<room_ready, last_node, orderly>>

(* UReady: the snapshot is complete; announced if the room is ready.              *)
UReady(u) ==
  /\ users[u] # NoCell
  /\ orderly' = (orderly /\ users[u].stage = "Init")
  /\ LET ready == With(u, [users[u] EXCEPT !.stage = "Ready"])
     IN  IF room_ready THEN FireJoined(ready, {u})
                       ELSE users' = ready /\ UNCHANGED <<view, harm>>
  /\ UNCHANGED <<room_ready, nodes, last_node>>

(* UFull of a user who is offline: forgotten, and announced only if ready.        *)
UOfflineSilent(u) ==    \* defective variant: the leave is not announced
  /\ users[u] # NoCell
  /\ users' = With(u, NoCell)
  /\ nodes' = [nodes EXCEPT ![u] = {}]
  /\ UNCHANGED <<room_ready, last_node, view, harm, orderly>>

UOffline(u) ==
  /\ users[u] # NoCell
  /\ \/ users[u].stage = "Init" /\ users' = With(u, NoCell) /\ UNCHANGED <<view, harm>>
     \/ users[u].stage = "Ready" /\ Leave(u, NoCell, NoCell)
  /\ nodes' = [nodes EXCEPT ![u] = {}]
  /\ UNCHANGED <<room_ready, last_node, orderly>>

(* UFull of a user who is new, whether online or not.                             *)
UNew(u, inst, streams) ==
  /\ users[u] = NoCell
  /\ users' = With(u, [stage |-> "Init", inst |-> inst, streams |-> streams, tree |-> {}])
  /\ UNCHANGED <<room_ready, view, nodes, last_node, harm, orderly>>

(* UFull of a user it knows: recorded while the snapshot is incomplete, else told *)
(* as a change, or as a leave if the instance changed.  The entry is out of the   *)
(* table during the calls.                                                        *)
UFull(u, inst, streams) ==
  /\ users[u] # NoCell
  /\ LET cell == users[u]
         new  == [cell EXCEPT !.streams = streams, !.inst = inst]
     IN  \/ cell.stage = "Init" /\ users' = With(u, new) /\ UNCHANGED <<view, harm>>
         \/ /\ cell.stage = "Ready" /\ cell.inst = inst
            /\ UNCHANGED <<skipped, lost>>
            /\ \/ view' = Delta(u, cell.streams, streams) /\ users' = With(u, new)
                    /\ UNCHANGED wronged
               \/ view' \in DeltaHalfway(u, cell.streams, streams) /\ users' = With(u, NoCell)
                    /\ wronged' = wronged \cup {u}
         \/ /\ cell.stage = "Ready" /\ cell.inst # inst
            /\ Leave(u, [new EXCEPT !.stage = "Init"], NoCell)
  /\ nodes' = IF users'[u] = NoCell THEN [nodes EXCEPT ![u] = {}] ELSE nodes
  /\ UNCHANGED <<room_ready, last_node, orderly>>

(* UTree: kept for the announcement, or passed on.                                *)
Pass(u, n) ==
  /\ UNCHANGED <<users, wronged, skipped>>
  /\ \/ view' = TreeNode(u, n) /\ UNCHANGED lost
     \/ lost' = lost \cup {n} /\ UNCHANGED view

UTreeDropped(u) ==    \* defective variant: nodes before UReady are not kept
  /\ last_node < MaxNodes /\ users[u] # NoCell
  /\ last_node' = last_node + 1
  /\ nodes' = [nodes EXCEPT ![u] = @ \cup {last_node'}]
  /\ \/ users[u].stage = "Init" /\ UNCHANGED <<users, view, harm>>
     \/ users[u].stage = "Ready" /\ Pass(u, last_node')
  /\ UNCHANGED <<room_ready, orderly>>

UTree(u) ==
  /\ last_node < MaxNodes /\ users[u] # NoCell
  /\ last_node' = last_node + 1
  /\ nodes' = [nodes EXCEPT ![u] = @ \cup {last_node'}]
  /\ \/ users[u].stage = "Init"
          /\ users' = With(u, [users[u] EXCEPT !.tree = @ \cup {last_node'}])
          /\ UNCHANGED <<view, harm>>
     \/ users[u].stage = "Ready" /\ Pass(u, last_node')
  /\ UNCHANGED <<room_ready, orderly>>

(* RReady: the room is announced, then every user in the table.  If on_room_ready *)
(* fails nothing is changed, which is a stuttering step.                          *)
RReady ==
  /\ orderly' = (orderly /\ ~room_ready /\ \A u \in Users : users[u].stage # "Init")
  /\ room_ready' = TRUE
  /\ FireJoined(users, {u \in Users : users[u] # NoCell})
  /\ UNCHANGED <<nodes, last_node>>

Next ==
  \/ RReady
  \/ \E u \in Users :
       \/ UInit(u) \/ UReady(u) \/ UOffline(u) \/ UTree(u)
       \/ \E inst \in Insts, streams \in Streams : UNew(u, inst, streams) \/ UFull(u, inst, streams)

Spec == Init /\ [][Next]_vars

-------------------------------------------------------------------------------
(* Properties.                                                                    *)

(* Once the room is ready the application's picture of every ready user is the    *)
(* table's: announced, with exactly the streams of the last UFull, whatever the   *)
(* order of the pushes.  A call about u that fails (about his joining, leaving or *)
(* streams) spoils the picture of u alone, and until he is announced again or     *)
(* leaves; but when it is one of RReady, the loop ends, and those it did not come *)
(* to stay unknown to the application, ready as they are, until a push announces  *)
(* them.                                                                          *)
ReadyUsersShown ==
  room_ready => \A u \in Users \ wronged :
    users[u].stage = "Ready" =>
      IF u \in skipped THEN u \notin view.known
                       ELSE u \in view.known /\ view.app[u] = users[u].streams

(* No tree node of a user in the table is lost but those in the hands of a        *)
(* listener call that failed: it waits for the announcement, was shown, or came   *)
(* before the announcement (handed to the listener early).  When the user is      *)
(* ready in a ready room none waits, unless an RReady that failed did not come to *)
(* him.                                                                           *)
TreeNodesHandedOver ==
  \A u \in {v \in Users : users[v] # NoCell} :
    /\ nodes[u] \subseteq users[u].tree \cup view.shown \cup view.early \cup lost
    /\ room_ready /\ users[u].stage = "Ready" /\ u \notin skipped => users[u].tree = {}

(* As long as the server completes the snapshots of users before it declares the  *)
(* room ready, once, the application keeps nobody the delegate has forgotten, and *)
(* nobody is announced twice; except a user about whom a call failed (an          *)
(* on_user_leaved the application refused leaves him there), until he is          *)
(* announced again or leaves.                                                     *)
NoGhosts ==
  orderly =>
    /\ \A u \in Users \ wronged : u \in view.known => users[u].stage = "Ready"
    /\ view.joined_twice = {}
================================================================================
