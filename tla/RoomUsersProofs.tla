---------------------------- MODULE RoomUsersProofs ----------------------------
(* What the application knows of the room is what the delegate keeps, for any     *)
(* users, streams and instances, and wherever a listener call fails.              *)
EXTENDS RoomUsers, TLAPS

Cell == [stage : {"Init", "Ready"}, inst : Insts, streams : Streams, tree : SUBSET Nat]
Table == [Users -> Cell \cup {NoCell}]
Picture == [known : SUBSET Users, app : [Users -> Streams], shown : SUBSET Nat,
            early : SUBSET Nat, joined_twice : SUBSET Users]

Typed == /\ users \in Table
         /\ room_ready \in BOOLEAN
         /\ view \in Picture
         /\ nodes \in [Users -> SUBSET Nat]
         /\ last_node \in Nat
         /\ wronged \in SUBSET Users /\ skipped \in SUBSET Users
         /\ lost \in SUBSET Nat
         /\ orderly \in BOOLEAN

-------------------------------------------------------------------------------
(* Somebody in the table has a cell, and nobody else.                             *)
LEMMA CellOrNot ==
  ASSUME NEW table \in Table, NEW u \in Users
  PROVE  table[u] # NoCell <=> table[u] \in Cell
BY DEF Table, Cell, NoCell

LEMMA WithType ==
  ASSUME users \in Table, NEW u \in Users, NEW cell \in Cell \cup {NoCell}
  PROVE  With(u, cell) \in Table
BY DEF Table, With

LEMMA EmptiedType ==
  ASSUME NEW table \in Table, NEW S \in SUBSET Users, \A u \in S : table[u] \in Cell
  PROVE  Emptied(table, S) \in Table
<1> SUFFICES ASSUME NEW u \in Users
             PROVE  Emptied(table, S)[u] \in Cell \cup {NoCell}
  BY DEF Emptied, Table
<1>1. CASE u \in S
  BY <1>1 DEF Emptied, Cell
<1>2. CASE u \notin S
  BY <1>2 DEF Emptied, Table
<1>. QED
  BY <1>1, <1>2

LEMMA JoinedType ==
  ASSUME view \in Picture, NEW table \in Table, NEW S \in SUBSET Users,
         \A u \in S : table[u] \in Cell,
         NEW added \in [Users -> SUBSET Stypes]
  PROVE  Joined(table, S, added) \in Picture
<1> DEFINE app == [u \in Users |->
                     IF u \notin S THEN view.app[u]
                     ELSE [s \in Stypes |-> IF s \in added[u] THEN table[u].streams[s]
                                                             ELSE NoStream]]
<1>1. app \in [Users -> Streams]
  <2> SUFFICES ASSUME NEW u \in Users, u \in S, NEW s \in Stypes
               PROVE  app[u][s] \in Stream \cup {NoStream}
    BY DEF Picture, Streams
  <2>. QED
    BY DEF Cell, Streams
<1>2. UNION {table[u].tree : u \in S} \in SUBSET Nat
  BY DEF Cell
<1>. QED
  BY <1>1, <1>2 DEF Joined, Picture

LEMMA LeavedType ==
  ASSUME view \in Picture, NEW u \in Users
  PROVE  Leaved(u) \in Picture
BY DEF Leaved, Picture, NoStreams, Streams

LEMMA TreeNodeType ==
  ASSUME view \in Picture, NEW u \in Users, NEW n \in Nat
  PROVE  TreeNode(u, n) \in Picture
BY DEF TreeNode, Picture

LEMMA ToldType ==
  ASSUME view \in Picture, NEW u \in Users, NEW S \in SUBSET Stypes,
         NEW told \in [S -> Stream \cup {NoStream}]
  PROVE  Told(u, told) \in Picture
<1> DEFINE entry == [s \in Stypes |-> IF s \in DOMAIN told THEN told[s] ELSE view.app[u][s]]
<1>1. entry \in Streams
  BY DEF Picture, Streams
<1>. QED
  BY <1>1 DEF Told, Picture

(* What a change tells of a stream is what the stream has become.                 *)
LEMMA TellsTheChange ==
  ASSUME NEW old \in Stream \cup {NoStream}, NEW new \in Stream \cup {NoStream}
  PROVE  Tells(old, new) = new
<1>1. CASE old \in Stream /\ new \in Stream /\ old.producer = new.producer
  BY <1>1 DEF Tells, Stream
<1>. QED
  BY <1>1 DEF Tells, Stream, NoStream

(* A change that is told to its end leaves the entry with the new streams; one    *)
(* told halfway leaves a picture all the same, and of the others what it was.     *)
LEMMA DeltaTold ==
  ASSUME view \in Picture, NEW u \in Users, NEW old \in Streams, NEW new \in Streams
  PROVE  /\ Delta(u, old, new) \in Picture
         /\ u \in view.known /\ view.app[u] = old =>
              Delta(u, old, new) = [view EXCEPT !.app[u] = new]
<1> DEFINE S == Changed(old, new) \cup Fresh(old, new)
           told == [s \in S |-> Tells(old[s], new[s])]
<1>1. /\ S \in SUBSET Stypes
      /\ told = [s \in S |-> new[s]]
  BY TellsTheChange DEF Changed, Fresh, Streams
<1>2. told \in [S -> Stream \cup {NoStream}]
  BY <1>1 DEF Streams
<1>3. Delta(u, old, new) \in Picture
  BY <1>1, <1>2, ToldType DEF Delta, DeltaOf
<1>4. ASSUME u \in view.known, view.app[u] = old
      PROVE  [s \in Stypes |-> IF s \in DOMAIN told THEN told[s] ELSE view.app[u][s]] = new
  BY <1>1, <1>4 DEF Changed, Fresh, Streams
<1>. QED
  BY <1>3, <1>4 DEF Delta, DeltaOf, Told

LEMMA DeltaHalfwayTold ==
  ASSUME view \in Picture, NEW u \in Users, NEW old \in Streams, NEW new \in Streams,
         NEW v \in DeltaHalfway(u, old, new)
  PROVE  /\ v \in Picture
         /\ \E entry \in Streams : v = [view EXCEPT !.app[u] = entry]
<1>1. ASSUME NEW S \in SUBSET Stypes, NEW told \in [S -> Stream \cup {NoStream}], v = Told(u, told)
      PROVE  /\ v \in Picture
             /\ \E entry \in Streams : v = [view EXCEPT !.app[u] = entry]
  <2> DEFINE entry == [s \in Stypes |-> IF s \in DOMAIN told THEN told[s] ELSE view.app[u][s]]
  <2>1. entry \in Streams /\ view.app[u] \in Streams
    BY DEF Picture, Streams
  <2>2. CASE u \in view.known
    BY <1>1, <2>1, <2>2, ToldType DEF Told
  <2>3. CASE u \notin view.known
    <3>1. v = [view EXCEPT !.app[u] = view.app[u]]
      BY <1>1, <2>3 DEF Told, Picture
    <3>. QED
      BY <1>1, <2>1, <3>1, ToldType
  <2>. QED
    BY <2>2, <2>3
<1>2. ASSUME NEW s \in Stypes
      PROVE  Tells(old[s], new[s]) \in Stream \cup {NoStream}
  BY TellsTheChange DEF Streams
<1>3. Changed(old, new) \subseteq Stypes /\ Fresh(old, new) \subseteq Stypes
      /\ Replaced(old, new) \subseteq Stypes
  BY DEF Changed, Fresh, Replaced
<1>4. ASSUME NEW S \in SUBSET Stypes, v = DeltaOf(u, old, new, S)
      PROVE  /\ v \in Picture
             /\ \E entry \in Streams : v = [view EXCEPT !.app[u] = entry]
  <2> DEFINE told == [s \in S |-> Tells(old[s], new[s])]
  <2>1. told \in [S -> Stream \cup {NoStream}]
    BY <1>2
  <2>2. v = Told(u, told)
    BY <1>4 DEF DeltaOf
  <2>. HIDE DEF told
  <2>. QED
    BY <1>1, <2>1, <2>2
<1>5. ASSUME NEW S \in SUBSET Stypes, NEW r \in Stypes, v = DeltaTorn(u, old, new, S, r)
      PROVE  /\ v \in Picture
             /\ \E entry \in Streams : v = [view EXCEPT !.app[u] = entry]
  <2> DEFINE T == S \cup {r}
             told == [s \in T |-> IF s = r THEN NoStream ELSE Tells(old[s], new[s])]
  <2>1. told \in [T -> Stream \cup {NoStream}]
    BY <1>2
  <2>2. T \in SUBSET Stypes /\ v = Told(u, told)
    BY <1>5 DEF DeltaTorn
  <2>. HIDE DEF T, told
  <2>. QED
    BY <1>1, <2>1, <2>2
<1>6. \/ \E S \in SUBSET Stypes : v = DeltaOf(u, old, new, S)
      \/ \E S \in SUBSET Stypes, r \in Stypes : v = DeltaTorn(u, old, new, S, r)
  BY <1>3 DEF DeltaHalfway
<1>. QED
  BY <1>4, <1>5, <1>6

(* However announcing the users of S ends: those of done were announced to the    *)
(* end; those of begun gave up their tree and those of entered, in between, have   *)
(* an entry; a call failed for whoever was begun and not done.                    *)
Fired(table, S, done, entered, begun, added) ==
  /\ done \subseteq entered /\ entered \subseteq begun /\ (S = {} \/ begun # {})
  /\ \A u \in done : added[u] = Has(table[u])
  /\ view' = Joined(table, entered, added)
  /\ users' = Emptied(table, begun)
  /\ wronged' = (wronged \ done) \cup (begun \ done)
  /\ skipped' = (skipped \cup (S \ view.known)) \ begun
  /\ lost' = lost \cup UNION {table[u].tree : u \in begun \ entered}

LEMMA FireJoinedEnds ==
  ASSUME NEW table \in Table, NEW S \in SUBSET Users,
         FireJoined(table, S)
  PROVE  \E done, entered, begun \in SUBSET S, added \in [Users -> SUBSET Stypes] :
           Fired(table, S, done, entered, begun, added)
<1> DEFINE has == [u \in Users |-> IF u \in S THEN Has(table[u]) ELSE {}]
           Begins(done, u) ==
             /\ \/ view' = Joined(table, done, has) /\ lost' = lost \cup table[u].tree
                \/ \E T \in SUBSET has[u] :
                     /\ T # has[u]
                     /\ view' = Joined(table, done \cup {u}, [has EXCEPT ![u] = T])
                     /\ UNCHANGED lost
             /\ users' = Emptied(table, done \cup {u})
             /\ wronged' = (wronged \ done) \cup {u}
             /\ skipped' = (skipped \cup (S \ view.known)) \ (done \cup {u})
<1>1. has \in [Users -> SUBSET Stypes] /\ \A u \in S : has[u] = Has(table[u])
  BY DEF Has
<1>2. CASE /\ view' = Joined(table, S, has)
           /\ users' = Emptied(table, S)
           /\ wronged' = wronged \ S
           /\ skipped' = skipped \ S
           /\ UNCHANGED lost
  <2>1. /\ wronged' = (wronged \ S) \cup (S \ S)
        /\ skipped' = (skipped \cup (S \ view.known)) \ S
        /\ lost' = lost \cup UNION {table[u].tree : u \in S \ S}
    BY <1>2
  <2>2. Fired(table, S, S, S, S, has)
    BY <1>1, <1>2, <2>1 DEF Fired
  <2>. QED
    BY <1>1, <2>2
<1>3. ASSUME NEW done \in SUBSET S, NEW u \in S \ done, Begins(done, u)
      PROVE  \E d, entered, begun \in SUBSET S, added \in [Users -> SUBSET Stypes] :
               Fired(table, S, d, entered, begun, added)
  <2> DEFINE begun == done \cup {u}
  <2>1. /\ begun \in SUBSET S /\ done \subseteq begun /\ begun # {}
        /\ begun \ done = {u} /\ begun \ begun = {}
    OBVIOUS
  <2>2. /\ users' = Emptied(table, begun)
        /\ wronged' = (wronged \ done) \cup (begun \ done)
        /\ skipped' = (skipped \cup (S \ view.known)) \ begun
    BY <1>3, <2>1
  <2>3. CASE view' = Joined(table, done, has) /\ lost' = lost \cup table[u].tree
    <3>1. lost' = lost \cup UNION {table[w].tree : w \in begun \ done}
      BY <2>1, <2>3
    <3>2. Fired(table, S, done, done, begun, has)
      BY <1>1, <2>1, <2>2, <2>3, <3>1 DEF Fired
    <3>. QED
      BY <1>1, <2>1, <3>2
  <2>4. CASE \E T \in SUBSET has[u] :
                view' = Joined(table, begun, [has EXCEPT ![u] = T]) /\ UNCHANGED lost
    <3>1. PICK T \in SUBSET has[u] :
                 view' = Joined(table, begun, [has EXCEPT ![u] = T]) /\ UNCHANGED lost
      BY <2>4
    <3> DEFINE added == [has EXCEPT ![u] = T]
    <3>2. added \in [Users -> SUBSET Stypes]
      BY <1>1
    <3>3. lost' = lost \cup UNION {table[w].tree : w \in begun \ begun}
      BY <2>1, <3>1
    <3>4. \A w \in done : added[w] = Has(table[w])
      BY <1>1
    <3>5. view' = Joined(table, begun, added)
      BY <3>1
    <3>. HIDE DEF added
    <3>6. Fired(table, S, done, begun, begun, added)
      BY <2>1, <2>2, <3>3, <3>4, <3>5 DEF Fired
    <3>. QED
      BY <2>1, <3>2, <3>6
  <2>. QED
    BY <1>3, <2>3, <2>4
<1>4. \/ /\ view' = Joined(table, S, has)
         /\ users' = Emptied(table, S)
         /\ wronged' = wronged \ S
         /\ skipped' = skipped \ S
         /\ UNCHANGED lost
      \/ \E done \in SUBSET S : \E u \in S \ done : Begins(done, u)
  BY DEF FireJoined
<1>. HIDE DEF has, Begins
<1>. QED
  BY <1>2, <1>3, <1>4 DEF Begins

-------------------------------------------------------------------------------
(* The inductive invariant: of each user, what the properties say, that nothing   *)
(* is left of the tree of one who is not in the table, and that one RReady did    *)
(* not come to is unknown; nobody has been announced before the room is.          *)
PictureOK(u) ==
  /\ u \in skipped => u \notin view.known
  /\ u \notin wronged =>
       /\ room_ready /\ users[u].stage = "Ready" /\ u \notin skipped =>
            u \in view.known /\ view.app[u] = users[u].streams
       /\ orderly /\ u \in view.known => users[u].stage = "Ready"

TreeOK(u) ==
  /\ users[u] = NoCell => nodes[u] = {}
  /\ users[u] # NoCell =>
       nodes[u] \subseteq users[u].tree \cup view.shown \cup view.early \cup lost
  /\ room_ready /\ users[u].stage = "Ready" /\ u \notin skipped => users[u].tree = {}

UserOK(u) == PictureOK(u) /\ TreeOK(u)

NobodyEarly == ~room_ready => view.known = {}

NobodyTwice == orderly => view.joined_twice = {}

RoomInv == /\ Typed
           /\ \A u \in Users : UserOK(u)
           /\ NobodyEarly
           /\ NobodyTwice

(* What a push about u leaves alone.                                              *)
OthersKept(u) ==
  /\ \A w \in Users \ {u} :
       /\ users'[w] = users[w] /\ nodes'[w] = nodes[w]
       /\ view'.app[w] = view.app[w]
       /\ w \in view'.known <=> w \in view.known
       /\ w \in wronged' <=> w \in wronged
       /\ w \in skipped' <=> w \in skipped
  /\ view.shown \subseteq view'.shown /\ view.early \subseteq view'.early
  /\ lost \subseteq lost'
  /\ room_ready' = room_ready
  /\ orderly' => orderly

LEMMA OthersOK ==
  ASSUME RoomInv, NEW u \in Users, OthersKept(u), NEW w \in Users, w # u
  PROVE  UserOK(w)'
<1>1. UserOK(w)
  BY DEF RoomInv
<1>2. PictureOK(w)'
  BY <1>1 DEF OthersKept, UserOK, PictureOK
<1>3. TreeOK(w)'
  BY <1>1 DEF OthersKept, UserOK, TreeOK
<1>. QED
  BY <1>2, <1>3 DEF UserOK

(* A user who left, or was to leave, is out of the table: of him alone, and his   *)
(* picture is right unless on_user_leaved failed.                                 *)
LEMMA LeaveStep ==
  ASSUME RoomInv, NEW u \in Users, Leave(u, NoCell, NoCell),
         nodes' = [nodes EXCEPT ![u] = {}],
         UNCHANGED <<room_ready, last_node, orderly>>
  PROVE  Typed' /\ OthersKept(u) /\ UserOK(u)' /\ NobodyEarly' /\ NobodyTwice'
<1>1. /\ view \in Picture /\ Leaved(u) \in Picture
      /\ view.app \in [Users -> Streams] /\ users \in Table
  BY LeavedType DEF RoomInv, Typed, Picture
<1>2. /\ Leaved(u).known = view.known \ {u}
      /\ Leaved(u).app = [view.app EXCEPT ![u] = NoStreams]
      /\ Leaved(u).shown = view.shown /\ Leaved(u).early = view.early
      /\ Leaved(u).joined_twice = view.joined_twice
  BY <1>1 DEF Leaved, Picture
<1>3. /\ users' = [users EXCEPT ![u] = NoCell]
      /\ skipped' = skipped /\ lost' = lost
      /\ \/ view' = Leaved(u) /\ wronged' = wronged \ {u}
         \/ view' = view /\ wronged' = wronged \cup {u}
  BY DEF Leave, With
<1>4. /\ view' \in Picture /\ wronged' \in SUBSET Users
      /\ \A w \in Users \ {u} : /\ view'.app[w] = view.app[w]
                                /\ w \in view'.known <=> w \in view.known
                                /\ w \in wronged' <=> w \in wronged
      /\ view'.known \subseteq view.known
      /\ view'.shown = view.shown /\ view'.early = view.early
      /\ view'.joined_twice = view.joined_twice
      /\ u \notin wronged' => u \notin view'.known
  <2>1. CASE view' = Leaved(u) /\ wronged' = wronged \ {u}
    BY <1>1, <1>2, <2>1 DEF RoomInv, Typed
  <2>2. CASE view' = view /\ wronged' = wronged \cup {u}
    BY <1>1, <2>2 DEF RoomInv, Typed
  <2>. QED
    BY <1>3, <2>1, <2>2
<1>5. Typed'
  BY <1>1, <1>3, <1>4, WithType DEF RoomInv, Typed, Table
<1>6. OthersKept(u)
  BY <1>1, <1>3, <1>4 DEF RoomInv, Typed, Table, OthersKept
<1>7. UserOK(u)'
  <2>1. users'[u] = NoCell /\ nodes'[u] = {}
    BY <1>1, <1>3 DEF RoomInv, Typed, Table
  <2>2. PictureOK(u)
    BY DEF RoomInv, UserOK
  <2>. QED
    BY <1>3, <1>4, <2>1, <2>2 DEF UserOK, PictureOK, TreeOK, NoCell
<1>8. NobodyEarly' /\ NobodyTwice'
  BY <1>4 DEF RoomInv, NobodyEarly, NobodyTwice
<1>. QED
  BY <1>5, <1>6, <1>7, <1>8

LEMMA UInitStep ==
  ASSUME RoomInv, NEW u \in Users, UInit(u)
  PROVE  Typed' /\ OthersKept(u) /\ UserOK(u)' /\ NobodyEarly' /\ NobodyTwice'
BY LeaveStep DEF UInit

LEMMA UOfflineStep ==
  ASSUME RoomInv, NEW u \in Users, UOffline(u)
  PROVE  Typed' /\ OthersKept(u) /\ UserOK(u)' /\ NobodyEarly' /\ NobodyTwice'
<1>1. CASE users[u].stage = "Ready" /\ Leave(u, NoCell, NoCell)
  BY <1>1, LeaveStep DEF UOffline
<1>2. CASE users[u].stage = "Init" /\ users' = With(u, NoCell) /\ UNCHANGED <<view, harm>>
  <2>1. /\ users' = [users EXCEPT ![u] = NoCell]
        /\ nodes' = [nodes EXCEPT ![u] = {}]
        /\ UNCHANGED <<room_ready, last_node, orderly, view, wronged, skipped, lost>>
    BY <1>2 DEF UOffline, With, harm
  <2>2. Typed'
    BY <2>1 DEF RoomInv, Typed, Table
  <2>3. OthersKept(u)
    BY <2>1 DEF RoomInv, Typed, Table, OthersKept
  <2>4. UserOK(u)'
    <3>1. users'[u] = NoCell /\ nodes'[u] = {}
      BY <2>1 DEF RoomInv, Typed, Table
    <3>2. PictureOK(u)
      BY DEF RoomInv, UserOK
    <3>. QED
      BY <1>2, <2>1, <3>1, <3>2 DEF UserOK, PictureOK, TreeOK, NoCell
  <2>5. NobodyEarly' /\ NobodyTwice'
    BY <2>1 DEF RoomInv, NobodyEarly, NobodyTwice
  <2>. QED
    BY <2>2, <2>3, <2>4, <2>5
<1>. QED
  BY <1>1, <1>2 DEF UOffline

LEMMA UNewStep ==
  ASSUME RoomInv, NEW u \in Users, NEW inst \in Insts, NEW streams \in Streams,
         UNew(u, inst, streams)
  PROVE  Typed' /\ OthersKept(u) /\ UserOK(u)' /\ NobodyEarly' /\ NobodyTwice'
<1> DEFINE cell == [stage |-> "Init", inst |-> inst, streams |-> streams, tree |-> {}]
<1>0. cell \in Cell
  BY DEF Cell
<1>1. Typed'
  BY <1>0, WithType DEF RoomInv, Typed, UNew, harm
<1>2. /\ users' = [users EXCEPT ![u] = cell]
      /\ nodes' = nodes /\ nodes[u] = {}
      /\ UNCHANGED <<room_ready, orderly, view, wronged, skipped, lost>>
  BY DEF RoomInv, UserOK, TreeOK, UNew, With, harm
<1>3. OthersKept(u)
  BY <1>2 DEF RoomInv, Typed, Table, OthersKept
<1>5. UserOK(u)'
  <2>1. users'[u] = cell
    BY <1>2 DEF RoomInv, Typed, Table
  <2>2. /\ orderly /\ u \in view.known => u \in wronged
        /\ u \in skipped => u \notin view.known
    BY DEF RoomInv, UserOK, PictureOK, UNew, NoCell
  <2>. QED
    BY <1>2, <2>1, <2>2, <1>0 DEF UserOK, PictureOK, TreeOK, NoCell
<1>4. NobodyEarly' /\ NobodyTwice'
  BY <1>2 DEF RoomInv, NobodyEarly, NobodyTwice
<1>. QED
  BY <1>1, <1>3, <1>4, <1>5

LEMMA UTreeStep ==
  ASSUME RoomInv, NEW u \in Users, UTree(u)
  PROVE  Typed' /\ OthersKept(u) /\ UserOK(u)' /\ NobodyEarly' /\ NobodyTwice'
<1> DEFINE n == last_node + 1
           cell == [users[u] EXCEPT !.tree = @ \cup {n}]
<1>0. n \in Nat /\ users[u] \in Cell /\ cell \in Cell
  BY CellOrNot DEF RoomInv, Typed, UTree, Cell
<1>1. CASE users[u].stage = "Init"
  <2>1. /\ users' = [users EXCEPT ![u] = cell]
        /\ nodes' = [nodes EXCEPT ![u] = @ \cup {n}]
        /\ last_node' = n
        /\ UNCHANGED <<room_ready, orderly, view, wronged, skipped, lost>>
    BY <1>1 DEF UTree, With, harm
  <2>2. Typed'
    BY <1>0, <2>1 DEF RoomInv, Typed, Table
  <2>3. OthersKept(u)
    BY <2>1 DEF RoomInv, Typed, Table, OthersKept
  <2>4. UserOK(u)'
    <3>1. /\ users'[u] = cell /\ nodes'[u] = nodes[u] \cup {n}
          /\ cell.tree = users[u].tree \cup {n} /\ cell.stage = "Init"
      BY <1>0, <1>1, <2>1 DEF RoomInv, Typed, Table, Cell
    <3>2. users[u] # NoCell
      BY DEF UTree
    <3>. HIDE DEF cell, n
    <3>. QED
      BY <1>0, <1>1, <2>1, <3>1, <3>2 DEF RoomInv, UserOK, PictureOK, TreeOK, Cell, NoCell
  <2>5. NobodyEarly' /\ NobodyTwice'
    BY <2>1 DEF RoomInv, NobodyEarly, NobodyTwice
  <2>. QED
    BY <2>2, <2>3, <2>4, <2>5
<1>2. CASE users[u].stage = "Ready"
  <2>1. /\ users' = users
        /\ nodes' = [nodes EXCEPT ![u] = @ \cup {n}]
        /\ last_node' = n
        /\ UNCHANGED <<room_ready, orderly, wronged, skipped>>
        /\ \/ view' = TreeNode(u, n) /\ lost' = lost
           \/ view' = view /\ lost' = lost \cup {n}
    BY <1>2 DEF UTree, Pass
  <2>2. /\ view' \in Picture
        /\ view'.known = view.known /\ view'.app = view.app
        /\ view'.joined_twice = view.joined_twice
        /\ view.shown \subseteq view'.shown /\ view.early \subseteq view'.early
        /\ lost \subseteq lost' /\ lost' \in SUBSET Nat
        /\ n \in view'.shown \cup view'.early \cup lost'
    <3>1. TreeNode(u, n) \in Picture /\ view \in Picture
      BY <1>0, TreeNodeType DEF RoomInv, Typed
    <3>2. CASE view' = TreeNode(u, n) /\ lost' = lost
      BY <3>1, <3>2 DEF RoomInv, Typed, TreeNode, Picture
    <3>3. CASE view' = view /\ lost' = lost \cup {n}
      BY <1>0, <3>1, <3>3 DEF RoomInv, Typed
    <3>. QED
      BY <2>1, <3>2, <3>3
  <2>. HIDE DEF n
  <2>3. Typed'
    BY <1>0, <2>1, <2>2 DEF RoomInv, Typed
  <2>4. OthersKept(u)
    BY <2>1, <2>2 DEF RoomInv, Typed, OthersKept
  <2>5. UserOK(u)'
    <3>1. nodes'[u] = nodes[u] \cup {n} /\ users'[u] # NoCell
      BY <2>1 DEF RoomInv, Typed, UTree
    <3>. QED
      BY <2>1, <2>2, <3>1 DEF RoomInv, UserOK, PictureOK, TreeOK
  <2>6. NobodyEarly' /\ NobodyTwice'
    BY <2>1, <2>2 DEF RoomInv, NobodyEarly, NobodyTwice
  <2>. QED
    BY <2>3, <2>4, <2>5, <2>6
<1>. QED
  BY <1>0, <1>1, <1>2 DEF Cell

(* The application has heard only of u, and nothing of a tree.                    *)
EntryOnly(u) ==
  /\ view' \in Picture
  /\ \A w \in Users \ {u} :
       view'.app[w] = view.app[w] /\ (w \in view'.known <=> w \in view.known)
  /\ view'.known \subseteq view.known
  /\ view'.shown = view.shown /\ view'.early = view.early
  /\ view'.joined_twice = view.joined_twice

LEMMA UFullStep ==
  ASSUME RoomInv, NEW u \in Users, NEW inst \in Insts, NEW streams \in Streams,
         UFull(u, inst, streams)
  PROVE  Typed' /\ OthersKept(u) /\ UserOK(u)' /\ NobodyEarly' /\ NobodyTwice'
<1> DEFINE new == [users[u] EXCEPT !.streams = streams, !.inst = inst]
           again == [new EXCEPT !.stage = "Init"]
<1>0. /\ users[u] \in Cell /\ new \in Cell /\ again \in Cell
      /\ new.stage = users[u].stage /\ new.streams = streams /\ new.tree = users[u].tree
      /\ again.stage = "Init" /\ again.tree = users[u].tree
      /\ new # NoCell /\ again # NoCell
  <2>1. users[u] \in Cell
    BY CellOrNot DEF RoomInv, Typed, UFull
  <2>2. new \in Cell /\ again \in Cell
    BY <2>1 DEF Cell
  <2>3. \A cell \in Cell : cell # NoCell
    BY DEF Cell, NoCell
  <2>4. /\ new.stage = users[u].stage /\ new.streams = streams /\ new.tree = users[u].tree
        /\ again.stage = "Init" /\ again.tree = users[u].tree
    BY <2>1 DEF Cell
  <2>. QED
    BY <2>1, <2>2, <2>3, <2>4
<1>1. /\ nodes' = IF users'[u] = NoCell THEN [nodes EXCEPT ![u] = {}] ELSE nodes
      /\ UNCHANGED <<room_ready, last_node, orderly>>
      /\ users[u] # NoCell
  BY DEF UFull
<1>2. \/ /\ users[u].stage = "Init" /\ users' = [users EXCEPT ![u] = new]
         /\ view' = view /\ wronged' = wronged
      \/ /\ users[u].stage = "Ready" /\ users' = [users EXCEPT ![u] = new]
         /\ view' = Delta(u, users[u].streams, streams) /\ wronged' = wronged
      \/ /\ users[u].stage = "Ready" /\ users' = [users EXCEPT ![u] = NoCell]
         /\ view' \in DeltaHalfway(u, users[u].streams, streams)
         /\ wronged' = wronged \cup {u}
      \/ /\ users[u].stage = "Ready" /\ users' = [users EXCEPT ![u] = again]
         /\ view' = Leaved(u) /\ wronged' = wronged \ {u}
      \/ /\ users[u].stage = "Ready" /\ users' = [users EXCEPT ![u] = NoCell]
         /\ view' = view /\ wronged' = wronged \cup {u}
  BY DEF UFull, Leave, With, harm
<1>3. view \in Picture /\ users \in Table /\ users[u].streams \in Streams
  BY <1>0 DEF RoomInv, Typed, Cell
<1>. HIDE DEF new, again
<1>4. PICK cell \in Cell \cup {NoCell} :
             cell \in {new, again, NoCell} /\ users' = [users EXCEPT ![u] = cell]
  BY <1>0, <1>2
<1>5. users' \in Table /\ users'[u] = cell
  BY <1>3, <1>4 DEF Table
<1>6. /\ wronged' = wronged \/ wronged' = wronged \cup {u} \/ wronged' = wronged \ {u}
      /\ skipped' = skipped /\ lost' = lost
  BY <1>2 DEF UFull, Leave, harm
<1>7. EntryOnly(u)
  <2>1. CASE view' = view
    BY <1>3, <2>1 DEF EntryOnly
  <2>2. CASE view' = Leaved(u)
    <3>1. view' \in Picture
      BY <1>3, <2>2, LeavedType
    <3>2. /\ view'.known = view.known \ {u} /\ view'.app = [view.app EXCEPT ![u] = NoStreams]
          /\ view'.shown = view.shown /\ view'.early = view.early
          /\ view'.joined_twice = view.joined_twice
      BY <1>3, <2>2 DEF Leaved, Picture
    <3>3. view.app \in [Users -> Streams]
      BY <1>3 DEF Picture
    <3>. QED
      BY <3>1, <3>2, <3>3 DEF EntryOnly
  <2>3. CASE view' = Delta(u, users[u].streams, streams)
    <3>1. Delta(u, users[u].streams, streams) \in Picture
      BY <1>3, DeltaTold
    <3>2. \E entry : view' = [view EXCEPT !.app[u] = entry] \/ view' = view
      BY <2>3 DEF Delta, DeltaOf, Told
    <3>. QED
      BY <1>3, <2>3, <3>1, <3>2 DEF Picture, EntryOnly
  <2>4. CASE view' \in DeltaHalfway(u, users[u].streams, streams)
    <3>1. PICK v \in DeltaHalfway(u, users[u].streams, streams) : v = view'
      BY <2>4
    <3>2. v \in Picture /\ \E entry \in Streams : v = [view EXCEPT !.app[u] = entry]
      BY <1>3, DeltaHalfwayTold
    <3>. QED
      BY <1>3, <3>1, <3>2 DEF Picture, EntryOnly
  <2>5. \/ view' = view \/ view' = Leaved(u)
        \/ view' = Delta(u, users[u].streams, streams)
        \/ view' \in DeltaHalfway(u, users[u].streams, streams)
    BY <1>2
  <2>. QED
    BY <2>1, <2>2, <2>3, <2>4, <2>5
<1>8. Typed'
  BY <1>1, <1>5, <1>6, <1>7 DEF RoomInv, Typed, EntryOnly
<1>9. OthersKept(u)
  BY <1>1, <1>3, <1>4, <1>6, <1>7 DEF RoomInv, Typed, Table, OthersKept, EntryOnly
<1>10. UserOK(u)'
  <2>1. users'[u] = NoCell => nodes'[u] = {}
    BY <1>1 DEF RoomInv, Typed
  <2>2. /\ cell # NoCell => cell.tree = users[u].tree /\ cell.stage \in {users[u].stage, "Init"}
        /\ cell = NoCell => cell.stage = "none"
    BY <1>0, <1>4 DEF NoCell
  <2>3. UserOK(u)
    BY DEF RoomInv
  <2>4. TreeOK(u)'
    BY <1>1, <1>5, <1>6, <1>7, <2>1, <2>2, <2>3 DEF UserOK, TreeOK, EntryOnly
  <2>5. ASSUME u \notin wronged'
        PROVE  /\ room_ready /\ cell.stage = "Ready" /\ u \notin skipped =>
                    u \in view'.known /\ view'.app[u] = cell.streams
               /\ orderly /\ u \in view'.known => cell.stage = "Ready"
    <3>1. CASE /\ users[u].stage = "Init" /\ users' = [users EXCEPT ![u] = new]
               /\ view' = view /\ wronged' = wronged
      <4>1. cell = new
        BY <1>3, <1>5, <3>1 DEF Table
      <4>. QED
        BY <1>0, <2>3, <2>5, <3>1, <4>1 DEF UserOK, PictureOK
    <3>2. CASE /\ users[u].stage = "Ready" /\ users' = [users EXCEPT ![u] = new]
               /\ view' = Delta(u, users[u].streams, streams) /\ wronged' = wronged
      <4>1. cell = new
        BY <1>3, <1>5, <3>2 DEF Table
      <4>2. room_ready /\ u \notin skipped =>
              view' = [view EXCEPT !.app[u] = streams] /\ u \in view.known
        BY <1>3, <2>3, <2>5, <3>2, DeltaTold DEF UserOK, PictureOK
      <4>3. room_ready /\ u \notin skipped => u \in view'.known /\ view'.app[u] = streams
        BY <1>3, <4>2 DEF Picture
      <4>. QED
        BY <1>0, <3>2, <4>1, <4>3
    <3>3. CASE users[u].stage = "Ready" /\ users' = [users EXCEPT ![u] = again] /\ view' = Leaved(u)
      <4>1. cell = again
        BY <1>3, <1>5, <3>3 DEF Table
      <4>2. u \notin view'.known
        BY <1>3, <3>3 DEF Leaved, Picture
      <4>. QED
        BY <1>0, <4>1, <4>2
    <3>. QED
      BY <1>2, <2>5, <3>1, <3>2, <3>3
  <2>6. PictureOK(u)'
    <3>1. u \in skipped' => u \notin view'.known
      BY <1>6, <1>7, <2>3 DEF UserOK, PictureOK, EntryOnly
    <3>2. room_ready' = room_ready /\ orderly' = orderly /\ skipped' = skipped
      BY <1>1, <1>6
    <3>. QED
      BY <1>5, <2>5, <3>1, <3>2 DEF PictureOK
  <2>. QED
    BY <2>4, <2>6 DEF UserOK
<1>11. NobodyEarly' /\ NobodyTwice'
  BY <1>1, <1>7 DEF RoomInv, EntryOnly, NobodyEarly, NobodyTwice
<1>. QED
  BY <1>8, <1>9, <1>10, <1>11

(* Announcing all of S, or a part: what it does to the picture and to the table.  *)
Announced(table, S, done, entered, begun) ==
  /\ done \subseteq entered /\ entered \subseteq begun
  /\ users' \in Table /\ view' \in Picture /\ lost' \in SUBSET Nat
  /\ wronged' = (wronged \ done) \cup (begun \ done)
  /\ skipped' = (skipped \cup (S \ view.known)) \ begun
  /\ view'.known = view.known \cup entered
  /\ view'.joined_twice = view.joined_twice \cup ((entered \cap view.known) \ wronged)
  /\ view.shown \subseteq view'.shown /\ view'.early = view.early /\ lost \subseteq lost'
  /\ \A u \in Users : users'[u] = IF u \in begun THEN [table[u] EXCEPT !.tree = {}]
                                                ELSE table[u]
  /\ \A u \in begun : table[u].tree \subseteq view'.shown \cup lost'
  /\ \A u \in Users \ entered : view'.app[u] = view.app[u]
  /\ \A u \in done : view'.app[u] = table[u].streams

LEMMA FiredEffect ==
  ASSUME Typed, NEW table \in Table, NEW S \in SUBSET Users, \A u \in S : table[u] # NoCell,
         NEW done \in SUBSET S, NEW entered \in SUBSET S, NEW begun \in SUBSET S,
         NEW added \in [Users -> SUBSET Stypes],
         Fired(table, S, done, entered, begun, added)
  PROVE  Announced(table, S, done, entered, begun)
<1>0. \A u \in S : table[u] \in Cell
  BY CellOrNot
<1>1. users' = Emptied(table, begun) /\ view' = Joined(table, entered, added)
      /\ done \subseteq entered /\ entered \subseteq begun
      /\ wronged' = (wronged \ done) \cup (begun \ done)
      /\ skipped' = (skipped \cup (S \ view.known)) \ begun
      /\ lost' = lost \cup UNION {table[u].tree : u \in begun \ entered}
      /\ \A u \in done : added[u] = Has(table[u])
  BY DEF Fired
<1>2. users' \in Table /\ view' \in Picture
  BY <1>0, <1>1, EmptiedType, JoinedType DEF Typed
<1>3. /\ view'.known = view.known \cup entered
      /\ view'.joined_twice = view.joined_twice \cup ((entered \cap view.known) \ wronged)
      /\ view'.shown = view.shown \cup UNION {table[u].tree : u \in entered}
      /\ view'.early = view.early
      /\ view'.app = [u \in Users |->
           IF u \notin entered THEN view.app[u]
           ELSE [s \in Stypes |-> IF s \in added[u] THEN table[u].streams[s] ELSE NoStream]]
  BY <1>1 DEF Joined, Typed, Picture
<1>4. lost' \in SUBSET Nat /\ lost \subseteq lost'
  <2>1. \A u \in begun \ entered : table[u].tree \in SUBSET Nat
    BY <1>0 DEF Cell
  <2>2. lost \in SUBSET Nat
    BY DEF Typed
  <2>. QED
    BY <1>1, <2>1, <2>2
<1>5. \A u \in Users : users'[u] = IF u \in begun THEN [table[u] EXCEPT !.tree = {}]
                                                 ELSE table[u]
  BY <1>1 DEF Emptied
<1>6. ASSUME NEW u \in begun
      PROVE  table[u].tree \subseteq view'.shown \cup lost'
  BY <1>1, <1>3
<1>7. \A u \in Users \ entered : view'.app[u] = view.app[u]
  BY <1>3
<1>8. ASSUME NEW u \in done
      PROVE  view'.app[u] = table[u].streams
  <2>1. table[u].streams \in Streams
    BY <1>0 DEF Cell
  <2>2. view'.app[u] = [s \in Stypes |-> IF s \in Has(table[u]) THEN table[u].streams[s]
                                                                ELSE NoStream]
    BY <1>1, <1>3
  <2>. QED
    BY <2>1, <2>2 DEF Has, Streams
<1>. QED
  BY <1>1, <1>2, <1>3, <1>4, <1>5, <1>6, <1>7, <1>8 DEF Announced

(* A user who gave up his tree to an announcement that began: announced, or wronged. *)
LEMMA BegunOK ==
  ASSUME Typed, NEW table \in Table, NEW S \in SUBSET Users,
         NEW done \in SUBSET S, NEW entered \in SUBSET S, NEW begun \in SUBSET S,
         Announced(table, S, done, entered, begun),
         NEW u \in begun, table[u] # NoCell, nodes' = nodes,
         nodes[u] \subseteq table[u].tree \cup view.shown \cup view.early \cup lost,
         orderly' => table[u].stage = "Ready"
  PROVE  UserOK(u)'
<1>1. table[u] \in Cell /\ u \in Users
  BY CellOrNot
<1>2. users'[u] = [table[u] EXCEPT !.tree = {}]
  BY <1>1 DEF Announced
<1>3. /\ users'[u] # NoCell /\ users'[u].stage = table[u].stage
      /\ users'[u].tree = {} /\ users'[u].streams = table[u].streams
  BY <1>1, <1>2 DEF Cell, NoCell
<1>4. /\ u \notin skipped'
      /\ u \in wronged' <=> u \notin done
      /\ u \in done => u \in view'.known /\ view'.app[u] = table[u].streams
      /\ nodes'[u] \subseteq view'.shown \cup view'.early \cup lost'
  BY DEF Announced
<1>5. PictureOK(u)'
  BY <1>3, <1>4 DEF PictureOK
<1>6. TreeOK(u)'
  BY <1>3, <1>4 DEF TreeOK
<1>. QED
  BY <1>5, <1>6 DEF UserOK

LEMMA UReadyStep ==
  ASSUME RoomInv, NEW u \in Users, UReady(u)
  PROVE  Typed' /\ OthersKept(u) /\ UserOK(u)' /\ NobodyEarly' /\ NobodyTwice'
<1> DEFINE cell == [users[u] EXCEPT !.stage = "Ready"]
<1>0. /\ Typed /\ UserOK(u)
      /\ users[u] # NoCell /\ users[u] \in Cell
      /\ orderly' = (orderly /\ users[u].stage = "Init")
      /\ UNCHANGED <<room_ready, nodes, last_node>>
  BY CellOrNot DEF RoomInv, Typed, UReady
<1>1. /\ cell \in Cell /\ cell # NoCell /\ cell.stage = "Ready"
      /\ cell.streams = users[u].streams /\ cell.tree = users[u].tree
  BY <1>0 DEF Cell, NoCell
<1>2. PICK ready \in Table : ready = With(u, cell)
  BY <1>0, <1>1, WithType DEF Typed
<1>3. ready[u] = cell /\ \A w \in Users \ {u} : ready[w] = users[w]
  BY <1>0, <1>2 DEF With, Typed, Table
<1>4. CASE ~room_ready
  <2>1. users' = ready /\ UNCHANGED <<view, wronged, skipped, lost>>
    BY <1>2, <1>4 DEF UReady, harm
  <2>. HIDE DEF cell
  <2>2. Typed'
    BY <1>0, <1>2, <2>1 DEF Typed
  <2>3. OthersKept(u)
    BY <1>0, <1>3, <2>1 DEF OthersKept
  <2>4. UserOK(u)'
    <3>1. view.known = {}
      BY <1>4 DEF RoomInv, NobodyEarly
    <3>. QED
      BY <1>0, <1>1, <1>3, <1>4, <2>1, <3>1 DEF UserOK, PictureOK, TreeOK
  <2>5. NobodyEarly' /\ NobodyTwice'
    BY <1>0, <2>1 DEF RoomInv, NobodyEarly, NobodyTwice
  <2>. QED
    BY <2>2, <2>3, <2>4, <2>5
<1>5. CASE room_ready
  <2>0. FireJoined(ready, {u})
    BY <1>2, <1>5 DEF UReady
  <2>. HIDE DEF cell
  <2>1. PICK S \in SUBSET Users : S = {u}
    OBVIOUS
  <2>2. PICK done \in SUBSET S, entered \in SUBSET S, begun \in SUBSET S,
             added \in [Users -> SUBSET Stypes] : Fired(ready, S, done, entered, begun, added)
    BY <1>1, <1>3, <2>0, <2>1, FireJoinedEnds
  <2>3. Announced(ready, S, done, entered, begun) /\ u \in begun
    <3>1. u \in begun
      BY <2>1, <2>2 DEF Fired
    <3>. QED
      BY <1>0, <1>1, <1>3, <2>1, <2>2, <3>1, FiredEffect
  <2>4. Typed'
    BY <1>0, <2>1, <2>3 DEF Typed, Announced
  <2>5. OthersKept(u)
    <3>1. ASSUME NEW w \in Users \ {u}
          PROVE  /\ users'[w] = users[w] /\ nodes'[w] = nodes[w]
                 /\ view'.app[w] = view.app[w]
                 /\ w \in view'.known <=> w \in view.known
                 /\ w \in wronged' <=> w \in wronged
                 /\ w \in skipped' <=> w \in skipped
      BY <1>0, <1>3, <2>1, <2>3 DEF Announced
    <3>2. /\ view.shown \subseteq view'.shown /\ view.early \subseteq view'.early
          /\ lost \subseteq lost' /\ room_ready' = room_ready /\ (orderly' => orderly)
      BY <1>0, <2>3 DEF Announced
    <3>. QED
      BY <3>1, <3>2 DEF OthersKept
  <2>6. UserOK(u)'
    <3>1. ready[u] # NoCell /\ nodes' = nodes /\ (orderly' => ready[u].stage = "Ready")
      BY <1>0, <1>1, <1>3
    <3>2. nodes[u] \subseteq ready[u].tree \cup view.shown \cup view.early \cup lost
      BY <1>0, <1>1, <1>3 DEF UserOK, TreeOK
    <3>. QED
      BY <1>0, <2>3, <3>1, <3>2, BegunOK
  <2>7. NobodyEarly'
    BY <1>0, <1>5 DEF NobodyEarly
  <2>8. NobodyTwice'
    <3>1. orderly' /\ u \in view.known => u \in wronged
      BY <1>0 DEF UserOK, PictureOK
    <3>2. view'.joined_twice = view.joined_twice \cup ((entered \cap view.known) \ wronged)
      BY <2>3 DEF Announced
    <3>3. entered \subseteq {u}
      BY <2>1
    <3>4. orderly' => (entered \cap view.known) \ wronged = {}
      BY <3>1, <3>3
    <3>5. orderly' => view.joined_twice = {}
      BY <1>0 DEF RoomInv, NobodyTwice
    <3>. QED
      BY <3>2, <3>4, <3>5 DEF NobodyTwice
  <2>. QED
    BY <2>4, <2>5, <2>6, <2>7, <2>8
<1>. QED
  BY <1>4, <1>5

LEMMA RReadyStep ==
  ASSUME RoomInv, RReady
  PROVE  RoomInv'
<1>0. /\ Typed
      /\ orderly' = (orderly /\ ~room_ready /\ \A u \in Users : users[u].stage # "Init")
      /\ room_ready' = TRUE
      /\ UNCHANGED <<nodes, last_node>>
  BY DEF RoomInv, RReady
<1>1. PICK S \in SUBSET Users : S = {u \in Users : users[u] # NoCell}
  OBVIOUS
<1>2. PICK table \in Table : table = users
  BY <1>0 DEF Typed
<1>3. PICK done \in SUBSET S, entered \in SUBSET S, begun \in SUBSET S,
           added \in [Users -> SUBSET Stypes] : Fired(table, S, done, entered, begun, added)
  BY <1>1, <1>2, FireJoinedEnds DEF RReady
<1>4. Announced(table, S, done, entered, begun)
  BY <1>0, <1>1, <1>2, <1>3, FiredEffect
<1>5. Typed'
  BY <1>0, <1>4 DEF Typed, Announced
<1>6. ASSUME NEW u \in Users
      PROVE  UserOK(u)'
  <2>0. PictureOK(u) /\ TreeOK(u)
    BY DEF RoomInv, UserOK
  <2>1. CASE u \in begun
    <3>1. users[u] \in Cell /\ users[u] # NoCell
      BY <1>0, <1>1, <2>1, CellOrNot DEF Typed
    <3>2. orderly' => users[u].stage = "Ready"
      BY <1>0, <3>1 DEF Cell
    <3>3. nodes[u] \subseteq users[u].tree \cup view.shown \cup view.early \cup lost
      BY <2>0, <3>1 DEF TreeOK
    <3>. QED
      BY <1>0, <1>2, <1>4, <2>1, <3>1, <3>2, <3>3, BegunOK
  <2>2. CASE u \notin begun
    <3>1. /\ users'[u] = users[u] /\ nodes'[u] = nodes[u]
          /\ view'.app[u] = view.app[u]
          /\ u \in view'.known <=> u \in view.known
          /\ u \in wronged' <=> u \in wronged
          /\ u \in skipped' <=> (u \in skipped \/ (u \in S /\ u \notin view.known))
          /\ view.shown \subseteq view'.shown /\ view'.early = view.early /\ lost \subseteq lost'
      BY <1>0, <1>2, <1>4, <2>2 DEF Announced
    <3>2. orderly' => orderly /\ view.known = {}
      BY <1>0 DEF RoomInv, NobodyEarly
    <3>3. /\ u \in view.known => room_ready
          /\ users[u].stage = "Ready" => u \in S
      BY <1>1 DEF RoomInv, NobodyEarly, NoCell
    <3>4. PictureOK(u)'
      BY <2>0, <3>1, <3>2, <3>3 DEF PictureOK
    <3>5. TreeOK(u)'
      BY <2>0, <3>1, <3>3 DEF TreeOK
    <3>. QED
      BY <3>4, <3>5 DEF UserOK
  <2>. QED
    BY <2>1, <2>2
<1>7. NobodyEarly'
  BY <1>0 DEF NobodyEarly
<1>8. NobodyTwice'
  BY <1>0, <1>4 DEF RoomInv, NobodyEarly, NobodyTwice, Announced
<1>. QED
  BY <1>5, <1>6, <1>7, <1>8 DEF RoomInv

LEMMA RoomInit == Init => RoomInv
<1> SUFFICES ASSUME Init PROVE RoomInv
  OBVIOUS
<1>1. NothingHeard \in Picture
  BY DEF NothingHeard, Picture, NoStreams, Streams
<1>2. Typed
  BY <1>1 DEF Init, Typed, Table
<1>. QED
  BY <1>2 DEF Init, RoomInv, UserOK, PictureOK, TreeOK, NobodyEarly, NobodyTwice, NothingHeard, NoCell

LEMMA RoomStep == RoomInv /\ [Next]_vars => RoomInv'
<1> SUFFICES ASSUME RoomInv, [Next]_vars PROVE RoomInv'
  OBVIOUS
<1>1. ASSUME NEW u \in Users,
             Typed' /\ OthersKept(u) /\ UserOK(u)' /\ NobodyEarly' /\ NobodyTwice'
      PROVE  RoomInv'
  <2>1. ASSUME NEW w \in Users
        PROVE  UserOK(w)'
    BY <1>1, OthersOK
  <2>. QED
    BY <1>1, <2>1 DEF RoomInv
<1>2. CASE RReady
  BY <1>2, RReadyStep
<1>3. ASSUME NEW u \in Users, UInit(u)
      PROVE  RoomInv'
  BY <1>1, <1>3, UInitStep
<1>4. ASSUME NEW u \in Users, UReady(u)
      PROVE  RoomInv'
  BY <1>1, <1>4, UReadyStep
<1>5. ASSUME NEW u \in Users, UOffline(u)
      PROVE  RoomInv'
  BY <1>1, <1>5, UOfflineStep
<1>6. ASSUME NEW u \in Users, UTree(u)
      PROVE  RoomInv'
  BY <1>1, <1>6, UTreeStep
<1>7. ASSUME NEW u \in Users, NEW inst \in Insts, NEW streams \in Streams, UNew(u, inst, streams)
      PROVE  RoomInv'
  BY <1>1, <1>7, UNewStep
<1>8. ASSUME NEW u \in Users, NEW inst \in Insts, NEW streams \in Streams, UFull(u, inst, streams)
      PROVE  RoomInv'
  BY <1>1, <1>8, UFullStep
<1>9. CASE UNCHANGED vars
  BY <1>9 DEF vars, harm, RoomInv, Typed, UserOK, PictureOK, TreeOK, NobodyEarly, NobodyTwice
<1>. QED
  BY <1>2, <1>3, <1>4, <1>5, <1>6, <1>7, <1>8, <1>9 DEF Next

(* The invariant holds of the room for any users, types of streams, producers and *)
(* instances, whatever the server pushes and whichever listener calls fail.       *)
THEOREM RoomHolds == Spec => []RoomInv
BY RoomInit, RoomStep, PTL DEF Spec

(* In a ready room every ready user is with the application, with the streams of  *)
(* his last UFull (delta and fire_user_joined, on any hash map order), but for two *)
(* kinds: one about whom a call failed, until he is announced again or leaves; and *)
(* one an RReady that failed did not come to, of whom the application knows        *)
(* nothing until he is announced.                                                  *)
THEOREM ShownAsKept == Spec => []ReadyUsersShown
<1>1. RoomInv => ReadyUsersShown
  BY DEF RoomInv, UserOK, PictureOK, ReadyUsersShown
<1>. QED
  BY <1>1, RoomHolds, PTL

(* No tree node the server pushed of a user in the table is lost, but those a     *)
(* listener call that failed was given: UTree keeps it, fire_user_joined or UTree *)
(* itself hands it over.                                                          *)
THEOREM TreesHandedOver == Spec => []TreeNodesHandedOver
<1>1. RoomInv => TreeNodesHandedOver
  BY DEF RoomInv, UserOK, TreeOK, TreeNodesHandedOver
<1>. QED
  BY <1>1, RoomHolds, PTL

(* With a server that completes snapshots before the room, once, the application  *)
(* keeps nobody the delegate has dropped (UInit, UFull) and hears of nobody twice *)
(* (UReady, RReady), but for one about whom a call failed, until he is announced  *)
(* again or leaves.                                                               *)
THEOREM NobodyLeftBehind == Spec => []NoGhosts
<1>1. RoomInv => NoGhosts
  BY DEF RoomInv, UserOK, PictureOK, NobodyTwice, NoGhosts
<1>. QED
  BY <1>1, RoomHolds, PTL
================================================================================
