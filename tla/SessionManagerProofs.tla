------------------------ MODULE SessionManagerProofs ------------------------
(***************************************************************************)
(* The session manager, for any number of sessions and any _max_fd: a      *)
(* program that keeps to MayDeleteDirect never has a deleted session used, *)
(* each session hears its callbacks in order, none leaks, the two maps     *)
(* stay within _max_fd, and Shutdown ends every session it found.          *)
(***************************************************************************)
EXTENDS SessionManager, FiniteSetTheorems, WellFoundedInduction, TLAPS

\* The first element of a set of sessions is in it, and before the others.
LEMMA FirstIn ==
  ASSUME NEW S \in SUBSET Ids, S # {}
  PROVE  First(S) \in S /\ \A r \in S : First(S) <= r
<1>1. Ids \subseteq Nat
  BY IdAssumption DEF Ids
<1>2. \E s \in S : \A r \in S : ~ (<<r, s>> \in OpToRel(<, Nat))
  <2>1. S \subseteq Nat
    BY <1>1
  <2> HIDE DEF Ids
  <2> QED
    BY <2>1, NatLessThanWellFounded, WFMin
<1>3. PICK s \in S : \A r \in S : ~ (<<r, s>> \in OpToRel(<, Nat))
  BY <1>2
<1>4. \A r \in S : s <= r
  <2> TAKE r \in S
  <2>1. r \in Nat /\ s \in Nat
    BY <1>1
  <2>2. ~ (r < s)
    BY <1>3, <2>1 DEF OpToRel
  <2> QED
    BY <2>1, <2>2
<1> QED
  BY <1>4 DEF First
-----------------------------------------------------------------------------
(***************************************************************************)
(* The inductive invariant.                                                *)
(***************************************************************************)
Known == sessions \cup nbconnect \cup freed \cup ({kill} \ {None})

\* A session is in one place: a map, deleted, or waiting for its last callback
\* to return; the places hold numbers that have been given out, and all of them.
Places ==
  /\ sessions \cap nbconnect = {}
  /\ (sessions \cup nbconnect) \cap freed = {}
  /\ kill \notin sessions \cup nbconnect \cup freed
  /\ Known = 1 .. next - 1

\* What a session has been told goes with its place.
ToldPlace ==
  \A s \in Ids :
    /\ s \in sessions => told[s] = "connect"
    /\ s \in nbconnect => told[s] = "nothing"
    /\ s >= next => told[s] = "nothing"
    /\ s \in freed \cup {kill} => told[s] \in {"nothing", "disconnect"}

\* The copy a loop walks through never outgrows the map it was made of; in
\* OnError of do_recv it still holds the session whose turn it is; and that of
\* Shutdown holds all but the sessions connected since.
Lists ==
  /\ phase \in {"read", "error", "shut"} => list \subseteq sessions
  /\ phase = "error" => list # {}
  /\ phase = "write" => list \subseteq nbconnect
  /\ phase \notin {"read", "error", "write", "shut"} => list = {}
  /\ phase = "shut" => sessions \cap 1 .. since - 1 \subseteq list /\ since <= next

Callback == cb = None => kill = None

SessionInv == TypeOK /\ Places /\ ToldPlace /\ Lists /\ Callback /\ NoUseAfterDelete

LEMMA InitSession == Init => SessionInv
<1> SUFFICES ASSUME Init PROVE SessionInv
  OBVIOUS
<1>1. TypeOK
  <2>1. next \in 1 .. MaxId + 1
    BY IdAssumption DEF Init
  <2>2. told \in [Ids -> {"nothing", "connect", "disconnect", "wrong"}]
    BY DEF Init
  <2>3. listening \in BOOLEAN /\ abused \in BOOLEAN
    BY Zenon DEF Init
  <2>5. since \in 1 .. MaxId + 1
    BY IdAssumption DEF Init
  <2>4. /\ sessions = {} /\ nbconnect = {} /\ doomed = {} /\ freed = {} /\ list = {}
        /\ phase = "out" /\ at = 0 /\ readable = {} /\ writable = {} /\ cb = None /\ kill = None
    BY DEF Init
  <2> QED
    BY <2>1, <2>2, <2>3, <2>4, <2>5 DEF TypeOK, None
<1>2. Places
  BY DEF Init, Places, Known, None
<1>3. ToldPlace
  BY DEF Init, ToldPlace, Ids, None
<1> QED
  BY <1>1, <1>2, <1>3 DEF Init, SessionInv, Lists, Callback, NoUseAfterDelete

-----------------------------------------------------------------------------
(***************************************************************************)
(* One lemma per action.                                                   *)
(***************************************************************************)
USE DEF None, Ids

LEMMA ConnectSession ==
  ASSUME SessionInv, Connect
  PROVE  SessionInv'
<1> USE IdAssumption DEF SessionInv, Connect, Create, server, callback
<1>1. next \in Ids /\ next' = next + 1 /\ next \notin Known
  BY DEF TypeOK, Places
<1>2. readable' \subseteq Ids
  BY <1>1 DEF TypeOK, NewSocket
<1>3. CASE sessions' = sessions \cup {next} /\ OnConnect(next) /\ UNCHANGED <<nbconnect, freed>>
  <2>1. TypeOK'
    BY <1>1, <1>2, <1>3 DEF TypeOK, OnConnect
  <2>2. Places'
    BY <1>1, <1>3, <2>1 DEF TypeOK, Places, Known
  <2>3. ToldPlace'
    BY <1>1, <1>3 DEF TypeOK, ToldPlace, Places, Known, OnConnect
  <2>4. Lists'
    BY <1>1, <1>3 DEF TypeOK, Lists
  <2> QED
    BY <2>1, <2>2, <2>3, <2>4 DEF Callback, NoUseAfterDelete
<1>4. CASE nbconnect' = nbconnect \cup {next} /\ UNCHANGED <<sessions, freed, told>>
  <2>1. TypeOK'
    BY <1>1, <1>2, <1>4 DEF TypeOK
  <2>2. Places'
    BY <1>1, <1>4, <2>1 DEF TypeOK, Places, Known
  <2>3. ToldPlace'
    BY <1>1, <1>4 DEF TypeOK, ToldPlace, Places, Known
  <2>4. Lists'
    BY <1>1, <1>4 DEF TypeOK, Lists
  <2> QED
    BY <2>1, <2>2, <2>3, <2>4 DEF Callback, NoUseAfterDelete
<1>5. CASE Rejected
  <2> USE <1>5 DEF Rejected
  <2>1. TypeOK'
    BY <1>1, <1>2 DEF TypeOK
  <2>2. Places'
    BY <1>1, <2>1 DEF TypeOK, Places, Known
  <2>3. ToldPlace'
    BY <1>1 DEF TypeOK, ToldPlace, Places, Known
  <2>4. Lists'
    BY <1>1 DEF TypeOK, Lists
  <2> QED
    BY <2>1, <2>2, <2>3, <2>4 DEF Callback, NoUseAfterDelete
<1> QED
  BY <1>3, <1>4, <1>5

LEMMA DeleteSession ==
  ASSUME SessionInv, NEW s \in Ids, Delete(s)
  PROVE  SessionInv'
<1> USE DEF SessionInv, Delete, polling, callback, server
<1>1. TypeOK'
  BY DEF TypeOK
<1> QED
  BY <1>1 DEF Places, Known, ToldPlace, Lists, Callback, NoUseAfterDelete

LEMMA DeleteDirectSession ==
  ASSUME SessionInv, NEW s \in Ids, DeleteDirect(s)
  PROVE  SessionInv'
<1> USE DEF SessionInv, DeleteDirect, polling, callback, server
<1>1. TypeOK'
  BY DEF TypeOK, OnDisconnect
<1>2. Places'
  BY DEF Places, Known
<1>3. ToldPlace'
  BY DEF TypeOK, ToldPlace, Places, OnDisconnect
<1>4. Lists'
  BY DEF Lists, MayDeleteDirect, Places, TypeOK
<1> QED
  BY <1>1, <1>2, <1>3, <1>4 DEF Callback, NoUseAfterDelete

LEMMA ReturnSession ==
  ASSUME SessionInv, Return
  PROVE  SessionInv'
<1> USE DEF SessionInv, Return, Call, maps, polling, server
<1>1. TypeOK'
  BY DEF TypeOK
<1>2. Places'
  BY DEF Places, Known, TypeOK
<1>3. ToldPlace'
  BY DEF ToldPlace
<1> QED
  BY <1>1, <1>2, <1>3 DEF Lists, Callback, NoUseAfterDelete

LEMMA SelectSession ==
  ASSUME SessionInv, Select
  PROVE  SessionInv'
<1> USE IdAssumption DEF SessionInv, Select, server
<1>0. /\ phase = "out" /\ cb = None /\ phase' = "accepted" /\ list' = list
      /\ readable' \in SUBSET sessions /\ writable' \in SUBSET nbconnect
      /\ doomed' = doomed /\ at' = at /\ abused' = abused /\ listening' = listening
      /\ since' = since
  OBVIOUS
<1>1. CASE UNCHANGED <<sessions, nbconnect, freed, next, told, callback>>
  <2>1. TypeOK'
    BY <1>0, <1>1 DEF TypeOK, callback
  <2> QED
    BY <1>0, <1>1, <2>1
    DEF Places, Known, ToldPlace, Lists, Callback, NoUseAfterDelete, callback
<1>2. CASE Create /\ sessions' = sessions \cup {next} /\ OnConnect(next)
           /\ Call(next, None) /\ UNCHANGED <<nbconnect, freed>>
  <2> USE <1>0, <1>2 DEF Create, Call
  <2>0. next \in Ids /\ next' = next + 1 /\ next \notin Known
    BY DEF TypeOK, Places
  <2>1. TypeOK'
    BY <2>0 DEF TypeOK, OnConnect
  <2>2. Places'
    BY <2>0, <2>1 DEF TypeOK, Places, Known, Callback
  <2>3. ToldPlace'
    BY <2>0 DEF TypeOK, ToldPlace, Places, Known, OnConnect, Callback
  <2> QED
    BY <2>1, <2>2, <2>3 DEF Lists, Callback, NoUseAfterDelete
<1>3. CASE Create /\ Rejected /\ UNCHANGED callback
  <2> USE <1>0, <1>3 DEF Create, Rejected, callback
  <2>0. next \in Ids /\ next' = next + 1 /\ next \notin Known
    BY DEF TypeOK, Places
  <2>1. TypeOK'
    BY <2>0 DEF TypeOK
  <2>2. Places'
    BY <2>0, <2>1 DEF TypeOK, Places, Known
  <2>3. ToldPlace'
    BY <2>0 DEF TypeOK, ToldPlace, Places, Known
  <2> QED
    BY <2>1, <2>2, <2>3 DEF Lists, Callback, NoUseAfterDelete
<1>4. CASE Create /\ Call(next, next) /\ UNCHANGED <<sessions, nbconnect, freed, told>>
  <2> USE <1>0, <1>4 DEF Create, Call
  <2>0. next \in Ids /\ next' = next + 1 /\ next \notin Known
    BY DEF TypeOK, Places
  <2>1. TypeOK'
    BY <2>0 DEF TypeOK
  <2>2. Places'
    BY <2>0, <2>1 DEF TypeOK, Places, Known, Callback
  <2>3. ToldPlace'
    BY <2>0 DEF TypeOK, ToldPlace, Places, Known, Callback
  <2> QED
    BY <2>1, <2>2, <2>3 DEF Lists, Callback, NoUseAfterDelete
<1> QED
  BY <1>1, <1>2, <1>3, <1>4

LEMMA NextLoopSession ==
  ASSUME SessionInv, NextLoop
  PROVE  SessionInv'
<1> USE DEF SessionInv, NextLoop, maps, callback, server
<1>1. TypeOK'
  BY IdAssumption DEF TypeOK
<1>2. Lists'
  BY DEF Lists
<1> QED
  BY <1>1, <1>2 DEF Places, Known, ToldPlace, Callback, NoUseAfterDelete

\* Whose turn it is in a loop, and what taking it out of the copy leaves.
LEMMA WalkOn ==
  ASSUME SessionInv, NEW p \in {"read", "error", "write", "shut"}, Walk(p)
  PROVE  /\ First(list) \in list
         /\ First(list) \in Ids \ freed
         /\ IF p = "write" THEN First(list) \in nbconnect ELSE First(list) \in sessions
         /\ list' = list \ {First(list)}
         /\ kill = None
         /\ abused' = FALSE
<1> USE DEF SessionInv, Walk, server
<1>1. First(list) \in list
  BY FirstIn DEF TypeOK
<1> QED
  BY <1>1 DEF TypeOK, Lists, Places, Callback, NoUseAfterDelete

LEMMA SkipSession ==
  ASSUME SessionInv, NEW p \in {"read", "write"}, NEW ready, Skip(p, ready)
  PROVE  SessionInv'
<1> USE DEF SessionInv, Skip
<1>1. Walk(p) /\ list' \subseteq list /\ abused' = FALSE
  BY WalkOn
<1>2. TypeOK'
  BY <1>1 DEF TypeOK, Walk, server, callback
<1> QED
  BY <1>1, <1>2 DEF Walk, server, Places, Known, ToldPlace, Lists, Callback, NoUseAfterDelete, callback

LEMMA ReadDataSession ==
  ASSUME SessionInv, ReadData
  PROVE  SessionInv'
<1> DEFINE s == First(list)
<1> USE DEF SessionInv, ReadData, Call
<1>1. /\ Walk("read") /\ s \in sessions /\ list' \subseteq list /\ abused' = FALSE
      /\ kill = None
  BY WalkOn
<1> HIDE DEF s
<1>2. TypeOK'
  BY <1>1 DEF TypeOK, Walk, server, OnRead, s
<1>3. ToldPlace'
  BY <1>1 DEF TypeOK, Walk, server, ToldPlace, OnRead, s
<1> QED
  BY <1>1, <1>2, <1>3 DEF Walk, server, Places, Known, Lists, Callback, NoUseAfterDelete

\* A session of the map of connected ones is taken out of it, told OnDisconnect
\* and deleted when that returns: ReadEnd, DropNext and ShutNext.
LEMMA GoodBye ==
  ASSUME SessionInv, NEW s \in sessions, cb = None,
         sessions' = sessions \ {s}, OnDisconnect(s), Call(s, s),
         UNCHANGED <<nbconnect, freed, next>>
  PROVE  Places' /\ ToldPlace' /\ Callback'
<1> USE DEF SessionInv, Call, TypeOK
<1>1. s \in 1 .. next - 1 /\ s \in Ids /\ kill = None
  BY DEF Places, Known, Callback
<1>2. Places'
  BY <1>1 DEF Places, Known
<1>3. ToldPlace'
  BY <1>1 DEF ToldPlace, OnDisconnect, Places
<1> QED
  BY <1>1, <1>2, <1>3 DEF Callback

LEMMA ReadErrorSession ==
  ASSUME SessionInv, ReadError
  PROVE  SessionInv'
<1> USE DEF SessionInv, ReadError, Call, maps, server
<1>1. First(list) \in Ids /\ kill = None
  BY FirstIn DEF TypeOK, Callback
<1>2. TypeOK'
  BY <1>1 DEF TypeOK
<1>3. Lists'
  BY DEF Lists
<1> QED
  BY <1>1, <1>2, <1>3 DEF Places, Known, ToldPlace, Callback, NoUseAfterDelete

LEMMA ReadEndSession ==
  ASSUME SessionInv, ReadEnd
  PROVE  SessionInv'
<1> DEFINE s == First(list)
<1> USE DEF SessionInv, ReadEnd
<1>0. PICK p \in {"read", "error"} : Walk(p)
  BY DEF Ended
<1>1. s \in sessions /\ list' = list \ {s} /\ abused' = FALSE
  BY <1>0, WalkOn
<1>2. s \in Ids /\ cb = None /\ next' = next
  BY <1>0, <1>1 DEF TypeOK, Walk, server
<1>3. TypeOK'
  BY <1>0, <1>1, <1>2 DEF TypeOK, Walk, OnDisconnect, Call, server
<1>4. Places' /\ ToldPlace' /\ Callback'
  BY <1>1, <1>2, GoodBye
<1>5. Lists'
  BY <1>0, <1>1 DEF Walk, server, Lists
<1> QED
  BY <1>1, <1>3, <1>4, <1>5 DEF NoUseAfterDelete

LEMMA ConnectedSession ==
  ASSUME SessionInv, Connected
  PROVE  SessionInv'
<1> DEFINE s == First(list)
<1> USE DEF SessionInv, Connected, Call
<1>1. /\ Walk("write") /\ s \in nbconnect /\ list' = list \ {s} /\ abused' = FALSE
      /\ kill = None
  BY WalkOn
<1>2. s \in Ids /\ next' = next
  BY <1>1 DEF TypeOK, Walk, server
<1>3. TypeOK'
  BY <1>1, <1>2 DEF TypeOK, Walk, server, OnConnect
<1>4. Places'
  BY <1>1, <1>2 DEF Places, Known
<1>5. ToldPlace'
  BY <1>1, <1>2, <1>4 DEF TypeOK, ToldPlace, OnConnect, Places, Known
<1>6. Lists'
  BY <1>1 DEF Walk, server, Lists
<1> QED
  BY <1>1, <1>3, <1>4, <1>5, <1>6 DEF NoUseAfterDelete, Callback

LEMMA ConnectErrorSession ==
  ASSUME SessionInv, ConnectError
  PROVE  SessionInv'
<1> DEFINE s == First(list)
<1> USE DEF SessionInv, ConnectError, Call
<1>1. /\ Walk("write") /\ s \in nbconnect /\ list' = list \ {s} /\ abused' = FALSE
      /\ kill = None
  BY WalkOn
<1>2. s \in Ids /\ next' = next
  BY <1>1 DEF TypeOK, Walk, server
<1>3. TypeOK'
  BY <1>1, <1>2 DEF TypeOK, Walk, server
<1>4. Places'
  BY <1>1, <1>2 DEF Places, Known
<1>5. ToldPlace'
  BY <1>1, <1>2 DEF TypeOK, ToldPlace, Places, Known
<1>6. Lists'
  BY <1>1 DEF Walk, server, Lists
<1> QED
  BY <1>1, <1>2, <1>3, <1>4, <1>5, <1>6 DEF NoUseAfterDelete, Callback

LEMMA DropNextSession ==
  ASSUME SessionInv, DropNext
  PROVE  SessionInv'
<1> DEFINE s == First(Later)
<1> USE DEF SessionInv, DropNext, server
<1>1. Later \subseteq Ids /\ Later # {}
  BY DEF Later, TypeOK
<1>2. s \in Ids
  BY <1>1, FirstIn
<1>3. phase' = phase /\ list' = list /\ phase = "drop" /\ next' = next /\ cb = None
  OBVIOUS
<1> HIDE DEF s
<1>4. Lists' /\ NoUseAfterDelete'
  BY <1>3 DEF Lists, NoUseAfterDelete
<1>5. CASE s \in sessions /\ sessions' = sessions \ {s} /\ OnDisconnect(s) /\ Call(s, s)
           /\ UNCHANGED <<nbconnect, freed>>
  <2>1. TypeOK'
    BY <1>2, <1>5 DEF TypeOK, OnDisconnect, Call, s
  <2>2. Places' /\ ToldPlace' /\ Callback'
    BY <1>3, <1>5, GoodBye
  <2> QED
    BY <1>4, <2>1, <2>2
<1>6. CASE s \in nbconnect /\ nbconnect' = nbconnect \ {s} /\ freed' = freed \cup {s}
           /\ UNCHANGED <<sessions, told, callback>>
  <2>1. TypeOK'
    BY <1>2, <1>6 DEF TypeOK, callback, s
  <2>2. Places'
    BY <1>3, <1>6 DEF Places, Known, callback
  <2>3. ToldPlace'
    BY <1>2, <1>3, <1>6 DEF ToldPlace, Places, callback
  <2> QED
    BY <1>4, <1>6, <2>1, <2>2, <2>3 DEF Callback, callback
<1>7. CASE UNCHANGED <<sessions, nbconnect, freed, told, callback>>
  <2>1. TypeOK'
    BY <1>2, <1>7 DEF TypeOK, callback, s
  <2> QED
    BY <1>3, <1>4, <1>7, <2>1 DEF Places, Known, ToldPlace, Callback, callback
<1> QED
  BY <1>5, <1>6, <1>7 DEF s

LEMMA DropDoneSession ==
  ASSUME SessionInv, DropDone
  PROVE  SessionInv'
<1> USE DEF SessionInv, DropDone, callback, server
<1>1. TypeOK'
  BY DEF TypeOK
<1> QED
  BY <1>1 DEF Places, Known, ToldPlace, Lists, Callback, NoUseAfterDelete

LEMMA ShutdownSession ==
  ASSUME SessionInv, Shutdown
  PROVE  SessionInv'
<1> USE DEF SessionInv, Shutdown, callback, maps
<1>1. TypeOK'
  BY DEF TypeOK
<1>2. Lists'
  BY DEF TypeOK, Lists
<1> QED
  BY <1>1, <1>2 DEF Places, Known, ToldPlace, Callback, NoUseAfterDelete

LEMMA ShutNextSession ==
  ASSUME SessionInv, ShutNext
  PROVE  SessionInv'
<1> DEFINE s == First(list)
<1> USE DEF SessionInv, ShutNext
<1>1. Walk("shut") /\ s \in sessions /\ list' = list \ {s} /\ abused' = FALSE
  BY WalkOn
<1>2. s \in Ids /\ cb = None /\ next' = next
  BY <1>1 DEF TypeOK, Walk, server
<1>3. TypeOK'
  BY <1>1, <1>2 DEF TypeOK, Walk, server, OnDisconnect, Call
<1>4. Places' /\ ToldPlace' /\ Callback'
  BY <1>1, <1>2, GoodBye
<1>5. Lists'
  BY <1>1 DEF Walk, server, Lists
<1> QED
  BY <1>1, <1>3, <1>4, <1>5 DEF NoUseAfterDelete

LEMMA ShutDoneSession ==
  ASSUME SessionInv, ShutDone
  PROVE  SessionInv'
<1> USE DEF SessionInv, ShutDone, callback
<1>1. TypeOK'
  BY IdAssumption DEF TypeOK
<1>2. Places'
  BY DEF Places, Known
<1>3. ToldPlace'
  BY DEF ToldPlace, Places
<1> QED
  BY <1>1, <1>2, <1>3 DEF Lists, Callback, NoUseAfterDelete

LEMMA SessionStep == SessionInv /\ [Next]_vars => SessionInv'
<1> SUFFICES ASSUME SessionInv, [Next]_vars PROVE SessionInv'
  OBVIOUS
<1>1. CASE UNCHANGED vars
  <2>1. TypeOK'
    BY <1>1 DEF SessionInv, TypeOK, vars, maps, polling, callback, server
  <2> QED
    BY <1>1, <2>1 DEF SessionInv, Places, Known, ToldPlace, Lists, Callback,
       NoUseAfterDelete, vars, maps, polling, callback, server
<1>2. CASE \E s \in Ids : Delete(s) \/ DeleteDirect(s)
  BY <1>2, DeleteSession, DeleteDirectSession
<1>3. CASE Poll
  BY <1>3, NextLoopSession, SkipSession, ReadDataSession, ReadErrorSession, ReadEndSession,
     ConnectedSession, ConnectErrorSession, DropNextSession, DropDoneSession DEF Poll
<1> QED
  BY <1>1, <1>2, <1>3, ConnectSession, ReturnSession, SelectSession, ShutdownSession,
     ShutNextSession, ShutDoneSession DEF Next

THEOREM SessionInvariant == Spec => []SessionInv
<1> QED
  BY InitSession, SessionStep, PTL DEF Spec

-----------------------------------------------------------------------------
\* The types of the session manager's state hold throughout.
THEOREM SessionTypes == Spec => []TypeOK
<1>1. SessionInv => TypeOK
  BY DEF SessionInv
<1> QED
  BY <1>1, SessionInvariant, PTL

\* No loop of Poll or Shutdown uses a session after its deletion, whatever the
\* callbacks do within MayDeleteDirect.
THEOREM NeverUsedAfterDelete == Spec => []NoUseAfterDelete
<1>1. SessionInv => NoUseAfterDelete
  BY DEF SessionInv
<1> QED
  BY <1>1, SessionInvariant, PTL

\* Every session hears OnConnect, OnRead and OnDisconnect in order.
THEOREM CallbacksAlwaysInOrder == Spec => []CallbacksInOrder
<1>1. SessionInv => CallbacksInOrder
  <2> SUFFICES ASSUME SessionInv, NEW s \in Ids PROVE told[s] # "wrong"
    BY DEF CallbacksInOrder
  <2>1. s >= next \/ s \in Known
    BY DEF SessionInv, Places, TypeOK
  <2> QED
    BY <2>1 DEF SessionInv, ToldPlace, Known
<1> QED
  BY <1>1, SessionInvariant, PTL

\* Every session is in a map, deleted or about to be, and no session in a map
\* is deleted; one that was told OnConnect is told OnDisconnect before.
THEOREM NeverLeaks == Spec => []NoLeak
<1>1. SessionInv => NoLeak
  <2> SUFFICES ASSUME SessionInv, NEW s \in 1 .. next - 1
               PROVE  /\ s \in sessions \cup nbconnect \cup freed \cup {kill}
                      /\ s \in freed => s \notin sessions \cup nbconnect /\ told[s] # "connect"
    BY DEF NoLeak
  <2>1. s \in Ids
    BY IdAssumption DEF SessionInv, TypeOK
  <2> QED
    BY <2>1 DEF SessionInv, Places, Known, ToldPlace
<1> QED
  BY <1>1, SessionInvariant, PTL

-----------------------------------------------------------------------------
(***************************************************************************)
(* The two maps together: what an action does to them is one of three      *)
(* things, and each keeps the bound.                                       *)
(***************************************************************************)
LEMMA FiniteMaps ==
  ASSUME TypeOK
  PROVE  /\ IsFiniteSet(sessions) /\ IsFiniteSet(nbconnect)
         /\ Cardinality(sessions) \in Nat /\ Cardinality(nbconnect) \in Nat
<1>1. IsFiniteSet(1 .. MaxId)
  BY IdAssumption, FS_Interval
<1>2. IsFiniteSet(sessions) /\ IsFiniteSet(nbconnect)
  BY <1>1, FS_Subset DEF TypeOK
<1> QED
  BY <1>2, FS_CardinalityType

LEMMA MapsShrink ==
  ASSUME TypeOK, TypeOK', WithinMax, sessions' \subseteq sessions, nbconnect' \subseteq nbconnect
  PROVE  WithinMax'
<1>1. Cardinality(sessions') <= Cardinality(sessions)
  BY FiniteMaps, FS_Subset
<1>2. Cardinality(nbconnect') <= Cardinality(nbconnect)
  BY FiniteMaps, FS_Subset
<1>3. Cardinality(sessions') \in Nat /\ Cardinality(nbconnect') \in Nat
  <2>1. IsFiniteSet(sessions') /\ IsFiniteSet(nbconnect')
    BY FiniteMaps, FS_Subset
  <2> QED
    BY <2>1, FS_CardinalityType
<1> QED
  BY <1>1, <1>2, <1>3, FiniteMaps, FdAssumption DEF WithinMax

LEMMA MapsGrow ==
  ASSUME TypeOK, Room, NEW s,
         \/ sessions' = sessions \cup {s} /\ nbconnect' = nbconnect
         \/ nbconnect' = nbconnect \cup {s} /\ sessions' = sessions
  PROVE  WithinMax'
<1>1. /\ Cardinality(sessions \cup {s}) \in {Cardinality(sessions), Cardinality(sessions) + 1}
      /\ Cardinality(nbconnect \cup {s}) \in {Cardinality(nbconnect), Cardinality(nbconnect) + 1}
  BY FiniteMaps, FS_AddElement
<1> QED
  BY <1>1, FiniteMaps, FdAssumption DEF WithinMax, Room

LEMMA MapsMove ==
  ASSUME TypeOK, WithinMax, NEW s \in nbconnect,
         nbconnect' = nbconnect \ {s}, sessions' = sessions \cup {s}
  PROVE  WithinMax'
<1>1. Cardinality(nbconnect') = Cardinality(nbconnect) - 1
  BY FiniteMaps, FS_RemoveElement
<1>2. Cardinality(sessions') \in {Cardinality(sessions), Cardinality(sessions) + 1}
  BY FiniteMaps, FS_AddElement
<1> QED
  BY <1>1, <1>2, FiniteMaps, FdAssumption DEF WithinMax

LEMMA WithinStep ==
  ASSUME SessionInv, SessionInv', WithinMax, [Next]_vars
  PROVE  WithinMax'
<1> USE DEF SessionInv
<1>1. CASE sessions' \subseteq sessions /\ nbconnect' \subseteq nbconnect
  BY <1>1, MapsShrink
<1>2. CASE UNCHANGED vars
  BY <1>1, <1>2 DEF vars, maps
<1>3. CASE Connect
  <2>1. CASE Rejected
    BY <1>1, <2>1 DEF Rejected
  <2> QED
    BY <1>3, <2>1, MapsGrow DEF Connect
<1>4. CASE \E s \in Ids : Delete(s) \/ DeleteDirect(s)
  BY <1>1, <1>4 DEF Delete, DeleteDirect
<1>5. CASE Return \/ Shutdown \/ ShutNext \/ ShutDone
  BY <1>1, <1>5 DEF Return, Shutdown, ShutNext, ShutDone, maps
<1>6. CASE Select
  <2>1. CASE Rejected
    BY <1>1, <2>1 DEF Rejected
  <2>2. CASE UNCHANGED <<sessions, nbconnect>>
    BY <1>1, <2>2
  <2> QED
    BY <1>6, <2>1, <2>2, MapsGrow DEF Select
<1>7. CASE Connected
  BY <1>7, MapsMove, WalkOn DEF Connected
<1>8. CASE Poll /\ ~Connected
  BY <1>1, <1>8 DEF Poll, NextLoop, Skip, ReadData, ReadError, ReadEnd, ConnectError, DropNext,
     DropDone, maps
<1> QED
  BY <1>2, <1>3, <1>4, <1>5, <1>6, <1>7, <1>8 DEF Next

\* The sessions of both maps never exceed _max_fd, wherever they come from.
THEOREM AlwaysWithinMax == Spec => []WithinMax
<1>1. Init => WithinMax
  BY FS_EmptySet, FdAssumption DEF Init, WithinMax
<1>2. SessionInv /\ SessionInv' /\ WithinMax /\ [Next]_vars => WithinMax'
  BY WithinStep
<1> QED
  BY <1>1, <1>2, SessionInvariant, PTL DEF Spec

\* Every session that was connected or connecting when Shutdown began is gone
\* when it ends, whatever its callbacks connect, mark or delete.
THEOREM ShutdownAlwaysEnds == Spec => ShutdownLeavesNoneBefore
<1>1. SessionInv /\ [Next]_vars
        => [ShutDone => /\ nbconnect' \cup doomed' = {}
                        /\ sessions' \cap 1 .. since - 1 = {}]_vars
  <2> SUFFICES ASSUME SessionInv, ShutDone
               PROVE  nbconnect' \cup doomed' = {} /\ sessions' \cap 1 .. since - 1 = {}
    OBVIOUS
  <2>1. sessions \cap 1 .. since - 1 = {}
    BY DEF SessionInv, Lists, ShutDone
  <2> QED
    BY <2>1 DEF ShutDone
<1> QED
  BY <1>1, SessionInvariant, PTL DEF Spec, ShutdownLeavesNoneBefore
=============================================================================
