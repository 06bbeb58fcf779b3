--------------------------- MODULE SessionManager ---------------------------
(***************************************************************************)
(* lib_linux::SessionManager (src/lib-linux/src/SimpleNet): the maps of    *)
(* connected and of connecting sessions, the select loop Poll, and the     *)
(* callbacks from which the program calls the manager again.  A session is *)
(* its number; std::map keeps sessions in that order.                      *)
(*                                                                         *)
(* Nothing in the code stops a callback from deleting a session that the   *)
(* manager is about to use, or one that the manager then forgets:          *)
(* MayDelete and MayDeleteDirect are what a program has to keep to.        *)
(***************************************************************************)
EXTENDS Integers, FiniteSets

CONSTANTS MaxId,      (* bound: sessions created *)
          MaxFd       (* _max_fd *)

ASSUME IdAssumption == MaxId \in Nat
ASSUME FdAssumption == MaxFd \in Nat \ {0}

Ids  == 1 .. MaxId
None == 0

VARIABLES
  sessions,   \* _sessions
  nbconnect,  \* _nbconnect_sessions
  doomed,     \* _delete_sessions
  freed,      \* sessions that have been deleted
  next,       \* ISession::_start_id
  listening,  \* _listen is valid
  phase,      \* outside Poll, or which of its loops runs; Shutdown's loop
  list,       \* what is left of the copy that loop walks through
  at,         \* the position in _delete_sessions
  readable, writable,  \* what select reported
  cb,         \* the session whose callback runs
  kill,       \* the session deleted when that callback returns
  told,       \* history: what a session has been told
  abused,     \* history: a deleted session has been used
  since       \* history: the first session that Shutdown has not seen

maps     == <<sessions, nbconnect, doomed>>
polling  == <<phase, list, at, readable, writable>>
callback == <<cb, kill>>
server   == <<listening, since>>
vars     == <<maps, freed, next, server, polling, callback, told, abused>>

Init ==
  /\ sessions = {} /\ nbconnect = {} /\ doomed = {} /\ freed = {}
  /\ next = 1
  /\ listening \in BOOLEAN
  /\ phase = "out" /\ list = {} /\ at = 0 /\ readable = {} /\ writable = {}
  /\ cb = None /\ kill = None
  /\ told = [s \in Ids |-> "nothing"]
  /\ abused = FALSE /\ since = 1

First(S) == CHOOSE s \in S : \A r \in S : s <= r

\* OnConnect comes first and once, OnDisconnect once and last.
OnConnect(s) == told' = [told EXCEPT ![s] = IF @ = "nothing" THEN "connect" ELSE "wrong"]
OnDisconnect(s) == told' = [told EXCEPT ![s] = IF @ = "connect" THEN "disconnect" ELSE "wrong"]
OnRead(s) == told' = [told EXCEPT ![s] = IF @ = "connect" THEN @ ELSE "wrong"]

\* Run a callback of s, and delete d when it returns.
Call(s, d) == cb' = s /\ kill' = d

-----------------------------------------------------------------------------
(* The program, outside Poll or in a callback.                             *)

Running == cb # None \/ phase = "out"

\* Mutant: sessions that are still connecting are not counted.
RoomSessions == Cardinality(sessions) < MaxFd

Room == Cardinality(sessions) + Cardinality(nbconnect) < MaxFd

\* A session is created: it gets the next number, and is deleted at once when
\* the connection fails or there is no room.  Its OnError then runs where the
\* program runs already, and the session is in no map.
Create == next <= MaxId /\ next' = next + 1
Rejected == freed' = freed \cup {next} /\ UNCHANGED <<sessions, nbconnect, told>>

\* The fd sets know sockets, not sessions: until the loops have begun, a new
\* session may get the socket of one that was deleted after select found it
\* readable, and so count as readable itself.
NewSocket ==
  \/ UNCHANGED readable
  \/ /\ phase = "accepted"
     /\ \E old \in readable \cap freed : readable' = (readable \ {old}) \cup {next}

Connect ==
  /\ Running
  /\ Create
  /\ \/ /\ Room /\ sessions' = sessions \cup {next} /\ OnConnect(next)
        /\ NewSocket
        /\ UNCHANGED <<nbconnect, freed>>
     \/ /\ Room /\ nbconnect' = nbconnect \cup {next}
        /\ UNCHANGED <<sessions, freed, told, readable>>
     \/ Rejected /\ UNCHANGED readable
  /\ UNCHANGED <<doomed, server, phase, list, at, writable, callback, abused>>

\* Sessions that would be forgotten: one the delete loop has passed, and one
\* connected by a callback of Shutdown, which in the end clears the list.
MayDelete(s) ==
  /\ phase = "drop" => s > at
  /\ phase = "shut" => s \in list \cup nbconnect

Delete(s) ==
  /\ Running
  /\ s \in sessions \cup nbconnect
  /\ s \notin doomed
  /\ MayDelete(s)
  /\ doomed' = doomed \cup {s}
  /\ UNCHANGED <<sessions, nbconnect, freed, next, server, polling, callback, told, abused>>

\* Sessions that would be used after their deletion: one that a copied list
\* still holds, and in OnError of do_recv the session itself.
MayDeleteDirect(s) == phase \in {"read", "error", "shut"} => s \notin list

DeleteDirect(s) ==
  /\ Running
  /\ s \in sessions
  /\ MayDeleteDirect(s)
  /\ sessions' = sessions \ {s}
  /\ OnDisconnect(s)
  /\ freed' = freed \cup {s}
  /\ UNCHANGED <<nbconnect, doomed, next, server, polling, callback, abused>>

\* A callback returns to the loop that called it.
Return ==
  /\ cb # None
  /\ freed' = IF kill = None THEN freed ELSE freed \cup {kill}
  /\ Call(None, None)
  /\ UNCHANGED <<maps, next, server, polling, told, abused>>

-----------------------------------------------------------------------------
(* Poll.                                                                   *)

\* select returns a number above zero; a new connection is accepted first.
\* With no room for it OnError runs before it is deleted.
Select ==
  /\ phase = "out" /\ cb = None
  /\ \E R \in SUBSET sessions, W \in SUBSET nbconnect :
       /\ readable' = R /\ writable' = W
       /\ \/ /\ R \cup W # {}
             /\ UNCHANGED <<sessions, nbconnect, freed, next, told, callback>>
          \/ /\ listening
             /\ Create
             /\ \/ /\ Room /\ sessions' = sessions \cup {next} /\ OnConnect(next)
                   /\ Call(next, None) /\ UNCHANGED <<nbconnect, freed>>
                \/ Rejected /\ UNCHANGED callback
                \/ /\ ~Room /\ Call(next, next)
                   /\ UNCHANGED <<sessions, nbconnect, freed, told>>
  /\ phase' = "accepted"
  /\ UNCHANGED <<doomed, server, list, at, abused>>

\* From one loop to the next: each walks through a copy made when it begins.
NextLoop ==
  /\ cb = None
  /\ \/ phase = "accepted" /\ phase' = "read" /\ list' = sessions
     \/ phase = "read" /\ list = {} /\ phase' = "write" /\ list' = nbconnect
     \/ phase = "write" /\ list = {} /\ phase' = "drop" /\ UNCHANGED list
  /\ at' = 0
  /\ UNCHANGED <<maps, freed, next, server, readable, writable, callback, told, abused>>

\* The next session of the list of this loop, which has the turn until its
\* OnError has run.
Walk(p) ==
  /\ phase = p /\ cb = None /\ list # {}
  /\ phase' = IF p = "error" THEN "read" ELSE p
  /\ list' = list \ {First(list)}
  /\ abused' = (abused \/ First(list) \in freed)
  /\ UNCHANGED <<doomed, next, server, at, readable, writable>>

Skip(p, ready) ==
  /\ Walk(p)
  /\ First(list) \notin ready \/ First(list) \in freed
  /\ UNCHANGED <<sessions, nbconnect, freed, callback, told>>

ReadData ==
  LET s == First(list) IN
  /\ Walk("read")
  /\ s \in readable \ freed
  /\ OnRead(s)
  /\ Call(s, None)
  /\ UNCHANGED <<sessions, nbconnect, freed>>

\* do_recv reports an error: OnError runs with the session still in the map.
ReadError ==
  LET s == First(list) IN
  /\ phase = "read" /\ cb = None /\ list # {}
  /\ s \in readable \ freed
  /\ phase' = "error"
  /\ Call(s, None)
  /\ UNCHANGED <<maps, freed, next, server, list, at, readable, writable, told, abused>>

\* do_recv reports the end of the connection, or OnError has returned.
Ended(s) == Walk("error") \/ (Walk("read") /\ s \in readable \ freed)

\* Mutant: the session is taken out of the map after its callback.
ReadEndLate ==
  LET s == First(list) IN
  /\ Ended(s)
  /\ OnDisconnect(s)
  /\ Call(s, s)
  /\ UNCHANGED <<sessions, nbconnect, freed>>

ReadEnd ==
  LET s == First(list) IN
  /\ Ended(s)
  /\ sessions' = sessions \ {s}
  /\ OnDisconnect(s)
  /\ Call(s, s)
  /\ UNCHANGED <<nbconnect, freed>>

Connected ==
  LET s == First(list) IN
  /\ Walk("write")
  /\ s \in writable \ freed
  /\ nbconnect' = nbconnect \ {s}
  /\ sessions' = sessions \cup {s}
  /\ OnConnect(s)
  /\ Call(s, None)
  /\ UNCHANGED freed

\* Mutant: the session is not deleted after OnError.
ConnectErrorKept ==
  LET s == First(list) IN
  /\ Walk("write")
  /\ s \in writable \ freed
  /\ nbconnect' = nbconnect \ {s}
  /\ Call(s, None)
  /\ UNCHANGED <<sessions, freed, told>>

\* OnError, which a session that never connected gets instead of OnDisconnect.
ConnectError ==
  LET s == First(list) IN
  /\ Walk("write")
  /\ s \in writable \ freed
  /\ nbconnect' = nbconnect \ {s}
  /\ Call(s, s)
  /\ UNCHANGED <<sessions, freed, told>>

Later == {d \in doomed : d > at}

\* Mutant: whether the session still exists is not looked up.
DropNextUnchecked ==
  LET s == First(Later) IN
  /\ phase = "drop" /\ cb = None /\ Later # {}
  /\ at' = s
  /\ sessions' = sessions \ {s} /\ nbconnect' = nbconnect \ {s}
  /\ OnDisconnect(s)
  /\ Call(s, s)
  /\ abused' = (abused \/ s \in freed)
  /\ UNCHANGED <<doomed, freed, next, server, phase, list, readable, writable>>

\* Mutant: sessions that are still connecting are passed over.
DropNextConnected ==
  LET s == First(Later) IN
  /\ phase = "drop" /\ cb = None /\ Later # {}
  /\ at' = s
  /\ \/ s \in sessions /\ sessions' = sessions \ {s} /\ OnDisconnect(s) /\ Call(s, s)
     \/ s \notin sessions /\ UNCHANGED <<sessions, told, callback>>
  /\ UNCHANGED <<nbconnect, doomed, freed, next, server, phase, list, readable, writable,
                 abused>>

DropNext ==
  LET s == First(Later) IN
  /\ phase = "drop" /\ cb = None /\ Later # {}
  /\ at' = s
  /\ \/ s \in sessions /\ sessions' = sessions \ {s} /\ OnDisconnect(s) /\ Call(s, s)
        /\ UNCHANGED <<nbconnect, freed>>
     \/ s \in nbconnect /\ nbconnect' = nbconnect \ {s} /\ freed' = freed \cup {s}
        /\ UNCHANGED <<sessions, told, callback>>
     \/ s \notin sessions \cup nbconnect
        /\ UNCHANGED <<sessions, nbconnect, freed, told, callback>>
  /\ UNCHANGED <<doomed, next, server, phase, list, readable, writable, abused>>

DropDone ==
  /\ phase = "drop" /\ cb = None /\ Later = {}
  /\ doomed' = {}
  /\ phase' = "out"
  /\ at' = 0 /\ readable' = {} /\ writable' = {}
  /\ UNCHANGED <<sessions, nbconnect, freed, next, server, list, callback, told, abused>>

Poll ==
  \/ NextLoop
  \/ Skip("read", readable) \/ ReadData \/ ReadError \/ ReadEnd
  \/ Skip("write", writable) \/ Connected \/ ConnectError
  \/ DropNext \/ DropDone

-----------------------------------------------------------------------------
(* Shutdown, also the first thing StartupServer does.                      *)

Shutdown ==
  /\ phase = "out" /\ cb = None
  /\ sessions \cup nbconnect # {}
  /\ phase' = "shut"
  /\ list' = sessions
  /\ since' = next
  /\ UNCHANGED <<maps, freed, next, listening, at, readable, writable, callback, told, abused>>

ShutNext ==
  LET s == First(list) IN
  /\ Walk("shut")
  /\ sessions' = sessions \ {s}
  /\ OnDisconnect(s)
  /\ Call(s, s)
  /\ UNCHANGED <<nbconnect, freed>>

\* Mutant: _delete_sessions is not cleared.
ShutDoneKeep ==
  /\ phase = "shut" /\ cb = None /\ list = {}
  /\ freed' = freed \cup nbconnect
  /\ nbconnect' = {}
  /\ listening' \in BOOLEAN /\ since' = 1
  /\ phase' = "out"
  /\ UNCHANGED <<sessions, doomed, next, list, at, readable, writable, callback, told, abused>>

ShutDone ==
  /\ phase = "shut" /\ cb = None /\ list = {}
  /\ freed' = freed \cup nbconnect
  /\ nbconnect' = {} /\ doomed' = {}
  /\ listening' \in BOOLEAN /\ since' = 1
  /\ phase' = "out"
  /\ UNCHANGED <<sessions, next, list, at, readable, writable, callback, told, abused>>

-----------------------------------------------------------------------------

Next ==
  \/ Connect \/ \E s \in Ids : Delete(s) \/ DeleteDirect(s)
  \/ Return
  \/ Select \/ Poll
  \/ Shutdown \/ ShutNext \/ ShutDone

Spec == Init /\ [][Next]_vars

\* The program keeps calling Poll, the network keeps it busy, callbacks return.
FairSpec ==
  /\ Spec
  /\ WF_vars(Select) /\ WF_vars(Poll) /\ WF_vars(Return) /\ WF_vars(ShutNext \/ ShutDone)

-----------------------------------------------------------------------------
(* Properties.                                                             *)

TypeOK ==
  /\ sessions \subseteq Ids /\ nbconnect \subseteq Ids /\ doomed \subseteq Ids
  /\ freed \subseteq Ids
  /\ next \in 1 .. MaxId + 1
  /\ listening \in BOOLEAN
  /\ phase \in {"out", "accepted", "read", "error", "write", "drop", "shut"}
  /\ list \subseteq Ids /\ at \in Ids \cup {0}
  /\ readable \subseteq Ids /\ writable \subseteq Ids
  /\ cb \in Ids \cup {None} /\ kill \in Ids \cup {None}
  /\ told \in [Ids -> {"nothing", "connect", "disconnect", "wrong"}]
  /\ abused \in BOOLEAN /\ since \in 1 .. MaxId + 1

\* No loop uses a session that a callback deleted under it, as long as the
\* program keeps to MayDeleteDirect (snet_sessionManager.cpp:240-326).
NoUseAfterDelete == ~abused

\* Each session is told OnConnect and then OnDisconnect at most once, read
\* only in between, whatever mixture of Delete, DeleteDirect, disconnection
\* and Shutdown ends it.
CallbacksInOrder == \A s \in Ids : told[s] # "wrong"

\* Every session created belongs to one map or has been deleted, and a session
\* that was told OnConnect is not deleted without OnDisconnect.
NoLeak ==
  \A s \in 1 .. next - 1 :
    /\ s \in sessions \cup nbconnect \cup freed \cup {kill}
    /\ s \in freed => s \notin sessions \cup nbconnect /\ told[s] # "connect"

\* _max_fd bounds the two maps together, although sessions come from accept,
\* from Connect in callbacks and from finished connections.
WithinMax == Cardinality(sessions) + Cardinality(nbconnect) <= MaxFd

\* Shutdown disconnects "all the sessions" (snet_sessionManager.h:42) that it
\* finds, connecting ones included, whatever its callbacks connect, mark or
\* delete in between.  What it leaves is what those callbacks connected.
ShutdownLeavesNoneBefore ==
  [][ShutDone => /\ nbconnect' \cup doomed' = {}
                 /\ sessions' \cap 1 .. since - 1 = {}]_vars

\* "put in list and later delete" (snet_sessionManager.h:59): a session that
\* Delete was called for is deleted in the end, as long as the program keeps to
\* MayDelete and select goes on reporting something.
DeleteHonoured == \A s \in Ids : s \in doomed ~> s \in freed
=============================================================================
