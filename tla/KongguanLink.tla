--------------------------- MODULE KongguanLink ----------------------------
(***************************************************************************)
(* RepeatComm::Run (src/src/repeat_comm.cpp) as the server of the master   *)
(* unit "kongguan" on its own serial port: requests queue up while one is  *)
(* being served, CProtocolComm::WaitPopLast keeps the newest only, and     *)
(* SendResponseFrame drops an answer that a newer request has overtaken.   *)
(*                                                                         *)
(* A request is a model value.  Of its content the code compares nothing   *)
(* but the packet id, which is the check sum: Id[r].                       *)
(***************************************************************************)
EXTENDS Integers, Sequences, FiniteSets

CONSTANTS Requests,    \* frames that the master sends
          Ids, Id,     \* check sums; Id[r] is that of r
          Malformed,   \* frames with a wrong data length, type or function
          Local,       \* requests answered by InnerProcess, without the device bus
          Sets,        \* 0x43, 0x45, 0x47: they raise m_isKongguanSetCmd
          Curtains,    \* 0x46: the answer may be followed by a curtain command
          MaxAsks,     \* bound: requests the master turns to
          MaxQueue,    \* bound: frames waiting in m_queue
          MaxFaults    \* bound: lost frames and failed exchanges

NoRequest == "none"

ASSUME RequestAssumption ==
  /\ NoRequest \notin Requests
  /\ Id \in [Requests -> Ids]
  /\ Malformed \subseteq Requests
  /\ Local \subseteq Requests
  /\ Sets \subseteq Requests
  /\ Curtains \subseteq Requests
  /\ Local \cap (Sets \cup Curtains) = {}
  /\ Sets \cap Curtains = {}

ASSUME BoundAssumption == MaxAsks \in Nat /\ MaxQueue \in Nat /\ MaxFaults \in Nat

VARIABLES
  pc,        \* where Run is
  request,   \* the local packet of Run
  remain,    \* the local packet_remain of SendResponseFrame
  queue,     \* m_comm.m_queue
  setCmd,    \* m_isKongguanSetCmd
  asked,     \* the request the master wants answered
  answered,  \* whether it has been
  asks,      \* number of requests the master has turned to
  faults,    \* faults so far
  fresh      \* history: requests received since they were last answered

runVars    == <<pc, request, remain>>
masterVars == <<asked, answered, asks>>
vars       == <<runVars, queue, setCmd, masterVars, faults, fresh>>

Init ==
  /\ pc = "idle"
  /\ request = NoRequest
  /\ remain = NoRequest
  /\ queue = <<>>
  /\ setCmd = FALSE
  /\ asked = NoRequest
  /\ answered = FALSE
  /\ asks = 0
  /\ faults = 0
  /\ fresh = {}

Newest == queue[Len(queue)]

-----------------------------------------------------------------------------
(* The master and the serial reader thread.                                *)

\* The reader thread queues a frame; the frame may also get lost on the line.
Receive(r) ==
  \/ /\ Len(queue) < MaxQueue
     /\ queue' = Append(queue, r)
     /\ fresh' = fresh \cup {r}
     /\ UNCHANGED faults
  \/ /\ faults < MaxFaults
     /\ faults' = faults + 1
     /\ UNCHANGED <<queue, fresh>>

\* The master turns to another request, whether or not the last one was answered.
Ask(r) ==
  /\ asks < MaxAsks
  /\ asks' = asks + 1
  /\ asked' = r
  /\ answered' = FALSE
  /\ Receive(r)
  /\ UNCHANGED <<runVars, setCmd>>

\* It repeats a request that has not been answered.
AskAgain ==
  /\ asked \in Requests
  /\ ~answered
  /\ Receive(asked)
  /\ UNCHANGED <<runVars, setCmd, masterVars>>

-----------------------------------------------------------------------------
(* Run: one request at a time.                                             *)

\* WaitPopLast takes the newest frame and drops the ones before it.
Take ==
  /\ pc = "idle"
  /\ queue # <<>>
  /\ request' = Newest
  /\ queue' = <<>>
  /\ pc' = "serve"
  /\ UNCHANGED <<remain, setCmd, masterVars, faults, fresh>>

\* No frame within 200 ms: only the sensors are read.
WaitTimesOut ==
  /\ pc = "idle"
  /\ queue = <<>>
  /\ UNCHANGED vars

\* Run goes on, at the end of the turn with no request in hand.
Finish(next) ==
  /\ pc' = next
  /\ request' = IF next = "idle" THEN NoRequest ELSE request

\* The switch over the function: a set command is announced to TimerQuery
\* before its length is checked; a malformed request gets no answer.
Dispatch ==
  /\ pc = "serve"
  /\ setCmd' = (setCmd \/ request \in Sets)
  /\ Finish(CASE request \in Malformed -> "idle"
              [] request \in Local     -> "check"
              [] OTHER                 -> "exchange")
  /\ UNCHANGED <<remain, queue, masterVars, faults, fresh>>

\* transform_by_kongguan: the exchange with the device ends one way or the
\* other; a failed one leaves the master without an answer.
ExchangeDone ==
  /\ pc = "exchange"
  /\ Finish("check")
  /\ UNCHANGED <<remain, queue, setCmd, masterVars, faults, fresh>>

ExchangeFails ==
  /\ pc = "exchange"
  /\ faults < MaxFaults
  /\ faults' = faults + 1
  /\ Finish("idle")
  /\ UNCHANGED <<remain, queue, setCmd, masterVars, fresh>>

-----------------------------------------------------------------------------
(* SendResponseFrame.                                                      *)

\* Mutant: the ids are not compared, any waiting frame drops the answer.
CheckNoCompare ==
  /\ pc = "check"
  /\ queue' = <<>>
  /\ IF queue = <<>>
       THEN /\ pc' = "write"
            /\ fresh' = fresh \ {request}
            /\ UNCHANGED remain
       ELSE /\ pc' = "push"
            /\ remain' = Newest
            /\ UNCHANGED fresh
  /\ UNCHANGED <<request, setCmd, masterVars, faults>>

\* Mutant: a repetition of the request stays queued.
CheckKeepRepeat ==
  /\ pc = "check"
  /\ IF queue = <<>> \/ Id[Newest] = Id[request]
       THEN /\ pc' = "write"
            /\ fresh' = fresh \ {request}
            /\ UNCHANGED <<remain, queue>>
       ELSE /\ pc' = "push"
            /\ remain' = Newest
            /\ queue' = <<>>
            /\ UNCHANGED fresh
  /\ UNCHANGED <<request, setCmd, masterVars, faults>>

\* Frames came in meanwhile?  The newest is popped and the others dropped.  If
\* it passes for a repetition of the request it is answered along with it.
CheckQueue ==
  /\ pc = "check"
  /\ queue' = <<>>
  /\ IF queue = <<>> \/ Id[Newest] = Id[request]
       THEN /\ pc' = "write"
            /\ fresh' = fresh \ {request}
            /\ UNCHANGED remain
       ELSE /\ pc' = "push"
            /\ remain' = Newest
            /\ UNCHANGED fresh
  /\ UNCHANGED <<request, setCmd, masterVars, faults>>

\* What follows the answer or its loss: SendResponseFrame's result is ignored.
AfterAnswer == IF request \in Curtains THEN "refresh" ELSE "idle"

\* The answer is dropped and the newer request goes back into the queue, by
\* now perhaps behind a still newer one.
PushBack ==
  /\ pc = "push"
  /\ queue' = Append(queue, remain)
  /\ remain' = NoRequest
  /\ Finish(AfterAnswer)
  /\ UNCHANGED <<setCmd, masterVars, faults, fresh>>

\* The answer is written; the master takes it if it is still waiting for it.
WriteAnswer ==
  /\ pc = "write"
  /\ \/ answered' = (answered \/ asked = request) /\ UNCHANGED faults
     \/ faults < MaxFaults /\ faults' = faults + 1 /\ UNCHANGED answered
  /\ Finish(AfterAnswer)
  /\ UNCHANGED <<remain, queue, setCmd, asked, asks, fresh>>

\* After a curtain query: if what the curtain knows of its surroundings is out
\* of date a curtain command follows, and its result is not looked at.
Refresh ==
  /\ pc = "refresh"
  /\ Finish("idle")
  /\ UNCHANGED <<remain, queue, setCmd, masterVars, faults, fresh>>

\* TimerQuery takes notice of the set command.
Notice ==
  /\ setCmd
  /\ setCmd' = FALSE
  /\ UNCHANGED <<runVars, queue, masterVars, faults, fresh>>

-----------------------------------------------------------------------------

Answer == CheckQueue \/ PushBack \/ WriteAnswer \/ Refresh

Run == Take \/ WaitTimesOut \/ Dispatch \/ ExchangeDone \/ ExchangeFails \/ Answer

Next ==
  \/ \E r \in Requests : Ask(r)
  \/ AskAgain
  \/ Run
  \/ Notice

Spec == Init /\ [][Next]_vars

\* Run keeps running (an exchange ends: Transform, BusReleased) and the master
\* repeats a request that is not answered.
FairSpec == Spec /\ WF_vars(Run) /\ WF_vars(AskAgain)

-----------------------------------------------------------------------------
(* Properties.                                                             *)

TypeOK ==
  /\ pc \in {"idle", "serve", "exchange", "check", "push", "write", "refresh"}
  /\ request \in Requests \cup {NoRequest}
  /\ remain \in Requests \cup {NoRequest}
  /\ queue \in Seq(Requests)
  /\ setCmd \in BOOLEAN
  /\ asked \in Requests \cup {NoRequest}
  /\ answered \in BOOLEAN
  /\ asks \in Nat
  /\ faults \in Nat
  /\ fresh \in SUBSET Requests

\* A request the master repeats is answered in the end, or the master turns to
\* another: repetitions that come in while it is served do not overtake their
\* own answer for ever (SendResponseFrame), nor does another request whose
\* answer was dropped.
RequestAnswered ==
  \A r \in Requests \ Malformed : asked = r ~> answered \/ asked # r

\* Repetitions that came in while a request was served are answered with it: no
\* request waits or is served that was not received after its last answer
\* (comment protocol_comm.cpp:107).
NoEcho ==
  /\ \A i \in DOMAIN queue : queue[i] \in fresh
  /\ pc \in {"serve", "exchange", "check", "push"} => request \in fresh
  /\ pc = "push" => remain \in fresh
=============================================================================
