------------------------- MODULE KongguanLinkProofs -------------------------
(***************************************************************************)
(* The link to the master unit, for any requests, check sums and numbers of *)
(* requests and faults: the state is well typed, and no request waits or is *)
(* served that was not received after its last answer.  Check sums may      *)
(* collide.                                                                 *)
(***************************************************************************)
EXTENDS KongguanLink, TLAPS

\* Elements of a sequence that has grown at its end.
LEMMA AppendElements ==
  ASSUME NEW S, NEW F, NEW s \in Seq(S), NEW e \in F,
         \A i \in DOMAIN s : s[i] \in F
  PROVE  \A i \in DOMAIN Append(s, e) : Append(s, e)[i] \in F
  OBVIOUS

\* The newest frame of a queue that is not empty.
LEMMA NewestQueued ==
  ASSUME TypeOK, queue # <<>>
  PROVE  /\ Newest \in Requests
         /\ \E i \in DOMAIN queue : Newest = queue[i]
  <1>1. Len(queue) \in DOMAIN queue
    BY DEF TypeOK
  <1>2. queue[Len(queue)] \in Requests
    BY <1>1 DEF TypeOK
  <1> QED
    BY <1>1, <1>2 DEF Newest

-----------------------------------------------------------------------------
(* The inductive invariant: the types alone are not inductive, because what *)
(* PushBack queues is a request only if NoEcho holds.                       *)

LinkInv == TypeOK /\ NoEcho

LEMMA InitLink == Init => LinkInv
<1> SUFFICES ASSUME Init PROVE LinkInv
  OBVIOUS
<1>1. TypeOK
  <2>1. setCmd \in BOOLEAN /\ answered \in BOOLEAN
    BY Zenon DEF Init
  <2>2. queue \in Seq(Requests)
    BY DEF Init
  <2>3. asks \in Nat /\ faults \in Nat
    BY DEF Init
  <2>4. pc = "idle" /\ request = NoRequest /\ remain = NoRequest /\ asked = NoRequest /\ fresh = {}
    BY DEF Init
  <2> QED
    BY <2>1, <2>2, <2>3, <2>4 DEF TypeOK
<1>2. NoEcho
  BY DEF Init, NoEcho
<1> QED
  BY <1>1, <1>2 DEF LinkInv

\* What the reader thread does to the queue.
LEMMA ReceiveLink ==
  ASSUME LinkInv, NEW r \in Requests, Receive(r)
  PROVE  /\ queue' \in Seq(Requests)
         /\ fresh' \in SUBSET Requests
         /\ faults' \in Nat
         /\ fresh \subseteq fresh'
         /\ \A i \in DOMAIN queue' : queue'[i] \in fresh'
<1>1. CASE queue' = Append(queue, r) /\ fresh' = fresh \cup {r} /\ UNCHANGED faults
  <2>1. \A i \in DOMAIN queue : queue[i] \in fresh'
    BY <1>1 DEF LinkInv, NoEcho
  <2>2. \A i \in DOMAIN queue' : queue'[i] \in fresh'
    BY <1>1, <2>1, AppendElements DEF LinkInv, TypeOK
  <2> QED
    BY <1>1, <2>2 DEF LinkInv, TypeOK
<1>2. CASE faults' = faults + 1 /\ UNCHANGED <<queue, fresh>>
  BY <1>2 DEF LinkInv, TypeOK, NoEcho
<1> QED
  BY <1>1, <1>2 DEF Receive

LEMMA NextLink == LinkInv /\ [Next]_vars => LinkInv'
<1> SUFFICES ASSUME LinkInv, [Next]_vars PROVE LinkInv'
  OBVIOUS
<1>1. ASSUME NEW r \in Requests, Ask(r) PROVE LinkInv'
  <2>1. /\ Receive(r) /\ asks' = asks + 1 /\ asked' = r /\ answered' = FALSE
        /\ UNCHANGED <<pc, request, remain, setCmd>>
    BY <1>1 DEF Ask, runVars
  <2>2. /\ queue' \in Seq(Requests)
        /\ fresh' \in SUBSET Requests
        /\ faults' \in Nat
        /\ fresh \subseteq fresh'
        /\ \A i \in DOMAIN queue' : queue'[i] \in fresh'
    BY <2>1, ReceiveLink
  <2>5. answered' \in BOOLEAN /\ setCmd' \in BOOLEAN
    BY <2>1, Zenon DEF LinkInv, TypeOK
  <2>6. /\ asks' \in Nat /\ asked' \in Requests
        /\ UNCHANGED <<pc, request, remain>>
    BY <2>1 DEF LinkInv, TypeOK
  <2>3. TypeOK'
    BY <2>2, <2>5, <2>6 DEF LinkInv, TypeOK
  <2>4. NoEcho'
    BY <2>1, <2>2 DEF LinkInv, NoEcho
  <2> QED
    BY <2>3, <2>4 DEF LinkInv
<1>2. CASE AskAgain
  <2>1. /\ asked \in Requests /\ Receive(asked)
        /\ UNCHANGED <<pc, request, remain, setCmd, asked, answered, asks>>
    BY <1>2 DEF AskAgain, runVars, masterVars
  <2> QED
    BY <2>1, ReceiveLink DEF LinkInv, TypeOK, NoEcho
<1>3. CASE Take
  <2>1. /\ queue # <<>> /\ request' = Newest /\ queue' = <<>> /\ pc' = "serve"
        /\ UNCHANGED <<remain, setCmd, asked, answered, asks, faults, fresh>>
    BY <1>3 DEF Take, masterVars
  <2>2. Newest \in Requests /\ Newest \in fresh
    BY <2>1, NewestQueued DEF LinkInv, NoEcho
  <2> QED
    BY <2>1, <2>2 DEF LinkInv, TypeOK, NoEcho
<1>4. CASE WaitTimesOut
  BY <1>4 DEF WaitTimesOut, vars, runVars, masterVars, LinkInv, TypeOK, NoEcho
<1>5. CASE Dispatch
  <2>1. /\ pc = "serve" /\ setCmd' \in BOOLEAN /\ pc' \in {"idle", "check", "exchange"}
        /\ request' \in {request, NoRequest} /\ (pc' # "idle" => request' = request)
        /\ UNCHANGED <<remain, queue, asked, answered, asks, faults, fresh>>
    BY <1>5 DEF Dispatch, Finish, masterVars, LinkInv, TypeOK
  <2> QED
    BY <2>1 DEF LinkInv, TypeOK, NoEcho
<1>6. CASE ExchangeDone
  BY <1>6 DEF ExchangeDone, Finish, LinkInv, TypeOK, NoEcho, masterVars
<1>7. CASE ExchangeFails
  BY <1>7 DEF ExchangeFails, Finish, LinkInv, TypeOK, NoEcho, masterVars
<1>8. CASE CheckQueue
  <2>1. /\ pc = "check" /\ queue' = <<>>
        /\ UNCHANGED <<request, setCmd, asked, answered, asks, faults>>
    BY <1>8 DEF CheckQueue, masterVars
  <2>2. CASE pc' = "write" /\ fresh' = fresh \ {request} /\ UNCHANGED remain
    BY <2>1, <2>2 DEF LinkInv, TypeOK, NoEcho
  <2>3. CASE queue # <<>> /\ pc' = "push" /\ remain' = Newest /\ UNCHANGED fresh
    <3>1. Newest \in Requests /\ Newest \in fresh
      BY <2>3, NewestQueued DEF LinkInv, NoEcho
    <3> QED
      BY <2>1, <2>3, <3>1 DEF LinkInv, TypeOK, NoEcho
  <2> QED
    BY <1>8, <2>2, <2>3 DEF CheckQueue
<1>9. CASE PushBack
  <2>1. /\ pc = "push" /\ queue' = Append(queue, remain) /\ remain' = NoRequest
        /\ pc' \in {"refresh", "idle"} /\ request' \in {request, NoRequest}
        /\ UNCHANGED <<setCmd, asked, answered, asks, faults, fresh>>
    BY <1>9 DEF PushBack, Finish, AfterAnswer, masterVars
  <2>2. remain \in fresh /\ remain \in Requests
    BY <2>1 DEF LinkInv, NoEcho, TypeOK
  <2>3. queue' \in Seq(Requests)
    BY <2>1, <2>2 DEF LinkInv, TypeOK
  <2>4. \A i \in DOMAIN queue' : queue'[i] \in fresh
    BY <2>1, <2>2, AppendElements DEF LinkInv, TypeOK, NoEcho
  <2> QED
    BY <2>1, <2>3, <2>4 DEF LinkInv, TypeOK, NoEcho
<1>10. CASE WriteAnswer
  <2>2. answered' \in BOOLEAN
    BY <1>10, Zenon DEF WriteAnswer, LinkInv, TypeOK
  <2>1. /\ pc = "write" /\ faults' \in Nat
        /\ pc' \in {"refresh", "idle"} /\ request' \in {request, NoRequest}
        /\ UNCHANGED <<remain, queue, setCmd, asked, asks, fresh>>
    BY <1>10 DEF WriteAnswer, Finish, AfterAnswer, LinkInv, TypeOK
  <2> QED
    BY <2>1, <2>2 DEF LinkInv, TypeOK, NoEcho
<1>11. CASE Refresh
  BY <1>11 DEF Refresh, Finish, LinkInv, TypeOK, NoEcho, masterVars
<1>12. CASE Notice
  BY <1>12 DEF Notice, LinkInv, TypeOK, NoEcho, runVars, masterVars
<1>13. CASE UNCHANGED vars
  BY <1>13 DEF vars, runVars, masterVars, LinkInv, TypeOK, NoEcho
<1> QED
  BY <1>1, <1>2, <1>3, <1>4, <1>5, <1>6, <1>7, <1>8, <1>9, <1>10, <1>11, <1>12, <1>13
     DEF Next, Run, Answer

LEMMA LinkInvariant == Spec => []LinkInv
  BY InitLink, NextLink, PTL DEF Spec

\* Every reachable state of the link is well typed.
THEOREM LinkTypes == Spec => []TypeOK
  BY LinkInvariant, PTL DEF LinkInv

\* SendResponseFrame answers repetitions together with their request, however
\* requests, repetitions and the push back of a newer one interleave: nothing is
\* served again that was not received again.
THEOREM EchoFree == Spec => []NoEcho
  BY LinkInvariant, PTL DEF LinkInv
=============================================================================
