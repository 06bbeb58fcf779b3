------------------------------ MODULE Exchange ------------------------------
(***************************************************************************)
(* What the way from the wire promises the thread that sends a request and *)
(* waits for its reply, with nothing of bytes, frames, buffers, queues and *)
(* threads.  The answer of an exchange is the reply to its request, or to  *)
(* an earlier one, or nothing; no reply is an answer twice, and none comes *)
(* after a later one.  While nothing goes wrong each exchange has its own  *)
(* reply for an answer.  A fault disturbs the exchanges until one of them  *)
(* finds nothing left over.  Unless a reply has come too late, at most     *)
(* Price exchanges then go without their own reply, and as many again each *)
(* time a reply is cut in two, which happens after a fault only but has no *)
(* bound of its own.  Receiver implements this specification.              *)
(***************************************************************************)
EXTENDS Integers

CONSTANT Price        \* exchanges that may be missed after a fault or a cut

VARIABLES asked,      \* exchanges begun, which also numbers their replies
          open,       \* the last of them has not ended
          answer,     \* its answer so far, 0 if there is none
          taken,      \* the newest reply that has been an answer
          undisturbed,
          late,       \* a reply has come after its exchange had ended
          credit      \* exchanges that may still be missed without another

vars == <<asked, open, answer, taken, undisturbed, late, credit>>

Init ==
  /\ asked = 0 /\ answer = 0 /\ taken = 0 /\ credit = Price
  /\ open = FALSE /\ undisturbed = TRUE /\ late = FALSE

\* An exchange may find nothing left over; it does if nothing was disturbed.
Begin ==
  /\ ~open
  /\ open'   = TRUE
  /\ asked'  = asked + 1
  /\ answer' = 0
  /\ undisturbed' \in {TRUE, undisturbed}
  /\ UNCHANGED <<taken, late, credit>>

\* A reply replaces the one before it as the answer.
Deliver ==
  /\ open
  /\ answer' \in (taken + 1) .. asked
  /\ undisturbed => answer' = asked
  /\ taken' = answer'
  /\ UNCHANGED <<asked, open, undisturbed, late, credit>>

Answered ==
  /\ open
  /\ answer = asked
  /\ open' = FALSE
  /\ UNCHANGED <<asked, answer, taken, undisturbed, late, credit>>

Missed ==
  /\ open
  /\ answer # asked
  /\ ~undisturbed
  /\ open' = FALSE
  /\ \/ late /\ UNCHANGED credit
     \/ ~late /\ credit > 0 /\ credit' = credit - 1
  /\ UNCHANGED <<asked, answer, taken, undisturbed, late>>

Fault ==
  /\ undisturbed' = FALSE
  /\ \/ ~late /\ credit' = Price /\ UNCHANGED late
     \/ late' = TRUE /\ credit' = 0
  /\ UNCHANGED <<asked, open, answer, taken>>

Cut ==
  /\ ~undisturbed
  /\ ~late
  /\ credit' = Price
  /\ UNCHANGED <<asked, open, answer, taken, undisturbed, late>>

Next == Begin \/ Deliver \/ Answered \/ Missed \/ Fault \/ Cut

Spec == Init /\ [][Next]_vars
=============================================================================
