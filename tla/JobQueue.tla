------------------------------ MODULE JobQueue ------------------------------
(***************************************************************************)
(* lib_linux::JobQueue (src/lib-linux/src/jobqueue.h) with its mutex and   *)
(* condition variable.  What happens between locking m_mutex and releasing *)
(* it, or giving it up in Condition::Wait, is one step: nobody else sees   *)
(* the queue meanwhile.  A thread that has left Condition::Wait, woken or  *)
(* expired, still has to lock m_mutex again, and others may come first.    *)
(***************************************************************************)
EXTENDS Integers, Sequences, FiniteSets

CONSTANT Consumers   (* the threads that call WaitPop *)

ASSUME ConsumersAssumption == IsFiniteSet(Consumers)

VARIABLES queue,   \* m_queue
          wait     \* where each consumer is with respect to Condition::Wait

Asleep == {c \in Consumers : wait[c] = "asleep"}
Woken  == {c \in Consumers : wait[c] = "woken"}

QueueInit ==
  /\ queue = <<>>
  /\ wait  = [c \in Consumers |-> "out"]

\* pthread_cond_signal wakes one of the sleepers, if there is one.
Push(x) ==
  /\ queue' = Append(queue, x)
  /\ \/ Asleep = {} /\ UNCHANGED wait
     \/ \E c \in Asleep : wait' = [wait EXCEPT ![c] = "woken"]

Clear == queue' = <<>> /\ UNCHANGED wait

\* WaitPop hands out the first element, at once or after a wake-up.
PopFront(c) ==
  /\ wait[c] \in {"out", "woken"}
  /\ queue # <<>>
  /\ queue' = Tail(queue)
  /\ wait'  = [wait EXCEPT ![c] = "out"]

\* Mutant: the queue is looked at before m_mutex is locked.
SleepUnchecked(c) ==
  /\ wait[c] = "out"
  /\ wait' = [wait EXCEPT ![c] = "asleep"]
  /\ UNCHANGED queue

\* WaitPop finds nothing and waits, which gives up m_mutex.
Sleep(c) ==
  /\ wait[c] = "out"
  /\ queue = <<>>
  /\ wait' = [wait EXCEPT ![c] = "asleep"]
  /\ UNCHANGED queue

\* Condition::Wait may return with nobody having signalled.
WakeUp(c) ==
  /\ wait[c] = "asleep"
  /\ wait' = [wait EXCEPT ![c] = "woken"]
  /\ UNCHANGED queue

\* The time is up.
Expire(c) ==
  /\ wait[c] = "asleep"
  /\ wait' = [wait EXCEPT ![c] = "expired"]
  /\ UNCHANGED queue

\* WaitPop returns false: woken too late, or expired, and then it does not
\* look at the queue again.
ReturnFalse(c) ==
  /\ wait[c] = "expired" \/ (wait[c] = "woken" /\ queue = <<>>)
  /\ wait' = [wait EXCEPT ![c] = "out"]
  /\ UNCHANGED queue

\* No lost wake-up: while somebody sleeps, every element is on its way to a
\* consumer that has been woken (the order of unlocking and signalling that
\* jobqueue.h:40-46 discusses).
NoLostWakeup == Asleep # {} => Len(queue) <= Cardinality(Woken)
=============================================================================
