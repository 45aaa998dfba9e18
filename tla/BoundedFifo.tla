----------------------------- MODULE BoundedFifo -----------------------------
(***************************************************************************)
(* What an ogs_queue_t promises its callers, whatever threads share it: a  *)
(* FIFO of at most Capacity elements.  A call that returns OK took effect  *)
(* once, atomically, between its invocation and its return; a call that    *)
(* returns anything else left the contents alone.                          *)
(***************************************************************************)
EXTENDS Naturals, Sequences

CONSTANTS Threads,   \* the callers
          Elements,  \* what may be pushed
          Capacity,  \* most elements held at once
          NULL       \* no element

VARIABLES q,         \* the contents, oldest first
          answer     \* answer[t]: what the last call of t returned

fifoVars == <<q, answer>>

\* A pop that succeeds answers with the element; every other answer has none.
Ok(d)     == [rv |-> "OK", elem |-> d]
Done(rv)  == [rv |-> rv, elem |-> NULL]
Failures  == {Done(rv) : rv \in {"RETRY", "TIMEUP", "ERROR", "DONE"}}

FifoInit == /\ q = <<>>
            /\ answer = [t \in Threads |-> Done("OK")]

Put(t, d) == /\ Len(q) < Capacity
             /\ q' = Append(q, d)
             /\ answer' = [answer EXCEPT ![t] = Done("OK")]

Take(t) == /\ q # <<>>
           /\ q' = Tail(q)
           /\ answer' = [answer EXCEPT ![t] = Ok(Head(q))]

\* A call begins, or ends without having touched the contents.
Begin(t) == /\ answer' = [answer EXCEPT ![t] = Done("PENDING")]
            /\ UNCHANGED q

Fail(t) == /\ \E f \in Failures : answer' = [answer EXCEPT ![t] = f]
           /\ UNCHANGED q

FifoNext == \E t \in Threads : \/ \E d \in Elements : Put(t, d)
                               \/ Take(t)
                               \/ Begin(t)
                               \/ Fail(t)

FifoSpec == FifoInit /\ [][FifoNext]_fifoVars

=============================================================================
