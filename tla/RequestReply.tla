---------------------------- MODULE RequestReply ----------------------------
(***************************************************************************)
(* What the transaction layer promises to the layers above it: a request   *)
(* is handled by the other end at most once, an answer means that it was   *)
(* handled, and the requester learns one end of its request, once.         *)
(***************************************************************************)
EXTENDS Naturals

CONSTANTS Peers, Xids

VARIABLES outcome,  \* outcome[p][x]: what p knows of its request x
          handled   \* handled[p][x]: how often p's request x was handled

rrVars == <<outcome, handled>>

RRInit == /\ outcome = [p \in Peers |-> [x \in Xids |-> "none"]]
          /\ handled = [p \in Peers |-> [x \in Xids |-> 0]]

Becomes(p, x, what) == /\ outcome' = [outcome EXCEPT ![p][x] = what]
                       /\ UNCHANGED handled

\* The request is made, or fails at once.
Ask(p, x) == /\ outcome[p][x] = "none"
             /\ \E what \in {"pending", "failed"} : Becomes(p, x, what)

\* The other end handles it, possibly after the requester gave up.
Handle(p, x) == /\ outcome[p][x] # "none" /\ handled[p][x] = 0
                /\ handled' = [handled EXCEPT ![p][x] = 1]
                /\ UNCHANGED outcome

\* The answer arrives; the layer above takes it or ignores it.
Answer(p, x) == /\ outcome[p][x] = "pending" /\ handled[p][x] = 1
                /\ \E what \in {"answered", "ignored"} : Becomes(p, x, what)

\* No answer came.
GiveUpOn(p, x) == outcome[p][x] = "pending" /\ Becomes(p, x, "timeout")

RRNext == \E p \in Peers, x \in Xids :
            Ask(p, x) \/ Handle(p, x) \/ Answer(p, x) \/ GiveUpOn(p, x)

RRSpec == RRInit /\ [][RRNext]_rrVars

=============================================================================
