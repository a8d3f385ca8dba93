---------------------------- MODULE EventDelivery ----------------------------
(***************************************************************************)
(* What the transactional outbox promises the subscribers of the event bus, *)
(* without batches, workers, retries or crashes: an event that was          *)
(* submitted is offered to the handlers that match it, any number of times, *)
(* and it is closed only after each of them has accepted it.  A closed event *)
(* may be reopened: delivery is at least once.                              *)
(***************************************************************************)
CONSTANTS
  Events,    \* rows of the outbox
  Handlers,  \* bus subscribers
  Match      \* Match \subseteq Events \X Handlers: who subscribed to what

VARIABLES
  state,     \* state[e]: "none", "open" or "closed"
  accepted   \* pairs <<e, h>>: handler h returned nil on e

vars == <<state, accepted>>

Matching(e) == {h \in Handlers : <<e, h>> \in Match}

Init ==
  /\ state = [e \in Events |-> "none"]
  /\ accepted = {}

Submit(e) ==
  /\ state[e] = "none"
  /\ state' = [state EXCEPT ![e] = "open"]
  /\ UNCHANGED accepted

Accept(e, h) ==
  /\ state[e] # "none"
  /\ h \in Matching(e)
  /\ accepted' = accepted \cup {<<e, h>>}
  /\ UNCHANGED state

Close(e) ==
  /\ state[e] # "none"
  /\ \A h \in Matching(e) : <<e, h>> \in accepted
  /\ state' = [state EXCEPT ![e] = "closed"]
  /\ UNCHANGED accepted

Reopen(e) ==
  /\ state[e] = "closed"
  /\ state' = [state EXCEPT ![e] = "open"]
  /\ UNCHANGED accepted

Next ==
  \E e \in Events :
    \/ Submit(e)
    \/ \E h \in Handlers : Accept(e, h)
    \/ Close(e)
    \/ Reopen(e)

Spec == Init /\ [][Next]_vars
=============================================================================
