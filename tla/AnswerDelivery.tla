--------------------------- MODULE AnswerDelivery ---------------------------
(***************************************************************************)
(* What the study page promises about an answer, whatever the network, the *)
(* session and the browser do: an answer that the student has seen         *)
(* accepted is either already in the database or still kept on the device. *)
(* It is at-least-once delivery: nothing here says that an answer is       *)
(* delivered only once, nor in which order.                                *)
(***************************************************************************)
CONSTANT Answers

VARIABLES
  asked,      \* answers the student has given
  kept,       \* answers stored on the device, waiting to be sent
  delivered,  \* answers folded at least once into a review on the server
  accepted    \* answers the page has confirmed to the student

vars == <<asked, kept, delivered, accepted>>

Init ==
  /\ asked = {}
  /\ kept = {}
  /\ delivered = {}
  /\ accepted = {}

Ask(a) ==
  /\ a \notin asked
  /\ asked' = asked \cup {a}
  /\ UNCHANGED <<kept, delivered, accepted>>

\* An answer is stored before it is confirmed, never after.
Keep(a) ==
  /\ a \in asked \ accepted
  /\ kept' = kept \cup {a}
  /\ UNCHANGED <<asked, delivered, accepted>>

Deliver(a) ==
  /\ a \in asked
  /\ delivered' = delivered \cup {a}
  /\ UNCHANGED <<asked, kept, accepted>>

Accept(a) ==
  /\ a \in asked
  /\ a \in kept \cup delivered
  /\ accepted' = accepted \cup {a}
  /\ UNCHANGED <<asked, kept, delivered>>

\* The device forgets an answer only once the server has it.
Forget(a) ==
  /\ a \in kept \cap delivered
  /\ kept' = kept \ {a}
  /\ UNCHANGED <<asked, delivered, accepted>>

Next ==
  \E a \in Answers : Ask(a) \/ Keep(a) \/ Deliver(a) \/ Accept(a) \/ Forget(a)

Spec == Init /\ [][Next]_vars

=============================================================================
