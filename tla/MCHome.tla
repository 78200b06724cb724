------------------------------- MODULE MCHome -------------------------------
(***************************************************************************)
(* For TLC: the home page (HomePage), the bar and the offer of a reminder  *)
(* around it (AppShell), and the server's daily reminder (Reminders). They *)
(* share no state, so one of them moves in a behaviour, and the others     *)
(* stay as they began.                                                     *)
(***************************************************************************)
EXTENDS HomePage, AppShell, Reminders, TLC

VARIABLE part   \* the part that moves

\* What the search finds; the others are general decks at first.
MCFound == {CHOOSE d \in Decks : TRUE}
MCMatches ==
  [q \in Queries \union {NoQuery} |-> IF q = NoQuery THEN Decks ELSE MCFound]

\* To staff the deck found is at first one of a class, which they see as general.
MCInit ==
  /\ part \in {"home", "shell", "reminders"}
  /\ HomeInit /\ ShellInit /\ RemindersInit
  /\ \A d \in Decks \ MCFound : kind[d] = "general"
  /\ viewer # "student" => \A d \in MCFound : kind[d] = "class"
  /\ part # "home" => viewer = "student" /\ kind = [d \in Decks |-> "general"]
  /\ part # "shell" => roles = [u \in Users |-> {}]
  /\ part # "reminders" => since = 0 /\ due = {}

MCNext ==
  /\ UNCHANGED part
  /\ \/ part = "home" /\ HomeNext /\ UNCHANGED <<shellVars, reminderVars>>
     \/ part = "shell" /\ ShellNext /\ UNCHANGED <<homeVars, reminderVars>>
     \/ part = "reminders" /\ RemindersNext /\ UNCHANGED <<homeVars, shellVars>>

MCSpec == MCInit /\ [][MCNext]_<<part, homeVars, shellVars, reminderVars>>

=============================================================================
