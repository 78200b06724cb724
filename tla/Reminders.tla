------------------------------ MODULE Reminders ------------------------------
(***************************************************************************)
(* The daily reminder on the server: runDailyScheduler (main.go), with the *)
(* ticker that wakes it every hour after the start of the process, and     *)
(* SendDueReminders (push.go), which sends to one subscription after the   *)
(* other, up to a limit, and forgets those whose endpoint is gone.         *)
(*                                                                         *)
(* The process may stop at any moment and start at any other, so that its  *)
(* ticks fall anywhere in the hours; what it remembers of the day is in    *)
(* memory. Time counts half hours, in days shorter than real ones.         *)
(***************************************************************************)
EXTENDS Integers, FiniteSets

CONSTANTS
  Subs,        \* rows of push_subscriptions there may be
  Limit,       \* how many of them a reminder reaches, 2000
  HoursADay, TargetHour,
  MaxClock,    \* bound: half hours
  MaxSending,  \* half hours that sending may take: 15 s a message (push/sender.go:38), Limit times
  NoTick

ASSUME RemindersAssumption ==
  /\ HoursADay \in Nat \ {0} /\ TargetHour \in 0 .. HoursADay - 1
  /\ Limit \in Nat /\ MaxClock \in Nat /\ MaxSending \in Nat /\ NoTick \notin Nat

VARIABLES
  clock,      \* half hours since some midnight
  up,         \* the process runs
  since,      \* when it started
  tick,       \* ticker.C, which holds one tick
  lastFired,  \* the day of the last firing that the process remembers
  firedAt,    \* when SendDueReminders was called last
  sending,    \* subscriptions it has still to send to
  deleting,   \* rows that its goroutines have still to delete
  subs,       \* table push_subscriptions
  dead,       \* endpoints that answer 410
  due,        \* subscriptions whose user has due cards
  reached,    \* history: how many reminders each has been sent on each day
  steady,     \* history: days whose whole target hour one process has seen
  fired       \* history: days on which SendDueReminders was called

processVars  == <<up, since, lastFired, firedAt>>
tableVars    == <<subs, dead, due>>
reminderVars == <<clock, processVars, tick, sending, deleting, tableVars, reached, steady, fired>>

Hour(t) == (t \div 2) % HoursADay
Day(t)  == t \div (2 * HoursADay)
Days    == 0 .. Day(MaxClock)
\* the first half hour of the target hour of day d
Window(d) == 2 * (d * HoursADay + TargetHour)

RemindersInit ==
  /\ clock = 0 /\ up = TRUE /\ since \in {-1, 0}
  /\ tick = NoTick /\ lastFired = -1 /\ firedAt = 0
  /\ sending = {} /\ deleting = {}
  /\ subs = Subs /\ dead = {} /\ due \in SUBSET Subs
  /\ reached = [s \in Subs |-> [d \in Days |-> 0]] /\ steady = {} /\ fired = {}

\* Mutant: the ticker ticks every half an hour.
PassTickingTwice ==
  /\ clock < MaxClock /\ (tick = NoTick \/ sending # {})
  /\ (sending # {} => clock < firedAt + MaxSending)
  /\ clock' = clock + 1
  /\ tick' = IF up /\ tick = NoTick THEN clock' ELSE tick
  /\ steady' = steady \union
       {d \in Days : clock' = Window(d) + 2 /\ up /\ since < Window(d)}
  /\ UNCHANGED <<processVars, sending, deleting, tableVars, reached, fired>>

\* Half an hour passes; a loop that waits for a tick takes it sooner. A tick that
\* finds the channel full is dropped.
Pass ==
  /\ clock < MaxClock /\ (tick = NoTick \/ sending # {})
  /\ (sending # {} => clock < firedAt + MaxSending)
  /\ clock' = clock + 1
  /\ tick' = IF up /\ (clock' - since) % 2 = 0 /\ tick = NoTick THEN clock' ELSE tick
  /\ steady' = steady \union
       {d \in Days : clock' = Window(d) + 2 /\ up /\ since < Window(d)}
  /\ UNCHANGED <<processVars, sending, deleting, tableVars, reached, fired>>

\* ListWithDueCards: at most Limit rows, in no order; none when the query fails, which
\* SendDueReminders only logs.
Listed ==
  {S \in SUBSET (subs \intersect due) :
     S = {} \/ Cardinality(S) = Limit \/ (S = subs \intersect due /\ Cardinality(S) < Limit)}

\* Mutant: the hour must have just begun.
FireOnTheHour ==
  /\ up /\ tick # NoTick /\ sending = {} /\ tick' = NoTick
  /\ IF Hour(tick) = TargetHour /\ tick % 2 = 0 /\ Day(tick) # lastFired
     THEN /\ lastFired' = Day(tick) /\ firedAt' = clock
          /\ sending' \in Listed
          /\ fired' = fired \union {Day(tick)}
     ELSE UNCHANGED <<lastFired, firedAt, sending, fired>>
  /\ UNCHANGED <<clock, up, since, deleting, tableVars, reached, steady>>

\* The loop of runDailyScheduler takes a tick; SendDueReminders reads the table.
Fire ==
  /\ up /\ tick # NoTick /\ sending = {} /\ tick' = NoTick
  /\ IF Hour(tick) = TargetHour /\ Day(tick) # lastFired
     THEN /\ lastFired' = Day(tick) /\ firedAt' = clock
          /\ sending' \in Listed
          /\ fired' = fired \union {Day(tick)}
     ELSE UNCHANGED <<lastFired, firedAt, sending, fired>>
  /\ UNCHANGED <<clock, up, since, deleting, tableVars, reached, steady>>

\* One message: sent, refused as gone, or failed (timed out included).
Send(s) ==
  /\ s \in sending /\ sending' = sending \ {s}
  /\ \/ /\ s \notin dead
        /\ reached' = [reached EXCEPT ![s][lastFired] = @ + 1]
        /\ UNCHANGED deleting
     \/ s \in dead /\ deleting' = deleting \union {s} /\ UNCHANGED reached
     \/ UNCHANGED <<reached, deleting>>
  /\ UNCHANGED <<clock, processVars, tick, tableVars, steady, fired>>

DeleteRow(s) ==
  /\ s \in deleting /\ deleting' = deleting \ {s} /\ subs' = subs \ {s}
  /\ UNCHANGED <<clock, processVars, tick, sending, dead, due, reached, steady, fired>>

Stop ==
  /\ up /\ up' = FALSE
  /\ tick' = NoTick /\ lastFired' = -1 /\ sending' = {} /\ deleting' = {}
  /\ UNCHANGED <<clock, since, firedAt, tableVars, reached, steady, fired>>

Start ==
  /\ ~up /\ up' = TRUE /\ since' = clock
  /\ UNCHANGED <<clock, tick, lastFired, firedAt, sending, deleting, tableVars, reached, steady, fired>>

\* An endpoint expires; a student studies what was due, or cards become due.
Environment(s) ==
  /\ \/ dead' = dead \union {s} /\ UNCHANGED due
     \/ due' = (due \ {s}) \union ({s} \ due) /\ UNCHANGED dead
  /\ UNCHANGED <<clock, processVars, tick, sending, deleting, subs, reached, steady, fired>>

RemindersNext ==
  \/ Pass \/ Fire \/ Stop \/ Start
  \/ \E s \in Subs : Send(s) \/ DeleteRow(s) \/ Environment(s)

RemindersSpec == RemindersInit /\ [][RemindersNext]_reminderVars

-----------------------------------------------------------------------------
RemindersTypeOK ==
  /\ clock \in 0 .. MaxClock /\ up \in BOOLEAN /\ since \in -1 .. MaxClock
  /\ tick \in 0 .. MaxClock \union {NoTick} /\ lastFired \in Days \union {-1}
  /\ firedAt \in 0 .. MaxClock /\ sending \subseteq Subs /\ deleting \subseteq Subs
  /\ subs \subseteq Subs /\ dead \subseteq Subs /\ due \subseteq Subs
  /\ reached \in [Subs -> [Days -> Nat]] /\ steady \subseteq Days /\ fired \subseteq Days

\* "fires SendDueReminders once per day" (main.go:266): nobody is reminded twice on
\* a day, though a process that stopped while sending forgets that it had fired: its
\* successor ticks only an hour after its start, when the target hour is over.
RemindedOnceADay == \A s \in Subs, d \in Days : reached[s][d] <= 1

\* SendDueReminders is called on every day of which one process saw the whole target
\* hour, wherever its ticks fall in the hour, as long as sending takes less than a
\* day: a loop that is still busy loses a tick or takes it late. 2000 messages of at
\* most 15 s are 8 h 20 min. Whom the call reaches is another matter: it may fail, and
\* past the limit the rest go without.
\* A process that starts within the hour does not see to it (main.go:268 says it
\* does): its first tick comes when the hour is over.
FiresEverySteadyDay ==
  \A d \in steady :
    d \in fired \/ tick # NoTick \/ ~up \/ since > Window(d)
==============================================================================
