----------------------------- MODULE CardReview -----------------------------
(***************************************************************************)
(* The life of one row of the reviews table: what a long sequence of       *)
(* answers about one card makes of its SM-2 state. The server accepts an   *)
(* answer whenever it comes, due or not (random mode asks every card again *)
(* in every round), so nothing limits how fast the sequence grows.         *)
(***************************************************************************)
EXTENDS Scheduler

CONSTANTS
  MaxInterval,   \* bound: the longest interval from which the student answers again
  MaxStreak      \* bound: the longest streak

\* 42700 days are the longest interval from which no answer overflows a
\* time.Duration: 42700 * 2.5 = 106750.
ASSUME IntervalAssumption == MaxInterval \in Nat /\ MaxInterval <= 42700
ASSUME StreakAssumption == MaxStreak \in Nat

VARIABLE row

\* A card without a row is scheduled from streak 0, interval 1 and the initial
\* ease. Migration 004 gave the rows that existed the same interval and ease
\* and left them their streak; what else they hold, no answer reads.
RowInit ==
  \E s \in 0 .. MaxStreak :
    row = [streak |-> s, interval |-> 1, ease |-> InitialEase, last |-> "wrong", ahead |-> 1]

\* SubmitAnswer: read the row, Schedule, upsert.
SubmitAnswer(result) ==
  /\ row.interval <= MaxInterval /\ row.streak < MaxStreak
  /\ row' = Schedule(result, row.streak, row.interval, row.ease)

RowNext == \E result \in Results : SubmitAnswer(result)

RowSpec == RowInit /\ [][RowNext]_row

RowTypeOK ==
  row \in [streak : 0 .. MaxStreak, interval : 1 .. DurationDays, ease : MinEase .. MaxEase,
           last : Results, ahead : 1 .. DurationDays]

\* The two fixed intervals that open a sequence are never shorter than what they
\* replace: a streak of at most one always stands on an interval of one day
\* (study.go: "First two correct answers use fixed intervals").
BootstrapFromOneDay == row.streak <= 1 => row.interval = 1

\* An answer other than "wrong" never puts the next review closer than the last
\* interval was (study.go: "interval grows").
NoShorter == row'.last # "wrong" => row'.interval >= row.interval /\ row'.ahead >= row.interval

PassNeverShortens == [][NoShorter]_row

\* Whatever the history of the card, a worse answer never earns a later review.
WorseAnswerIsSooner ==
  LET Ahead(result) == Schedule(result, row.streak, row.interval, row.ease).ahead
  IN  row.interval <= MaxInterval =>
        Ahead("wrong") <= Ahead("hard") /\ Ahead("hard") <= Ahead("correct")

\* "mirrors service/study.go Schedule()" (offline.js:122): wherever the browser's
\* doubles have drifted, it makes of any row the server can hold what the server
\* would, but for one day where interval times ease is an exact half day.
BrowserMirrorsServer ==
  \A result \in Results, low \in BOOLEAN :
    LET server == Schedule(result, row.streak, row.interval, row.ease)
        browser == Sm2Schedule(result, row.streak, row.interval, row.ease, low)
        halfDay == result = "correct" /\ row.streak > 1 /\ (row.interval * row.ease) % 100 = 50
    IN  row.interval <= MaxInterval =>
          /\ browser.streak = server.streak /\ browser.ease = server.ease
          /\ browser.last = server.last
          /\ browser.ahead - server.ahead \in (IF halfDay THEN -1 .. 1 ELSE {0})
          /\ browser.interval = browser.ahead /\ server.interval = server.ahead

=============================================================================
