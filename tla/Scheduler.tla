------------------------------ MODULE Scheduler ------------------------------
(***************************************************************************)
(* The simplified SM-2 algorithm, twice: Schedule of the server            *)
(* (service/study.go) and sm2Schedule of the browser (offline.js), which   *)
(* claims to mirror it.                                                    *)
(*                                                                         *)
(* Times are in whole days and an ease factor is in hundredths: every      *)
(* change of it is a multiple of 0.05. Neither program computes with the   *)
(* hundredths: both multiply a double near them. On the server it is the   *)
(* one nearest to the column, NUMERIC(4,2), from which every answer reads  *)
(* it again. The browser stores the double as it comes out of the last     *)
(* answer (2.3 - 0.2 is 2.0999999999999996) and goes on from there. The    *)
(* error is some units in the last place per answer, the product has at    *)
(* most two decimals, and a new download discards it: the only thing it    *)
(* can decide is on which side of a half an exact half day falls.          *)
(***************************************************************************)
EXTENDS Integers

\* The pairs <<interval, ease>> whose product is an exact half day that the server's
\* float64 puts below the half: 30 * 2.05 is 61.49999999999999, and 61 days.
CONSTANT LowHalves

Results == {"wrong", "hard", "correct"}

\* sm2MinEF, sm2MaxEF, sm2InitialEF.
MinEase == 130
MaxEase == 250
InitialEase == 250

\* A time.Duration is an int64 of nanoseconds: 2^63 ns are 106751.99 days.
DurationDays == 106751

\* time.Duration(n) * 24 * time.Hour, in days, rounded down: it wraps modulo
\* 2^64 ns.
Days(n) == ((n + DurationDays + 1) % (2 * (DurationDays + 1))) - (DurationDays + 1)

\* Mutant: only the upper limit is enforced.
ClampEFAbove(e) == IF e > MaxEase THEN MaxEase ELSE e

ClampEF(e) == IF e < MinEase THEN MinEase ELSE IF e > MaxEase THEN MaxEase ELSE e

\* int(f + 0.5), f in hundredths.
Round(n) == (n + 50) \div 100

\* The product as a double. low: it is below the exact one, by less than a
\* hundredth; a whole hundredth stands for that, which rounds alike.
Product(interval, ease, low) == IF low THEN interval * ease - 1 ELSE interval * ease

Max1(n) == IF n < 1 THEN 1 ELSE n

\* The interval times the ease on the server, in days.
Grown(interval, ease) == Round(Product(interval, ease, <<interval, ease>> \in LowHalves))

\* Mutant: a wrong answer keeps the interval and only resets the streak.
WrongKeepsInterval(result, streak, interval, ease) ==
  CASE result = "wrong"                    -> interval
    [] result = "hard"                     -> Max1(Round(interval * 120))
    [] result = "correct" /\ streak = 0    -> 1
    [] result = "correct" /\ streak = 1    -> 6
    [] result = "correct" /\ streak \notin {0, 1} -> Max1(Grown(interval, ease))

\* Mutant: a wrong answer makes the card due the same day.
WrongIsToday(result, streak, interval, ease) ==
  CASE result = "wrong"                    -> 0
    [] result = "hard"                     -> Max1(Round(interval * 120))
    [] result = "correct" /\ streak = 0    -> 1
    [] result = "correct" /\ streak = 1    -> 6
    [] result = "correct" /\ streak \notin {0, 1} -> Max1(Grown(interval, ease))

\* Mutant: "hard" grows by a half instead of a fifth.
HardGrowsByHalf(result, streak, interval, ease) ==
  CASE result = "wrong"                    -> 1
    [] result = "hard"                     -> Max1(Round(interval * 150))
    [] result = "correct" /\ streak = 0    -> 1
    [] result = "correct" /\ streak = 1    -> 6
    [] result = "correct" /\ streak \notin {0, 1} -> Max1(Grown(interval, ease))

\* The interval, the ease and the streak that a result leads to.
NextInterval(result, streak, interval, ease) ==
  CASE result = "wrong"                    -> 1
    [] result = "hard"                     -> Max1(Round(interval * 120))
    [] result = "correct" /\ streak = 0    -> 1
    [] result = "correct" /\ streak = 1    -> 6
    [] result = "correct" /\ streak \notin {0, 1} -> Max1(Grown(interval, ease))

NextEase(result, ease) ==
  CASE result = "wrong"   -> ClampEF(ease - 20)
    [] result = "hard"    -> ClampEF(ease - 15)
    [] result = "correct" -> ClampEF(ease + 10)

\* Mutant: "hard" resets the streak, as study_test.go:27 still expects.
HardResetsStreak(result, streak) == IF result = "correct" THEN streak + 1 ELSE 0

NextStreak(result, streak) == IF result = "wrong" THEN 0 ELSE streak + 1

\* Schedule (service/study.go). ahead is NextDue - now.
Schedule(result, streak, intervalDays, easeFactor) ==
  LET ease == IF easeFactor <= 0 THEN InitialEase ELSE easeFactor
      interval == IF intervalDays <= 0 THEN 1 ELSE intervalDays
      days == NextInterval(result, streak, interval, ease)
  IN  [streak |-> NextStreak(result, streak), interval |-> days,
       ease |-> NextEase(result, ease), last |-> result, ahead |-> Days(days)]

\* Mutant: Math.floor for Math.round.
MathMax1Floor(n) == IF n \div 100 > 1 THEN n \div 100 ELSE 1

\* Math.max(1, Math.round(n)), n in hundredths.
MathMax1(n) == IF Round(n) > 1 THEN Round(n) ELSE 1

\* sm2Schedule (offline.js). low: what the earlier answers left of the ease is a
\* double below the hundredths. A Date is not a Duration: setDate does not wrap.
Sm2Schedule(result, streak, intervalDays, easeFactor, low) ==
  LET ease == IF easeFactor <= 0 THEN InitialEase ELSE easeFactor
      interval == IF intervalDays <= 0 THEN 1 ELSE intervalDays
      days == IF result = "wrong" THEN 1
              ELSE IF result = "hard" THEN MathMax1(interval * 120)
              ELSE IF streak = 0 THEN 1
              ELSE IF streak = 1 THEN 6
              ELSE MathMax1(Product(interval, ease, low))
      change == IF result = "wrong" THEN -20 ELSE IF result = "hard" THEN -15 ELSE 10
  IN  [streak |-> IF result = "wrong" THEN 0 ELSE streak + 1, interval |-> days,
       ease |-> ClampEF(ease + change), last |-> result, ahead |-> days]

=============================================================================
