-------------------------- MODULE SchedulingProofs --------------------------
(***************************************************************************)
(* Proofs about CardReview, for every bound on the streak and every bound  *)
(* on the interval up to 42700 days: after any sequence of answers the     *)
(* SM-2 state is well formed, a passed card never comes back sooner, a     *)
(* worse answer never earns a later review, and the browser's algorithm    *)
(* computes what the server's does, but for a day at an exact half. All    *)
(* of it holds however the doubles of either side fall at the halves.      *)
(*                                                                         *)
(* Proofs about StudySession, for every deck, every number of answers and  *)
(* of days: answers that arrive late make the same reviews, and what a     *)
(* session asks agrees with the answers given.                             *)
(***************************************************************************)
EXTENDS CardReview, StudySession, FiniteSetTheorems, SequenceTheorems, TLAPS

-----------------------------------------------------------------------------
(* Arithmetic.                                                             *)

LEMMA EaseInRange ==
  ASSUME NEW e \in Int
  PROVE  ClampEF(e) \in MinEase .. MaxEase
BY DEF ClampEF, MinEase, MaxEase

\* A Duration of at most 106751 days does not wrap.
LEMMA DaysExact ==
  ASSUME NEW n \in Nat, n <= DurationDays
  PROVE  Days(n) = n
<1> DEFINE m == n + 106752
<1>1. m \in Int /\ 0 <= m /\ m < 213504
  BY DEF DurationDays
<1> HIDE DEF m
<1>2. m % 213504 = m
  BY <1>1
<1>3. n + DurationDays + 1 = m /\ 2 * (DurationDays + 1) = 213504
  BY DEF DurationDays, m
<1>4. Days(n) = m - 106752
  BY <1>2, <1>3 DEF Days, DurationDays
<1> QED
  BY <1>4 DEF m

\* Multiplying by at least 1.3 does not shorten an interval of whole days, and
\* gives no less than multiplying by 1.2, however the double falls; by at most 2.5
\* does not overflow from 42700 days.
LEMMA Growth ==
  ASSUME NEW i \in Nat, 1 <= i, i <= 42700, NEW e \in MinEase .. MaxEase, NEW low \in BOOLEAN
  PROVE  LET grown == Round(Product(i, e, low))
         IN  /\ Round(i * 120) \in Int /\ grown \in Int
             /\ i <= Round(i * 120) /\ Round(i * 120) <= grown /\ grown <= DurationDays
<1>1. i * e \in Int /\ i * 130 <= i * e /\ i * e <= i * 250
  BY DEF MinEase, MaxEase
<1> DEFINE p == Product(i, e, low)
<1>2. p \in Int /\ i * 130 - 1 <= p /\ p <= i * 250
  BY <1>1 DEF Product
<1> HIDE DEF p
<1>3. /\ (i * 120 + 50) \div 100 \in Int /\ (p + 50) \div 100 \in Int
      /\ i <= (i * 120 + 50) \div 100
  BY <1>2
<1>4. (i * 120 + 50) \div 100 <= (p + 50) \div 100
  BY <1>2
<1>5. (p + 50) \div 100 <= 106751
  BY <1>2
<1> QED
  BY <1>3, <1>4, <1>5 DEF p, Round, DurationDays

LEMMA GrownBounds ==
  ASSUME NEW i \in Nat, 1 <= i, i <= 42700, NEW e \in MinEase .. MaxEase
  PROVE  /\ Round(i * 120) \in Int /\ Grown(i, e) \in Int
         /\ i <= Round(i * 120) /\ Round(i * 120) <= Grown(i, e) /\ Grown(i, e) <= DurationDays
<1> DEFINE low == <<i, e>> \in LowHalves
<1>1. low \in BOOLEAN
  OBVIOUS
<1> HIDE DEF low
<1>2. /\ Round(i * 120) \in Int /\ Round(Product(i, e, low)) \in Int
      /\ i <= Round(i * 120) /\ Round(i * 120) <= Round(Product(i, e, low))
      /\ Round(Product(i, e, low)) <= DurationDays
  BY <1>1, Growth
<1> QED
  BY <1>2 DEF Grown, low

\* Only at an exact half do two doubles of one product round to different days,
\* one apart.
LEMMA HalfApart ==
  ASSUME NEW i \in Nat, NEW e \in Nat, NEW low \in BOOLEAN
  PROVE  /\ Round(Product(i, e, low)) \in Int /\ Grown(i, e) \in Int
         /\ Round(Product(i, e, low)) - Grown(i, e)
              \in (IF (i * e) % 100 = 50 THEN -1 .. 1 ELSE {0})
<1> DEFINE p == i * e
           r == Round(Product(i, e, low))
<1>1. p \in Nat
  OBVIOUS
<1>2. r \in {(p + 50) \div 100, (p - 1 + 50) \div 100}
  BY DEF Product, Round
<1>3. Grown(i, e) \in {(p + 50) \div 100, (p - 1 + 50) \div 100}
  BY DEF Grown, Product, Round
<1> HIDE DEF p, r
<1>4. /\ (p + 50) \div 100 \in Int /\ (p - 1 + 50) \div 100 \in Int
      /\ (p + 50) \div 100 - (p - 1 + 50) \div 100 \in {0, 1}
      /\ p % 100 # 50 => (p + 50) \div 100 = (p - 1 + 50) \div 100
  BY <1>1
<1>5. r \in Int /\ Grown(i, e) \in Int
      /\ r - Grown(i, e) \in (IF p % 100 = 50 THEN -1 .. 1 ELSE {0})
  BY <1>2, <1>3, <1>4
<1> QED
  BY <1>5 DEF p, r

-----------------------------------------------------------------------------
(* One answer.                                                             *)

\* What Schedule makes of a row that is well formed.
LEMMA ScheduleFacts ==
  ASSUME NEW s \in Nat, NEW i \in Nat, 1 <= i, i <= 42700, NEW e \in MinEase .. MaxEase,
         NEW result \in Results, s <= 1 => i = 1
  PROVE  LET n == NextInterval(result, s, i, e)
             r == Schedule(result, s, i, e)
         IN  /\ n \in Nat /\ 1 <= n /\ n <= DurationDays
             /\ r = [streak |-> NextStreak(result, s), interval |-> n,
                     ease |-> NextEase(result, e), last |-> result, ahead |-> n]
             /\ NextEase(result, e) \in MinEase .. MaxEase
             /\ result # "wrong" => i <= n
             /\ NextStreak(result, s) <= 1 => n = 1
<1> DEFINE n == NextInterval(result, s, i, e)
           r == Schedule(result, s, i, e)
<1>1. /\ Round(i * 120) \in Int /\ Grown(i, e) \in Int
      /\ i <= Round(i * 120) /\ Round(i * 120) <= Grown(i, e)
      /\ Grown(i, e) <= DurationDays
  BY GrownBounds
<1>2. Max1(Round(i * 120)) = Round(i * 120) /\ Max1(Grown(i, e)) = Grown(i, e)
  BY <1>1 DEF Max1
<1>3. /\ n \in Nat /\ 1 <= n /\ n <= DurationDays
      /\ result # "wrong" => i <= n
  <2>1. DurationDays \in Nat /\ 6 <= DurationDays
    BY DEF DurationDays
  <2>2. CASE result = "wrong"
    BY <2>1, <2>2 DEF NextInterval
  <2>3. CASE result = "hard"
    <3>1. n = Round(i * 120)
      BY <1>2, <2>3 DEF NextInterval
    <3> QED
      BY <1>1, <2>1, <3>1
  <2>4. CASE result = "correct" /\ s \in {0, 1}
    BY <2>1, <2>4 DEF NextInterval
  <2>5. CASE result = "correct" /\ s \notin {0, 1}
    <3>1. n = Grown(i, e)
      BY <1>2, <2>5 DEF NextInterval
    <3> QED
      BY <1>1, <2>1, <3>1
  <2> QED
    BY <2>2, <2>3, <2>4, <2>5 DEF Results
<1>4. NextEase(result, e) \in MinEase .. MaxEase
  BY EaseInRange DEF NextEase, Results, MinEase, MaxEase
<1>5. e > 0 /\ i > 0
  BY DEF MinEase
<1>6. Days(n) = n
  BY <1>3, DaysExact
<1>7. NextStreak(result, s) <= 1 => n = 1
  <2>1. i = 1 => Round(i * 120) = 1
    BY DEF Round
  <2> QED
    BY <1>2, <2>1 DEF NextStreak, NextInterval, Results
<1>8. r = [streak |-> NextStreak(result, s), interval |-> n,
           ease |-> NextEase(result, e), last |-> result, ahead |-> n]
  BY <1>5, <1>6 DEF Schedule
<1> QED
  BY <1>3, <1>4, <1>7, <1>8

\* A worse answer gives a shorter interval.
LEMMA IntervalOrder ==
  ASSUME NEW s \in Nat, NEW i \in Nat, 1 <= i, i <= 42700, NEW e \in MinEase .. MaxEase,
         s <= 1 => i = 1
  PROVE  /\ NextInterval("wrong", s, i, e) <= NextInterval("hard", s, i, e)
         /\ NextInterval("hard", s, i, e) <= NextInterval("correct", s, i, e)
<1>1. /\ Round(i * 120) \in Int /\ Grown(i, e) \in Int
      /\ i <= Round(i * 120) /\ Round(i * 120) <= Grown(i, e)
  BY GrownBounds
<1>2. Max1(Round(i * 120)) = Round(i * 120) /\ Max1(Grown(i, e)) = Grown(i, e)
  BY <1>1 DEF Max1
<1>3. i = 1 => Round(i * 120) = 1
  BY DEF Round
<1>4. NextInterval("wrong", s, i, e) = 1 /\ NextInterval("hard", s, i, e) = Round(i * 120)
  BY <1>2 DEF NextInterval
<1>5. CASE s <= 1
  BY <1>3, <1>4, <1>5 DEF NextInterval
<1>6. CASE s > 1
  <2>1. NextInterval("correct", s, i, e) = Grown(i, e)
    BY <1>2, <1>6 DEF NextInterval
  <2> QED
    BY <1>1, <1>4, <2>1
<1> QED
  BY <1>5, <1>6

-----------------------------------------------------------------------------
(* Every reachable row.                                                    *)

\* Stronger than the properties need, weaker than what the columns allow.
RowInv == RowTypeOK /\ BootstrapFromOneDay

LEMMA RowFacts ==
  ASSUME RowTypeOK
  PROVE  /\ row.streak \in Nat /\ row.streak <= MaxStreak
         /\ row.interval \in Nat /\ 1 <= row.interval
         /\ row.ease \in MinEase .. MaxEase
         /\ MaxStreak \in Nat /\ MaxInterval \in Nat /\ MaxInterval <= 42700
BY IntervalAssumption, StreakAssumption DEF RowTypeOK

LEMMA InitRow == RowInit => RowInv
<1> SUFFICES ASSUME RowInit PROVE RowInv
  OBVIOUS
<1>1. 1 \in 1 .. DurationDays
  BY DEF DurationDays
<1> QED
  BY <1>1, StreakAssumption DEF RowInit, RowInv, RowTypeOK, BootstrapFromOneDay, Results, InitialEase, MinEase, MaxEase

LEMMA AnswerStep ==
  ASSUME RowInv, NEW result \in Results, SubmitAnswer(result)
  PROVE  RowInv' /\ NoShorter
<1> DEFINE n == NextInterval(result, row.streak, row.interval, row.ease)
<1>1. /\ row.streak \in Nat /\ row.interval \in Nat /\ 1 <= row.interval
      /\ row.interval <= 42700 /\ row.ease \in MinEase .. MaxEase
      /\ row.streak < MaxStreak /\ MaxStreak \in Nat
      /\ row.streak <= 1 => row.interval = 1
  BY RowFacts DEF RowInv, SubmitAnswer, BootstrapFromOneDay
<1>2. /\ n \in Nat /\ 1 <= n /\ n <= DurationDays
      /\ row' = [streak |-> NextStreak(result, row.streak), interval |-> n,
                 ease |-> NextEase(result, row.ease), last |-> result, ahead |-> n]
      /\ NextEase(result, row.ease) \in MinEase .. MaxEase
      /\ result # "wrong" => row.interval <= n
      /\ NextStreak(result, row.streak) <= 1 => n = 1
  BY <1>1, ScheduleFacts DEF SubmitAnswer
<1>3. NextStreak(result, row.streak) \in 0 .. MaxStreak
  BY <1>1 DEF NextStreak
<1> HIDE DEF n
<1>4. DurationDays \in Nat
  BY DEF DurationDays
<1>5. n \in 1 .. DurationDays
  BY <1>2, <1>4
<1>6. RowTypeOK'
  BY <1>2, <1>3, <1>5 DEF RowTypeOK
<1>7. BootstrapFromOneDay' /\ NoShorter
  BY <1>2 DEF BootstrapFromOneDay, NoShorter
<1> QED
  BY <1>6, <1>7 DEF RowInv

LEMMA StutterStep == RowInv /\ UNCHANGED row => RowInv'
BY DEF RowInv, RowTypeOK, BootstrapFromOneDay

LEMMA RowInvariant == RowSpec => []RowInv
<1>1. RowInv /\ [RowNext]_row => RowInv'
  BY AnswerStep, StutterStep DEF RowNext
<1> QED
  BY <1>1, InitRow, PTL DEF RowSpec

\* Ease within 1.30 and 2.50, interval at least one day, a due date ahead: after
\* any answers given while the interval is at most MaxInterval (service/study.go).
THEOREM RowTypeCorrect == RowSpec => []RowTypeOK
BY RowInvariant, PTL DEF RowInv

\* A streak of at most one stands on an interval of one day.
THEOREM Bootstrap == RowSpec => []BootstrapFromOneDay
BY RowInvariant, PTL DEF RowInv

\* A passed card never comes back sooner than its last interval.
THEOREM NeverShortens == RowSpec => PassNeverShortens
<1>1. RowInv /\ [RowNext]_row => [NoShorter]_row
  BY AnswerStep DEF RowNext
<1> QED
  BY <1>1, RowInvariant, PTL DEF RowSpec, PassNeverShortens

\* Wrong comes back no later than hard, hard no later than correct.
THEOREM WorseIsSooner == RowSpec => []WorseAnswerIsSooner
<1>1. RowInv => WorseAnswerIsSooner
  <2> SUFFICES ASSUME RowInv, row.interval <= MaxInterval
               PROVE  WorseAnswerIsSooner
    BY DEF WorseAnswerIsSooner
  <2>1. /\ row.streak \in Nat /\ row.interval \in Nat /\ 1 <= row.interval
        /\ row.interval <= 42700 /\ row.ease \in MinEase .. MaxEase
        /\ row.streak <= 1 => row.interval = 1
    BY RowFacts DEF RowInv, BootstrapFromOneDay
  <2>2. \A result \in Results :
          Schedule(result, row.streak, row.interval, row.ease).ahead
            = NextInterval(result, row.streak, row.interval, row.ease)
    BY <2>1, ScheduleFacts
  <2> QED
    BY <2>1, <2>2, IntervalOrder DEF WorseAnswerIsSooner, Results
<1> QED
  BY <1>1, RowInvariant, PTL

\* The browser gives a card the streak, the ease and the interval that the server
\* would, but for one day where interval times ease is an exact half day.
THEOREM Mirror == RowSpec => []BrowserMirrorsServer
<1>1. RowInv => BrowserMirrorsServer
  <2> SUFFICES ASSUME RowInv, NEW result \in Results, NEW low \in BOOLEAN,
                      row.interval <= MaxInterval
               PROVE  LET server == Schedule(result, row.streak, row.interval, row.ease)
                          browser == Sm2Schedule(result, row.streak, row.interval, row.ease, low)
                          halfDay == result = "correct" /\ row.streak > 1
                                       /\ (row.interval * row.ease) % 100 = 50
                      IN  /\ browser.streak = server.streak /\ browser.ease = server.ease
                          /\ browser.last = server.last
                          /\ browser.ahead - server.ahead \in (IF halfDay THEN -1 .. 1 ELSE {0})
                          /\ browser.interval = browser.ahead /\ server.interval = server.ahead
    BY DEF BrowserMirrorsServer
  <2> DEFINE s == row.streak
             i == row.interval
             e == row.ease
             n == NextInterval(result, s, i, e)
             b == Sm2Schedule(result, s, i, e, low)
             halfDay == result = "correct" /\ s > 1 /\ (i * e) % 100 = 50
  <2>1. s \in Nat /\ i \in Nat /\ 1 <= i /\ i <= 42700 /\ e \in MinEase .. MaxEase
        /\ (s <= 1 => i = 1)
    BY RowFacts DEF RowInv, BootstrapFromOneDay
  <2>2. /\ n \in Nat
        /\ Schedule(result, s, i, e) =
             [streak |-> NextStreak(result, s), interval |-> n, ease |-> NextEase(result, e),
              last |-> result, ahead |-> n]
    <3> HIDE DEF s, i, e
    <3> QED
      BY <2>1, ScheduleFacts
  <2>3. b.streak = NextStreak(result, s) /\ b.ease = NextEase(result, e) /\ b.last = result
        /\ b.interval = b.ahead /\ b.ahead \in Int
        /\ b.ahead - n \in (IF halfDay THEN -1 .. 1 ELSE {0})
    <3> HIDE DEF s, i, e
    <3>1. e \in Int /\ e > 0 /\ i > 0
      BY <2>1 DEF MinEase, MaxEase
    <3>2. /\ i <= Round(i * 120) /\ Round(i * 120) \in Int
          /\ i <= Round(Product(i, e, low)) /\ Round(Product(i, e, low)) \in Int
          /\ i <= Grown(i, e) /\ Grown(i, e) \in Int
      BY <2>1, Growth, GrownBounds
    <3>3. /\ MathMax1(i * 120) = Round(i * 120)
          /\ Max1(Round(i * 120)) = Round(i * 120)
          /\ MathMax1(Product(i, e, low)) = Round(Product(i, e, low)) /\ Max1(Grown(i, e)) = Grown(i, e)
      BY <2>1, <3>2 DEF MathMax1, Max1
    <3>4. b.streak = NextStreak(result, s) /\ b.ease = NextEase(result, e) /\ b.last = result
          /\ b.interval = b.ahead
      BY <3>1 DEF Sm2Schedule, NextStreak, NextEase, Results
    <3>5. Round(Product(i, e, low)) - Grown(i, e)
            \in (IF (i * e) % 100 = 50 THEN -1 .. 1 ELSE {0})
      BY <2>1, <3>1, HalfApart
    <3>6. CASE result = "wrong" \/ result = "hard"
      <4>1. CASE result = "wrong"
        <5>1. b.ahead = 1 /\ n = 1
          BY <2>1, <3>1, <4>1 DEF Sm2Schedule, NextInterval
        <5> HIDE DEF b, n
        <5> QED
          BY <3>4, <4>1, <5>1
      <4>2. CASE result = "hard"
        <5>1. b.ahead = MathMax1(i * 120)
          BY <2>1, <3>1, <4>2 DEF Sm2Schedule
        <5>2. n = Max1(Round(i * 120))
          BY <4>2 DEF NextInterval
        <5> HIDE DEF b, n
        <5> QED
          BY <3>2, <3>3, <3>4, <4>2, <5>1, <5>2
      <4> QED
        BY <3>6, <4>1, <4>2
    <3>7. CASE result = "correct" /\ s \in {0, 1}
      <4>1. b.ahead = n /\ n \in Int
        BY <2>2, <3>1, <3>7 DEF Sm2Schedule, NextInterval
      <4> HIDE DEF b, n
      <4> QED
        BY <3>4, <3>7, <4>1
    <3>8. CASE result = "correct" /\ s \notin {0, 1}
      <4>1. b.ahead = Round(Product(i, e, low)) /\ n = Grown(i, e)
        <5>1. b.ahead = MathMax1(Product(i, e, low))
          BY <2>1, <3>1, <3>8 DEF Sm2Schedule
        <5>2. n = Max1(Grown(i, e))
          BY <3>8 DEF NextInterval
        <5> HIDE DEF b, n
        <5> QED
          BY <3>3, <5>1, <5>2
      <4>2. s > 1
        BY <2>1, <3>8
      <4> HIDE DEF b, n
      <4> QED
        BY <3>2, <3>4, <3>5, <3>8, <4>1, <4>2
    <3> QED
      BY <3>6, <3>7, <3>8 DEF Results
  <2> HIDE DEF b, n
  <2> QED
    BY <2>2, <2>3 DEF b
<1> QED
  BY <1>1, RowInvariant, PTL

-----------------------------------------------------------------------------
(* StudySession: one answer, from any state of a card.                     *)

\* What the algorithm keeps of a card.
State == [streak : Nat, interval : Nat \ {0}, ease : MinEase .. MaxEase, last : Results]

\* A card without a row is in the state of the defaults.
Sm(reviews, c) ==
  IF c \in DOMAIN reviews
    THEN [streak |-> reviews[c].streak, interval |-> reviews[c].interval,
          ease |-> reviews[c].ease, last |-> reviews[c].last]
    ELSE [streak |-> 0, interval |-> 1, ease |-> InitialEase, last |-> "wrong"]

After(s, result) ==
  [streak |-> NextStreak(result, s.streak),
   interval |-> NextInterval(result, s.streak, s.interval, s.ease),
   ease |-> NextEase(result, s.ease), last |-> result]

\* Wrapping never puts a date later.
LEMMA DaysNoLater ==
  ASSUME NEW n \in Nat
  PROVE  Days(n) \in Int /\ Days(n) <= n
<1> DEFINE m == n + 106752
<1>1. m \in Nat /\ n = m - 106752
  OBVIOUS
<1> HIDE DEF m
<1>2. m % 213504 \in Int /\ m % 213504 <= m
  BY <1>1
<1>3. n + DurationDays + 1 = m /\ 2 * (DurationDays + 1) = 213504 /\ DurationDays + 1 = 106752
  BY <1>1 DEF DurationDays
<1>4. Days(n) = (m % 213504) - 106752
  BY <1>3 DEF Days
<1> QED
  BY <1>1, <1>2, <1>4

\* Both ways of rounding to at least one day.
LEMMA OneDayAtLeast ==
  ASSUME NEW i \in Nat, NEW e \in Nat, NEW low \in BOOLEAN
  PROVE  /\ Max1(Round(i * 120)) \in Nat \ {0} /\ Max1(Grown(i, e)) \in Nat \ {0}
         /\ MathMax1(i * 120) \in Nat \ {0} /\ MathMax1(Product(i, e, low)) \in Nat \ {0}
<1>1. Round(Product(i, e, low)) \in Int /\ Grown(i, e) \in Int
  BY HalfApart
<1>2. Round(i * 120) \in Int
  BY DEF Round
<1> QED
  BY <1>1, <1>2 DEF Max1, MathMax1

\* One answer leads from a state to a state.
LEMMA AfterType ==
  ASSUME NEW s \in State, NEW result \in Results
  PROVE  After(s, result) \in State
<1>1. s.streak \in Nat /\ s.interval \in Nat \ {0} /\ s.ease \in MinEase .. MaxEase
  BY DEF State
<1>2. s.ease \in Nat
  BY <1>1 DEF MinEase, MaxEase
<1>3. /\ Max1(Round(s.interval * 120)) \in Nat \ {0}
      /\ Max1(Grown(s.interval, s.ease)) \in Nat \ {0}
  BY <1>1, <1>2, OneDayAtLeast
<1>4. NextInterval(result, s.streak, s.interval, s.ease) \in Nat \ {0}
  BY <1>3 DEF NextInterval, Results
<1>5. NextEase(result, s.ease) \in MinEase .. MaxEase
  BY <1>2, EaseInRange DEF NextEase, Results
<1>6. NextStreak(result, s.streak) \in Nat
  BY <1>1 DEF NextStreak
<1> QED
  BY <1>4, <1>5, <1>6 DEF After, State

\* Schedule makes of a card what After says, whatever its interval.
LEMMA ServerState ==
  ASSUME NEW s \in State, NEW result \in Results
  PROVE  LET a == After(s, result)
             server == Schedule(result, s.streak, s.interval, s.ease)
         IN  /\ server.streak = a.streak /\ server.interval = a.interval
             /\ server.ease = a.ease /\ server.last = a.last
             /\ server.ahead = Days(a.interval)
<1>1. s.ease \in Int /\ s.interval \in Int /\ s.ease > 0 /\ s.interval > 0
  BY DEF State, MinEase, MaxEase
<1> QED
  BY <1>1 DEF Schedule, After

\* sm2Schedule makes the same of it, but for the interval, which is also how far
\* ahead the next review is.
LEMMA BrowserState ==
  ASSUME NEW s \in State, NEW result \in Results, NEW low \in BOOLEAN
  PROVE  LET a == After(s, result)
             browser == Sm2Schedule(result, s.streak, s.interval, s.ease, low)
         IN  /\ browser.streak = a.streak /\ browser.ease = a.ease /\ browser.last = a.last
             /\ browser.interval \in Nat \ {0} /\ browser.ahead = browser.interval
<1> DEFINE browser == Sm2Schedule(result, s.streak, s.interval, s.ease, low)
<1>1. s.ease \in Int /\ s.ease > 0 /\ s.interval \in Nat /\ s.interval > 0 /\ s.streak \in Nat
  BY DEF State, MinEase, MaxEase
<1>2. s.ease \in Nat
  BY <1>1
<1>3. /\ MathMax1(s.interval * 120) \in Nat \ {0}
      /\ MathMax1(Product(s.interval, s.ease, low)) \in Nat \ {0}
  BY <1>1, <1>2, OneDayAtLeast
<1>4. browser.interval \in Nat \ {0} /\ browser.ahead = browser.interval
  BY <1>1, <1>3 DEF Sm2Schedule
<1>5. /\ browser.streak = After(s, result).streak /\ browser.ease = After(s, result).ease
      /\ browser.last = After(s, result).last
  BY <1>1 DEF Sm2Schedule, After, NextStreak, NextEase, Results
<1> QED
  BY <1>4, <1>5

-----------------------------------------------------------------------------
(* StudySession: what one answer makes of a copy of the reviews.           *)

\* r is a copy of the reviews in which an answer about c was added to those of
\* old, which brought c to the state a, and which asks for c again ahead days
\* later.
Adds(r, old, c, a, ahead, updated) ==
  /\ DOMAIN r = DOMAIN old \cup {c}
  /\ \A x \in DOMAIN old : x # c => r[x] = old[x]
  /\ r[c] = [streak |-> a.streak, interval |-> a.interval, ease |-> a.ease, last |-> a.last,
             due |-> day + ahead, updated |-> updated]
  /\ Sm(r, c) = a
  /\ \A x : x # c => Sm(r, x) = Sm(old, x)

LEMMA PutAdds ==
  ASSUME NEW reviews, NEW c, NEW a \in State, NEW ahead, NEW updated
  PROVE  Adds(Put(reviews, c, [streak |-> a.streak, interval |-> a.interval, ease |-> a.ease,
                               last |-> a.last, due |-> day + ahead, updated |-> updated]),
              reviews, c, a, ahead, updated)
<1> DEFINE r == [streak |-> a.streak, interval |-> a.interval, ease |-> a.ease,
                 last |-> a.last, due |-> day + ahead, updated |-> updated]
           P == Put(reviews, c, r)
<1>1. /\ DOMAIN P = DOMAIN reviews \cup {c} /\ P[c] = r
      /\ \A x \in DOMAIN reviews : x # c => P[x] = reviews[x]
  BY DEF Put, Merge
<1>2. a = [streak |-> a.streak, interval |-> a.interval, ease |-> a.ease, last |-> a.last]
  BY DEF State
<1> HIDE DEF P
<1>3. Sm(P, c) = a
  BY <1>1, <1>2 DEF Sm
<1>4. ASSUME NEW x, x # c
      PROVE  Sm(P, x) = Sm(reviews, x)
  <2>1. CASE x \in DOMAIN reviews
    <3>1. x \in DOMAIN P /\ P[x] = reviews[x]
      BY <1>1, <1>4, <2>1
    <3> QED
      BY <2>1, <3>1 DEF Sm
  <2>2. CASE x \notin DOMAIN reviews
    <3>1. x \notin DOMAIN P
      BY <1>1, <1>4, <2>2
    <3> QED
      BY <2>2, <3>1 DEF Sm
  <2> QED
    BY <2>1, <2>2
<1> QED
  BY <1>1, <1>3, <1>4 DEF Adds, P

\* What the server adds.
LEMMA AnswerAdds ==
  ASSUME NEW reviews, NEW c, NEW result \in Results, Sm(reviews, c) \in State
  PROVE  LET a == After(Sm(reviews, c), result)
         IN  Adds(Scheduled(reviews, c, result), reviews, c, a, Days(a.interval), day)
<1> DEFINE a == After(Sm(reviews, c), result)
           s == Schedule(result, Sm(reviews, c).streak, Sm(reviews, c).interval,
                         Sm(reviews, c).ease)
<1>1. /\ s.streak = a.streak /\ s.interval = a.interval /\ s.ease = a.ease /\ s.last = a.last
      /\ s.ahead = Days(a.interval) /\ a \in State
  BY ServerState, AfterType
<1>2. Scheduled(reviews, c, result) =
        Put(reviews, c, [streak |-> s.streak, interval |-> s.interval, ease |-> s.ease,
                         last |-> s.last, due |-> day + s.ahead, updated |-> day])
  BY DEF Scheduled, Sm
<1> HIDE DEF a, s
<1> QED
  BY <1>1, <1>2, PutAdds DEF a

\* What the browser adds: the same, but for the interval.
LEMMA RecordAdds ==
  ASSUME NEW reviews, NEW c, NEW result \in Results, NEW low \in BOOLEAN,
         Sm(reviews, c) \in State
  PROVE  \E n \in Nat \ {0} :
           LET a == After(Sm(reviews, c), result)
           IN  Adds(Recorded(reviews, c, result, low), reviews, c, [a EXCEPT !.interval = n], n,
                    NoTime)
<1> DEFINE a == After(Sm(reviews, c), result)
           s == Sm2Schedule(result, Sm(reviews, c).streak, Sm(reviews, c).interval,
                            Sm(reviews, c).ease, low)
           n == s.interval
           b == [a EXCEPT !.interval = n]
<1>1. /\ s.streak = a.streak /\ s.ease = a.ease /\ s.last = a.last
      /\ n \in Nat \ {0} /\ s.ahead = n /\ a \in State
  BY BrowserState, AfterType
<1>2. Recorded(reviews, c, result, low) =
        Put(reviews, c, [streak |-> s.streak, interval |-> s.interval, ease |-> s.ease,
                         last |-> s.last, due |-> day + s.ahead, updated |-> NoTime])
  BY DEF Recorded, Sm
<1> HIDE DEF a, s
<1>3. /\ b \in State /\ b.streak = a.streak /\ b.interval = n /\ b.ease = a.ease
      /\ b.last = a.last
  BY <1>1 DEF State
<1>4. Recorded(reviews, c, result, low) =
        Put(reviews, c, [streak |-> b.streak, interval |-> b.interval, ease |-> b.ease,
                         last |-> b.last, due |-> day + n, updated |-> NoTime])
  BY <1>1, <1>2, <1>3
<1> HIDE DEF b
<1>5. Adds(Recorded(reviews, c, result, low), reviews, c, b, n, NoTime)
  BY <1>3, <1>4, PutAdds
<1> QED
  BY <1>1, <1>5 DEF a, b

-----------------------------------------------------------------------------
(* StudySession: what the queued answers will make of a card.              *)

Item == [card : Cards, result : Results]

\* f[n] is the state of the card c once the first n answers of q have arrived.
\* Where no answer is about c it stays as it is, over any distance.
Folds(f, q, c) ==
  /\ f \in [0 .. Len(q) -> State]
  /\ \A n \in 1 .. Len(q) :
       f[n] = IF q[n].card = c THEN After(f[n - 1], q[n].result) ELSE f[n - 1]
  /\ \A m, n \in 0 .. Len(q) :
       m <= n /\ (\A k \in (m + 1) .. n : q[k].card # c) => f[n] = f[m]

LEMMA RemoveAtForm ==
  ASSUME NEW S, NEW q \in Seq(S), NEW n \in 1 .. Len(q)
  PROVE  /\ RemoveAt(q, n) \in Seq(S)
         /\ Len(RemoveAt(q, n)) = Len(q) - 1
         /\ \A k \in 1 .. Len(q) - 1 : RemoveAt(q, n)[k] = IF k < n THEN q[k] ELSE q[k + 1]
<1> DEFINE before == SubSeq(q, 1, n - 1)
           after == SubSeq(q, n + 1, Len(q))
<1>1. Len(q) \in Nat /\ n \in Nat
  OBVIOUS
<1>2. before \in Seq(S) /\ Len(before) = n - 1 /\ \A k \in 1 .. n - 1 : before[k] = q[k]
  BY <1>1
<1>3. /\ after \in Seq(S) /\ Len(after) = Len(q) - n
      /\ \A k \in 1 .. Len(q) - n : after[k] = q[k + n]
  BY <1>1
<1>4. RemoveAt(q, n) = before \o after
  BY DEF RemoveAt
<1> HIDE DEF before, after
<1>5. before \o after \in Seq(S) /\ Len(before \o after) = Len(q) - 1
  <2>1. before \o after \in Seq(S)
    BY <1>2, <1>3
  <2>2. Len(before \o after) = Len(before) + Len(after)
    BY <1>2, <1>3, ConcatProperties
  <2> QED
    BY <1>1, <1>2, <1>3, <2>1, <2>2
<1>6. ASSUME NEW k \in 1 .. Len(q) - 1
      PROVE  (before \o after)[k] = IF k < n THEN q[k] ELSE q[k + 1]
  <2>1. CASE k < n
    <3>1. k \in 1 .. n - 1
      BY <1>1, <2>1
    <3> QED
      BY <1>1, <1>2, <1>3, <2>1, <3>1
  <2>2. CASE ~ (k < n)
    <3>1. k - (n - 1) \in 1 .. Len(q) - n /\ (k - (n - 1)) + n = k + 1
      BY <1>1, <2>2
    <3>2. (before \o after)[k] = after[k - (n - 1)]
      BY <1>1, <1>2, <1>3, <2>2
    <3> QED
      BY <1>3, <2>2, <3>1, <3>2
  <2> QED
    BY <2>1, <2>2
<1> QED
  BY <1>4, <1>5, <1>6

\* Nothing of the card waits: its state will stay as it is.
LEMMA FoldIdle ==
  ASSUME NEW q \in Seq(Item), NEW c, NEW s \in State,
         \A k \in 1 .. Len(q) : q[k].card # c
  PROVE  \E f : Folds(f, q, c) /\ f[0] = s /\ f[Len(q)] = s
<1> DEFINE f == [n \in 0 .. Len(q) |-> s]
<1>1. Len(q) \in Nat
  OBVIOUS
<1>2. f \in [0 .. Len(q) -> State] /\ \A n \in 0 .. Len(q) : f[n] = s
  OBVIOUS
<1> HIDE DEF f
<1>3. ASSUME NEW n \in 1 .. Len(q)
      PROVE  f[n] = IF q[n].card = c THEN After(f[n - 1], q[n].result) ELSE f[n - 1]
  <2>1. n \in 0 .. Len(q) /\ n - 1 \in 0 .. Len(q)
    BY <1>1
  <2> QED
    BY <1>2, <2>1
<1> QED
  BY <1>1, <1>2, <1>3 DEF Folds

\* A fold ends where it started when nothing of the card waits.
LEMMA FoldStays ==
  ASSUME NEW q \in Seq(Item), NEW c, NEW f, Folds(f, q, c),
         \A k \in 1 .. Len(q) : q[k].card # c
  PROVE  f[Len(q)] = f[0]
<1>1. Len(q) \in Nat
  OBVIOUS
<1> QED
  BY <1>1 DEF Folds

\* One more answer waits.
LEMMA FoldAppend ==
  ASSUME NEW q \in Seq(Item), NEW item \in Item, NEW c, NEW f, Folds(f, q, c)
  PROVE  \E g : /\ Folds(g, Append(q, item), c)
                /\ g[0] = f[0]
                /\ g[Len(q) + 1] = IF item.card = c THEN After(f[Len(q)], item.result)
                                   ELSE f[Len(q)]
<1> DEFINE L == Len(q)
           r == Append(q, item)
           next == IF item.card = c THEN After(f[L], item.result) ELSE f[L]
           g == [n \in 0 .. L + 1 |-> IF n = L + 1 THEN next ELSE f[n]]
<1>1. L \in Nat
  OBVIOUS
<1>2. Len(r) = L + 1 /\ r[L + 1] = item /\ \A k \in 1 .. L : r[k] = q[k]
  OBVIOUS
<1>3. f \in [0 .. L -> State] /\ f[L] \in State
  BY <1>1 DEF Folds
<1>4. next \in State
  BY <1>3, AfterType DEF Item
<1> HIDE DEF next, r
<1>5. g \in [0 .. L + 1 -> State]
  BY <1>1, <1>3, <1>4
<1>6. g[L + 1] = next /\ \A n \in 0 .. L : g[n] = f[n]
  BY <1>1
<1> HIDE DEF g, L
<1>7. ASSUME NEW n \in 1 .. L + 1
      PROVE  g[n] = IF r[n].card = c THEN After(g[n - 1], r[n].result) ELSE g[n - 1]
  <2>1. CASE n = L + 1
    <3>1. g[n - 1] = f[L]
      BY <1>1, <1>6, <2>1
    <3> QED
      BY <1>2, <1>6, <2>1, <3>1 DEF next
  <2>2. CASE n \in 1 .. L
    <3>1. g[n] = f[n] /\ g[n - 1] = f[n - 1] /\ r[n] = q[n]
      BY <1>1, <1>2, <1>6, <2>2
    <3> QED
      BY <2>2, <3>1 DEF Folds, L
  <2> QED
    BY <1>1, <2>1, <2>2
<1>8. ASSUME NEW m \in 0 .. L + 1, NEW n \in 0 .. L + 1, m <= n,
             \A k \in (m + 1) .. n : r[k].card # c
      PROVE  g[n] = g[m]
  <2>1. CASE n = L + 1 /\ m = L + 1
    BY <2>1
  <2>2. ASSUME NEW i \in 0 .. L, m <= i, i <= n
        PROVE  g[i] = g[m]
    <3>1. m \in 0 .. L /\ \A k \in (m + 1) .. i : k \in (m + 1) .. n /\ k \in 1 .. L
      BY <1>1, <2>2
    <3>2. \A k \in (m + 1) .. i : q[k].card # c
      BY <1>2, <1>8, <3>1
    <3>3. f[i] = f[m]
      BY <2>2, <3>1, <3>2 DEF Folds, L
    <3> QED
      BY <1>6, <2>2, <3>1, <3>3
  <2>3. CASE n = L + 1 /\ m # L + 1
    <3>1. g[L] = g[m]
      BY <1>1, <2>2, <2>3
    <3>2. r[n].card # c /\ g[n] = g[L]
      BY <1>1, <1>2, <1>6, <1>8, <2>3 DEF next
    <3> QED
      BY <3>1, <3>2
  <2>4. CASE n # L + 1
    <3>1. n \in 0 .. L /\ n <= n
      BY <1>1, <2>4
    <3> QED
      BY <1>8, <2>2, <3>1
  <2> QED
    BY <2>1, <2>3, <2>4
<1>9. Folds(g, r, c)
  BY <1>2, <1>5, <1>7, <1>8 DEF Folds
<1> QED
  BY <1>1, <1>6, <1>9 DEF next, r, L

\* The first answer about the card, or one about another card, arrives.
LEMMA FoldRemove ==
  ASSUME NEW q \in Seq(Item), NEW n \in 1 .. Len(q), NEW c, NEW f, Folds(f, q, c),
         q[n].card = c => \A k \in 1 .. n - 1 : q[k].card # c
  PROVE  \E g : /\ Folds(g, RemoveAt(q, n), c)
                /\ g[0] = IF q[n].card = c THEN After(f[0], q[n].result) ELSE f[0]
                /\ g[Len(q) - 1] = f[Len(q)]
<1> DEFINE L == Len(q)
           r == RemoveAt(q, n)
           g == [i \in 0 .. L - 1 |->
                   IF i < n THEN IF q[n].card = c THEN f[n] ELSE f[i] ELSE f[i + 1]]
<1>1. L \in Nat /\ n \in Nat /\ 1 <= n /\ n <= L
  OBVIOUS
<1>2. Len(r) = L - 1 /\ \A k \in 1 .. L - 1 : r[k] = IF k < n THEN q[k] ELSE q[k + 1]
  BY RemoveAtForm
<1>3. /\ \A k \in 0 .. L : f[k] \in State
      /\ \A k \in 1 .. L :
           f[k] = IF q[k].card = c THEN After(f[k - 1], q[k].result) ELSE f[k - 1]
      /\ \A i, k \in 0 .. L :
           i <= k /\ (\A x \in (i + 1) .. k : q[x].card # c) => f[k] = f[i]
  BY DEF Folds
<1> HIDE DEF r, L
<1>4. ASSUME NEW i \in 0 .. L - 1
      PROVE  /\ g[i] = IF i < n THEN IF q[n].card = c THEN f[n] ELSE f[i] ELSE f[i + 1]
             /\ g[i] \in State
  <2>1. n \in 0 .. L /\ i \in 0 .. L /\ i + 1 \in 0 .. L
    BY <1>1
  <2> QED
    BY <1>3, <2>1
<1>5. g \in [0 .. L - 1 -> State]
  BY <1>4
<1> HIDE DEF g
\* The place n is passed over: nothing happens there any more.
<1>6. g[n - 1] = f[n]
  BY <1>1, <1>3, <1>4
<1>7. ASSUME NEW i \in 1 .. L - 1
      PROVE  g[i] = IF r[i].card = c THEN After(g[i - 1], r[i].result) ELSE g[i - 1]
  <2>1. i \in 0 .. L - 1 /\ i - 1 \in 0 .. L - 1 /\ i \in 1 .. L /\ i + 1 \in 1 .. L
    BY <1>1
  <2>2. CASE i < n
    <3>1. r[i] = q[i]
      BY <1>2, <2>2
    <3>2. CASE q[n].card = c
      <4>1. q[i].card # c
        BY <1>1, <2>2, <3>2
      <4>2. g[i] = f[n] /\ g[i - 1] = f[n]
        BY <1>1, <1>4, <2>1, <2>2, <3>2
      <4> QED
        BY <3>1, <4>1, <4>2
    <3>3. CASE q[n].card # c
      <4>1. g[i] = f[i] /\ g[i - 1] = f[i - 1]
        BY <1>1, <1>4, <2>1, <2>2, <3>3
      <4> QED
        BY <1>3, <2>1, <3>1, <4>1
    <3> QED
      BY <3>2, <3>3
  <2>3. CASE ~ (i < n)
    <3>1. r[i] = q[i + 1] /\ g[i] = f[i + 1]
      BY <1>2, <1>4, <2>1, <2>3
    <3>2. g[i - 1] = f[i]
      <4>1. CASE i = n
        BY <1>6, <4>1
      <4>2. CASE i # n
        BY <1>1, <1>4, <2>1, <2>3, <4>2
      <4> QED
        BY <4>1, <4>2
    <3>3. f[i + 1] = IF q[i + 1].card = c THEN After(f[i], q[i + 1].result) ELSE f[i]
      BY <1>3, <2>1
    <3> QED
      BY <3>1, <3>2, <3>3
  <2> QED
    BY <2>2, <2>3
<1>8. ASSUME NEW i \in 0 .. L - 1, NEW j \in 0 .. L - 1, i <= j,
             \A k \in (i + 1) .. j : r[k].card # c
      PROVE  g[j] = g[i]
  <2>1. i \in 0 .. L /\ j \in 0 .. L /\ j + 1 \in 0 .. L /\ i + 1 \in 0 .. L
    BY <1>1
  <2>2. CASE j < n
    <3>1. CASE q[n].card = c
      BY <1>1, <1>4, <1>8, <2>2, <3>1
    <3>2. CASE q[n].card # c
      <4>1. \A k \in (i + 1) .. j : q[k].card # c
        BY <1>1, <1>2, <1>8, <2>2
      <4>2. f[j] = f[i]
        BY <1>3, <1>8, <2>1, <4>1
      <4> QED
        BY <1>1, <1>4, <1>8, <2>2, <3>2, <4>2
    <3> QED
      BY <3>1, <3>2
  <2>3. CASE ~ (i < n)
    <3>1. \A x \in (i + 2) .. (j + 1) : x - 1 \in (i + 1) .. j /\ x - 1 \in 1 .. L - 1
      BY <1>1, <1>8
    <3>2. \A x \in (i + 2) .. (j + 1) : q[x].card # c
      <4> SUFFICES ASSUME NEW x \in (i + 2) .. (j + 1) PROVE q[x].card # c
        OBVIOUS
      <4>1. r[x - 1] = q[(x - 1) + 1] /\ (x - 1) + 1 = x
        BY <1>1, <1>2, <2>3, <3>1
      <4> QED
        BY <1>8, <3>1, <4>1
    <3>3. i + 1 <= j + 1 /\ (i + 1) + 1 = i + 2
      BY <1>8
    <3>4. f[j + 1] = f[i + 1]
      BY <1>3, <2>1, <3>2, <3>3
    <3> QED
      BY <1>1, <1>4, <1>8, <2>3, <3>4
  <2>4. CASE i < n /\ ~ (j < n)
    <3>1. \A x \in (n + 1) .. (j + 1) : x - 1 \in (i + 1) .. j /\ x - 1 \in 1 .. L - 1
      BY <1>1, <1>8, <2>4
    <3>2. \A x \in (n + 1) .. (j + 1) : q[x].card # c
      <4> SUFFICES ASSUME NEW x \in (n + 1) .. (j + 1) PROVE q[x].card # c
        OBVIOUS
      <4>1. r[x - 1] = q[(x - 1) + 1] /\ (x - 1) + 1 = x
        BY <1>1, <1>2, <2>4, <3>1
      <4> QED
        BY <1>8, <3>1, <4>1
    <3>3. n \in 0 .. L /\ n <= j + 1
      BY <1>1, <2>4
    <3>4. g[j] = f[n]
      <4>1. f[j + 1] = f[n]
        BY <1>3, <2>1, <3>2, <3>3
      <4> QED
        BY <1>4, <2>4, <4>1
    <3>5. g[i] = f[n]
      <4>1. CASE q[n].card = c
        BY <1>4, <2>4, <4>1
      <4>2. CASE q[n].card # c
        <5>1. \A x \in (i + 1) .. n - 1 : x \in (i + 1) .. j /\ x \in 1 .. L - 1 /\ x < n
          BY <1>1, <2>4
        <5>2. \A x \in (i + 1) .. n : q[x].card # c
          BY <1>1, <1>2, <1>8, <4>2, <5>1
        <5>3. f[n] = f[i]
          BY <1>1, <1>3, <2>1, <2>4, <3>3, <5>2
        <5> QED
          BY <1>4, <2>4, <4>2, <5>3
      <4> QED
        BY <4>1, <4>2
    <3> QED
      BY <3>4, <3>5
  <2> QED
    BY <1>1, <1>8, <2>2, <2>3, <2>4
<1>9. Folds(g, r, c)
  BY <1>2, <1>5, <1>7, <1>8 DEF Folds
<1>10. g[0] = IF q[n].card = c THEN After(f[0], q[n].result) ELSE f[0]
  <2>1. CASE q[n].card = c
    <3>1. f[n] = After(f[n - 1], q[n].result)
      BY <1>1, <1>3, <2>1
    <3>2. f[n - 1] = f[0]
      BY <1>1, <1>3, <2>1
    <3> QED
      BY <1>1, <1>4, <2>1, <3>1, <3>2
  <2>2. CASE q[n].card # c
    BY <1>1, <1>4, <2>2
  <2> QED
    BY <2>1, <2>2
<1>11. g[L - 1] = f[L]
  BY <1>1, <1>4, <1>6
<1> QED
  BY <1>9, <1>10, <1>11 DEF r, L

-----------------------------------------------------------------------------
(* StudySession: the inductive invariant. LateAnswersFold says nothing of a *)
(* card of which answers still wait, so that it is not inductive: what the  *)
(* waiting answers will make of the card has to be the ideal review too.    *)

\* The answers of q make of what r says of a card what i says.
FoldFrom(q, r, i, c) ==
  \E f : Folds(f, q, c) /\ f[0] = Sm(r, c) /\ f[Len(q)] = Sm(i, c)

SessionInv == DOMAIN session = {"open", "mode", "bundle", "left"}

FoldInv == \A c \in Cards \ overtaken : FoldFrom(pending, review, ideal, c)

\* The answers given are those that arrived and those that wait; the local copy
\* knows no others.
ArrivedInv ==
  /\ \A c \in Cards : c \in DOMAIN ideal <=> c \in DOMAIN review \/ Pending(c)
  /\ DOMAIN local \subseteq DOMAIN ideal

\* No review is dated in the future, and none is due later than if it were of
\* today.
TimeInv ==
  /\ \A c \in DOMAIN ideal : /\ ideal[c].due <= day + Days(ideal[c].interval)
                             /\ ideal[c].updated \in 1 .. day
  /\ \A c \in DOMAIN review : review[c].updated \in 1 .. day

\* Arriving late only delays the next review.
LateInv ==
  \A c \in DOMAIN ideal \ overtaken :
    ~ Pending(c) => review[c].due >= ideal[c].due /\ review[c].updated >= ideal[c].updated

\* The local copy is in the ideal state, and its dates are no earlier: in the
\* browser they do not wrap.
LocalInv ==
  \A c \in Cards \ behind :
    /\ Sm(local, c) = Sm(ideal, c)
    /\ c \in DOMAIN ideal => c \in DOMAIN local /\ ideal[c].due <= local[c].due

StudyInv ==
  TypeOK /\ SessionInv /\ FoldInv /\ ArrivedInv /\ TimeInv /\ LateInv /\ LocalInv

-----------------------------------------------------------------------------
(* StudySession: consequences of the types.                                *)

LEMMA SmType ==
  ASSUME NEW reviews, IsReviews(reviews), NEW c
  PROVE  Sm(reviews, c) \in State
<1>1. CASE c \in DOMAIN reviews
  <2>1. reviews[c] \in Row
    BY <1>1 DEF IsReviews
  <2> QED
    BY <1>1, <2>1 DEF Sm, State, Row
<1>2. CASE c \notin DOMAIN reviews
  BY <1>2 DEF Sm, State, InitialEase, MinEase, MaxEase, Results
<1> QED
  BY <1>1, <1>2

LEMMA StudyTypes ==
  ASSUME TypeOK
  PROVE  /\ day \in Nat \ {0} /\ day <= MaxDay /\ given \in Nat /\ given <= MaxAnswers
         /\ MaxDay \in Nat /\ MaxAnswers \in Nat
         /\ pending \in Seq(Item) /\ DOMAIN pending = 1 .. Len(pending) /\ Len(pending) \in Nat
         /\ IsReviews(review) /\ IsReviews(local) /\ IsReviews(ideal)
         /\ \A c : Sm(review, c) \in State /\ Sm(local, c) \in State /\ Sm(ideal, c) \in State
<1>1. IsReviews(review) /\ IsReviews(local) /\ IsReviews(ideal) /\ pending \in Seq(Item)
  BY DEF TypeOK, Item
<1>2. \A c : Sm(review, c) \in State /\ Sm(local, c) \in State /\ Sm(ideal, c) \in State
  BY <1>1, SmType
<1>3. /\ day \in Nat \ {0} /\ day <= MaxDay /\ given \in Nat /\ given <= MaxAnswers
      /\ MaxDay \in Nat /\ MaxAnswers \in Nat
  BY BoundsAssumption DEF TypeOK
<1> QED
  BY <1>1, <1>2, <1>3

\* A copy to which an answer was added is one of reviews.
LEMMA AddsType ==
  ASSUME NEW r, NEW old, NEW c \in Cards, NEW a \in State, NEW ahead \in Int,
         NEW updated \in {NoTime} \cup (1 .. MaxDay),
         day \in Nat, IsReviews(old), Adds(r, old, c, a, ahead, updated)
  PROVE  IsReviews(r)
<1>1. DOMAIN r \subseteq Cards
  BY DEF Adds, IsReviews
<1>2. r[c] \in Row
  BY DEF Adds, State, Row
<1>3. ASSUME NEW x \in DOMAIN r, x # c
      PROVE  r[x] \in Row
  BY <1>3 DEF Adds, IsReviews
<1> QED
  BY <1>1, <1>2, <1>3 DEF IsReviews

\* All answers about a card have arrived, in order.
LEMMA FoldArrived ==
  ASSUME NEW q \in Seq(Item), NEW r, NEW i, NEW c, FoldFrom(q, r, i, c),
         \A k \in 1 .. Len(q) : q[k].card # c
  PROVE  Sm(r, c) = Sm(i, c)
<1>1. PICK f : Folds(f, q, c) /\ f[0] = Sm(r, c) /\ f[Len(q)] = Sm(i, c)
  BY DEF FoldFrom
<1> QED
  BY <1>1, FoldStays

-----------------------------------------------------------------------------
(* StudySession: the orders in which buildQueue may put the cards.         *)

\* An order of S is a sequence of cards in which every card of S occurs.
LEMMA OrderOf ==
  ASSUME NEW S \in SUBSET Cards, NEW s \in SetToSeqs(S)
  PROVE  s \in Seq(Cards) /\ ToSet(s) = S
<1> DEFINE D == 1 .. Cardinality(S)
<1>1. IsFiniteSet(S) /\ Cardinality(S) \in Nat
  BY CardsAssumption, FS_Subset, FS_CardinalityType
<1>2. s \in [D -> S] /\ \A i, j \in D : i # j => s[i] # s[j]
  BY DEF SetToSeqs
<1>3. s \in Seq(Cards) /\ DOMAIN s = D
  BY <1>1, <1>2
<1>4. ASSUME NEW x \in S
      PROVE  \E i \in D : s[i] = x
  <2> SUFFICES ASSUME \A i \in D : s[i] # x PROVE FALSE
    OBVIOUS
  <2>1. s \in [D -> S \ {x}]
    BY <1>2
  <2>2. IsFiniteSet(S \ {x}) /\ Cardinality(S \ {x}) = Cardinality(S) - 1
    BY <1>1, <1>4, FS_RemoveElement
  <2>3. IsFiniteSet(D) /\ Cardinality(D) = Cardinality(S)
    BY <1>1, FS_Interval
  <2>4. Cardinality(S \ {x}) < Cardinality(D)
    BY <1>1, <2>2, <2>3
  <2>5. \E i, j \in D : i # j /\ s[i] = s[j]
    <3> DEFINE T == S \ {x}
    <3>1. IsFiniteSet(D) /\ IsFiniteSet(T) /\ Cardinality(T) < Cardinality(D) /\ s \in [D -> T]
      BY <2>1, <2>2, <2>3, <2>4
    <3> HIDE DEF D, T
    <3> QED
      BY <3>1, FS_PigeonHole
  <2> QED
    BY <1>2, <2>5
<1> QED
  BY <1>2, <1>3, <1>4 DEF ToSet

\* What a session may ask, by its mode.
LEMMA QueueOf ==
  ASSUME NEW reviews, NEW mode \in Modes, NEW left \in BuildQueue(reviews, mode)
  PROVE  LET wrong == {c \in Cards : RecentlyWrong(reviews, c)}
         IN  /\ left \in Seq(Cards)
             /\ mode = "due" => \A c \in ToSet(left) : IsDue(reviews, c)
             /\ mode = "wrong" /\ wrong # {} => ToSet(left) = wrong
<1> DEFINE wrong == {c \in Cards : RecentlyWrong(reviews, c)}
           due == {c \in Cards : IsDue(reviews, c)}
<1>1. CASE mode = "random"
  BY <1>1, OrderOf DEF BuildQueue
<1>2. CASE mode = "wrong" /\ wrong # {}
  <2>1. left \in SetToSeqs(wrong)
    BY <1>2 DEF BuildQueue, SortedBy
  <2> QED
    BY <1>2, <2>1, OrderOf
<1>3. CASE ~ (mode = "random") /\ ~ (mode = "wrong" /\ wrong # {})
  <2>1. left \in SetToSeqs(due)
    BY <1>3 DEF BuildQueue, SortedBy
  <2>2. left \in Seq(Cards) /\ ToSet(left) = due
    BY <2>1, OrderOf
  <2> QED
    BY <1>3, <2>2
<1> QED
  BY <1>1, <1>2, <1>3

-----------------------------------------------------------------------------
(* StudySession: every step keeps the invariant.                           *)

LEMMA StudyInit == Init => StudyInv
<1> SUFFICES ASSUME Init PROVE StudyInv
  OBVIOUS
<1>1. /\ review = Earlier /\ ideal = Earlier /\ DOMAIN local = {} /\ behind = DOMAIN Earlier
      /\ pending = <<>> /\ Len(pending) = 0 /\ DOMAIN pending = {} /\ day = 1
  BY DEF Init
<1>2. IsReviews(review) /\ IsReviews(local) /\ IsReviews(ideal)
  BY <1>1, EarlierAssumption DEF IsReviews
<1>3. TypeOK
  <2>1. day \in 1 .. MaxDay /\ given \in 0 .. MaxAnswers
    BY BoundsAssumption DEF Init
  <2>2. pending \in Seq([card : Cards, result : Results])
    BY DEF Init
  <2>3. /\ session.open \in BOOLEAN /\ session.mode \in Modes /\ session.left \in Seq(Cards)
        /\ DOMAIN session.bundle = {}
    BY DEF Init, Closed, Modes
  <2>4. IsReviews(session.bundle)
    BY <2>3 DEF IsReviews
  <2>5. behind \subseteq Cards
    BY <1>1, EarlierAssumption DEF IsReviews
  <2> QED
    BY <1>2, <2>1, <2>2, <2>3, <2>4, <2>5 DEF Init, TypeOK
<1>4. ASSUME NEW c
      PROVE  Sm(ideal, c) = Sm(review, c) /\ Sm(review, c) \in State
  BY <1>1, <1>2, SmType
<1>5. ASSUME NEW c
      PROVE  FoldFrom(pending, review, ideal, c)
  <2>1. pending \in Seq(Item) /\ \A k \in 1 .. Len(pending) : pending[k].card # c
    BY <1>1 DEF Init
  <2>2. \E f : Folds(f, pending, c) /\ f[0] = Sm(review, c) /\ f[Len(pending)] = Sm(review, c)
    BY <1>4, <2>1, FoldIdle
  <2> QED
    BY <1>4, <2>2 DEF FoldFrom
<1>6. FoldInv
  BY <1>5 DEF FoldInv
<1>7. ArrivedInv /\ LateInv
  <2>1. \A c \in DOMAIN Earlier : Earlier[c].due \in Int /\ Earlier[c].updated \in Int
    BY EarlierAssumption DEF IsReviews, Row
  <2>2. LateInv
    BY <1>1, <2>1 DEF LateInv
  <2>3. ArrivedInv
    BY <1>1 DEF ArrivedInv, Pending
  <2> QED
    BY <2>2, <2>3
<1>8. TimeInv
  <2> SUFFICES ASSUME NEW c \in DOMAIN Earlier
               PROVE  /\ Earlier[c].due <= 1 + Days(Earlier[c].interval)
                      /\ Earlier[c].updated \in 1 .. 1
    BY <1>1 DEF TimeInv
  <2>1. Earlier[c].interval \in Nat
    BY EarlierAssumption DEF IsReviews, Row
  <2>2. Days(Earlier[c].interval) \in Int
    BY <2>1, DaysNoLater
  <2> QED
    BY <2>2, EarlierAssumption
<1>9. LocalInv
  BY <1>1 DEF LocalInv, Sm
<1>10. SessionInv
  BY DEF Init, Closed, SessionInv
<1> QED
  BY <1>3, <1>6, <1>7, <1>8, <1>10, <1>9 DEF StudyInv

\* A session that starts holds an order of cards.
LEMMA StartSession ==
  ASSUME NEW reviews, NEW mode \in Modes, IsReviews(reviews), Start(reviews, mode)
  PROVE  /\ session'.open = TRUE /\ session'.mode = mode /\ session'.bundle = reviews
         /\ session'.left \in BuildQueue(reviews, mode) /\ session'.left \in Seq(Cards)
         /\ SessionInv'
<1>1. PICK left \in BuildQueue(reviews, mode) :
        session' = [open |-> TRUE, mode |-> mode, bundle |-> reviews, left |-> left]
  BY DEF Start
<1>2. left \in Seq(Cards)
  BY QueueOf
<1> QED
  BY <1>1, <1>2 DEF SessionInv

\* A step that changes only the session.
LEMMA SessionStep ==
  ASSUME StudyInv, SessionInv',
         session'.open \in BOOLEAN, session'.mode \in Modes, IsReviews(session'.bundle),
         session'.left \in Seq(Cards),
         UNCHANGED <<day, review, local, cached, pending, given, ideal, overtaken, behind>>
  PROVE  StudyInv'
<1>1. TypeOK'
  BY DEF StudyInv, TypeOK, IsReviews
<1>2. FoldInv' /\ ArrivedInv' /\ TimeInv' /\ LateInv' /\ LocalInv'
  BY DEF StudyInv, FoldInv, FoldFrom, ArrivedInv, TimeInv, LateInv, LocalInv, Pending,
         Sm
<1> QED
  BY <1>1, <1>2 DEF StudyInv

LEMMA OpenOfflineStep ==
  ASSUME StudyInv, NEW mode \in Modes, OpenOffline(mode)
  PROVE  StudyInv'
<1>1. IsReviews(local) /\ Start(local, mode)
  BY DEF StudyInv, TypeOK, OpenOffline
<1> QED
  BY <1>1, StartSession, SessionStep DEF OpenOffline

LEMMA NextRoundStep ==
  ASSUME StudyInv, NextRound
  PROVE  StudyInv'
<1>1. IsReviews(session.bundle) /\ Start(session.bundle, "random") /\ "random" \in Modes
  BY DEF StudyInv, TypeOK, NextRound, Modes
<1> QED
  BY <1>1, StartSession, SessionStep DEF NextRound

LEMMA LeaveStep ==
  ASSUME StudyInv, Leave
  PROVE  StudyInv'
<1>1. /\ session'.open \in BOOLEAN /\ session'.mode \in Modes /\ session'.left \in Seq(Cards)
      /\ DOMAIN session'.bundle = {} /\ SessionInv'
  BY DEF Leave, Closed, Modes, SessionInv
<1>2. IsReviews(session'.bundle)
  BY <1>1 DEF IsReviews
<1> QED
  BY <1>1, <1>2, SessionStep DEF Leave

\* Saving the bundle brings the local copy to what the server knows.
LEMMA OpenOnlineStep ==
  ASSUME StudyInv, NEW mode \in Modes, OpenOnline(mode)
  PROVE  StudyInv'
<1>1. IsReviews(review) /\ IsReviews(local)
  BY DEF StudyInv, TypeOK
<1>2. /\ session'.open \in BOOLEAN /\ session'.mode \in Modes /\ IsReviews(session'.bundle)
      /\ session'.left \in Seq(Cards) /\ SessionInv'
  BY <1>1, StartSession DEF OpenOnline
<1>3. CASE UNCHANGED <<local, cached, behind>>
  <2>1. UNCHANGED <<day, review, local, cached, pending, given, ideal, overtaken, behind>>
    BY <1>3 DEF OpenOnline
  <2> QED
    BY <1>2, <2>1, SessionStep
<1>4. SUFFICES ASSUME ~ UNCHANGED <<local, cached, behind>>
               PROVE  StudyInv'
  BY <1>3
<1>5. /\ local' = Merge(local, review) /\ behind' = {c \in Cards : Pending(c) \/ c \in overtaken}
      /\ UNCHANGED <<day, review, pending, given, ideal, overtaken>> /\ cached' = TRUE
  BY <1>4 DEF OpenOnline, SaveBundle
<1>6. /\ DOMAIN local' = DOMAIN local \cup DOMAIN review
      /\ \A c \in DOMAIN review : local'[c] = review[c]
      /\ \A c \in DOMAIN local \ DOMAIN review : local'[c] = local[c]
  BY <1>5 DEF Merge
<1>7. IsReviews(local')
  BY <1>1, <1>6 DEF IsReviews
<1>8. TypeOK'
  BY <1>2, <1>5, <1>7 DEF StudyInv, TypeOK, IsReviews
<1>9. ASSUME NEW c
      PROVE  Sm(local', c) = IF c \in DOMAIN review THEN Sm(review, c) ELSE Sm(local, c)
  BY <1>6 DEF Sm
<1>10. FoldInv' /\ TimeInv' /\ LateInv'
  BY <1>5 DEF StudyInv, FoldInv, FoldFrom, TimeInv, LateInv, Pending, Sm
<1>11. ArrivedInv'
  <2>1. DOMAIN review \subseteq Cards
    BY <1>1 DEF IsReviews
  <2> QED
    BY <1>5, <1>6, <2>1 DEF StudyInv, ArrivedInv, Pending
<1>12. LocalInv'
  <2> SUFFICES ASSUME NEW c \in Cards, ~ Pending(c), c \notin overtaken
               PROVE  /\ Sm(local', c) = Sm(ideal, c)
                      /\ c \in DOMAIN ideal => c \in DOMAIN local' /\ ideal[c].due <= local'[c].due
    BY <1>5 DEF LocalInv
  <2>1. /\ pending \in Seq(Item) /\ \A k \in 1 .. Len(pending) : pending[k].card # c
        /\ FoldFrom(pending, review, ideal, c)
    BY StudyTypes DEF StudyInv, FoldInv, Pending
  <2>2. Sm(review, c) = Sm(ideal, c)
    BY <2>1, FoldArrived
  <2>3. c \in DOMAIN ideal <=> c \in DOMAIN review
    BY DEF StudyInv, ArrivedInv
  <2>4. CASE c \in DOMAIN review
    <3>1. review[c].due \in Int /\ ideal[c].due \in Int
      BY <2>3, <2>4 DEF StudyInv, TypeOK, IsReviews, Row
    <3>2. review[c].due >= ideal[c].due
      BY <2>3, <2>4 DEF StudyInv, LateInv
    <3> QED
      BY <1>6, <1>9, <2>2, <2>4, <3>1, <3>2
  <2>5. CASE c \notin DOMAIN review
    <3>1. c \notin DOMAIN local
      BY <2>3, <2>5 DEF StudyInv, ArrivedInv
    <3> QED
      BY <1>9, <2>2, <2>3, <2>5, <3>1 DEF Sm
  <2> QED
    BY <2>4, <2>5
<1> QED
  BY <1>2, <1>8, <1>10, <1>11, <1>12 DEF StudyInv

\* What giving an answer does to the ideal reviews and to the session.
LEMMA GiveFacts ==
  ASSUME StudyInv, NEW c \in Cards, NEW result \in Results, Give(c, result)
  PROVE  LET a == After(Sm(ideal, c), result)
         IN  /\ given' = given + 1 /\ given' \in 0 .. MaxAnswers
             /\ a \in State
             /\ Adds(ideal', ideal, c, a, Days(a.interval), day)
             /\ IsReviews(ideal')
             /\ session'.open \in BOOLEAN /\ session'.mode \in Modes
             /\ IsReviews(session'.bundle) /\ session'.left \in Seq(Cards) /\ SessionInv'
<1> DEFINE a == After(Sm(ideal, c), result)
<1>1. /\ given \in Nat /\ given < MaxAnswers /\ given' = given + 1 /\ MaxAnswers \in Nat
      /\ day \in Nat /\ day \in 1 .. MaxDay /\ IsReviews(ideal) /\ Sm(ideal, c) \in State
  BY StudyTypes DEF StudyInv, Give
<1>2. a \in State
  BY <1>1, AfterType
<1>3. a.interval \in Nat
  BY <1>2 DEF State
<1> HIDE DEF a
<1>4. Adds(ideal', ideal, c, a, Days(a.interval), day)
  BY <1>1, AnswerAdds DEF Give, a
<1>5. IsReviews(ideal')
  <2>1. Days(a.interval) \in Int
    BY <1>3, DaysNoLater
  <2>2. day \in {NoTime} \cup (1 .. MaxDay)
    BY <1>1
  <2> QED
    BY <1>1, <1>2, <1>4, <2>1, <2>2, AddsType DEF a
<1>6. /\ session'.open = session.open /\ session'.mode = session.mode
      /\ session'.bundle = session.bundle /\ session'.left = Tail(session.left)
      /\ DOMAIN session' = DOMAIN session
  BY DEF StudyInv, SessionInv, Give
<1>7. Tail(session.left) \in Seq(Cards)
  <2>1. session.left \in Seq(Cards) /\ session.left # <<>>
    BY DEF StudyInv, TypeOK, Give
  <2> QED
    BY <2>1
<1>8. /\ session.open \in BOOLEAN /\ session.mode \in Modes
      /\ IsReviews(session'.bundle) /\ SessionInv'
  BY <1>6 DEF StudyInv, TypeOK, SessionInv, IsReviews
<1>9. given' \in 0 .. MaxAnswers
  BY <1>1
<1> QED
  BY <1>1, <1>2, <1>4, <1>5, <1>6, <1>7, <1>8, <1>9 DEF a

\* An answer given today keeps the ideal reviews timely.
LEMMA TimelyAdd ==
  ASSUME StudyInv, NEW c \in Cards, NEW result \in Results,
         LET a == After(Sm(ideal, c), result) IN Adds(ideal', ideal, c, a, Days(a.interval), day)
  PROVE  \A x \in DOMAIN ideal' : /\ ideal'[x].due <= day + Days(ideal'[x].interval)
                                  /\ ideal'[x].updated \in 1 .. day
<1> DEFINE a == After(Sm(ideal, c), result)
<1>1. day \in Nat \ {0} /\ Sm(ideal, c) \in State
  BY StudyTypes DEF StudyInv
<1>2. a.interval \in Nat
  BY <1>1, AfterType DEF State
<1>3. Days(a.interval) \in Int
  BY <1>2, DaysNoLater
<1>4. /\ ideal'[c].due = day + Days(a.interval) /\ ideal'[c].interval = a.interval
      /\ ideal'[c].updated = day
  BY DEF Adds
<1>5. ASSUME NEW x \in DOMAIN ideal', x # c
      PROVE  x \in DOMAIN ideal /\ ideal'[x] = ideal[x]
  BY <1>5 DEF Adds
<1> HIDE DEF a
<1> QED
  BY <1>1, <1>3, <1>4, <1>5 DEF StudyInv, TimeInv

LEMMA AnswerOnlineStep ==
  ASSUME StudyInv, NEW c \in Cards, NEW result \in Results, AnswerOnline(c, result)
  PROVE  StudyInv'
<1> DEFINE a == After(Sm(review, c), result)
           i == After(Sm(ideal, c), result)
<1>1. Give(c, result)
  BY DEF AnswerOnline
<1>2. /\ review' = Scheduled(review, c, result)
      /\ overtaken' = IF Pending(c) THEN overtaken \cup {c} ELSE overtaken
      /\ behind' = behind \cup {c} /\ UNCHANGED <<day, local, cached, pending>>
  BY DEF AnswerOnline
<1>3. /\ given' = given + 1 /\ given' \in 0 .. MaxAnswers /\ i \in State
      /\ Adds(ideal', ideal, c, i, Days(i.interval), day) /\ IsReviews(ideal')
      /\ session'.open \in BOOLEAN /\ session'.mode \in Modes
      /\ IsReviews(session'.bundle) /\ session'.left \in Seq(Cards) /\ SessionInv'
  BY <1>1, GiveFacts
<1>4. /\ day \in Nat \ {0} /\ day \in 1 .. MaxDay /\ given \in Nat /\ MaxAnswers \in Nat
      /\ pending \in Seq(Item) /\ Len(pending) \in Nat /\ IsReviews(review)
      /\ DOMAIN pending = 1 .. Len(pending)
      /\ \A x : Sm(review, x) \in State /\ Sm(local, x) \in State /\ Sm(ideal, x) \in State
  BY StudyTypes DEF StudyInv
<1>5. a \in State
  BY <1>4, AfterType
<1>6. Adds(review', review, c, a, Days(a.interval), day)
  BY <1>2, <1>4, AnswerAdds
<1>7. Days(a.interval) \in Int /\ Days(i.interval) \in Int
  BY <1>3, <1>5, DaysNoLater DEF State
<1>8. TimeInv'
  <2>1. \A x \in DOMAIN ideal' : /\ ideal'[x].due <= day + Days(ideal'[x].interval)
                                 /\ ideal'[x].updated \in 1 .. day
    BY <1>3, TimelyAdd
  <2>2. \A x \in DOMAIN review' : review'[x].updated \in 1 .. day
    <3>1. review'[c].updated = day
      BY <1>6 DEF Adds
    <3>2. \A x \in DOMAIN review' : x # c => x \in DOMAIN review /\ review'[x] = review[x]
      BY <1>6 DEF Adds
    <3> QED
      BY <1>4, <3>1, <3>2 DEF StudyInv, TimeInv
  <2> QED
    BY <1>2, <2>1, <2>2 DEF TimeInv
<1> HIDE DEF a, i
<1>9. IsReviews(review')
  <2>2. day \in {NoTime} \cup (1 .. MaxDay)
    BY <1>4
  <2> QED
    BY <1>4, <1>5, <1>6, <1>7, <2>2, AddsType
<1>10. TypeOK'
  BY <1>2, <1>3, <1>9 DEF StudyInv, TypeOK, IsReviews
<1>11. /\ Sm(review', c) = a /\ Sm(ideal', c) = i
       /\ \A x : x # c => Sm(review', x) = Sm(review, x) /\ Sm(ideal', x) = Sm(ideal, x)
       /\ \A x : Sm(local', x) = Sm(local, x)
  BY <1>2, <1>3, <1>6 DEF Adds, a, i
\* Nothing older of the card waits: it is in the ideal state before and after.
<1>12. ASSUME c \notin overtaken'
       PROVE  a = i /\ \A k \in 1 .. Len(pending) : pending[k].card # c
  <2>1. ~ Pending(c) /\ c \notin overtaken
    BY <1>2, <1>12
  <2>2. \A k \in 1 .. Len(pending) : pending[k].card # c
    BY <1>4, <2>1 DEF Pending
  <2>3. FoldFrom(pending, review, ideal, c)
    BY <2>1 DEF StudyInv, FoldInv
  <2>4. Sm(review, c) = Sm(ideal, c)
    BY <1>4, <2>2, <2>3, FoldArrived
  <2> QED
    BY <2>2, <2>4 DEF a, i
<1>13. FoldInv'
  <2> SUFFICES ASSUME NEW x \in Cards \ overtaken'
               PROVE  FoldFrom(pending, review', ideal', x)
    BY <1>2 DEF FoldInv, FoldFrom
  <2>1. CASE x = c
    <3>1. \E f : Folds(f, pending, c) /\ f[0] = a /\ f[Len(pending)] = a
      BY <1>4, <1>5, <1>12, <2>1, FoldIdle
    <3> QED
      BY <1>11, <1>12, <2>1, <3>1 DEF FoldFrom
  <2>2. CASE x # c
    <3>1. x \in Cards \ overtaken
      BY <1>2
    <3>2. FoldFrom(pending, review, ideal, x)
      BY <3>1 DEF StudyInv, FoldInv
    <3> QED
      BY <1>11, <2>2, <3>2 DEF FoldFrom
  <2> QED
    BY <2>1, <2>2
<1>14. ArrivedInv'
  <2>1. DOMAIN review' = DOMAIN review \cup {c} /\ DOMAIN ideal' = DOMAIN ideal \cup {c}
    BY <1>3, <1>6 DEF Adds
  <2> QED
    BY <1>2, <2>1 DEF StudyInv, ArrivedInv, Pending
<1>15. LateInv'
  <2> SUFFICES ASSUME NEW x \in DOMAIN ideal', x \notin overtaken', ~ Pending(x)
               PROVE  /\ review'[x].due >= ideal'[x].due
                      /\ review'[x].updated >= ideal'[x].updated
    BY <1>2 DEF LateInv, Pending
  <2>1. CASE x = c
    <3>1. /\ review'[c].due = day + Days(a.interval) /\ review'[c].updated = day
          /\ ideal'[c].due = day + Days(i.interval) /\ ideal'[c].updated = day
      BY <1>3, <1>6 DEF Adds
    <3> QED
      BY <1>4, <1>7, <1>12, <2>1, <3>1
  <2>2. CASE x # c
    <3>1. x \in DOMAIN ideal /\ ideal'[x] = ideal[x] /\ x \notin overtaken
      BY <1>2, <1>3, <2>2 DEF Adds
    <3>2. x \in DOMAIN review
      BY <3>1, <1>4 DEF StudyInv, ArrivedInv, TypeOK, IsReviews
    <3>3. review'[x] = review[x]
      BY <1>6, <2>2, <3>2 DEF Adds
    <3> QED
      BY <3>1, <3>3 DEF StudyInv, LateInv
  <2> QED
    BY <2>1, <2>2
<1>16. LocalInv'
  <2> SUFFICES ASSUME NEW x \in Cards, x \notin behind, x # c
               PROVE  /\ Sm(local', x) = Sm(ideal', x)
                      /\ x \in DOMAIN ideal' =>
                           x \in DOMAIN local' /\ ideal'[x].due <= local'[x].due
    BY <1>2 DEF LocalInv
  <2>1. Sm(local, x) = Sm(ideal, x)
        /\ (x \in DOMAIN ideal => x \in DOMAIN local /\ ideal[x].due <= local[x].due)
    BY DEF StudyInv, LocalInv
  <2>2. x \in DOMAIN ideal' => x \in DOMAIN ideal /\ ideal'[x] = ideal[x]
    BY <1>3 DEF Adds
  <2> QED
    BY <1>2, <1>11, <2>1, <2>2
<1> QED
  BY <1>3, <1>8, <1>10, <1>13, <1>14, <1>15, <1>16 DEF StudyInv

LEMMA AnswerStoredStep ==
  ASSUME StudyInv, NEW c \in Cards, NEW result \in Results, AnswerStored(c, result)
  PROVE  StudyInv'
<1> DEFINE v == After(Sm(local, c), result)
           i == After(Sm(ideal, c), result)
           item == [card |-> c, result |-> result]
<1>1. Give(c, result)
  BY DEF AnswerStored
<1>2. /\ pending' = Append(pending, item) /\ UNCHANGED <<day, review, cached, overtaken>>
  BY DEF AnswerStored
<1>3. PICK low \in BOOLEAN :
        /\ local' = Recorded(local, c, result, low)
        /\ behind' = IF local'[c].interval = Scheduled(local, c, result)[c].interval
                       THEN behind ELSE behind \cup {c}
  BY DEF AnswerStored
<1>4. /\ given' = given + 1 /\ given' \in 0 .. MaxAnswers /\ i \in State
      /\ Adds(ideal', ideal, c, i, Days(i.interval), day) /\ IsReviews(ideal')
      /\ session'.open \in BOOLEAN /\ session'.mode \in Modes
      /\ IsReviews(session'.bundle) /\ session'.left \in Seq(Cards) /\ SessionInv'
  BY <1>1, GiveFacts
<1>5. /\ day \in Nat \ {0} /\ given \in Nat /\ MaxAnswers \in Nat
      /\ pending \in Seq(Item) /\ Len(pending) \in Nat /\ IsReviews(local)
      /\ DOMAIN pending = 1 .. Len(pending)
      /\ \A x : Sm(review, x) \in State /\ Sm(local, x) \in State /\ Sm(ideal, x) \in State
  BY StudyTypes DEF StudyInv
<1>6. v \in State
  BY <1>5, AfterType
<1>7. PICK n \in Nat \ {0} : Adds(local', local, c, [v EXCEPT !.interval = n], n, NoTime)
  BY <1>5, <1>3, RecordAdds
<1> DEFINE a == [v EXCEPT !.interval = n]
<1>8. a \in State /\ a.interval = n /\ Adds(local', local, c, a, a.interval, NoTime)
  <2> HIDE DEF v
  <2> QED
    BY <1>6, <1>7 DEF State
\* The local copy may be in another state only when it is behind.
<1>9. /\ behind \subseteq behind' /\ behind' \subseteq behind \cup {c}
      /\ c \notin behind' => a = v
  <2>1. Adds(Scheduled(local, c, result), local, c, v, Days(v.interval), day)
    BY <1>5, AnswerAdds
  <2> HIDE DEF v
  <2>2. Scheduled(local, c, result)[c].interval = v.interval /\ local'[c].interval = n
    BY <1>8, <2>1 DEF Adds
  <2>3. n = v.interval => a = v
    BY <1>6 DEF State
  <2> QED
    BY <1>3, <2>2, <2>3
<1>10. a.interval \in Int /\ i.interval \in Nat /\ Days(i.interval) \in Int
      /\ Days(i.interval) <= i.interval
  BY <1>4, <1>8, DaysNoLater DEF State
<1>11. item \in Item /\ pending' \in Seq(Item) /\ Len(pending') = Len(pending) + 1
      /\ pending'[Len(pending) + 1] = item
      /\ \A k \in 1 .. Len(pending) : pending'[k] = pending[k]
  <2>1. item \in Item
    BY DEF Item
  <2> HIDE DEF item
  <2> QED
    BY <1>2, <1>5, <2>1
<1>12. TimeInv'
  <2>1. \A x \in DOMAIN ideal' : /\ ideal'[x].due <= day + Days(ideal'[x].interval)
                                 /\ ideal'[x].updated \in 1 .. day
    BY <1>4, TimelyAdd
  <2> QED
    BY <1>2, <2>1 DEF StudyInv, TimeInv
<1> HIDE DEF a, i, v
<1>13. IsReviews(local')
  <2>1. NoTime \in {NoTime} \cup (1 .. MaxDay)
    OBVIOUS
  <2> QED
    BY <1>5, <1>8, <1>10, <2>1, AddsType
<1>14. TypeOK'
  BY <1>2, <1>4, <1>11, <1>13, <1>9 DEF StudyInv, TypeOK, IsReviews, Item
<1>15. /\ Sm(local', c) = a /\ Sm(ideal', c) = i
       /\ \A x : x # c => Sm(local', x) = Sm(local, x) /\ Sm(ideal', x) = Sm(ideal, x)
       /\ \A x : Sm(review', x) = Sm(review, x)
  BY <1>2, <1>4, <1>8 DEF Adds
<1>16. FoldInv'
  <2> SUFFICES ASSUME NEW x \in Cards \ overtaken
               PROVE  FoldFrom(pending', review', ideal', x)
    BY <1>2 DEF FoldInv, FoldFrom
  <2>1. PICK f : Folds(f, pending, x) /\ f[0] = Sm(review, x) /\ f[Len(pending)] = Sm(ideal, x)
    BY DEF StudyInv, FoldInv, FoldFrom
  <2>2. PICK g : /\ Folds(g, Append(pending, item), x) /\ g[0] = f[0]
                 /\ g[Len(pending) + 1] = IF item.card = x THEN After(f[Len(pending)], item.result)
                                          ELSE f[Len(pending)]
    <3> HIDE DEF item
    <3> QED
      BY <1>5, <1>11, <2>1, FoldAppend
  <2>3. g[Len(pending) + 1] = Sm(ideal', x)
    BY <1>15, <2>1, <2>2 DEF i
  <2>4. Folds(g, pending', x) /\ g[0] = Sm(review', x) /\ g[Len(pending')] = Sm(ideal', x)
    BY <1>2, <1>11, <1>15, <2>1, <2>2, <2>3
  <2> QED
    BY <2>4 DEF FoldFrom
<1>17. Pending(c)' /\ \A x : x # c => (Pending(x)' <=> Pending(x))
  <2>1. DOMAIN pending' = 1 .. Len(pending) + 1
    BY <1>11
  <2>2. Len(pending) + 1 \in DOMAIN pending' /\ pending'[Len(pending) + 1].card = c
    BY <1>5, <1>11, <2>1
  <2>3. ASSUME NEW x, x # c
        PROVE  Pending(x)' <=> Pending(x)
    <3>1. ASSUME Pending(x) PROVE Pending(x)'
      <4>1. PICK k \in 1 .. Len(pending) : pending[k].card = x
        BY <1>5, <3>1 DEF Pending
      <4>2. k \in DOMAIN pending' /\ pending'[k].card = x
        BY <1>5, <1>11, <2>1, <4>1
      <4> QED
        BY <4>2 DEF Pending
    <3>2. ASSUME Pending(x)' PROVE Pending(x)
      <4>1. PICK k \in 1 .. Len(pending) + 1 : pending'[k].card = x
        BY <2>1, <3>2 DEF Pending
      <4>2. k # Len(pending) + 1
        BY <2>2, <2>3, <4>1
      <4>3. k \in 1 .. Len(pending) /\ pending[k].card = x
        BY <1>5, <1>11, <4>1, <4>2
      <4> QED
        BY <1>5, <4>3 DEF Pending
    <3> QED
      BY <3>1, <3>2
  <2> QED
    BY <2>2, <2>3 DEF Pending
<1>18. ArrivedInv'
  <2>1. DOMAIN local' = DOMAIN local \cup {c} /\ DOMAIN ideal' = DOMAIN ideal \cup {c}
    BY <1>4, <1>8 DEF Adds
  <2> QED
    BY <1>2, <1>17, <2>1 DEF StudyInv, ArrivedInv
<1>19. LateInv'
  <2> SUFFICES ASSUME NEW x \in DOMAIN ideal', x \notin overtaken, ~ Pending(x)'
               PROVE  /\ review[x].due >= ideal'[x].due
                      /\ review[x].updated >= ideal'[x].updated
    BY <1>2 DEF LateInv
  <2>1. x # c /\ ~ Pending(x)
    BY <1>17
  <2>2. x \in DOMAIN ideal /\ ideal'[x] = ideal[x]
    BY <1>4, <2>1 DEF Adds
  <2> QED
    BY <2>1, <2>2 DEF StudyInv, LateInv
<1>20. LocalInv'
  <2> SUFFICES ASSUME NEW x \in Cards, x \notin behind'
               PROVE  /\ Sm(local', x) = Sm(ideal', x)
                      /\ x \in DOMAIN ideal' =>
                           x \in DOMAIN local' /\ ideal'[x].due <= local'[x].due
    BY DEF LocalInv
  <2>1. Sm(local, x) = Sm(ideal, x)
        /\ (x \in DOMAIN ideal => x \in DOMAIN local /\ ideal[x].due <= local[x].due)
    BY <1>9 DEF StudyInv, LocalInv
  <2>2. CASE x = c
    <3>1. a = i
      BY <1>9, <2>1, <2>2 DEF v, i
    <3>2. /\ local'[c].due = day + a.interval /\ ideal'[c].due = day + Days(i.interval)
          /\ c \in DOMAIN local'
      BY <1>4, <1>8 DEF Adds
    <3> QED
      BY <1>5, <1>10, <1>15, <2>2, <3>1, <3>2
  <2>3. CASE x # c
    <3>1. /\ x \in DOMAIN ideal' => x \in DOMAIN ideal /\ ideal'[x] = ideal[x]
          /\ x \in DOMAIN local => x \in DOMAIN local' /\ local'[x] = local[x]
      BY <1>4, <1>8, <2>3 DEF Adds
    <3> QED
      BY <1>15, <2>1, <2>3, <3>1
  <2> QED
    BY <2>2, <2>3
<1> QED
  BY <1>4, <1>12, <1>14, <1>16, <1>18, <1>19, <1>20 DEF StudyInv

LEMMA FlushItemStep ==
  ASSUME StudyInv, FlushItem
  PROVE  StudyInv'
<1>1. PICK n \in DOMAIN pending :
        /\ review' = Scheduled(review, pending[n].card, pending[n].result)
        /\ pending' = RemoveAt(pending, n)
        /\ overtaken' = IF \E m \in 1 .. n - 1 : pending[m].card = pending[n].card
                          THEN overtaken \cup {pending[n].card} ELSE overtaken
        /\ UNCHANGED <<day, local, cached, session, given, ideal, behind>>
  BY DEF FlushItem
<1> DEFINE c == pending[n].card
           result == pending[n].result
           a == After(Sm(review, c), result)
<1>2. /\ day \in Nat \ {0} /\ day \in 1 .. MaxDay /\ given \in Nat /\ given <= MaxAnswers
      /\ MaxAnswers \in Nat
      /\ pending \in Seq(Item) /\ Len(pending) \in Nat /\ IsReviews(review)
      /\ DOMAIN pending = 1 .. Len(pending) /\ n \in 1 .. Len(pending)
      /\ \A x : Sm(review, x) \in State /\ Sm(local, x) \in State /\ Sm(ideal, x) \in State
  BY StudyTypes DEF StudyInv
<1>3. c \in Cards /\ result \in Results
  <2>1. pending[n] \in Item
    BY <1>2
  <2> QED
    BY <2>1 DEF Item
<1>4. a \in State
  BY <1>2, <1>3, AfterType
<1>5. Adds(review', review, c, a, Days(a.interval), day)
  BY <1>1, <1>2, <1>3, AnswerAdds
<1>6. Days(a.interval) \in Int
  BY <1>4, DaysNoLater DEF State
<1>7. /\ pending' \in Seq(Item) /\ Len(pending') = Len(pending) - 1
      /\ DOMAIN pending' = 1 .. Len(pending) - 1
      /\ \A k \in 1 .. Len(pending) - 1 :
           pending'[k] = IF k < n THEN pending[k] ELSE pending[k + 1]
  <2> DEFINE rest == RemoveAt(pending, n)
  <2>1. /\ rest \in Seq(Item) /\ Len(rest) = Len(pending) - 1
        /\ \A k \in 1 .. Len(pending) - 1 :
             rest[k] = IF k < n THEN pending[k] ELSE pending[k + 1]
    BY <1>2, RemoveAtForm
  <2>2. pending' = rest
    BY <1>1
  <2> HIDE DEF rest
  <2> QED
    BY <2>1, <2>2
<1>8. /\ overtaken \subseteq overtaken' /\ overtaken' \subseteq overtaken \cup {c}
      /\ c \notin overtaken' => \A m \in 1 .. n - 1 : pending[m].card # c
      /\ UNCHANGED <<day, local, cached, session, given, ideal, behind>>
  BY <1>1
<1> HIDE DEF a, c, result
<1>9. IsReviews(review')
  <2>4. day \in {NoTime} \cup (1 .. MaxDay)
    BY <1>2
  <2> QED
    BY <1>2, <1>3, <1>4, <1>5, <1>6, <2>4, AddsType
<1>10. TypeOK'
  BY <1>3, <1>7, <1>8, <1>9 DEF StudyInv, TypeOK, IsReviews, Item
<1>11. /\ Sm(review', c) = a
       /\ \A x : x # c => Sm(review', x) = Sm(review, x)
       /\ \A x : Sm(ideal', x) = Sm(ideal, x) /\ Sm(local', x) = Sm(local, x)
  BY <1>5, <1>8 DEF Adds, a
<1>12. FoldInv'
  <2> SUFFICES ASSUME NEW x \in Cards \ overtaken'
               PROVE  FoldFrom(pending', review', ideal', x)
    BY <1>8 DEF FoldInv, FoldFrom
  <2>1. PICK f : Folds(f, pending, x) /\ f[0] = Sm(review, x) /\ f[Len(pending)] = Sm(ideal, x)
    BY <1>8 DEF StudyInv, FoldInv, FoldFrom
  <2>2. pending[n].card = x => \A m \in 1 .. n - 1 : pending[m].card # x
    BY <1>8 DEF c
  <2>3. PICK g : /\ Folds(g, RemoveAt(pending, n), x)
                 /\ g[0] = IF pending[n].card = x THEN After(f[0], pending[n].result) ELSE f[0]
                 /\ g[Len(pending) - 1] = f[Len(pending)]
    BY <1>2, <2>1, <2>2, FoldRemove
  <2>4. g[0] = Sm(review', x)
    BY <1>11, <2>1, <2>3 DEF a, c, result
  <2> QED
    BY <1>1, <1>7, <1>11, <2>1, <2>3, <2>4 DEF FoldFrom
\* Another card waits as it waited.
<1>13. Pending(c) /\ \A x : x # c => (Pending(x)' <=> Pending(x))
  <2>1. Pending(c)
    BY <1>2 DEF Pending, c
  <2>2. ASSUME NEW x, x # c, Pending(x)
        PROVE  Pending(x)'
    <3>1. PICK k \in 1 .. Len(pending) : pending[k].card = x
      BY <1>2, <2>2 DEF Pending
    <3>2. k # n
      BY <2>2, <3>1 DEF c
    <3>3. CASE k < n
      <4>1. k \in 1 .. Len(pending) - 1 /\ pending'[k].card = x
        BY <1>2, <1>7, <3>1, <3>3
      <4> QED
        BY <1>7, <4>1 DEF Pending
    <3>4. CASE k > n
      <4>1. k - 1 \in 1 .. Len(pending) - 1 /\ pending'[k - 1].card = x
        BY <1>2, <1>7, <3>1, <3>4
      <4> QED
        BY <1>7, <4>1 DEF Pending
    <3> QED
      BY <1>2, <3>2, <3>3, <3>4
  <2>3. ASSUME NEW x, Pending(x)'
        PROVE  Pending(x)
    <3>1. PICK k \in 1 .. Len(pending) - 1 : pending'[k].card = x
      BY <1>7, <2>3 DEF Pending
    <3>2. k \in DOMAIN pending /\ k + 1 \in DOMAIN pending
      BY <1>2, <3>1
    <3> QED
      BY <1>7, <3>1, <3>2 DEF Pending
  <2> QED
    BY <2>1, <2>2, <2>3
<1>14. DOMAIN review' = DOMAIN review \cup {c} /\ c \in DOMAIN ideal
  BY <1>3, <1>5, <1>13 DEF Adds, StudyInv, ArrivedInv
<1>15. ArrivedInv'
  BY <1>8, <1>13, <1>14 DEF StudyInv, ArrivedInv
<1>16. TimeInv'
  <2>1. \A x \in DOMAIN review' : review'[x].updated \in 1 .. day
    <3>1. review'[c].updated = day
      BY <1>5 DEF Adds
    <3>2. \A x \in DOMAIN review' : x # c => x \in DOMAIN review /\ review'[x] = review[x]
      BY <1>5 DEF Adds
    <3> QED
      BY <1>2, <3>1, <3>2 DEF StudyInv, TimeInv
  <2> QED
    BY <1>8, <2>1 DEF StudyInv, TimeInv
<1>17. LateInv'
  <2> SUFFICES ASSUME NEW x \in DOMAIN ideal, x \notin overtaken', ~ Pending(x)'
               PROVE  /\ review'[x].due >= ideal[x].due
                      /\ review'[x].updated >= ideal[x].updated
    BY <1>8 DEF LateInv
  <2>1. CASE x = c
    <3>1. FoldFrom(pending', review', ideal', c)
      BY <1>3, <1>12, <2>1 DEF FoldInv
    <3>2. \A k \in 1 .. Len(pending') : pending'[k].card # c
      BY <1>7, <2>1 DEF Pending
    <3>3. a = Sm(ideal, c)
      BY <1>7, <1>11, <3>1, <3>2, FoldArrived
    <3>4. a.interval = ideal[c].interval
      BY <1>14, <3>3 DEF Sm
    <3>5. review'[c].due = day + Days(a.interval) /\ review'[c].updated = day
      BY <1>5 DEF Adds
    <3>6. /\ ideal[c].due <= day + Days(ideal[c].interval) /\ ideal[c].updated \in 1 .. day
          /\ ideal[c].due \in Int
      BY <1>14 DEF StudyInv, TimeInv, TypeOK, IsReviews, Row
    <3> QED
      BY <1>2, <1>6, <2>1, <3>4, <3>5, <3>6
  <2>2. CASE x # c
    <3>1. x \notin overtaken /\ ~ Pending(x)
      BY <1>8, <1>13, <2>2
    <3>2. x \in DOMAIN review
      BY <3>1 DEF StudyInv, ArrivedInv, TypeOK, IsReviews
    <3>3. review'[x] = review[x]
      BY <1>5, <2>2, <3>2 DEF Adds
    <3> QED
      BY <3>1, <3>3 DEF StudyInv, LateInv
  <2> QED
    BY <2>1, <2>2
<1>18. LocalInv' /\ SessionInv'
  BY <1>8, <1>11 DEF StudyInv, LocalInv, SessionInv
<1> QED
  BY <1>10, <1>12, <1>15, <1>16, <1>17, <1>18 DEF StudyInv

LEMMA NextDayStep ==
  ASSUME StudyInv, NextDay
  PROVE  StudyInv'
<1>1. /\ day \in Nat \ {0} /\ MaxDay \in Nat /\ day < MaxDay /\ day' = day + 1
      /\ UNCHANGED <<review, local, cached, pending, session, given, ideal, overtaken, behind>>
  BY StudyTypes DEF StudyInv, NextDay
<1>2. TypeOK'
  <2>1. day' \in 1 .. MaxDay
    BY <1>1
  <2> QED
    BY <1>1, <2>1 DEF StudyInv, TypeOK, IsReviews
<1>3. TimeInv'
  <2> SUFFICES /\ \A c \in DOMAIN ideal : /\ ideal[c].due <= day + 1 + Days(ideal[c].interval)
                                          /\ ideal[c].updated \in 1 .. day + 1
               /\ \A c \in DOMAIN review : review[c].updated \in 1 .. day + 1
    BY <1>1 DEF TimeInv
  <2>1. ASSUME NEW c \in DOMAIN ideal
        PROVE  /\ ideal[c].due <= day + 1 + Days(ideal[c].interval)
               /\ ideal[c].updated \in 1 .. day + 1
    <3>1. ideal[c].due \in Int /\ ideal[c].interval \in Nat
      BY DEF StudyInv, TypeOK, IsReviews, Row
    <3>2. Days(ideal[c].interval) \in Int
      BY <3>1, DaysNoLater
    <3>3. ideal[c].due <= day + Days(ideal[c].interval) /\ ideal[c].updated \in 1 .. day
      BY DEF StudyInv, TimeInv
    <3> QED
      BY <1>1, <3>1, <3>2, <3>3
  <2>2. \A c \in DOMAIN review : review[c].updated \in 1 .. day + 1
    BY <1>1 DEF StudyInv, TimeInv
  <2> QED
    BY <2>1, <2>2
<1>4. SessionInv' /\ FoldInv' /\ ArrivedInv' /\ LateInv' /\ LocalInv'
  BY <1>1 DEF StudyInv, SessionInv, FoldInv, FoldFrom, ArrivedInv, LateInv, LocalInv,
              Pending, Sm
<1> QED
  BY <1>2, <1>3, <1>4 DEF StudyInv

LEMMA StudyStutter == StudyInv /\ UNCHANGED vars => StudyInv'
BY DEF StudyInv, vars, TypeOK, IsReviews, SessionInv, FoldInv, FoldFrom, ArrivedInv,
       TimeInv, LateInv, LocalInv, Pending, Sm

LEMMA StudyInvariant == Spec => []StudyInv
<1>1. StudyInv /\ [Next]_vars => StudyInv'
  BY OpenOnlineStep, OpenOfflineStep, LeaveStep, NextRoundStep, AnswerOnlineStep,
     AnswerStoredStep, FlushItemStep, NextDayStep, StudyStutter DEF Next
<1> QED
  BY <1>1, StudyInit, PTL DEF Spec

-----------------------------------------------------------------------------
(* StudySession: the theorems.                                             *)

\* The queue, both copies of the reviews and the open session are well formed
\* however many answers are given.
THEOREM StudyTypeCorrect == Spec => []TypeOK
<1>1. StudyInv => TypeOK
  BY DEF StudyInv
<1> QED
  BY <1>1, StudyInvariant, PTL

\* Answers that arrive late, in order, make the review that they would have made
\* when given, due no earlier: for any sequence of sessions with and without the
\* network (SubmitAnswer, flushQueue).
THEOREM LateFold == Spec => []LateAnswersFold
<1>1. StudyInv => LateAnswersFold
  <2> SUFFICES ASSUME StudyInv, NEW c \in DOMAIN ideal, c \notin overtaken, ~ Pending(c)
               PROVE  c \in DOMAIN review /\ Agrees(review[c], ideal[c])
    BY DEF LateAnswersFold
  <2>1. c \in Cards /\ pending \in Seq(Item) /\ DOMAIN pending = 1 .. Len(pending)
    BY StudyTypes DEF StudyInv, IsReviews
  <2>2. c \in DOMAIN review
    BY <2>1 DEF StudyInv, ArrivedInv
  <2>3. FoldFrom(pending, review, ideal, c) /\ \A k \in 1 .. Len(pending) : pending[k].card # c
    BY <2>1 DEF StudyInv, FoldInv, Pending
  <2>4. Sm(review, c) = Sm(ideal, c)
    BY <2>1, <2>3, FoldArrived
  <2>5. review[c].due >= ideal[c].due
    BY DEF StudyInv, LateInv
  <2> QED
    BY <2>2, <2>4, <2>5 DEF Agrees, Sm
<1> QED
  BY <1>1, StudyInvariant, PTL

\* A session that opens asks for an order of buildQueue.
LEMMA OpenedSession ==
  ASSUME StudyInv, [Next]_vars, session'.open, ~ session.open
  PROVE  session'.mode \in Modes /\ session'.left \in BuildQueue(session'.bundle, session'.mode)
<1>1. ASSUME NEW mode \in Modes, OpenOnline(mode) \/ OpenOffline(mode)
      PROVE  session'.mode \in Modes
             /\ session'.left \in BuildQueue(session'.bundle, session'.mode)
  <2>1. IsReviews(review) /\ IsReviews(local)
    BY DEF StudyInv, TypeOK
  <2>2. CASE OpenOnline(mode)
    BY <2>1, <2>2, StartSession DEF OpenOnline
  <2>3. CASE OpenOffline(mode)
    BY <2>1, <2>3, StartSession DEF OpenOffline
  <2> QED
    BY <1>1, <2>2, <2>3
<1> QED
  BY <1>1 DEF Next, Leave, NextRound, AnswerOnline, AnswerStored, Give, FlushItem, NextDay, vars

\* Without the network a student is not asked for a card just passed on this
\* device (recordAnswer, buildQueue).
THEOREM OfflineDue == Spec => OfflineOffersOnlyDue
<1> DEFINE A == session'.open /\ ~ session.open /\ session'.mode = "due"
                  /\ session'.bundle = local =>
                    \A c \in ToSet(session'.left) \ behind : IsDue(ideal, c)
<1>1. StudyInv /\ [Next]_vars => A
  <2> SUFFICES ASSUME StudyInv, [Next]_vars, session'.open, ~ session.open,
                      session'.mode = "due", session'.bundle = local,
                      NEW c \in ToSet(session'.left), c \notin behind, c \in DOMAIN ideal
               PROVE  ideal[c].due <= day
    BY DEF IsDue
  <2>1. session'.left \in BuildQueue(local, "due") /\ "due" \in Modes
    BY OpenedSession
  <2>2. session'.left \in Seq(Cards) /\ IsDue(local, c)
    BY <2>1, QueueOf
  <2>3. c \in DOMAIN local /\ ideal[c].due <= local[c].due
    BY DEF StudyInv, LocalInv, TypeOK, IsReviews
  <2>4. local[c].due <= day
    BY <2>2, <2>3 DEF IsDue
  <2>5. local[c].due \in Int /\ ideal[c].due \in Int /\ day \in Int
    BY <2>3, StudyTypes DEF StudyInv, IsReviews, Row
  <2> QED
    BY <2>3, <2>4, <2>5
<1> QED
  BY <1>1, StudyInvariant, PTL DEF Spec, OfflineOffersOnlyDue

\* With the network, the mode for wrong answers asks for all of this week's
\* (buildQueue over the bundle of handleSession).
THEOREM OnlineWrong == Spec => OnlineOffersWrong
<1> DEFINE A == session'.open /\ ~ session.open /\ session'.mode = "wrong"
                  /\ session'.bundle = review =>
                    {c \in WrongThisWeek \ overtaken : ~ Pending(c)} \subseteq ToSet(session'.left)
<1>1. StudyInv /\ [Next]_vars => A
  <2> SUFFICES ASSUME StudyInv, [Next]_vars, session'.open, ~ session.open,
                      session'.mode = "wrong", session'.bundle = review,
                      NEW c \in WrongThisWeek, c \notin overtaken, ~ Pending(c)
               PROVE  c \in ToSet(session'.left)
    OBVIOUS
  <2>1. session'.left \in BuildQueue(review, "wrong") /\ "wrong" \in Modes
    BY OpenedSession
  <2>2. /\ c \in DOMAIN ideal /\ ideal[c].last = "wrong"
        /\ day - ideal[c].updated < RecentDays
    BY DEF WrongThisWeek
  <2>3. c \in Cards /\ pending \in Seq(Item) /\ DOMAIN pending = 1 .. Len(pending) /\ day \in Int
    BY <2>2, StudyTypes DEF StudyInv, IsReviews
  <2>4. c \in DOMAIN review
    BY <2>2, <2>3 DEF StudyInv, ArrivedInv
  <2>5. Sm(review, c) = Sm(ideal, c)
    <3>1. FoldFrom(pending, review, ideal, c) /\ \A k \in 1 .. Len(pending) : pending[k].card # c
      BY <2>3 DEF StudyInv, FoldInv, Pending
    <3> QED
      BY <2>3, <3>1, FoldArrived
  <2>6. review[c].last = "wrong"
    BY <2>2, <2>4, <2>5 DEF Sm
  <2>7. /\ review[c].updated >= ideal[c].updated /\ review[c].updated \in 1 .. day
        /\ ideal[c].updated \in 1 .. day
    BY <2>2, <2>4 DEF StudyInv, LateInv, TimeInv
  <2>8. RecentlyWrong(review, c)
    BY <2>2, <2>3, <2>4, <2>6, <2>7 DEF RecentlyWrong, NoTime, RecentDays
  <2> QED
    BY <2>1, <2>3, <2>8, QueueOf
<1> QED
  BY <1>1, StudyInvariant, PTL DEF Spec, OnlineOffersWrong

=============================================================================
