------------------------ MODULE PromptLearningProofs ------------------------
(***************************************************************************)
(* What the learning tables hold, for any markets, answers of the model,   *)
(* windows, horizons and numbers of runs, whatever statement has no effect *)
(* and wherever a run is broken off.                                       *)
(*                                                                         *)
(* Every row is what an operator gave for the candles up to some day.  The *)
(* candles of a day never change and days only follow each other, so the   *)
(* argument is about operators: what they say of an initial segment of the *)
(* candles they say of all of them, once there are enough.                 *)
(***************************************************************************)
EXTENDS PromptLearning, OrderLemmas

\* What the assumptions say of the constants.
LEMMA Constants ==
  /\ IsFiniteSet(Tickers)
  /\ MaxExitDays \in Nat \ {0} /\ Lookback \in Nat \ {0} /\ Horizon \in Nat \ {0}
  /\ FiveDays \in Nat \ {0} /\ FiveDays <= Horizon
  /\ ExperimentDays \in Nat /\ MinSample \in Nat \ {0}
  /\ VerdictAfter \in Nat /\ GiveUpAfter \in Nat
  /\ MaxRuns \in Nat /\ MaxRerun \in Nat /\ MaxDay \in Nat /\ LastSignal \in Nat
BY ExitAssumption, AttributionAssumption, ExperimentsAssumption, MemoryAssumption, WorldAssumption
DEF ExitAssumption, AttributionAssumption, ExperimentsAssumption, MemoryAssumption, WorldAssumption

-----------------------------------------------------------------------------
(* The first days of a set, and its n-th *)

\* The first days of a set are those with fewer than n days before them.
LEMMA FirstDaysAreRanked ==
  ASSUME NEW S, NEW n
  PROVE  FirstDays(S, n) = {d \in S : Rank(S, d) < n}
BY DEF FirstDays, Rank, Earlier

\* They are an initial segment of it, whatever the set.
LEMMA FirstDaysSegment ==
  ASSUME NEW S \in SUBSET Nat, NEW n \in Nat
  PROVE  Initial(FirstDays(S, n), S)
<1> SUFFICES ASSUME NEW a \in FirstDays(S, n), NEW b \in S, b < a PROVE b \in FirstDays(S, n)
  BY FirstDaysAreRanked DEF Initial
<1>1. a \in S /\ Rank(S, a) < n
  BY FirstDaysAreRanked
<1>2. a \in Nat /\ Rank(S, a) \in Nat /\ Rank(S, b) \in Nat
  BY <1>1, RankType
<1>3. Rank(S, b) < Rank(S, a)
  BY <1>2, RankGrows
<1> QED
  BY <1>1, <1>2, <1>3, FirstDaysAreRanked

\* There are no more than n of them, and one if there is a day at all.
LEMMA FirstDaysSize ==
  ASSUME NEW S \in SUBSET Nat, NEW n \in Nat, NEW top \in Nat, \A d \in S : d <= top
  PROVE  /\ IsFiniteSet(FirstDays(S, n)) /\ Cardinality(FirstDays(S, n)) \in 0 .. n
         /\ S # {} /\ n > 0 => FirstDays(S, n) # {}
<1> DEFINE F == FirstDays(S, n)
<1>1. F \in SUBSET Nat /\ F \subseteq S /\ \A d \in F : d <= top /\ Rank(S, d) < n
  BY FirstDaysAreRanked
<1>2. IsFiniteSet(F) /\ Cardinality(F) \in Nat
  BY <1>1, FS_BoundedSetOfNaturals, FS_CardinalityType
<1>3. F = {} => Cardinality(F) = 0
  BY FS_EmptySet
<1>4. F # {} => Cardinality(F) <= n
  <2> SUFFICES ASSUME F # {} PROVE Cardinality(F) <= n
    OBVIOUS
  <2>1. PICK last \in F : \A d \in F : d <= last
    BY <1>1, GreatestNatural
  <2>2. last \in Nat /\ last \in S /\ Rank(S, last) < n /\ Rank(S, last) \in Nat
        /\ IsFiniteSet(Earlier(S, last))
    BY <1>1, RankType
  <2>3. \A d \in F \ {last} : d \in S /\ d < last
    BY <1>1, <2>1, <2>2
  <2>4. F \ {last} \subseteq Earlier(S, last)
    BY <2>3 DEF Earlier
  <2>5. Cardinality(F \ {last}) <= Rank(S, last)
    BY <2>2, <2>4, FS_Subset DEF Rank
  <2>6. Cardinality(F \ {last}) = Cardinality(F) - 1
    BY <1>2, FS_RemoveElement
  <2> QED
    BY <1>2, <2>2, <2>5, <2>6
<1>5. ASSUME S # {}, n > 0 PROVE F # {}
  <2>1. PICK d \in S : \A e \in S : d <= e
    BY <1>5, LeastNatural
  <2>2. \A e \in S : ~(e < d)
    BY <2>1
  <2>3. Earlier(S, d) = {}
    BY <2>2 DEF Earlier
  <2>4. Rank(S, d) = 0
    BY <2>3, FS_EmptySet DEF Rank
  <2> QED
    BY <1>5, <2>4, FirstDaysAreRanked
<1> QED
  BY <1>2, <1>3, <1>4, <1>5

\* More days after the others do not change which are the first.
LEMMA FirstDaysInitial ==
  ASSUME NEW A \in SUBSET Nat, NEW B \in SUBSET Nat, Initial(A, B), NEW n \in Nat
  PROVE  Initial(FirstDays(A, n), FirstDays(B, n))
<1>1. \A a \in A : a \in B /\ Rank(A, a) = Rank(B, a)
  BY RankInitial DEF Initial
<1>2. FirstDays(A, n) \subseteq FirstDays(B, n)
  BY <1>1, FirstDaysAreRanked
<1> SUFFICES ASSUME NEW a \in FirstDays(A, n), NEW b \in FirstDays(B, n), b < a
             PROVE  b \in FirstDays(A, n)
  BY <1>2 DEF Initial
<1>3. a \in A /\ b \in B /\ Rank(B, b) < n
  BY FirstDaysAreRanked
<1>4. b \in A
  BY <1>3 DEF Initial
<1> QED
  BY <1>1, <1>3, <1>4, FirstDaysAreRanked

\* Nor do they change the n-th.
LEMMA NthInitial ==
  ASSUME NEW A \in SUBSET Nat, NEW B \in SUBSET Nat, Initial(A, B),
         NEW top \in Nat, \A d \in A : d <= top,
         NEW n \in Nat \ {0}, n <= Cardinality(A)
  PROVE  Nth(A, n) = Nth(B, n) /\ Nth(A, n) \in A
<1>1. Cardinality(A) \in Nat
  BY FS_BoundedSetOfNaturals, FS_CardinalityType
<1>2. PICK d \in A : Rank(A, d) = n - 1
  BY <1>1, RankTaken
<1>3. d \in B /\ Rank(B, d) = n - 1
  BY <1>2, RankInitial DEF Initial
<1>4. \A e \in A : Rank(A, e) = n - 1 => e = d
  BY <1>2, RankInjective
<1>5. \A e \in B : Rank(B, e) = n - 1 => e = d
  BY <1>3, RankInjective
<1>6. Nth(A, n) = CHOOSE e \in A : Rank(A, e) = n - 1
  BY DEF Nth, Rank, Earlier
<1>7. Nth(B, n) = CHOOSE e \in B : Rank(B, e) = n - 1
  BY DEF Nth, Rank, Earlier
<1>8. Nth(A, n) = d
  BY <1>2, <1>4, <1>6
<1>9. Nth(B, n) = d
  BY <1>3, <1>5, <1>7
<1> QED
  BY <1>8, <1>9

-----------------------------------------------------------------------------
(* The replay *)

Stops(bars, l, d) == bars[d].low <= l.stop
Reaches(bars, l, d) == Target2(l) > 0 /\ bars[d].high >= Target2(l)
Touches1(bars, l, d) == bars[d].high >= l.t1

BarsOK(bars) == DOMAIN bars \subseteq Nat /\ \A d \in DOMAIN bars : CandleOK(bars[d])
LevelsOK(l) == {"low", "high", "stop", "t1"} \subseteq DOMAIN l /\ LevelsTyped(l)

\* r is the result of the sessions D: nothing ended the trade, or the first
\* session that did.
IsReplay(bars, l, D, r) ==
  /\ r = [type |-> r.type, price |-> r.price, day |-> r.day, t1Hit |-> r.t1Hit]
  /\ r.type \in {"time", "stop", "target_2"} /\ r.t1Hit \in BOOLEAN
  /\ r.type = "time" =>
       /\ r.price = 0 /\ r.day = 0
       /\ \A d \in D : ~Stops(bars, l, d) /\ ~Reaches(bars, l, d)
       /\ r.t1Hit <=> \E d \in D : Touches1(bars, l, d)
  /\ r.type # "time" =>
       /\ r.day \in D
       /\ \A d \in D : d < r.day => ~Stops(bars, l, d) /\ ~Reaches(bars, l, d)
       /\ r.type = "stop" => Stops(bars, l, r.day) /\ r.price = l.stop
       /\ r.type = "target_2" =>
            ~Stops(bars, l, r.day) /\ Reaches(bars, l, r.day) /\ r.price = Target2(l)
       /\ r.t1Hit <=> \E d \in D : d <= r.day /\ Touches1(bars, l, d)

\* One more session, after the others.
LEMMA SessionReplays ==
  ASSUME NEW bars, NEW l, NEW D \in SUBSET Nat, NEW d \in Nat, \A e \in D : e < d,
         NEW r, IsReplay(bars, l, D, r)
  PROVE  IsReplay(bars, l, D \cup {d}, ReplaySession(bars, l, r, d))
<1>0. \A e \in D : e \in Nat /\ e < d /\ ~(d < e) /\ e # d
  OBVIOUS
<1> DEFINE reached == r.t1Hit \/ bars[d].high >= l.t1
<1>1. CASE r.type # "time"
  <2>1. ReplaySession(bars, l, r, d) = r
    BY <1>1 DEF ReplaySession
  <2>2. r.day \in D /\ r.day < d /\ ~(d < r.day) /\ ~(d <= r.day)
    BY <1>0, <1>1 DEF IsReplay
  <2> QED
    BY <1>1, <2>1, <2>2 DEF IsReplay
<1>2. CASE r.type = "time" /\ Stops(bars, l, d)
  <2>1. ReplaySession(bars, l, r, d) = [type |-> "stop", price |-> l.stop, day |-> d, t1Hit |-> reached]
    BY <1>2 DEF ReplaySession, Stops
  <2>2. \A e \in D \cup {d} : e <= d
    BY <1>0
  <2>3. reached <=> \E e \in D \cup {d} : Touches1(bars, l, e)
    BY <1>2 DEF IsReplay, Touches1
  <2>4. reached \in BOOLEAN
    BY DEF IsReplay
  <2>5. \A e \in D : ~Stops(bars, l, e) /\ ~Reaches(bars, l, e)
    BY <1>2 DEF IsReplay
  <2>6. \A e \in D \cup {d} : e < d => e \in D
    OBVIOUS
  <2> HIDE DEF reached
  <2> QED
    BY <1>2, <2>1, <2>2, <2>3, <2>4, <2>5, <2>6 DEF IsReplay
<1>3. CASE r.type = "time" /\ ~Stops(bars, l, d) /\ Reaches(bars, l, d)
  <2>1. ReplaySession(bars, l, r, d) =
          [type |-> "target_2", price |-> Target2(l), day |-> d, t1Hit |-> reached]
    BY <1>3 DEF ReplaySession, Stops, Reaches
  <2>2. \A e \in D \cup {d} : e <= d
    BY <1>0
  <2>3. reached <=> \E e \in D \cup {d} : Touches1(bars, l, e)
    BY <1>3 DEF IsReplay, Touches1
  <2>4. reached \in BOOLEAN
    BY DEF IsReplay
  <2>5. \A e \in D : ~Stops(bars, l, e) /\ ~Reaches(bars, l, e)
    BY <1>3 DEF IsReplay
  <2>6. \A e \in D \cup {d} : e < d => e \in D
    OBVIOUS
  <2> HIDE DEF reached
  <2> QED
    BY <1>3, <2>1, <2>2, <2>3, <2>4, <2>5, <2>6 DEF IsReplay
<1>4. CASE r.type = "time" /\ ~Stops(bars, l, d) /\ ~Reaches(bars, l, d)
  <2>1. ReplaySession(bars, l, r, d) = [r EXCEPT !.t1Hit = reached]
    BY <1>4 DEF ReplaySession, Stops, Reaches
  <2>2. ReplaySession(bars, l, r, d) =
          [type |-> "time", price |-> 0, day |-> 0, t1Hit |-> reached]
    BY <1>4, <2>1 DEF IsReplay
  <2>3. reached <=> \E e \in D \cup {d} : Touches1(bars, l, e)
    BY <1>4 DEF IsReplay, Touches1
  <2>4. reached \in BOOLEAN
    BY DEF IsReplay
  <2>5. \A e \in D \cup {d} : ~Stops(bars, l, e) /\ ~Reaches(bars, l, e)
    BY <1>4 DEF IsReplay
  <2> HIDE DEF reached
  <2> QED
    BY <2>2, <2>3, <2>4, <2>5 DEF IsReplay
<1> QED
  BY <1>1, <1>2, <1>3, <1>4 DEF IsReplay

\* The recursion of the replay has a solution: if it had none up to some number of
\* days, the least such number would extend the solution before it.
ReplayStep(bars, entryDate, l, f, n) ==
  IF n = 0 THEN [type |-> "time", price |-> 0, day |-> 0, t1Hit |-> FALSE]
  ELSE LET d == entryDate + n - 1
       IN  IF d \in Sessions(bars, entryDate) THEN ReplaySession(bars, l, f[n - 1], d) ELSE f[n - 1]

\* The recursive definition of the replay has the value it describes.
LEMMA ReplayDefined ==
  ASSUME NEW bars, NEW entryDate \in Nat, NEW l
  PROVE  Replay(bars, entryDate, l) =
           [n \in 0 .. 2 * MaxExitDays + 1 |->
              ReplayStep(bars, entryDate, l, Replay(bars, entryDate, l), n)]
<1> DEFINE Solves(f, N) == f = [n \in 0 .. N |-> ReplayStep(bars, entryDate, l, f, n)]
           Unsolved == {N \in Nat : ~ \E f : Solves(f, N)}
<1>1. Unsolved = {}
  <2> SUFFICES ASSUME Unsolved # {} PROVE FALSE
    OBVIOUS
  <2>1. PICK N \in Unsolved : \A m \in Unsolved : N <= m
    BY LeastNatural
  <2>2. CASE N = 0
    <3> DEFINE f == [n \in 0 .. 0 |-> [type |-> "time", price |-> 0, day |-> 0, t1Hit |-> FALSE]]
    <3>1. Solves(f, 0)
      BY DEF ReplayStep
    <3> QED
      BY <2>2, <3>1
  <2>3. CASE N # 0
    <3>1. N - 1 \in Nat /\ N - 1 \notin Unsolved
      BY <2>1, <2>3
    <3>2. PICK g : Solves(g, N - 1)
      BY <3>1
    <3> DEFINE f == [n \in 0 .. N |-> IF n = N THEN ReplayStep(bars, entryDate, l, g, N) ELSE g[n]]
    <3>3. ASSUME NEW n \in 0 .. N PROVE f[n] = ReplayStep(bars, entryDate, l, f, n)
      <4>1. n # 0 => f[n - 1] = g[n - 1]
        BY <2>3
      <4>2. ReplayStep(bars, entryDate, l, f, n) = ReplayStep(bars, entryDate, l, g, n)
        BY <4>1 DEF ReplayStep
      <4>3. n # N => g[n] = ReplayStep(bars, entryDate, l, g, n)
        BY <3>2
      <4> QED
        BY <4>2, <4>3
    <3>4. Solves(f, N)
      BY <3>3
    <3> QED
      BY <3>4
  <2> QED
    BY <2>2, <2>3
<1>2. 2 * MaxExitDays + 1 \in Nat
  BY Constants
<1>3. \E f : Solves(f, 2 * MaxExitDays + 1)
  BY <1>1, <1>2
<1>4. Replay(bars, entryDate, l) = CHOOSE f : Solves(f, 2 * MaxExitDays + 1)
  BY DEF Replay, ReplayStep
<1> QED
  BY <1>3, <1>4

\* The sessions a replay looks at are the first with a candle from the entry on.
LEMMA SessionsSegment ==
  ASSUME NEW bars, DOMAIN bars \subseteq Nat, NEW entryDate \in Nat
  PROVE  /\ Sessions(bars, entryDate) \in SUBSET Nat
         /\ Initial(Sessions(bars, entryDate), {d \in DOMAIN bars : d >= entryDate})
         /\ \A d \in Sessions(bars, entryDate) : d \in DOMAIN bars /\ d >= entryDate
<1> DEFINE S == {d \in DOMAIN bars : d >= entryDate}
<1>1. S \in SUBSET Nat
  OBVIOUS
<1>2. Sessions(bars, entryDate) = FirstDays(S, MaxExitDays)
  BY DEF Sessions
<1>3. Initial(FirstDays(S, MaxExitDays), S)
  BY <1>1, Constants, FirstDaysSegment
<1>4. FirstDays(S, MaxExitDays) \subseteq S
  BY <1>3 DEF Initial
<1> QED
  BY <1>1, <1>2, <1>3, <1>4

\* Day by day, the replay is that of the sessions so far.
LEMMA ReplayIsReplay ==
  ASSUME NEW bars, NEW entryDate \in Nat, NEW l, DOMAIN bars \subseteq Nat,
         \A d \in DOMAIN bars : d <= entryDate + 2 * MaxExitDays
  PROVE  IsReplay(bars, l, Sessions(bars, entryDate),
                  Replay(bars, entryDate, l)[2 * MaxExitDays + 1])
<1> DEFINE S == Sessions(bars, entryDate)
           N == 2 * MaxExitDays + 1
           After == Replay(bars, entryDate, l)
           Seen(n) == {d \in S : d < entryDate + n}
           Failing == {n \in 0 .. N : ~ IsReplay(bars, l, Seen(n), After[n])}
<1>1. \A d \in S : d \in Nat /\ d >= entryDate /\ d < entryDate + N
  <2> SUFFICES ASSUME NEW d \in S PROVE d \in Nat /\ d >= entryDate /\ d < entryDate + N
    OBVIOUS
  <2>1. d \in DOMAIN bars /\ d >= entryDate
    BY SessionsSegment
  <2>2. d \in Nat /\ d <= entryDate + 2 * MaxExitDays
    BY <2>1
  <2> QED
    BY <2>1, <2>2, Constants
<1>2. \A n \in 0 .. N : After[n] = ReplayStep(bars, entryDate, l, After, n)
  <2>1. After = [n \in 0 .. N |-> ReplayStep(bars, entryDate, l, After, n)]
    BY ReplayDefined
  <2> HIDE DEF After, N
  <2> QED
    BY <2>1
<1>3. N \in Nat
  BY Constants
<1> HIDE DEF S, After, N
<1>4. Failing = {}
  <2> SUFFICES ASSUME Failing # {} PROVE FALSE
    OBVIOUS
  <2>1. Failing \in SUBSET Nat
    BY <1>3
  <2>2. PICK n \in Failing : \A m \in Failing : n <= m
    BY <2>1, LeastNatural
  <2>3. CASE n = 0
    <3>1. Seen(0) = {}
      <4>1. \A d \in S : ~(d < entryDate + 0)
        BY <1>1
      <4> QED
        BY <4>1
    <3>2. After[0] = [type |-> "time", price |-> 0, day |-> 0, t1Hit |-> FALSE]
      BY <1>2, <1>3 DEF ReplayStep
    <3>3. IsReplay(bars, l, {}, After[0])
      BY <3>2 DEF IsReplay
    <3> QED
      BY <2>2, <2>3, <3>1, <3>3
  <2>4. CASE n # 0
    <3>1. n - 1 \in 0 .. N /\ n \in 0 .. N /\ n \in Nat
      BY <1>3, <2>4
    <3>2. IsReplay(bars, l, Seen(n - 1), After[n - 1])
      <4>1. n - 1 \notin Failing
        <5> HIDE DEF Failing
        <5> SUFFICES ASSUME n - 1 \in Failing PROVE FALSE
          OBVIOUS
        <5>1. n <= n - 1
          BY <2>2
        <5> QED
          BY <3>1, <5>1
      <4> QED
        BY <3>1, <4>1
    <3> DEFINE d == entryDate + n - 1
    <3>3. d \in Nat
      BY <3>1, <2>4
    <3>4. CASE d \in S
      <4>1. After[n] = ReplaySession(bars, l, After[n - 1], d)
        BY <1>2, <2>4, <3>1, <3>4 DEF ReplayStep, S
      <4>2. \A e \in Seen(n - 1) : e < d
        BY <3>1, <1>1
      <4>3. Seen(n) = Seen(n - 1) \cup {d}
        <5>1. \A e \in S : e < entryDate + n <=> e < entryDate + (n - 1) \/ e = d
          BY <1>1, <3>1
        <5> QED
          BY <3>4, <5>1
      <4>4. Seen(n - 1) \in SUBSET Nat
        BY <1>1
      <4> HIDE DEF Seen, d
      <4>5. IsReplay(bars, l, Seen(n), After[n])
        BY <3>2, <3>3, <4>1, <4>2, <4>3, <4>4, SessionReplays
      <4> QED
        BY <2>2, <4>5
    <3>5. CASE d \notin S
      <4>1. After[n] = After[n - 1]
        BY <1>2, <2>4, <3>1, <3>5 DEF ReplayStep, S
      <4>2. \A e \in S : e # d
        BY <3>5
      <4>3. Seen(n) = Seen(n - 1)
        <5>1. \A e \in S : e < entryDate + n <=> e < entryDate + (n - 1)
          BY <1>1, <3>1, <4>2
        <5> QED
          BY <5>1
      <4> QED
        BY <2>2, <3>2, <4>1, <4>3
    <3> QED
      BY <3>4, <3>5
  <2> QED
    BY <2>3, <2>4
<1>5. N \in 0 .. N /\ Seen(N) = S
  <2>1. \A d \in S : d < entryDate + N
    BY <1>1
  <2> QED
    BY <1>3, <2>1
<1>6. IsReplay(bars, l, S, After[N])
  BY <1>4, <1>5
<1> QED
  BY <1>6 DEF S, After, N

-----------------------------------------------------------------------------
(* The exit *)

\* x is the exit of a trade with the sessions S.
IsExit(bars, l, S, x) ==
  /\ x = [type |-> x.type, price |-> x.price, day |-> x.day, t1Hit |-> x.t1Hit, rr |-> x.rr]
  /\ x.type \in {"time", "stop", "target_2"} /\ x.t1Hit \in BOOLEAN
  /\ S = {} => x.type = "time" /\ x.price = 0 /\ x.day = 0 /\ ~x.t1Hit
  /\ S # {} =>
       /\ x.day \in S
       /\ \A d \in S : d < x.day => ~Stops(bars, l, d) /\ ~Reaches(bars, l, d)
       /\ x.type = "stop" <=> Stops(bars, l, x.day)
       /\ x.type = "target_2" <=> Reaches(bars, l, x.day) /\ ~Stops(bars, l, x.day)
       /\ x.type = "time" => \A d \in S : d <= x.day
       /\ x.t1Hit <=> \E d \in S : d <= x.day /\ Touches1(bars, l, d)
       /\ x.price = CASE x.type = "stop" -> l.stop [] x.type = "target_2" -> Target2(l)
                      [] x.type = "time" -> ExitClose(bars[x.day])
       /\ x.rr = ActualRR(l, x.price)

\* The replay ends at the first session that hits a level, or at the last.
LEMMA ReplayExits ==
  ASSUME NEW bars, NEW entryDate \in Nat, NEW l, DOMAIN bars \subseteq Nat,
         \A d \in DOMAIN bars : d <= entryDate + 2 * MaxExitDays
  PROVE  IsExit(bars, l, Sessions(bars, entryDate), ReplayExitSequence(bars, entryDate, l))
<1> DEFINE S == Sessions(bars, entryDate)
           r == Replay(bars, entryDate, l)[2 * MaxExitDays + 1]
           x == ReplayExitSequence(bars, entryDate, l)
           last == Max(S)
           timedOut == r.type = "time" /\ S # {}
           price == IF timedOut THEN ExitClose(bars[last]) ELSE r.price
           day == IF timedOut THEN last ELSE r.day
           rr == IF S = {} THEN <<0, 1>> ELSE ActualRR(l, price)
<1>1. IsReplay(bars, l, S, r)
  BY ReplayIsReplay
<1>2. x = [type |-> r.type, price |-> price, day |-> day, t1Hit |-> r.t1Hit, rr |-> rr]
  BY DEF ReplayExitSequence
<1>3. S \in SUBSET Nat /\ \A d \in S : d <= entryDate + 2 * MaxExitDays
  BY SessionsSegment
<1>4. S # {} => last \in S /\ \A d \in S : d <= last
  <2> SUFFICES ASSUME S # {} PROVE last \in S /\ \A d \in S : d <= last
    OBVIOUS
  <2>1. entryDate + 2 * MaxExitDays \in Nat
    BY Constants
  <2>2. PICK d \in S : \A e \in S : e <= d
    BY <1>3, <2>1, GreatestNatural
  <2>3. last = CHOOSE e \in S : \A m \in S : e >= m
    BY DEF Max
  <2>4. \A e \in S : d >= e
    BY <1>3, <2>2
  <2>5. last \in S /\ \A m \in S : last >= m
    BY <2>3, <2>4
  <2> QED
    BY <1>3, <2>5
<1>5. \A d \in S : d \in Nat
  BY <1>3
<1> HIDE DEF S, r, x, last
<1>6. CASE S = {}
  <2>1. r.type = "time"
    BY <1>1, <1>6 DEF IsReplay
  <2>2. r.price = 0 /\ r.day = 0 /\ r.t1Hit \in BOOLEAN /\ ~r.t1Hit
    BY <1>1, <1>6, <2>1 DEF IsReplay
  <2> QED
    BY <1>2, <1>6, <2>1, <2>2 DEF IsExit, S, x
<1>7. CASE S # {} /\ r.type = "time"
  <2>1. x = [type |-> "time", price |-> ExitClose(bars[last]), day |-> last, t1Hit |-> r.t1Hit,
             rr |-> ActualRR(l, ExitClose(bars[last]))]
    BY <1>2, <1>7
  <2>2. /\ \A d \in S : ~Stops(bars, l, d) /\ ~Reaches(bars, l, d)
        /\ r.t1Hit \in BOOLEAN
        /\ r.t1Hit <=> \E d \in S : Touches1(bars, l, d)
    BY <1>1, <1>7 DEF IsReplay
  <2>3. IsExit(bars, l, S, x)
    BY <1>4, <1>7, <2>1, <2>2 DEF IsExit
  <2> QED
    BY <2>3 DEF S, x
<1>8. CASE S # {} /\ r.type # "time"
  <2>1. x = [type |-> r.type, price |-> r.price, day |-> r.day, t1Hit |-> r.t1Hit,
             rr |-> ActualRR(l, r.price)]
    BY <1>2, <1>8
  <2>2. IsExit(bars, l, S, x)
    BY <1>1, <1>8, <2>1 DEF IsReplay, IsExit
  <2> QED
    BY <2>2 DEF S, x
<1> QED
  BY <1>6, <1>7, <1>8

\* An exit by stop or target is the exit of any longer path.
LEMMA SettledExit ==
  ASSUME NEW short, NEW long, NEW l, NEW A \in SUBSET Nat, NEW B \in SUBSET Nat,
         Initial(A, B), \A d \in A : long[d] = short[d],
         NEW x, IsExit(short, l, A, x), x.type # "time",
         NEW y, IsExit(long, l, B, y)
  PROVE  y = x
<1>1. A # {} /\ x.day \in A /\ x.day \in B /\ B # {} /\ y.day \in B
  BY DEF IsExit, Initial
<1>2. x.day \in Nat /\ y.day \in Nat
  BY <1>1
<1>3. \A d \in A : /\ Stops(long, l, d) <=> Stops(short, l, d)
                   /\ Reaches(long, l, d) <=> Reaches(short, l, d)
                   /\ Touches1(long, l, d) <=> Touches1(short, l, d)
  BY DEF Stops, Reaches, Touches1
<1>4. Stops(long, l, x.day) \/ Reaches(long, l, x.day)
  BY <1>1, <1>3 DEF IsExit
<1>5. ~(x.day < y.day)
  BY <1>1, <1>4 DEF IsExit
<1>6. ~(y.day < x.day)
  <2> SUFFICES ASSUME y.day < x.day PROVE FALSE
    OBVIOUS
  <2>1. y.day \in A
    BY <1>1 DEF Initial
  <2>2. ~Stops(long, l, y.day) /\ ~Reaches(long, l, y.day)
    BY <1>1, <1>3, <2>1 DEF IsExit
  <2>3. y.type = "time"
    BY <1>1, <2>2 DEF IsExit
  <2>4. x.day <= y.day
    BY <1>1, <2>3 DEF IsExit
  <2> QED
    BY <1>2, <2>4
<1>7. y.day = x.day
  BY <1>2, <1>5, <1>6
<1>8. y.type = x.type
  BY <1>1, <1>3, <1>7 DEF IsExit
<1>9. y.price = x.price
  BY <1>1, <1>8 DEF IsExit
<1>10. y.rr = x.rr
  BY <1>1, <1>9 DEF IsExit
<1>11. y.t1Hit = x.t1Hit
  <2>1. \A d \in B : d <= x.day => d \in A
    <3> SUFFICES ASSUME NEW d \in B, d <= x.day PROVE d \in A
      OBVIOUS
    <3>1. d = x.day \/ d < x.day
      BY <1>2
    <3> QED
      BY <1>1, <3>1 DEF Initial
  <2>2. (\E d \in B : d <= x.day /\ Touches1(long, l, d))
          <=> (\E d \in A : d <= x.day /\ Touches1(short, l, d))
    BY <1>3, <2>1 DEF Initial
  <2>3. y.t1Hit \in BOOLEAN /\ x.t1Hit \in BOOLEAN
    BY DEF IsExit
  <2>4. y.t1Hit <=> \E d \in B : d <= y.day /\ Touches1(long, l, d)
    BY <1>1 DEF IsExit
  <2>5. x.t1Hit <=> \E d \in A : d <= x.day /\ Touches1(short, l, d)
    BY <1>1 DEF IsExit
  <2> QED
    BY <1>7, <2>2, <2>3, <2>4, <2>5
<1>12. /\ x = [type |-> x.type, price |-> x.price, day |-> x.day, t1Hit |-> x.t1Hit, rr |-> x.rr]
       /\ y = [type |-> y.type, price |-> y.price, day |-> y.day, t1Hit |-> y.t1Hit, rr |-> y.rr]
  BY DEF IsExit
<1> QED
  BY <1>7, <1>8, <1>9, <1>10, <1>11, <1>12

\* The exit depends on the candles of the sessions only.
LEMMA SameSessionsSameExit ==
  ASSUME NEW bars, NEW other, NEW l, NEW S, \A d \in S : other[d] = bars[d],
         NEW x, IsExit(bars, l, S, x)
  PROVE  IsExit(other, l, S, x)
<1>1. \A d \in S : /\ Stops(other, l, d) <=> Stops(bars, l, d)
                   /\ Reaches(other, l, d) <=> Reaches(bars, l, d)
                   /\ Touches1(other, l, d) <=> Touches1(bars, l, d)
  BY DEF Stops, Reaches, Touches1
<1>2. CASE S = {}
  BY <1>2 DEF IsExit
<1>3. CASE S # {}
  <2>1. x.day \in S
    BY <1>3 DEF IsExit
  <2>2. other[x.day] = bars[x.day]
    BY <2>1
  <2> QED
    BY <1>1, <1>3, <2>1, <2>2 DEF IsExit
<1> QED
  BY <1>2, <1>3

-----------------------------------------------------------------------------
(* The invariant: every row is what the operators gave on some day *)

\* The outcome of a signal of that date in a ticker with these candles, as of day c.
After(bars, date, c) == {d \in DOMAIN bars : d \in date .. c /\ d > date}
Tracked(bars, date, c) == FirstDays(After(bars, date, c), Horizon)
OutcomeOn(bars, date, c) ==
  LET days == Tracked(bars, date, c)
  IN  [days |-> Cardinality(days),
       ret |-> IF Cardinality(days) < FiveDays THEN "null"
               ELSE IF bars[Nth(days, FiveDays)].close > bars[Nth(days, 1)].open THEN "win" ELSE "loss"]

\* The sessions of a replay for the signal of ticker t and that date, of the
\* candles up to day c.
PathTo(t, date, c) ==
  FirstDays({d \in DOMAIN candles[t] : d \in date .. date + 2 * MaxExitDays /\ d <= c}, MaxExitDays)

\* Every date and ticker the model was shown, and those it recommended.
Shown == {k \in Keys : k[1] \in DOMAIN evaluations /\ k[2] \in evaluations[k[1]].input}
Picked == {k \in Keys : k[1] \in DOMAIN evaluations /\ k[2] \in DOMAIN evaluations[k[1]].picks}

\* The row has the outcome of the signal k as of day c.
Evaluated(k, row, c) ==
  /\ TrackingCandles(k[2], k[1], c) # {}
  /\ row.days = EvaluateOutcome(k[2], k[1], c).days /\ row.ret = EvaluateOutcome(k[2], k[1], c).ret

\* The row has the exit of the replay as of day c, when there was a session after
\* the signal.
Exited(k, row, c) ==
  /\ IsExit(candles[k[2]], row.levels, PathTo(k[2], k[1], c), row.exit)
  /\ \E d \in DOMAIN candles[k[2]] : d > k[1] /\ d <= c

WorldInv ==
  /\ today \in 0 .. MaxDay
  /\ \A t \in Tickers : DOMAIN candles[t] \subseteq 1 .. today /\ BarsOK(candles[t])
  /\ DOMAIN evaluations \subseteq 1 .. today
  /\ \A d \in DOMAIN evaluations : evaluations[d] \in Answers

RunInv ==
  /\ run = [pc |-> run.pc, date |-> run.date, back |-> run.back, nightly |-> run.nightly]
  /\ run.pc \in {"idle", "outcomes", "attribute", "experiments", "memory"}
  /\ run.date \in 0 .. today /\ run.back \in 1 .. Lookback + 1

OutcomesInv ==
  /\ DOMAIN outcomes \subseteq Shown
  /\ \A k \in DOMAIN outcomes : \E c \in 0 .. today : Evaluated(k, outcomes[k], c)

RowInv(k, row) ==
  LET answer == evaluations[k[1]]
      picked == k[2] \in DOMAIN answer.picks
  IN  /\ row.version = answer.version /\ row.recommended = picked
      /\ row.levels = IF picked THEN answer.picks[k[2]] ELSE <<>>
      /\ row.invalid = (picked /\ LevelsInvalid(row.levels))
      /\ \/ row.days = 0 /\ row.ret = "null"
         \/ \E c \in 0 .. today : Evaluated(k, row, c)
      /\ \/ row.exit = NoExit
         \/ /\ picked /\ HasLevels(row.levels) /\ ~row.invalid
            /\ \E c \in 0 .. today : Exited(k, row, c)

PtoInv == DOMAIN pto \subseteq Shown /\ \A k \in DOMAIN pto : RowInv(k, pto[k])

ResultsInv ==
  \A k \in DOMAIN results :
    /\ results[k].returns = results[k].picks
    /\ results[k].wins <= results[k].returns /\ results[k].first <= results[k].last

\* What a memory says was true of the candles, and is.
VerdictInv(k, verdict) ==
  LET bars == candles[k[2]]
      l == evaluations[k[1]].picks[k[2]]
  IN  /\ verdict.status \in {"pending", "verified", "insufficient_data"}
      /\ verdict.status = "verified" =>
           /\ today - k[1] >= VerdictAfter
           /\ verdict.ret # "null" /\ verdict.ret = OutcomeOn(bars, k[1], today).ret
           /\ verdict.stop = "yes" => \E d \in DOMAIN bars : d >= k[1] /\ Stops(bars, l, d)
           /\ verdict.target = "yes" => \E d \in DOMAIN bars : d >= k[1] /\ Touches1(bars, l, d)
      /\ verdict.status = "insufficient_data" => today - k[1] > GiveUpAfter

MemoryInv == DOMAIN memory \subseteq Picked /\ \A k \in DOMAIN memory : VerdictInv(k, memory[k])

LearningInv == WorldInv /\ RunInv /\ OutcomesInv /\ PtoInv /\ ResultsInv /\ MemoryInv

-----------------------------------------------------------------------------
(* Paths and outcomes *)

\* Tracking reads nothing but the candles of its ticker.
LEMMA OutcomeByCandles ==
  ASSUME NEW t, NEW date, NEW c
  PROVE  /\ TrackingCandles(t, date, c) = Tracked(candles[t], date, c)
         /\ TrackingCandles(t, date, c)' = Tracked(candles'[t], date, c)
         /\ EvaluateOutcome(t, date, c) = OutcomeOn(candles[t], date, c)
         /\ EvaluateOutcome(t, date, c)' = OutcomeOn(candles'[t], date, c)
<1>1. {d \in DOMAIN GetCandles(t, date, c) : d > date} = After(candles[t], date, c)
  BY DEF GetCandles, After
<1>2. {d \in DOMAIN GetCandles(t, date, c) : d > date}' = After(candles'[t], date, c)
  BY DEF GetCandles, After
<1>3. /\ TrackingCandles(t, date, c) = Tracked(candles[t], date, c)
      /\ TrackingCandles(t, date, c)' = Tracked(candles'[t], date, c)
  BY <1>1, <1>2 DEF TrackingCandles, Tracked
<1> QED
  BY <1>3 DEF EvaluateOutcome, Return5D, OutcomeOn

\* The sessions as of a later day go on from those of an earlier one.
LEMMA TrackingGrows ==
  ASSUME NEW bars, DOMAIN bars \subseteq Nat, NEW date \in Nat,
         NEW c \in Nat, NEW later \in Nat, c <= later
  PROVE  /\ Tracked(bars, date, c) \in SUBSET Nat /\ Tracked(bars, date, later) \in SUBSET Nat
         /\ Initial(Tracked(bars, date, c), Tracked(bars, date, later))
<1>1. After(bars, date, c) \in SUBSET Nat /\ After(bars, date, later) \in SUBSET Nat
  BY DEF After
<1>2. Initial(After(bars, date, c), After(bars, date, later))
  <2>1. \A d \in DOMAIN bars : d \in Nat /\ (d \in date .. c => d \in date .. later)
    OBVIOUS
  <2>2. \A a, b \in DOMAIN bars : b < a /\ b > date /\ a \in date .. c => b \in date .. c
    BY <2>1
  <2> QED
    BY <2>1, <2>2 DEF After, Initial
<1>3. Horizon \in Nat
  BY Constants
<1> QED
  BY <1>1, <1>2, <1>3, FirstDaysInitial DEF Tracked, FirstDays

\* The tracked sessions follow the date and are at most the horizon.
LEMMA TrackedDays ==
  ASSUME NEW bars, DOMAIN bars \subseteq Nat, NEW date \in Nat, NEW c \in Nat
  PROVE  /\ Tracked(bars, date, c) \in SUBSET Nat
         /\ \A d \in Tracked(bars, date, c) : d \in DOMAIN bars /\ d > date /\ d <= c
         /\ IsFiniteSet(Tracked(bars, date, c))
         /\ Cardinality(Tracked(bars, date, c)) \in 0 .. Horizon
         /\ Cardinality(Tracked(bars, date, c)) \in Nat
<1>1. After(bars, date, c) \in SUBSET Nat /\ \A d \in After(bars, date, c) : d > date /\ d <= c
  BY DEF After
<1>2. Tracked(bars, date, c) \subseteq After(bars, date, c)
  BY DEF Tracked, FirstDays
<1>3. Horizon \in Nat
  BY Constants
<1>4. /\ IsFiniteSet(Tracked(bars, date, c))
      /\ Cardinality(Tracked(bars, date, c)) \in 0 .. Horizon
  BY <1>1, <1>3, FirstDaysSize DEF Tracked
<1> QED
  BY <1>1, <1>2, <1>3, <1>4 DEF After

\* A return that is known is the one of every later day.
LEMMA ReturnStands ==
  ASSUME NEW bars, DOMAIN bars \subseteq Nat, NEW date \in Nat,
         NEW c \in Nat, NEW later \in Nat, c <= later, OutcomeOn(bars, date, c).days >= FiveDays
  PROVE  OutcomeOn(bars, date, later).ret = OutcomeOn(bars, date, c).ret
<1> DEFINE A == Tracked(bars, date, c)
           B == Tracked(bars, date, later)
<1>1. /\ A \in SUBSET Nat /\ B \in SUBSET Nat /\ Initial(A, B) /\ \A d \in A : d <= c
      /\ IsFiniteSet(B) /\ Cardinality(A) \in Nat /\ Cardinality(B) \in Nat
  BY TrackingGrows, TrackedDays
<1>2. /\ FiveDays \in Nat \ {0} /\ 1 <= FiveDays /\ FiveDays <= Cardinality(A) /\ 1 <= Cardinality(A)
      /\ 1 \in Nat \ {0}
  BY <1>1, Constants DEF OutcomeOn
<1>3. Cardinality(A) <= Cardinality(B)
  BY <1>1, FS_Subset DEF Initial
<1> HIDE DEF A, B
<1>4. Nth(A, FiveDays) = Nth(B, FiveDays)
  BY <1>1, <1>2, NthInitial
<1>5. Nth(A, 1) = Nth(B, 1)
  BY <1>1, <1>2, NthInitial
<1>6. ~(Cardinality(A) < FiveDays) /\ ~(Cardinality(B) < FiveDays)
  BY <1>1, <1>2, <1>3
<1> QED
  BY <1>4, <1>5, <1>6 DEF OutcomeOn, A, B

\* A return is known when the sessions for it are.
LEMMA ReturnIsKnown ==
  ASSUME NEW bars, DOMAIN bars \subseteq Nat, NEW date \in Nat, NEW c \in Nat
  PROVE  /\ OutcomeOn(bars, date, c).days \in 0 .. Horizon
         /\ OutcomeOn(bars, date, c).ret \in Returns
         /\ OutcomeOn(bars, date, c).ret # "null" <=> OutcomeOn(bars, date, c).days >= FiveDays
         /\ Tracked(bars, date, c) # {} <=> OutcomeOn(bars, date, c).days # 0
<1>1. /\ Cardinality(Tracked(bars, date, c)) \in 0 .. Horizon
      /\ IsFiniteSet(Tracked(bars, date, c))
  BY TrackedDays
<1>2. FiveDays \in Nat /\ Horizon \in Nat
  BY Constants
<1>3. Tracked(bars, date, c) # {} <=> Cardinality(Tracked(bars, date, c)) # 0
  BY <1>1, FS_EmptySet
<1> QED
  BY <1>1, <1>2, <1>3 DEF OutcomeOn, Returns

\* It depends on the candles up to its day only.
LEMMA SameCandlesSameOutcome ==
  ASSUME NEW bars, DOMAIN bars \subseteq Nat, NEW other, DOMAIN other \subseteq Nat,
         NEW date \in Nat, NEW c \in Nat,
         \A d \in Nat : d <= c => (d \in DOMAIN other <=> d \in DOMAIN bars),
         \A d \in DOMAIN bars : d <= c => other[d] = bars[d]
  PROVE  Tracked(other, date, c) = Tracked(bars, date, c) /\ OutcomeOn(other, date, c) = OutcomeOn(bars, date, c)
<1> DEFINE A == Tracked(bars, date, c)
<1>1. After(other, date, c) = After(bars, date, c)
  <2>1. \A d \in Nat : d \in date .. c => (d \in DOMAIN other <=> d \in DOMAIN bars)
    OBVIOUS
  <2> QED
    BY <2>1 DEF After
<1>2. Tracked(other, date, c) = A
  BY <1>1 DEF Tracked
<1>3. CASE Cardinality(A) < FiveDays
  BY <1>2, <1>3 DEF OutcomeOn
<1>4. CASE ~(Cardinality(A) < FiveDays)
  <2>1. /\ A \in SUBSET Nat /\ Cardinality(A) \in Nat
        /\ \A d \in A : d \in DOMAIN bars /\ d <= c
    BY TrackedDays
  <2>2. 1 \in Nat \ {0} /\ FiveDays \in Nat \ {0} /\ FiveDays <= Cardinality(A) /\ 1 <= Cardinality(A)
    BY <1>4, <2>1, Constants
  <2>3. Initial(A, A)
    BY DEF Initial
  <2>4. Nth(A, FiveDays) \in A /\ Nth(A, 1) \in A
    <3> HIDE DEF A
    <3> QED
      BY <2>1, <2>2, <2>3, NthInitial
  <2>5. other[Nth(A, FiveDays)] = bars[Nth(A, FiveDays)] /\ other[Nth(A, 1)] = bars[Nth(A, 1)]
    BY <2>1, <2>4
  <2> QED
    BY <1>2, <1>4, <2>5 DEF OutcomeOn
<1> QED
  BY <1>2, <1>3, <1>4

\* The window of a replay grows with the days, and so does its path.
LEMMA PathGrows ==
  ASSUME NEW t, NEW date \in Nat, NEW c \in Nat, NEW later \in Nat, c <= later,
         DOMAIN candles[t] \subseteq Nat
  PROVE  /\ PathTo(t, date, c) \in SUBSET Nat /\ PathTo(t, date, later) \in SUBSET Nat
         /\ Initial(PathTo(t, date, c), PathTo(t, date, later))
         /\ \A d \in PathTo(t, date, c) : d \in DOMAIN candles[t] /\ d >= date /\ d <= c
<1> DEFINE W(n) == {d \in DOMAIN candles[t] : d \in date .. date + 2 * MaxExitDays /\ d <= n}
<1>0. MaxExitDays \in Nat
  BY Constants
<1>1. W(c) \in SUBSET Nat /\ W(later) \in SUBSET Nat
  OBVIOUS
<1>2. Initial(W(c), W(later))
  <2>1. \A d \in DOMAIN candles[t] : d \in Nat /\ (d <= c => d <= later)
    OBVIOUS
  <2>2. \A a, b \in DOMAIN candles[t] : b < a /\ a <= c => b <= c
    BY <2>1
  <2> QED
    BY <2>1, <2>2 DEF Initial
<1>3. \A d \in W(c) : d \in DOMAIN candles[t] /\ d >= date /\ d <= c
  BY <1>0
<1>4. PathTo(t, date, c) = FirstDays(W(c), MaxExitDays) /\ PathTo(t, date, later) = FirstDays(W(later), MaxExitDays)
  BY DEF PathTo
<1> HIDE DEF W
<1>5. Initial(FirstDays(W(c), MaxExitDays), FirstDays(W(later), MaxExitDays))
  BY <1>0, <1>1, <1>2, FirstDaysInitial
<1>6. FirstDays(W(c), MaxExitDays) \subseteq W(c) /\ FirstDays(W(later), MaxExitDays) \subseteq W(later)
  BY DEF FirstDays
<1> QED
  BY <1>1, <1>3, <1>4, <1>5, <1>6

\* What a night replays is the path up to its day.
LEMMA ReplayFollowsPath ==
  ASSUME NEW t, NEW date \in Nat, NEW l, today \in Nat,
         DOMAIN candles[t] \subseteq 1 .. today
  PROVE  IsExit(candles[t], l, PathTo(t, date, today),
                ReplayExitSequence(GetCandles(t, date, date + 2 * MaxExitDays), date, l))
<1> DEFINE bars == GetCandles(t, date, date + 2 * MaxExitDays)
<1>0. MaxExitDays \in Nat
  BY Constants
<1>1. /\ DOMAIN bars = {d \in DOMAIN candles[t] : d \in date .. date + 2 * MaxExitDays}
      /\ \A d \in DOMAIN bars : bars[d] = candles[t][d]
  BY DEF GetCandles
<1>2. DOMAIN bars \subseteq Nat /\ \A d \in DOMAIN bars : d <= date + 2 * MaxExitDays
  BY <1>0, <1>1
<1>3. Sessions(bars, date) = PathTo(t, date, today)
  <2>1. {d \in DOMAIN bars : d >= date} =
          {d \in DOMAIN candles[t] : d \in date .. date + 2 * MaxExitDays /\ d <= today}
    <3>1. \A d \in DOMAIN candles[t] : d \in Nat /\ d <= today
      OBVIOUS
    <3>2. \A d \in DOMAIN candles[t] : d \in date .. date + 2 * MaxExitDays => d >= date
      BY <1>0, <3>1
    <3> QED
      BY <1>1, <3>1, <3>2
  <2> QED
    BY <2>1 DEF Sessions, PathTo
<1>4. \A d \in Sessions(bars, date) : d \in DOMAIN bars
  BY <1>2, SessionsSegment
<1>5. IsExit(bars, l, Sessions(bars, date), ReplayExitSequence(bars, date, l))
  BY <1>2, ReplayExits
<1> HIDE DEF bars
<1>6. IsExit(candles[t], l, Sessions(bars, date), ReplayExitSequence(bars, date, l))
  BY <1>1, <1>4, <1>5, SameSessionsSameExit
<1> QED
  BY <1>3, <1>6 DEF bars

-----------------------------------------------------------------------------
(* A day passes *)

\* Nothing of the days so far changes.
DaysStand ==
  /\ today' = today + 1
  /\ \A t \in Tickers :
       /\ DOMAIN candles[t] \subseteq DOMAIN candles'[t]
       /\ DOMAIN candles'[t] \subseteq DOMAIN candles[t] \cup {today + 1}
       /\ \A d \in DOMAIN candles[t] : candles'[t][d] = candles[t][d]
  /\ DOMAIN evaluations \subseteq DOMAIN evaluations'
  /\ \A d \in DOMAIN evaluations : evaluations'[d] = evaluations[d]

\* A new day adds candles and answers and takes none away.
LEMMA DayBrings ==
  ASSUME WorldInv, NextDay
  PROVE  WorldInv' /\ DaysStand
<1>1. PICK bars \in Markets :
        candles' = [t \in Tickers |-> IF t \in DOMAIN bars THEN Put(candles[t], today + 1, bars[t])
                                      ELSE candles[t]]
  BY DEF NextDay
<1>2. /\ today \in Nat /\ today' = today + 1 /\ today' \in 0 .. MaxDay
      /\ today + 1 \in 1 .. today' /\ \A d \in 1 .. today : d \in 1 .. today' /\ d # today + 1
  BY Constants DEF WorldInv, NextDay
<1>3. ASSUME NEW t \in Tickers
      PROVE  /\ DOMAIN candles[t] \subseteq DOMAIN candles'[t]
             /\ DOMAIN candles'[t] \subseteq DOMAIN candles[t] \cup {today + 1}
             /\ \A d \in DOMAIN candles[t] : candles'[t][d] = candles[t][d]
             /\ DOMAIN candles'[t] \subseteq 1 .. today' /\ BarsOK(candles'[t])
  <2>1. /\ DOMAIN candles[t] \subseteq 1 .. today /\ BarsOK(candles[t])
        /\ today + 1 \notin DOMAIN candles[t]
    BY <1>2 DEF WorldInv
  <2>2. CASE t \in DOMAIN bars
    <3>1. candles'[t] = Put(candles[t], today + 1, bars[t])
      BY <1>1, <2>2
    <3>2. /\ DOMAIN candles'[t] = DOMAIN candles[t] \cup {today + 1}
          /\ candles'[t][today + 1] = bars[t]
          /\ \A d \in DOMAIN candles[t] : candles'[t][d] = candles[t][d]
      <4>1. today + 1 \notin DOMAIN candles[t]
        BY <2>1
      <4>2. /\ DOMAIN Put(candles[t], today + 1, bars[t]) = DOMAIN candles[t] \cup {today + 1}
            /\ Put(candles[t], today + 1, bars[t])[today + 1] = bars[t]
            /\ \A d \in DOMAIN candles[t] : Put(candles[t], today + 1, bars[t])[d] = candles[t][d]
        BY <4>1 DEF Put, Upserted
      <4> QED
        BY <3>1, <4>2, Zenon
    <3>3. CandleOK(bars[t])
      BY <2>2, MarketsAssumption
    <3>4. DOMAIN candles'[t] \subseteq 1 .. today'
      BY <1>2, <2>1, <3>2
    <3>5. \A d \in DOMAIN candles'[t] : CandleOK(candles'[t][d])
      BY <2>1, <3>2, <3>3 DEF BarsOK
    <3>6. BarsOK(candles'[t])
      BY <1>2, <3>4, <3>5 DEF BarsOK
    <3> QED
      BY <3>2, <3>4, <3>6
  <2>3. CASE t \notin DOMAIN bars
    <3>1. candles'[t] = candles[t]
      BY <1>1, <2>3
    <3> QED
      BY <1>2, <2>1, <3>1
  <2> QED
    BY <2>2, <2>3
<1>4. /\ DOMAIN evaluations \subseteq DOMAIN evaluations'
      /\ \A d \in DOMAIN evaluations : evaluations'[d] = evaluations[d]
      /\ DOMAIN evaluations' \subseteq 1 .. today'
      /\ \A d \in DOMAIN evaluations' : evaluations'[d] \in Answers
  <2>1. CASE UNCHANGED evaluations
    BY <1>2, <2>1 DEF WorldInv
  <2>2. ASSUME NEW answer \in Answers, evaluations' = Put(evaluations, today + 1, answer)
        PROVE  <1>4!1 /\ <1>4!2 /\ <1>4!3 /\ <1>4!4
    <3>1. /\ today + 1 \notin DOMAIN evaluations /\ DOMAIN evaluations \subseteq 1 .. today
          /\ \A d \in DOMAIN evaluations : evaluations[d] \in Answers
      BY <1>2 DEF WorldInv
    <3>2. /\ DOMAIN evaluations' = DOMAIN evaluations \cup {today + 1}
          /\ evaluations'[today + 1] = answer
          /\ \A d \in DOMAIN evaluations : evaluations'[d] = evaluations[d]
      <4>1. today + 1 \notin DOMAIN evaluations
        BY <3>1
      <4>2. /\ DOMAIN Put(evaluations, today + 1, answer) = DOMAIN evaluations \cup {today + 1}
            /\ Put(evaluations, today + 1, answer)[today + 1] = answer
            /\ \A d \in DOMAIN evaluations : Put(evaluations, today + 1, answer)[d] = evaluations[d]
        BY <4>1 DEF Put, Upserted
      <4> QED
        BY <2>2, <4>2, Zenon
    <3>3. DOMAIN evaluations' \subseteq 1 .. today'
      BY <1>2, <3>1, <3>2
    <3>4. \A d \in DOMAIN evaluations' : evaluations'[d] \in Answers
      BY <2>2, <3>1, <3>2
    <3> QED
      BY <3>2, <3>3, <3>4
  <2> QED
    BY <2>1, <2>2 DEF NextDay
<1> QED
  BY <1>2, <1>3, <1>4 DEF WorldInv, DaysStand

\* No outcome as of a day so far changes, and no exit.
LEMMA OutcomesStand ==
  ASSUME WorldInv, DaysStand, NEW t \in Tickers, NEW date \in Nat, NEW c \in 0 .. today
  PROVE  /\ TrackingCandles(t, date, c)' = TrackingCandles(t, date, c)
         /\ EvaluateOutcome(t, date, c)' = EvaluateOutcome(t, date, c)
<1>1. /\ today \in Nat /\ c \in Nat /\ ~(today + 1 <= c)
      /\ DOMAIN candles[t] \subseteq Nat /\ DOMAIN candles'[t] \subseteq Nat
  BY DEF WorldInv, DaysStand
<1>2. \A d \in Nat : d <= c => (d \in DOMAIN candles'[t] <=> d \in DOMAIN candles[t])
  BY <1>1 DEF DaysStand
<1>3. \A d \in DOMAIN candles[t] : candles'[t][d] = candles[t][d]
  BY DEF DaysStand
<1>4. /\ Tracked(candles'[t], date, c) = Tracked(candles[t], date, c)
      /\ OutcomeOn(candles'[t], date, c) = OutcomeOn(candles[t], date, c)
  BY <1>1, <1>2, <1>3, SameCandlesSameOutcome
<1> QED
  BY <1>4, OutcomeByCandles

\* An exit that was reached stays the exit, whatever candles come later.
LEMMA ExitsStand ==
  ASSUME WorldInv, DaysStand, NEW k \in (Nat \X Tickers), NEW row, NEW c \in 0 .. today,
         Exited(k, row, c)
  PROVE  Exited(k, row, c)'
<1> DEFINE t == k[2]
           date == k[1]
<1>1. /\ t \in Tickers /\ date \in Nat /\ today \in Nat /\ c \in Nat
      /\ DOMAIN candles[t] \subseteq Nat /\ ~(today + 1 <= c) /\ c <= c
  BY DEF WorldInv
<1>2. PathTo(t, date, c)' = PathTo(t, date, c)
  <2>1. {d \in DOMAIN candles'[t] : d \in date .. date + 2 * MaxExitDays /\ d <= c} =
          {d \in DOMAIN candles[t] : d \in date .. date + 2 * MaxExitDays /\ d <= c}
    BY <1>1 DEF DaysStand
  <2> QED
    BY <2>1 DEF PathTo
<1>3. \A d \in PathTo(t, date, c) : candles'[t][d] = candles[t][d]
  BY <1>1, PathGrows DEF DaysStand
<1>4. IsExit(candles'[t], row.levels, PathTo(t, date, c), row.exit)
  <2>1. IsExit(candles[t], row.levels, PathTo(t, date, c), row.exit)
    BY DEF Exited
  <2> QED
    BY <1>3, <2>1, SameSessionsSameExit
<1>5. \E d \in DOMAIN candles'[t] : d > date /\ d <= c
  BY <1>1 DEF Exited, DaysStand
<1> QED
  BY <1>2, <1>4, <1>5 DEF Exited

-----------------------------------------------------------------------------
(* The invariant holds *)

StandStill == UNCHANGED <<today, candles, evaluations>>

\* Every step leaves candles and answers as they are, or is the new day.
LEMMA WorldMoves ==
  ASSUME WorldInv, [Next]_vars
  PROVE  WorldInv' /\ (StandStill \/ (DaysStand /\ NextDay))
<1>1. CASE NextDay
  BY <1>1, DayBrings
<1>2. CASE UNCHANGED vars
  BY <1>2 DEF vars, WorldInv, BarsOK, CandleOK, StandStill
<1>3. CASE StandStill
  BY <1>3 DEF WorldInv, BarsOK, CandleOK, StandStill
<1>4. \/ NextDay \/ UNCHANGED vars \/ StandStill
  BY DEF Next, StartNightly, StartAttribution, RunTradeOutcomeJob, AttributeDate, EndAttribution,
         RunNightlyPromptExperimentJob, UpdateOutcomes, StoreMemories, Stop, StandStill
<1> QED
  BY <1>1, <1>2, <1>3, <1>4

\* The answer of a date is of a past day and of the universe.
LEMMA AnswersTyped ==
  ASSUME WorldInv, NEW d \in DOMAIN evaluations
  PROVE  /\ d \in Nat /\ d >= 1 /\ d <= today /\ today \in Nat /\ d \in 1 .. MaxDay
         /\ evaluations[d].input \subseteq Tickers /\ DOMAIN evaluations[d].picks \subseteq Tickers
         /\ \A t \in DOMAIN evaluations[d].picks : LevelsTyped(evaluations[d].picks[t])
<1>1. evaluations[d] \in Answers
  BY DEF WorldInv
<1>2. d \in 1 .. today /\ today \in 0 .. MaxDay
  BY DEF WorldInv
<1> QED
  BY <1>1, <1>2, AnswersAssumption, Constants

\* A rerun is for a day from the first to today.
LEMMA RerunDates ==
  ASSUME WorldInv, NEW date \in Max({1, today - MaxRerun}) .. today
  PROVE  date \in 1 .. today
<1>1. today \in Nat /\ today - MaxRerun \in Int
  BY Constants DEF WorldInv
<1> DEFINE D == {1, today - MaxRerun}
<1>2. \E m \in D : \A e \in D : m >= e
  BY <1>1
<1>3. Max(D) = CHOOSE m \in D : \A e \in D : m >= e
  BY DEF Max
<1>4. Max(D) \in D /\ \A e \in D : Max(D) >= e
  BY <1>2, <1>3
<1>5. Max(D) \in Int /\ Max(D) >= 1
  BY <1>1, <1>4
<1> HIDE DEF D
<1>6. date \in Max(D) .. today
  BY DEF D
<1> QED
  BY <1>1, <1>5, <1>6

\* No step loses the place of the learning run.
LEMMA RunKept ==
  ASSUME WorldInv, RunInv, [Next]_vars
  PROVE  RunInv'
<1>1. /\ today \in Nat /\ Lookback \in Nat /\ run.date \in 0 .. today /\ run.back \in 1 .. Lookback + 1
      /\ 1 \in 1 .. Lookback + 1 /\ 0 \in 0 .. today
      /\ run = [pc |-> run.pc, date |-> run.date, back |-> run.back, nightly |-> run.nightly]
      /\ run.pc \in {"idle", "outcomes", "attribute", "experiments", "memory"}
  BY Constants DEF WorldInv, RunInv
<1>2. CASE NextDay
  <2>1. today' = today + 1 /\ run' = run
    BY <1>2 DEF NextDay
  <2> QED
    BY <1>1, <2>1 DEF RunInv
<1>3. ASSUME NEW date \in Max({1, today - MaxRerun}) .. today,
             StartNightly(date) \/ StartAttribution(date)
      PROVE  RunInv'
  <2>1. date \in 0 .. today
    BY <1>1, RerunDates
  <2>2. CASE StartNightly(date)
    BY <1>1, <2>1, <2>2 DEF StartNightly, Idle, RunInv
  <2>3. CASE StartAttribution(date)
    BY <1>1, <2>1, <2>3 DEF StartAttribution, Idle, RunInv
  <2> QED
    BY <1>3, <2>2, <2>3
<1>4. CASE RunTradeOutcomeJob
  BY <1>1, <1>4 DEF RunTradeOutcomeJob, RunInv
<1>5. CASE AttributeDate
  <2>1. run.back + 1 \in 1 .. Lookback + 1
    BY <1>1, <1>5 DEF AttributeDate
  <2> QED
    BY <1>1, <1>5, <2>1 DEF AttributeDate, RunInv
<1>6. CASE EndAttribution
  BY <1>1, <1>6 DEF EndAttribution, Idle, RunInv
<1>7. CASE RunNightlyPromptExperimentJob
  BY <1>1, <1>7 DEF RunNightlyPromptExperimentJob, RunInv
<1>8. CASE UpdateOutcomes
  BY <1>1, <1>8 DEF UpdateOutcomes, RunInv
<1>9. ASSUME NEW date \in DOMAIN evaluations, StoreMemories(date) PROVE RunInv'
  BY <1>1, <1>9 DEF StoreMemories, RunInv
<1>10. CASE Stop
  BY <1>1, <1>10 DEF Stop, Idle, RunInv
<1>11. CASE UNCHANGED vars
  BY <1>1, <1>11 DEF vars, RunInv
<1> QED
  BY <1>2, <1>3, <1>4, <1>5, <1>6, <1>7, <1>8, <1>9, <1>10, <1>11 DEF Next

\* What was shown stays shown.
LEMMA ShownStays ==
  ASSUME WorldInv, StandStill \/ DaysStand
  PROVE  Shown \subseteq Shown' /\ Picked \subseteq Picked'
BY DEF Shown, Picked, StandStill, DaysStand, Keys

\* A ticker that was shown or picked is a key of a past day.
LEMMA ShownTyped ==
  ASSUME WorldInv, NEW k \in Shown \cup Picked
  PROVE  /\ k \in Nat \X Tickers /\ k \in Keys /\ k[1] \in Nat /\ k[2] \in Tickers
         /\ k[1] \in DOMAIN evaluations /\ k[1] >= 1 /\ k[1] <= today /\ today \in Nat
         /\ k = <<k[1], k[2]>>
<1>1. k \in Keys /\ k[1] \in DOMAIN evaluations
  BY DEF Shown, Picked
<1>2. k[1] \in 1 .. today /\ today \in Nat
  BY <1>1 DEF WorldInv
<1> QED
  BY <1>1, <1>2 DEF Keys

\* An outcome as of a day so far is one tomorrow.
LEMMA EvaluatedStays ==
  ASSUME WorldInv, StandStill \/ DaysStand, NEW k \in Shown, NEW row, NEW c \in 0 .. today,
         Evaluated(k, row, c)
  PROVE  c \in 0 .. today' /\ Evaluated(k, row, c)'
<1>1. k[1] \in Nat /\ k[2] \in Tickers /\ today \in Nat
  BY ShownTyped
<1>2. CASE StandStill
  BY <1>2 DEF StandStill, Evaluated, TrackingCandles, GetCandles, EvaluateOutcome, Return5D
<1>3. CASE DaysStand
  <2>1. /\ TrackingCandles(k[2], k[1], c)' = TrackingCandles(k[2], k[1], c)
        /\ EvaluateOutcome(k[2], k[1], c)' = EvaluateOutcome(k[2], k[1], c)
    BY <1>1, <1>3, OutcomesStand
  <2>2. c \in 0 .. today'
    BY <1>1, <1>3 DEF DaysStand
  <2> QED
    BY <2>1, <2>2 DEF Evaluated
<1> QED
  BY <1>2, <1>3

\* Every stored outcome is the evaluation as of some day up to today.
LEMMA OutcomesKept ==
  ASSUME WorldInv, RunInv, OutcomesInv, [Next]_vars
  PROVE  OutcomesInv'
<1>1. StandStill \/ DaysStand
  BY WorldMoves
<1>2. Shown \subseteq Shown'
  BY <1>1, ShownStays
<1>3. ASSUME NEW k \in DOMAIN outcomes, NEW row, row = outcomes[k]
      PROVE  k \in Shown' /\ \E c \in 0 .. today' : Evaluated(k, row, c)'
  <2>1. k \in Shown
    BY DEF OutcomesInv
  <2>2. PICK c \in 0 .. today : Evaluated(k, row, c)
    BY <1>3 DEF OutcomesInv
  <2> QED
    BY <1>1, <1>2, <2>1, <2>2, EvaluatedStays
<1>4. CASE RunTradeOutcomeJob
  <2> DEFINE due == {k \in Signals(run.date) : k \in DOMAIN outcomes => outcomes[k].days < Horizon}
  <2>1. PICK done \in SUBSET due :
          outcomes' = Upserted(outcomes, [k \in done |-> EvaluateOutcome(k[2], k[1], run.date)])
    BY <1>4 DEF RunTradeOutcomeJob
  <2>2. StandStill /\ run.date \in 0 .. today
    BY <1>4 DEF RunTradeOutcomeJob, RunInv, StandStill
  <2>3. ASSUME NEW k \in done, NEW row, row = EvaluateOutcome(k[2], k[1], run.date)
        PROVE  k \in Shown' /\ \E c \in 0 .. today' : Evaluated(k, row, c)'
    <3>1. /\ k \in (1 .. run.date - 1) \X Tickers /\ k[1] \in DOMAIN evaluations
          /\ k[2] \in evaluations[k[1]].input /\ TrackingCandles(k[2], k[1], run.date) # {}
      BY DEF Signals
    <3>2. k[1] \in 1 .. MaxDay
      BY <3>1, AnswersTyped
    <3>3. k \in Shown
      BY <3>1, <3>2 DEF Shown, Keys
    <3>4. PICK c \in 0 .. today : c = run.date
      BY <2>2
    <3>5. Evaluated(k, row, c)
      BY <2>3, <3>1, <3>4 DEF Evaluated
    <3> QED
      BY <1>1, <1>2, <3>3, <3>5, EvaluatedStays
  <2>4. ASSUME NEW k \in DOMAIN outcomes', NEW row, row = outcomes'[k]
        PROVE  k \in Shown' /\ \E c \in 0 .. today' : Evaluated(k, row, c)'
    <3>1. CASE k \in done
      <4>1. row = EvaluateOutcome(k[2], k[1], run.date)
        BY <2>1, <2>4, <3>1 DEF Upserted
      <4> QED
        BY <2>3, <3>1, <4>1
    <3>2. CASE k \notin done
      <4>1. k \in DOMAIN outcomes /\ row = outcomes[k]
        BY <2>1, <2>4, <3>2 DEF Upserted
      <4> QED
        BY <1>3, <4>1
    <3> QED
      BY <3>1, <3>2
  <2> QED
    BY <2>4 DEF OutcomesInv
<1>5. CASE UNCHANGED outcomes
  BY <1>3, <1>5 DEF OutcomesInv
<1>6. RunTradeOutcomeJob \/ UNCHANGED outcomes
  BY DEF Next, NextDay, StartNightly, StartAttribution, AttributeDate, EndAttribution,
         RunNightlyPromptExperimentJob, UpdateOutcomes, StoreMemories, Stop, vars
<1> QED
  BY <1>4, <1>5, <1>6

\* The row that a night writes.
LEMMA AttributedRow ==
  ASSUME WorldInv, OutcomesInv, NEW date \in DOMAIN evaluations,
         NEW t \in evaluations[date].input, NEW loaded \in BOOLEAN
  PROVE  <<date, t>> \in Shown /\ RowInv(<<date, t>>, Attributed(date, t, loaded))
<1> DEFINE k == <<date, t>>
           row == Attributed(date, t, loaded)
           outcome == OutcomeOf(date, t)
           answer == evaluations[date]
           picked == t \in DOMAIN answer.picks
           levels == IF picked THEN answer.picks[t] ELSE <<>>
           exit == IF picked /\ loaded THEN ComputePathAwareExit(t, date, levels, outcome.days) ELSE NoExit
           invalid == picked /\ LevelsInvalid(levels)
<1>1. /\ date \in Nat /\ t \in Tickers /\ today \in Nat /\ today \in 0 .. today /\ k \in Shown
      /\ DOMAIN candles[t] \subseteq 1 .. today /\ DOMAIN candles[t] \subseteq Nat
  BY AnswersTyped DEF WorldInv, Shown, Keys
<1>2. row = [version |-> answer.version, recommended |-> picked, levels |-> levels,
             days |-> outcome.days, ret |-> outcome.ret, invalid |-> invalid, exit |-> exit]
  BY DEF Attributed
<1>3. \/ outcome.days = 0 /\ outcome.ret = "null"
      \/ \E c \in 0 .. today : Evaluated(k, outcome, c)
  <2>1. CASE k \in GetTradeOutcomes(date)
    <3>1. outcome = outcomes[k] /\ k \in DOMAIN outcomes
      BY <2>1 DEF OutcomeOf, GetTradeOutcomes
    <3> QED
      BY <3>1 DEF OutcomesInv
  <2>2. CASE k \notin GetTradeOutcomes(date)
    BY <2>2 DEF OutcomeOf
  <2> QED
    BY <2>1, <2>2
<1>4. \/ row.days = 0 /\ row.ret = "null"
      \/ \E c \in 0 .. today : Evaluated(k, row, c)
  <2> HIDE DEF k, outcome, row, picked, levels, exit, invalid, answer
  <2> QED
    BY <1>2, <1>3 DEF Evaluated
<1>5. \/ exit = NoExit
      \/ /\ picked /\ HasLevels(levels) /\ ~invalid /\ outcome.days # 0
         /\ exit = ReplayExitSequence(GetCandles(t, date, date + 2 * MaxExitDays), date, levels)
  BY DEF ComputePathAwareExit
<1>6. ASSUME outcome.days # 0 PROVE \E d \in DOMAIN candles[t] : d > date /\ d <= today
  <2>1. PICK c \in 0 .. today : TrackingCandles(t, date, c) # {}
    BY <1>3, <1>6 DEF Evaluated
  <2>2. PICK d \in TrackingCandles(t, date, c) : TRUE
    BY <2>1
  <2>3. c \in Nat /\ c <= c
    BY <1>1
  <2>4. d \in DOMAIN candles[t] /\ d > date /\ d <= c
    <3>1. d \in Tracked(candles[t], date, c)
      BY <2>2, OutcomeByCandles
    <3>2. DOMAIN candles[t] \subseteq Nat /\ date \in Nat /\ c \in Nat
      BY <1>1, <2>3
    <3> QED
      BY <3>1, <3>2, TrackedDays
  <2>5. d \in Nat
    BY <1>1, <2>4
  <2> QED
    BY <1>1, <2>4, <2>5
<1>7. \/ row.exit = NoExit
      \/ picked /\ HasLevels(row.levels) /\ ~row.invalid /\ \E c \in 0 .. today : Exited(k, row, c)
  <2>1. CASE exit = NoExit
    BY <1>2, <2>1
  <2>2. CASE exit # NoExit
    <3>1. IsExit(candles[t], levels, PathTo(t, date, today), exit)
      BY <1>1, <1>5, <2>2, ReplayFollowsPath
    <3>2. Exited(k, row, today)
      BY <1>2, <1>5, <1>6, <2>2, <3>1 DEF Exited
    <3>3. picked /\ HasLevels(levels) /\ invalid = FALSE
      BY <1>5, <2>2
    <3>4. row.levels = levels /\ row.invalid = invalid
      BY <1>2
    <3> QED
      BY <1>1, <3>2, <3>3, <3>4
  <2> QED
    BY <2>1, <2>2
<1>8. /\ row.version = answer.version /\ row.recommended = picked /\ row.levels = levels
      /\ row.invalid = (picked /\ LevelsInvalid(row.levels))
  BY <1>2
<1> HIDE DEF row
<1> QED
  BY <1>1, <1>4, <1>7, <1>8 DEF RowInv, row

\* What is true of a row stays true of it when the candles go on.
LEMMA RowStays ==
  ASSUME WorldInv, StandStill \/ DaysStand, NEW k \in Shown, NEW row, RowInv(k, row)
  PROVE  RowInv(k, row)'
<1>1. /\ k \in Nat \X Tickers /\ k[1] \in DOMAIN evaluations /\ evaluations'[k[1]] = evaluations[k[1]]
  BY ShownTyped DEF StandStill, DaysStand
<1>2. ASSUME NEW c \in 0 .. today, Evaluated(k, row, c)
      PROVE  \E b \in 0 .. today' : Evaluated(k, row, b)'
  BY <1>2, EvaluatedStays
<1>3. ASSUME NEW c \in 0 .. today, Exited(k, row, c)
      PROVE  \E b \in 0 .. today' : Exited(k, row, b)'
  <2>1. CASE StandStill
    <3>1. Exited(k, row, c)' <=> Exited(k, row, c)
      BY <2>1 DEF StandStill, Exited, PathTo
    <3> QED
      BY <1>3, <2>1, <3>1 DEF StandStill
  <2>2. CASE DaysStand
    <3>1. Exited(k, row, c)'
      BY <1>1, <1>3, <2>2, ExitsStand
    <3>2. c \in 0 .. today'
      BY <2>2 DEF WorldInv, DaysStand
    <3> QED
      BY <3>1, <3>2
  <2> QED
    BY <2>1, <2>2
<1> QED
  BY <1>1, <1>2, <1>3 DEF RowInv

\* The attributed rows stay true to the answers they are about.
LEMMA PtoKept ==
  ASSUME WorldInv, OutcomesInv, PtoInv, [Next]_vars
  PROVE  PtoInv'
<1>1. (StandStill \/ DaysStand) /\ Shown \subseteq Shown'
  BY WorldMoves, ShownStays
<1>2. ASSUME NEW k \in DOMAIN pto, NEW row, row = pto[k]
      PROVE  k \in Shown' /\ RowInv(k, row)'
  <2>1. k \in Shown /\ RowInv(k, row)
    BY <1>2 DEF PtoInv
  <2> QED
    BY <1>1, <2>1, RowStays
<1>3. CASE UNCHANGED pto
  BY <1>2, <1>3 DEF PtoInv
<1>4. ASSUME NEW date \in DOMAIN evaluations, NEW stored \in SUBSET evaluations[date].input, NEW loaded,
             pto' = UpsertOutcomes(date, stored, loaded)
      PROVE  PtoInv'
  <2>1. ASSUME NEW k \in DOMAIN pto', NEW row, row = pto'[k]
        PROVE  k \in Shown' /\ RowInv(k, row)'
    <3>1. CASE k \in {date} \X stored
      <4>1. k = <<date, k[2]>> /\ k[2] \in evaluations[date].input
        BY <3>1
      <4>2. row = Attributed(date, k[2], k[2] \in loaded)
        BY <1>4, <2>1, <3>1 DEF UpsertOutcomes, Upserted
      <4>3. (k[2] \in loaded) \in BOOLEAN
        OBVIOUS
      <4>4. k \in Shown /\ RowInv(k, row)
        BY <4>1, <4>2, <4>3, AttributedRow
      <4> QED
        BY <1>1, <4>4, RowStays
    <3>2. CASE k \notin {date} \X stored
      <4>1. k \in DOMAIN pto /\ row = pto[k]
        BY <1>4, <2>1, <3>2 DEF UpsertOutcomes, Upserted
      <4> QED
        BY <1>2, <4>1
    <3> QED
      BY <3>1, <3>2
  <2> QED
    BY <2>1 DEF PtoInv
<1>5. CASE AttributeDate
  <2>1. ASSUME Attributable(run.date - run.back) PROVE run.date - run.back \in DOMAIN evaluations
    BY <2>1 DEF Attributable, GetEvaluationsByDate
  <2> QED
    BY <1>3, <1>4, <1>5, <2>1 DEF AttributeDate
<1>6. AttributeDate \/ UNCHANGED pto
  BY DEF Next, NextDay, StartNightly, StartAttribution, RunTradeOutcomeJob, EndAttribution,
         RunNightlyPromptExperimentJob, UpdateOutcomes, StoreMemories, Stop, vars
<1> QED
  BY <1>3, <1>5, <1>6

\* The return of a row is known when its sessions are.
LEMMA RowReturns ==
  ASSUME WorldInv, PtoInv, NEW k \in DOMAIN pto
  PROVE  pto[k].ret \in Returns /\ (pto[k].ret # "null" <=> pto[k].days >= FiveDays)
<1>1. k \in Shown /\ RowInv(k, pto[k]) /\ FiveDays \in Nat \ {0}
  BY Constants DEF PtoInv
<1>2. k[1] \in Nat /\ k[2] \in Tickers /\ today \in Nat
  BY <1>1, ShownTyped
<1>3. DOMAIN candles[k[2]] \subseteq Nat
  BY <1>2 DEF WorldInv
<1>4. CASE pto[k].days = 0 /\ pto[k].ret = "null"
  BY <1>1, <1>4 DEF Returns
<1>5. ASSUME NEW c \in 0 .. today, Evaluated(k, pto[k], c)
      PROVE  pto[k].ret \in Returns /\ (pto[k].ret # "null" <=> pto[k].days >= FiveDays)
  <2>1. /\ pto[k].days = OutcomeOn(candles[k[2]], k[1], c).days
        /\ pto[k].ret = OutcomeOn(candles[k[2]], k[1], c).ret
    BY <1>5, OutcomeByCandles DEF Evaluated
  <2>2. c \in Nat
    BY <1>2
  <2> QED
    BY <1>2, <1>3, <2>1, <2>2, ReturnIsKnown
<1> QED
  BY <1>1, <1>4, <1>5 DEF RowInv

\* There are finitely many attributed rows, so they can be counted.
LEMMA RowsFinite ==
  ASSUME PtoInv
  PROVE  IsFiniteSet(DOMAIN pto)
<1>1. IsFiniteSet(1 .. MaxDay) /\ IsFiniteSet(Tickers)
  BY FS_Interval, Constants
<1>2. IsFiniteSet(Keys)
  BY <1>1, FS_Product DEF Keys
<1>3. DOMAIN pto \subseteq Keys
  BY DEF PtoInv, Shown
<1> QED
  BY <1>2, <1>3, FS_Subset

\* What is counted over rows that count.
LEMMA CountedRows ==
  ASSUME WorldInv, PtoInv, NEW rows, rows # {}, rows \subseteq Mature(DOMAIN pto)
  PROVE  /\ Result(rows).returns = Result(rows).picks
         /\ Result(rows).wins <= Result(rows).returns
         /\ Result(rows).first <= Result(rows).last
<1>1. rows \subseteq DOMAIN pto /\ \A k \in rows : pto[k].days >= FiveDays
  BY DEF Mature
<1>2. {k \in rows : pto[k].ret # "null"} = rows
  BY <1>1, RowReturns
<1>3. IsFiniteSet(rows) /\ Won(rows) \subseteq rows
  BY <1>1, RowsFinite, FS_Subset DEF Won
<1>4. Cardinality(Won(rows)) <= Cardinality(rows)
  BY <1>3, FS_Subset
<1> DEFINE D == {k[1] : k \in rows}
<1>5. D \in SUBSET Nat /\ D # {} /\ \A d \in D : d <= MaxDay
  <2>1. \A k \in rows : k[1] \in Nat /\ k[1] <= MaxDay
    BY <1>1, Constants DEF PtoInv, Shown, Keys
  <2> QED
    BY <2>1
<1>6. Min(D) <= Max(D)
  <2> HIDE DEF D
  <2>1. PICK least \in D : \A d \in D : least <= d
    BY <1>5, LeastNatural
  <2>2. PICK greatest \in D : \A d \in D : d <= greatest
    BY <1>5, GreatestNatural, Constants
  <2>3. Min(D) \in D
    BY <2>1 DEF Min
  <2>4. \A d \in D : greatest >= d
    BY <1>5, <2>2
  <2>5. Max(D) \in D /\ \A d \in D : Max(D) >= d
    BY <2>4 DEF Max
  <2> QED
    BY <1>5, <2>3, <2>5
<1> QED
  BY <1>2, <1>4, <1>6 DEF Result

\* The counts of an experiment stay in order: wins within returns, first before last.
LEMMA ResultsKept ==
  ASSUME WorldInv, PtoInv, ResultsInv, [Next]_vars
  PROVE  ResultsInv'
<1>1. CASE UNCHANGED results
  BY <1>1 DEF ResultsInv
<1>2. CASE RunNightlyPromptExperimentJob
  <2> DEFINE rows == Mature(GetByDateRange(today - ExperimentDays, today))
             versions == {pto[k].version : k \in rows}
             Group(v) == {k \in rows : pto[k].version = v}
  <2>1. PICK stored \in SUBSET versions :
          results' = UpsertExperiments([k \in stored \X {today} |-> Result(Group(k[1]))])
    BY <1>2 DEF RunNightlyPromptExperimentJob
  <2>2. rows \subseteq Mature(DOMAIN pto)
    BY DEF Mature, GetByDateRange
  <2>3. \A v \in versions : Group(v) # {} /\ Group(v) \subseteq Mature(DOMAIN pto)
    BY <2>2
  <2>4. ASSUME NEW k \in DOMAIN results', NEW row, row = results'[k]
        PROVE  row.returns = row.picks /\ row.wins <= row.returns /\ row.first <= row.last
    <3>1. CASE k \in stored \X {today}
      <4>1. row = Result(Group(k[1])) /\ k[1] \in versions
        BY <2>1, <2>4, <3>1 DEF UpsertExperiments, Upserted
      <4> HIDE DEF Group, versions
      <4> QED
        BY <2>3, <4>1, CountedRows
    <3>2. CASE k \notin stored \X {today}
      <4>1. k \in DOMAIN results /\ row = results[k]
        BY <2>1, <2>4, <3>2 DEF UpsertExperiments, Upserted
      <4> QED
        BY <4>1 DEF ResultsInv
    <3> QED
      BY <3>1, <3>2
  <2> QED
    BY <2>4 DEF ResultsInv
<1>3. RunNightlyPromptExperimentJob \/ UNCHANGED results
  BY DEF Next, NextDay, StartNightly, StartAttribution, RunTradeOutcomeJob, AttributeDate,
         EndAttribution, UpdateOutcomes, StoreMemories, Stop, vars
<1> QED
  BY <1>1, <1>2, <1>3

\* What an exit in a row says of the candles.
LEMMA ExitSeen ==
  ASSUME WorldInv, NEW k \in Shown, NEW row, RowInv(k, row), row.exit.type # "none"
  PROVE  /\ row.exit.type = "stop" => \E d \in DOMAIN candles[k[2]] : d >= k[1] /\ Stops(candles[k[2]], row.levels, d)
         /\ row.exit.t1Hit => \E d \in DOMAIN candles[k[2]] : d >= k[1] /\ Touches1(candles[k[2]], row.levels, d)
<1> DEFINE bars == candles[k[2]]
           x == row.exit
<1>1. k[1] \in Nat /\ k[2] \in Tickers /\ today \in Nat
  BY ShownTyped
<1>2. DOMAIN bars \subseteq Nat
  BY <1>1 DEF WorldInv
<1>3. PICK c \in 0 .. today : Exited(k, row, c)
  BY DEF RowInv, NoExit
<1> DEFINE S == PathTo(k[2], k[1], c)
<1>4. IsExit(bars, row.levels, S, x)
  BY <1>3 DEF Exited
<1>5. \A d \in S : d \in DOMAIN bars /\ d >= k[1]
  <2>1. c \in Nat /\ c <= c
    BY <1>1
  <2> QED
    BY <1>1, <1>2, <2>1, PathGrows
<1> HIDE DEF bars, x, S
<1>6. x.type = "stop" => \E d \in DOMAIN bars : d >= k[1] /\ Stops(bars, row.levels, d)
  BY <1>4, <1>5 DEF IsExit
<1>7. x.t1Hit => \E d \in DOMAIN bars : d >= k[1] /\ Touches1(bars, row.levels, d)
  BY <1>4, <1>5 DEF IsExit
<1> QED
  BY <1>6, <1>7 DEF bars, x

\* A verdict says what the candles say on the day it is given.
LEMMA VerdictGiven ==
  ASSUME WorldInv, PtoInv, NEW k \in Picked, today - k[1] >= VerdictAfter,
         memory[k].status = "pending"
  PROVE  VerdictInv(k, Verdict(k))
<1> DEFINE bars == candles[k[2]]
           l == evaluations[k[1]].picks[k[2]]
           v == Verdict(k)
<1>1. /\ k[1] \in Nat /\ k[2] \in Tickers /\ today \in Nat /\ k = <<k[1], k[2]>>
      /\ k[2] \in DOMAIN evaluations[k[1]].picks
  BY ShownTyped DEF Picked
<1>2. CASE Matched(k) = {}
  <2>1. CASE today - k[1] > GiveUpAfter
    <3>1. v.status = "insufficient_data"
      BY <1>2, <2>1 DEF Verdict, PendingMemory
    <3> QED
      BY <2>1, <3>1 DEF VerdictInv
  <2>2. CASE ~(today - k[1] > GiveUpAfter)
    <3>1. v = memory[k]
      BY <1>2, <2>2 DEF Verdict
    <3> QED
      BY <3>1 DEF VerdictInv
  <2> QED
    BY <2>1, <2>2
<1>3. CASE Matched(k) # {}
  <2>1. \A j \in Matched(k) : j = k /\ k \in DOMAIN pto /\ pto[k].days >= FiveDays
    <3> SUFFICES ASSUME NEW j \in Matched(k) PROVE j = k /\ k \in DOMAIN pto /\ pto[k].days >= FiveDays
      OBVIOUS
    <3>1. j \in DOMAIN pto /\ j[1] \in k[1] .. k[1] /\ j[2] = k[2] /\ pto[j].days >= FiveDays
      BY DEF Matched, GetByDateRange
    <3>2. j \in Shown
      BY <3>1 DEF PtoInv
    <3>3. j = <<j[1], j[2]>> /\ j[1] \in Nat
      BY <3>2, ShownTyped
    <3>4. j[1] = k[1]
      BY <1>1, <3>1, <3>3
    <3>5. j = k
      BY <1>1, <3>1, <3>3, <3>4
    <3> QED
      BY <3>1, <3>5
  <2>2. (CHOOSE j \in Matched(k) : TRUE) = k /\ k \in DOMAIN pto /\ pto[k].days >= FiveDays
    BY <1>3, <2>1
  <2> DEFINE row == pto[k]
  <2>3. /\ v.status = "verified" /\ v.ret = row.ret
        /\ v.stop = Flag(row.exit, row.exit.type = "stop")
        /\ v.target = Flag(row.exit, row.exit.type # "none" /\ row.exit.t1Hit)
    BY <1>3, <2>2 DEF Verdict
  <2>4. k \in Shown /\ RowInv(k, row)
    BY <2>2 DEF PtoInv
  <2>5. row.levels = l
    BY <1>1, <2>4 DEF RowInv
  <2>6. FiveDays \in Nat \ {0}
    BY Constants
  <2>7. PICK c \in 0 .. today : Evaluated(k, row, c)
    BY <2>2, <2>4, <2>6 DEF RowInv
  <2>8. row.days = OutcomeOn(bars, k[1], c).days /\ row.ret = OutcomeOn(bars, k[1], c).ret
    BY <2>7, OutcomeByCandles DEF Evaluated
  <2>9. DOMAIN bars \subseteq Nat /\ c \in Nat /\ c <= today
    BY <1>1 DEF WorldInv
  <2>10. row.ret = OutcomeOn(bars, k[1], today).ret
    BY <1>1, <2>2, <2>8, <2>9, ReturnStands
  <2>11. row.ret # "null"
    BY <2>2, RowReturns
  <2>12. v.stop = "yes" => \E d \in DOMAIN bars : d >= k[1] /\ Stops(bars, l, d)
    <3>1. v.stop = "yes" => row.exit.type # "none" /\ row.exit.type = "stop"
      BY <2>3 DEF Flag
    <3> QED
      BY <2>4, <2>5, <3>1, ExitSeen
  <2>13. v.target = "yes" => \E d \in DOMAIN bars : d >= k[1] /\ Touches1(bars, l, d)
    <3>1. v.target = "yes" => row.exit.type # "none" /\ row.exit.t1Hit
      BY <2>3 DEF Flag
    <3> QED
      BY <2>4, <2>5, <3>1, ExitSeen
  <2> HIDE DEF v, row
  <2>14. VerdictInv(k, v)
    BY <2>3, <2>10, <2>11, <2>12, <2>13 DEF VerdictInv
  <2> QED
    BY <2>14 DEF v
<1> QED
  BY <1>2, <1>3

\* A verdict that was given is not belied by later candles.
LEMMA VerdictStays ==
  ASSUME WorldInv, WorldInv', StandStill \/ DaysStand, NEW k \in Picked, NEW v, VerdictInv(k, v)
  PROVE  VerdictInv(k, v)'
<1>1. /\ k[1] \in Nat /\ k[2] \in Tickers /\ today \in Nat /\ k[1] \in DOMAIN evaluations
      /\ evaluations'[k[1]] = evaluations[k[1]]
  BY ShownTyped DEF StandStill, DaysStand
<1>2. CASE StandStill
  BY <1>2 DEF StandStill, VerdictInv
<1>3. CASE DaysStand
  <2> DEFINE bars == candles[k[2]]
             next == candles'[k[2]]
             l == evaluations[k[1]].picks[k[2]]
  <2>1. /\ today' = today + 1 /\ DOMAIN bars \subseteq DOMAIN next
        /\ DOMAIN next \subseteq DOMAIN bars \cup {today + 1}
        /\ \A d \in DOMAIN bars : next[d] = bars[d]
    BY <1>1, <1>3 DEF DaysStand
  <2>2. DOMAIN bars \subseteq Nat /\ DOMAIN next \subseteq Nat
    BY <1>1 DEF WorldInv
  <2>3. ASSUME OutcomeOn(bars, k[1], today).ret # "null"
        PROVE  OutcomeOn(next, k[1], today + 1).ret = OutcomeOn(bars, k[1], today).ret
    <3>1. OutcomeOn(bars, k[1], today).days >= FiveDays
      BY <1>1, <2>2, <2>3, ReturnIsKnown
    <3>2. \A d \in Nat : d <= today => (d \in DOMAIN next <=> d \in DOMAIN bars)
      BY <1>1, <2>1
    <3> HIDE DEF bars, next
    <3>3. OutcomeOn(next, k[1], today) = OutcomeOn(bars, k[1], today)
      BY <1>1, <2>1, <2>2, <3>2, SameCandlesSameOutcome
    <3>4. today + 1 \in Nat /\ today <= today + 1
      BY <1>1
    <3> QED
      BY <1>1, <2>2, <3>1, <3>3, <3>4, ReturnStands
  <2>4. ASSUME \E d \in DOMAIN bars : d >= k[1] /\ Stops(bars, l, d)
        PROVE  \E d \in DOMAIN next : d >= k[1] /\ Stops(next, l, d)
    BY <2>1, <2>4 DEF Stops
  <2>5. ASSUME \E d \in DOMAIN bars : d >= k[1] /\ Touches1(bars, l, d)
        PROVE  \E d \in DOMAIN next : d >= k[1] /\ Touches1(next, l, d)
    BY <2>1, <2>5 DEF Touches1
  <2>6. /\ today - k[1] >= VerdictAfter => today + 1 - k[1] >= VerdictAfter
        /\ today - k[1] > GiveUpAfter => today + 1 - k[1] > GiveUpAfter
    BY <1>1, Constants
  <2>7. l = evaluations'[k[1]].picks[k[2]]
    BY <1>1
  <2>0. v.status \in {"pending", "verified", "insufficient_data"}
    BY DEF VerdictInv
  <2>8. /\ v.status = "verified" =>
             /\ today - k[1] >= VerdictAfter
             /\ v.ret # "null" /\ v.ret = OutcomeOn(bars, k[1], today).ret
             /\ v.stop = "yes" => \E d \in DOMAIN bars : d >= k[1] /\ Stops(bars, l, d)
             /\ v.target = "yes" => \E d \in DOMAIN bars : d >= k[1] /\ Touches1(bars, l, d)
        /\ v.status = "insufficient_data" => today - k[1] > GiveUpAfter
    BY DEF VerdictInv
  <2> HIDE DEF bars, next, l
  <2>9. ASSUME v.status = "verified"
        PROVE  /\ today + 1 - k[1] >= VerdictAfter
               /\ v.ret # "null" /\ v.ret = OutcomeOn(next, k[1], today + 1).ret
               /\ v.stop = "yes" => \E d \in DOMAIN next : d >= k[1] /\ Stops(next, l, d)
               /\ v.target = "yes" => \E d \in DOMAIN next : d >= k[1] /\ Touches1(next, l, d)
    <3>1. v.stop = "yes" => \E d \in DOMAIN next : d >= k[1] /\ Stops(next, l, d)
      BY <2>4, <2>8, <2>9
    <3>2. v.target = "yes" => \E d \in DOMAIN next : d >= k[1] /\ Touches1(next, l, d)
      BY <2>5, <2>8, <2>9
    <3> QED
      BY <2>3, <2>6, <2>8, <2>9, <3>1, <3>2
  <2>10. v.status = "insufficient_data" => today + 1 - k[1] > GiveUpAfter
    BY <2>6, <2>8
  <2>11. v.status = "insufficient_data" => today' - k[1] > GiveUpAfter
    BY <1>1, <2>1, <2>10
  <2>12. v.status = "verified" => today + 1 - k[1] >= VerdictAfter
    BY <2>9
  <2>13. v.status = "verified" => today' - k[1] >= VerdictAfter
    BY <1>1, <2>1, <2>12
  <2>14. v.status = "verified" => v.ret # "null" /\ v.ret = OutcomeOn(next, k[1], today + 1).ret
    BY <2>9
  <2>15. v.status = "verified" => v.ret # "null" /\ v.ret = OutcomeOn(next, k[1], today').ret
    BY <2>1, <2>14
  <2>16. v.status = "verified" =>
           /\ v.stop = "yes" => \E d \in DOMAIN next : d >= k[1] /\ Stops(next, l, d)
           /\ v.target = "yes" => \E d \in DOMAIN next : d >= k[1] /\ Touches1(next, l, d)
    BY <2>9
  <2> USE DEF next
  <2> QED
    BY <2>0, <2>7, <2>11, <2>13, <2>15, <2>16 DEF VerdictInv
<1> QED
  BY <1>2, <1>3

\* Every memo keeps its verdict, or is pending until its time.
LEMMA MemoryKept ==
  ASSUME WorldInv, PtoInv, MemoryInv, [Next]_vars
  PROVE  MemoryInv'
<1>1. (StandStill \/ DaysStand) /\ WorldInv' /\ Picked \subseteq Picked'
  BY WorldMoves, ShownStays
<1>2. ASSUME NEW k \in Picked, NEW v, VerdictInv(k, v)
      PROVE  k \in Picked' /\ VerdictInv(k, v)'
  BY <1>1, <1>2, VerdictStays
<1>3. ASSUME NEW k \in DOMAIN memory, NEW v, v = memory[k]
      PROVE  k \in Picked' /\ VerdictInv(k, v)'
  BY <1>2, <1>3 DEF MemoryInv
<1>4. CASE UNCHANGED memory
  BY <1>3, <1>4 DEF MemoryInv
<1>5. ASSUME NEW date \in DOMAIN evaluations, StoreMemories(date) PROVE MemoryInv'
  <2>1. PICK embedded \in SUBSET DOMAIN evaluations[date].picks : memory' = UpsertMemory(date, embedded)
    BY <1>5 DEF StoreMemories
  <2>2. ASSUME NEW k \in DOMAIN memory', NEW v, v = memory'[k]
        PROVE  k \in Picked' /\ VerdictInv(k, v)'
    <3>1. CASE k \in {date} \X embedded
      <4>1. v = PendingMemory
        BY <2>1, <2>2, <3>1 DEF UpsertMemory, Upserted
      <4>2. k \in Picked
        BY <3>1, AnswersTyped DEF Picked, Keys
      <4>3. VerdictInv(k, v)
        BY <4>1 DEF VerdictInv, PendingMemory
      <4> QED
        BY <1>2, <4>2, <4>3
    <3>2. CASE k \notin {date} \X embedded
      <4>1. k \in DOMAIN memory /\ v = memory[k]
        BY <2>1, <2>2, <3>2 DEF UpsertMemory, Upserted
      <4> QED
        BY <1>3, <4>1
    <3> QED
      BY <3>1, <3>2
  <2> QED
    BY <2>2 DEF MemoryInv
<1>6. CASE UpdateOutcomes
  <2>1. PICK done \in SUBSET {k \in GetPendingOutcomes : today - k[1] >= VerdictAfter} :
          memory' = UpdateOutcome(done)
    BY <1>6 DEF UpdateOutcomes
  <2>2. ASSUME NEW k \in DOMAIN memory', NEW v, v = memory'[k]
        PROVE  k \in Picked' /\ VerdictInv(k, v)'
    <3>1. CASE k \in done
      <4>1. v = Verdict(k)
        BY <2>1, <2>2, <3>1 DEF UpdateOutcome, Upserted
      <4>2. k \in Picked /\ today - k[1] >= VerdictAfter /\ memory[k].status = "pending"
        BY <2>1, <3>1 DEF GetPendingOutcomes, MemoryInv
      <4>3. VerdictInv(k, v)
        BY <4>1, <4>2, VerdictGiven
      <4> QED
        BY <1>2, <4>2, <4>3
    <3>2. CASE k \notin done
      <4>1. k \in DOMAIN memory /\ v = memory[k]
        BY <2>1, <2>2, <3>2 DEF UpdateOutcome, Upserted
      <4> QED
        BY <1>3, <4>1
    <3> QED
      BY <3>1, <3>2
  <2> QED
    BY <2>2 DEF MemoryInv
<1>7. UpdateOutcomes \/ UNCHANGED memory \/ \E date \in DOMAIN evaluations : StoreMemories(date)
  BY DEF Next, NextDay, StartNightly, StartAttribution, RunTradeOutcomeJob, AttributeDate,
         EndAttribution, RunNightlyPromptExperimentJob, Stop, vars
<1> QED
  BY <1>4, <1>5, <1>6, <1>7

\* Before the first day nothing is shown, tracked or remembered.
LEMMA Initially ==
  Init => LearningInv
<1> SUFFICES ASSUME Init PROVE LearningInv
  OBVIOUS
<1>1. WorldInv
  BY Constants DEF Init, WorldInv, BarsOK
<1>2. RunInv
  BY Constants DEF Init, Idle, RunInv
<1>3. OutcomesInv /\ PtoInv /\ ResultsInv /\ MemoryInv
  BY DEF Init, OutcomesInv, PtoInv, ResultsInv, MemoryInv
<1> QED
  BY <1>1, <1>2, <1>3 DEF LearningInv

LEMMA Invariance == Spec => []LearningInv
<1>1. LearningInv /\ [Next]_vars => LearningInv'
  BY WorldMoves, RunKept, OutcomesKept, PtoKept, ResultsKept, MemoryKept DEF LearningInv
<1> QED
  BY <1>1, Initially, PTL DEF Spec

-----------------------------------------------------------------------------
(* What follows from it *)

\* An exit belongs to a recommended, valid row and has its fields.
LEMMA ExitTyped ==
  ASSUME WorldInv, NEW k \in Shown, NEW row, RowInv(k, row), row.exit # NoExit
  PROVE  row.recommended /\ ~row.invalid /\ ExitOK(row.exit)
<1> DEFINE bars == candles[k[2]]
           l == row.levels
           x == row.exit
<1>1. /\ k[1] \in Nat /\ k[2] \in Tickers /\ today \in Nat /\ k[1] \in DOMAIN evaluations
  BY ShownTyped
<1>2. DOMAIN bars \subseteq Nat /\ DOMAIN bars \subseteq 1 .. today /\ BarsOK(bars) /\ today <= MaxDay
  BY <1>1 DEF WorldInv
<1>3. PICK c \in 0 .. today : Exited(k, row, c)
  BY DEF RowInv
<1>4. /\ k[2] \in DOMAIN evaluations[k[1]].picks /\ HasLevels(l)
      /\ l = evaluations[k[1]].picks[k[2]] /\ row.recommended = TRUE /\ ~row.invalid
  BY DEF RowInv
<1>5. l.stop \in Int
  BY <1>1, <1>4, AnswersTyped DEF HasLevels, LevelsTyped
<1> DEFINE S == PathTo(k[2], k[1], c)
<1>6. IsExit(bars, l, S, x)
  BY <1>3 DEF Exited
<1>7. \A d \in S : d \in DOMAIN bars /\ d \in 1 .. MaxDay /\ d # 0
  <2>1. c \in Nat /\ c <= c
    BY <1>1
  <2>2. \A d \in S : d \in DOMAIN bars
    BY <1>1, <1>2, <2>1, PathGrows
  <2>3. \A d \in DOMAIN bars : d \in 1 .. MaxDay /\ d # 0
    BY <1>1, <1>2, Constants
  <2> QED
    BY <2>2, <2>3
<1> HIDE DEF bars, x, S, l
<1>8. CASE S = {}
  BY <1>4, <1>6, <1>8 DEF IsExit, ExitOK, x
<1>9. CASE S # {}
  <2>1. x.day \in S /\ x.day \in DOMAIN bars /\ x.day # 0 /\ x.day \in 1 .. MaxDay
    BY <1>6, <1>7, <1>9 DEF IsExit
  <2>2. CandleOK(bars[x.day])
    BY <1>2, <2>1 DEF BarsOK
  <2>3. CASE x.type = "stop"
    <3>1. x.price = l.stop /\ Stops(bars, l, x.day)
      BY <1>6, <1>9, <2>3 DEF IsExit
    <3>2. bars[x.day].low \in Nat \ {0}
      BY <2>2 DEF CandleOK
    <3>3. x.price > 0
      BY <1>5, <3>1, <3>2 DEF Stops
    <3> QED
      BY <1>4, <2>1, <2>3, <3>3 DEF ExitOK, x
  <2>4. CASE x.type = "target_2"
    <3>1. x.price = Target2(l) /\ Reaches(bars, l, x.day)
      BY <1>6, <1>9, <2>4 DEF IsExit
    <3> QED
      BY <1>4, <2>1, <2>4, <3>1 DEF ExitOK, Reaches, x
  <2>5. CASE x.type = "time"
    <3>1. x.price = ExitClose(bars[x.day])
      BY <1>6, <1>9, <2>5 DEF IsExit
    <3>2. ExitClose(bars[x.day]) \in Nat \ {0}
      BY <2>2 DEF CandleOK, ExitClose
    <3>3. x.price > 0
      BY <3>1, <3>2
    <3> QED
      BY <1>4, <2>1, <2>5, <3>3 DEF ExitOK, x
  <2> QED
    BY <1>6, <2>3, <2>4, <2>5 DEF IsExit
<1> QED
  BY <1>8, <1>9

\* Every reachable state has well-formed tables.
THEOREM TypeCorrect == Spec => []TypeOK
<1>1. ASSUME LearningInv PROVE TypeOK
  <2>0. WorldInv /\ RunInv /\ OutcomesInv /\ PtoInv /\ ResultsInv /\ MemoryInv
    BY <1>1 DEF LearningInv
  <2>1. /\ today \in 0 .. MaxDay /\ run.date \in 0 .. today /\ run.back \in 1 .. Lookback + 1
        /\ run.pc \in {"idle", "outcomes", "attribute", "experiments", "memory"}
        /\ \A t \in Tickers : DOMAIN candles[t] \subseteq 1 .. today
        /\ DOMAIN evaluations \subseteq 1 .. today
    BY <2>0 DEF WorldInv, RunInv
  <2>2. UNION {DOMAIN outcomes, DOMAIN pto, DOMAIN memory} \subseteq Keys
    BY <2>0 DEF OutcomesInv, PtoInv, MemoryInv, Shown, Picked
  <2>3. ASSUME NEW k \in DOMAIN outcomes
        PROVE  /\ outcomes[k].days \in 1 .. Horizon
               /\ outcomes[k].ret # "null" <=> outcomes[k].days >= FiveDays
    <3>1. k \in Shown
      BY <2>0 DEF OutcomesInv
    <3>2. k[1] \in Nat /\ k[2] \in Tickers /\ today \in Nat
      BY <2>0, <3>1, ShownTyped
    <3>3. DOMAIN candles[k[2]] \subseteq Nat
      BY <2>0, <3>2 DEF WorldInv
    <3>4. PICK c \in 0 .. today : Evaluated(k, outcomes[k], c)
      BY <2>0 DEF OutcomesInv
    <3>5. /\ outcomes[k].days = OutcomeOn(candles[k[2]], k[1], c).days
          /\ outcomes[k].ret = OutcomeOn(candles[k[2]], k[1], c).ret
          /\ Tracked(candles[k[2]], k[1], c) # {} /\ c \in Nat
      BY <3>2, <3>4, OutcomeByCandles DEF Evaluated
    <3>6. /\ OutcomeOn(candles[k[2]], k[1], c).days \in 0 .. Horizon
          /\ OutcomeOn(candles[k[2]], k[1], c).days # 0
          /\ OutcomeOn(candles[k[2]], k[1], c).ret # "null"
               <=> OutcomeOn(candles[k[2]], k[1], c).days >= FiveDays
      BY <3>2, <3>3, <3>5, ReturnIsKnown
    <3> QED
      BY <3>5, <3>6, Constants
  <2>4. ASSUME NEW k \in DOMAIN pto
        PROVE  /\ k[2] \in evaluations[k[1]].input /\ pto[k].version = evaluations[k[1]].version
               /\ pto[k].ret \in Returns /\ (pto[k].ret # "null" <=> pto[k].days >= FiveDays)
               /\ pto[k].exit # NoExit => pto[k].recommended /\ ~pto[k].invalid /\ ExitOK(pto[k].exit)
    <3>1. k \in Shown /\ RowInv(k, pto[k])
      BY <2>0 DEF PtoInv
    <3>2. pto[k].exit # NoExit => pto[k].recommended /\ ~pto[k].invalid /\ ExitOK(pto[k].exit)
      BY <2>0, <3>1, ExitTyped
    <3>3. pto[k].ret \in Returns /\ (pto[k].ret # "null" <=> pto[k].days >= FiveDays)
      BY <2>0, RowReturns
    <3>4. k[2] \in evaluations[k[1]].input /\ pto[k].version = evaluations[k[1]].version
      BY <3>1 DEF Shown, RowInv
    <3> QED
      BY <3>2, <3>3, <3>4
  <2>5. \A k \in DOMAIN results :
          results[k].wins <= results[k].returns /\ results[k].first <= results[k].last
    BY <2>0 DEF ResultsInv
  <2>6. \A k \in DOMAIN memory : memory[k].status \in {"pending", "verified", "insufficient_data"}
    BY <2>0 DEF MemoryInv, VerdictInv
  <2> QED
    BY <2>1, <2>2, <2>3, <2>4, <2>5, <2>6 DEF TypeOK
<1> QED
  BY <1>1, Invariance, PTL

\* An exit that is stored is the first event of the trade's path, whatever
\* night stored it: a consequence of the candles of a day never changing and of a
\* session after the signal being there before anything is replayed.
THEOREM ExitFollowsThePathHolds == Spec => []ExitFollowsThePath
<1>1. ASSUME WorldInv, PtoInv PROVE ExitFollowsThePath
  <2> SUFFICES ASSUME NEW k \in DOMAIN pto, pto[k].exit.type # "none"
               PROVE  LET bars == candles[k[2]]
                          l == pto[k].levels
                          exit == pto[k].exit
                          path == {d \in DOMAIN bars : d \in k[1] .. exit.day}
                          halted == \A d \in k[1] .. k[1] + 2 * MaxExitDays : d \notin DOMAIN bars
                      IN  IF halted THEN exit.type = "time" /\ exit.day = 0
                          ELSE /\ exit.day \in path /\ Cardinality(path) <= MaxExitDays
                               /\ \A d \in path \ {exit.day} : ~Stops(bars, l, d) /\ ~Reaches(bars, l, d)
                               /\ exit.type = "stop" <=> Stops(bars, l, exit.day)
                               /\ exit.type = "target_2" <=> Reaches(bars, l, exit.day) /\ ~Stops(bars, l, exit.day)
                               /\ exit.t1Hit <=> \E d \in path : Touches1(bars, l, d)
    BY DEF ExitFollowsThePath, Stops, Reaches, Touches1
  <2> DEFINE bars == candles[k[2]]
             l == pto[k].levels
             x == pto[k].exit
             date == k[1]
             path == {d \in DOMAIN bars : d \in date .. x.day}
             halted == \A d \in date .. date + 2 * MaxExitDays : d \notin DOMAIN bars
  <2>1. k \in Shown /\ RowInv(k, pto[k]) /\ x # NoExit
    BY <1>1 DEF PtoInv, NoExit
  <2>2. date \in Nat /\ k[2] \in Tickers /\ today \in Nat
    BY <1>1, <2>1, ShownTyped
  <2>3. DOMAIN bars \subseteq Nat
    BY <1>1, <2>2 DEF WorldInv
  <2>4. PICK c \in 0 .. today : Exited(k, pto[k], c)
    BY <2>1 DEF RowInv
  <2>5. c \in Nat /\ MaxExitDays \in Nat /\ c <= c
    BY <2>2, Constants
  <2> DEFINE W == {d \in DOMAIN bars : d \in date .. date + 2 * MaxExitDays /\ d <= c}
             S == PathTo(k[2], date, c)
  <2>6. IsExit(bars, l, S, x) /\ \E d \in DOMAIN bars : d > date /\ d <= c
    BY <2>4 DEF Exited
  <2>7. S = FirstDays(W, MaxExitDays) /\ W \in SUBSET Nat /\ \A d \in W : d <= c
    BY <2>3 DEF PathTo
  <2>8. /\ S \subseteq W /\ Initial(S, W) /\ IsFiniteSet(S) /\ Cardinality(S) \in 0 .. MaxExitDays
        /\ W # {} => S # {}
    <3> HIDE DEF W, S
    <3>1. MaxExitDays > 0
      BY Constants
    <3> QED
      BY <2>5, <2>7, <3>1, FirstDaysSegment, FirstDaysSize DEF Initial
  <2> HIDE DEF S
  <2>9. CASE halted
    <3>1. W = {}
      BY <2>9
    <3>2. S = {}
      BY <2>8, <3>1
    <3> QED
      BY <2>6, <2>9, <3>2 DEF IsExit
  <2>10. CASE ~halted
    <3>1. S # {}
      <4>1. PICK d \in DOMAIN bars : d > date /\ d <= c
        BY <2>6
      <4>2. PICK e \in date .. date + 2 * MaxExitDays : e \in DOMAIN bars
        BY <2>10
      <4>3. d \in Nat /\ e \in Nat
        BY <2>3, <4>1, <4>2
      <4>4. CASE d <= date + 2 * MaxExitDays
        <5>1. d \in W
          BY <2>2, <2>5, <4>1, <4>3, <4>4
        <5> QED
          BY <2>8, <5>1
      <4>5. CASE d > date + 2 * MaxExitDays
        <5>1. e \in W
          BY <2>2, <2>5, <4>1, <4>2, <4>3, <4>5
        <5> QED
          BY <2>8, <5>1
      <4> QED
        BY <2>2, <2>5, <4>3, <4>4, <4>5
    <3>2. x.day \in S /\ x.day \in W /\ x.day \in Nat
      BY <2>6, <2>7, <2>8, <3>1 DEF IsExit
    <3>3. path = {d \in S : d <= x.day}
      <4>1. ASSUME NEW d \in DOMAIN bars, d \in date .. x.day PROVE d \in S /\ d <= x.day
        <5>1. d \in Nat /\ d <= x.day
          BY <2>2, <3>2, <4>1
        <5>2. d \in W
          BY <2>2, <2>5, <3>2, <4>1, <5>1
        <5> QED
          BY <2>8, <3>2, <5>1, <5>2 DEF Initial
      <4>2. ASSUME NEW d \in S, d <= x.day PROVE d \in DOMAIN bars /\ d \in date .. x.day
        BY <2>2, <2>3, <2>8, <3>2, <4>2
      <4> QED
        BY <4>1, <4>2
    <3>4. Cardinality(path) <= MaxExitDays
      <4>1. path \subseteq S
        BY <3>3
      <4>2. Cardinality(path) <= Cardinality(S) /\ IsFiniteSet(path)
        BY <2>8, <4>1, FS_Subset
      <4>3. Cardinality(path) \in Nat
        BY <4>2, FS_CardinalityType
      <4> QED
        BY <2>5, <2>8, <4>2, <4>3
    <3>5. x.day \in path
      BY <3>2, <3>3
    <3>6. \A d \in path \ {x.day} : ~Stops(bars, l, d) /\ ~Reaches(bars, l, d)
      <4>1. \A d \in S : d \in Nat
        BY <2>7, <2>8
      <4>2. \A d \in path \ {x.day} : d \in S /\ d < x.day
        BY <3>2, <3>3, <4>1
      <4> QED
        BY <2>6, <3>1, <4>2 DEF IsExit
    <3>7. /\ x.type = "stop" <=> Stops(bars, l, x.day)
          /\ x.type = "target_2" <=> Reaches(bars, l, x.day) /\ ~Stops(bars, l, x.day)
          /\ x.t1Hit <=> \E d \in S : d <= x.day /\ Touches1(bars, l, d)
      BY <2>6, <3>1 DEF IsExit
    <3>8. x.t1Hit <=> \E d \in path : Touches1(bars, l, d)
      BY <3>3, <3>7
    <3> HIDE DEF path, halted
    <3> QED
      BY <2>10, <3>4, <3>5, <3>6, <3>7, <3>8 DEF path, halted
  <2> QED
    BY <2>9, <2>10
<1> QED
  BY <1>1, Invariance, PTL DEF LearningInv

\* A verified memory tells the truth of the past, on every later day.
THEOREM VerdictsAreTrueHolds == Spec => []VerdictsAreTrue
<1>1. ASSUME WorldInv, MemoryInv PROVE VerdictsAreTrue
  <2> SUFFICES ASSUME NEW k \in DOMAIN memory
               PROVE  LET l == evaluations[k[1]].picks[k[2]]
                          bars == [d \in DOMAIN candles[k[2]] \ (1 .. k[1] - 1) |-> candles[k[2]][d]]
                          v == memory[k]
                      IN  /\ v.status = "verified" =>
                               /\ today - k[1] >= VerdictAfter
                               /\ v.ret # "null" /\ v.ret = EvaluateOutcome(k[2], k[1], today).ret
                               /\ v.stop = "yes" => \E d \in DOMAIN bars : bars[d].low <= l.stop
                               /\ v.target = "yes" => \E d \in DOMAIN bars : bars[d].high >= l.t1
                          /\ v.status = "insufficient_data" => today - k[1] > GiveUpAfter
    BY DEF VerdictsAreTrue
  <2> DEFINE l == evaluations[k[1]].picks[k[2]]
             all == candles[k[2]]
             bars == [d \in DOMAIN all \ (1 .. k[1] - 1) |-> all[d]]
             v == memory[k]
  <2>1. k \in Picked /\ VerdictInv(k, v)
    BY <1>1 DEF MemoryInv
  <2>2. k[1] \in Nat /\ k[2] \in Tickers
    BY <1>1, <2>1, ShownTyped
  <2>3. DOMAIN all \subseteq Nat
    BY <1>1, <2>2 DEF WorldInv
  <2>4. \A d \in DOMAIN all : d >= k[1] => d \in DOMAIN bars /\ bars[d] = all[d]
    BY <2>2, <2>3
  <2>5. OutcomeOn(all, k[1], today) = EvaluateOutcome(k[2], k[1], today)
    BY OutcomeByCandles
  <2> HIDE DEF bars
  <2>6. /\ v.status = "verified" =>
             today - k[1] >= VerdictAfter /\ v.ret # "null" /\ v.ret = OutcomeOn(all, k[1], today).ret
        /\ v.status = "insufficient_data" => today - k[1] > GiveUpAfter
    BY <2>1 DEF VerdictInv
  <2>7. v.status = "verified" /\ v.stop = "yes" => \E d \in DOMAIN bars : bars[d].low <= l.stop
    <3>1. v.status = "verified" /\ v.stop = "yes" => \E d \in DOMAIN all : d >= k[1] /\ Stops(all, l, d)
      BY <2>1 DEF VerdictInv
    <3> QED
      BY <2>4, <3>1 DEF Stops
  <2>8. v.status = "verified" /\ v.target = "yes" => \E d \in DOMAIN bars : bars[d].high >= l.t1
    <3>1. v.status = "verified" /\ v.target = "yes" => \E d \in DOMAIN all : d >= k[1] /\ Touches1(all, l, d)
      BY <2>1 DEF VerdictInv
    <3> QED
      BY <2>4, <3>1 DEF Touches1
  <2>9. /\ v.status = "verified" =>
             /\ today - k[1] >= VerdictAfter
             /\ v.ret # "null" /\ v.ret = EvaluateOutcome(k[2], k[1], today).ret
             /\ v.stop = "yes" => \E d \in DOMAIN bars : bars[d].low <= l.stop
             /\ v.target = "yes" => \E d \in DOMAIN bars : bars[d].high >= l.t1
        /\ v.status = "insufficient_data" => today - k[1] > GiveUpAfter
    BY <2>5, <2>6, <2>7, <2>8
  <2> QED
    BY <2>9 DEF bars
<1> QED
  BY <1>1, Invariance, PTL DEF LearningInv

\* The gap between conviction and winners: without a pick that lost it is not
\* positive, without one that won not negative.
LEMMA Gap ==
  ASSUME NEW conviction \in Nat, NEW n \in Nat, NEW m \in Nat, conviction <= 3 * m
  PROVE  /\ ~(100 * conviction * n - 100 * n * 3 * m > 15 * (3 * m * n))
         /\ ~(100 * conviction * n - 100 * 0 * 3 * m < -15 * (3 * m * n))
<1>1. conviction * n <= 3 * m * n
  BY Z3
<1>2. 0 <= 3 * m * n /\ 0 <= conviction * n
  BY Z3
<1>3. /\ 100 * conviction * n = 100 * (conviction * n)
      /\ 100 * n * 3 * m = 100 * (3 * m * n)
      /\ 100 * 0 * 3 * m = 0
  BY Z3
<1> DEFINE p == conviction * n
           q == 3 * m * n
<1>4. p \in Int /\ q \in Int
  OBVIOUS
<1> HIDE DEF p, q
<1>5. p <= q /\ 0 <= p /\ 0 <= q
  BY <1>1, <1>2 DEF p, q
<1>6. ~(100 * p - 100 * q > 15 * q) /\ ~(100 * p - 0 < -15 * q)
  BY <1>4, <1>5
<1> QED
  BY <1>3, <1>6 DEF p, q

\* A calibration flag is raised over a mature row that lost, or won.
LEMMA FlagsAreEarned ==
  ASSUME WorldInv, PtoInv, NEW rows, rows \subseteq Mature(DOMAIN pto)
  PROVE  /\ CalibrationFlag(rows) = "OVERCONFIDENT" => \E k \in rows : pto[k].ret = "loss"
         /\ CalibrationFlag(rows) = "UNDERCONFIDENT" => \E k \in rows : pto[k].ret = "win"
<1> DEFINE AtLeast(c) == {k \in rows : ConvictionToNumeric(pto[k].levels) >= c}
           n == Cardinality(rows)
           m == Max({Cardinality(AtLeast(1)), 1})
           conviction == Cardinality(AtLeast(1)) + Cardinality(AtLeast(2)) + Cardinality(AtLeast(3))
           won == Cardinality(Won(rows))
           d == 3 * m * n
           gap == 100 * conviction * n - 100 * won * 3 * m
<1>1. IsFiniteSet(rows) /\ n \in Nat
  <2>1. rows \subseteq DOMAIN pto
    BY DEF Mature
  <2> QED
    BY <2>1, RowsFinite, FS_Subset, FS_CardinalityType
<1>2. \A k \in rows : pto[k].ret = "win" \/ pto[k].ret = "loss"
  <2>1. \A k \in rows : k \in DOMAIN pto /\ pto[k].days >= FiveDays
    BY DEF Mature
  <2> QED
    BY <2>1, RowReturns DEF Returns
<1>3. conviction \in Nat /\ m \in Nat /\ conviction <= 3 * m
  <2>1. \A k \in rows : ConvictionToNumeric(pto[k].levels) \in 0 .. 3
    BY DEF ConvictionToNumeric
  <2>2. AtLeast(1) \subseteq rows /\ AtLeast(2) \subseteq AtLeast(1) /\ AtLeast(3) \subseteq AtLeast(1)
    BY <2>1
  <2> HIDE DEF AtLeast
  <2>3. /\ IsFiniteSet(AtLeast(1)) /\ IsFiniteSet(AtLeast(2)) /\ IsFiniteSet(AtLeast(3))
        /\ Cardinality(AtLeast(2)) <= Cardinality(AtLeast(1))
        /\ Cardinality(AtLeast(3)) <= Cardinality(AtLeast(1))
    BY <1>1, <2>2, FS_Subset
  <2>4. /\ Cardinality(AtLeast(1)) \in Nat /\ Cardinality(AtLeast(2)) \in Nat
        /\ Cardinality(AtLeast(3)) \in Nat
    BY <2>3, FS_CardinalityType
  <2>5. m \in {Cardinality(AtLeast(1)), 1} /\ m >= Cardinality(AtLeast(1))
    <3> DEFINE a == Cardinality(AtLeast(1))
    <3>1. a \in Nat
      BY <2>4
    <3> HIDE DEF a
    <3>2. \E x \in {a, 1} : \A y \in {a, 1} : x >= y
      BY <3>1
    <3>3. Max({a, 1}) \in {a, 1} /\ \A y \in {a, 1} : Max({a, 1}) >= y
      BY <3>2 DEF Max
    <3> QED
      BY <3>3 DEF a
  <2> HIDE DEF m
  <2> QED
    BY <2>3, <2>4, <2>5
<1>4. CalibrationFlag(rows) = CASE gap > 15 * d  -> "OVERCONFIDENT"
                                [] gap < -15 * d -> "UNDERCONFIDENT"
                                [] OTHER         -> "OK"
  BY DEF CalibrationFlag
<1> HIDE DEF conviction, m
<1>5. ASSUME \A k \in rows : pto[k].ret # "loss" PROVE CalibrationFlag(rows) # "OVERCONFIDENT"
  <2>1. Won(rows) = rows
    BY <1>2, <1>5 DEF Won
  <2>2. won = n
    BY <2>1
  <2> HIDE DEF n, won
  <2>3. ~(gap > 15 * d)
    BY <1>1, <1>3, <2>2, Gap
  <2> HIDE DEF gap, d
  <2> QED
    BY <1>4, <2>3
<1>6. ASSUME \A k \in rows : pto[k].ret # "win" PROVE CalibrationFlag(rows) # "UNDERCONFIDENT"
  <2>1. Won(rows) = {}
    BY <1>6 DEF Won
  <2>2. won = 0
    BY <2>1, FS_EmptySet
  <2> HIDE DEF n, won
  <2>3. ~(gap < -15 * d)
    BY <1>1, <1>3, <2>2, Gap
  <2> HIDE DEF gap, d
  <2> QED
    BY <1>4, <2>3
<1> QED
  BY <1>2, <1>5, <1>6

\* No pick is judged before its return is known.
THEOREM OnlyMaturePicksCountHolds == Spec => []OnlyMaturePicksCount
<1>1. ASSUME WorldInv, PtoInv, ResultsInv PROVE OnlyMaturePicksCount
  <2> DEFINE report == GenerateCalibrationReport(today - ExperimentDays, today)
             Picks(s, ret) ==
               {k \in DOMAIN pto : pto[k].recommended /\ pto[k].levels.setup = s /\ pto[k].ret = ret}
             rows == {k \in Mature(GetByDateRange(today - ExperimentDays, today)) :
                        "setup" \in DOMAIN pto[k].levels}
             OfSetup(s) == {k \in rows : pto[k].levels.setup = s}
  <2>1. \A s \in DOMAIN report : report[s].flag = CalibrationFlag(OfSetup(s))
    BY DEF GenerateCalibrationReport
  <2>2. ASSUME NEW s \in DOMAIN report
        PROVE  /\ report[s].flag = "OVERCONFIDENT" => Picks(s, "loss") # {}
               /\ report[s].flag = "UNDERCONFIDENT" => Picks(s, "win") # {}
    <3>1. OfSetup(s) \subseteq Mature(DOMAIN pto)
      BY DEF Mature, GetByDateRange
    <3>2. \A k \in OfSetup(s) : k \in DOMAIN pto /\ pto[k].recommended /\ pto[k].levels.setup = s
      BY <3>1 DEF Mature
    <3> HIDE DEF OfSetup
    <3>3. /\ CalibrationFlag(OfSetup(s)) = "OVERCONFIDENT" => \E k \in OfSetup(s) : pto[k].ret = "loss"
          /\ CalibrationFlag(OfSetup(s)) = "UNDERCONFIDENT" => \E k \in OfSetup(s) : pto[k].ret = "win"
      BY <1>1, <3>1, FlagsAreEarned
    <3> HIDE DEF report
    <3> QED
      BY <2>1, <3>2, <3>3
  <2>3. \A k \in DOMAIN results : results[k].returns = results[k].picks
    BY <1>1 DEF ResultsInv
  <2> QED
    BY <2>2, <2>3 DEF OnlyMaturePicksCount
<1> QED
  BY <1>1, Invariance, PTL DEF LearningInv

\* An exit by stop or target stands: a later night replays the same candles and
\* perhaps more, and what ended the trade ends it again.
THEOREM SettledExitStandsHolds == Spec => SettledExitStands
<1> DEFINE Settled == \A k \in DOMAIN pto :
             pto[k].exit.type \in {"stop", "target_2"}
               => k \in DOMAIN pto' /\ pto'[k].exit \in {pto[k].exit, NoExit}
<1>1. ASSUME WorldInv, PtoInv, [Next]_vars PROVE [Settled]_pto
  <2>1. ASSUME NEW date \in DOMAIN evaluations, NEW stored \in SUBSET evaluations[date].input, NEW loaded,
               pto' = UpsertOutcomes(date, stored, loaded)
        PROVE  Settled
    <3> SUFFICES ASSUME NEW k \in DOMAIN pto, pto[k].exit.type \in {"stop", "target_2"}
                 PROVE  k \in DOMAIN pto' /\ pto'[k].exit \in {pto[k].exit, NoExit}
      OBVIOUS
    <3>1. k \in DOMAIN pto'
      BY <2>1 DEF UpsertOutcomes, Upserted
    <3>2. CASE k \notin {date} \X stored
      <4>1. pto'[k] = pto[k]
        BY <2>1, <3>1, <3>2 DEF UpsertOutcomes, Upserted
      <4> QED
        BY <3>1, <4>1
    <3>3. CASE k \in {date} \X stored
      <4> DEFINE t == k[2]
                 new == Attributed(date, t, t \in loaded)
                 x == pto[k].exit
                 levels == evaluations[date].picks[t]
                 replayed == ReplayExitSequence(GetCandles(t, date, date + 2 * MaxExitDays), date, levels)
      <4>1. pto'[k] = new /\ k[1] = date
        BY <2>1, <3>1, <3>3 DEF UpsertOutcomes, Upserted
      <4>2. k \in Shown /\ RowInv(k, pto[k]) /\ x # NoExit
        BY <1>1 DEF PtoInv, NoExit
      <4>3. date \in Nat /\ t \in Tickers /\ today \in Nat
        BY <1>1, <4>1, <4>2, ShownTyped
      <4>4. DOMAIN candles[t] \subseteq 1 .. today /\ DOMAIN candles[t] \subseteq Nat
        BY <1>1, <4>3 DEF WorldInv
      <4>5. new.exit = NoExit \/ new.exit = replayed
        BY DEF Attributed, ComputePathAwareExit
      <4>6. PICK c \in 0 .. today : Exited(k, pto[k], c)
        BY <4>2 DEF RowInv
      <4>7. pto[k].levels = levels
        BY <4>1, <4>2 DEF RowInv
      <4>8. IsExit(candles[t], levels, PathTo(t, date, c), x)
        BY <4>1, <4>6, <4>7 DEF Exited
      <4>9. IsExit(candles[t], levels, PathTo(t, date, today), replayed)
        BY <4>3, <4>4, ReplayFollowsPath
      <4>10. /\ PathTo(t, date, c) \in SUBSET Nat /\ PathTo(t, date, today) \in SUBSET Nat
             /\ Initial(PathTo(t, date, c), PathTo(t, date, today))
        <5>1. c \in Nat /\ c <= today
          BY <4>3
        <5> QED
          BY <4>3, <4>4, <5>1, PathGrows
      <4>11. x.type # "time"
        OBVIOUS
      <4> HIDE DEF replayed, x, levels
      <4>12. replayed = x
        BY <4>8, <4>9, <4>10, <4>11, SettledExit
      <4> QED
        BY <3>1, <4>1, <4>5, <4>12 DEF x
    <3> QED
      BY <3>2, <3>3
  <2>2. CASE AttributeDate
    <3>1. ASSUME Attributable(run.date - run.back) PROVE run.date - run.back \in DOMAIN evaluations
      BY <3>1 DEF Attributable, GetEvaluationsByDate
    <3> HIDE DEF Settled
    <3> QED
      BY <2>1, <2>2, <3>1 DEF AttributeDate
  <2>3. AttributeDate \/ UNCHANGED pto
    BY <1>1 DEF Next, NextDay, StartNightly, StartAttribution, RunTradeOutcomeJob, EndAttribution,
           RunNightlyPromptExperimentJob, UpdateOutcomes, StoreMemories, Stop, vars
  <2> QED
    BY <2>2, <2>3
<1>2. LearningInv /\ [Next]_vars => [Settled]_pto
  BY <1>1 DEF LearningInv
<1> QED
  BY <1>2, Invariance, PTL DEF Spec, SettledExitStands
=============================================================================
