---------------------------- MODULE EventsProofs ----------------------------
(***************************************************************************)
(* Theorems about Events, for any number of subscriptions, any blocks with *)
(* events, any failures and any messages of the streams: the polling is    *)
(* one loop, events come in order, and who leaves has left.                *)
(***************************************************************************)
EXTENDS Events, FiniteSetTheorems, WellFoundedInduction, TLAPS

-----------------------------------------------------------------------------
(* The events of a range of blocks.                                         *)

\* A set of natural numbers has a least element: the way to prove by induction
\* what every number has.
LEMMA LeastNat ==
  ASSUME NEW T, T \subseteq Nat, T # {}
  PROVE  \E x \in T : \A y \in T : x <= y
<1> DEFINE R == OpToRel(<, Nat)
<1>1. IsWellFoundedOn(R, Nat)
  BY NatLessThanWellFounded
<1>2. \A x, y \in Nat : x < y => <<x, y>> \in R
  BY DEF OpToRel
<1> HIDE DEF R
<1>3. PICK x \in T : \A y \in T : ~ (<<y, x>> \in R)
  BY <1>1, WFMin
<1>4. \A y \in T : y \in Nat /\ x \in Nat /\ ~ (y < x)
  BY <1>2, <1>3
<1>5. \A y \in T : x <= y
  BY <1>4
<1> QED
  BY <1>5

\* E in order: as many as there are, one after another.
Sorted(q, E) == q \in [1 .. Cardinality(E) -> E] /\ Increasing(q)

Below(a, n) == EventBlocks \cap (a .. n - 1)

LEMMA FiniteBelow ==
  ASSUME NEW a \in Nat, NEW n \in Nat
  PROVE  IsFiniteSet(Below(a, n)) /\ Cardinality(Below(a, n)) \in Nat
<1>1. IsFiniteSet(a .. n - 1)
  BY FS_Interval
<1>2. Below(a, n) \in SUBSET (a .. n - 1)
  BY DEF Below
<1>3. IsFiniteSet(Below(a, n))
  BY <1>1, <1>2, FS_Subset
<1> QED
  BY <1>3, FS_CardinalityType

LEMMA SortedExists ==
  ASSUME NEW a \in Nat
  PROVE  \A n \in Nat : \E q : Sorted(q, Below(a, n))
<1> DEFINE T == {n \in Nat : ~ \E q : Sorted(q, Below(a, n))}
<1> SUFFICES ASSUME T # {} PROVE FALSE
  OBVIOUS
<1>1. PICK n \in T : \A m \in T : n <= m
  BY LeastNat
<1>2. n \in Nat /\ ~ \E q : Sorted(q, Below(a, n))
  OBVIOUS
<1>3. CASE n = 0
  <2>1. Below(a, n) = {}
    BY <1>3, LegacyAssumption DEF Below
  <2>2. Cardinality(Below(a, n)) = 0
    BY <2>1, FS_EmptySet
  <2>3. << >> \in [1 .. Cardinality(Below(a, n)) -> Below(a, n)]
    BY <2>1, <2>2
  <2>4. Sorted(<< >>, Below(a, n))
    BY <2>3 DEF Sorted, Increasing
  <2> QED
    BY <1>2, <2>4
<1>4. CASE n # 0
  <2> DEFINE m == n - 1
             E == Below(a, m)
             F == Below(a, n)
  <2>1. m \in Nat /\ m \notin T
    BY <1>1, <1>2, <1>4
  <2>2. PICK q : Sorted(q, E)
    BY <2>1
  <2>3. \A h \in E : h \in Nat /\ h < m
    BY <2>1, LegacyAssumption DEF Below
  <2>4. IsFiniteSet(E) /\ Cardinality(E) \in Nat
    BY <2>1, FiniteBelow
  <2>5. CASE m \in EventBlocks /\ a <= m
    <3>1. F = E \cup {m}
      BY <1>2, <2>1, <2>5, LegacyAssumption DEF Below
    <3>2. m \notin E
      BY <2>1, <2>3
    <3>3. Cardinality(F) = Cardinality(E) + 1
      BY <2>4, <3>1, <3>2, FS_AddElement
    <3> HIDE DEF E, F, m
    <3> DEFINE c == Cardinality(E)
               p == [i \in 1 .. c + 1 |-> IF i = c + 1 THEN m ELSE q[i]]
    <3>4. q \in [1 .. c -> E] /\ \A i, j \in 1 .. Len(q) : i < j => q[i] < q[j]
      BY <2>2 DEF Sorted, Increasing
    <3>5. Len(q) = c
      BY <2>4, <3>4
    <3> HIDE DEF c
    <3>6. c \in Nat /\ Len(p) = c + 1
      BY <2>4 DEF c
    <3>7. \A i \in 1 .. c : q[i] \in E
      BY <3>4
    <3>8. p \in [1 .. c + 1 -> F]
      BY <3>1, <3>6, <3>7
    <3>9. ASSUME NEW i \in 1 .. Len(p), NEW j \in 1 .. Len(p), i < j PROVE p[i] < p[j]
      <4>1. i \in 1 .. c /\ p[i] = q[i]
        BY <3>6, <3>9
      <4>2. CASE j = c + 1
        BY <2>3, <3>6, <3>7, <4>1, <4>2
      <4>3. CASE j # c + 1
        <5>1. j \in 1 .. c /\ p[j] = q[j]
          BY <3>6, <3>9, <4>3
        <5> QED
          BY <3>4, <3>5, <3>9, <4>1, <5>1
      <4> QED
        BY <4>2, <4>3
    <3>10. Sorted(p, F)
      BY <3>3, <3>8, <3>9 DEF Sorted, Increasing, c
    <3> QED
      BY <1>2, <3>10 DEF F
  <2>6. CASE ~ (m \in EventBlocks /\ a <= m)
    <3>1. F = E
      BY <1>2, <2>1, <2>6, LegacyAssumption DEF Below
    <3> QED
      BY <1>2, <2>2, <3>1
  <2> QED
    BY <2>5, <2>6
<1> QED
  BY <1>3, <1>4

\* What the actor broadcasts of the blocks a to b: the events of these blocks,
\* all of them, each followed by the next.
LEMMA EventsInOrder ==
  ASSUME NEW a \in Nat, NEW b \in Nat
  PROVE  /\ EventsIn(a, b) \in Seq(EventBlocks)
         /\ \A i \in 1 .. Len(EventsIn(a, b)) :
              /\ a <= EventsIn(a, b)[i] /\ EventsIn(a, b)[i] <= b
              /\ i > 1 => Follows(EventsIn(a, b)[i - 1], EventsIn(a, b)[i])
         /\ \A e \in EventBlocks : a <= e /\ e <= b =>
              \E i \in 1 .. Len(EventsIn(a, b)) : EventsIn(a, b)[i] = e
         /\ \A e \in EventBlocks, i \in 1 .. Len(EventsIn(a, b)) :
              a <= e /\ e <= b => e <= EventsIn(a, b)[Len(EventsIn(a, b))]
                                  /\ EventsIn(a, b)[1] <= e
<1> DEFINE E == EventBlocks \cap (a .. b)
           q == EventsIn(a, b)
           n == Cardinality(E)
<1>1. E = Below(a, b + 1) /\ b + 1 \in Nat
  <2>1. (b + 1) - 1 = b
    OBVIOUS
  <2> QED
    BY <2>1 DEF Below
<1>2. IsFiniteSet(E) /\ n \in Nat
  BY <1>1, FiniteBelow
<1>3. \E p \in [1 .. n -> E] : Increasing(p)
  <2>1. \E p : Sorted(p, E)
    BY <1>1, SortedExists
  <2> QED
    BY <2>1 DEF Sorted
<1>4. q \in [1 .. n -> E] /\ Increasing(q)
  BY <1>3 DEF EventsIn
<1>5. \A e \in E : e \in EventBlocks /\ e \in Nat /\ a <= e /\ e <= b
  BY LegacyAssumption
<1>6. \A e \in EventBlocks : a <= e /\ e <= b => e \in E
  BY LegacyAssumption
<1> HIDE DEF E, q
<1>7. Len(q) = n /\ q \in Seq(EventBlocks) /\ \A i \in 1 .. n : q[i] \in E
  BY <1>2, <1>4, <1>5
<1>8. \A i, j \in 1 .. n : i < j => q[i] < q[j]
  BY <1>4, <1>7 DEF Increasing
<1>9. q \in Injection(1 .. n, E)
  <2>1. \A i, j \in 1 .. n : q[i] = q[j] => i = j
    <3> SUFFICES ASSUME NEW i \in 1 .. n, NEW j \in 1 .. n, q[i] = q[j], i < j PROVE FALSE
      BY <1>2
    <3>1. q[i] < q[j] /\ q[i] \in Nat
      BY <1>5, <1>7, <1>8
    <3> QED
      BY <3>1
  <2> QED
    BY <1>4, <2>1 DEF Injection, IsInjective
<1>10. q \in Surjection(1 .. n, E)
  <2>1. Cardinality(1 .. n) = n
    BY <1>2, FS_Interval
  <2> QED
    BY <1>2, <1>9, <2>1, FS_Injection
<1>11. \A e \in E : \E i \in 1 .. n : q[i] = e
  BY <1>10 DEF Surjection
<1>12. ASSUME NEW i \in 1 .. n, i > 1 PROVE Follows(q[i - 1], q[i])
  <2>1. i - 1 \in 1 .. n /\ q[i - 1] < q[i] /\ q[i - 1] \in E /\ q[i] \in E
    BY <1>2, <1>7, <1>8, <1>12
  <2>2. ASSUME NEW e \in EventBlocks, q[i - 1] < e, e < q[i] PROVE FALSE
    <3>1. e \in E
      BY <1>5, <1>6, <2>1, <2>2, LegacyAssumption
    <3>2. PICK j \in 1 .. n : q[j] = e
      BY <1>11, <3>1
    <3>3. q[j] \in Nat /\ q[i] \in Nat /\ q[i - 1] \in Nat
      BY <1>5, <1>7, <2>1
    <3>4. j < i
      <4>1. i < j => q[i] < q[j]
        BY <1>8
      <4> QED
        BY <1>2, <2>2, <3>2, <3>3, <4>1
    <3>5. j > i - 1
      <4>1. j < i - 1 => q[j] < q[i - 1]
        BY <1>8, <2>1
      <4> QED
        BY <1>2, <2>2, <3>2, <3>3, <4>1
    <3> QED
      BY <1>2, <3>4, <3>5
  <2>3. \A e \in EventBlocks : e \in Nat
    BY LegacyAssumption
  <2>4. \A e \in EventBlocks : e <= q[i - 1] \/ q[i] <= e
    BY <1>5, <2>1, <2>2, <2>3
  <2> QED
    BY <2>1, <2>4 DEF Follows
<1>13. ASSUME NEW e \in E PROVE e <= q[n] /\ q[1] <= e
  <2>1. PICK j \in 1 .. n : q[j] = e
    BY <1>11
  <2>2. n \in 1 .. n /\ 1 \in 1 .. n
    BY <1>2, <2>1
  <2>3. q[j] \in Nat /\ q[1] \in Nat /\ q[n] \in Nat
    BY <1>5, <1>7, <2>2
  <2>4. j < n => q[j] < q[n]
    BY <1>8, <2>2
  <2>5. 1 < j => q[1] < q[j]
    BY <1>8, <2>2
  <2> QED
    BY <1>2, <2>1, <2>3, <2>4, <2>5
<1>14. \A i \in 1 .. Len(q) : a <= q[i] /\ q[i] <= b /\ (i > 1 => Follows(q[i - 1], q[i]))
  BY <1>5, <1>7, <1>12
<1>15. \A e \in EventBlocks : a <= e /\ e <= b => \E i \in 1 .. Len(q) : q[i] = e
  BY <1>6, <1>7, <1>11
<1>16. \A e \in EventBlocks, i \in 1 .. Len(q) :
         a <= e /\ e <= b => e <= q[Len(q)] /\ q[1] <= e
  BY <1>6, <1>7, <1>13
<1> QED
  BY <1>7, <1>14, <1>15, <1>16 DEF q

-----------------------------------------------------------------------------
(* The steps of Next, by what they leave alone.                             *)

LegacyAct == ActorStep \/ BlockSealed \/ (\E s \in Sub : ReaderStep(s))
             \/ (LegacyDrained /\ LegacyMacrotask)

\* Opens, Leaves and Settles.
Decides(s) ==
  /\ UNCHANGED <<legacyVars, streamVars, supported, closed>>
  /\ \/ choice[s] = "unused" /\ choice' = [choice EXCEPT ![s] = "asking"] /\ left' = left
     \/ choice[s] # "unused" /\ choice' = choice /\ left' = [left EXCEPT ![s] = TRUE]
     \/ /\ choice[s] = "asking" /\ left' = left
        /\ \E c \in {"chosen", "failed"} : choice' = [choice EXCEPT ![s] = c]

LEMMA StepKinds ==
  ASSUME [Next]_vars
  PROVE  \/ LegacyAct /\ UNCHANGED <<streamVars, choiceVars>>
         \/ \E s \in Sub : Chooses(s) \/ Unsubscribed(s) \/ Decides(s)
         \/ \E s \in Sub : StreamStep(s) /\ UNCHANGED <<legacyVars, choiceVars>>
         \/ UNCHANGED vars
<1>1. CASE LegacyStep
  BY <1>1 DEF LegacyStep, LegacyAct, MicrotasksDrained
<1>2. ASSUME NEW s \in Sub, StreamStep(s) PROVE UNCHANGED <<legacyVars, choiceVars>>
  BY <1>2 DEF StreamStep, Arrives, DecoderEnds, Emits, Rejects
<1>3. ASSUME NEW s \in Sub, ChoiceStep(s) PROVE Chooses(s) \/ Unsubscribed(s) \/ Decides(s)
  BY <1>3 DEF ChoiceStep, Opens, Leaves, Settles, Decides
<1> QED
  BY <1>1, <1>2, <1>3 DEF Next

-----------------------------------------------------------------------------
(* Letters.                                                                 *)

TICK == <<"TICK">>

LEMMA LetterFacts ==
  /\ TICK \in Letters
  /\ \A s \in Sub, k \in {"SUBSCRIBE", "UNSUBSCRIBE"} :
       <<k, s>> \in Letters /\ <<k, s>> # TICK /\ <<k, s>>[1] = k /\ <<k, s>>[2] = s
  /\ TICK[1] = "TICK"
  /\ \A l \in Letters : l[1] \in {"SUBSCRIBE", "UNSUBSCRIBE"} =>
       l[2] \in Sub /\ l = <<l[1], l[2]>> /\ l # TICK
  BY DEF TICK, Letters

\* A letter put behind the others.
LEMMA Put ==
  ASSUME NEW q \in Seq(Letters), NEW l \in Letters
  PROVE  /\ Append(q, l) \in Seq(Letters) /\ Append(q, l) # << >>
         /\ Len(q) \in Nat /\ Len(Append(q, l)) = Len(q) + 1 /\ Append(q, l)[Len(q) + 1] = l
         /\ \A i \in 1 .. Len(q) : Append(q, l)[i] = q[i]
         /\ \A i \in 1 .. Len(Append(q, l)) : i \in 1 .. Len(q) \/ i = Len(q) + 1
<1>1. /\ Append(q, l) \in Seq(Letters)
      /\ Len(q) \in Nat /\ Len(Append(q, l)) = Len(q) + 1 /\ Append(q, l)[Len(q) + 1] = l
  OBVIOUS
<1>2. \A i \in 1 .. Len(q) : Append(q, l)[i] = q[i]
  OBVIOUS
<1>3. Append(q, l) # << >>
  BY <1>1
<1>4. \A i \in 1 .. Len(Append(q, l)) : i \in 1 .. Len(q) \/ i = Len(q) + 1
  BY <1>1
<1> QED
  BY <1>1, <1>2, <1>3, <1>4

\* The first letter taken.
LEMMA Took ==
  ASSUME NEW q \in Seq(Letters), q # << >>
  PROVE  /\ Tail(q) \in Seq(Letters) /\ Head(q) \in Letters /\ Head(q) = q[1]
         /\ Len(q) \in Nat \ {0} /\ Len(Tail(q)) = Len(q) - 1
         /\ \A i \in 1 .. Len(Tail(q)) : i + 1 \in 1 .. Len(q) /\ Tail(q)[i] = q[i + 1]
         /\ \A i \in 1 .. Len(q) : i = 1 \/ (i - 1 \in 1 .. Len(Tail(q)) /\ Tail(q)[i - 1] = q[i])
  OBVIOUS

-----------------------------------------------------------------------------
(* The one tick.                                                            *)

\* A TICK is handled at once: its timer fires when the mailbox is empty.
TickFirst(q)    == q # << >> /\ q[1] = TICK
TickNowhere(q)  == \A i \in 1 .. Len(q) : q[i] # TICK
TickOnly(q)     == \A i \in 1 .. Len(q) : q[i] = TICK => i = 1

Busy  == at \in {"block", "events", "rate"}
Polls == Busy \/ TickFirst(inbox) \/ running # {}

\* Of a timer, a letter and a handler under way there is at most one, and there is
\* one if somebody is subscribed and no request has failed.
OneTick ==
  /\ TickOnly(inbox)
  /\ running \subseteq {tick} \ {None}
  /\ TickFirst(inbox) => at = "free"
  /\ running # {} => ~ Busy /\ ~ TickFirst(inbox)
  /\ at = "rateFirst" => subs = {} /\ inbox # << >> /\ Head(inbox)[1] = "SUBSCRIBE"
  /\ Busy => subs # {}
  /\ subs = {} => running = {} /\ hwm = None
  /\ subs # {} => (Polls <=> ~ broken)

\* What of the actor is typed; the rest of the types needs less.
Polling ==
  /\ chain \in Nat /\ at \in {"free", "block", "events", "rate", "rateFirst"}
  /\ inbox \in Seq(Letters) /\ subs \subseteq Sub
  /\ hwm \in Nat \cup {None} /\ tick \in 0 .. 2 \cup {None} /\ running \subseteq 0 .. 2
  /\ from \in Nat /\ broken \in BOOLEAN /\ failures \in 0 .. MaxFailures

LEMMA TicksPut ==
  ASSUME NEW q \in Seq(Letters), TickOnly(q), NEW l \in Letters, l # TICK
  PROVE  TickOnly(Append(q, l)) /\ (TickFirst(Append(q, l)) <=> TickFirst(q))
<1> DEFINE p == Append(q, l)
<1>1. /\ Len(q) \in Nat /\ Len(p) = Len(q) + 1 /\ p[Len(q) + 1] = l /\ p # << >>
      /\ \A i \in 1 .. Len(q) : p[i] = q[i]
      /\ \A i \in 1 .. Len(p) : i \in 1 .. Len(q) \/ i = Len(q) + 1
  BY Put
<1>2. q = << >> <=> Len(q) = 0
  OBVIOUS
<1> HIDE DEF p
<1>3. TickOnly(p)
  BY <1>1 DEF TickOnly
<1>4. TickFirst(p) <=> TickFirst(q)
  <2>1. CASE q = << >>
    BY <1>1, <1>2, <2>1 DEF TickFirst
  <2>2. CASE q # << >>
    <3>1. 1 \in 1 .. Len(q)
      BY <1>1, <1>2, <2>2
    <3> QED
      BY <1>1, <2>2, <3>1 DEF TickFirst
  <2> QED
    BY <2>1, <2>2
<1> QED
  BY <1>3, <1>4 DEF p

LEMMA TicksTook ==
  ASSUME NEW q \in Seq(Letters), q # << >>, TickOnly(q)
  PROVE  TickOnly(Tail(q)) /\ ~ TickFirst(Tail(q)) /\ (TickFirst(q) <=> Head(q) = TICK)
<1> DEFINE p == Tail(q)
<1>1. /\ Len(q) \in Nat \ {0} /\ Len(p) = Len(q) - 1 /\ Head(q) = q[1] /\ p \in Seq(Letters)
      /\ \A i \in 1 .. Len(p) : i + 1 \in 1 .. Len(q) /\ p[i] = q[i + 1]
  BY Took
<1> HIDE DEF p
<1>2. \A i \in 1 .. Len(p) : p[i] # TICK
  BY <1>1 DEF TickOnly
<1>3. p # << >> => 1 \in 1 .. Len(p)
  BY <1>1
<1> QED
  BY <1>1, <1>2, <1>3 DEF TickOnly, TickFirst, p

LEMMA NewTick ==
  ASSUME Polling, running = {}, scheduleTick
  PROVE  tick' \in 0 .. 2 /\ running' = {tick'} /\ running' \subseteq {tick'} \ {None}
<1>1. \E i \in 0 .. 2 : i \notin running \cup {tick}
  <2>1. 0 \in 0 .. 2 /\ 1 \in 0 .. 2 /\ 0 # 1
    OBVIOUS
  <2> QED
    BY <2>1
<1>2. tick' \in 0 .. 2
  BY <1>1 DEF scheduleTick
<1> QED
  BY <1>2 DEF scheduleTick, None

\* The steps of the actor and of its timers.
LEMMA ActorTick == ASSUME Polling, OneTick, ActorStep PROVE OneTick' /\ Polling'
<1> USE DEF Polling
<1>1. ASSUME NEW l, Takes(l)
      PROVE  /\ at = "free" /\ inbox # << >> /\ Head(inbox) = l /\ inbox' = Tail(inbox)
             /\ inbox' \in Seq(Letters) /\ UNCHANGED <<chain, from, failures>>
             /\ TickOnly(inbox') /\ ~ TickFirst(inbox') /\ (TickFirst(inbox) <=> l = TICK)
  BY <1>1, Took, TicksTook DEF Takes, OneTick
<1>2. CASE Ticks
  <2>1. Takes(TICK)
    BY <1>2 DEF Ticks, TICK
  <2> QED
    BY <1>1, <1>2, <2>1 DEF Ticks, OneTick, Busy, Polls
<1>3. CASE TickScheduled
  <2>1. running = {} /\ Busy /\ ~ TickFirst(inbox)
    BY <1>3 DEF TickScheduled, OneTick, Busy
  <2>2. tick' \in 0 .. 2 /\ running' = {tick'} /\ running' \subseteq {tick'} \ {None}
    BY <1>3, <2>1, NewTick DEF TickScheduled
  <2> QED
    BY <1>3, <2>1, <2>2 DEF TickScheduled, OneTick, Busy, Polls
<1>4. CASE FirstSubscribes
  <2>1. ~ TickFirst(inbox)
    BY <1>4, LetterFacts DEF FirstSubscribes, TickFirst
  <2> QED
    BY <1>4, <2>1 DEF FirstSubscribes, OneTick, Busy, Polls
<1>5. CASE FirstSubscribed
  <2>1. running = {} /\ subs = {} /\ inbox # << >> /\ Head(inbox)[1] = "SUBSCRIBE"
    BY <1>5 DEF FirstSubscribed, OneTick
  <2>2. tick' \in 0 .. 2 /\ running' = {tick'} /\ running' \subseteq {tick'} \ {None}
    BY <1>5, <2>1, NewTick DEF FirstSubscribed
  <2>3. inbox' \in Seq(Letters) /\ TickOnly(inbox') /\ ~ TickFirst(inbox')
    BY <1>5, <2>1, Took, TicksTook DEF FirstSubscribed, OneTick
  <2>4. Head(inbox)[2] \in Sub
    BY <2>1, Took, LetterFacts
  <2> QED
    BY <1>5, <2>1, <2>2, <2>3, <2>4 DEF FirstSubscribed, OneTick, Busy, Polls
<1>6. ASSUME NEW s \in Sub, Subscribes(s) PROVE OneTick' /\ Polling'
  <2>1. Takes(<<"SUBSCRIBE", s>>) /\ <<"SUBSCRIBE", s>> # TICK
    BY <1>6, LetterFacts DEF Subscribes
  <2> QED
    BY <1>1, <1>6, <2>1 DEF Subscribes, OneTick, Busy, Polls
<1>7. ASSUME NEW s \in Sub, Unsubscribes(s) PROVE OneTick' /\ Polling'
  <2>1. Takes(<<"UNSUBSCRIBE", s>>) /\ <<"UNSUBSCRIBE", s>> # TICK
    BY <1>7, LetterFacts DEF Unsubscribes
  <2>2. CASE subs' = {}
    BY <1>1, <1>7, <2>1, <2>2 DEF Unsubscribes, OneTick, Busy, Polls
  <2>3. CASE subs' # {}
    BY <1>1, <1>7, <2>1, <2>3 DEF Unsubscribes, OneTick, Busy, Polls
  <2> QED
    BY <2>2, <2>3
<1> QED
  BY <1>2, <1>3, <1>4, <1>5, <1>6, <1>7 DEF ActorStep

LEMMA RestTick == ASSUME Polling, OneTick, LegacyAct, ~ ActorStep PROVE OneTick' /\ Polling'
<1> USE DEF Polling
<1>1. CASE BlockSealed
  BY <1>1 DEF BlockSealed, pollVars, OneTick, Busy, Polls
<1>2. ASSUME NEW s \in Sub, ReaderStep(s) PROVE OneTick' /\ Polling'
  <2>1. UNCHANGED <<chain, at, subs, hwm, tick, running, from, broken, failures>>
    BY <1>2 DEF ReaderStep, ReaderStarts, ReaderCalls, ReaderExits, pollVars
  <2>2. PICK l \in Letters : l # TICK /\ inbox' \in {inbox, Append(inbox, l)}
    <3>1. \A k \in {"SUBSCRIBE", "UNSUBSCRIBE"} : <<k, s>> \in Letters /\ <<k, s>> # TICK
      BY LetterFacts
    <3>2. \E k \in {"SUBSCRIBE", "UNSUBSCRIBE"} : inbox' \in {inbox, Append(inbox, <<k, s>>)}
      BY <1>2 DEF ReaderStep, ReaderStarts, ReaderCalls, ReaderExits, Post, pollVars
    <3> QED
      BY <3>1, <3>2
  <2>3. /\ inbox' \in Seq(Letters) /\ TickOnly(inbox')
        /\ TickFirst(inbox') <=> TickFirst(inbox)
    <3>1. TickOnly(Append(inbox, l)) /\ (TickFirst(Append(inbox, l)) <=> TickFirst(inbox))
      BY <2>2, TicksPut DEF OneTick
    <3>2. Append(inbox, l) \in Seq(Letters)
      OBVIOUS
    <3> QED
      BY <2>2, <3>1, <3>2 DEF OneTick
  <2>4. at # "rateFirst" \/ (inbox' # << >> /\ Head(inbox') = Head(inbox))
    BY <2>2 DEF OneTick
  <2> QED
    BY <2>1, <2>3, <2>4 DEF OneTick, Busy, Polls
<1>3. CASE BlockAnswers
  BY <1>3 DEF BlockAnswers, OneTick, Busy, Polls, None
<1>4. CASE EventsAnswer
  BY <1>4 DEF EventsAnswer, OneTick, Busy, Polls
<1>5. CASE RequestFails
  BY <1>5, LegacyAssumption DEF RequestFails, OneTick, Busy, Polls
<1>6. ASSUME NEW i \in 0 .. 2, TimerFires(i), LegacyDrained PROVE OneTick' /\ Polling'
  <2>1. /\ i \in running /\ running' = running \ {i} /\ inbox' = Append(inbox, TICK)
        /\ UNCHANGED <<chain, at, subs, hwm, tick, from, broken, failures>>
    BY <1>6 DEF TimerFires, Post, TICK
  <2>2. at = "free" /\ inbox = << >>
    BY <1>6, <2>1 DEF LegacyDrained, ActorRunnable, OneTick, Busy
  <2>3. inbox' = <<TICK>> /\ TICK \in Letters
    BY <2>1, <2>2, LetterFacts
  <2>4. inbox' \in Seq(Letters) /\ TickOnly(inbox') /\ TickFirst(inbox')
    BY <2>3 DEF TickOnly, TickFirst
  <2>5. running' = {}
    BY <2>1 DEF OneTick
  <2> QED
    BY <2>1, <2>2, <2>4, <2>5 DEF OneTick, Busy, Polls
<1> QED
  BY <1>1, <1>2, <1>3, <1>4, <1>5, <1>6 DEF LegacyAct, LegacyMacrotask

LEMMA StepTick == Polling /\ OneTick /\ [Next]_vars => Polling' /\ OneTick'
<1> SUFFICES ASSUME Polling, OneTick, [Next]_vars PROVE Polling' /\ OneTick'
  OBVIOUS
<1>1. CASE LegacyAct
  BY <1>1, ActorTick, RestTick
<1>2. CASE UNCHANGED <<chain, pollVars>>
  BY <1>2 DEF pollVars, Polling, OneTick, Busy, Polls
<1>3. ASSUME NEW s \in Sub, Chooses(s) \/ Unsubscribed(s) \/ Decides(s)
      PROVE  UNCHANGED <<chain, pollVars>>
  BY <1>3 DEF Chooses, Unsubscribed, Decides, legacyVars
<1> QED
  BY <1>1, <1>2, <1>3, StepKinds DEF vars, legacyVars

LEMMA InitTick == Init => Polling /\ OneTick
<1> SUFFICES ASSUME Init PROVE Polling /\ OneTick
  OBVIOUS
<1>1. Polling
  <2>1. << >> \in Seq(Letters) /\ 0 \in 0 .. MaxFailures
    BY LegacyAssumption
  <2> QED
    BY <2>1 DEF Init, LegacyInit, Polling
<1>2. inbox = << >> /\ at = "free" /\ subs = {} /\ running = {} /\ hwm = None
  BY DEF Init, LegacyInit
<1>3. TickOnly(inbox) /\ ~ TickFirst(inbox)
  BY <1>2 DEF TickOnly, TickFirst
<1> QED
  BY <1>1, <1>2, <1>3 DEF OneTick, Busy

LEMMA TickInductive == Spec => [](Polling /\ OneTick)
  BY InitTick, StepTick, PTL DEF Spec

\* While anybody is subscribed there is exactly one tick, a timer, a letter or a
\* handler under way, and none after a request has failed; none is left when the
\* last subscriber has gone (TICK, SUBSCRIBE and UNSUBSCRIBE of legacy-events.js).
THEOREM EventsPollInOneLoop == Spec => []OneTickLoop
<1>1. Polling /\ OneTick => OneTickLoop
  <2> SUFFICES ASSUME Polling, OneTick PROVE OneTickLoop
    OBVIOUS
  <2> DEFINE T == {i \in 1 .. Len(inbox) : inbox[i] = <<"TICK">>}
  <2>1. T = IF TickFirst(inbox) THEN {1} ELSE {}
    <3>1. inbox # << >> => 1 \in 1 .. Len(inbox)
      BY DEF Polling
    <3>2. inbox = << >> => 1 .. Len(inbox) = {}
      OBVIOUS
    <3> QED
      BY <3>1, <3>2 DEF OneTick, TickOnly, TickFirst, TICK
  <2>2. Cardinality(T) = IF TickFirst(inbox) THEN 1 ELSE 0
    BY <2>1, FS_EmptySet, FS_Singleton
  <2>3. running = {} \/ running = {tick}
    BY DEF OneTick
  <2>4. Cardinality(running) = IF running = {} THEN 0 ELSE 1
    BY <2>3, FS_EmptySet, FS_Singleton
  <2> HIDE DEF T
  <2>5. Ticking = (IF running = {} THEN 0 ELSE 1) + (IF TickFirst(inbox) THEN 1 ELSE 0)
                  + (IF Busy THEN 1 ELSE 0)
    BY <2>2, <2>4 DEF Ticking, T, Busy
  <2>6. Ticking = IF Polls THEN 1 ELSE 0
    BY <2>5 DEF OneTick, Polls, Busy
  <2>7. subs = {} /\ LegacyDrained => ~ Polls
    BY DEF LegacyDrained, ActorRunnable, OneTick, Polls, Busy, TickFirst
  <2> QED
    BY <2>6, <2>7 DEF OneTickLoop, OneTick, Polling
<1> QED
  BY <1>1, TickInductive, PTL

-----------------------------------------------------------------------------
(* The subscribers and the streams are typed too.                           *)

Stages == {"idle", "spawned", "waiting", "ended", "crashed"}
Mails  == Seq(Nat \cup {Exit})

Reading ==
  /\ stage \in [Sub -> Stages] /\ mailbox \in [Sub -> Mails] /\ told \in [Sub -> Seq(Nat)]

Choosing ==
  /\ supported \in BOOLEAN
  /\ choice \in [Sub -> {"unused", "asking", "chosen", "stream", "legacy", "failed"}]
  /\ left \in [Sub -> BOOLEAN] /\ closed \in [Sub -> BOOLEAN]

LEMMA DeliverTyped ==
  ASSUME Reading, NEW to, NEW events \in Mails, Deliver(to, events)
  PROVE  /\ mailbox' \in [Sub -> Mails]
         /\ \A s \in Sub : mailbox'[s] = IF s \in to /\ stage[s] \in {"spawned", "waiting", "crashed"}
                                           THEN mailbox[s] \o events ELSE mailbox[s]
  BY DEF Deliver, Reading, Mails

LEMMA SeqOfMore ==
  ASSUME NEW A, NEW B, A \subseteq B PROVE Seq(A) \subseteq Seq(B)
  OBVIOUS

\* What EventsAnswer broadcasts.
LEMMA RangeTyped ==
  ASSUME Polling, OneTick, at = "events", hwm # None
  PROVE  EventsIn(from, hwm) \in Mails /\ EventsIn(from, hwm) \in Seq(EventBlocks)
<1>1. EventsIn(from, hwm) \in Seq(EventBlocks)
  BY EventsInOrder DEF Polling
<1>2. Seq(EventBlocks) \subseteq Mails
  BY LegacyAssumption, SeqOfMore DEF Mails
<1> QED
  BY <1>1, <1>2

\* The block above the mark that a request under way begins with.
Asked ==
  /\ at = "events" => hwm # None /\ from >= 1 /\ from <= hwm
  /\ hwm <= chain

LEMMA StepAsked == Polling /\ OneTick /\ Asked /\ [Next]_vars => Asked'
<1> SUFFICES ASSUME Polling, OneTick, Asked, [Next]_vars PROVE Asked'
  OBVIOUS
<1>1. /\ chain \in Nat /\ hwm \in Nat \cup {None} /\ None = -1
      /\ at \in {"free", "block", "events", "rate", "rateFirst"}
  BY DEF Polling, None
<1>2. CASE ActorStep
  BY <1>1, <1>2 DEF ActorStep, Ticks, TickScheduled, FirstSubscribes, FirstSubscribed, Subscribes,
                    Unsubscribes, Takes, Asked
<1>3. CASE BlockSealed
  BY <1>1, <1>3 DEF BlockSealed, pollVars, Asked
<1>4. CASE \E s \in Sub : ReaderStep(s)
  BY <1>4 DEF ReaderStep, ReaderStarts, ReaderCalls, ReaderExits, pollVars, Asked
<1>5. CASE BlockAnswers
  BY <1>1, <1>5 DEF BlockAnswers, Asked
<1>6. CASE EventsAnswer \/ RequestFails \/ \E i \in 0 .. 2 : TimerFires(i)
  BY <1>6 DEF EventsAnswer, RequestFails, TimerFires, Asked
<1>7. CASE UNCHANGED <<chain, pollVars>>
  BY <1>7 DEF pollVars, Asked
<1>8. ASSUME NEW s \in Sub, Chooses(s) \/ Unsubscribed(s) \/ Decides(s)
      PROVE  UNCHANGED <<chain, pollVars>>
  BY <1>8 DEF Chooses, Unsubscribed, Decides, legacyVars
<1> QED
  BY <1>2, <1>3, <1>4, <1>5, <1>6, <1>7, <1>8, StepKinds
     DEF vars, legacyVars, LegacyAct, LegacyMacrotask

LEMMA StepReading == Polling /\ OneTick /\ Asked /\ Reading /\ Choosing /\ [Next]_vars => Reading' /\ Choosing'
<1> SUFFICES ASSUME Polling, OneTick, Asked, Reading, Choosing, [Next]_vars
             PROVE  Reading' /\ Choosing'
  OBVIOUS
<1>1. CASE UNCHANGED <<readerVars, choiceVars>>
  BY <1>1 DEF readerVars, choiceVars, Reading, Choosing
<1>2. ASSUME NEW s \in Sub, ReaderStep(s), UNCHANGED choiceVars PROVE Reading' /\ Choosing'
  <2>1. Choosing'
    BY <1>2 DEF choiceVars, Choosing
  <2>2. CASE ReaderStarts(s)
    BY <2>1, <2>2 DEF ReaderStarts, Reading, Stages
  <2>3. CASE ReaderCalls(s)
    <3>1. Head(mailbox[s]) \in Nat /\ Tail(mailbox[s]) \in Mails
      BY <2>3 DEF ReaderCalls, Reading, Mails
    <3>2. mailbox' \in [Sub -> Mails]
      BY <2>3, <3>1 DEF ReaderCalls, Reading
    <3>3. Append(told[s], Head(mailbox[s])) \in Seq(Nat)
      BY <3>1 DEF Reading
    <3>4. told' \in [Sub -> Seq(Nat)]
      BY <2>3, <3>3 DEF ReaderCalls, Reading
    <3>5. stage' \in [Sub -> Stages]
      BY <2>3 DEF ReaderCalls, Reading, Stages
    <3> QED
      BY <2>1, <3>2, <3>4, <3>5 DEF Reading
  <2>4. CASE ReaderExits(s)
    <3>1. << >> \in Mails
      BY DEF Mails
    <3> QED
      BY <2>1, <2>4, <3>1 DEF ReaderExits, Reading, Stages
  <2> QED
    BY <1>2, <2>2, <2>3, <2>4 DEF ReaderStep
<1>3. CASE EventsAnswer /\ UNCHANGED choiceVars
  BY <1>3, RangeTyped, DeliverTyped DEF EventsAnswer, Asked, Reading, choiceVars, Choosing
<1>4. ASSUME NEW s \in Sub, Chooses(s) PROVE Reading' /\ Choosing'
  <2>1. PICK c \in {"stream", "legacy", "failed"} : choice' = [choice EXCEPT ![s] = c]
    BY <1>4 DEF Chooses
  <2> QED
    BY <1>4, <2>1 DEF Chooses, Reading, Choosing, Stages
<1>5. ASSUME NEW s \in Sub, Unsubscribed(s) PROVE Reading' /\ Choosing'
  <2>1. <<Exit>> \in Mails /\ UNCHANGED <<stage, told>>
    BY <1>5 DEF Mails, Unsubscribed
  <2>2. mailbox' \in [Sub -> Mails]
    BY <1>5, <2>1, DeliverTyped DEF Unsubscribed, Reading
  <2>3. Choosing'
    BY <1>5 DEF Unsubscribed, Choosing
  <2> QED
    BY <2>1, <2>2, <2>3 DEF Reading
<1>6. ASSUME NEW s \in Sub, Decides(s) PROVE Reading' /\ Choosing'
  BY <1>6 DEF Decides, legacyVars, readerVars, Reading, Choosing
<1>7. LegacyAct => UNCHANGED readerVars \/ EventsAnswer \/ \E s \in Sub : ReaderStep(s)
  BY DEF LegacyAct, LegacyMacrotask, ActorStep, Ticks, TickScheduled, FirstSubscribes,
         FirstSubscribed, Subscribes, Unsubscribes, BlockSealed, BlockAnswers, RequestFails,
         TimerFires
<1> QED
  BY <1>1, <1>2, <1>3, <1>4, <1>5, <1>6, <1>7, StepKinds DEF vars, legacyVars

LEMMA StreamTyped ==
  ASSUME StreamTypeOK, NEW s \in Sub, StreamStep(s) PROVE StreamTypeOK'
<1> USE EventsAssumption DEF StreamTypeOK
<1>1. ASSUME NEW kind \in {"data", "error", "close"}, Receives(s, kind) PROVE StreamTypeOK'
  <2> DEFINE item == [kind |-> kind, decoded |-> IF kind = "data" THEN "pending" ELSE "ready"]
  <2>1. item \in Item
    BY DEF Item
  <2> HIDE DEF item
  <2>2. source' = [source EXCEPT ![s] = Append(@, item)]
    BY <1>1 DEF Receives, item
  <2>3. source' \in [Stream -> Seq(Item)]
    BY <2>1, <2>2
  <2>4. Len(source'[s]) \in Nat
    BY <2>3
  <2> QED
    BY <1>1, <2>3, <2>4 DEF Receives
<1>2. ASSUME NEW i \in 1 .. MaxItems, NEW outcome \in {"ready", "failed"}, Decodes(s, i, outcome)
      PROVE  StreamTypeOK'
  <2>1. source[s] \in Seq(Item) /\ i \in 1 .. Len(source[s])
    BY <1>2 DEF Decodes
  <2>2. [source[s][i] EXCEPT !.decoded = outcome] \in Item
    <3>1. source[s][i] \in Item
      BY <2>1
    <3>2. \A x \in Item : [x EXCEPT !.decoded = outcome] \in Item
      BY DEF Item
    <3> QED
      BY <3>1, <3>2
  <2>3. [source[s] EXCEPT ![i] = [source[s][i] EXCEPT !.decoded = outcome]] \in Seq(Item)
    BY <2>1, <2>2
  <2>4. source' = [source EXCEPT ![s] =
                     [source[s] EXCEPT ![i] = [source[s][i] EXCEPT !.decoded = outcome]]]
    BY <1>2 DEF Decodes
  <2> QED
    BY <1>2, <2>3, <2>4 DEF Decodes
<1>3. CASE TaskEmits(s)
  <2>1. Head(queue[s]) \in Nat /\ Tail(queue[s]) \in Seq(Nat)
    <3>1. queue[s] \in Seq(Nat) /\ queue[s] # << >>
      BY <1>3 DEF TaskEmits, TaskRunnable
    <3> QED
      BY <3>1
  <2>2. emitted' \in [Stream -> Seq(Nat)] /\ queue' \in [Stream -> Seq(Nat)]
    BY <1>3, <2>1 DEF TaskEmits
  <2>3. stalled' \in [Stream -> BOOLEAN] /\ source' = source
    BY <1>3 DEF TaskEmits
  <2> QED
    BY <2>2, <2>3
<1>4. CASE TaskRejects(s)
  <2>1. Tail(queue[s]) \in Seq(Nat)
    BY <1>4 DEF TaskRejects, TaskRunnable
  <2> QED
    BY <1>4, <2>1 DEF TaskRejects
<1> QED
  BY <1>1, <1>2, <1>3, <1>4 DEF StreamStep, Arrives, DecoderEnds, Emits, Rejects

Typed == Polling /\ OneTick /\ Asked /\ Reading /\ Choosing /\ StreamTypeOK

LEMMA InitTyped == Init => Typed
<1> SUFFICES ASSUME Init PROVE Typed
  OBVIOUS
<1>1. << >> \in Mails /\ << >> \in Seq(Nat) /\ << >> \in Seq(Item)
  BY DEF Mails
<1>2. Reading /\ Choosing
  BY <1>1 DEF Init, LegacyInit, Reading, Choosing, Stages
<1>3. StreamTypeOK
  BY <1>1 DEF Init, StreamInit, StreamTypeOK
<1>4. Asked
  BY DEF Init, LegacyInit, Asked, None
<1> QED
  BY <1>2, <1>3, <1>4, InitTick DEF Typed

LEMMA StepTyped == Typed /\ [Next]_vars => Typed'
<1> SUFFICES ASSUME Typed, [Next]_vars PROVE Typed'
  OBVIOUS
<1>1. StreamTypeOK'
  <2>1. CASE UNCHANGED streamVars
    BY <2>1 DEF Typed, StreamTypeOK, streamVars
  <2>2. ASSUME NEW s \in Sub, Chooses(s) \/ Unsubscribed(s) \/ Decides(s)
        PROVE  UNCHANGED streamVars
    BY <2>2 DEF Chooses, Unsubscribed, Decides
  <2> QED
    BY <2>1, <2>2, StreamTyped, StepKinds DEF Typed, vars
<1> QED
  BY <1>1, StepTick, StepAsked, StepReading DEF Typed

\* Every variable of the subscriptions, the polling and the streams keeps its type.
THEOREM TypeCorrect == Spec => []TypeOK
<1>1. Typed => TypeOK
  BY DEF Typed, Polling, Reading, Choosing, TypeOK, LegacyTypeOK, Stages, Mails
<1> QED
  BY <1>1, InitTyped, StepTyped, PTL DEF Spec

-----------------------------------------------------------------------------
(* Who is subscribed, and whose letters are on the way.                     *)

\* Of subscriber s at stage st, with the letters q and the subscribers S: it is
\* subscribed or about to be only once it has started, it has one SUBSCRIBE at
\* most and none any more when it is subscribed, and when it has ended after it,
\* an UNSUBSCRIBE behind that.
Member(q, S, st, s) ==
  /\ s \in S => st \notin {"idle", "spawned"}
  /\ \A i \in 1 .. Len(q) : q[i] = <<"SUBSCRIBE", s>> =>
       /\ st \notin {"idle", "spawned"} /\ s \notin S
       /\ \A j \in 1 .. Len(q) : q[j] = <<"SUBSCRIBE", s>> => j = i
       /\ st = "ended" => \E j \in 1 .. Len(q) : j > i /\ q[j] = <<"UNSUBSCRIBE", s>>
  /\ \A i \in 1 .. Len(q) : q[i] = <<"UNSUBSCRIBE", s>> => st = "ended"
  /\ s \in S /\ st = "ended" => \E j \in 1 .. Len(q) : q[j] = <<"UNSUBSCRIBE", s>>

Membership == \A s \in Sub : /\ Member(inbox, subs, stage[s], s)
                             /\ stage[s] # "idle" => choice[s] = "legacy"

\* Another's letter is put behind, or a tick.
LEMMA MemberPut ==
  ASSUME NEW q \in Seq(Letters), NEW l \in Letters, NEW S, NEW st, NEW s \in Sub,
         Member(q, S, st, s), l \notin {<<"SUBSCRIBE", s>>, <<"UNSUBSCRIBE", s>>}
  PROVE  Member(Append(q, l), S, st, s)
<1> DEFINE p == Append(q, l)
<1>1. /\ Len(q) \in Nat /\ Len(p) = Len(q) + 1 /\ p[Len(q) + 1] = l
      /\ \A i \in 1 .. Len(q) : p[i] = q[i]
      /\ \A i \in 1 .. Len(p) : i \in 1 .. Len(q) \/ i = Len(q) + 1
  BY Put
<1> HIDE DEF p
<1>2. \A i \in 1 .. Len(q) : i \in 1 .. Len(p)
  BY <1>1
<1>3. \A i \in 1 .. Len(p) : p[i] \in {<<"SUBSCRIBE", s>>, <<"UNSUBSCRIBE", s>>} =>
        i \in 1 .. Len(q) /\ p[i] = q[i]
  BY <1>1
<1>4. Member(p, S, st, s)
  BY <1>1, <1>2, <1>3 DEF Member
<1> QED
  BY <1>4 DEF p

\* A subscriber starts.
LEMMA MemberStarts ==
  ASSUME NEW q \in Seq(Letters), NEW S, NEW s \in Sub, Member(q, S, "spawned", s)
  PROVE  Member(Append(q, <<"SUBSCRIBE", s>>), S, "waiting", s)
<1> DEFINE l == <<"SUBSCRIBE", s>>
           p == Append(q, l)
<1>1. l \in Letters /\ l # <<"UNSUBSCRIBE", s>>
  BY LetterFacts
<1> HIDE DEF l
<1>2. /\ Len(q) \in Nat /\ Len(p) = Len(q) + 1 /\ p[Len(q) + 1] = l
      /\ \A i \in 1 .. Len(q) : p[i] = q[i]
      /\ \A i \in 1 .. Len(p) : i \in 1 .. Len(q) \/ i = Len(q) + 1
  BY <1>1, Put
<1> HIDE DEF p
<1>3. \A i \in 1 .. Len(q) : q[i] # l /\ q[i] # <<"UNSUBSCRIBE", s>>
  BY DEF Member, l
<1>4. s \notin S
  BY DEF Member
<1>5. Member(p, S, "waiting", s)
  BY <1>1, <1>2, <1>3, <1>4 DEF Member, l
<1> QED
  BY <1>5 DEF p, l

\* A subscriber ends.
LEMMA MemberEnds ==
  ASSUME NEW q \in Seq(Letters), NEW S, NEW s \in Sub, Member(q, S, "waiting", s)
  PROVE  Member(Append(q, <<"UNSUBSCRIBE", s>>), S, "ended", s)
<1> DEFINE l == <<"UNSUBSCRIBE", s>>
           p == Append(q, l)
<1>1. l \in Letters /\ l # <<"SUBSCRIBE", s>>
  BY LetterFacts
<1> HIDE DEF l
<1>2. /\ Len(q) \in Nat /\ Len(p) = Len(q) + 1 /\ p[Len(q) + 1] = l
      /\ \A i \in 1 .. Len(q) : p[i] = q[i]
      /\ \A i \in 1 .. Len(p) : i \in 1 .. Len(q) \/ i = Len(q) + 1
  BY <1>1, Put
<1> HIDE DEF p
<1>3. Len(q) + 1 \in 1 .. Len(p) /\ \A i \in 1 .. Len(q) : Len(q) + 1 > i
  BY <1>2
<1>4. Member(p, S, "ended", s)
  BY <1>1, <1>2, <1>3 DEF Member, l
<1> QED
  BY <1>4 DEF p, l

\* A letter is taken: what it says of s is done.
LEMMA MemberTook ==
  ASSUME NEW q \in Seq(Letters), q # << >>, NEW S, NEW T, NEW st, NEW s \in Sub,
         Member(q, S, st, s),
         s \in T <=> \/ Head(q) = <<"SUBSCRIBE", s>>
                     \/ s \in S /\ Head(q) # <<"UNSUBSCRIBE", s>>
  PROVE  Member(Tail(q), T, st, s)
<1> DEFINE p == Tail(q)
           a == <<"SUBSCRIBE", s>>
           b == <<"UNSUBSCRIBE", s>>
<1>1. /\ Len(q) \in Nat \ {0} /\ Len(p) = Len(q) - 1 /\ Head(q) = q[1]
      /\ \A i \in 1 .. Len(p) : i + 1 \in 1 .. Len(q) /\ p[i] = q[i + 1]
      /\ \A i \in 1 .. Len(q) : i = 1 \/ (i - 1 \in 1 .. Len(p) /\ p[i - 1] = q[i])
  BY Took
<1>2. a # b
  BY LetterFacts
<1> HIDE DEF p, a, b
<1>3. 1 \in 1 .. Len(q)
  BY <1>1
<1>4. /\ s \in S => st \notin {"idle", "spawned"}
      /\ \A i \in 1 .. Len(q) : q[i] = a =>
           /\ st \notin {"idle", "spawned"} /\ s \notin S
           /\ \A j \in 1 .. Len(q) : q[j] = a => j = i
           /\ st = "ended" => \E j \in 1 .. Len(q) : j > i /\ q[j] = b
      /\ \A i \in 1 .. Len(q) : q[i] = b => st = "ended"
      /\ s \in S /\ st = "ended" => \E j \in 1 .. Len(q) : q[j] = b
  BY DEF Member, a, b
<1>5. s \in T <=> q[1] = a \/ (s \in S /\ q[1] # b)
  BY <1>1 DEF a, b
<1>6. s \in T => st \notin {"idle", "spawned"}
  BY <1>3, <1>4, <1>5
<1>7. ASSUME NEW i \in 1 .. Len(p), p[i] = a
      PROVE  /\ st \notin {"idle", "spawned"} /\ s \notin T
             /\ \A j \in 1 .. Len(p) : p[j] = a => j = i
             /\ st = "ended" => \E j \in 1 .. Len(p) : j > i /\ p[j] = b
  <2>1. i + 1 \in 1 .. Len(q) /\ q[i + 1] = a /\ i + 1 # 1
    BY <1>1, <1>7
  <2>2. /\ st \notin {"idle", "spawned"} /\ s \notin S
        /\ \A j \in 1 .. Len(q) : q[j] = a => j = i + 1
        /\ st = "ended" => \E j \in 1 .. Len(q) : j > i + 1 /\ q[j] = b
    BY <1>4, <2>1
  <2>3. s \notin T
    BY <1>3, <1>5, <2>1, <2>2
  <2>4. \A j \in 1 .. Len(p) : p[j] = a => j = i
    <3> SUFFICES ASSUME NEW j \in 1 .. Len(p), p[j] = a PROVE j = i
      OBVIOUS
    <3>1. j + 1 = i + 1
      BY <1>1, <2>2
    <3> QED
      BY <3>1
  <2>5. ASSUME st = "ended" PROVE \E j \in 1 .. Len(p) : j > i /\ p[j] = b
    <3>1. PICK j \in 1 .. Len(q) : j > i + 1 /\ q[j] = b
      BY <2>2, <2>5
    <3>2. j # 1 /\ j - 1 > i
      BY <3>1
    <3> QED
      BY <1>1, <3>1, <3>2
  <2> QED
    BY <2>2, <2>3, <2>4, <2>5
<1>8. \A i \in 1 .. Len(p) : p[i] = b => st = "ended"
  BY <1>1, <1>4
<1>9. ASSUME s \in T, st = "ended" PROVE \E j \in 1 .. Len(p) : p[j] = b
  <2>1. PICK j \in 1 .. Len(q) : q[j] = b /\ j # 1
    <3>1. CASE q[1] = a
      BY <1>2, <1>3, <1>4, <1>9, <3>1
    <3>2. CASE q[1] # a
      BY <1>4, <1>5, <1>9, <3>2
    <3> QED
      BY <3>1, <3>2
  <2> QED
    BY <1>1, <2>1
<1>10. Member(p, T, st, s)
  BY <1>6, <1>7, <1>8, <1>9 DEF Member, a, b
<1> QED
  BY <1>10 DEF p

LEMMA ActorMembers ==
  ASSUME Typed, Membership, ActorStep, UNCHANGED choice PROVE Membership'
<1>1. stage' = stage
  BY DEF ActorStep, Ticks, TickScheduled, FirstSubscribes, FirstSubscribed, Subscribes,
         Unsubscribes, readerVars
<1>2. CASE TickScheduled \/ FirstSubscribes
  BY <1>1, <1>2 DEF TickScheduled, FirstSubscribes, Membership
<1>3. ASSUME inbox # << >>, inbox' = Tail(inbox),
             \A s \in Sub : s \in subs' <=> \/ Head(inbox) = <<"SUBSCRIBE", s>>
                                            \/ s \in subs /\ Head(inbox) # <<"UNSUBSCRIBE", s>>
      PROVE  Membership'
  <2>1. \A s \in Sub : Member(Tail(inbox), subs', stage[s], s)
    BY <1>3, MemberTook DEF Membership, Typed, Polling
  <2> QED
    BY <1>1, <1>3, <2>1 DEF Membership
<1>4. CASE Ticks
  <2>1. /\ inbox # << >> /\ Head(inbox) = TICK /\ inbox' = Tail(inbox) /\ subs' = subs
    BY <1>4 DEF Ticks, Takes, TICK
  <2> QED
    BY <1>3, <2>1, LetterFacts
<1>5. ASSUME NEW t \in Sub, Subscribes(t) PROVE Membership'
  <2>1. /\ inbox # << >> /\ Head(inbox) = <<"SUBSCRIBE", t>> /\ inbox' = Tail(inbox)
        /\ subs' = subs \cup {t}
    BY <1>5 DEF Subscribes, Takes
  <2>2. \A s \in Sub : /\ Head(inbox) # <<"UNSUBSCRIBE", s>>
                       /\ Head(inbox) = <<"SUBSCRIBE", s>> <=> s = t
    BY <2>1
  <2> QED
    BY <1>3, <2>1, <2>2
<1>6. ASSUME NEW t \in Sub, Unsubscribes(t) PROVE Membership'
  <2>1. /\ inbox # << >> /\ Head(inbox) = <<"UNSUBSCRIBE", t>> /\ inbox' = Tail(inbox)
        /\ subs' = subs \ {t}
    BY <1>6 DEF Unsubscribes, Takes
  <2>2. \A s \in Sub : /\ Head(inbox) # <<"SUBSCRIBE", s>>
                       /\ Head(inbox) = <<"UNSUBSCRIBE", s>> <=> s = t
    BY <2>1
  <2> QED
    BY <1>3, <2>1, <2>2
<1>7. CASE FirstSubscribed
  <2>1. /\ inbox # << >> /\ Head(inbox)[1] = "SUBSCRIBE" /\ inbox' = Tail(inbox)
        /\ subs = {} /\ subs' = {Head(inbox)[2]}
    BY <1>7 DEF FirstSubscribed, Typed, OneTick
  <2>2. Head(inbox) \in Letters
    BY <2>1, Took DEF Typed, Polling
  <2> DEFINE t == Head(inbox)[2]
  <2>3. Head(inbox) = <<"SUBSCRIBE", t>>
    BY <2>1, <2>2, LetterFacts
  <2> HIDE DEF t
  <2>4. \A s \in Sub : Head(inbox) = <<"SUBSCRIBE", s>> <=> s = t
    BY <2>3
  <2> QED
    BY <1>3, <2>1, <2>4 DEF t
<1> QED
  BY <1>2, <1>4, <1>5, <1>6, <1>7 DEF ActorStep

LEMMA RestMembers ==
  ASSUME Typed, Membership, LegacyAct, ~ ActorStep, UNCHANGED choice PROVE Membership'
<1>0. inbox \in Seq(Letters) /\ stage \in [Sub -> Stages]
  BY DEF Typed, Polling, Reading
<1>1. CASE BlockSealed \/ BlockAnswers \/ EventsAnswer \/ RequestFails
  BY <1>1 DEF BlockSealed, BlockAnswers, EventsAnswer, RequestFails, pollVars, readerVars,
              Membership
<1>2. ASSUME NEW i \in 0 .. 2, TimerFires(i) PROVE Membership'
  <2>1. inbox' = Append(inbox, TICK) /\ UNCHANGED <<subs, stage>>
    BY <1>2 DEF TimerFires, Post, TICK, readerVars
  <2>2. \A s \in Sub : Member(Append(inbox, TICK), subs, stage[s], s)
    BY <1>0, LetterFacts, MemberPut DEF Membership
  <2> QED
    BY <2>1, <2>2 DEF Membership
<1>3. ASSUME NEW t \in Sub, ReaderStarts(t) PROVE Membership'
  <2>1. /\ inbox' = Append(inbox, <<"SUBSCRIBE", t>>) /\ subs' = subs
        /\ stage[t] = "spawned" /\ stage' = [stage EXCEPT ![t] = "waiting"]
    BY <1>3 DEF ReaderStarts, Post
  <2>2. <<"SUBSCRIBE", t>> \in Letters
    BY LetterFacts
  <2>3. ASSUME NEW s \in Sub
        PROVE  Member(inbox', subs, stage'[s], s) /\ (stage'[s] # "idle" => choice[s] = "legacy")
    <3>1. CASE s = t
      BY <1>0, <2>1, <3>1, MemberStarts DEF Membership
    <3>2. CASE s # t
      <4>1. <<"SUBSCRIBE", t>> \notin {<<"SUBSCRIBE", s>>, <<"UNSUBSCRIBE", s>>}
        BY <3>2
      <4>2. stage'[s] = stage[s]
        BY <1>0, <2>1, <3>2
      <4> QED
        BY <1>0, <2>1, <2>2, <4>1, <4>2, MemberPut DEF Membership
    <3> QED
      BY <3>1, <3>2
  <2> QED
    BY <2>1, <2>3 DEF Membership
<1>4. ASSUME NEW t \in Sub, ReaderExits(t) PROVE Membership'
  <2>1. /\ inbox' = Append(inbox, <<"UNSUBSCRIBE", t>>) /\ subs' = subs
        /\ stage[t] = "waiting" /\ stage' = [stage EXCEPT ![t] = "ended"]
    BY <1>4 DEF ReaderExits, Post
  <2>2. <<"UNSUBSCRIBE", t>> \in Letters
    BY LetterFacts
  <2>3. ASSUME NEW s \in Sub
        PROVE  Member(inbox', subs, stage'[s], s) /\ (stage'[s] # "idle" => choice[s] = "legacy")
    <3>1. CASE s = t
      BY <1>0, <2>1, <3>1, MemberEnds DEF Membership
    <3>2. CASE s # t
      <4>1. <<"UNSUBSCRIBE", t>> \notin {<<"SUBSCRIBE", s>>, <<"UNSUBSCRIBE", s>>}
        BY <3>2
      <4>2. stage'[s] = stage[s]
        BY <1>0, <2>1, <3>2
      <4> QED
        BY <1>0, <2>1, <2>2, <4>1, <4>2, MemberPut DEF Membership
    <3> QED
      BY <3>1, <3>2
  <2> QED
    BY <2>1, <2>3 DEF Membership
<1>5. ASSUME NEW t \in Sub, ReaderCalls(t) PROVE Membership'
  <2>1. /\ UNCHANGED <<inbox, subs>> /\ stage[t] = "waiting"
        /\ stage' \in {stage, [stage EXCEPT ![t] = "crashed"]}
    BY <1>5 DEF ReaderCalls, pollVars
  <2>2. \A s \in Sub : stage'[s] = stage[s] \/ (stage[s] = "waiting" /\ stage'[s] = "crashed")
    BY <1>0, <2>1
  <2>3. \A s \in Sub : Member(inbox, subs, "waiting", s) => Member(inbox, subs, "crashed", s)
    BY DEF Member
  <2>4. \A s \in Sub : Member(inbox, subs, stage'[s], s) /\ (stage'[s] # "idle" => choice[s] = "legacy")
    BY <2>2, <2>3 DEF Membership
  <2> QED
    BY <2>1, <2>4 DEF Membership
<1> QED
  BY <1>1, <1>2, <1>3, <1>4, <1>5 DEF LegacyAct, LegacyMacrotask, ReaderStep

LEMMA ChosenMembers ==
  ASSUME Typed, Membership, NEW t \in Sub, Chooses(t) \/ Unsubscribed(t) \/ Decides(t)
  PROVE  Membership'
<1>0. /\ choice \in [Sub -> {"unused", "asking", "chosen", "stream", "legacy", "failed"}]
      /\ stage \in [Sub -> Stages]
  BY DEF Typed, Choosing, Reading
<1>1. CASE Unsubscribed(t)
  BY <1>1 DEF Unsubscribed, pollVars, Membership
<1>2. CASE Decides(t)
  <2>1. UNCHANGED <<inbox, subs, stage>>
    BY <1>2 DEF Decides, legacyVars, pollVars, readerVars
  <2>2. \A s \in Sub : choice[s] = "legacy" => choice'[s] = "legacy"
    BY <1>0, <1>2 DEF Decides
  <2> QED
    BY <2>1, <2>2 DEF Membership
<1>3. CASE Chooses(t)
  <2>1. PICK c \in {"stream", "legacy", "failed"} :
          /\ choice[t] = "chosen" /\ choice' = [choice EXCEPT ![t] = c]
          /\ stage' = [stage EXCEPT ![t] = IF choice'[t] = "legacy" THEN "spawned" ELSE @]
          /\ UNCHANGED <<inbox, subs>>
    BY <1>3 DEF Chooses, pollVars
  <2>2. stage[t] = "idle"
    BY <2>1 DEF Membership
  <2>3. Member(inbox, subs, "idle", t) => Member(inbox, subs, "spawned", t)
    BY DEF Member
  <2>4. \A s \in Sub : Member(inbox, subs, stage'[s], s) /\ (stage'[s] # "idle" => choice'[s] = "legacy")
    BY <1>0, <2>1, <2>2, <2>3 DEF Membership
  <2> QED
    BY <2>1, <2>4 DEF Membership
<1> QED
  BY <1>1, <1>2, <1>3

LEMMA StepMembers == Typed /\ Membership /\ [Next]_vars => Membership'
<1> SUFFICES ASSUME Typed, Membership, [Next]_vars PROVE Membership'
  OBVIOUS
<1>1. CASE UNCHANGED <<inbox, subs, stage, choice>>
  BY <1>1 DEF Membership
<1>2. CASE LegacyAct /\ UNCHANGED choiceVars
  BY <1>2, ActorMembers, RestMembers DEF choiceVars
<1> QED
  BY <1>1, <1>2, ChosenMembers, StepKinds DEF vars, legacyVars, choiceVars, pollVars, readerVars

LEMMA InitMembers == Init => Membership
<1> SUFFICES ASSUME Init PROVE Membership
  OBVIOUS
<1>1. \A i \in 1 .. Len(inbox) : FALSE
  BY DEF Init, LegacyInit
<1>2. subs = {} /\ \A s \in Sub : stage[s] = "idle"
  BY DEF Init, LegacyInit
<1> QED
  BY <1>1, <1>2 DEF Membership, Member

LEMMA MembersInductive == Spec => [](Typed /\ Membership)
  BY InitTyped, StepTyped, InitMembers, StepMembers, PTL DEF Spec

\* Unsubscribing takes effect, whenever it is called: at rest, whoever has left
\* has no open stream, no subscriber waiting and no address it is sent events at
\* (subscribe of events/index.ts, UNSUBSCRIBE of legacy-events.js).
THEOREM WhoLeavesHasLeft == Spec => []LeftForGood
<1>1. Typed /\ Membership => LeftForGood
  <2> SUFFICES ASSUME Typed, Membership, MicrotasksDrained, NEW s \in Sub, left[s]
               PROVE  /\ choice[s] = "stream" => closed[s]
                      /\ stage[s] \in {"idle", "ended", "crashed"}
                      /\ s \in subs /\ at = "free" => stage[s] = "crashed"
    BY DEF LeftForGood
  <2>1. /\ stage[s] \in Stages /\ LegacyDrained /\ ~ Leaving(s)
        /\ ~ ReaderRunnable(s) /\ ~ ActorRunnable
    BY DEF MicrotasksDrained, LegacyDrained, Typed, Reading
  <2>2. choice[s] = "stream" => closed[s]
    BY <2>1 DEF Leaving
  <2>3. stage[s] \notin {"spawned", "waiting"}
    <3>1. stage[s] # "spawned"
      BY <2>1 DEF ReaderRunnable
    <3>2. ASSUME stage[s] = "waiting" PROVE FALSE
      <4>1. mailbox[s] = << >> /\ choice[s] = "legacy"
        BY <2>1, <3>2 DEF ReaderRunnable, Membership
      <4>2. Exit \notin {mailbox[s][i] : i \in 1 .. Len(mailbox[s])}
        BY <4>1
      <4> QED
        BY <2>1, <3>2, <4>1, <4>2 DEF Leaving
    <3> QED
      BY <3>1, <3>2
  <2>4. ASSUME s \in subs, at = "free" PROVE stage[s] = "crashed"
    <3>1. inbox = << >> /\ Member(inbox, subs, stage[s], s)
      BY <2>1, <2>4 DEF ActorRunnable, Membership
    <3>2. \A i \in 1 .. Len(inbox) : FALSE
      BY <3>1
    <3> QED
      BY <2>1, <2>3, <2>4, <3>1, <3>2 DEF Member, Stages
  <2> QED
    BY <2>1, <2>2, <2>3, <2>4 DEF Stages
<1> QED
  BY <1>1, MembersInductive, PTL

-----------------------------------------------------------------------------
(* Sequences: what was read and what is to be read.                         *)

LEMMA SameSeq ==
  ASSUME NEW A, NEW p \in Seq(A), NEW q \in Seq(A), Len(p) = Len(q),
         \A i \in 1 .. Len(p) : p[i] = q[i]
  PROVE  p = q
  OBVIOUS

LEMMA Joined ==
  ASSUME NEW A, NEW p \in Seq(A), NEW q \in Seq(A)
  PROVE  /\ p \o q \in Seq(A) /\ Len(p \o q) = Len(p) + Len(q)
         /\ Len(p) \in Nat /\ Len(q) \in Nat
         /\ \A i \in 1 .. Len(p) : (p \o q)[i] = p[i]
         /\ \A i \in 1 .. Len(q) : (p \o q)[Len(p) + i] = q[i]
  OBVIOUS

\* The head of what is to be read moves to what was read: the whole stays.
LEMMA ReadOn ==
  ASSUME NEW A, NEW e \in Seq(A), NEW q \in Seq(A), q # << >>
  PROVE  /\ Append(e, Head(q)) \o Tail(q) = e \o q
         /\ Append(e, Head(q)) \in Seq(A) /\ Tail(q) \in Seq(A) /\ Head(q) \in A
<1>1. /\ Append(e, Head(q)) \in Seq(A) /\ Tail(q) \in Seq(A) /\ Head(q) \in A
      /\ Len(Append(e, Head(q))) = Len(e) + 1 /\ Len(Tail(q)) = Len(q) - 1
      /\ Len(e) \in Nat /\ Len(q) \in Nat \ {0} /\ Head(q) = q[1]
  OBVIOUS
<1>2. \A i \in 1 .. Len(e) : Append(e, Head(q))[i] = e[i]
  OBVIOUS
<1>3. Append(e, Head(q))[Len(e) + 1] = q[1]
  BY <1>1
<1>4. \A i \in 1 .. Len(q) - 1 : Tail(q)[i] = q[i + 1]
  OBVIOUS
<1> DEFINE a == Append(e, Head(q))
           b == Tail(q)
<1> HIDE DEF a, b
<1>5. /\ a \in Seq(A) /\ b \in Seq(A) /\ Len(a) = Len(e) + 1 /\ Len(b) = Len(q) - 1
      /\ \A i \in 1 .. Len(e) : a[i] = e[i]
      /\ a[Len(e) + 1] = q[1] /\ \A i \in 1 .. Len(q) - 1 : b[i] = q[i + 1]
  BY <1>1, <1>2, <1>3, <1>4 DEF a, b
<1>6. Len(a \o b) = Len(e \o q) /\ a \o b \in Seq(A) /\ e \o q \in Seq(A)
  <2>1. a \o b \in Seq(A) /\ Len(a \o b) = Len(a) + Len(b)
    BY <1>5, Joined
  <2>2. e \o q \in Seq(A) /\ Len(e \o q) = Len(e) + Len(q)
    OBVIOUS
  <2> QED
    BY <1>1, <1>5, <2>1, <2>2
<1>7. ASSUME NEW i \in 1 .. Len(a \o b) PROVE (a \o b)[i] = (e \o q)[i]
  <2>1. i \in 1 .. Len(e) + Len(q)
    BY <1>1, <1>5
  <2>2. CASE i <= Len(e)
    BY <1>1, <1>5, <2>1, <2>2
  <2>3. CASE i = Len(e) + 1
    BY <1>1, <1>5, <2>1, <2>3
  <2>4. CASE i > Len(e) + 1
    <3>1. (a \o b)[i] = b[i - (Len(e) + 1)] /\ i - (Len(e) + 1) \in 1 .. Len(q) - 1
      BY <1>1, <1>5, <2>1, <2>4
    <3>2. b[i - (Len(e) + 1)] = q[i - Len(e)]
      BY <1>1, <1>5, <2>1, <3>1
    <3>3. (e \o q)[i] = q[i - Len(e)]
      BY <1>1, <2>1, <2>4
    <3> QED
      BY <3>1, <3>2, <3>3
  <2> QED
    BY <1>1, <2>1, <2>2, <2>3, <2>4
<1>8. a \o b = e \o q
  BY <1>6, <1>7, SameSeq
<1> QED
  BY <1>1, <1>8 DEF a, b

\* More to be read comes behind the whole.
LEMMA More ==
  ASSUME NEW A, NEW e \in Seq(A), NEW q \in Seq(A), NEW r \in Seq(A)
  PROVE  e \o (q \o r) = (e \o q) \o r
<1>1. /\ e \o (q \o r) \in Seq(A) /\ (e \o q) \o r \in Seq(A)
      /\ Len(e \o (q \o r)) = Len((e \o q) \o r) /\ Len(e) \in Nat /\ Len(q) \in Nat /\ Len(r) \in Nat
  OBVIOUS
<1>2. \A i \in 1 .. Len(e \o (q \o r)) : (e \o (q \o r))[i] = ((e \o q) \o r)[i]
  BY <1>1
<1> QED
  BY <1>1, <1>2, SameSeq

LEMMA AppendIsMore ==
  ASSUME NEW A, NEW q \in Seq(A), NEW x \in A
  PROVE  Append(q, x) = q \o <<x>> /\ <<x>> \in Seq(A)
  OBVIOUS

-----------------------------------------------------------------------------
(* The streams.                                                             *)

Count(n) == [i \in 1 .. n |-> i]

LEMMA CountOn ==
  ASSUME NEW n \in Nat
  PROVE  Append(Count(n), n + 1) = Count(n + 1) /\ Count(n) \in Seq(Nat) /\ Len(Count(n)) = n
<1>1. Count(n) \in Seq(Nat) /\ Len(Count(n)) = n /\ \A i \in 1 .. n : Count(n)[i] = i
  BY DEF Count
<1>2. n + 1 \in Nat /\ Count(n + 1) \in Seq(Nat) /\ Len(Count(n + 1)) = n + 1
      /\ \A i \in 1 .. n + 1 : Count(n + 1)[i] = i
  BY DEF Count
<1> DEFINE p == Append(Count(n), n + 1)
<1>3. /\ p \in Seq(Nat) /\ Len(p) = n + 1 /\ p[n + 1] = n + 1
      /\ \A i \in 1 .. n : p[i] = Count(n)[i]
  BY <1>1, <1>2
<1> HIDE DEF p
<1>4. \A i \in 1 .. n + 1 : i \in 1 .. n \/ i = n + 1
  OBVIOUS
<1>5. \A i \in 1 .. Len(p) : p[i] = Count(n + 1)[i]
  BY <1>1, <1>2, <1>3, <1>4
<1>6. p = Count(n + 1)
  BY <1>2, <1>3, <1>5, SameSeq
<1> QED
  BY <1>1, <1>6 DEF p

\* Of the e emitted and the q queued of n received, unless the queue has stalled.
Streamed(e, q, n, st) == e = Count(Len(e)) /\ (~ st => e \o q = Count(n))

LEMMA ReadSame == \A e \in Seq(Nat), q \in Seq(Nat) : q # << >> => Append(e, Head(q)) \o Tail(q) = e \o q
<1> TAKE e \in Seq(Nat), q \in Seq(Nat)
<1> HAVE q # << >>
<1> QED
  BY ReadOn

LEMMA EmitOne ==
  ASSUME NEW e \in Seq(Nat), NEW q \in Seq(Nat), q # << >>, NEW n \in Nat,
         e = Count(Len(e)), e \o q = Count(n)
  PROVE  /\ Append(e, Head(q)) = Count(Len(Append(e, Head(q))))
         /\ Append(e, Head(q)) \o Tail(q) = Count(n)
<1> DEFINE k == Len(e) + 1
<1>1. Len(e) \in Nat /\ Len(q) \in Nat \ {0} /\ Head(q) = q[1] /\ Len(e \o q) = Len(e) + Len(q)
  OBVIOUS
<1>2. (e \o q)[k] = q[1]
  BY <1>1
<1>3. n = Len(e) + Len(q) /\ k \in 1 .. n
  <2>1. Len(e \o q) = n
    <3>1. Len(Count(n)) = n
      BY CountOn
    <3> QED
      BY <3>1
  <2>2. n = Len(e) + Len(q)
    BY <1>1, <2>1
  <2> HIDE DEF Count
  <2>3. \A x \in Nat, y \in Nat \ {0} : x + 1 \in 1 .. x + y
    OBVIOUS
  <2> QED
    BY <1>1, <2>2, <2>3
<1>4. Count(n)[k] = k
  BY <1>3 DEF Count
<1>5. Head(q) = Len(e) + 1
  BY <1>1, <1>2, <1>4
<1>6. Append(e, Head(q)) = Count(Len(e) + 1)
  BY <1>1, <1>5, CountOn
<1>7. Len(Append(e, Head(q))) = Len(e) + 1
  OBVIOUS
<1>8. Append(e, Head(q)) \o Tail(q) = e \o q
  BY ReadSame
<1> QED
  BY <1>6, <1>7, <1>8

LEMMA StreamInOrder ==
  ASSUME StreamTypeOK, EmittedInOrder, NEW s \in Sub, StreamStep(s) PROVE EmittedInOrder'
<1> USE EventsAssumption DEF StreamTypeOK
<1>1. \A t \in Stream : Streamed(emitted[t], queue[t], Len(source[t]), stalled[t])
  BY DEF EmittedInOrder, Streamed, Count
<1>2. s \in Stream /\ source[s] \in Seq(Item) /\ Len(source[s]) \in Nat
      /\ queue[s] \in Seq(Nat) /\ emitted[s] \in Seq(Nat)
  OBVIOUS
<1>3. ASSUME \A t \in Stream : t # s =>
               /\ emitted'[t] = emitted[t] /\ queue'[t] = queue[t] /\ stalled'[t] = stalled[t]
               /\ Len(source'[t]) = Len(source[t]),
             Streamed(emitted'[s], queue'[s], Len(source'[s]), stalled'[s])
      PROVE  EmittedInOrder'
  <2>1. \A t \in Stream : Streamed(emitted'[t], queue'[t], Len(source'[t]), stalled'[t])
    BY <1>1, <1>3
  <2> QED
    BY <2>1 DEF EmittedInOrder, Streamed, Count
<1>4. ASSUME NEW kind \in {"data", "error", "close"}, Receives(s, kind) PROVE EmittedInOrder'
  <2> DEFINE item == [kind |-> kind, decoded |-> IF kind = "data" THEN "pending" ELSE "ready"]
             n    == Len(source[s])
  <2>1. item \in Item
    BY DEF Item
  <2> HIDE DEF item
  <2>2. /\ source' = [source EXCEPT ![s] = Append(@, item)]
        /\ queue' = [queue EXCEPT ![s] = Append(@, Len(source'[s]))]
        /\ UNCHANGED <<stalled, emitted>>
    BY <1>4 DEF Receives, item
  <2>3. source'[s] = Append(source[s], item) /\ Len(Append(source[s], item)) = n + 1
    BY <1>2, <2>1, <2>2
  <2>4. Len(source'[s]) = n + 1 /\ queue'[s] = Append(queue[s], n + 1)
    BY <2>2, <2>3
  <2>5. \A t \in Stream : t # s =>
               /\ emitted'[t] = emitted[t] /\ queue'[t] = queue[t] /\ stalled'[t] = stalled[t]
               /\ Len(source'[t]) = Len(source[t])
    BY <2>2
  <2>6. emitted[s] \o Append(queue[s], n + 1) = Append(emitted[s] \o queue[s], n + 1)
    <3> DEFINE e == emitted[s]
               q == queue[s]
    <3>1. e \in Seq(Nat) /\ q \in Seq(Nat) /\ n + 1 \in Nat /\ e \o q \in Seq(Nat)
      BY <1>2
    <3> HIDE DEF e, q, n
    <3>2. e \o Append(q, n + 1) = Append(e \o q, n + 1)
      BY <3>1, More, AppendIsMore
    <3> QED
      BY <3>2 DEF e, q
  <2>7. ~ stalled[s] => emitted[s] \o Append(queue[s], n + 1) = Count(n + 1)
    BY <1>1, <1>2, <2>6, CountOn DEF Streamed
  <2>8. Streamed(emitted'[s], queue'[s], Len(source'[s]), stalled'[s])
    BY <1>1, <2>2, <2>4, <2>7 DEF Streamed
  <2> QED
    BY <1>3, <2>5, <2>8
<1>5. ASSUME NEW i \in 1 .. MaxItems, NEW outcome \in {"ready", "failed"}, Decodes(s, i, outcome)
      PROVE  EmittedInOrder'
  <2>1. /\ source' = [source EXCEPT ![s] =
                        [source[s] EXCEPT ![i] = [source[s][i] EXCEPT !.decoded = outcome]]]
        /\ UNCHANGED <<queue, stalled, emitted>>
    BY <1>5 DEF Decodes
  <2>2. source'[s] = [source[s] EXCEPT ![i] = [source[s][i] EXCEPT !.decoded = outcome]]
    BY <2>1
  <2>3. \A x : Len([source[s] EXCEPT ![i] = x]) = Len(source[s])
    BY <1>2
  <2>4. Len(source'[s]) = Len(source[s])
    BY <2>2, <2>3
  <2> QED
    BY <1>1, <1>3, <2>1, <2>4
<1>6. ASSUME TaskRunnable(s), queue' = [queue EXCEPT ![s] = Tail(@)] PROVE queue[s] # << >> /\ ~ stalled[s]
  BY <1>6 DEF TaskRunnable
<1>7. CASE TaskEmits(s)
  <2>1. /\ emitted' = [emitted EXCEPT ![s] = Append(@, Head(queue[s]))]
        /\ queue' = [queue EXCEPT ![s] = Tail(@)]
        /\ stalled' \in {stalled, [stalled EXCEPT ![s] = TRUE]} /\ source' = source
        /\ queue[s] # << >> /\ ~ stalled[s]
    BY <1>6, <1>7 DEF TaskEmits
  <2>2. /\ Append(emitted[s], Head(queue[s])) = Count(Len(Append(emitted[s], Head(queue[s]))))
        /\ Append(emitted[s], Head(queue[s])) \o Tail(queue[s]) = Count(Len(source[s]))
    BY <1>1, <1>2, <2>1, EmitOne DEF Streamed
  <2>3. Streamed(emitted'[s], queue'[s], Len(source'[s]), stalled'[s])
    BY <2>1, <2>2 DEF Streamed
  <2>4. \A t \in Stream : t # s =>
               /\ emitted'[t] = emitted[t] /\ queue'[t] = queue[t] /\ stalled'[t] = stalled[t]
               /\ Len(source'[t]) = Len(source[t])
    BY <2>1
  <2> QED
    BY <1>3, <2>3, <2>4
<1>8. CASE TaskRejects(s)
  <2>1. /\ queue' = [queue EXCEPT ![s] = Tail(@)] /\ stalled' = [stalled EXCEPT ![s] = TRUE]
        /\ UNCHANGED <<source, emitted>>
    BY <1>8 DEF TaskRejects
  <2>2. stalled'[s]
    BY <2>1
  <2>3. Streamed(emitted'[s], queue'[s], Len(source'[s]), stalled'[s])
    BY <1>1, <2>1, <2>2 DEF Streamed
  <2> QED
    BY <1>3, <2>1, <2>3
<1> QED
  BY <1>4, <1>5, <1>7, <1>8 DEF StreamStep, Arrives, DecoderEnds, Emits, Rejects

LEMMA StepStreams == StreamTypeOK /\ EmittedInOrder /\ [Next]_vars => EmittedInOrder'
<1>1. UNCHANGED streamVars /\ EmittedInOrder => EmittedInOrder'
  BY DEF EmittedInOrder, streamVars
<1>2. ASSUME NEW s \in Sub, Chooses(s) \/ Unsubscribed(s) \/ Decides(s)
      PROVE  UNCHANGED streamVars
  BY <1>2 DEF Chooses, Unsubscribed, Decides
<1> QED
  BY <1>1, <1>2, StreamInOrder, StepKinds DEF vars

LEMMA InitStreams == Init => EmittedInOrder
<1> SUFFICES ASSUME Init PROVE EmittedInOrder
  OBVIOUS
<1>1. << >> = [i \in 1 .. Len(<< >>) |-> i] /\ << >> \o << >> = << >>
  OBVIOUS
<1>2. \A s \in Stream : emitted[s] = << >> /\ queue[s] = << >> /\ source[s] = << >>
  BY DEF Init, StreamInit
<1> QED
  BY <1>1, <1>2 DEF EmittedInOrder

-----------------------------------------------------------------------------
(* What the subscribers are told.                                           *)

\* Read and unread of one subscriber, together: in order up to the first EXIT.
Good(q)      == \A i \in 1 .. Len(q) : (\A j \in 1 .. i : q[j] # Exit) =>
                  q[i] \in EventBlocks /\ (i > 1 => Follows(q[i - 1], q[i]))
Alive(q)     == \A i \in 1 .. Len(q) : q[i] # Exit
Quiet(q)     == \A i \in 1 .. Len(q) : q[i] = Exit
UpTo(q, top) == q[Len(q)] <= top /\ \A e \in EventBlocks : e <= q[Len(q)] \/ top < e

\* Of a subscriber that read t and has m to read: while its subscription is coming
\* nothing was sent, and while it is tuned in, what was sent to it goes up to top.
Heard(t, m, coming, tuned, top) ==
  /\ Good(t \o m)
  /\ coming => t = << >> /\ Quiet(m)
  /\ tuned /\ Alive(t \o m) /\ t \o m # << >> => UpTo(t \o m, top)

Coming(s) == \/ stage[s] \in {"idle", "spawned"}
             \/ \E i \in 1 .. Len(inbox) : inbox[i] = <<"SUBSCRIBE", s>>
Tuned(s)  == s \in subs /\ stage[s] # "ended" /\ ~ broken
Top       == IF at = "events" THEN from - 1 ELSE hwm

AllHeard == \A s \in Sub : Heard(told[s], mailbox[s], Coming(s), Tuned(s), Top)

LEMMA MailsJoined ==
  ASSUME NEW p \in Mails, NEW q \in Mails
  PROVE  /\ p \o q \in Mails /\ Len(p \o q) = Len(p) + Len(q)
         /\ Len(p) \in Nat /\ Len(q) \in Nat
         /\ \A i \in 1 .. Len(p) : (p \o q)[i] = p[i]
         /\ \A i \in 1 .. Len(q) : (p \o q)[Len(p) + i] = q[i]
<1> DEFINE A == Nat \cup {Exit}
<1>1. p \in Seq(A) /\ q \in Seq(A) /\ Mails = Seq(A)
  BY DEF Mails
<1> HIDE DEF A
<1> QED
  BY <1>1, Joined

LEMMA MailsMore ==
  ASSUME NEW p \in Mails, NEW q \in Mails, NEW r \in Mails
  PROVE  p \o (q \o r) = (p \o q) \o r
<1> DEFINE A == Nat \cup {Exit}
<1>1. p \in Seq(A) /\ q \in Seq(A) /\ r \in Seq(A)
  BY DEF Mails
<1> HIDE DEF A
<1> QED
  BY <1>1, More

LEMMA EventsAreMails ==
  ASSUME NEW q \in Seq(EventBlocks)
  PROVE  q \in Mails /\ \A i \in 1 .. Len(q) : q[i] \in EventBlocks /\ q[i] \in Nat
<1>1. Seq(EventBlocks) \subseteq Mails
  BY LegacyAssumption, SeqOfMore DEF Mails
<1>2. \A i \in 1 .. Len(q) : q[i] \in EventBlocks
  OBVIOUS
<1> QED
  BY <1>1, <1>2, LegacyAssumption

LEMMA AliveLast ==
  ASSUME NEW q \in Mails, Good(q), Alive(q), q # << >>
  PROVE  Len(q) \in 1 .. Len(q) /\ q[Len(q)] \in EventBlocks /\ q[Len(q)] \in Nat
<1>1. Len(q) \in Nat \ {0}
  BY DEF Mails
<1>2. q[Len(q)] \in EventBlocks
  BY <1>1 DEF Good, Alive
<1>3. \A n \in Nat \ {0} : n \in 1 .. n
  OBVIOUS
<1>4. q[Len(q)] \in Nat
  BY <1>2, LegacyAssumption
<1> QED
  BY <1>1, <1>2, <1>3, <1>4

LEMMA Wholes ==
  ASSUME NEW t \in Seq(Nat), NEW m \in Mails
  PROVE  /\ t \in Mails /\ t \o m \in Mails /\ t \o << >> = t /\ << >> \o m = m
         /\ Len(t) \in Nat /\ Len(m) \in Nat /\ Len(t \o m) = Len(t) + Len(m)
         /\ \A i \in 1 .. Len(t) : (t \o m)[i] = t[i]
         /\ \A i \in 1 .. Len(m) : (t \o m)[Len(t) + i] = m[i]
<1>1. t \in Mails
  BY SeqOfMore DEF Mails
<1>2. t \o << >> = t /\ << >> \o m = m
  BY DEF Mails
<1> QED
  BY <1>1, <1>2, MailsJoined

LEMMA HeardOn ==
  ASSUME NEW t, NEW m, NEW c, NEW u, NEW c2, NEW u2, NEW top, NEW top2,
         Heard(t, m, c, u, top), c2 => c, u2 => u, u2 => top2 = top
  PROVE  Heard(t, m, c2, u2, top2)
  BY DEF Heard

\* Nothing was sent: whatever the mark, nothing is behind it.
LEMMA HeardNothing ==
  ASSUME NEW t \in Seq(Nat), NEW m \in Mails, NEW c, NEW u, NEW c2, NEW u2, NEW top, NEW top2,
         Heard(t, m, c, u, top), c, c2 => c
  PROVE  Heard(t, m, c2, u2, top2)
<1>1. t = << >> /\ Quiet(m) /\ Good(t \o m) /\ t \o m = m
  BY Wholes DEF Heard
<1>2. Alive(m) => m = << >>
  <2>1. m # << >> => 1 \in 1 .. Len(m)
    BY DEF Mails
  <2> QED
    BY <1>1, <2>1 DEF Alive, Quiet
<1> QED
  BY <1>1, <1>2 DEF Heard

\* There is no mark: nothing was sent to who is tuned in.
LEMMA HeardNoMark ==
  ASSUME NEW t \in Seq(Nat), NEW m \in Mails, NEW c, NEW u, NEW c2, NEW u2, NEW top2,
         Heard(t, m, c, u, None), c2 => c, u2 => u
  PROVE  Heard(t, m, c2, u2, top2)
<1>1. ASSUME u2, Alive(t \o m), t \o m # << >> PROVE FALSE
  <2>1. t \o m \in Mails /\ Good(t \o m) /\ UpTo(t \o m, None)
    BY <1>1, Wholes DEF Heard
  <2> DEFINE q == t \o m
  <2>2. q[Len(q)] \in Nat
    BY <1>1, <2>1, AliveLast
  <2>3. q[Len(q)] <= None
    BY <2>1 DEF UpTo
  <2> HIDE DEF q
  <2> QED
    BY <2>2, <2>3 DEF None
<1>2. Good(t \o m) /\ (c2 => t = << >> /\ Quiet(m))
  BY DEF Heard
<1> QED
  BY <1>1, <1>2 DEF Heard

\* The events of a range come behind what was sent up to the range.
LEMMA GoodMore ==
  ASSUME NEW q \in Mails, Good(q), NEW a \in Nat \ {0}, NEW b \in Nat, a <= b,
         Alive(q) /\ q # << >> => UpTo(q, a - 1)
  PROVE  /\ Good(q \o EventsIn(a, b))
         /\ Alive(q \o EventsIn(a, b)) /\ q \o EventsIn(a, b) # << >>
              => UpTo(q \o EventsIn(a, b), b)
<1> DEFINE r == EventsIn(a, b)
           p == q \o r
<1>1. /\ r \in Seq(EventBlocks)
      /\ \A i \in 1 .. Len(r) : a <= r[i] /\ r[i] <= b /\ (i > 1 => Follows(r[i - 1], r[i]))
      /\ \A e \in EventBlocks : a <= e /\ e <= b => \E i \in 1 .. Len(r) : r[i] = e
      /\ \A e \in EventBlocks, i \in 1 .. Len(r) : a <= e /\ e <= b => e <= r[Len(r)] /\ r[1] <= e
  BY EventsInOrder
<1>2. r \in Mails /\ \A i \in 1 .. Len(r) : r[i] \in EventBlocks /\ r[i] \in Nat
  BY <1>1, EventsAreMails
<1> HIDE DEF r
<1>3. /\ p \in Mails /\ Len(q) \in Nat /\ Len(r) \in Nat /\ Len(p) = Len(q) + Len(r)
      /\ \A i \in 1 .. Len(q) : p[i] = q[i]
      /\ \A i \in 1 .. Len(r) : p[Len(q) + i] = r[i]
  BY <1>2, MailsJoined
<1>4. p = << >> <=> Len(p) = 0
  BY <1>3 DEF Mails
<1>5. q = << >> <=> Len(q) = 0
  BY DEF Mails
<1> HIDE DEF p
<1>6. \A i \in 1 .. Len(q) : i \in 1 .. Len(p)
  BY <1>3
<1>7. \A e \in EventBlocks : e \in Nat
  BY LegacyAssumption
<1>8. ASSUME Alive(q), q # << >>, r # << >> PROVE Follows(q[Len(q)], r[1])
  <2>1. q[Len(q)] \in Nat /\ UpTo(q, a - 1) /\ 1 \in 1 .. Len(r)
    <3>1. 1 \in 1 .. Len(r)
      BY <1>1, <1>8
    <3> QED
      BY <1>8, <3>1, AliveLast
  <2>2. a <= r[1] /\ r[1] <= b /\ r[1] \in Nat
    BY <1>1, <1>2, <2>1
  <2>3. q[Len(q)] < r[1]
    BY <2>1, <2>2 DEF UpTo
  <2>4. ASSUME NEW e \in EventBlocks PROVE e <= q[Len(q)] \/ r[1] <= e
    <3>1. e \in Nat /\ (e <= q[Len(q)] \/ a - 1 < e)
      BY <1>7, <2>1 DEF UpTo
    <3>2. a <= e /\ e <= b => r[1] <= e
      BY <1>1, <2>1
    <3> QED
      BY <2>2, <3>1, <3>2
  <2> QED
    BY <2>3, <2>4 DEF Follows
<1>9. ASSUME NEW i \in 1 .. Len(p), \A j \in 1 .. i : p[j] # Exit
      PROVE  p[i] \in EventBlocks /\ (i > 1 => Follows(p[i - 1], p[i]))
  <2>1. CASE i <= Len(q)
    <3>1. i \in 1 .. Len(q) /\ p[i] = q[i] /\ \A j \in 1 .. i : j \in 1 .. Len(q) /\ q[j] # Exit
      BY <1>3, <1>9, <2>1
    <3>2. i > 1 => p[i - 1] = q[i - 1]
      BY <1>3, <3>1
    <3>3. q[i] \in EventBlocks /\ (i > 1 => Follows(q[i - 1], q[i]))
      BY <3>1 DEF Good
    <3> QED
      BY <3>1, <3>2, <3>3
  <2>2. CASE i > Len(q)
    <3> DEFINE k == i - Len(q)
    <3>1. k \in 1 .. Len(r) /\ Len(q) + k = i
      BY <1>3, <2>2
    <3> HIDE DEF k
    <3>2. p[i] = r[k] /\ p[i] \in EventBlocks
      BY <1>2, <1>3, <3>1
    <3>3. CASE k > 1
      <4>1. k - 1 \in 1 .. Len(r) /\ i - 1 = Len(q) + (k - 1)
        BY <1>3, <3>1, <3>3
      <4>2. p[i - 1] = r[k - 1]
        BY <1>3, <4>1
      <4>3. Follows(r[k - 1], r[k])
        BY <1>1, <3>1, <3>3
      <4> QED
        BY <3>2, <4>2, <4>3
    <3>4. CASE k = 1
      <4>1. ASSUME i > 1 PROVE Follows(p[i - 1], p[i])
        <5>1. i - 1 = Len(q) /\ Len(q) \in 1 .. Len(q) /\ q # << >>
          BY <1>3, <1>5, <3>1, <3>4, <4>1
        <5>2. p[i - 1] = q[Len(q)]
          BY <1>3, <5>1
        <5>3. Alive(q)
          <6>1. \A j \in 1 .. Len(q) : j \in 1 .. i /\ p[j] = q[j]
            BY <1>3, <2>2
          <6> QED
            BY <1>9, <6>1 DEF Alive
        <5>4. r # << >>
          BY <3>1
        <5> QED
          BY <1>8, <3>2, <3>4, <5>1, <5>2, <5>3, <5>4
      <4> QED
        BY <3>2, <4>1
    <3> QED
      BY <3>1, <3>3, <3>4
  <2> QED
    BY <1>3, <2>1, <2>2
<1>10. ASSUME Alive(p), p # << >> PROVE UpTo(p, b)
  <2>1. Alive(q)
    BY <1>3, <1>6, <1>10 DEF Alive
  <2>2. CASE r = << >>
    <3>1. Len(r) = 0 /\ Len(p) = Len(q) /\ q # << >>
      BY <1>3, <1>4, <1>5, <1>10, <2>2
    <3>2. UpTo(q, a - 1) /\ q[Len(q)] \in Nat /\ p[Len(p)] = q[Len(q)]
      BY <1>3, <2>1, <3>1, AliveLast
    <3>3. \A e \in EventBlocks : ~ (a <= e /\ e <= b)
      BY <1>1, <3>1
    <3>4. \A e \in EventBlocks : e <= q[Len(q)] \/ a - 1 < e
      BY <3>2 DEF UpTo
    <3>5. \A e \in EventBlocks : e <= q[Len(q)] \/ b < e
      BY <1>7, <3>2, <3>3, <3>4
    <3>6. q[Len(q)] <= b
      BY <3>2 DEF UpTo
    <3> QED
      BY <3>2, <3>5, <3>6 DEF UpTo
  <2>3. CASE r # << >>
    <3>1. Len(r) \in 1 .. Len(r)
      BY <1>1, <2>3
    <3>2. p[Len(p)] = r[Len(r)] /\ a <= r[Len(r)] /\ r[Len(r)] <= b /\ r[Len(r)] \in Nat
      BY <1>1, <1>2, <1>3, <3>1
    <3>3. \A e \in EventBlocks : a <= e /\ e <= b => e <= r[Len(r)]
      BY <1>1, <3>1
    <3>4. \A e \in EventBlocks : e <= r[Len(r)] \/ b < e
      BY <1>7, <3>2, <3>3
    <3> QED
      BY <3>2, <3>4 DEF UpTo
  <2> QED
    BY <2>2, <2>3
<1>11. Good(p)
  BY <1>9 DEF Good
<1> QED
  BY <1>10, <1>11 DEF p, r

LEMMA HeardMore ==
  ASSUME NEW t \in Seq(Nat), NEW m \in Mails, NEW c, NEW u, u, ~ c,
         NEW a \in Nat \ {0}, NEW b \in Nat, a <= b, Heard(t, m, c, u, a - 1)
  PROVE  Heard(t, m \o EventsIn(a, b), c, u, b)
<1>1. t \o m \in Mails /\ t \in Mails /\ Good(t \o m)
      /\ (Alive(t \o m) /\ t \o m # << >> => UpTo(t \o m, a - 1))
  BY Wholes DEF Heard
<1>2. EventsIn(a, b) \in Mails
  BY EventsInOrder, EventsAreMails
<1>3. t \o (m \o EventsIn(a, b)) = (t \o m) \o EventsIn(a, b)
  BY <1>1, <1>2, MailsMore
<1>4. /\ Good((t \o m) \o EventsIn(a, b))
      /\ Alive((t \o m) \o EventsIn(a, b)) /\ (t \o m) \o EventsIn(a, b) # << >>
           => UpTo((t \o m) \o EventsIn(a, b), b)
  BY <1>1, GoodMore
<1> QED
  BY <1>3, <1>4 DEF Heard

\* EXIT is sent: nothing more is read.
LEMMA HeardExit ==
  ASSUME NEW t \in Seq(Nat), NEW m \in Mails, NEW c, NEW u, NEW c2, NEW u2, NEW top, NEW top2,
         Heard(t, m, c, u, top), c2 => c
  PROVE  Heard(t, m \o <<Exit>>, c2, u2, top2)
<1> DEFINE x == <<Exit>>
           q == t \o m
           p == q \o x
<1>1. x \in Mails /\ Len(x) = 1 /\ x[1] = Exit
  BY DEF Mails
<1> HIDE DEF x
<1>2. t \in Mails /\ q \in Mails /\ Good(q)
  BY Wholes DEF Heard
<1>3. t \o (m \o x) = p
  BY <1>1, <1>2, MailsMore
<1> HIDE DEF q
<1>4. /\ Len(q) \in Nat /\ Len(p) = Len(q) + 1
      /\ \A i \in 1 .. Len(q) : p[i] = q[i]
      /\ \A i \in 1 .. Len(x) : p[Len(q) + i] = x[i]
  <2>1. /\ Len(q) \in Nat /\ Len(p) = Len(q) + Len(x)
        /\ \A i \in 1 .. Len(q) : p[i] = q[i]
        /\ \A i \in 1 .. Len(x) : p[Len(q) + i] = x[i]
    BY <1>1, <1>2, MailsJoined
  <2> QED
    BY <1>1, <2>1
<1>5. p[Len(q) + 1] = Exit /\ Len(q) + 1 \in 1 .. Len(p)
  BY <1>1, <1>4
<1>6. Quiet(m) => Quiet(m \o x)
  <2> DEFINE n == m \o x
  <2>1. /\ Len(m) \in Nat /\ Len(n) = Len(m) + Len(x)
        /\ \A i \in 1 .. Len(m) : n[i] = m[i]
        /\ \A i \in 1 .. Len(x) : n[Len(m) + i] = x[i]
    BY <1>1, MailsJoined
  <2> HIDE DEF n
  <2>2. n[Len(m) + 1] = Exit
    BY <1>1, <2>1
  <2>3. \A i \in 1 .. Len(n) : i \in 1 .. Len(m) \/ i = Len(m) + 1
    BY <1>1, <2>1
  <2>4. Quiet(m) => Quiet(n)
    BY <2>1, <2>2, <2>3 DEF Quiet
  <2> QED
    BY <2>4 DEF n
<1> HIDE DEF p, q
<1>7. ~ Alive(p)
  BY <1>5 DEF Alive
<1>8. ASSUME NEW i \in 1 .. Len(p), \A j \in 1 .. i : p[j] # Exit
      PROVE  p[i] \in EventBlocks /\ (i > 1 => Follows(p[i - 1], p[i]))
  <2>1. i \in 1 .. Len(q)
    <3>1. i # Len(q) + 1
      BY <1>4, <1>5, <1>8
    <3> QED
      BY <1>4, <3>1
  <2>2. p[i] = q[i] /\ (i > 1 => p[i - 1] = q[i - 1]) /\ \A j \in 1 .. i : q[j] # Exit
    <3>1. \A j \in 1 .. i : j \in 1 .. Len(q)
      BY <1>4, <2>1
    <3>2. i > 1 => i - 1 \in 1 .. Len(q)
      BY <1>4, <2>1
    <3> QED
      BY <1>4, <1>8, <2>1, <3>1, <3>2
  <2> QED
    BY <1>2, <2>1, <2>2 DEF Good
<1>9. Good(p)
  BY <1>8 DEF Good
<1> QED
  BY <1>3, <1>6, <1>7, <1>9 DEF Heard, x

\* An event is read.
LEMMA HeardRead ==
  ASSUME NEW t \in Seq(Nat), NEW m \in Mails, NEW c, NEW u, NEW top, Heard(t, m, c, u, top),
         m # << >>, Head(m) # Exit
  PROVE  ~ c /\ Heard(Append(t, Head(m)), Tail(m), c, u, top)
<1>1. t \in Mails
  BY Wholes
<1>2. Append(t, Head(m)) \o Tail(m) = t \o m
  BY <1>1, ReadOn DEF Mails
<1>3. 1 \in 1 .. Len(m) /\ Head(m) = m[1]
  BY DEF Mails
<1>4. ~ Quiet(m)
  BY <1>3 DEF Quiet
<1> QED
  BY <1>2, <1>4 DEF Heard

\* What is not read any more.
LEMMA HeardEnd ==
  ASSUME NEW t \in Seq(Nat), NEW m \in Mails, NEW c, NEW u, NEW c2, NEW u2, NEW top, NEW top2,
         Heard(t, m, c, u, top), c2 => c, ~ u2
  PROVE  Heard(t, << >>, c2, u2, top2)
<1> DEFINE q == t \o m
<1>1. /\ Len(t) \in Nat /\ Len(m) \in Nat /\ Len(q) = Len(t) + Len(m) /\ t \o << >> = t
      /\ \A i \in 1 .. Len(t) : q[i] = t[i]
  BY Wholes
<1>2. Good(q)
  BY DEF Heard
<1> HIDE DEF q
<1>3. ASSUME NEW i \in 1 .. Len(t), \A j \in 1 .. i : t[j] # Exit
      PROVE  t[i] \in EventBlocks /\ (i > 1 => Follows(t[i - 1], t[i]))
  <2>1. i \in 1 .. Len(q) /\ \A j \in 1 .. i : j \in 1 .. Len(t)
    BY <1>1
  <2>2. i > 1 => i - 1 \in 1 .. Len(t)
    BY <1>1
  <2>3. q[i] = t[i] /\ (i > 1 => q[i - 1] = t[i - 1]) /\ \A j \in 1 .. i : q[j] # Exit
    BY <1>1, <1>3, <2>1, <2>2
  <2> QED
    BY <1>2, <2>1, <2>3 DEF Good
<1>4. Good(t)
  BY <1>3 DEF Good
<1>5. Quiet(<< >>)
  BY DEF Quiet
<1> QED
  BY <1>1, <1>4, <1>5 DEF Heard

-----------------------------------------------------------------------------
(* The steps.                                                               *)

\* A step that touches no mailbox and lets nobody tune in that was sent something.
LEMMA StillHeard ==
  ASSUME Typed, AllHeard, UNCHANGED <<told, mailbox>>,
         \A s \in Sub : /\ Coming(s)' => Coming(s)
                        /\ Tuned(s)' => Coming(s) \/ (Tuned(s) /\ (Top' = Top \/ Top = None))
  PROVE  AllHeard'
<1> SUFFICES ASSUME NEW s \in Sub
             PROVE  Heard(told[s], mailbox[s], Coming(s)', Tuned(s)', Top')
  BY DEF AllHeard
<1> DEFINE c  == Coming(s)
           u  == Tuned(s)
           c2 == Coming(s)'
           u2 == Tuned(s)'
<1>1. /\ told[s] \in Seq(Nat) /\ mailbox[s] \in Mails
      /\ Heard(told[s], mailbox[s], c, u, Top)
      /\ c2 => c
      /\ u2 => c \/ (u /\ (Top' = Top \/ Top = None))
  BY DEF Typed, Reading, AllHeard
<1> HIDE DEF c, u, c2, u2
<1>2. ASSUME c PROVE Heard(told[s], mailbox[s], c2, u2, Top')
  BY <1>1, <1>2, HeardNothing
<1>3. ASSUME ~ c, Top = None PROVE Heard(told[s], mailbox[s], c2, u2, Top')
  BY <1>1, <1>3, HeardNoMark
<1>4. ASSUME ~ c, Top # None PROVE Heard(told[s], mailbox[s], c2, u2, Top')
  BY <1>1, <1>4, HeardOn
<1>5. Heard(told[s], mailbox[s], c2, u2, Top')
  BY <1>2, <1>3, <1>4
<1> QED
  BY <1>5 DEF c2, u2

LEMMA TookComing ==
  ASSUME Typed, UNCHANGED stage, inbox # << >>, inbox' = Tail(inbox)
  PROVE  \A s \in Sub : Coming(s)' => Coming(s)
<1> SUFFICES ASSUME NEW s \in Sub, Coming(s)' PROVE Coming(s)
  OBVIOUS
<1>1. \A i \in 1 .. Len(inbox') : i + 1 \in 1 .. Len(inbox) /\ inbox'[i] = inbox[i + 1]
  BY Took DEF Typed, Polling
<1> QED
  BY <1>1 DEF Coming

LEMMA PutComing ==
  ASSUME Typed, NEW s \in Sub, NEW l \in Letters, inbox' = Append(inbox, l),
         l # <<"SUBSCRIBE", s>>, stage'[s] \in {"idle", "spawned"} => stage[s] \in {"idle", "spawned"}
  PROVE  Coming(s)' => Coming(s)
<1>1. /\ \A i \in 1 .. Len(inbox) : inbox'[i] = inbox[i]
      /\ \A i \in 1 .. Len(inbox') : i \in 1 .. Len(inbox) \/ i = Len(inbox) + 1
      /\ inbox'[Len(inbox) + 1] = l
  BY Put DEF Typed, Polling
<1> QED
  BY <1>1 DEF Coming

LEMMA ActorHeard == ASSUME Typed, AllHeard, ActorStep PROVE AllHeard'
<1>0. UNCHANGED <<stage, told, mailbox>> /\ inbox \in Seq(Letters)
  BY DEF ActorStep, Ticks, TickScheduled, FirstSubscribes, FirstSubscribed, Subscribes,
         Unsubscribes, readerVars, Typed, Polling
<1>1. ASSUME inbox' = inbox \/ (inbox # << >> /\ inbox' = Tail(inbox)),
             \A s \in Sub : Tuned(s)' => Coming(s) \/ (Tuned(s) /\ Top' = Top)
      PROVE  AllHeard'
  <2>1. \A s \in Sub : Coming(s)' => Coming(s)
    BY <1>0, <1>1, TookComing DEF Coming
  <2> QED
    BY <1>0, <1>1, <2>1, StillHeard
<1>2. CASE Ticks
  BY <1>0, <1>1, <1>2 DEF Ticks, Takes, Tuned, Top
<1>3. CASE TickScheduled
  BY <1>0, <1>1, <1>3 DEF TickScheduled, Tuned, Top
<1>4. CASE FirstSubscribes
  BY <1>0, <1>1, <1>4 DEF FirstSubscribes, Tuned, Top
<1>5. ASSUME NEW t \in Sub, inbox # << >>, Head(inbox) = <<"SUBSCRIBE", t>> PROVE Coming(t)
  <2>1. Head(inbox) = inbox[1] /\ 1 \in 1 .. Len(inbox)
    BY <1>0, <1>5, Took
  <2> QED
    BY <1>5, <2>1 DEF Coming
<1>6. CASE FirstSubscribed
  <2>1. /\ inbox # << >> /\ Head(inbox)[1] = "SUBSCRIBE" /\ inbox' = Tail(inbox)
        /\ subs' = {Head(inbox)[2]}
    BY <1>6 DEF FirstSubscribed, Typed, OneTick
  <2> DEFINE t == Head(inbox)[2]
  <2>2. Head(inbox) = <<"SUBSCRIBE", t>> /\ t \in Sub
    BY <1>0, <2>1, Took, LetterFacts
  <2>3. Coming(t)
    BY <1>5, <2>1, <2>2
  <2> QED
    BY <1>1, <2>1, <2>3 DEF Tuned
<1>7. ASSUME NEW t \in Sub, Subscribes(t) PROVE AllHeard'
  <2>1. /\ inbox # << >> /\ Head(inbox) = <<"SUBSCRIBE", t>> /\ inbox' = Tail(inbox)
        /\ subs' = subs \cup {t} /\ UNCHANGED <<at, hwm, from, broken>>
    BY <1>7 DEF Subscribes, Takes
  <2>2. Coming(t)
    BY <1>5, <2>1
  <2> QED
    BY <1>0, <1>1, <2>1, <2>2 DEF Tuned, Top
<1>8. ASSUME NEW t \in Sub, Unsubscribes(t) PROVE AllHeard'
  <2>1. /\ inbox # << >> /\ inbox' = Tail(inbox) /\ subs' = subs \ {t}
        /\ UNCHANGED <<at, from, broken>> /\ (subs' # {} => hwm' = hwm)
    BY <1>8 DEF Unsubscribes, Takes
  <2> QED
    BY <1>0, <1>1, <2>1 DEF Tuned, Top
<1> QED
  BY <1>2, <1>3, <1>4, <1>6, <1>7, <1>8 DEF ActorStep

LEMMA ReaderHeard ==
  ASSUME Typed, AllHeard, NEW t \in Sub, ReaderStep(t) PROVE AllHeard'
<1>0. /\ inbox \in Seq(Letters) /\ stage \in [Sub -> Stages]
      /\ mailbox \in [Sub -> Mails] /\ told \in [Sub -> Seq(Nat)]
  BY DEF Typed, Polling, Reading
<1>1. UNCHANGED <<at, subs, hwm, from, broken>> /\ Top' = Top
  BY DEF ReaderStep, ReaderStarts, ReaderCalls, ReaderExits, pollVars, Top
<1>2. \A s \in Sub : s # t => /\ told'[s] = told[s] /\ mailbox'[s] = mailbox[s]
                              /\ stage'[s] = stage[s] /\ (Tuned(s)' <=> Tuned(s))
  BY <1>0, <1>1 DEF ReaderStep, ReaderStarts, ReaderCalls, ReaderExits, Tuned
<1>3. \A s \in Sub : s # t => (Coming(s)' => Coming(s))
  <2> SUFFICES ASSUME NEW s \in Sub, s # t PROVE Coming(s)' => Coming(s)
    OBVIOUS
  <2>1. CASE inbox' = inbox
    BY <1>2, <2>1 DEF Coming
  <2>2. ASSUME NEW k \in {"SUBSCRIBE", "UNSUBSCRIBE"}, inbox' = Append(inbox, <<k, t>>)
        PROVE  Coming(s)' => Coming(s)
    <3>1. <<k, t>> \in Letters /\ <<k, t>> # <<"SUBSCRIBE", s>>
      BY LetterFacts
    <3> QED
      BY <1>2, <2>2, <3>1, PutComing
  <2> QED
    BY <2>1, <2>2 DEF ReaderStep, ReaderStarts, ReaderCalls, ReaderExits, Post, pollVars
<1>4. ASSUME Heard(told'[t], mailbox'[t], Coming(t)', Tuned(t)', Top') PROVE AllHeard'
  <2>1. ASSUME NEW s \in Sub, s # t
        PROVE  Heard(told'[s], mailbox'[s], Coming(s)', Tuned(s)', Top')
    <3> DEFINE c  == Coming(s)
               u  == Tuned(s)
               c2 == Coming(s)'
               u2 == Tuned(s)'
    <3>1. /\ Heard(told[s], mailbox[s], c, u, Top) /\ (c2 => c) /\ (u2 => u) /\ Top' = Top
          /\ told'[s] = told[s] /\ mailbox'[s] = mailbox[s]
      BY <1>1, <1>2, <1>3, <2>1 DEF AllHeard
    <3> HIDE DEF c, u, c2, u2
    <3>2. Heard(told'[s], mailbox'[s], c2, u2, Top')
      BY <3>1, HeardOn
    <3> QED
      BY <3>2 DEF c2, u2
  <2> QED
    BY <1>4, <2>1 DEF AllHeard
<1>5. told[t] \in Seq(Nat) /\ mailbox[t] \in Mails /\ stage[t] \in Stages
  BY <1>0
<1> DEFINE c  == Coming(t)
           u  == Tuned(t)
           c2 == Coming(t)'
           u2 == Tuned(t)'
<1>6. Heard(told[t], mailbox[t], c, u, Top)
  BY DEF AllHeard
<1>7. CASE ReaderStarts(t)
  <2>1. c /\ told' = told /\ mailbox' = mailbox
    BY <1>7 DEF ReaderStarts, Coming
  <2> HIDE DEF c, u, c2, u2
  <2>2. Heard(told[t], mailbox[t], c2, u2, Top')
    BY <1>5, <1>6, <2>1, HeardNothing
  <2> QED
    BY <1>4, <2>1, <2>2 DEF c2, u2
<1>8. CASE ReaderCalls(t)
  <2>1. /\ mailbox[t] # << >> /\ Head(mailbox[t]) # Exit /\ inbox' = inbox /\ stage[t] = "waiting"
        /\ told'[t] = Append(told[t], Head(mailbox[t])) /\ mailbox'[t] = Tail(mailbox[t])
        /\ stage'[t] \in {"waiting", "crashed"}
    BY <1>0, <1>8 DEF ReaderCalls, pollVars
  <2>2. (c2 <=> c) /\ (u2 <=> u)
    BY <1>1, <2>1 DEF Coming, Tuned
  <2> HIDE DEF c, u, c2, u2
  <2>3. Heard(Append(told[t], Head(mailbox[t])), Tail(mailbox[t]), c, u, Top)
    BY <1>5, <1>6, <2>1, HeardRead
  <2>4. Heard(told'[t], mailbox'[t], c2, u2, Top')
    BY <1>1, <2>1, <2>2, <2>3 DEF Heard
  <2> QED
    BY <1>4, <2>4 DEF c2, u2
<1>9. CASE ReaderExits(t)
  <2>1. /\ inbox' = Append(inbox, <<"UNSUBSCRIBE", t>>) /\ told'[t] = told[t]
        /\ mailbox'[t] = << >> /\ stage'[t] = "ended"
    BY <1>0, <1>9 DEF ReaderExits, Post
  <2>2. <<"UNSUBSCRIBE", t>> \in Letters /\ <<"UNSUBSCRIBE", t>> # <<"SUBSCRIBE", t>>
    BY LetterFacts
  <2>3. c2 => c
    BY <2>1, <2>2, PutComing
  <2>4. ~ u2
    BY <2>1 DEF Tuned
  <2> HIDE DEF c, u, c2, u2
  <2>5. Heard(told[t], << >>, c2, u2, Top')
    BY <1>5, <1>6, <2>3, <2>4, HeardEnd
  <2> QED
    BY <1>4, <2>1, <2>5 DEF c2, u2
<1> QED
  BY <1>7, <1>8, <1>9 DEF ReaderStep

LEMMA AnswerHeard == ASSUME Typed, Membership, AllHeard, EventsAnswer PROVE AllHeard'
<1>1. /\ at = "events" /\ at' = "rate" /\ Deliver(subs, EventsIn(from, hwm))
      /\ UNCHANGED <<inbox, subs, hwm, from, broken, stage, told>>
  BY DEF EventsAnswer
<1>2. from \in Nat \ {0} /\ hwm \in Nat /\ from <= hwm /\ Top = from - 1 /\ Top' = hwm
  BY <1>1 DEF Typed, Polling, Asked, Top, None
<1>3. ~ broken
  BY <1>1 DEF Typed, OneTick, Busy, Polls
<1> SUFFICES ASSUME NEW s \in Sub
             PROVE  Heard(told[s], mailbox'[s], Coming(s)', Tuned(s)', Top')
  BY <1>1 DEF AllHeard
<1> DEFINE c  == Coming(s)
           u  == Tuned(s)
           c2 == Coming(s)'
           u2 == Tuned(s)'
<1>4. /\ told[s] \in Seq(Nat) /\ mailbox[s] \in Mails /\ stage[s] \in Stages
      /\ Heard(told[s], mailbox[s], c, u, Top) /\ (c2 <=> c) /\ (u2 <=> u)
  BY <1>1 DEF Typed, Reading, AllHeard, Coming, Tuned
<1>5. mailbox'[s] = IF s \in subs /\ stage[s] \in {"spawned", "waiting", "crashed"}
                      THEN mailbox[s] \o EventsIn(from, hwm) ELSE mailbox[s]
  <2>1. EventsIn(from, hwm) \in Mails
    BY <1>2, EventsInOrder, EventsAreMails
  <2> QED
    BY <1>1, <2>1, DeliverTyped DEF Typed
<1>6. ASSUME s \in subs, stage[s] # "ended" PROVE u /\ ~ c /\ stage[s] \in {"waiting", "crashed"}
  BY <1>3, <1>4, <1>6 DEF Membership, Member, Coming, Tuned, Stages
<1>7. u => s \in subs /\ stage[s] # "ended"
  BY DEF Tuned
<1> HIDE DEF c, u, c2, u2
<1>8. CASE s \in subs /\ stage[s] # "ended"
  <2>1. Heard(told[s], mailbox[s] \o EventsIn(from, hwm), c, u, hwm)
    BY <1>2, <1>4, <1>6, <1>8, HeardMore
  <2>2. Heard(told[s], mailbox'[s], c2, u2, Top')
    BY <1>2, <1>4, <1>5, <1>6, <1>8, <2>1, HeardOn
  <2> QED
    BY <2>2 DEF c2, u2
<1>9. CASE ~ (s \in subs /\ stage[s] # "ended")
  <2>1. mailbox'[s] = mailbox[s] /\ ~ u2
    BY <1>4, <1>5, <1>7, <1>9
  <2>2. Heard(told[s], mailbox'[s], c2, u2, Top')
    BY <1>4, <2>1, HeardOn
  <2> QED
    BY <2>2 DEF c2, u2
<1> QED
  BY <1>8, <1>9

LEMMA RestHeard ==
  ASSUME Typed, Membership, AllHeard, LegacyAct, ~ ActorStep PROVE AllHeard'
<1>1. CASE BlockSealed
  BY <1>1, StillHeard DEF BlockSealed, pollVars, readerVars, Coming, Tuned, Top
<1>2. CASE BlockAnswers
  <2>1. /\ at = "block" /\ hwm' = chain /\ from' = hwm + 1
        /\ at' = IF hwm # None /\ hwm < chain THEN "events" ELSE "rate"
        /\ UNCHANGED <<inbox, subs, broken, stage, told, mailbox>>
        /\ chain \in Nat /\ hwm \in Nat \cup {None} /\ hwm <= chain
    BY <1>2 DEF BlockAnswers, readerVars, Typed, Polling, Asked
  <2>2. Top' = Top \/ Top = None
    BY <2>1 DEF Top, None
  <2>3. \A s \in Sub : (Coming(s)' => Coming(s)) /\ (Tuned(s)' => Tuned(s))
    BY <2>1 DEF Coming, Tuned
  <2> QED
    BY <2>1, <2>2, <2>3, StillHeard
<1>3. CASE RequestFails
  <2>1. broken' /\ UNCHANGED <<inbox, stage, told, mailbox>>
    BY <1>3 DEF RequestFails, readerVars
  <2>2. \A s \in Sub : (Coming(s)' => Coming(s)) /\ ~ Tuned(s)'
    BY <2>1 DEF Coming, Tuned
  <2> QED
    BY <2>1, <2>2, StillHeard
<1>4. ASSUME NEW i \in 0 .. 2, TimerFires(i) PROVE AllHeard'
  <2>1. /\ inbox' = Append(inbox, TICK)
        /\ UNCHANGED <<at, subs, hwm, from, broken, stage, told, mailbox>>
    BY <1>4 DEF TimerFires, Post, TICK, readerVars
  <2>2. \A s \in Sub : Coming(s)' => Coming(s)
    BY <2>1, LetterFacts, PutComing
  <2> QED
    BY <2>1, <2>2, StillHeard DEF Tuned, Top
<1> QED
  BY <1>1, <1>2, <1>3, <1>4, ReaderHeard, AnswerHeard DEF LegacyAct, LegacyMacrotask

LEMMA ChosenHeard ==
  ASSUME Typed, Membership, AllHeard, NEW t \in Sub, Chooses(t) \/ Unsubscribed(t) \/ Decides(t)
  PROVE  AllHeard'
<1>0. /\ inbox \in Seq(Letters) /\ stage \in [Sub -> Stages]
      /\ mailbox \in [Sub -> Mails] /\ told \in [Sub -> Seq(Nat)]
  BY DEF Typed, Polling, Reading
<1>1. CASE Decides(t)
  BY <1>1, StillHeard DEF Decides, legacyVars, pollVars, readerVars, Coming, Tuned, Top
<1>2. CASE Chooses(t)
  <2>1. /\ choice[t] = "chosen" /\ UNCHANGED <<at, inbox, subs, hwm, from, broken, told, mailbox>>
        /\ stage' = [stage EXCEPT ![t] = IF choice'[t] = "legacy" THEN "spawned" ELSE @]
    BY <1>2 DEF Chooses, pollVars
  <2>2. stage[t] = "idle"
    BY <1>0, <2>1 DEF Membership
  <2>3. \A s \in Sub : (Coming(s)' => Coming(s)) /\ (Tuned(s)' => Tuned(s) \/ Coming(s))
    BY <1>0, <2>1, <2>2 DEF Coming, Tuned
  <2>4. Top' = Top
    BY <2>1 DEF Top
  <2> QED
    BY <2>1, <2>3, <2>4, StillHeard
<1>3. CASE Unsubscribed(t)
  <2>1. UNCHANGED <<at, inbox, subs, hwm, from, broken, stage, told>>
    BY <1>3 DEF Unsubscribed, pollVars
  <2>2. \A s \in Sub : mailbox'[s] \in {mailbox[s], mailbox[s] \o <<Exit>>}
    <3>1. <<Exit>> \in Mails
      BY DEF Mails
    <3>2. CASE Deliver({t}, <<Exit>>)
      BY <3>1, <3>2, DeliverTyped DEF Typed
    <3>3. CASE mailbox' = mailbox
      BY <3>3
    <3> QED
      BY <1>3, <3>2, <3>3 DEF Unsubscribed
  <2> SUFFICES ASSUME NEW s \in Sub
               PROVE  Heard(told[s], mailbox'[s], Coming(s)', Tuned(s)', Top')
    BY <2>1 DEF AllHeard
  <2> DEFINE c  == Coming(s)
             u  == Tuned(s)
             c2 == Coming(s)'
             u2 == Tuned(s)'
  <2>3. /\ told[s] \in Seq(Nat) /\ mailbox[s] \in Mails /\ Heard(told[s], mailbox[s], c, u, Top)
        /\ (c2 => c) /\ (u2 => u) /\ Top' = Top
    BY <1>0, <2>1 DEF AllHeard, Coming, Tuned, Top
  <2> HIDE DEF c, u, c2, u2
  <2>4. CASE mailbox'[s] = mailbox[s]
    <3>1. Heard(told[s], mailbox[s], c2, u2, Top')
      BY <2>3, HeardOn
    <3> QED
      BY <2>4, <3>1 DEF c2, u2
  <2>5. CASE mailbox'[s] = mailbox[s] \o <<Exit>>
    <3>1. Heard(told[s], mailbox[s] \o <<Exit>>, c2, u2, Top')
      BY <2>3, HeardExit
    <3> QED
      BY <2>5, <3>1 DEF c2, u2
  <2> QED
    BY <2>2, <2>4, <2>5
<1> QED
  BY <1>1, <1>2, <1>3

LEMMA StepHeard == Typed /\ Membership /\ AllHeard /\ [Next]_vars => AllHeard'
<1> SUFFICES ASSUME Typed, Membership, AllHeard, [Next]_vars PROVE AllHeard'
  OBVIOUS
<1>1. CASE UNCHANGED legacyVars
  BY <1>1, StillHeard DEF legacyVars, pollVars, readerVars, Coming, Tuned, Top
<1> QED
  BY <1>1, ActorHeard, RestHeard, ChosenHeard, StepKinds DEF vars

LEMMA InitHeard == Init => AllHeard
<1> SUFFICES ASSUME Init, NEW s \in Sub PROVE Heard(told[s], mailbox[s], Coming(s), Tuned(s), Top)
  BY DEF AllHeard
<1>1. told[s] = << >> /\ mailbox[s] = << >>
  BY DEF Init, LegacyInit
<1>2. << >> \o << >> = << >> /\ \A i \in 1 .. Len(<< >>) : FALSE
  OBVIOUS
<1>3. Good(<< >>) /\ Quiet(<< >>)
  BY <1>2 DEF Good, Quiet
<1> QED
  BY <1>1, <1>2, <1>3 DEF Heard

\* Events reach the callback in the order of the chain or of the stream, each
\* once, with none left out in between (TICK of legacy-events.js, the mailbox of a
\* subscriber, and the task queue of decode-stream.ts).
THEOREM EventsComeInOrder == Spec => []ToldInOrder
<1>1. Typed /\ AllHeard => LegacyInOrder
  <2> SUFFICES ASSUME Typed, AllHeard, NEW s \in Sub, NEW i \in 1 .. Len(told[s])
               PROVE  /\ told[s][i] \in EventBlocks
                      /\ i > 1 => Follows(told[s][i - 1], told[s][i])
    BY DEF LegacyInOrder
  <2> DEFINE t == told[s]
             q == t \o mailbox[s]
  <2>1. /\ t \in Seq(Nat) /\ Len(t) \in Nat /\ \A j \in 1 .. Len(t) : q[j] = t[j]
        /\ Len(q) = Len(t) + Len(mailbox[s]) /\ Len(mailbox[s]) \in Nat
    BY Wholes DEF Typed, Reading
  <2>2. Good(q)
    BY DEF AllHeard, Heard
  <2>3. \A j \in 1 .. Len(t) : t[j] # Exit
    BY <2>1 DEF Exit
  <2>4. i \in 1 .. Len(t)
    OBVIOUS
  <2> HIDE DEF q, t
  <2>5. i \in 1 .. Len(q) /\ \A j \in 1 .. i : j \in 1 .. Len(t) /\ q[j] # Exit
    <3>1. Len(t) \in Nat /\ Len(q) \in Nat /\ Len(t) <= Len(q)
      BY <2>1
    <3>2. i \in 1 .. Len(q) /\ \A j \in 1 .. i : j \in 1 .. Len(t)
      BY <2>4, <3>1
    <3>3. \A j \in 1 .. Len(t) : q[j] # Exit
      BY <2>1, <2>3
    <3> QED
      BY <3>2, <3>3
  <2>6. q[i] \in EventBlocks /\ (i > 1 => Follows(q[i - 1], q[i]))
    BY <2>2, <2>5 DEF Good
  <2>7. q[i] = t[i] /\ (i > 1 => q[i - 1] = t[i - 1])
    <3>1. i > 1 => i - 1 \in 1 .. Len(t)
      BY <2>1, <2>4
    <3>2. \A j \in 1 .. Len(t) : q[j] = t[j]
      BY <2>1
    <3> QED
      BY <2>4, <3>1, <3>2
  <2> QED
    BY <2>6, <2>7 DEF t
<1>2. Init => Typed /\ Membership /\ AllHeard /\ EmittedInOrder
  BY InitTyped, InitMembers, InitHeard, InitStreams
<1>3. /\ Typed /\ Membership /\ AllHeard /\ EmittedInOrder /\ [Next]_vars
      => (Typed /\ Membership /\ AllHeard /\ EmittedInOrder)'
  BY StepTyped, StepMembers, StepHeard, StepStreams DEF Typed
<1> QED
  BY <1>1, <1>2, <1>3, PTL DEF Spec, ToldInOrder

=============================================================================
