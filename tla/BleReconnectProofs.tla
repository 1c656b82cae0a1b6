------------------------- MODULE BleReconnectProofs -------------------------
(***************************************************************************)
(* Proofs about BleReconnect.  The sums and products over retries are       *)
(* recursive functions; what is said of every number up to n is proved by   *)
(* the least number for which it fails.                                     *)
(***************************************************************************)
EXTENDS BleReconnect, TLAPS, WellFoundedInduction

(* A set of numbers that is not empty has a least one. *)
LEMMA Least ==
    ASSUME NEW T \in SUBSET Nat, T # {}
    PROVE  \E x \in T : \A y \in T : x <= y
<1> DEFINE R == OpToRel(<, Nat)
<1>1. IsWellFoundedOn(R, Nat)
      BY NatLessThanWellFounded
<1>2. \A x, y \in Nat : x < y => <<x, y>> \in R
      BY DEF OpToRel
<1> HIDE DEF R
<1>3. PICK x \in T : \A y \in T : ~ (<<y, x>> \in R)
      BY <1>1, WFMin
<1>4. ASSUME NEW y \in T PROVE x <= y
  <2>1. x \in Nat /\ y \in Nat
        OBVIOUS
  <2>2. ~(y < x)
        BY <1>2, <1>3, <2>1
  <2> QED BY <2>1, <2>2
<1> QED BY <1>4

(* Induction up to n, about a set of numbers. *)
LEMMA Induction ==
    ASSUME NEW n \in Nat, NEW S, 0 \in S,
           ASSUME NEW k \in 0..n, k < n, k \in S PROVE k + 1 \in S
    PROVE  \A k \in 0..n : k \in S
<1> DEFINE T == (0..n) \ S
<1> SUFFICES ASSUME T # {} PROVE FALSE
    OBVIOUS
<1>1. T \in SUBSET Nat
      OBVIOUS
<1>2. \E x \in T : \A y \in T : x <= y
  <2> HIDE DEF T
  <2> QED BY <1>1, Least
<1>3. PICK x \in T : \A y \in T : x <= y
      BY <1>2
<1>4. x \in 0..n /\ x # 0 /\ x \notin S
      OBVIOUS
<1>5. x - 1 \in 0..n /\ x - 1 < n /\ ~(x <= x - 1) /\ (x - 1) + 1 = x
      BY <1>4
<1>6. x - 1 \in S
      BY <1>3, <1>5
<1> QED BY <1>4, <1>5, <1>6

(* Repeated application, from c on: step k applies G[k]. *)
Iterates(n, V, c, G) ==
    {f \in [0..n -> V] : f[0] = c /\ \A k \in 1..n : f[k] = G[k][f[k - 1]]}

LEMMA Iteration ==
    ASSUME NEW n \in Nat, NEW V, NEW c \in V, NEW G \in [1..n -> [V -> V]]
    PROVE  Iterates(n, V, c, G) # {}
<1> DEFINE S == {m \in 0..n : Iterates(m, V, c, G) # {}}
<1>1. 0 \in S
  <2> DEFINE f == [k \in 0..0 |-> c]
  <2>1. f \in [0..0 -> V] /\ f[0] = c /\ \A k \in 1..0 : FALSE
        OBVIOUS
  <2>2. f \in Iterates(0, V, c, G)
        BY <2>1 DEF Iterates
  <2> QED BY <2>2
<1>2. ASSUME NEW m \in 0..n, m < n, m \in S PROVE m + 1 \in S
  <2>1. PICK f \in [0..m -> V] : f[0] = c /\ \A k \in 1..m : f[k] = G[k][f[k - 1]]
        BY <1>2 DEF Iterates
  <2> DEFINE g == [k \in 0..(m + 1) |-> IF k = m + 1 THEN G[m + 1][f[m]] ELSE f[k]]
  <2>2. m + 1 \in 1..n /\ m \in 0..m /\ m \in Nat
        BY <1>2
  <2>3. G[m + 1][f[m]] \in V
        BY <2>2
  <2>4. g \in [0..(m + 1) -> V] /\ g[0] = c
        BY <2>1, <2>2, <2>3
  <2>5. ASSUME NEW k \in 1..(m + 1) PROVE g[k] = G[k][g[k - 1]]
    <3>1. CASE k = m + 1
          BY <3>1, <2>2
    <3>2. CASE k # m + 1
          BY <3>2, <2>1, <2>2
    <3> QED BY <3>1, <3>2
  <2> HIDE DEF g
  <2>6. g \in Iterates(m + 1, V, c, G)
        BY <2>4, <2>5 DEF Iterates
  <2> QED BY <2>2, <2>6
<1>3. \A m \in 0..n : m \in S
  <2> HIDE DEF S
  <2> QED BY <1>1, <1>2, Induction
<1> QED BY <1>3

(* A property of numbers that each step keeps. *)
LEMMA Kept ==
    ASSUME NEW n \in Nat, NEW V, NEW f, f[0] \in V,
           ASSUME NEW k \in 1..n, f[k - 1] \in V PROVE f[k] \in V
    PROVE  \A k \in 0..n : f[k] \in V
<1> DEFINE S == {k \in 0..n : f[k] \in V}
<1>1. 0 \in S
      OBVIOUS
<1>2. ASSUME NEW k \in 0..n, k < n, k \in S PROVE k + 1 \in S
  <2>1. k + 1 \in 1..n /\ (k + 1) - 1 = k
        BY <1>2
  <2> QED BY <1>2, <2>1
<1>3. \A k \in 0..n : k \in S
  <2> HIDE DEF S
  <2> QED BY <1>1, <1>2, Induction
<1> QED BY <1>3

-----------------------------------------------------------------------------
(* What the recursive functions are *)

LEMMA DelayValues ==
    /\ Delay \in [0..DelaySteps -> Nat] /\ Delay[0] = InitialSleep
    /\ \A k \in 1..DelaySteps : Delay[k] = Delay[k - 1] * (1 + Multiplier)
<1>0. /\ InitialSleep \in Nat /\ Multiplier \in Nat /\ MaxBackOff \in Nat
      /\ MaxRetries \in Nat \ {0} /\ DelaySteps \in Nat
      BY BleReconnectAssumption DEF DelaySteps
<1> DEFINE n == DelaySteps
           G == [k \in 1..n |-> [x \in Nat |-> x * (1 + Multiplier)]]
           Is(f) == f = [k \in 0..n |-> IF k = 0 THEN InitialSleep
                                        ELSE f[k - 1] * (1 + Multiplier)]
<1>1. \A x \in Nat : x * (1 + Multiplier) \in Nat
      BY <1>0
<1>2. PICK f \in [0..n -> Nat] : f[0] = InitialSleep /\ \A k \in 1..n : f[k] = G[k][f[k - 1]]
  <2>1. G \in [1..n -> [Nat -> Nat]]
        BY <1>0, <1>1
  <2>2. n \in Nat /\ InitialSleep \in Nat /\ 0 \in Nat
        BY <1>0
  <2> HIDE DEF G, n
  <2>3. Iterates(n, Nat, InitialSleep, G) # {}
        BY <2>1, <2>2, Iteration
  <2> QED BY <2>3 DEF Iterates
<1>3. \A k \in 0..n : f[k] = IF k = 0 THEN InitialSleep ELSE f[k - 1] * (1 + Multiplier)
  <2> SUFFICES ASSUME NEW k \in 1..n PROVE f[k] = f[k - 1] * (1 + Multiplier)
      BY <1>0, <1>2
  <2>1. k - 1 \in 0..n
        BY <1>0
  <2> QED BY <1>0, <1>2, <2>1
<1>4. Is(f)
  <2> HIDE DEF G
  <2> QED BY <1>0, <1>2, <1>3
<1>5. Is(Delay)
  <2>1. Delay = CHOOSE g : Is(g)
        BY DEF Delay
  <2> HIDE DEF Is
  <2> QED BY <1>4, <2>1
<1>6. Delay[0] = InitialSleep
      BY <1>0, <1>5
<1>7. ASSUME NEW k \in 1..n PROVE Delay[k] = Delay[k - 1] * (1 + Multiplier)
  <2>1. k \in 0..n /\ k # 0
        BY <1>0
  <2> QED BY <1>0, <1>5, <2>1
<1>8. ASSUME NEW k \in 1..n, Delay[k - 1] \in Nat PROVE Delay[k] \in Nat
      BY <1>0, <1>1, <1>7, <1>8
<1>9. \A k \in 0..n : Delay[k] \in Nat
      BY <1>6, <1>0, <1>8, Kept
<1> QED BY <1>5, <1>6, <1>7, <1>9

LEMMA WaitedValues ==
    /\ Waited \in [0..DelaySteps -> Nat] /\ Waited[0] = 0
    /\ \A k \in 1..DelaySteps : Waited[k] = Waited[k - 1] + Delay[k - 1]
<1>0. /\ InitialSleep \in Nat /\ Multiplier \in Nat /\ MaxBackOff \in Nat
      /\ MaxRetries \in Nat \ {0} /\ DelaySteps \in Nat
      BY BleReconnectAssumption DEF DelaySteps
<1> DEFINE n == DelaySteps
           G == [k \in 1..n |-> [x \in Nat |-> x + Delay[k - 1]]]
           Is(f) == f = [k \in 0..n |-> IF k = 0 THEN 0 ELSE f[k - 1] + Delay[k - 1]]
<1>1. \A x \in Nat : \A k \in 1..n : x + Delay[k - 1] \in Nat
  <2> SUFFICES ASSUME NEW x \in Nat, NEW k \in 1..n PROVE x + Delay[k - 1] \in Nat
      BY <1>0
  <2>1. k - 1 \in 0..n
        BY <1>0
  <2> QED BY <2>1, DelayValues
<1>2. PICK f \in [0..n -> Nat] : f[0] = 0 /\ \A k \in 1..n : f[k] = G[k][f[k - 1]]
  <2>1. G \in [1..n -> [Nat -> Nat]]
        BY <1>0, <1>1
  <2>2. n \in Nat /\ InitialSleep \in Nat /\ 0 \in Nat
        BY <1>0
  <2> HIDE DEF G, n
  <2>3. Iterates(n, Nat, 0, G) # {}
        BY <2>1, <2>2, Iteration
  <2> QED BY <2>3 DEF Iterates
<1>3. \A k \in 0..n : f[k] = IF k = 0 THEN 0 ELSE f[k - 1] + Delay[k - 1]
  <2> SUFFICES ASSUME NEW k \in 1..n PROVE f[k] = f[k - 1] + Delay[k - 1]
      BY <1>0, <1>2
  <2>1. k - 1 \in 0..n
        BY <1>0
  <2> QED BY <1>0, <1>2, <2>1
<1>4. Is(f)
  <2> HIDE DEF G
  <2> QED BY <1>0, <1>2, <1>3
<1>5. Is(Waited)
  <2>1. Waited = CHOOSE g : Is(g)
        BY DEF Waited
  <2> HIDE DEF Is
  <2> QED BY <1>4, <2>1
<1>6. Waited[0] = 0
      BY <1>0, <1>5
<1>7. ASSUME NEW k \in 1..n PROVE Waited[k] = Waited[k - 1] + Delay[k - 1]
  <2>1. k \in 0..n /\ k # 0
        BY <1>0
  <2> QED BY <1>0, <1>5, <2>1
<1>8. ASSUME NEW k \in 1..n, Waited[k - 1] \in Nat PROVE Waited[k] \in Nat
      BY <1>0, <1>1, <1>7, <1>8
<1>9. \A k \in 0..n : Waited[k] \in Nat
  <2>1. n \in Nat /\ Waited[0] \in Nat
        BY <1>0, <1>6
  <2> HIDE DEF n
  <2> QED BY <1>0, <1>8, <2>1, Kept
<1> QED BY <1>5, <1>6, <1>7, <1>9

LEMMA SleepValues ==
    /\ Sleep \in [1..MaxRetries -> Nat] /\ Sleep[1] = InitialSleep
    /\ \A n \in 2..MaxRetries : Sleep[n] = Round[Sleep[n - 1]]
<1>0. /\ InitialSleep \in Nat /\ Multiplier \in Nat /\ MaxBackOff \in Nat
      /\ MaxRetries \in Nat \ {0} /\ DelaySteps \in Nat
      BY BleReconnectAssumption DEF DelaySteps
<1> DEFINE n == MaxRetries - 1
           G == [k \in 1..n |-> [x \in Nat |-> Round[x]]]
           Is(f) == f = [k \in 1..MaxRetries |-> IF k = 1 THEN InitialSleep
                                                 ELSE Round[f[k - 1]]]
<1>1. \A x \in Nat : Round[x] \in Nat
      BY <1>0 DEF Round
<1>2. PICK f \in [0..n -> Nat] : f[0] = InitialSleep /\ \A k \in 1..n : f[k] = G[k][f[k - 1]]
  <2>1. G \in [1..n -> [Nat -> Nat]]
        BY <1>0, <1>1
  <2>2. n \in Nat /\ InitialSleep \in Nat /\ 0 \in Nat
        BY <1>0
  <2> HIDE DEF G, n
  <2>3. Iterates(n, Nat, InitialSleep, G) # {}
        BY <2>1, <2>2, Iteration
  <2> QED BY <2>3 DEF Iterates
<1> DEFINE g == [k \in 1..MaxRetries |-> f[k - 1]]
<1>3. ASSUME NEW k \in 1..MaxRetries
      PROVE  g[k] = IF k = 1 THEN InitialSleep ELSE Round[g[k - 1]]
  <2>1. CASE k = 1
        BY <1>0, <1>2, <2>1
  <2>2. CASE k # 1
    <3>1. k - 1 \in 1..n /\ (k - 1) - 1 \in 0..n /\ k - 1 \in 1..MaxRetries
          BY <1>0, <2>2
    <3> QED BY <1>0, <1>2, <2>2, <3>1
  <2> QED BY <2>1, <2>2
<1>4. Is(g)
  <2>1. g = [k \in 1..MaxRetries |-> g[k]]
        BY <1>0
  <2> HIDE DEF g
  <2> QED BY <1>0, <1>3, <2>1
<1>5. Is(Sleep)
  <2>1. Sleep = CHOOSE h : Is(h)
        BY DEF Sleep, Round
  <2> HIDE DEF Is, g
  <2> QED BY <1>4, <2>1
<1>6. Sleep[1] = InitialSleep
      BY <1>0, <1>5
<1>7. ASSUME NEW k \in 2..MaxRetries PROVE Sleep[k] = Round[Sleep[k - 1]]
  <2>1. k \in 1..MaxRetries /\ k # 1
        BY <1>0
  <2> QED BY <1>0, <1>5, <2>1
<1> DEFINE h == [k \in 0..n |-> Sleep[k + 1]]
<1>8. \A k \in 0..n : h[k] \in Nat
  <2>1. h[0] \in Nat
        BY <1>0, <1>6
  <2>2. ASSUME NEW k \in 1..n, h[k - 1] \in Nat PROVE h[k] \in Nat
    <3>1. k - 1 \in 0..n /\ (k - 1) + 1 = k /\ k + 1 \in 2..MaxRetries /\ (k + 1) - 1 = k
          BY <1>0
    <3>2. h[k - 1] = Sleep[k] /\ h[k] = Sleep[k + 1]
          BY <3>1
    <3>3. Sleep[k + 1] = Round[Sleep[k]]
          BY <1>7, <3>1
    <3> QED BY <1>1, <2>2, <3>2, <3>3
  <2>3. n \in Nat
        BY <1>0
  <2> HIDE DEF h, n
  <2> QED BY <2>1, <2>2, <2>3, Kept
<1>9. ASSUME NEW k \in 1..MaxRetries PROVE Sleep[k] \in Nat
  <2>1. k - 1 \in 0..n /\ (k - 1) + 1 = k
        BY <1>0
  <2> QED BY <1>0, <1>8, <2>1
<1> QED BY <1>5, <1>6, <1>7, <1>9

-----------------------------------------------------------------------------
(* The constants, and what the delays have to do with each other *)

LEMMA ConstantTypes ==
    /\ InitialSleep \in Nat /\ 0 < InitialSleep /\ Multiplier \in Nat /\ 0 < Multiplier
    /\ MaxBackOff \in Nat /\ MaxRetryTime \in Nat
    /\ MaxRetries \in Nat /\ 0 < MaxRetries /\ DelaySteps \in Nat
BY BleReconnectAssumption DEF DelaySteps

(* Each delay is longer than those before it. *)
LEMMA DelaysGrow ==
    /\ \A k \in 0..DelaySteps : 0 < Delay[k]
    /\ \A k \in 0..DelaySteps : \A j \in 0..k : j < k => Delay[j] < Delay[k]
<1> DEFINE n == DelaySteps
           S == {k \in 0..n : 0 < Delay[k] /\ \A j \in 0..k : j < k => Delay[j] < Delay[k]}
<1>0. n \in Nat
      BY ConstantTypes
<1>1. 0 \in S
      BY <1>0, DelayValues, ConstantTypes
<1>2. ASSUME NEW k \in 0..n, k < n, k \in S PROVE k + 1 \in S
  <2>1. k \in Nat /\ k + 1 \in 1..n /\ (k + 1) - 1 = k
        BY <1>0, <1>2
  <2>2. Delay[k + 1] = Delay[k] * (1 + Multiplier) /\ Delay[k] \in Nat /\ 0 < Delay[k]
        BY <1>2, <2>1, DelayValues
  <2>3. \A d, m \in Nat : 0 < d /\ 0 < m => d < d * (1 + m)
        OBVIOUS
  <2>4. Delay[k] < Delay[k + 1] /\ Delay[k + 1] \in Nat
        BY <2>1, <2>2, <2>3, DelayValues, ConstantTypes
  <2>5. ASSUME NEW j \in 0..(k + 1), j < k + 1 PROVE Delay[j] < Delay[k + 1]
    <3>1. CASE j = k
          BY <2>4, <3>1
    <3>2. CASE j # k
      <4>1. j \in 0..k /\ j < k /\ j \in 0..n
            BY <1>0, <2>1, <2>5, <3>2
      <4>2. Delay[j] < Delay[k] /\ Delay[j] \in Nat
            BY <1>2, <4>1, DelayValues
      <4> QED BY <2>2, <2>4, <4>2
    <3> QED BY <3>1, <3>2
  <2>6. 0 < Delay[k + 1]
        BY <2>2, <2>4
  <2> QED BY <2>1, <2>5, <2>6
<1>3. \A k \in 0..n : k \in S
  <2> HIDE DEF S, n
  <2> QED BY <1>0, <1>1, <1>2, Induction
<1> QED BY <1>3

(* The sum of a geometric progression. *)
LEMMA WaitedSum ==
    \A k \in 0..DelaySteps : Waited[k] * Multiplier + InitialSleep = Delay[k]
<1> DEFINE n == DelaySteps
           S == {k \in 0..n : Waited[k] * Multiplier + InitialSleep = Delay[k]}
<1>0. n \in Nat
      BY ConstantTypes
<1>1. 0 \in S
      BY <1>0, DelayValues, WaitedValues, ConstantTypes
<1>2. ASSUME NEW k \in 0..n, k < n, k \in S PROVE k + 1 \in S
  <2>1. k + 1 \in 1..n /\ (k + 1) - 1 = k
        BY <1>0, <1>2
  <2>2. Delay[k + 1] = Delay[k] * (1 + Multiplier) /\ Waited[k + 1] = Waited[k] + Delay[k]
        BY <2>1, DelayValues, WaitedValues
  <2>3. Delay[k] \in Nat /\ Waited[k] \in Nat
        BY DelayValues, WaitedValues
  <2>4. Waited[k + 1] * Multiplier + InitialSleep = Delay[k + 1]
    <3>1. Waited[k] * Multiplier + InitialSleep = Delay[k]
          BY <1>2
    <3>2. (Waited[k] + Delay[k]) * Multiplier + InitialSleep = Delay[k] * (1 + Multiplier)
      <4>1. ASSUME NEW w \in Nat, NEW d \in Nat, w = Waited[k], d = Delay[k]
            PROVE  (w + d) * Multiplier + InitialSleep = d * (1 + Multiplier)
        <5>1. (w + d) * Multiplier = w * Multiplier + d * Multiplier
              BY ConstantTypes
        <5>2. d * (1 + Multiplier) = d + d * Multiplier
              BY ConstantTypes
        <5>3. w * Multiplier \in Nat /\ d * Multiplier \in Nat
              BY ConstantTypes
        <5>4. w * Multiplier + InitialSleep = d
              BY <3>1, <4>1
        <5> QED BY <5>1, <5>2, <5>3, <5>4, ConstantTypes
      <4> QED BY <2>3, <4>1
    <3> QED BY <2>2, <3>2
  <2> QED BY <2>1, <2>4
<1>3. \A k \in 0..n : k \in S
  <2> HIDE DEF S, n
  <2> QED BY <1>0, <1>1, <1>2, Induction
<1> QED BY <1>3

(* The delays within the maximum last less than the time for retries. *)
LEMMA WaitedInTime ==
    ASSUME NEW k \in 1..DelaySteps, Delay[k - 1] <= MaxBackOff
    PROVE  Waited[k] <= MaxRetryTime
<1>1. k \in 0..DelaySteps /\ k - 1 \in 0..DelaySteps
      BY ConstantTypes
<1>2. Waited[k] \in Nat /\ Delay[k - 1] \in Nat
      BY <1>1, DelayValues, WaitedValues
<1>3. Waited[k] * Multiplier + InitialSleep = Delay[k - 1] * (1 + Multiplier)
      BY <1>1, WaitedSum, DelayValues
<1>4. Delay[k - 1] * (1 + Multiplier) <= (1 + Multiplier) * MaxBackOff
  <2>1. \A d, b, m \in Nat : d <= b => d * (1 + m) <= (1 + m) * b
        OBVIOUS
  <2> QED BY <1>2, <2>1, ConstantTypes
<1>5. Waited[k] * Multiplier <= Multiplier * MaxRetryTime
  <2> DEFINE a == Waited[k] * Multiplier
             b == Delay[k - 1] * (1 + Multiplier)
             c == (1 + Multiplier) * MaxBackOff
             d == Multiplier * MaxRetryTime
  <2>1. a \in Nat /\ b \in Nat /\ c \in Nat /\ d \in Nat
        BY <1>2, ConstantTypes
  <2>2. a + InitialSleep = b /\ b <= c /\ c <= d
        BY <1>3, <1>4, MacroAssumption
  <2>3. a <= d
    <3> HIDE DEF a, b, c, d
    <3> QED BY <2>1, <2>2, ConstantTypes
  <2> QED BY <2>3
<1>6. \A w, t, m \in Nat : 0 < m /\ w * m <= m * t => w <= t
  <2> SUFFICES ASSUME NEW w \in Nat, NEW t \in Nat, NEW m \in Nat, 0 < m, t < w
               PROVE  ~(w * m <= m * t)
      OBVIOUS
  <2>1. (t + 1) * m <= w * m
        OBVIOUS
  <2>2. (t + 1) * m = m * t + m
        OBVIOUS
  <2> QED BY <2>1, <2>2
<1> QED BY <1>2, <1>5, <1>6, ConstantTypes

(* The loop computes one of the delays: those before it are all below the    *)
(* maximum, and it is that of its round or the first one to reach the        *)
(* maximum.                                                                  *)
Reached(n, k) ==
    /\ k \in 0..DelaySteps /\ k < n
    /\ Sleep[n] = Delay[k]
    /\ 0 < k => Delay[k - 1] < MaxBackOff
    /\ k = n - 1 \/ MaxBackOff <= Delay[k]

LEMMA SleepIsDelay == \A n \in 1..MaxRetries : \E k \in 0..DelaySteps : Reached(n, k)
<1> DEFINE m == MaxRetries - 1
           S == {n \in 0..m : \E k \in 0..DelaySteps : Reached(n + 1, k)}
<1>0. m \in Nat
      BY ConstantTypes
<1>1. 0 \in S
  <2>1. Reached(0 + 1, 0)
        BY ConstantTypes, SleepValues, DelayValues DEF Reached
  <2> QED BY <1>0, <2>1, ConstantTypes
<1>2. ASSUME NEW n \in 0..m, n < m, n \in S PROVE n + 1 \in S
  <2>1. PICK k \in 0..DelaySteps : Reached(n + 1, k)
        BY <1>2
  <2>2. n + 1 \in 0..m /\ (n + 1) + 1 \in 2..MaxRetries /\ ((n + 1) + 1) - 1 = n + 1
        BY <1>0, <1>2, ConstantTypes
  <2>3. Sleep[(n + 1) + 1] = Round[Delay[k]] /\ Delay[k] \in Nat
        BY <2>1, <2>2, SleepValues, DelayValues DEF Reached
  <2>4. CASE MaxBackOff <= Delay[k]
    <3>1. Round[Delay[k]] = Delay[k]
          BY <2>3, <2>4, ConstantTypes DEF Round
    <3>2. Reached((n + 1) + 1, k)
          BY <1>0, <2>1, <2>3, <2>4, <3>1 DEF Reached
    <3> QED BY <2>2, <3>2
  <2>5. CASE Delay[k] < MaxBackOff
    <3>1. k = n
          BY <1>0, <2>1, <2>3, <2>5, ConstantTypes DEF Reached
    <3>2. k < DelaySteps
      <4>1. k # DelaySteps
            BY <2>3, <2>5, MacroAssumption, ConstantTypes
      <4> QED BY <4>1, ConstantTypes
    <3>3. k + 1 \in 1..DelaySteps /\ k + 1 \in 0..DelaySteps /\ (k + 1) - 1 = k
          BY <3>2, ConstantTypes
    <3>4. Delay[k + 1] = Delay[k] * (1 + Multiplier)
          BY <3>3, DelayValues
    <3>5. Round[Delay[k]] = Delay[k] + Delay[k] * Multiplier
          BY <2>3, <2>5 DEF Round
    <3>6. \A d, x \in Nat : d + d * x = d * (1 + x)
          OBVIOUS
    <3>7. Sleep[(n + 1) + 1] = Delay[k + 1]
          BY <2>3, <3>4, <3>5, <3>6, ConstantTypes
    <3>8. Reached((n + 1) + 1, k + 1)
          BY <1>0, <2>5, <3>1, <3>3, <3>7 DEF Reached
    <3> QED BY <2>2, <3>3, <3>8
  <2> QED BY <2>3, <2>4, <2>5, ConstantTypes
<1>3. \A n \in 0..m : n \in S
  <2> HIDE DEF S, m
  <2> QED BY <1>0, <1>1, <1>2, Induction
<1>4. ASSUME NEW n \in 1..MaxRetries PROVE \E k \in 0..DelaySteps : Reached(n, k)
  <2>1. n - 1 \in 0..m /\ (n - 1) + 1 = n
        BY <1>0, <1>4, ConstantTypes
  <2> QED BY <1>3, <2>1
<1> QED BY <1>4

(* So the delays are in their range. *)
LEMMA SleepInRange ==
    ASSUME NEW n \in 1..MaxRetries
    PROVE  /\ Sleep[n] \in Delays /\ Sleep[n] \in Nat /\ 0 < Sleep[n]
           /\ Sleep[n] < (1 + Multiplier) * MaxBackOff
           /\ Sleep[n] * 1000 <= MaxInt32
<1>1. PICK k \in 0..DelaySteps : Reached(n, k)
      BY SleepIsDelay
<1>2. Sleep[n] = Delay[k] /\ Delay[k] \in Nat /\ 0 < Delay[k]
      BY <1>1, DelayValues, DelaysGrow DEF Reached
<1>3. Sleep[n] < (1 + Multiplier) * MaxBackOff
  <2>1. CASE k = 0
    <3>1. \A i, b, m \in Nat : 0 < i /\ i <= b /\ 0 < m => i < (1 + m) * b
      <4> SUFFICES ASSUME NEW i \in Nat, NEW b \in Nat, NEW m \in Nat, 0 < i, i <= b, 0 < m
                   PROVE  i < (1 + m) * b
          OBVIOUS
      <4>1. (1 + m) * b = b + m * b /\ 0 < m * b
            OBVIOUS
      <4> QED BY <4>1
    <3> QED BY <1>2, <2>1, <3>1, DelayValues, MacroAssumption, ConstantTypes
  <2>2. CASE k # 0
    <3>1. k \in 1..DelaySteps /\ k - 1 \in 0..DelaySteps
          BY <2>2, ConstantTypes
    <3>2. Delay[k] = Delay[k - 1] * (1 + Multiplier) /\ Delay[k - 1] \in Nat
          /\ Delay[k - 1] < MaxBackOff
          BY <1>1, <3>1, DelayValues DEF Reached
    <3>3. \A d, b, m \in Nat : d < b => d * (1 + m) < (1 + m) * b
      <4> SUFFICES ASSUME NEW d \in Nat, NEW b \in Nat, NEW m \in Nat, d < b
                   PROVE  d * (1 + m) < (1 + m) * b
          OBVIOUS
      <4>1. (d + 1) * (1 + m) <= b * (1 + m)
            OBVIOUS
      <4>2. (d + 1) * (1 + m) = d * (1 + m) + (1 + m)
            OBVIOUS
      <4> QED BY <4>1, <4>2
    <3> QED BY <1>2, <3>2, <3>3, ConstantTypes
  <2> QED BY <2>1, <2>2
<1>4. Sleep[n] * 1000 <= MaxInt32
  <2> DEFINE c == (1 + Multiplier) * MaxBackOff
  <2>1. c \in Nat /\ Sleep[n] < c /\ c * 1000 <= MaxInt32
        BY <1>3, MacroAssumption, ConstantTypes
  <2> HIDE DEF c
  <2> QED BY <1>2, <2>1 DEF MaxInt32
<1> QED BY <1>2, <1>3, <1>4 DEF Delays

-----------------------------------------------------------------------------
(* The state *)

TypeInv ==
    /\ tracked \in BOOLEAN /\ registered \in BOOLEAN /\ link \in BOOLEAN
    /\ reached \in BOOLEAN /\ calls \in Nat
    /\ timer \in Nat /\ rest \in 0..timer /\ retries \in 0..MaxRetries
    /\ since \in 0..MaxRetryTime /\ away \in 0..MaxRetryTime

(* A context has a link, or a call that is to be answered, or a timer: more *)
(* than one of them when links come and go while calls are made, but always *)
(* one.                                                                     *)
Pursued == tracked => link \/ calls > 0 \/ timer > 0

(* The delay of a timer is that of some retry, also when the retries have   *)
(* been counted anew since it was started.                                  *)
TimerSleeps == timer > 0 => \E n \in 1..MaxRetries : timer = Sleep[n]

NoRetryYet == reached => retries = 0

(* A time t is as long as the delays of the first n retries. *)
LongAs(n, t) ==
    \A k \in 1..DelaySteps : k <= n /\ Delay[k - 1] <= MaxBackOff => Waited[k] <= t

(* The device will have been away for the delays of the retries that are    *)
(* counted when the running timer goes off.                                 *)
AwayLong == tracked => LongAs(retries, After(away, rest))

BackOffInv == TypeInv /\ Pursued /\ TimerSleeps /\ NoRetryYet /\ AwayLong

-----------------------------------------------------------------------------
(* Time *)

LEMMA AfterGrows ==
    ASSUME NEW t \in 0..MaxRetryTime, NEW by \in Nat
    PROVE  /\ After(t, by) \in 0..MaxRetryTime /\ t <= After(t, by)
           /\ After(t, by) = t + by \/ After(t, by) = MaxRetryTime
           /\ After(t, 0) = t
BY ConstantTypes DEF After

LEMMA AfterAdds ==
    ASSUME NEW t \in 0..MaxRetryTime, NEW b \in Nat, NEW c \in Nat
    PROVE  After(After(t, b), c) = After(t, b + c)
BY ConstantTypes DEF After

(* Fewer retries and more time. *)
LEMMA LongStays ==
    ASSUME NEW n \in Int, NEW m \in Int, m <= n, NEW t \in Nat, NEW u \in Nat, t <= u,
           LongAs(n, t)
    PROVE  LongAs(m, u)
<1> SUFFICES ASSUME NEW k \in 1..DelaySteps, k <= m, Delay[k - 1] <= MaxBackOff
             PROVE  Waited[k] <= u
    BY DEF LongAs
<1>1. Waited[k] \in Nat /\ k <= n
      BY WaitedValues, ConstantTypes
<1>2. Waited[k] <= t
      BY <1>1 DEF LongAs
<1> QED BY <1>1, <1>2

(* Nothing has to be waited for before the first retry. *)
LEMMA NoneYet == ASSUME NEW t PROVE LongAs(0, t)
BY ConstantTypes DEF LongAs

(* Time that passes is taken from the running timer. *)
LEMMA TimeIsLeft ==
    ASSUME TypeInv, NEW t \in Nat
    PROVE  /\ Until(t) \in Nat /\ Left(t) \in 0..timer
           /\ timer > 0 => Until(t) + Left(t) = rest
           /\ timer = 0 => Left(t) = 0 /\ rest = 0
BY DEF TypeInv, Until, Left

LEMMA TimePasses ==
    ASSUME BackOffInv, tracked, NEW t \in Nat, Passes(t)
    PROVE  /\ since' \in 0..MaxRetryTime /\ away' \in 0..MaxRetryTime
           /\ LongAs(retries, After(away', Left(t)))
<1>0. TypeInv /\ since \in 0..MaxRetryTime /\ away \in 0..MaxRetryTime
      BY DEF BackOffInv, TypeInv
<1>1. Until(t) \in Nat /\ Left(t) \in Nat
      BY <1>0, TimeIsLeft DEF TypeInv
<1>2. since' = After(since, Until(t)) /\ away' = IF reached THEN away ELSE After(away, Until(t))
      BY DEF Passes
<1>3. since' \in 0..MaxRetryTime /\ away' \in 0..MaxRetryTime
      BY <1>0, <1>1, <1>2, AfterGrows
<1>4. CASE reached
  <2>1. retries = 0
        BY <1>4 DEF BackOffInv, NoRetryYet
  <2> QED BY <1>3, <2>1, NoneYet
<1>5. CASE ~reached /\ timer > 0
  <2>1. After(away', Left(t)) = After(away, rest)
        BY <1>0, <1>1, <1>2, <1>5, AfterAdds, TimeIsLeft
  <2> QED BY <1>3, <2>1 DEF BackOffInv, AwayLong
<1>6. CASE ~reached /\ timer = 0
  <2>1. Left(t) = 0 /\ rest = 0
        BY <1>0, <1>6, TimeIsLeft
  <2>2. After(away, rest) = away /\ After(away', Left(t)) = away'
        BY <1>0, <1>3, <2>1, AfterGrows
  <2>3. away <= away'
        BY <1>0, <1>1, <1>2, <1>6, AfterGrows
  <2>4. LongAs(retries, away)
        BY <2>2 DEF BackOffInv, AwayLong
  <2>5. retries \in Int /\ retries <= retries /\ away \in Nat /\ away' \in Nat
        BY <1>0, <1>3, ConstantTypes DEF TypeInv
  <2>6. LongAs(retries, away')
        BY <2>3, <2>4, <2>5, LongStays
  <2> QED BY <1>3, <2>2, <2>6
<1>7. timer > 0 \/ timer = 0
      BY <1>0 DEF TypeInv
<1> QED BY <1>3, <1>4, <1>5, <1>6, <1>7

(* A timer adds its delay, where that is still one of those within the      *)
(* maximum.                                                                 *)
LEMMA TimerAdds ==
    ASSUME NEW n \in 1..MaxRetries, NEW a \in 0..MaxRetryTime, LongAs(n - 1, a)
    PROVE  LongAs(n, After(a, Sleep[n]))
<1> DEFINE b == After(a, Sleep[n])
<1> SUFFICES ASSUME NEW k \in 1..DelaySteps, k <= n, Delay[k - 1] <= MaxBackOff
             PROVE  Waited[k] <= b
    BY DEF LongAs
<1>0. k \in 0..DelaySteps /\ k - 1 \in 0..DelaySteps /\ k \in Nat /\ 0 < k
      BY ConstantTypes
<1>1. Waited[k] \in Nat /\ Waited[k - 1] \in Nat /\ Delay[k - 1] \in Nat
      BY <1>0, WaitedValues, DelayValues
<1>2. Sleep[n] \in Nat /\ n \in Nat /\ a \in Nat
      BY SleepInRange, ConstantTypes
<1>3. a <= b /\ b \in Nat /\ (b = a + Sleep[n] \/ b = MaxRetryTime)
  <2>1. b \in 0..MaxRetryTime /\ a <= b /\ (b = a + Sleep[n] \/ b = MaxRetryTime)
        BY <1>2, AfterGrows
  <2> HIDE DEF b
  <2> QED BY <2>1, ConstantTypes
<1> HIDE DEF b
<1>4. CASE k <= n - 1
      BY <1>1, <1>2, <1>3, <1>4 DEF LongAs
<1>5. CASE b = MaxRetryTime
      BY <1>5, WaitedInTime
<1>6. CASE k = n /\ b = a + Sleep[n]
  <2>1. PICK j \in 0..DelaySteps : Reached(n, j)
        BY SleepIsDelay
  <2>2. Sleep[n] = Delay[j] /\ j \in Nat /\ j <= k - 1 /\ (j = k - 1 \/ MaxBackOff <= Delay[j])
        BY <1>0, <1>6, <2>1 DEF Reached
  <2>3. j = k - 1
    <3> SUFFICES ASSUME j # k - 1 PROVE FALSE
        OBVIOUS
    <3>1. j \in 0..(k - 1) /\ j < k - 1
          BY <1>0, <2>2
    <3>2. Delay[j] < Delay[k - 1] /\ Delay[j] \in Nat
          BY <1>0, <3>1, DelaysGrow, DelayValues
    <3> QED BY <1>1, <2>2, <3>2, ConstantTypes
  <2>4. Waited[k] = Waited[k - 1] + Sleep[n]
        BY <2>2, <2>3, WaitedValues
  <2>5. Waited[k - 1] <= a
    <3>1. CASE k = 1
          BY <1>2, <3>1, WaitedValues
    <3>2. CASE k # 1
      <4>1. k - 1 \in 1..DelaySteps /\ k - 1 <= n - 1 /\ (k - 1) - 1 \in 0..(k - 1)
            /\ (k - 1) - 1 < k - 1 /\ (k - 1) - 1 \in 0..DelaySteps
            BY <1>0, <1>6, <3>2, ConstantTypes
      <4>2. Delay[(k - 1) - 1] < Delay[k - 1] /\ Delay[(k - 1) - 1] \in Nat
            BY <1>0, <4>1, DelaysGrow, DelayValues
      <4>3. Delay[(k - 1) - 1] <= MaxBackOff
            BY <1>1, <4>2, ConstantTypes
      <4> QED BY <4>1, <4>3 DEF LongAs
    <3> QED BY <3>1, <3>2
  <2> QED BY <1>1, <1>2, <1>6, <2>4, <2>5
<1> QED BY <1>0, <1>2, <1>3, <1>4, <1>5, <1>6

(* A delay beyond the maximum comes after all those within it. *)
LEMMA BeyondAll ==
    ASSUME NEW n \in 1..MaxRetries, MaxBackOff < Sleep[n],
           NEW k \in 1..DelaySteps, Delay[k - 1] <= MaxBackOff
    PROVE  k <= n - 1
<1>1. PICK j \in 0..DelaySteps : Reached(n, j)
      BY SleepIsDelay
<1>2. j \in Nat /\ j <= n - 1 /\ MaxBackOff < Delay[j] /\ n \in Nat
      BY <1>1, ConstantTypes DEF Reached
<1>3. k \in Nat /\ k - 1 \in 0..DelaySteps /\ 0 < k
      BY ConstantTypes
<1>4. MaxBackOff \in Nat /\ Delay[j] \in Nat /\ Delay[k - 1] \in Nat
      BY <1>3, DelayValues, ConstantTypes
<1>5. ~(j < k)
  <2> SUFFICES ASSUME j < k PROVE FALSE
      OBVIOUS
  <2>1. j \in 0..(k - 1)
        BY <1>2, <1>3
  <2>2. j = k - 1 \/ Delay[j] < Delay[k - 1]
        BY <1>2, <1>3, <2>1, DelaysGrow
  <2> QED BY <1>2, <1>4, <2>2
<1> QED BY <1>2, <1>3, <1>5

-----------------------------------------------------------------------------
(* The handlers *)

(* Without a running timer, either the next retry waits for its delay or    *)
(* the context goes, and a device is unregistered only when the next delay  *)
(* is beyond the maximum.                                                   *)
LEMMA RetriesOrGoes ==
    ASSUME TypeInv, retry_or_unregister
    PROVE  /\ retries' \in 1..MaxRetries /\ retries' - 1 <= retries
           /\ tracked' \in BOOLEAN /\ registered' \in BOOLEAN
           /\ rest' = timer'
           /\ \/ timer' = Sleep[retries']
              \/ ~tracked' /\ timer' = 0
           /\ registered /\ ~registered' => MaxBackOff < Sleep[retries']
<1> DEFINE n == next_retry
           late == Sleep[n] > MaxBackOff /\ since' >= MaxBackOff
           remove == Sleep[n] > MaxBackOff /\ since' >= MaxRetryTime
<1>1. /\ retries' = n /\ registered' \in {registered, registered /\ ~late}
      /\ tracked' = ~remove /\ timer' = (IF remove THEN 0 ELSE Sleep[n]) /\ rest' = timer'
      BY DEF retry_or_unregister, ble_back_off_time
<1>2. n \in 1..MaxRetries /\ n - 1 <= retries
      BY ConstantTypes DEF TypeInv, next_retry
<1> HIDE DEF n
<1>3. MaxBackOff \in Nat /\ Sleep[n] \in Nat
      BY <1>2, SleepInRange, ConstantTypes
<1>4. registered' \in BOOLEAN /\ (registered /\ ~registered' => late)
      BY <1>1 DEF TypeInv
<1>5. tracked' \in BOOLEAN /\ (timer' = Sleep[n] \/ (~tracked' /\ timer' = 0))
      BY <1>1
<1>6. late => MaxBackOff < Sleep[n]
      BY <1>3
<1> QED BY <1>1, <1>2, <1>4, <1>5, <1>6

(* A lost link or a failed call leaves a context with a timer, whether one  *)
(* was running or not.                                                      *)
LEMMA StartsReconnection ==
    ASSUME BackOffInv, tracked, NEW t \in Nat, Passes(t), start_reconnection(t),
           reached' = FALSE, link' \in BOOLEAN, calls' \in Nat
    PROVE  BackOffInv'
<1>0. TypeInv
      BY DEF BackOffInv
<1>1. /\ since' \in 0..MaxRetryTime /\ away' \in 0..MaxRetryTime
      /\ LongAs(retries, After(away', Left(t)))
      BY TimePasses
<1>2. NoRetryYet'
      BY DEF NoRetryYet
<1>3. CASE timer_already_running(t)
  <2>1. timer > 0 /\ rest' = Left(t) /\ UNCHANGED <<tracked, registered, timer, retries>>
        BY <1>3 DEF timer_already_running
  <2>2. TypeInv'
        BY <1>0, <1>1, <2>1, TimeIsLeft DEF TypeInv
  <2>3. Pursued' /\ TimerSleeps'
        BY <2>1 DEF BackOffInv, Pursued, TimerSleeps
  <2>4. AwayLong'
        BY <1>1, <2>1 DEF AwayLong
  <2> QED BY <1>2, <2>2, <2>3, <2>4 DEF BackOffInv
<1>4. CASE timer = 0 /\ retry_or_unregister
  <2>1. /\ retries' \in 1..MaxRetries /\ retries' - 1 <= retries
        /\ tracked' \in BOOLEAN /\ registered' \in BOOLEAN /\ rest' = timer'
        /\ timer' = Sleep[retries'] \/ (~tracked' /\ timer' = 0)
        BY <1>0, <1>4, RetriesOrGoes
  <2>2. Sleep[retries'] \in Nat /\ 0 < Sleep[retries']
        BY <2>1, SleepInRange
  <2>3. TypeInv'
    <3>1. timer' \in Nat
          BY <2>1, <2>2
    <3>2. rest' \in 0..timer' /\ retries' \in 0..MaxRetries
          BY <2>1, <3>1, ConstantTypes
    <3> QED BY <1>1, <2>1, <3>1, <3>2 DEF TypeInv
  <2>4. Pursued' /\ TimerSleeps'
        BY <2>1, <2>2 DEF Pursued, TimerSleeps
  <2>5. LongAs(retries, away')
    <3>1. Left(t) = 0
          BY <1>0, <1>4, TimeIsLeft
    <3> QED BY <1>1, <3>1, AfterGrows
  <2>6. LongAs(retries' - 1, away')
    <3>1. retries' - 1 \in Int /\ retries \in Int /\ away' \in Nat /\ away' <= away'
          BY <1>0, <1>1, <2>1, ConstantTypes DEF TypeInv
    <3> QED BY <2>1, <2>5, <3>1, LongStays
  <2>7. LongAs(retries', After(away', Sleep[retries']))
        BY <1>1, <2>1, <2>6, TimerAdds
  <2>8. AwayLong'
        BY <2>1, <2>7 DEF AwayLong
  <2> QED BY <1>2, <2>3, <2>4, <2>8 DEF BackOffInv
<1> QED BY <1>3, <1>4 DEF start_reconnection

LEMMA BackOffStep ==
    ASSUME BackOffInv, [Next]_vars
    PROVE  BackOffInv'
<1>0. /\ TypeInv /\ Pursued /\ TimerSleeps /\ NoRetryYet /\ AwayLong
      /\ calls \in Nat /\ MaxCalls \in Nat
      BY BleReconnectAssumption DEF BackOffInv, TypeInv
<1>1. CASE ble_on_connect
  <2>1. /\ link' = TRUE
        /\ UNCHANGED <<tracked, registered, calls, timer, rest, retries, since, reached, away>>
        BY <1>1 DEF ble_on_connect
  <2>2. TypeInv' /\ Pursued' /\ TimerSleeps' /\ NoRetryYet'
        BY <1>0, <2>1 DEF TypeInv, Pursued, TimerSleeps, NoRetryYet
  <2>3. AwayLong'
        BY <1>0, <2>1 DEF AwayLong
  <2> QED BY <2>2, <2>3 DEF BackOffInv
<1>2. CASE ble_on_disconnect
  <2>1. PICK t \in LinkTimes : Passes(t) /\ start_reconnection(t)
        BY <1>2 DEF ble_on_disconnect
  <2>2. t \in Nat /\ tracked /\ reached' = FALSE /\ link' \in BOOLEAN /\ calls' \in Nat
        BY <1>0, <1>2, BleReconnectAssumption DEF ble_on_disconnect
  <2> QED BY <2>1, <2>2, StartsReconnection
<1>3. CASE ble_retry_connect
  <2>1. /\ tracked /\ timer > 0 /\ Passes(rest) /\ timer' = 0 /\ rest' = 0
        /\ calls' = calls + 1
        /\ UNCHANGED <<tracked, registered, link, retries, reached>>
        BY <1>3 DEF ble_retry_connect
  <2>2. rest \in Nat /\ Left(rest) = 0
        BY <1>0, <2>1 DEF TypeInv, Left, Until
  <2>3. /\ since' \in 0..MaxRetryTime /\ away' \in 0..MaxRetryTime
        /\ LongAs(retries, After(away', 0))
    <3>1. LongAs(retries, After(away', Left(rest)))
          BY <2>1, <2>2, TimePasses
    <3> QED BY <2>1, <2>2, <3>1, TimePasses
  <2>4. TypeInv' /\ Pursued' /\ TimerSleeps' /\ NoRetryYet'
        BY <1>0, <2>1, <2>3 DEF TypeInv, Pursued, TimerSleeps, NoRetryYet
  <2>5. AwayLong'
        BY <2>1, <2>3 DEF AwayLong
  <2> QED BY <2>4, <2>5 DEF BackOffInv
<1>4. CASE ble_connect_done_error
  <2>1. PICK t \in ReplyTimes : Passes(t) /\ start_reconnection(t)
        BY <1>4 DEF ble_connect_done_error
  <2>2. /\ t \in Nat /\ tracked /\ reached' = FALSE /\ link' \in BOOLEAN
        /\ calls' \in Nat
        BY <1>0, <1>4, BleReconnectAssumption DEF ble_connect_done_error, TypeInv
  <2> QED BY <2>1, <2>2, StartsReconnection
<1>5. CASE ble_connect_done
  <2>1. /\ link /\ calls > 0 /\ calls' = calls - 1 /\ reached' = TRUE
        /\ registered' \in {registered, TRUE}
        /\ retries' = 0 /\ since' = 0 /\ away' = 0
        /\ UNCHANGED <<tracked, link, timer>>
        BY <1>5 DEF ble_connect_done
  <2>2. rest' \in 0..timer
    <3>1. PICK t \in ReplyTimes : rest' = Left(t)
          BY <1>5 DEF ble_connect_done
    <3> QED BY <1>0, <3>1, TimeIsLeft, BleReconnectAssumption
  <2>3. TypeInv'
    <3>1. 0 \in 0..MaxRetries /\ 0 \in 0..MaxRetryTime
          BY ConstantTypes
    <3>2. calls' \in Nat
          BY <1>0, <2>1
    <3>3. registered' \in BOOLEAN
          BY <1>0, <2>1 DEF TypeInv
    <3> QED BY <1>0, <2>1, <2>2, <3>1, <3>2, <3>3 DEF TypeInv
  <2>4. Pursued' /\ TimerSleeps' /\ NoRetryYet'
        BY <1>0, <2>1 DEF Pursued, TimerSleeps, NoRetryYet
  <2>5. AwayLong'
        BY <2>1, NoneYet DEF AwayLong
  <2> QED BY <2>3, <2>4, <2>5 DEF BackOffInv
<1>6. CASE UNCHANGED vars
  <2>1. TypeInv' /\ Pursued' /\ TimerSleeps' /\ NoRetryYet'
        BY <1>0, <1>6 DEF vars, TypeInv, Pursued, TimerSleeps, NoRetryYet
  <2>2. AwayLong'
        BY <1>0, <1>6 DEF vars, AwayLong
  <2> QED BY <2>1, <2>2 DEF BackOffInv
<1> QED BY <1>1, <1>2, <1>3, <1>4, <1>5, <1>6 DEF Next

LEMMA BackOffHolds == Spec => []BackOffInv
<1>1. Init => BackOffInv
  <2> SUFFICES ASSUME Init PROVE BackOffInv
      OBVIOUS
  <2>1. TypeInv
    <3>1. 0 \in 0..MaxRetries /\ 0 \in 0..MaxRetryTime /\ 0 \in 0..0 /\ 0 \in Nat /\ 1 \in Nat
          BY ConstantTypes
    <3> QED BY <3>1 DEF Init, TypeInv
  <2>2. Pursued /\ TimerSleeps /\ NoRetryYet
        BY DEF Init, Pursued, TimerSleeps, NoRetryYet
  <2>3. AwayLong
        BY NoneYet DEF Init, AwayLong
  <2> QED BY <2>1, <2>2, <2>3 DEF BackOffInv
<1>2. BackOffInv /\ [Next]_vars => BackOffInv'
      BY BackOffStep
<1> QED BY <1>1, <1>2, PTL DEF Spec

-----------------------------------------------------------------------------
(* The theorems *)

(* A context on the list has a link, a Connect call that will be answered   *)
(* or a timer that will go off, whatever the number of retries and losses,  *)
(* and in whatever order links come and go, calls fail and timers run: the  *)
(* code has no way to forget to reconnect a device.                         *)
THEOREM AlwaysPursued == Spec => []Pursued
<1>1. BackOffInv => Pursued
      BY DEF BackOffInv
<1> QED BY <1>1, BackOffHolds, PTL

(* Every delay that the loop computes is one of the powers that the macros   *)
(* describe, less than one step beyond the maximum, and its milliseconds do  *)
(* not overflow, for any values of the macros and any number of retries.     *)
THEOREM DelaysInRange == Spec => []DelayInRange
<1>1. BackOffInv => DelayInRange
  <2> SUFFICES ASSUME BackOffInv, timer > 0 PROVE DelayInRange
      BY DEF DelayInRange
  <2>1. PICK n \in 1..MaxRetries : timer = Sleep[n]
        BY DEF BackOffInv, TimerSleeps
  <2> QED BY <2>1, SleepInRange DEF DelayInRange
<1> QED BY <1>1, BackOffHolds, PTL

(* A device is unregistered only when, since it was last reached, all the    *)
(* delays within the maximum have been waited for, one after the other: what *)
(* the code compares, the time since the last connection, may be much        *)
(* longer, but it looks at the delay first, and a link that comes and goes   *)
(* while a timer runs does not count a retry.                                *)
THEOREM StaysLong == Spec => StaysRegistered
<1>1. ASSUME BackOffInv, Next, registered, ~registered',
             NEW k \in 1..DelaySteps, Delay[k - 1] <= MaxBackOff
      PROVE  away' >= Waited[k]
  <2>0. TypeInv /\ k \in 0..DelaySteps /\ Waited[k] \in Nat
    <3>1. k \in 0..DelaySteps
          BY ConstantTypes
    <3> QED BY <1>1, <3>1, WaitedValues DEF BackOffInv
  <2>1. ASSUME NEW t \in Nat, tracked, Passes(t), start_reconnection(t)
        PROVE  away' >= Waited[k]
    <3>1. timer = 0 /\ retry_or_unregister
          BY <1>1, <2>1 DEF start_reconnection, timer_already_running
    <3>2. /\ retries' \in 1..MaxRetries /\ retries' - 1 <= retries
          /\ MaxBackOff < Sleep[retries']
          BY <1>1, <2>0, <3>1, RetriesOrGoes
    <3>3. k <= retries' - 1
          BY <1>1, <3>2, BeyondAll
    <3>4. k <= retries
      <4>1. retries \in Int /\ retries' \in Int /\ k \in Int
            BY <2>0, <3>2, ConstantTypes DEF TypeInv
      <4>2. \A a, b, c \in Int : a <= b - 1 /\ b - 1 <= c => a <= c
            OBVIOUS
      <4> QED BY <3>2, <3>3, <4>1, <4>2
    <3>5. LongAs(retries, After(away', Left(t))) /\ away' \in 0..MaxRetryTime
          BY <1>1, <2>1, TimePasses
    <3>6. After(away', Left(t)) = away'
          BY <2>0, <3>1, <3>5, TimeIsLeft, AfterGrows
    <3>7. Waited[k] <= away' /\ away' \in Nat
          BY <1>1, <3>4, <3>5, <3>6, ConstantTypes DEF LongAs
    <3> QED BY <2>0, <3>7
  <2>2. CASE ble_on_disconnect
    <3>1. PICK t \in LinkTimes : tracked /\ Passes(t) /\ start_reconnection(t)
          BY <2>2 DEF ble_on_disconnect
    <3> QED BY <2>1, <3>1, BleReconnectAssumption
  <2>3. CASE ble_connect_done_error
    <3>1. PICK t \in ReplyTimes : tracked /\ Passes(t) /\ start_reconnection(t)
          BY <2>3 DEF ble_connect_done_error
    <3> QED BY <2>1, <3>1, BleReconnectAssumption
  <2> QED BY <1>1, <2>2, <2>3 DEF Next, ble_on_connect, ble_retry_connect, ble_connect_done
<1>2. BackOffInv /\ [Next]_vars
        => [registered /\ ~registered'
              => \A k \in 1..DelaySteps : Delay[k - 1] <= MaxBackOff => away' >= Waited[k]]_vars
  <2>1. CASE Next
        BY <1>1, <2>1
  <2>2. CASE UNCHANGED vars
        BY <2>2
  <2> QED BY <2>1, <2>2
<1> QED BY <1>2, BackOffHolds, PTL DEF Spec, StaysRegistered
=============================================================================
