--------------------------- MODULE TelemetryProofs ---------------------------
(***************************************************************************)
(* The accelerometer's statistics for a window of any size and any finite  *)
(* or infinite set of readings: the invariant Inv says where in the ring   *)
(* each of the last reports is; what is computed slot by slot is that of   *)
(* the reports because a sum and a maximum do not depend on where the      *)
(* reading of the ring begins.                                             *)
(*                                                                         *)
(* Then Optics for a strip and a survey of any size: its types, that a     *)
(* finished transfer leaves the colour of the last power on the whole      *)
(* strip, and that the survey writes where the position is.                *)
(***************************************************************************)
EXTENDS Accelerometer, Optics, Induction

(* Sums *)

(* s is the function that SumOf defines. *)
IsSum(s, f, n) == s = [k \in 0 .. n |-> IF k = 0 THEN 0 ELSE s[k - 1] + f[k - 1]]

LEMMA SumExists ==
  ASSUME NEW f, NEW n \in Nat
  PROVE  \E s : IsSum(s, f, n)
<1> DEFINE S == {m \in Nat : \E s : IsSum(s, f, m)}
<1>1. 0 \in S
  <2> DEFINE s == [k \in 0 .. 0 |-> 0]
  <2>1. IsSum(s, f, 0)
    BY DEF IsSum
  <2>2. QED
    BY <2>1
<1>2. ASSUME NEW m \in Nat, m \in S PROVE m + 1 \in S
  <2>1. PICK s : IsSum(s, f, m)
    BY <1>2
  <2> DEFINE t == [k \in 0 .. m + 1 |-> IF k = m + 1 THEN s[m] + f[m] ELSE s[k]]
  <2>2. \A k \in 0 .. m : s[k] = IF k = 0 THEN 0 ELSE s[k - 1] + f[k - 1]
    BY <2>1 DEF IsSum
  <2>3. ASSUME NEW k \in 0 .. m + 1 PROVE t[k] = IF k = 0 THEN 0 ELSE t[k - 1] + f[k - 1]
    BY <2>2
  <2>4. IsSum(t, f, m + 1)
    BY <2>3 DEF IsSum
  <2>5. QED
    BY <2>4
<1> HIDE DEF S
<1>3. Nat \subseteq S
  BY <1>1, <1>2, SetInduction
<1>4. QED
  BY <1>3 DEF S

(* s are the partial sums of the first n values of f. *)
Partial(s, f, n) ==
  /\ s[0] = 0
  /\ \A k \in 0 .. n : s[k] \in Int
  /\ \A k \in 0 .. n - 1 : s[k + 1] = s[k] + f[k]

LEMMA PartialSums ==
  ASSUME NEW n \in Nat, NEW f, \A k \in 0 .. n - 1 : f[k] \in Int
  PROVE  \E s : Partial(s, f, n) /\ SumOf(f, n) = s[n]
<1> DEFINE s == CHOOSE g : IsSum(g, f, n)
<1>1. IsSum(s, f, n)
  BY SumExists, Zenon
<1>2. SumOf(f, n) = s[n]
  BY DEF SumOf, IsSum
<1> HIDE DEF s
<1>3. \A k \in 0 .. n : s[k] = IF k = 0 THEN 0 ELSE s[k - 1] + f[k - 1]
  BY <1>1 DEF IsSum
<1>4. s[0] = 0
  BY <1>3
<1>5. ASSUME NEW k \in 0 .. n - 1 PROVE s[k + 1] = s[k] + f[k]
  <2>1. k + 1 \in 0 .. n /\ k + 1 # 0 /\ (k + 1) - 1 = k
    OBVIOUS
  <2>2. QED
    BY <1>3, <2>1
<1> DEFINE S == {k \in Nat : k <= n => s[k] \in Int}
<1>6. 0 \in S
  BY <1>4
<1>7. ASSUME NEW k \in Nat, k \in S PROVE k + 1 \in S
  <2>1. SUFFICES ASSUME k + 1 <= n PROVE s[k + 1] \in Int
    OBVIOUS
  <2>2. k \in 0 .. n - 1
    BY <2>1
  <2>3. s[k] \in Int /\ f[k] \in Int
    BY <1>7, <2>2
  <2>4. QED
    BY <1>5, <2>2, <2>3
<1> HIDE DEF S
<1>8. Nat \subseteq S
  BY <1>6, <1>7, SetInduction
<1>9. \A k \in 0 .. n : s[k] \in Int
  BY <1>8 DEF S
<1>10. Partial(s, f, n)
  BY <1>4, <1>5, <1>9 DEF Partial
<1>11. QED
  BY <1>2, <1>10

LEMMA SumType ==
  ASSUME NEW n \in Nat, NEW f, \A k \in 0 .. n - 1 : f[k] \in Int
  PROVE  SumOf(f, n) \in Int
<1>1. PICK s : Partial(s, f, n) /\ SumOf(f, n) = s[n]
  BY PartialSums
<1>2. QED
  BY <1>1 DEF Partial

LEMMA SumOfNaturals ==
  ASSUME NEW n \in Nat, NEW f, \A k \in 0 .. n - 1 : f[k] \in Nat
  PROVE  SumOf(f, n) \in Nat
<1>1. PICK s : Partial(s, f, n) /\ SumOf(f, n) = s[n]
  BY PartialSums
<1> DEFINE S == {k \in Nat : k <= n => s[k] \in Nat}
<1>2. 0 \in S
  BY <1>1 DEF Partial
<1>3. ASSUME NEW k \in Nat, k \in S PROVE k + 1 \in S
  BY <1>1, <1>3 DEF Partial
<1> HIDE DEF S
<1>4. Nat \subseteq S
  BY <1>2, <1>3, SetInduction
<1>5. QED
  BY <1>1, <1>4 DEF S

LEMMA SumEmpty == \A f : SumOf(f, 0) = 0
<1>1. SUFFICES ASSUME NEW f PROVE SumOf(f, 0) = 0
  OBVIOUS
<1>2. PICK s : Partial(s, f, 0) /\ SumOf(f, 0) = s[0]
  BY PartialSums
<1>3. QED
  BY <1>2 DEF Partial

(* A ring read from start on *)
Rotated(i, start, n) == IF start + i < n THEN start + i ELSE start + i - n

(* Where the reading begins does not change the sum. *)
LEMMA SumRotated ==
  ASSUME NEW n \in Nat, NEW start \in 0 .. n, NEW f, NEW g,
         \A k \in 0 .. n - 1 : f[k] \in Int,
         \A k \in 0 .. n - 1 : g[k] = f[Rotated(k, start, n)]
  PROVE  SumOf(g, n) = SumOf(f, n)
<1>1. ASSUME NEW k \in 0 .. n - 1 PROVE Rotated(k, start, n) \in 0 .. n - 1
  BY DEF Rotated
<1>2. \A k \in 0 .. n - 1 : g[k] \in Int
  BY <1>1
<1>3. PICK s : Partial(s, f, n) /\ SumOf(f, n) = s[n]
  BY PartialSums
<1>4. PICK t : Partial(t, g, n) /\ SumOf(g, n) = t[n]
  BY <1>2, PartialSums
<1> DEFINE S == {k \in Nat :
              k <= n => t[k] = IF start + k <= n THEN s[start + k] - s[start]
                               ELSE s[n] - s[start] + s[start + k - n]}
<1>5. 0 \in S
  BY <1>3, <1>4 DEF Partial
<1>6. ASSUME NEW k \in Nat, k \in S PROVE k + 1 \in S
  <2>1. SUFFICES ASSUME k + 1 <= n PROVE k + 1 \in S
    OBVIOUS
  <2>2. k \in 0 .. n - 1 /\ t[k + 1] = t[k] + g[k] /\ s[start] \in Int /\ s[n] \in Int
    BY <1>3, <1>4, <2>1 DEF Partial
  <2>3. CASE start + k < n
    <3>1. start + k \in 0 .. n - 1 /\ start + (k + 1) <= n /\ start + (k + 1) = (start + k) + 1
      BY <2>2, <2>3
    <3>2. s[(start + k) + 1] = s[start + k] + f[start + k] /\ s[start + k] \in Int
      BY <1>3, <3>1 DEF Partial
    <3>3. g[k] = f[start + k] /\ f[start + k] \in Int
      BY <2>2, <2>3, <3>1 DEF Rotated
    <3>4. t[k] = s[start + k] - s[start]
      BY <1>6, <2>2, <2>3
    <3>5. t[k + 1] = s[start + (k + 1)] - s[start]
      BY <2>2, <3>1, <3>2, <3>3, <3>4
    <3>6. QED
      BY <3>1, <3>5
  <2>4. CASE start + k >= n
    <3> DEFINE j == start + k - n
    <3>1. j \in 0 .. n - 1 /\ start + (k + 1) - n = j + 1 /\ ~(start + (k + 1) <= n)
      BY <2>2, <2>4
    <3>2. s[j + 1] = s[j] + f[j] /\ s[j] \in Int
      BY <1>3, <3>1 DEF Partial
    <3>3. g[k] = f[j] /\ f[j] \in Int
      BY <2>2, <2>4, <3>1 DEF Rotated
    <3>4. t[k] = s[n] - s[start] + s[j]
      <4>1. CASE start + k = n
        <5>1. t[k] = s[n] - s[start] /\ j = 0 /\ s[0] = 0
          BY <1>3, <1>6, <2>2, <4>1 DEF Partial
        <5>2. QED
          BY <2>2, <5>1
      <4>2. CASE start + k > n
        BY <1>6, <2>2, <4>2
      <4>3. QED
        BY <2>4, <4>1, <4>2
    <3>5. t[k + 1] = s[n] - s[start] + s[j + 1]
      <4> HIDE DEF j
      <4>1. QED
        BY <2>2, <3>2, <3>3, <3>4
    <3>6. t[k + 1] = s[n] - s[start] + s[start + (k + 1) - n]
      BY <3>1, <3>5
    <3>7. QED
      BY <3>1, <3>6
  <2>5. QED
    BY <2>3, <2>4, <2>2
<1> HIDE DEF S
<1>7. Nat \subseteq S
  BY <1>5, <1>6, SetInduction
<1>8. t[n] = IF start + n <= n THEN s[start + n] - s[start] ELSE s[n] - s[start] + s[start + n - n]
  BY <1>7 DEF S
<1>9. t[n] = s[n]
  BY <1>3, <1>8 DEF Partial
<1>10. QED
  BY <1>3, <1>4, <1>9

LEMMA SumSame ==
  ASSUME NEW n \in Nat, NEW f, NEW g,
         \A k \in 0 .. n - 1 : f[k] \in Int, \A k \in 0 .. n - 1 : g[k] = f[k]
  PROVE  SumOf(g, n) = SumOf(f, n)
<1>1. \A k \in 0 .. n - 1 : g[k] = f[Rotated(k, 0, n)]
  BY DEF Rotated
<1>2. 0 \in 0 .. n
  OBVIOUS
<1>3. QED
  BY <1>1, <1>2, SumRotated

(* One value more *)
LEMMA SumNext ==
  ASSUME NEW n \in Nat, NEW f, NEW g,
         \A k \in 0 .. n - 1 : f[k] \in Int,
         \A k \in 0 .. n - 1 : g[k] = f[k], g[n] \in Int
  PROVE  SumOf(g, n + 1) = SumOf(f, n) + g[n]
<1>1. \A k \in 0 .. (n + 1) - 1 : g[k] \in Int
  OBVIOUS
<1>2. PICK t : Partial(t, g, n + 1) /\ SumOf(g, n + 1) = t[n + 1]
  BY <1>1, PartialSums
<1>3. PICK s : Partial(s, f, n) /\ SumOf(f, n) = s[n]
  BY PartialSums
<1> DEFINE S == {k \in Nat : k <= n => t[k] = s[k]}
<1>4. 0 \in S
  BY <1>2, <1>3 DEF Partial
<1>5. ASSUME NEW k \in Nat, k \in S PROVE k + 1 \in S
  <2>1. SUFFICES ASSUME k + 1 <= n PROVE t[k + 1] = s[k + 1]
    OBVIOUS
  <2>2. k \in 0 .. n - 1 /\ k \in 0 .. (n + 1) - 1 /\ t[k] = s[k] /\ g[k] = f[k]
    BY <1>5, <2>1
  <2>3. t[k + 1] = t[k] + g[k] /\ s[k + 1] = s[k] + f[k]
    BY <1>2, <1>3, <2>2 DEF Partial
  <2>4. QED
    BY <2>2, <2>3
<1> HIDE DEF S
<1>6. Nat \subseteq S
  BY <1>4, <1>5, SetInduction
<1>7. t[n] = s[n]
  BY <1>6 DEF S
<1>8. t[n + 1] = t[n] + g[n]
  BY <1>2 DEF Partial
<1>9. QED
  BY <1>2, <1>3, <1>7, <1>8

(* The first value leaves and another one comes. *)
LEMMA SumSlides ==
  ASSUME NEW n \in Nat, NEW f, NEW g,
         \A k \in 0 .. n : f[k] \in Int,
         \A k \in 0 .. n - 1 : g[k] = f[k + 1], g[n] \in Int
  PROVE  SumOf(g, n + 1) = (SumOf(f, n + 1) - f[0]) + g[n]
<1>1. \A k \in 0 .. (n + 1) - 1 : g[k] \in Int /\ f[k] \in Int
  OBVIOUS
<1>2. PICK t : Partial(t, g, n + 1) /\ SumOf(g, n + 1) = t[n + 1]
  BY <1>1, PartialSums
<1>3. PICK s : Partial(s, f, n + 1) /\ SumOf(f, n + 1) = s[n + 1]
  BY <1>1, PartialSums
<1> DEFINE S == {k \in Nat : k <= n => t[k] = s[k + 1] - f[0]}
<1>4. 0 \in S
  <2>1. 0 \in 0 .. (n + 1) - 1 /\ f[0] \in Int
    OBVIOUS
  <2>2. t[0] = 0 /\ s[0] = 0 /\ s[0 + 1] = s[0] + f[0]
    BY <1>2, <1>3, <2>1 DEF Partial
  <2>3. QED
    BY <2>1, <2>2
<1>5. ASSUME NEW k \in Nat, k \in S PROVE k + 1 \in S
  <2>1. SUFFICES ASSUME k + 1 <= n PROVE t[k + 1] = s[(k + 1) + 1] - f[0]
    OBVIOUS
  <2>2. /\ k \in 0 .. n - 1 /\ k \in 0 .. (n + 1) - 1 /\ k + 1 \in 0 .. (n + 1) - 1 /\ k + 1 \in 0 .. n + 1
        /\ t[k] = s[k + 1] - f[0] /\ g[k] = f[k + 1] /\ f[k + 1] \in Int /\ f[0] \in Int
    BY <1>5, <2>1
  <2>3. t[k + 1] = t[k] + g[k] /\ s[(k + 1) + 1] = s[k + 1] + f[k + 1] /\ s[k + 1] \in Int
    BY <1>2, <1>3, <2>2 DEF Partial
  <2>4. QED
    BY <2>2, <2>3
<1> HIDE DEF S
<1>6. Nat \subseteq S
  BY <1>4, <1>5, SetInduction
<1>7. t[n] = s[n + 1] - f[0]
  BY <1>6 DEF S
<1>8. t[n + 1] = t[n] + g[n]
  BY <1>2 DEF Partial
<1>9. QED
  BY <1>2, <1>3, <1>7, <1>8

LEMMA SquareNatural ==
  ASSUME NEW x \in Int
  PROVE  x * x \in Nat
<1>1. CASE x >= 0
  BY <1>1
<1>2. CASE x < 0
  <2>1. -x \in Nat /\ x * x = (-x) * (-x)
    BY <1>2
  <2>2. \A y \in Nat : y * y \in Nat
    OBVIOUS
  <2>3. QED
    BY <2>1, <2>2
<1>3. QED
  BY <1>1, <1>2

LEMMA DeviationsNatural ==
  ASSUME NEW n \in Nat, NEW f, NEW total \in Int, \A k \in 0 .. n - 1 : f[k] \in Int
  PROVE  \A k \in 0 .. n - 1 : SquaredDeviations(f, n, total)[k] \in Nat
<1>1. SUFFICES ASSUME NEW k \in 0 .. n - 1 PROVE SquaredDeviations(f, n, total)[k] \in Nat
  OBVIOUS
<1>2. SquaredDeviations(f, n, total)[k] = (n * f[k] - total) * (n * f[k] - total)
  BY DEF SquaredDeviations
<1>3. n * f[k] - total \in Int
  OBVIOUS
<1> DEFINE x == n * f[k] - total
<1>4. x \in Int /\ SquaredDeviations(f, n, total)[k] = x * x
  BY <1>2, <1>3
<1> HIDE DEF x
<1>5. QED
  BY <1>4, SquareNatural

(* The deviations of a ring do not depend on where it is read from either. *)
LEMMA DeviationsRotated ==
  ASSUME NEW n \in Nat, NEW start \in 0 .. n, NEW f, NEW g, NEW total \in Int,
         \A k \in 0 .. n - 1 : f[k] \in Int,
         \A k \in 0 .. n - 1 : g[k] = f[Rotated(k, start, n)]
  PROVE  SumOf(SquaredDeviations(g, n, total), n) = SumOf(SquaredDeviations(f, n, total), n)
<1> DEFINE a == SquaredDeviations(f, n, total)
           b == SquaredDeviations(g, n, total)
<1>1. \A k \in 0 .. n - 1 : a[k] \in Int
  BY DeviationsNatural
<1>2. ASSUME NEW k \in 0 .. n - 1 PROVE b[k] = a[Rotated(k, start, n)]
  <2>1. Rotated(k, start, n) \in 0 .. n - 1
    BY DEF Rotated
  <2>2. g[k] = f[Rotated(k, start, n)]
    OBVIOUS
  <2>3. b[k] = (n * g[k] - total) * (n * g[k] - total)
    BY DEF SquaredDeviations
  <2> DEFINE r == Rotated(k, start, n)
  <2> HIDE DEF r
  <2>4. r \in 0 .. n - 1
    BY <2>1 DEF r
  <2>5. a[r] = (n * f[r] - total) * (n * f[r] - total)
    BY <2>4, Zenon DEF SquaredDeviations
  <2>6. QED
    BY <2>2, <2>3, <2>5, Zenon DEF r
<1> HIDE DEF a, b
<1>3. SumOf(b, n) = SumOf(a, n)
  BY <1>1, <1>2, SumRotated
<1>4. QED
  BY <1>3 DEF a, b

-----------------------------------------------------------------------------
(* Maxima of the values of a function *)

LEMMA MaximumExists ==
  ASSUME NEW n \in Nat, NEW f, NEW low \in Int, \A k \in 0 .. n - 1 : f[k] \in Int
  PROVE  \E m \in {low} \cup {f[k] : k \in 0 .. n - 1} :
           \A y \in {low} \cup {f[k] : k \in 0 .. n - 1} : m >= y
<1> DEFINE V(j) == {low} \cup {f[k] : k \in 0 .. j - 1}
           S == {j \in Nat : j <= n => \E m \in V(j) : \A y \in V(j) : m >= y}
<1>1. 0 \in S
  OBVIOUS
<1>2. ASSUME NEW j \in Nat, j \in S PROVE j + 1 \in S
  <2>1. SUFFICES ASSUME j + 1 <= n PROVE \E m \in V(j + 1) : \A y \in V(j + 1) : m >= y
    OBVIOUS
  <2>2. PICK m \in V(j) : \A y \in V(j) : m >= y
    BY <1>2, <2>1
  <2>3. f[j] \in Int /\ m \in Int /\ V(j) \subseteq Int
    BY <2>1, <2>2
  <2>4. V(j + 1) = V(j) \cup {f[j]}
    OBVIOUS
  <2> HIDE DEF V
  <2>5. CASE f[j] >= m
    <3>1. \A y \in V(j + 1) : f[j] >= y
      BY <2>2, <2>3, <2>4, <2>5
    <3>2. QED
      BY <2>4, <3>1
  <2>6. CASE f[j] < m
    <3>1. \A y \in V(j + 1) : m >= y
      BY <2>2, <2>3, <2>4, <2>6
    <3>2. QED
      BY <2>2, <2>4, <3>1
  <2>7. QED
    BY <2>3, <2>5, <2>6
<1> HIDE DEF S
<1>3. Nat \subseteq S
  BY <1>1, <1>2, SetInduction
<1> HIDE DEF V
<1>4. \E m \in V(n) : \A y \in V(n) : m >= y
  BY <1>3 DEF S
<1>5. QED
  BY <1>4, Zenon DEF V

LEMMA MaxIs ==
  ASSUME NEW T \in SUBSET Int, NEW m \in T, \A y \in T : m >= y
  PROVE  Max(T) = m
<1>1. Max(T) \in T /\ \A y \in T : Max(T) >= y
  BY DEF Max
<1>2. Max(T) \in Int /\ m \in Int /\ Max(T) >= m /\ m >= Max(T)
  BY <1>1
<1>3. QED
  BY <1>2

-----------------------------------------------------------------------------
(* The ring holds the last reports, oldest first from Start on, and zeros  *)
(* where nothing was written yet.                                          *)
Start == IF samples < Window THEN 0 ELSE index
Place(i) == Rotated(i, Start, samples)

RingInv ==
  /\ recent \in Seq(Reading \X Reading) /\ samples = Len(recent)
  /\ samples < Window => index = samples
  /\ \A i \in 0 .. samples - 1 :
       buffer[Place(i)] = recent[i + 1][1] /\ bufferMax[Place(i)] = recent[i + 1][2]
  /\ \A i \in Slot : i >= samples => buffer[i] = 0

Inv == TypeOK /\ RingInv /\ SumIsOfWindow /\ StatisticsCurrent

LEMMA Readings ==
  /\ Reading \subseteq Int /\ Reading \cup {0} \subseteq Int /\ MinusInfinity \in Int
  /\ \A r \in Reading : MinusInfinity < r
  /\ Window \in Nat \ {0}
BY ReadingsOK, WindowOK

LEMMA InitInv == Init => Inv
<1> SUFFICES ASSUME Init PROVE Inv
  OBVIOUS
<1>1. /\ buffer = [i \in Slot |-> 0] /\ bufferMax = [i \in Slot |-> 0]
      /\ samples = 0 /\ index = 0 /\ sum = 0 /\ variance = 0 /\ maximum = 0
      /\ recent = <<>> /\ connected = FALSE
  BY DEF Init
<1>2. TypeOK
  <2>1. 0 \in Reading \cup {0} /\ 0 \in 0 .. Window /\ 0 \in Slot /\ 0 \in Int
    BY Readings DEF Slot
  <2>2. [i \in Slot |-> 0] \in [Slot -> Reading \cup {0}]
    OBVIOUS
  <2>3. QED
    BY <1>1, <2>1, <2>2 DEF TypeOK
<1>3. RingInv
  BY <1>1 DEF RingInv, Slot
<1>4. Count = 0
  BY <1>1 DEF Count
<1>5. SumIsOfWindow
  BY <1>1, <1>4, SumEmpty DEF SumIsOfWindow, Total
<1>6. StatisticsCurrent
  BY <1>4 DEF StatisticsCurrent
<1>7. QED
  BY <1>2, <1>3, <1>5, <1>6 DEF Inv

LEMMA NextIndex ==
  ASSUME NEW n \in Nat \ {0}, NEW i \in 0 .. n - 1
  PROVE  (i + 1) % n = IF i + 1 < n THEN i + 1 ELSE 0
<1>1. CASE i + 1 < n
  BY <1>1
<1>2. CASE i + 1 = n
  <2>1. \A m \in Nat \ {0} : m % m = 0
    <3>1. SUFFICES ASSUME NEW m \in Nat \ {0} PROVE m % m = 0
      OBVIOUS
    <3>2. m % m = m - m * (m \div m) /\ m \div m = 1
      OBVIOUS
    <3>3. QED
      BY <3>2
  <2>2. QED
    BY <1>2, <2>1
<1>3. QED
  BY <1>1, <1>2

(* The reports as the ring holds them *)
LEMMA RecentFacts ==
  ASSUME Inv
  PROVE  /\ Count = samples /\ samples \in 0 .. Window /\ Len(recent) = samples
         /\ Start \in 0 .. samples
         /\ \A i \in 0 .. samples - 1 :
              /\ recent[i + 1] \in Reading \X Reading
              /\ Means[i] = recent[i + 1][1] /\ Means[i] \in Int
              /\ Place(i) \in 0 .. samples - 1 /\ Means[i] = buffer[Place(i)]
         /\ \A i \in 0 .. samples - 1 : buffer[i] \in Int /\ bufferMax[i] \in Int
         /\ Total \in Int
<1>1. /\ samples \in 0 .. Window /\ index \in Slot
      /\ buffer \in [Slot -> Reading \cup {0}] /\ bufferMax \in [Slot -> Reading \cup {0}]
  BY DEF Inv, TypeOK
<1>2. /\ recent \in Seq(Reading \X Reading) /\ samples = Len(recent)
      /\ \A i \in 0 .. samples - 1 : buffer[Place(i)] = recent[i + 1][1]
  BY DEF Inv, RingInv
<1>3. Count = samples
  BY <1>2 DEF Count
<1>4. Start \in 0 .. samples
  BY <1>1, Readings DEF Start, Slot
<1>5. \A i \in 0 .. samples - 1 : buffer[i] \in Int /\ bufferMax[i] \in Int
  <2>1. \A i \in 0 .. samples - 1 : i \in Slot
    BY <1>1, Readings DEF Slot
  <2>2. \A i \in Slot : buffer[i] \in Reading \cup {0} /\ bufferMax[i] \in Reading \cup {0}
    BY <1>1
  <2>3. \A x \in Reading \cup {0} : x \in Int
    BY Readings
  <2>4. QED
    BY <2>1, <2>2, <2>3
<1>6. ASSUME NEW i \in 0 .. samples - 1
      PROVE  /\ recent[i + 1] \in Reading \X Reading
             /\ Means[i] = recent[i + 1][1] /\ Means[i] \in Int
             /\ Place(i) \in 0 .. samples - 1 /\ Means[i] = buffer[Place(i)]
  <2>1. i + 1 \in 1 .. Len(recent)
    BY <1>1, <1>2
  <2>2. recent[i + 1] \in Reading \X Reading
    BY <1>2, <2>1
  <2>3. Means[i] = recent[i + 1][1]
    BY <1>3 DEF Means
  <2>4. recent[i + 1][1] \in Reading
    BY <2>2
  <2>5. Place(i) \in 0 .. samples - 1
    BY <1>1, <1>4 DEF Place, Rotated
  <2>6. QED
    BY <1>2, <2>2, <2>3, <2>4, <2>5, Readings
<1>7. Total \in Int
  <2>1. \A k \in 0 .. samples - 1 : Means[k] \in Int
    BY <1>6
  <2>2. samples \in Nat
    BY <1>1
  <2>3. SumOf(Means, samples) \in Int
    BY <2>1, <2>2, SumType
  <2>4. QED
    BY <1>3, <2>3 DEF Total
<1>8. QED
  BY <1>1, <1>2, <1>3, <1>4, <1>5, <1>6, <1>7

LEMMA AppendFacts ==
  ASSUME NEW S, NEW s \in Seq(S), NEW e \in S
  PROVE  /\ Append(s, e) \in Seq(S) /\ Len(Append(s, e)) = Len(s) + 1 /\ Len(s) \in Nat
         /\ Append(s, e)[Len(s) + 1] = e
         /\ \A k \in 1 .. Len(s) : Append(s, e)[k] = s[k]
OBVIOUS

LEMMA TailFacts ==
  ASSUME NEW S, NEW s \in Seq(S), Len(s) > 0
  PROVE  /\ Tail(s) \in Seq(S) /\ Len(Tail(s)) = Len(s) - 1
         /\ \A k \in 1 .. Len(s) - 1 : Tail(s)[k] = s[k + 1]
OBVIOUS

Reports(avg, max) == UpdateItem(avg, max) /\ recent' = Latest(recent, <<avg, max>>)

(* The window is not full: the report goes to an unused slot, which holds  *)
(* a zero.                                                                 *)
LEMMA RingGrows ==
  ASSUME Inv, NEW avg \in Reading, NEW max \in Reading, Reports(avg, max), samples < Window
  PROVE  RingInv' /\ Count' = samples' /\ Total' = (Total - buffer[index]) + avg
<1>1. /\ samples \in 0 .. Window /\ samples \in Nat /\ samples + 1 \in 0 .. Window /\ index = samples
      /\ buffer \in [Slot -> Reading \cup {0}] /\ bufferMax \in [Slot -> Reading \cup {0}]
      /\ recent \in Seq(Reading \X Reading) /\ Len(recent) = samples
      /\ samples \in Slot /\ Window \in Nat \ {0}
  BY Readings DEF Inv, TypeOK, RingInv, Slot
<1>2. /\ buffer' = [buffer EXCEPT ![samples] = avg] /\ bufferMax' = [bufferMax EXCEPT ![samples] = max]
      /\ samples' = samples + 1 /\ index' = (samples + 1) % Window
      /\ recent' = Append(recent, <<avg, max>>)
  BY <1>1 DEF Reports, UpdateItem, Latest
<1>3. /\ recent' \in Seq(Reading \X Reading) /\ Len(recent') = samples + 1
      /\ recent'[samples + 1] = <<avg, max>>
      /\ \A i \in 1 .. samples : recent'[i] = recent[i]
  <2>1. <<avg, max>> \in Reading \X Reading
    OBVIOUS
  <2>2. QED
    BY <1>1, <1>2, <2>1, AppendFacts
<1>4. buffer'[samples] = avg /\ bufferMax'[samples] = max
      /\ \A i \in Slot : i # samples => buffer'[i] = buffer[i] /\ bufferMax'[i] = bufferMax[i]
  BY <1>1, <1>2
<1>5. index' = IF samples + 1 < Window THEN samples + 1 ELSE 0
  <2>1. samples \in 0 .. Window - 1
    BY <1>1 DEF Slot
  <2>2. QED
    BY <1>1, <1>2, <2>1, NextIndex
<1>6. Start = 0 /\ Start' = 0
  BY <1>1, <1>2, <1>5 DEF Start
<1>7. \A i \in 0 .. samples - 1 : Place(i) = i /\ i \in Slot
  BY <1>1, <1>6 DEF Place, Rotated, Slot
<1>8. \A i \in 0 .. samples : Place(i)' = i
  BY <1>1, <1>2, <1>6 DEF Place, Rotated
<1>9. ASSUME NEW i \in 0 .. samples' - 1
      PROVE  buffer'[Place(i)'] = recent'[i + 1][1] /\ bufferMax'[Place(i)'] = recent'[i + 1][2]
  <2>1. i \in 0 .. samples /\ Place(i)' = i
    BY <1>1, <1>2, <1>8
  <2>2. CASE i = samples
    BY <1>3, <1>4, <2>1, <2>2
  <2>3. CASE i # samples
    <3>1. i \in 0 .. samples - 1 /\ i + 1 \in 1 .. samples
      BY <1>1, <2>1, <2>3
    <3>2. buffer[i] = recent[i + 1][1] /\ bufferMax[i] = recent[i + 1][2]
      BY <1>7, <3>1 DEF Inv, RingInv
    <3>3. buffer'[i] = buffer[i] /\ bufferMax'[i] = bufferMax[i] /\ recent'[i + 1] = recent[i + 1]
      BY <1>3, <1>4, <1>7, <2>3, <3>1
    <3>4. QED
      BY <2>1, <3>2, <3>3
  <2>4. QED
    BY <2>2, <2>3
<1>10. ASSUME NEW i \in Slot, i >= samples' PROVE buffer'[i] = 0
  <2>1. i >= samples /\ i # samples
    BY <1>1, <1>2, <1>10 DEF Slot
  <2>2. QED
    BY <1>4, <2>1 DEF Inv, RingInv
<1>11. RingInv'
  <2>1. samples' < Window => index' = samples'
    BY <1>2, <1>5
  <2>2. QED
    BY <1>2, <1>3, <1>9, <1>10, <2>1 DEF RingInv, Slot
<1>12. Count' = samples + 1
  BY <1>3 DEF Count
<1>13. \A k \in 0 .. samples - 1 : Means'[k] = Means[k] /\ Means[k] \in Int
  <2>1. ASSUME NEW k \in 0 .. samples - 1 PROVE Means'[k] = recent'[k + 1][1]
    BY <1>1, <1>12 DEF Means
  <2>2. ASSUME NEW k \in 0 .. samples - 1 PROVE recent'[k + 1] = recent[k + 1]
    BY <1>1, <1>3
  <2>3. QED
    BY <2>1, <2>2, RecentFacts
<1>14. Means'[samples] = avg /\ avg \in Int
  <2>1. Means'[samples] = recent'[samples + 1][1]
    BY <1>1, <1>12 DEF Means
  <2>2. QED
    BY <1>3, <2>1, Readings
<1>15. SumOf(Means', samples + 1) = SumOf(Means, samples) + avg
  BY <1>1, <1>13, <1>14, SumNext
<1>16. Total' = Total + avg
  BY <1>12, <1>15, RecentFacts DEF Total
<1>17. buffer[index] = 0
  BY <1>1 DEF Inv, RingInv
<1>18. Total \in Int
  BY RecentFacts
<1>19. QED
  BY <1>2, <1>11, <1>12, <1>14, <1>16, <1>17, <1>18

(* The window is full: the report takes the slot of the oldest, and its    *)
(* place in the order is the last.                                         *)
LEMMA RingSlides ==
  ASSUME Inv, NEW avg \in Reading, NEW max \in Reading, Reports(avg, max), samples = Window
  PROVE  RingInv' /\ Count' = samples' /\ Total' = (Total - buffer[index]) + avg
<1>1. /\ Window \in Nat /\ Window > 0 /\ index \in 0 .. Window - 1
      /\ buffer \in [Slot -> Reading \cup {0}] /\ bufferMax \in [Slot -> Reading \cup {0}]
      /\ recent \in Seq(Reading \X Reading) /\ Len(recent) = Window /\ samples = Window
  BY Readings DEF Inv, TypeOK, RingInv, Slot
<1>2. /\ buffer' = [buffer EXCEPT ![index] = avg] /\ bufferMax' = [bufferMax EXCEPT ![index] = max]
      /\ samples' = Window /\ index' = (index + 1) % Window
      /\ recent' = Append(Tail(recent), <<avg, max>>)
  BY <1>1 DEF Reports, UpdateItem, Latest
<1>3. /\ recent' \in Seq(Reading \X Reading) /\ Len(recent') = Window
      /\ recent'[Window] = <<avg, max>>
      /\ \A i \in 1 .. Window - 1 : recent'[i] = recent[i + 1]
  <2>1. /\ Tail(recent) \in Seq(Reading \X Reading) /\ Len(Tail(recent)) = Window - 1
        /\ \A i \in 1 .. Window - 1 : Tail(recent)[i] = recent[i + 1]
    BY <1>1, TailFacts
  <2>2. <<avg, max>> \in Reading \X Reading
    OBVIOUS
  <2> DEFINE t == Tail(recent)
  <2> HIDE DEF t
  <2>3. t \in Seq(Reading \X Reading) /\ Len(t) = Window - 1
    BY <2>1 DEF t
  <2>4. /\ Append(t, <<avg, max>>) \in Seq(Reading \X Reading)
        /\ Len(Append(t, <<avg, max>>)) = Len(t) + 1
        /\ Append(t, <<avg, max>>)[Len(t) + 1] = <<avg, max>>
        /\ \A i \in 1 .. Len(t) : Append(t, <<avg, max>>)[i] = t[i]
    BY <2>2, <2>3, AppendFacts
  <2>5. (Window - 1) + 1 = Window
    BY <1>1
  <2>6. QED
    BY <1>2, <2>1, <2>3, <2>4, <2>5 DEF t
<1>4. buffer'[index] = avg /\ bufferMax'[index] = max
      /\ \A i \in Slot : i # index => buffer'[i] = buffer[i] /\ bufferMax'[i] = bufferMax[i]
  BY <1>1, <1>2 DEF Slot
<1>5. index' = IF index + 1 < Window THEN index + 1 ELSE 0
  BY <1>1, <1>2, NextIndex
<1>6. Start = index /\ Start' = index'
  BY <1>1, <1>2 DEF Start
<1>7. Place(Window - 1)' = index
  BY <1>1, <1>2, <1>5, <1>6 DEF Place, Rotated
<1>8. ASSUME NEW i \in 0 .. Window - 2
      PROVE  /\ i + 1 \in 0 .. Window - 1
             /\ Place(i)' = Place(i + 1) /\ Place(i + 1) # index /\ Place(i + 1) \in Slot
  BY <1>1, <1>2, <1>5, <1>6 DEF Place, Rotated, Slot
<1>9. ASSUME NEW i \in 0 .. samples' - 1
      PROVE  buffer'[Place(i)'] = recent'[i + 1][1] /\ bufferMax'[Place(i)'] = recent'[i + 1][2]
  <2>1. CASE i = Window - 1
    <3>1. i + 1 = Window
      BY <1>1, <2>1
    <3>2. QED
      BY <1>3, <1>4, <1>7, <2>1, <3>1
  <2>2. CASE i # Window - 1
    <3>1. i \in 0 .. Window - 2 /\ i + 1 \in 1 .. Window - 1 /\ i + 1 \in 0 .. samples - 1
      BY <1>1, <1>2, <2>2
    <3>2. buffer[Place(i + 1)] = recent[(i + 1) + 1][1] /\ bufferMax[Place(i + 1)] = recent[(i + 1) + 1][2]
      BY <3>1 DEF Inv, RingInv
    <3>3. /\ buffer'[Place(i + 1)] = buffer[Place(i + 1)]
          /\ bufferMax'[Place(i + 1)] = bufferMax[Place(i + 1)]
      BY <1>4, <1>8, <3>1
    <3>4. recent'[i + 1] = recent[(i + 1) + 1]
      BY <1>3, <3>1
    <3>5. Place(i)' = Place(i + 1)
      BY <1>8, <3>1
    <3>6. QED
      BY <3>2, <3>3, <3>4, <3>5
  <2>3. QED
    BY <2>1, <2>2
<1>10. RingInv'
  <2>1. \A i \in Slot : ~(i >= samples')
    BY <1>1, <1>2 DEF Slot
  <2>2. ~(samples' < Window)
    BY <1>1, <1>2
  <2>3. QED
    BY <1>2, <1>3, <1>9, <2>1, <2>2 DEF RingInv, Slot
<1>11. Count' = Window /\ Count = Window
  BY <1>1, <1>3 DEF Count
<1> DEFINE n == Window - 1
<1>12. n \in Nat /\ n + 1 = Window
  BY <1>1
<1>13. \A k \in 0 .. n : Means[k] \in Int
  BY <1>1, RecentFacts
<1>14. ASSUME NEW k \in 0 .. n - 1 PROVE Means'[k] = Means[k + 1]
  <2>1. k \in 0 .. Count' - 1 /\ k + 1 \in 0 .. Count - 1 /\ k + 1 \in 1 .. Window - 1
    BY <1>1, <1>11
  <2>2. Means'[k] = recent'[k + 1][1] /\ Means[k + 1] = recent[(k + 1) + 1][1]
    BY <2>1 DEF Means
  <2>3. recent'[k + 1] = recent[(k + 1) + 1]
    BY <1>3, <2>1
  <2>4. QED
    BY <2>2, <2>3
<1>15. Means'[n] = avg /\ avg \in Int
  <2>1. n \in 0 .. Count' - 1
    BY <1>1, <1>11
  <2>2. Means'[n] = recent'[n + 1][1]
    BY <2>1 DEF Means
  <2>3. QED
    BY <1>3, <1>12, <2>2, Readings
<1> HIDE DEF n
<1>16. SumOf(Means', n + 1) = (SumOf(Means, n + 1) - Means[0]) + avg
  BY <1>12, <1>13, <1>14, <1>15, SumSlides
<1>17. Means[0] = buffer[index]
  <2>1. 0 \in 0 .. samples - 1 /\ Place(0) = index
    BY <1>1, <1>6 DEF Place, Rotated
  <2>2. QED
    BY <2>1, RecentFacts
<1>18. QED
  BY <1>2, <1>10, <1>11, <1>12, <1>16, <1>17 DEF Total

LEMMA ReportStep ==
  ASSUME Inv, VibrationReport
  PROVE  Inv'
<1>1. PICK avg \in Reading, max \in Reading : Reports(avg, max)
  BY DEF VibrationReport, Reports
<1>2. connected' = TRUE
  BY DEF VibrationReport
<1>3. RingInv' /\ Count' = samples' /\ Total' = (Total - buffer[index]) + avg
  <2>1. samples < Window \/ samples = Window
    BY Readings DEF Inv, TypeOK
  <2>2. QED
    BY <1>1, <2>1, RingGrows, RingSlides
<1>4. /\ sum' = (sum - buffer[index]) + avg
      /\ buffer' = [buffer EXCEPT ![index] = avg] /\ bufferMax' = [bufferMax EXCEPT ![index] = max]
      /\ samples' = (IF samples < Window THEN samples + 1 ELSE samples)
      /\ index' = (index + 1) % Window
      /\ variance' = NotANumber /\ maximum' = MinusInfinity
  BY <1>1 DEF Reports, UpdateItem
<1>5. /\ index \in Slot /\ sum \in Int /\ samples \in 0 .. Window
      /\ buffer \in [Slot -> Reading \cup {0}] /\ bufferMax \in [Slot -> Reading \cup {0}]
  BY DEF Inv, TypeOK
<1>6. TypeOK'
  <2>1. buffer' \in [Slot -> Reading \cup {0}] /\ bufferMax' \in [Slot -> Reading \cup {0}]
    BY <1>4, <1>5
  <2>2. index' \in Slot /\ samples' \in 0 .. Window
    BY <1>4, <1>5, Readings, NextIndex DEF Slot
  <2>3. buffer[index] \in Reading \cup {0} /\ avg \in Reading
    BY <1>5
  <2>4. sum' \in Int
    BY <1>4, <1>5, <2>3, Readings
  <2>5. variance' \in Nat \cup {NotANumber} /\ maximum' \in Int
    BY <1>4, Readings
  <2>6. QED
    BY <1>2, <2>1, <2>2, <2>4, <2>5 DEF TypeOK, Slot
<1>7. SumIsOfWindow'
  <2>1. sum = Total
    BY DEF Inv, SumIsOfWindow
  <2>2. QED
    BY <1>3, <1>4, <2>1 DEF SumIsOfWindow
<1>8. StatisticsCurrent'
  BY <1>4 DEF StatisticsCurrent
<1>9. QED
  BY <1>3, <1>6, <1>7, <1>8 DEF Inv

LEMMA VarianceIs ==
  ASSUME Inv
  PROVE  Variance \in Nat \cup {NotANumber} /\ (Count > 0 => Variance = Spread)
<1>1. samples \in Nat /\ Count = samples /\ Start \in 0 .. samples /\ sum \in Int /\ sum = Total
  BY RecentFacts DEF Inv, TypeOK, SumIsOfWindow
<1>2. /\ \A k \in 0 .. samples - 1 : buffer[k] \in Int
      /\ \A k \in 0 .. samples - 1 : Means[k] = buffer[Rotated(k, Start, samples)]
  BY RecentFacts DEF Place
<1>3. \A k \in 0 .. samples - 1 : SquaredDeviations(buffer, samples, sum)[k] \in Nat
  BY <1>1, <1>2, DeviationsNatural
<1>4. SumOf(SquaredDeviations(buffer, samples, sum), samples) \in Nat
  BY <1>1, <1>3, SumOfNaturals
<1>5. SumOf(SquaredDeviations(Means, samples, sum), samples)
        = SumOf(SquaredDeviations(buffer, samples, sum), samples)
  BY <1>1, <1>2, DeviationsRotated
<1>6. Variance \in Nat \cup {NotANumber}
  BY <1>4 DEF Variance
<1>7. ASSUME Count > 0 PROVE Variance = Spread
  <2>1. samples # 0
    BY <1>1, <1>7
  <2>2. Variance = SumOf(SquaredDeviations(buffer, samples, sum), samples)
    BY <2>1 DEF Variance
  <2>3. Spread = SumOf(SquaredDeviations(Means, samples, sum), samples)
    BY <1>1 DEF Spread
  <2>4. QED
    BY <1>5, <2>2, <2>3
<1>8. QED
  BY <1>6, <1>7

LEMMA MaximumIs ==
  ASSUME Inv
  PROVE  /\ Maximum \in Int
         /\ Count > 0 => Maximum = Max({recent[i][2] : i \in DOMAIN recent})
<1> DEFINE V == {MinusInfinity} \cup {bufferMax[i] : i \in Used}
           R == {recent[i][2] : i \in DOMAIN recent}
<1>1. /\ samples \in Nat /\ Count = samples /\ Start \in 0 .. samples
      /\ \A i \in 0 .. samples - 1 : bufferMax[i] \in Int
      /\ \A i \in 0 .. samples - 1 : recent[i + 1] \in Reading \X Reading /\ Place(i) \in 0 .. samples - 1
      /\ DOMAIN recent = 1 .. samples
  BY RecentFacts DEF Inv, TypeOK, RingInv
<1>2. Used = 0 .. samples - 1
  BY DEF Used
<1>3. V \subseteq Int
  BY <1>1, <1>2, Readings
<1>4. PICK m \in V : \A y \in V : m >= y
  <2>1. MinusInfinity \in Int
    BY Readings
  <2>2. QED
    BY <1>1, <1>2, <2>1, MaximumExists
<1>5. Maximum = Max(V)
  BY DEF Maximum
<1> HIDE DEF V
<1>6. Max(V) = m
  BY <1>3, <1>4, MaxIs
<1>7. ASSUME NEW i \in 1 .. samples
      PROVE  recent[i][2] \in {bufferMax[j] : j \in Used} /\ recent[i][2] \in Reading
  <2>1. i - 1 \in 0 .. samples - 1 /\ (i - 1) + 1 = i
    BY <1>1
  <2>2. bufferMax[Place(i - 1)] = recent[(i - 1) + 1][2]
    BY <2>1 DEF Inv, RingInv
  <2>3. Place(i - 1) \in Used /\ recent[(i - 1) + 1] \in Reading \X Reading
    BY <1>1, <1>2, <2>1
  <2>4. QED
    BY <2>1, <2>2, <2>3
<1>8. ASSUME NEW j \in Used
      PROVE  \E i \in 1 .. samples : recent[i][2] = bufferMax[j]
  <2> DEFINE k == IF j >= Start THEN j - Start ELSE (j - Start) + samples
  <2>1. k \in 0 .. samples - 1 /\ Place(k) = j
    BY <1>1, <1>2 DEF Place, Rotated
  <2> HIDE DEF k
  <2>2. bufferMax[Place(k)] = recent[k + 1][2]
    BY <2>1 DEF Inv, RingInv
  <2>3. k + 1 \in 1 .. samples
    BY <1>1, <2>1
  <2>4. QED
    BY <2>1, <2>2, <2>3
<1>9. ASSUME Count > 0 PROVE Max(V) = Max(R)
  <2>1. R = {bufferMax[j] : j \in Used}
    BY <1>1, <1>7, <1>8
  <2>2. R \subseteq Reading /\ R \subseteq V
    BY <1>1, <1>7, <2>1 DEF V
  <2>3. 1 \in 1 .. samples
    BY <1>1, <1>9
  <2>4. recent[1][2] \in R /\ recent[1][2] \in Reading
    BY <1>1, <1>7, <2>3
  <2>5. m # MinusInfinity
    <3>1. m >= recent[1][2] /\ MinusInfinity < recent[1][2] /\ recent[1][2] \in Int
      BY <1>4, <2>2, <2>4, Readings
    <3>2. m \in Int /\ MinusInfinity \in Int
      BY <1>3, <1>4, Readings
    <3>3. QED
      BY <3>1, <3>2
  <2>6. m \in R
    BY <1>4, <2>1, <2>5 DEF V
  <2>7. \A y \in R : m >= y
    BY <1>4, <2>2
  <2>8. R \in SUBSET Int
    BY <2>2, Readings
  <2> HIDE DEF R
  <2>9. Max(R) = m
    BY <2>6, <2>7, <2>8, MaxIs
  <2>10. QED
    BY <1>6, <2>9
<1>10. Max(V) \in Int
  BY <1>3, <1>4, <1>6
<1>11. QED
  BY <1>5, <1>9, <1>10

LEMMA ComputeStep ==
  ASSUME Inv, ComputeStatistics
  PROVE  Inv'
<1>1. /\ variance' = Variance /\ maximum' = Maximum /\ connected' = connected /\ recent' = recent
      /\ buffer' = buffer /\ bufferMax' = bufferMax /\ samples' = samples /\ index' = index /\ sum' = sum
  BY DEF ComputeStatistics, ring
<1>2. TypeOK'
  BY <1>1, VarianceIs, MaximumIs DEF Inv, TypeOK, Slot
<1>3. RingInv'
  BY <1>1 DEF Inv, RingInv, Place, Start, Slot
<1>4. Count' = Count /\ Means' = Means /\ Total' = Total /\ Spread' = Spread
  BY <1>1 DEF Count, Means, Total, Spread
<1>5. SumIsOfWindow'
  BY <1>1, <1>4 DEF Inv, SumIsOfWindow
<1>6. StatisticsCurrent'
  BY <1>1, <1>4, VarianceIs, MaximumIs DEF StatisticsCurrent
<1>7. QED
  BY <1>2, <1>3, <1>5, <1>6 DEF Inv

(* The other steps touch the flag alone. *)
LEMMA FlagStep ==
  ASSUME Inv, UNCHANGED <<ring, variance, maximum, recent>>, connected' \in BOOLEAN
  PROVE  Inv'
<1>1. /\ variance' = variance /\ maximum' = maximum /\ recent' = recent
      /\ buffer' = buffer /\ bufferMax' = bufferMax /\ samples' = samples /\ index' = index /\ sum' = sum
  BY DEF ring
<1>2. TypeOK' /\ RingInv'
  BY <1>1 DEF Inv, TypeOK, RingInv, Place, Start, Slot
<1>3. Count' = Count /\ Means' = Means /\ Total' = Total /\ Spread' = Spread
  BY <1>1 DEF Count, Means, Total, Spread
<1>4. SumIsOfWindow' /\ StatisticsCurrent'
  BY <1>1, <1>3 DEF Inv, SumIsOfWindow, StatisticsCurrent
<1>5. QED
  BY <1>2, <1>4 DEF Inv

LEMMA InvStep ==
  ASSUME Inv, [Next]_vars
  PROVE  Inv'
<1>1. CASE VibrationReport
  BY <1>1, ReportStep
<1>2. CASE EmptyReport
  BY <1>2, FlagStep DEF EmptyReport
<1>3. CASE PollFails
  BY <1>3, FlagStep DEF PollFails
<1>4. CASE ComputeStatistics
  BY <1>4, ComputeStep
<1>5. CASE UNCHANGED vars
  BY <1>5, FlagStep DEF vars, Inv, TypeOK
<1>6. QED
  BY <1>1, <1>2, <1>3, <1>4, <1>5 DEF Next

LEMMA Invariant == Spec => []Inv
<1>1. Inv /\ [Next]_vars => Inv'
  BY InvStep
<1>2. QED
  BY InitInv, <1>1, PTL DEF Spec

(* The ring, its indices and the statistics keep their types, for a window *)
(* of any size; in particular the index never leaves the ring.             *)
THEOREM TypeCorrect == Spec => []TypeOK
<1>1. Inv => TypeOK
  BY DEF Inv
<1>2. QED
  BY <1>1, Invariant, PTL

(* The running sum, adjusted by what enters and what leaves the ring, is   *)
(* that of the last Window reports, and samples is their number.           *)
THEOREM SumOfTheWindow == Spec => []SumIsOfWindow
<1>1. Inv => SumIsOfWindow
  BY DEF Inv
<1>2. QED
  BY <1>1, Invariant, PTL

(* A variance and a maximum that are not marked as invalid are those of    *)
(* the last Window reports, though they are computed slot by slot from the *)
(* beginning of the ring, wherever its oldest report is.                   *)
THEOREM StatisticsOfTheWindow == Spec => []StatisticsCurrent
<1>1. Inv => StatisticsCurrent
  BY DEF Inv
<1>2. QED
  BY <1>1, Invariant, PTL

-----------------------------------------------------------------------------
(* The colours *)

Reached(p) == {1} \cup {i \in DOMAIN Threshold : p >= Threshold[i]}

LEMMA ThresholdDomain ==
  /\ DOMAIN Threshold = 1..8
  /\ Threshold[1] = -40 /\ Threshold[2] = -38 /\ Threshold[3] = -30 /\ Threshold[4] = -25
  /\ Threshold[5] = -20 /\ Threshold[6] = -15 /\ Threshold[7] = -10 /\ Threshold[8] = -5
BY DEF Threshold

(* The map is ascending, so what a power reaches is an interval. *)
LEMMA LastReached ==
  ASSUME NEW p \in Int
  PROVE  \E m \in Reached(p) : \A i \in Reached(p) : m >= i
<1> DEFINE Last(m) == m \in Reached(p) /\ \A i \in Reached(p) : m >= i
<1>1. \A i \in Reached(p) : i \in 1..8 /\ (i # 1 => p >= Threshold[i])
  BY ThresholdDomain DEF Reached
<1>2. \A i \in 1..8 : p >= Threshold[i] => i \in Reached(p)
  BY ThresholdDomain DEF Reached
<1>3. 1 \in Reached(p)
  BY DEF Reached
<1>4. CASE p >= -5
  <2>1. Last(8)
    BY <1>1, <1>2, <1>4, ThresholdDomain
  <2>2. QED
    BY <2>1
<1>5. CASE p < -5 /\ p >= -10
  <2>1. Last(7)
    BY <1>1, <1>2, <1>5, ThresholdDomain
  <2>2. QED
    BY <2>1
<1>6. CASE p < -10 /\ p >= -15
  <2>1. Last(6)
    BY <1>1, <1>2, <1>6, ThresholdDomain
  <2>2. QED
    BY <2>1
<1>7. CASE p < -15 /\ p >= -20
  <2>1. Last(5)
    BY <1>1, <1>2, <1>7, ThresholdDomain
  <2>2. QED
    BY <2>1
<1>8. CASE p < -20 /\ p >= -25
  <2>1. Last(4)
    BY <1>1, <1>2, <1>8, ThresholdDomain
  <2>2. QED
    BY <2>1
<1>9. CASE p < -25 /\ p >= -30
  <2>1. Last(3)
    BY <1>1, <1>2, <1>9, ThresholdDomain
  <2>2. QED
    BY <2>1
<1>10. CASE p < -30 /\ p >= -38
  <2>1. Last(2)
    BY <1>1, <1>2, <1>10, ThresholdDomain
  <2>2. QED
    BY <2>1
<1>11. CASE p < -38
  <2>1. Last(1)
    BY <1>1, <1>3, <1>11, ThresholdDomain
  <2>2. QED
    BY <2>1
<1>12. QED
  BY <1>4, <1>5, <1>6, <1>7, <1>8, <1>9, <1>10, <1>11

(* koruza_update_sfp_leds finds the entry of the map the power lies in. *)
LEMMA ColorMatches ==
  ASSUME NEW p \in Int
  PROVE  Color(p) \in DOMAIN Threshold /\ Matches(Color(p), p)
<1>1. /\ Color(p) \in Reached(p)
      /\ \A i \in Reached(p) : Color(p) >= i
  BY LastReached DEF Color, Max, Reached
<1>2. Color(p) \in 1..8 /\ (Color(p) # 1 => p >= Threshold[Color(p)])
  BY <1>1, ThresholdDomain DEF Reached
<1>3. ASSUME Color(p) + 1 \in 1..8
      PROVE  p < Threshold[Color(p) + 1]
  <2>1. Color(p) + 1 \notin Reached(p)
    BY <1>1, <1>2
  <2>2. Threshold[Color(p) + 1] \in Int
    BY <1>3, ThresholdDomain DEF Threshold
  <2>3. QED
    BY <1>3, <2>1, <2>2, ThresholdDomain DEF Reached
<1>4. QED
  BY <1>2, <1>3, ThresholdDomain DEF Matches

LEMMA ShadeType ==
  ASSUME NEW p \in Int, NEW on
  PROVE  Shade(p, on) \in Colors
BY ColorMatches DEF Shade, Colors

-----------------------------------------------------------------------------
(* The bins *)

LEMMA QuotientBounds ==
  ASSUME NEW a \in Nat, NEW d \in Nat \ {0}
  PROVE  /\ a \div d \in Nat
         /\ d * (a \div d) <= a
         /\ a < d * (a \div d) + d
OBVIOUS

LEMMA TruncatedType ==
  ASSUME NEW a \in Int, NEW d \in Nat \ {0}
  PROVE  Truncated(a, d) \in Int
<1>1. CASE a >= 0
  BY <1>1, QuotientBounds DEF Truncated
<1>2. CASE a < 0
  <2>1. -a \in Nat
    BY <1>2
  <2>2. (-a) \div d \in Nat
    BY <2>1, QuotientBounds
  <2>3. QED
    BY <1>2, <2>2 DEF Truncated
<1>3. QED
  BY <1>1, <1>2

(* Truncation towards zero leaves less than the divisor. *)
LEMMA TruncatedBounds ==
  ASSUME NEW a \in Int, NEW d \in Nat \ {0}
  PROVE  /\ a - d * Truncated(a, d) > -d
         /\ a - d * Truncated(a, d) < d
<1>1. CASE a >= 0
  BY <1>1, QuotientBounds DEF Truncated
<1>2. CASE a < 0
  <2> DEFINE q == (-a) \div d
  <2>1. -a \in Nat
    BY <1>2
  <2>2. q \in Nat /\ d * q <= -a /\ -a < d * q + d
    BY <2>1, QuotientBounds
  <2>3. Truncated(a, d) = -q
    BY <1>2 DEF Truncated
  <2> HIDE DEF q
  <2>4. d * (-q) = -(d * q) /\ d * q \in Int
    BY <2>2
  <2>5. QED
    BY <2>2, <2>3, <2>4
<1>3. QED
  BY <1>1, <1>2

LEMMA ClampedInBin ==
  ASSUME NEW b \in Int
  PROVE  Clamped(b) \in Bin
BY SurveyOK DEF Clamped, Bin

LEMMA BinsInRange ==
  ASSUME NEW x \in Int
  PROVE  Bins(x) \subseteq Bin
<1>1. Product(x) \subseteq Int
  <2>1. x * Half \in Int
    BY SurveyOK
  <2>2. IntModulus \div 2 \in Nat
    BY SurveyOK, QuotientBounds
  <2>3. ((x * Half + IntModulus \div 2) % IntModulus) \in Int
    BY <2>1, <2>2, SurveyOK
  <2>4. QED
    BY <2>1, <2>2, <2>3 DEF Product
<1>2. ASSUME NEW n \in Product(x)
      PROVE  Clamped(Truncated(n, Coverage) + Half) \in Bin
  BY <1>1, <1>2, SurveyOK, TruncatedType, ClampedInBin
<1>3. QED
  BY <1>2 DEF Bins

-----------------------------------------------------------------------------
LEMMA OpticsTypeInit == OpticsInit => OpticsTypeOK
<1> SUFFICES ASSUME OpticsInit PROVE OpticsTypeOK
  OBVIOUS
<1>1. frame \in [LedId -> Colors] /\ strip \in [LedId -> Colors]
  BY DEF OpticsInit, Colors
<1>2. survey \in [Bin -> Power \cup {NoPower}]
  BY DEF OpticsInit, NoMeasure
<1>3. writing \in 0..(Led + 1) /\ sent \in 0..Led
  BY LedOK DEF OpticsInit
<1>4. QED
  BY <1>1, <1>2, <1>3 DEF OpticsInit, OpticsTypeOK

LEMMA OpticsTypeStep == OpticsTypeOK /\ [OpticsNext]_opticsVars => OpticsTypeOK'
<1> SUFFICES ASSUME OpticsTypeOK, [OpticsNext]_opticsVars
             PROVE  OpticsTypeOK'
  OBVIOUS
<1> USE LedOK, PowerOK
<1>1. CASE SfpTimer
  BY <1>1 DEF SfpTimer, UpdateSfp, Diagnostics, OpticsTypeOK
<1>2. CASE SetLeds
  BY <1>2 DEF SetLeds, OpticsTypeOK
<1>3. CASE WriteLed
  <2>1. power \in Int
    BY DEF OpticsTypeOK
  <2>2. Shade(power, ledsOn) \in Colors
    BY <2>1, ShadeType
  <2>3. frame' \in [LedId -> Colors]
    BY <1>3, <2>2 DEF WriteLed, OpticsTypeOK
  <2>4. writing' \in 0..(Led + 1)
    BY <1>3 DEF WriteLed, LedId
  <2>5. QED
    BY <1>3, <2>3, <2>4 DEF WriteLed, OpticsTypeOK
<1>4. CASE StartDma
  BY <1>4 DEF StartDma, OpticsTypeOK
<1>5. CASE RenderFails
  BY <1>5 DEF RenderFails, OpticsTypeOK
<1>6. CASE DmaStreams
  <2>1. CASE sent < Led
    <3>1. sent + 1 \in LedId /\ sent' \in 0..Led
      BY <1>6, <2>1 DEF DmaStreams, OpticsTypeOK, LedId
    <3>2. strip' \in [LedId -> Colors]
      BY <1>6, <2>1, <3>1 DEF DmaStreams, OpticsTypeOK
    <3>3. QED
      BY <1>6, <2>1, <3>1, <3>2 DEF DmaStreams, OpticsTypeOK
  <2>2. CASE ~(sent < Led)
    BY <1>6, <2>2 DEF DmaStreams, OpticsTypeOK
  <2>3. QED
    BY <2>1, <2>2
<1>7. CASE DmaFails
  BY <1>7 DEF DmaFails, OpticsTypeOK
<1>8. ASSUME NEW x \in Position, SurveyTimer(x)
      PROVE  OpticsTypeOK'
  <2>1. PICK b \in Bins(x) : survey' = [c \in Bin \cup {b} |-> IF c = b THEN power ELSE survey[c]]
    BY <1>8 DEF SurveyTimer
  <2>2. Bin \cup {b} = Bin
    BY <1>8, SurveyOK, BinsInRange
  <2>3. survey' \in [Bin -> Power \cup {NoPower}]
    BY <2>1, <2>2 DEF OpticsTypeOK
  <2>4. QED
    BY <1>8, <2>3 DEF SurveyTimer, ledVars, OpticsTypeOK
<1>9. CASE ResetSurvey
  BY <1>9 DEF ResetSurvey, NoMeasure, ledVars, OpticsTypeOK
<1>10. CASE MotorsLink
  BY <1>10 DEF MotorsLink, ledVars, OpticsTypeOK
<1>11. CASE UNCHANGED opticsVars
  BY <1>11 DEF opticsVars, ledVars, OpticsTypeOK
<1>12. QED
  BY <1>1, <1>2, <1>3, <1>4, <1>5, <1>6, <1>7, <1>8, <1>9, <1>10, <1>11 DEF OpticsNext, Render

(* The variables keep their types; in particular the survey is never       *)
(* written outside its bins, whatever the position and the overflow.       *)
THEOREM OpticsTypeCorrect == OpticsSpec => []OpticsTypeOK
BY OpticsTypeInit, OpticsTypeStep, PTL DEF OpticsSpec

-----------------------------------------------------------------------------
(* What is inductive: between two renders the frame is the last picture,   *)
(* and a transfer that began after it has put it on the LEDs it reached.   *)
(* During a render the LEDs written so far have the new colour.            *)
Wanted == Shade(power, ledsOn)

FrameInv ==
  \A i \in LedId :
    /\ writing = 0 \/ i < writing => frame[i] = Wanted
    /\ writing = 0 /\ (dma = "idle" \/ (dma = "active" /\ i <= sent)) => strip[i] = Wanted

LEMMA FrameInit == OpticsInit => FrameInv
BY DEF OpticsInit, FrameInv, LedId

LEMMA FrameStep == OpticsTypeOK /\ FrameInv /\ [OpticsNext]_opticsVars => FrameInv'
<1> SUFFICES ASSUME OpticsTypeOK, FrameInv, [OpticsNext]_opticsVars
             PROVE  FrameInv'
  OBVIOUS
<1> USE LedOK
<1>1. CASE SfpTimer
  BY <1>1 DEF SfpTimer, FrameInv, LedId
<1>2. CASE SetLeds
  BY <1>2 DEF SetLeds, FrameInv, LedId
<1>3. CASE WriteLed
  <2>1. Wanted' = Wanted
    BY <1>3 DEF WriteLed, Wanted, Shade, Color
  <2>2. ASSUME NEW i \in LedId, i < writing'
        PROVE  frame'[i] = Wanted
    BY <1>3, <2>2 DEF WriteLed, FrameInv, OpticsTypeOK, LedId, Wanted
  <2>3. writing' # 0
    BY <1>3 DEF WriteLed, LedId
  <2>4. QED
    BY <2>1, <2>2, <2>3 DEF FrameInv
<1>4. CASE StartDma
  <2>1. Wanted' = Wanted
    BY <1>4 DEF StartDma, Wanted, Shade, Color
  <2>2. QED
    BY <1>4, <2>1 DEF StartDma, FrameInv, LedId
<1>5. CASE RenderFails
  <2>1. Wanted' = Wanted
    BY <1>5 DEF RenderFails, Wanted, Shade, Color
  <2>2. QED
    BY <1>5, <2>1 DEF RenderFails, FrameInv, LedId
<1>6. CASE DmaStreams
  <2>1. Wanted' = Wanted
    BY <1>6 DEF DmaStreams, Wanted, Shade, Color
  <2>2. CASE sent < Led
    <3>1. /\ strip' = [strip EXCEPT ![sent + 1] = frame[sent + 1]]
          /\ sent' = sent + 1 /\ dma' = dma
          /\ frame' = frame /\ writing' = writing
      BY <1>6, <2>2 DEF DmaStreams
    <3>2. ASSUME NEW i \in LedId, writing = 0, i <= sent'
          PROVE  strip'[i] = Wanted
      BY <1>6, <2>2, <3>1, <3>2 DEF DmaStreams, FrameInv, OpticsTypeOK, LedId
    <3>3. QED
      BY <1>6, <2>1, <3>1, <3>2 DEF DmaStreams, FrameInv
  <2>3. CASE ~(sent < Led)
    BY <1>6, <2>1, <2>3 DEF DmaStreams, FrameInv, OpticsTypeOK, LedId
  <2>4. QED
    BY <2>2, <2>3
<1>7. CASE DmaFails
  <2>1. Wanted' = Wanted
    BY <1>7 DEF DmaFails, Wanted, Shade, Color
  <2>2. QED
    BY <1>7, <2>1 DEF DmaFails, FrameInv
<1>8. CASE UNCHANGED ledVars
  BY <1>8 DEF ledVars, FrameInv, Wanted, Shade, Color
<1>9. QED
  BY <1>1, <1>2, <1>3, <1>4, <1>5, <1>6, <1>7, <1>8
     DEF OpticsNext, Render, SurveyTimer, ResetSurvey, MotorsLink, opticsVars

(* Between two updates, once the DMA has finished without an error, every  *)
(* LED of the strip has the colour of the last power read, for a strip of  *)
(* any length and any interleaving with the DMA.                           *)
THEOREM StripCorrect == OpticsSpec => []StripShowsPower
<1>1. OpticsTypeOK /\ FrameInv => StripShowsPower
  <2> SUFFICES ASSUME OpticsTypeOK, FrameInv, writing = 0, dma = "idle", NEW i \in LedId
               PROVE  IF ledsOn THEN Matches(strip[i], power) ELSE strip[i] = Dark
    BY DEF StripShowsPower, Shows
  <2>1. strip[i] = Wanted
    BY DEF FrameInv
  <2>2. power \in Int
    BY PowerOK DEF OpticsTypeOK
  <2>3. QED
    BY <2>1, <2>2, ColorMatches DEF Wanted, Shade
<1>2. QED
  BY <1>1, OpticsTypeInit, OpticsTypeStep, FrameInit, FrameStep, PTL DEF OpticsSpec

-----------------------------------------------------------------------------
(* A quotient is on the side of the centre its dividend is on. *)
LEMMA TruncatedSides ==
  ASSUME NEW a \in Int, NEW d \in Nat \ {0}
  PROVE  /\ a >= 0 => Truncated(a, d) >= 0 /\ d * Truncated(a, d) <= a
         /\ a < 0 => Truncated(a, d) <= 0 /\ d * Truncated(a, d) >= a
<1>1. CASE a >= 0
  BY <1>1, QuotientBounds DEF Truncated
<1>2. CASE a < 0
  <2> DEFINE q == (-a) \div d
  <2>1. -a \in Nat
    BY <1>2
  <2>2. q \in Nat /\ d * q <= -a
    BY <2>1, QuotientBounds
  <2>3. Truncated(a, d) = -q
    BY <1>2 DEF Truncated
  <2> HIDE DEF q
  <2>4. d * (-q) = -(d * q) /\ d * q \in Int
    BY <2>2
  <2>5. QED
    BY <1>2, <2>2, <2>3, <2>4
<1>3. QED
  BY <1>1, <1>2

(* A position whose product fits has one bin, the one that covers it.      *)
LEMMA BinCovers ==
  ASSUME NEW x \in Int, Fits(x * Half), NEW b \in Bins(x)
  PROVE  Covers(b, x)
<1> DEFINE n == x * Half
<1> DEFINE q == Truncated(n, Coverage)
<1>1. /\ Half \in Nat \ {0} /\ Coverage \in Nat \ {0}
      /\ n \in Int /\ q \in Int
  BY SurveyOK, TruncatedType
<1>2. b = Clamped(q + Half)
  BY DEF Bins, Product
<1>3. n > Coverage * q - Coverage /\ n < Coverage * q + Coverage
  <2>1. n - Coverage * q > -Coverage /\ n - Coverage * q < Coverage
    BY <1>1, TruncatedBounds
  <2> HIDE DEF n, q
  <2>2. Coverage * q \in Int
    BY <1>1
  <2> QED BY <1>1, <2>1, <2>2
<1>4. /\ n >= 0 => q >= 0 /\ Coverage * q <= n
      /\ n < 0 => q <= 0 /\ Coverage * q >= n
  BY <1>1, TruncatedSides
<1>5. Covers(b, x) <=>
        LET c == b - Half
        IN  /\ b = 0 \/ (IF c > 0 THEN n >= c * Coverage ELSE n > (c - 1) * Coverage)
            /\ b = 2 * Half - 1 \/ (IF c < 0 THEN n <= c * Coverage ELSE n < (c + 1) * Coverage)
  BY DEF Covers
<1> HIDE DEF n, q
<1>6. Coverage * q \in Int
  BY <1>1
<1>7. ASSUME NEW c \in Int, c <= q PROVE c * Coverage <= Coverage * q
  <2>1. Coverage * (q - c) >= 0 /\ Coverage * (q - c) = Coverage * q - c * Coverage
    BY <1>1, <1>7
  <2>2. c * Coverage \in Int
    BY <1>1
  <2> QED BY <1>6, <2>1, <2>2
<1>8. CASE q + Half <= 0
  <2>1. b = 0 /\ b # 2 * Half - 1 /\ b - Half = -Half
    BY <1>1, <1>2, <1>8 DEF Clamped
  <2>2. Coverage * q <= (-Half) * Coverage
    <3>1. Coverage * (q + Half) <= 0 /\ Coverage * (q + Half) = Coverage * q + Coverage * Half
      BY <1>1, <1>8
    <3>2. (-Half) * Coverage = -(Coverage * Half) /\ Coverage * Half \in Int
      BY <1>1
    <3> QED BY <1>6, <3>1, <3>2
  <2>3. (-Half) * Coverage \in Int
    BY <1>1
  <2>4. n <= Coverage * q
    BY <1>1, <1>3, <1>4, <1>6, <1>8
  <2>5. n <= (-Half) * Coverage
    BY <1>1, <1>6, <2>2, <2>3, <2>4
  <2> QED BY <1>1, <1>5, <2>1, <2>5
<1>9. CASE q >= Half - 1
  <2>1. b = 2 * Half - 1 /\ b - Half = Half - 1 /\ Half - 1 \in Nat
    BY <1>1, <1>2, <1>9 DEF Clamped
  <2>2. n >= 0 => n >= (Half - 1) * Coverage
    <3>1. (Half - 1) * Coverage <= Coverage * q /\ (Half - 1) * Coverage \in Int
      BY <1>1, <1>7, <1>9, <2>1
    <3> QED BY <1>1, <1>4, <1>6, <3>1
  <2>3. CASE Half - 1 > 0
    <3>1. n >= 0
      BY <1>1, <1>4, <1>9, <2>3
    <3> QED BY <1>5, <2>1, <2>2, <2>3, <3>1
  <2>4. CASE Half - 1 = 0
    <3>1. n > -Coverage
      <4>1. 0 * Coverage <= Coverage * q
        BY <1>1, <1>7, <1>9, <2>4
      <4> QED BY <1>1, <1>3, <1>6, <4>1
    <3>2. ((Half - 1) - 1) * Coverage = -Coverage
      BY <1>1, <2>4
    <3> QED BY <1>5, <2>1, <2>4, <3>1, <3>2
  <2>5. Half - 1 > 0 \/ Half - 1 = 0
    BY <1>1
  <2> QED BY <2>3, <2>4, <2>5
<1>10. CASE q + Half > 0 /\ q < Half - 1
  <2>1. b - Half = q
    BY <1>1, <1>2, <1>10 DEF Clamped
  <2>2. q * Coverage = Coverage * q /\ (q - 1) * Coverage = Coverage * q - Coverage
        /\ (q + 1) * Coverage = Coverage * q + Coverage
    BY <1>1
  <2>3. IF q > 0 THEN n >= q * Coverage ELSE n > (q - 1) * Coverage
    BY <1>1, <1>3, <1>4, <1>6, <2>2
  <2>4. IF q < 0 THEN n <= q * Coverage ELSE n < (q + 1) * Coverage
    BY <1>1, <1>3, <1>4, <1>6, <2>2
  <2> QED BY <1>5, <2>1, <2>3, <2>4
<1>11. QED
  BY <1>1, <1>8, <1>9, <1>10

(* The survey changes one bin, to the last power read, and for every       *)
(* position whose product fits the word it is the bin that covers the      *)
(* position, for any resolution and coverage.                              *)
THEOREM SurveyCorrect == OpticsSpec => SurveyPlaces
<1> DEFINE Written(x) ==
      \E b \in Bin : /\ survey' = [survey EXCEPT ![b] = power]
                     /\ Fits(x * Half) => Covers(b, x)
<1>1. OpticsTypeOK /\ [OpticsNext]_opticsVars =>
        [\A x \in Position : SurveyTimer(x) => Written(x)]_opticsVars
  <2> SUFFICES ASSUME OpticsTypeOK, NEW x \in Position, SurveyTimer(x)
               PROVE  Written(x)
    OBVIOUS
  <2>1. PICK b \in Bins(x) : survey' = [c \in Bin \cup {b} |-> IF c = b THEN power ELSE survey[c]]
    BY DEF SurveyTimer
  <2>2. b \in Bin /\ x \in Int
    BY SurveyOK, BinsInRange
  <2>3. survey' = [survey EXCEPT ![b] = power]
    BY <2>1, <2>2 DEF OpticsTypeOK
  <2>4. Fits(x * Half) => Covers(b, x)
    BY <2>2, BinCovers
  <2>5. QED
    BY <2>2, <2>3, <2>4
<1>2. QED
  BY <1>1, OpticsTypeInit, OpticsTypeStep, PTL DEF OpticsSpec, SurveyPlaces
=============================================================================
