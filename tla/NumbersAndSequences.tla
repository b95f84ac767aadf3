------------------------- MODULE NumbersAndSequences ------------------------
(***************************************************************************)
(* The facts about numbers and sequences that the proofs use: arithmetic   *)
(* modulo the number of sequence numbers (MESSAGE_SEQ_MASK keeps the low   *)
(* bits of a 64-bit number, and handle_message() finds the 64-bit number   *)
(* again), and the sequences that model the linked lists and buffers of    *)
(* the code.                                                               *)
(***************************************************************************)
EXTENDS Integers, Sequences, TLAPS

\* Time limits of the provers: 30 seconds.
USE SMTT(30), ZenonT(30)

-----------------------------------------------------------------------------
\* Numbers.

\* Quotient and remainder.
LEMMA DivMod ==
    ASSUME NEW m \in Nat \ {0}, NEW a \in Nat
    PROVE  /\ a \div m \in Nat
           /\ a % m \in 0..(m - 1)
           /\ a = m * (a \div m) + (a % m)
OBVIOUS

\* A remainder is at most the number.
LEMMA ModAtMost ==
    ASSUME NEW m \in Nat \ {0}, NEW a \in Nat
    PROVE  a % m <= a
<1> DEFINE q == a \div m
           s == a % m
<1>1. a = m * q + s /\ q \in Nat /\ s \in 0..(m - 1)
  BY Zenon, DivMod
<1> HIDE DEF q, s
<1>2. m * q \in Nat
  BY <1>1
<1>3. s <= a
  BY <1>1, <1>2
<1> QED BY <1>3 DEF s

\* Multiples of m are at least m apart.
LEMMA MulGap ==
    ASSUME NEW m \in Nat \ {0}, NEW p \in Int, NEW q \in Int, p < q
    PROVE  m * q >= m * p + m
<1>1. m * (q - p) >= m
  OBVIOUS
<1>2. m * (q - p) = m * q - m * p
  OBVIOUS
<1> QED BY <1>1, <1>2

\* Fewer than m consecutive numbers are told apart by their remainders: a window
\* of MAX_PENDING_BLOCKS < MESSAGE_SEQ_MASK + 1 blocks is unambiguous.
LEMMA ModInjective ==
    ASSUME NEW m \in Nat \ {0}, NEW a \in Nat, NEW b \in Nat,
           a <= b, b < a + m, a % m = b % m
    PROVE  a = b
<1> DEFINE p == a \div m
           q == b \div m
<1>1. a = m * p + (a % m) /\ b = m * q + (b % m) /\ p \in Nat /\ q \in Nat
  BY Zenon, DivMod
<1>2. ASSUME p < q PROVE FALSE
  <2>1. m * q >= m * p + m  BY MulGap, <1>1, <1>2
  <2> HIDE DEF p, q
  <2>2. a % m \in Int BY DivMod
  <2> QED BY <2>1, <1>1, <2>2
<1>3. ASSUME q < p PROVE FALSE
  <2>1. m * p >= m * q + m  BY MulGap, <1>1, <1>3
  <2>2. a % m \in Int BY DivMod
  <2> HIDE DEF p, q
  <2> QED BY <2>1, <1>1, <2>2
<1>4. p = q BY <1>1, <1>2, <1>3
<1> HIDE DEF p, q
<1> QED BY <1>1, <1>4

\* The remainder is the only one.
LEMMA ModUnique ==
    ASSUME NEW m \in Nat \ {0}, NEW k \in Nat, NEW r \in 0..(m - 1)
    PROVE  (m * k + r) % m = r
<1> DEFINE a == m * k + r
           q == a \div m
<1>1. a \in Nat  OBVIOUS
<1>2. a = m * q + (a % m) /\ q \in Nat /\ a % m \in 0..(m-1)
  BY Zenon, <1>1, DivMod
<1>3. ASSUME q < k PROVE FALSE
  <2>1. m * k >= m * q + m  BY MulGap, <1>2, <1>3
  <2> HIDE DEF q
  <2> QED BY <2>1, <1>2
<1>4. ASSUME k < q PROVE FALSE
  <2>1. m * q >= m * k + m  BY MulGap, <1>2, <1>4
  <2> HIDE DEF q
  <2> QED BY <2>1, <1>2
<1>5. q = k BY <1>2, <1>3, <1>4
<1> HIDE DEF q
<1> QED BY <1>2, <1>5

\* The mask may be applied before or after adding one (command_find_block()
\* increments the masked number, build_and_send_command() masks the full one).
LEMMA ModSucc ==
    ASSUME NEW m \in Nat \ {0}, NEW a \in Nat
    PROVE  (a + 1) % m = ((a % m) + 1) % m
<1> DEFINE q == a \div m
           s == a % m
<1>1. a = m * q + s /\ q \in Nat /\ s \in 0..(m-1)  BY Zenon, DivMod
<1> HIDE DEF q, s
<1>2. CASE s + 1 < m
  <2>1. (m * q + (s + 1)) % m = s + 1 BY <1>1, <1>2, ModUnique
  <2>2. (s + 1) % m = s + 1 BY <1>1, <1>2
  <2> QED BY <2>1, <2>2, <1>1 DEF s
<1>3. CASE s + 1 = m
  <2>1. (m * (q + 1) + 0) % m = 0 BY <1>1, ModUnique
  <2>2. m * (q + 1) + 0 = a + 1 BY <1>1, <1>3
  <2>3. (s + 1) % m = 0 BY <1>3
  <2> QED BY <2>1, <2>2, <2>3 DEF s
<1> QED BY <1>1, <1>2, <1>3

\* handle_message(): from its low bits and a number at most m - 1 below it, a
\* number is recovered.
LEMMA ModRecover ==
    ASSUME NEW m \in Nat \ {0}, NEW r \in Nat, NEW a \in Nat, r <= a, a < r + m
    PROVE  LET base == (r - (r % m)) + (a % m)
           IN  (IF base < r THEN base + m ELSE base) = a
<1> DEFINE q == r \div m
           p == a \div m
           s == r % m
           t == a % m
<1>1. r = m * q + s /\ q \in Nat /\ s \in 0..(m-1)  BY Zenon, DivMod
<1>2. a = m * p + t /\ p \in Nat /\ t \in 0..(m-1)  BY Zenon, DivMod
<1> HIDE DEF p, q, s, t
<1>3. ~(p < q)
  <2> SUFFICES ASSUME p < q PROVE FALSE OBVIOUS
  <2>1. m * q >= m * p + m BY MulGap, <1>1, <1>2
  <2> QED BY <2>1, <1>1, <1>2
<1>4. ~(q + 1 < p)
  <2> SUFFICES ASSUME q + 1 < p PROVE FALSE OBVIOUS
  <2>1. m * p >= m * (q + 1) + m BY MulGap, <1>1, <1>2
  <2>2. m * (q + 1) = m * q + m BY <1>1
  <2> QED BY <2>1, <2>2, <1>1, <1>2
<1>5. CASE p = q
  BY <1>1, <1>2, <1>5 DEF s, t
<1>6. CASE p = q + 1
  <2>2. m * (q + 1) = m * q + m BY <1>1
  <2>3. a = m * q + m + t BY <2>2, <1>6, <1>2
  <2>4. s > t BY <1>1, <1>2, <2>3
  <2> QED BY <1>1, <1>2, <2>3, <2>4 DEF s, t
<1> QED BY <1>1, <1>2, <1>3, <1>4, <1>5, <1>6

\* A remainder that wraps around at most once.
LEMMA ModWithin ==
    ASSUME NEW m \in Nat \ {0}, NEW x \in Int, -m <= x, x < m
    PROVE  x % m = IF x < 0 THEN x + m ELSE x
OBVIOUS

\* The difference of two clocks that wrap around, when the times are close.
LEMMA ClockDifference ==
    ASSUME NEW m \in Nat \ {0}, NEW a \in Nat, NEW b \in Nat, a < b + m, b < a + m
    PROVE  ((a % m) - (b % m)) % m = IF a < b THEN (a - b) + m ELSE a - b
<1> DEFINE p == a \div m
           q == b \div m
           r == a % m
           s == b % m
           k == p - q
<1>1. a = m * p + r /\ p \in Nat /\ r \in 0..(m - 1)
  BY Zenon, DivMod
<1>2. b = m * q + s /\ q \in Nat /\ s \in 0..(m - 1)
  BY Zenon, DivMod
<1> HIDE DEF p, q, r, s
<1>3. k \in Int /\ m * p \in Int /\ m * q \in Int /\ m * k = m * p - m * q
  BY <1>1, <1>2
<1> HIDE DEF k
<1>4. m * k \in Int /\ r - s = (a - b) - m * k
  BY <1>1, <1>2, <1>3
<1>5. m * k < 2 * m /\ m * k > -(2 * m)
  BY <1>1, <1>2, <1>4
<1>6. k < 2 /\ k > -2
  BY <1>3, <1>5
<1>7. k = -1 \/ k = 0 \/ k = 1
  BY <1>3, <1>6
<1>8. m * k = -m \/ m * k = 0 \/ m * k = m
  BY <1>7
<1> DEFINE x == r - s
<1>9. x \in Int /\ -m <= x /\ x < m
  BY <1>1, <1>2
<1>10. x = (a - b) + m \/ x = a - b \/ x = (a - b) - m
  BY <1>4, <1>8
<1> HIDE DEF x
<1>11. x % m = IF x < 0 THEN x + m ELSE x
  BY Zenon, <1>9, ModWithin
<1>12. x % m = IF a < b THEN (a - b) + m ELSE a - b
  BY <1>9, <1>10, <1>11
<1> QED BY <1>12 DEF x, r, s

\* timer_is_before(): the sign of the difference tells which of two close times is first.
LEMMA ClockBefore ==
    ASSUME NEW m \in Nat \ {0}, NEW a \in Nat, NEW b \in Nat,
           2 * (a - b) < m, 2 * (b - a) < m
    PROVE  2 * (((a % m) - (b % m)) % m) >= m <=> a < b
<1> DEFINE d == ((a % m) - (b % m)) % m
<1>1. a < b + m /\ b < a + m
  OBVIOUS
<1>2. d = IF a < b THEN (a - b) + m ELSE a - b
  BY Zenon, <1>1, ClockDifference
<1> HIDE DEF d
<1>3. 2 * d >= m <=> a < b
  BY <1>2
<1> QED BY <1>3 DEF d

\* A duration is added to a clock.
LEMMA ClockAdd ==
    ASSUME NEW m \in Nat \ {0}, NEW a \in Nat, NEW k \in Nat
    PROVE  ((a % m) + k) % m = (a + k) % m
<1> DEFINE p == a \div m
           r == a % m
           q == (r + k) \div m
           s == (r + k) % m
<1>1. a = m * p + r /\ p \in Nat /\ r \in 0..(m - 1)
  BY Zenon, DivMod
<1> HIDE DEF p, r
<1>2. r + k \in Nat
  BY <1>1
<1>3. r + k = m * q + s /\ q \in Nat /\ s \in 0..(m - 1)
  BY Zenon, <1>2, DivMod
<1> HIDE DEF q, s
<1>4. p + q \in Nat /\ m * (p + q) = m * p + m * q /\ m * p \in Nat /\ m * q \in Nat
  BY <1>1, <1>3
<1>5. a + k = m * (p + q) + s
  BY <1>1, <1>3, <1>4
<1>6. (m * (p + q) + s) % m = s
  BY Zenon, <1>3, <1>4, ModUnique
<1> QED BY <1>5, <1>6 DEF s, r

\* The remainder is the only one, also of a negative number.
LEMMA IntModUnique ==
    ASSUME NEW m \in Nat \ {0}, NEW k \in Int, NEW r \in 0..(m - 1)
    PROVE  (m * k + r) % m = r
<1> DEFINE a == m * k + r
           q == a \div m
           s == a % m
<1>1. a \in Int
  OBVIOUS
<1> HIDE DEF a
<1>2. a = m * q + s /\ q \in Int /\ s \in 0..(m - 1)
  BY <1>1
<1> HIDE DEF q, s
<1>3. ASSUME q < k PROVE FALSE
  <2>1. m * k >= m * q + m  BY MulGap, <1>2, <1>3
  <2> QED BY <2>1, <1>2 DEF a
<1>4. ASSUME k < q PROVE FALSE
  <2>1. m * q >= m * k + m  BY MulGap, <1>2, <1>4
  <2> QED BY <2>1, <1>2 DEF a
<1>5. q = k BY <1>2, <1>3, <1>4
<1>6. s = r
  <2>1. m * q = m * k /\ m * k \in Int BY <1>2, <1>5
  <2> QED BY <1>2, <2>1 DEF a
<1> QED BY <1>6 DEF s, a

\* A close time is told from its remainder and the time.
LEMMA ClockAway ==
    ASSUME NEW m \in Nat \ {0}, NEW a \in Nat, NEW b \in Nat, b <= a, a < b + m
    PROVE  ((a % m) - b) % m = a - b
<1> DEFINE p == a \div m
           r == a % m
           x == r - b
           d == a - b
<1>1. a = m * p + r /\ p \in Nat /\ r \in 0..(m - 1)
  BY Zenon, DivMod
<1>2. d \in 0..(m - 1)
  OBVIOUS
<1> DEFINE k == -p
<1> HIDE DEF p, r
<1>3. k \in Int /\ m * k = -(m * p) /\ m * p \in Int
  BY <1>1
<1>4. x = m * k + d
  BY <1>1, <1>3
<1> HIDE DEF k, d
<1>5. (m * k + d) % m = d
  BY Zenon, <1>2, <1>3, IntModUnique
<1> QED BY <1>4, <1>5 DEF r, d

-----------------------------------------------------------------------------
\* The order of numbers, for the steps that need nothing else of arithmetic.

\* A number is at most itself, and at most its sum with another.
LEMMA NatOrder ==
    ASSUME NEW a \in Nat, NEW b \in Nat
    PROVE  /\ a + b \in Nat /\ a <= a /\ a <= a + b /\ b <= a + b
           /\ a <= b => ~(b + 1 <= a) /\ a # b + 1
OBVIOUS

\* The order is transitive.
LEMMA NatTransitive ==
    ASSUME NEW a \in Nat, NEW b \in Nat, NEW c \in Nat, a <= b, b <= c
    PROVE  a <= c
OBVIOUS

\* The order is total.
LEMMA NatTotal ==
    ASSUME NEW a \in Nat, NEW b \in Nat
    PROVE  a <= b \/ b < a
OBVIOUS

\* Comparing gives a truth value.
LEMMA NatCompare ==
    ASSUME NEW a \in Nat
    PROVE  (a > 0) \in BOOLEAN
OBVIOUS

\* What is left of a cycle c after n of it.
LEMMA RestOfCycle ==
    ASSUME NEW c \in Nat, NEW n \in Nat, n < c
    PROVE  c - n \in Nat /\ c - n <= c /\ n <= c
OBVIOUS

\* A time t within a, or within c, of n is within any sum that they are part of.
LEMMA WithinSum ==
    ASSUME NEW n \in Nat, NEW d \in Nat, NEW c \in Nat, NEW a \in Nat, NEW t \in Nat
    PROVE  /\ t <= n + a => t <= n + d + a /\ t <= n + d + c + a
           /\ t <= n + c => t <= n + d + c + a
           /\ t <= n + d + a => t <= n + d + c + a
OBVIOUS

\* A time e that is t or later is still to come if t is, and close.
LEMMA StillAhead ==
    ASSUME NEW n \in Nat, NEW t \in Nat, NEW e \in Nat, NEW d \in Nat, NEW c \in Nat,
           NEW a \in Nat, NEW m \in Nat, n + 1 <= t, t = e \/ t < e, e <= n + d + a,
           2 * (d + c + a) < m
    PROVE  n + 1 <= e /\ e < n + m
OBVIOUS

\* What is at most b, or after it.
LEMMA AroundBound ==
    ASSUME NEW a \in Nat, NEW b \in Int, a <= b
    PROVE  /\ \A c \in Int : b <= c => a <= c
           /\ \A c \in Nat : c > b => c > a /\ a < c
OBVIOUS

\* There is no index up to 0.
LEMMA NoIndex == \A i \in 1..0 : FALSE
OBVIOUS

\* The only index up to 1.
LEMMA OnlyIndex == \A i, j \in 1..1 : i = 1 /\ j = 1 /\ ~(i < j)
OBVIOUS

\* The indices of a list with one more entry.
LEMMA IndexAdded ==
    ASSUME NEW n \in Nat, NEW k, k = n + 1
    PROVE  \A i \in 1..k : i \in 1..n \/ i = n + 1
OBVIOUS

\* The indices of a list without its first entry, in the list with it.
LEMMA IndexShifted ==
    ASSUME NEW n \in Nat, NEW k, k = n - 1
    PROVE  /\ \A i \in 1..k : i + 1 \in 1..n /\ 1 < i + 1
           /\ \A i, j \in 1..k : i < j => i + 1 < j + 1
OBVIOUS

\* A set does not meet the set of one thing that it does not contain.
LEMMA ApartFromOne ==
    ASSUME NEW x, NEW S, NEW T, S = {x}, x \notin T
    PROVE  S \cap T = {}
OBVIOUS

-----------------------------------------------------------------------------
\* Sequences.

\* An element of a sequence.
LEMMA SeqElement ==
    ASSUME NEW S, NEW s \in Seq(S), NEW k \in 1..Len(s)
    PROVE  s[k] \in S
OBVIOUS

\* A sequence is a function, of its length.
LEMMA SeqLen ==
    ASSUME NEW S, NEW s \in Seq(S)
    PROVE  /\ Len(s) \in Nat
           /\ DOMAIN s = 1..Len(s)
           /\ s \in [1..Len(s) -> S]
OBVIOUS

\* The empty sequence is the one of length 0.
LEMMA SeqEmpty ==
    ASSUME NEW S
    PROVE  /\ <<>> \in Seq(S) /\ Len(<<>>) = 0
           /\ \A s \in Seq(S) : s # <<>> => Len(s) \in Nat \ {0}
OBVIOUS

\* A list without its first entry.
LEMMA SeqHeadTail ==
    ASSUME NEW S, NEW s \in Seq(S), s # <<>>
    PROVE  /\ Head(s) \in S
           /\ Tail(s) \in Seq(S) /\ Len(Tail(s)) = Len(s) - 1
           /\ \A k \in 1..Len(Tail(s)) : Tail(s)[k] = s[k + 1]
OBVIOUS

\* A list with one more entry.
LEMMA SeqAppend ==
    ASSUME NEW S, NEW s \in Seq(S), NEW e \in S
    PROVE  /\ Append(s, e) \in Seq(S) /\ Append(s, e) # <<>>
           /\ Len(Append(s, e)) = Len(s) + 1
           /\ Append(s, e)[Len(s) + 1] = e
           /\ \A k \in 1..Len(s) : Append(s, e)[k] = s[k]
OBVIOUS

\* A list with one entry changed.
LEMMA SeqSet ==
    ASSUME NEW S, NEW s \in Seq(S), NEW k \in 1..Len(s), NEW e \in S
    PROVE  LET r == [s EXCEPT ![k] = e]
           IN  /\ r \in Seq(S) /\ Len(r) = Len(s)
               /\ \A j \in 1..Len(s) : r[j] = IF j = k THEN e ELSE s[j]
OBVIOUS

\* Lists of the same entries are the same.
LEMMA SeqSame ==
    ASSUME NEW S, NEW s \in Seq(S), NEW r \in Seq(S),
           Len(s) = Len(r), \A k \in 1..Len(s) : s[k] = r[k]
    PROVE  s = r
OBVIOUS

\* A list and nothing more.
LEMMA SeqNothing ==
    ASSUME NEW S, NEW s \in Seq(S)
    PROVE  s \o <<>> = s
OBVIOUS

\* One list after another.
LEMMA SeqConcat ==
    ASSUME NEW S, NEW s \in Seq(S), NEW r \in Seq(S)
    PROVE  /\ s \o r \in Seq(S) /\ Len(s \o r) = Len(s) + Len(r)
           /\ \A k \in 1..(Len(s) + Len(r)) :
                (s \o r)[k] = IF k <= Len(s) THEN s[k] ELSE r[k - Len(s)]
OBVIOUS

\* A part of a list.
LEMMA SeqPart ==
    ASSUME NEW S, NEW s, NEW a \in Int, NEW b \in Int, \A k \in a..b : s[k] \in S
    PROVE  /\ SubSeq(s, a, b) \in Seq(S)
           /\ Len(SubSeq(s, a, b)) = IF a <= b THEN b - a + 1 ELSE 0
           /\ \A k \in 1..(b - a + 1) : SubSeq(s, a, b)[k] = s[a + k - 1]
OBVIOUS

\* The elements of a sequence that is not empty.
LEMMA FrontOfSeq ==
    ASSUME NEW S, NEW s \in Seq(S), s # <<>>
    PROVE  1 \in 1..Len(s) /\ s[1] \in S
<1>1. 1 \in 1..Len(s)
  BY SeqEmpty
<1> QED BY <1>1, SeqElement

\* The front of a sequence stays there when something is appended.
LEMMA AppendFront ==
    ASSUME NEW S, NEW s \in Seq(S), NEW e \in S, s # <<>>
    PROVE  Append(s, e) # <<>> /\ Append(s, e)[1] = s[1]
<1>1. 1 \in 1..Len(s)
  BY SeqEmpty
<1> QED BY <1>1, SeqAppend

\* A function on 1..n is a sequence of length n.
LEMMA FunctionIsSeq ==
    ASSUME NEW S, NEW n \in Nat, NEW f \in [1..n -> S]
    PROVE  f \in Seq(S) /\ Len(f) = n
<1>1. f \in Seq(S)
  OBVIOUS
<1>2. Len(f) \in Nat /\ DOMAIN f = 1..Len(f)
  BY <1>1, SeqLen
<1> QED BY <1>1, <1>2

\* The elements of a concatenation.
LEMMA ConcatElements ==
    ASSUME NEW S, NEW s \in Seq(S), NEW t \in Seq(S)
    PROVE  /\ s \o t \in Seq(S)
           /\ Len(s \o t) = Len(s) + Len(t)
           /\ \A i \in 1..Len(s) : (s \o t)[i] = s[i]
           /\ \A i \in 1..Len(t) : (s \o t)[Len(s) + i] = t[i]
<1>1. Len(s) \in Nat /\ Len(t) \in Nat
  BY SeqLen
<1>2. /\ s \o t \in Seq(S)
      /\ Len(s \o t) = Len(s) + Len(t)
      /\ \A i \in 1 .. Len(s) + Len(t) : (s \o t)[i] =
                     IF i <= Len(s) THEN s[i] ELSE t[i - Len(s)]
  BY SeqConcat
<1>3. \A i \in 1..Len(s) : (s \o t)[i] = s[i]
  BY <1>1, <1>2
<1>4. ASSUME NEW i \in 1..Len(t) PROVE (s \o t)[Len(s) + i] = t[i]
  <2>1. Len(s) + i \in 1..(Len(s) + Len(t)) /\ ~(Len(s) + i <= Len(s))
    BY <1>1
  <2>2. (Len(s) + i) - Len(s) = i
    BY <1>1
  <2>3. (s \o t)[Len(s) + i] = t[(Len(s) + i) - Len(s)]
    BY <1>2, <2>1
  <2> QED BY <2>2, <2>3
<1> QED BY <1>2, <1>3, <1>4

\* The elements of a part of a sequence.
LEMMA SubSeqElements ==
    ASSUME NEW S, NEW s \in Seq(S), NEW a \in 0..Len(s), NEW b \in a..Len(s)
    PROVE  /\ SubSeq(s, a + 1, b) \in Seq(S)
           /\ Len(SubSeq(s, a + 1, b)) = b - a
           /\ \A i \in 1..(b - a) : SubSeq(s, a + 1, b)[i] = s[a + i]
<1>1. Len(s) \in Nat
  BY SeqLen
<1>2. \A i \in (a + 1)..b : s[i] \in S
  BY <1>1, SeqElement
<1>3. /\ SubSeq(s, a + 1, b) \in Seq(S)
      /\ Len(SubSeq(s, a + 1, b)) = IF a + 1 <= b THEN b - (a + 1) + 1 ELSE 0
      /\ \A i \in 1 .. b - (a + 1) + 1 : SubSeq(s, a + 1, b)[i] = s[(a + 1) + i - 1]
  BY <1>1, <1>2, SeqPart
<1>4. b - (a + 1) + 1 = b - a
  BY <1>1
<1>5. ASSUME NEW i \in 1..(b - a) PROVE SubSeq(s, a + 1, b)[i] = s[a + i]
  <2>1. (a + 1) + i - 1 = a + i
    BY <1>1
  <2> QED BY <1>3, <1>4, <2>1
<1>6. Len(SubSeq(s, a + 1, b)) = b - a
  BY <1>1, <1>3
<1> QED BY <1>3, <1>5, <1>6

\* What is left of a sequence when its first a elements are removed.
LEMMA SuffixElements ==
    ASSUME NEW S, NEW s \in Seq(S), NEW a \in 0..Len(s), NEW t,
           t = SubSeq(s, a + 1, Len(s))
    PROVE  /\ t \in Seq(S)
           /\ Len(t) = Len(s) - a
           /\ \A i \in 1..(Len(s) - a) : t[i] = s[a + i]
<1>1. Len(s) \in Nat
  BY SeqLen
<1>2. Len(s) \in a..Len(s)
  BY <1>1
<1> QED BY <1>2, SubSeqElements
=============================================================================
