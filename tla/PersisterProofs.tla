--------------------------- MODULE PersisterProofs ---------------------------
(***************************************************************************)
(* The chunk files of a Persister, for every log, sizes of entries, clock  *)
(* and number of kills and reboots.                                        *)
(***************************************************************************)
EXTENDS Persister, OrderFacts, SequenceTheorems

-----------------------------------------------------------------------------
(***************************************************************************)
(* Names.  The function Digits is what its definition says, the digits of  *)
(* a number are numbers, and tell which number it is.                      *)
(***************************************************************************)
Tenth(n) == n \div 10

AreDigitsTo(f, n) ==
    f = [k \in 0 .. n |-> IF k < 10 THEN <<k>> ELSE Append(f[Tenth(k)], k % 10)]

LEMMA TenthIsLess ==
    ASSUME NEW n \in Nat
    PROVE  /\ Tenth(n) \in Nat /\ Tenth(n) <= n
           /\ n >= 10 => Tenth(n) < n
           /\ n % 10 \in 0 .. 9
           /\ n = 10 * Tenth(n) + (n % 10)
BY DEF Tenth

LEMMA DigitsExist ==
    ASSUME NEW n \in Nat
    PROVE  \E f : AreDigitsTo(f, n)
<1> DEFINE Bad == {m \in Nat : ~ \E f : AreDigitsTo(f, m)}
<1> SUFFICES ASSUME n \in Bad PROVE FALSE
  OBVIOUS
<1>1. PICK m \in Bad : \A k \in Bad : m <= k
  BY LeastOf
<1>2. m # 0
  <2> DEFINE f == [k \in 0 .. 0 |-> <<k>>]
  <2>1. AreDigitsTo(f, 0)
    BY DEF AreDigitsTo
  <2> QED BY <2>1
<1>3. m - 1 \in Nat /\ m - 1 \notin Bad
  BY <1>1, <1>2
<1>4. PICK f : AreDigitsTo(f, m - 1)
  BY <1>3
<1> DEFINE g == [k \in 0 .. m |-> IF k = m THEN IF k < 10 THEN <<k>> ELSE Append(f[Tenth(k)], k % 10)
                                  ELSE f[k]]
<1>5. AreDigitsTo(g, m)
  <2>1. \A k \in 0 .. m : k >= 10 => Tenth(k) \in 0 .. m - 1
    BY TenthIsLess
  <2>2. \A k \in 0 .. m : k >= 10 => g[Tenth(k)] = f[Tenth(k)]
    BY <2>1
  <2>3. \A k \in 0 .. m - 1 : f[k] = IF k < 10 THEN <<k>> ELSE Append(f[Tenth(k)], k % 10)
    BY <1>4 DEF AreDigitsTo
  <2>4. \A k \in 0 .. m : g[k] = IF k < 10 THEN <<k>> ELSE Append(g[Tenth(k)], k % 10)
    <3> SUFFICES ASSUME NEW k \in 0 .. m
                 PROVE  g[k] = IF k < 10 THEN <<k>> ELSE Append(g[Tenth(k)], k % 10)
      OBVIOUS
    <3>1. g[k] = IF k < 10 THEN <<k>> ELSE Append(f[Tenth(k)], k % 10)
      BY <2>3
    <3> HIDE DEF g
    <3> QED BY <2>2, <3>1
  <2>5. g = [k \in 0 .. m |-> g[k]]
    OBVIOUS
  <2> HIDE DEF g
  <2> QED BY <2>4, <2>5 DEF AreDigitsTo
<1> QED BY <1>1, <1>5

LEMMA DigitsAgree ==
    ASSUME NEW m \in Nat, NEW n \in Nat, m <= n, NEW f, NEW g,
           AreDigitsTo(f, m), AreDigitsTo(g, n)
    PROVE  \A k \in 0 .. m : f[k] = g[k]
<1> DEFINE Bad == {k \in 0 .. m : f[k] # g[k]}
<1> SUFFICES ASSUME Bad # {} PROVE FALSE
  OBVIOUS
<1>1. Bad \subseteq Nat
  OBVIOUS
<1>2. PICK k \in Bad : \A j \in Bad : k <= j
  <2> HIDE DEF Bad
  <2> QED BY <1>1, LeastOf
<1>3. k \in 0 .. m /\ k \in 0 .. n /\ f[k] # g[k]
  OBVIOUS
<1>4. \A j \in 0 .. m : j < k => f[j] = g[j]
  BY <1>2
<1> HIDE DEF Bad
<1>5. f[k] = IF k < 10 THEN <<k>> ELSE Append(f[Tenth(k)], k % 10)
  BY <1>3 DEF AreDigitsTo
<1>6. g[k] = IF k < 10 THEN <<k>> ELSE Append(g[Tenth(k)], k % 10)
  BY <1>3 DEF AreDigitsTo
<1>7. k >= 10 => f[Tenth(k)] = g[Tenth(k)]
  <2>1. k \in Nat
    BY <1>3
  <2>2. Tenth(k) \in Nat /\ (k >= 10 => Tenth(k) < k)
    BY <2>1, TenthIsLess
  <2> QED BY <1>3, <1>4, <2>2
<1> QED BY <1>3, <1>5, <1>6, <1>7

LEMMA DigitsDef ==
    ASSUME NEW n \in Nat
    PROVE  Digits[n] = IF n < 10 THEN <<n>> ELSE Append(Digits[Tenth(n)], n % 10)
<1> DEFINE To(k) == CHOOSE f : AreDigitsTo(f, k)
           G == [k \in Nat |-> To(k)[k]]
           AreDigits(f) == f = [k \in Nat |-> IF k < 10 THEN <<k>> ELSE Append(f[Tenth(k)], k % 10)]
<1>1. \A k \in Nat : AreDigitsTo(To(k), k)
  BY DigitsExist
<1>2. \A k \in Nat : G[k] = To(k)[k]
  OBVIOUS
<1>3. \A k \in Nat : G[k] = IF k < 10 THEN <<k>> ELSE Append(G[Tenth(k)], k % 10)
  <2> HIDE DEF To, G
  <2> SUFFICES ASSUME NEW k \in Nat
               PROVE  G[k] = IF k < 10 THEN <<k>> ELSE Append(G[Tenth(k)], k % 10)
    OBVIOUS
  <2>1. To(k)[k] = IF k < 10 THEN <<k>> ELSE Append(To(k)[Tenth(k)], k % 10)
    <3>1. k \in 0 .. k /\ AreDigitsTo(To(k), k)
      BY <1>1
    <3> QED BY <3>1 DEF AreDigitsTo
  <2>2. Tenth(k) \in Nat /\ Tenth(k) <= k
    BY TenthIsLess
  <2>3. AreDigitsTo(To(Tenth(k)), Tenth(k)) /\ AreDigitsTo(To(k), k)
    BY <1>1, <2>2
  <2>4. To(Tenth(k))[Tenth(k)] = To(k)[Tenth(k)]
    BY <2>2, <2>3, DigitsAgree
  <2> QED BY <1>2, <2>1, <2>2, <2>4
<1>4. AreDigits(G)
  <2>1. G = [k \in Nat |-> G[k]]
    OBVIOUS
  <2> HIDE DEF G
  <2> QED BY <1>3, <2>1
<1>5. Digits = CHOOSE f : AreDigits(f)
  BY DEF Digits, Tenth
<1>6. AreDigits(Digits)
  <2> HIDE DEF AreDigits, G
  <2> QED BY <1>4, <1>5
<1> QED BY <1>6

LEMMA DigitsType ==
    ASSUME NEW n \in Nat
    PROVE  Digits[n] \in Seq(Nat) /\ Len(Digits[n]) >= 1
<1> DEFINE Typed(k) == Digits[k] \in Seq(Nat) /\ Len(Digits[k]) >= 1
           Bad == {k \in Nat : ~ Typed(k)}
<1> SUFFICES ASSUME n \in Bad PROVE FALSE
  OBVIOUS
<1>1. PICK m \in Bad : \A k \in Bad : m <= k
  BY LeastOf
<1>2. m \in Nat /\ ~ Typed(m)
  OBVIOUS
<1>3. \A k \in Nat : k < m => Typed(k)
  BY <1>1
<1> HIDE DEF Bad
<1>4. Digits[m] = IF m < 10 THEN <<m>> ELSE Append(Digits[Tenth(m)], m % 10)
  BY <1>2, DigitsDef
<1>5. CASE m < 10
  <2>1. <<m>> \in Seq(Nat) /\ Len(<<m>>) = 1
    BY <1>2
  <2> QED BY <1>2, <1>4, <1>5, <2>1
<1>6. CASE ~ (m < 10)
  <2>1. Tenth(m) \in Nat /\ Tenth(m) < m /\ m % 10 \in Nat
    BY <1>2, <1>6, TenthIsLess
  <2>2. Digits[Tenth(m)] \in Seq(Nat) /\ Len(Digits[Tenth(m)]) >= 1
    BY <1>3, <2>1
  <2>3. Digits[m] = Append(Digits[Tenth(m)], m % 10)
    BY <1>4, <1>6
  <2>4. Digits[m] \in Seq(Nat) /\ Len(Digits[m]) = Len(Digits[Tenth(m)]) + 1
    BY <2>1, <2>2, <2>3, AppendProperties
  <2> QED BY <1>2, <2>2, <2>4
<1> QED BY <1>5, <1>6

LEMMA DigitsTell ==
    ASSUME NEW n \in Nat, NEW m \in Nat, Digits[n] = Digits[m]
    PROVE  n = m
<1> DEFINE Bad == {k \in Nat : \E j \in Nat : Digits[k] = Digits[j] /\ k # j}
<1> SUFFICES ASSUME n \in Bad PROVE FALSE
  OBVIOUS
<1>1. PICK k \in Bad : \A j \in Bad : k <= j
  BY LeastOf
<1>2. PICK j \in Nat : Digits[k] = Digits[j] /\ k # j
  OBVIOUS
<1>3. k \in Nat
  OBVIOUS
<1>4. \A i, l \in Nat : i < k /\ Digits[i] = Digits[l] => i = l
  BY <1>1
<1> HIDE DEF Bad
<1>5. /\ Tenth(k) \in Nat /\ k % 10 \in Nat /\ k = 10 * Tenth(k) + (k % 10)
      /\ k >= 10 => Tenth(k) < k
  BY <1>3, TenthIsLess
<1>6. Tenth(j) \in Nat /\ j % 10 \in Nat /\ j = 10 * Tenth(j) + (j % 10)
  BY <1>2, TenthIsLess
<1>7. Digits[Tenth(k)] \in Seq(Nat) /\ Digits[Tenth(j)] \in Seq(Nat)
  BY <1>5, <1>6, DigitsType
<1> DEFINE Longer(i) == Append(Digits[Tenth(i)], i % 10)
<1>8. Digits[k] = IF k < 10 THEN <<k>> ELSE Longer(k)
  BY <1>3, DigitsDef
<1>9. Digits[j] = IF j < 10 THEN <<j>> ELSE Longer(j)
  BY <1>2, DigitsDef
<1>10. Len(Digits[Tenth(k)]) >= 1 /\ Len(Digits[Tenth(j)]) >= 1
  BY <1>5, <1>6, DigitsType
<1>11. Len(Longer(k)) > 1 /\ Len(Longer(j)) > 1
  <2>1. \A e \in Nat : \A s \in Seq(Nat) : Len(Append(s, e)) = Len(s) + 1
    BY AppendProperties
  <2>2. Len(Append(Digits[Tenth(k)], k % 10)) = Len(Digits[Tenth(k)]) + 1
    BY <1>5, <1>7, <2>1, Zenon
  <2>3. Len(Append(Digits[Tenth(j)], j % 10)) = Len(Digits[Tenth(j)]) + 1
    BY <1>6, <1>7, <2>1, Zenon
  <2>4. Len(Digits[Tenth(k)]) \in Nat /\ Len(Digits[Tenth(j)]) \in Nat
    BY <1>7
  <2>5. Len(Longer(k)) = Len(Digits[Tenth(k)]) + 1 /\ Len(Longer(j)) = Len(Digits[Tenth(j)]) + 1
    BY <2>2, <2>3, Zenon
  <2> HIDE DEF Longer
  <2> QED BY <1>10, <2>4, <2>5
<1>12. Longer(k) = Longer(j) => Digits[Tenth(k)] = Digits[Tenth(j)] /\ k % 10 = j % 10
  <2>1. \A e, f \in Nat : \A s, u \in Seq(Nat) : Append(s, e) = Append(u, f) => s = u /\ e = f
    BY AppendInjective
  <2>2. PICK e \in Nat : e = k % 10
    BY <1>5
  <2>3. PICK f \in Nat : f = j % 10
    BY <1>6
  <2>4. PICK s \in Seq(Nat) : s = Digits[Tenth(k)]
    BY <1>7
  <2>5. PICK u \in Seq(Nat) : u = Digits[Tenth(j)]
    BY <1>7
  <2>6. Longer(k) = Append(s, e) /\ Longer(j) = Append(u, f)
    BY <2>2, <2>3, <2>4, <2>5, Zenon
  <2>7. Append(s, e) = Append(u, f) => s = u /\ e = f
    BY <2>1, Zenon
  <2> HIDE DEF Longer
  <2> QED BY <2>2, <2>3, <2>4, <2>5, <2>6, <2>7, Zenon
<1>13. Len(<<k>>) = 1 /\ Len(<<j>>) = 1 /\ (<<k>> = <<j>> => k = j)
  OBVIOUS
<1> HIDE DEF Longer
<1>14. ~ (k < 10) /\ ~ (j < 10)
  <2>1. CASE k < 10 /\ j < 10
    BY <1>2, <1>8, <1>9, <1>13, <2>1
  <2>2. CASE k < 10 /\ ~ (j < 10)
    <3>1. Longer(j) = <<k>>
      BY <1>2, <1>8, <1>9, <2>2
    <3> QED BY <1>11, <1>13, <3>1
  <2>3. CASE ~ (k < 10) /\ j < 10
    <3>1. Longer(k) = <<j>>
      BY <1>2, <1>8, <1>9, <2>3
    <3> QED BY <1>11, <1>13, <3>1
  <2> QED BY <2>1, <2>2, <2>3
<1>15. Digits[Tenth(k)] = Digits[Tenth(j)] /\ k % 10 = j % 10
  BY <1>2, <1>8, <1>9, <1>12, <1>14
<1>16. Tenth(k) = Tenth(j)
  <2>1. k >= 10
    BY <1>3, <1>14
  <2> QED BY <1>4, <1>5, <1>6, <1>15, <2>1
<1> QED BY <1>2, <1>5, <1>6, <1>15, <1>16

(***************************************************************************)
(* The order of the names is strict and total.                             *)
(***************************************************************************)
FirstDiffers(a, b, i) ==
    /\ i \in 1 .. Len(b)
    /\ i - 1 <= Len(a)
    /\ \A j \in 1 .. (i - 1) : a[j] = b[j]
    /\ i > Len(a) \/ a[i] < b[i]

LEMMA NameBeforeDef ==
    ASSUME NEW t, NEW u
    PROVE  NameBefore(t, u) <=> \E i \in 1 .. Len(Digits[u]) : FirstDiffers(Digits[t], Digits[u], i)
BY DEF NameBefore, FirstDiffers

LEMMA DiffersNotFromItself ==
    ASSUME NEW a \in Seq(Nat), NEW i, FirstDiffers(a, a, i)
    PROVE  FALSE
BY DEF FirstDiffers

LEMMA DiffersTransitive ==
    ASSUME NEW a \in Seq(Nat), NEW b \in Seq(Nat), NEW c \in Seq(Nat), NEW i, NEW j,
           FirstDiffers(a, b, i), FirstDiffers(b, c, j)
    PROVE  \E k : FirstDiffers(a, c, k)
<1> USE DEF FirstDiffers
<1>1. i \in Nat /\ j \in Nat /\ Len(a) \in Nat /\ Len(b) \in Nat /\ Len(c) \in Nat
  BY SMTT(30)
<1>2. CASE i <= j
  <2>1. i \in 1 .. Len(c) /\ i - 1 <= Len(a)
    BY <1>1, <1>2
  <2>2. \A k \in 1 .. (i - 1) : a[k] = c[k]
    BY <1>1, <1>2
  <2>3. i > Len(a) \/ a[i] < c[i]
    <3> SUFFICES ASSUME ~ (i > Len(a)) PROVE a[i] < c[i]
      OBVIOUS
    <3>1. i \in 1 .. Len(a) /\ i \in 1 .. Len(b) /\ a[i] < b[i]
      BY <1>1
    <3>2. a[i] \in Nat /\ b[i] \in Nat /\ c[i] \in Nat
      <4> HIDE DEF FirstDiffers
      <4> QED BY <2>1, <3>1, SMTT(30)
    <3>3. i < j => b[i] = c[i]
      BY <1>1
    <3>4. i = j => b[i] < c[i]
      BY <1>1, <3>1
    <3> HIDE DEF FirstDiffers
    <3>5. CASE i < j
      BY <3>1, <3>3, <3>5
    <3>6. CASE i = j
      BY <3>1, <3>2, <3>4, <3>6, SMTT(30)
    <3> QED BY <1>1, <1>2, <3>5, <3>6
  <2> QED BY <2>1, <2>2, <2>3
<1>3. CASE j < i
  <2>1. j \in 1 .. Len(c) /\ j - 1 <= Len(a)
    BY <1>1, <1>3
  <2>2. \A k \in 1 .. (j - 1) : a[k] = c[k]
    BY <1>1, <1>3
  <2>3. a[j] < c[j]
    <3>1. b[j] < c[j] /\ a[j] = b[j]
      BY <1>1, <1>3
    <3> QED BY <3>1
  <2> QED BY <2>1, <2>2, <2>3
<1> QED BY <1>1, <1>2, <1>3

LEMMA DiffersTotal ==
    ASSUME NEW a \in Seq(Nat), NEW b \in Seq(Nat), a # b
    PROVE  \E i : FirstDiffers(a, b, i) \/ FirstDiffers(b, a, i)
<1>1. Len(a) \in Nat /\ Len(b) \in Nat
  OBVIOUS
<1> DEFINE Off == {i \in Nat \ {0} : i > Len(a) \/ i > Len(b) \/ a[i] # b[i]}
<1>2. Off \subseteq Nat
  OBVIOUS
<1>3. Off # {}
  <2>1. Len(a) + 1 \in Off
    BY <1>1
  <2> QED BY <2>1
<1>4. PICK i \in Off : \A j \in Off : i <= j
  <2> HIDE DEF Off
  <2> QED BY <1>2, <1>3, LeastOf
<1>5. i \in Nat /\ i >= 1 /\ (i > Len(a) \/ i > Len(b) \/ a[i] # b[i])
  OBVIOUS
<1>6. \A j \in 1 .. (i - 1) : j <= Len(a) /\ j <= Len(b) /\ a[j] = b[j]
  BY <1>1, <1>4, <1>5
<1> HIDE DEF Off
<1>7. i - 1 <= Len(a) /\ i - 1 <= Len(b)
  BY <1>1, <1>5, <1>6
<1>8. CASE i > Len(a) /\ i > Len(b)
  <2>1. Len(a) = Len(b) /\ \A j \in 1 .. Len(a) : a[j] = b[j]
    BY <1>1, <1>5, <1>6, <1>7, <1>8
  <2> QED BY <2>1, SeqEqual
<1>9. CASE i > Len(a) /\ ~ (i > Len(b))
  <2>1. FirstDiffers(a, b, i)
    BY <1>1, <1>5, <1>6, <1>7, <1>9 DEF FirstDiffers
  <2> QED BY <2>1
<1>10. CASE ~ (i > Len(a)) /\ i > Len(b)
  <2>1. FirstDiffers(b, a, i)
    BY <1>1, <1>5, <1>6, <1>7, <1>10 DEF FirstDiffers
  <2> QED BY <2>1
<1>11. CASE ~ (i > Len(a)) /\ ~ (i > Len(b))
  <2>1. i \in 1 .. Len(a) /\ i \in 1 .. Len(b)
    BY <1>1, <1>5, <1>11
  <2>2. a[i] \in Nat /\ b[i] \in Nat /\ a[i] # b[i]
    BY <1>5, <1>11, <2>1
  <2>3. a[i] < b[i] \/ b[i] < a[i]
    BY <2>2
  <2> QED BY <1>6, <1>7, <2>1, <2>3 DEF FirstDiffers
<1> QED BY <1>8, <1>9, <1>10, <1>11

LEMMA TimeType == Time \subseteq Nat /\ BootTime \in Time
BY PersisterAssumption DEF Time

(* No name comes before itself.                                            *)
LEMMA NotBeforeItself ==
    ASSUME NEW t \in Time
    PROVE  <<t, t>> \notin EarlierName
<1>1. t \in Nat /\ Digits[t] \in Seq(Nat)
  BY TimeType, DigitsType
<1> QED BY <1>1, NameBeforeDef, DiffersNotFromItself DEF EarlierName

LEMMA NamesTransitive ==
    ASSUME NEW t \in Time, NEW u \in Time, NEW v \in Time,
           <<t, u>> \in EarlierName, <<u, v>> \in EarlierName
    PROVE  <<t, v>> \in EarlierName
<1>1. Digits[t] \in Seq(Nat) /\ Digits[u] \in Seq(Nat) /\ Digits[v] \in Seq(Nat)
  BY TimeType, DigitsType
<1>2. NameBefore(t, u) /\ NameBefore(u, v)
  BY DEF EarlierName
<1>3. PICK i, j : FirstDiffers(Digits[t], Digits[u], i) /\ FirstDiffers(Digits[u], Digits[v], j)
  BY <1>2, NameBeforeDef
<1>4. PICK k : FirstDiffers(Digits[t], Digits[v], k)
  BY <1>1, <1>3, DiffersTransitive
<1>5. k \in 1 .. Len(Digits[v])
  BY <1>4 DEF FirstDiffers
<1> QED BY <1>4, <1>5, NameBeforeDef DEF EarlierName

(* Two times are two names, and one of them comes before the other.        *)
LEMMA NamesTotal ==
    ASSUME NEW t \in Time, NEW u \in Time, t # u
    PROVE  <<t, u>> \in EarlierName \/ <<u, t>> \in EarlierName
<1>1. t \in Nat /\ u \in Nat /\ Digits[t] \in Seq(Nat) /\ Digits[u] \in Seq(Nat)
  BY TimeType, DigitsType
<1>2. Digits[t] # Digits[u]
  BY <1>1, DigitsTell
<1>3. PICK i : FirstDiffers(Digits[t], Digits[u], i) \/ FirstDiffers(Digits[u], Digits[t], i)
  BY <1>1, <1>2, DiffersTotal
<1>4. NameBefore(t, u) \/ NameBefore(u, t)
  BY <1>3, NameBeforeDef DEF FirstDiffers
<1> QED BY <1>4 DEF EarlierName

-----------------------------------------------------------------------------
(***************************************************************************)
(* Sorting the names.  Every place of the sorted list has one file; if the *)
(* files were flushed in the order of their names, the list is the list of *)
(* flushes.                                                                *)
(***************************************************************************)
LEMMA FilesFinite ==
    ASSUME NEW S \in SUBSET Time
    PROVE  /\ IsFiniteSet(S) /\ IsOrder(EarlierName, S) /\ Cardinality(S) \in Nat
           /\ \A t \in S : /\ IsFiniteSet(Preceding(EarlierName, S, t))
                           /\ Cardinality(Preceding(EarlierName, S, t)) \in Nat
<1>1. IsFiniteSet(Time)
  BY PersisterAssumption, FS_Interval DEF Time
<1>2. IsFiniteSet(S)
  BY <1>1, FS_Subset
<1>3. IsOrder(EarlierName, S)
  BY NotBeforeItself, NamesTransitive, NamesTotal DEF IsOrder
<1> QED BY <1>2, <1>3, PrecedingFinite

LEMMA RankOfFlush ==
    ASSUME NEW q \in Seq(Time), \A i, j \in 1 .. Len(q) : i < j => <<q[i], q[j]>> \in EarlierName,
           NEW S, S = {q[i] : i \in 1 .. Len(q)}
    PROVE  /\ S \in SUBSET Time /\ Cardinality(S) = Len(q)
           /\ \A k \in 1 .. Len(q) : Cardinality(Preceding(EarlierName, S, q[k])) = k - 1
<1> DEFINE n == Len(q)
           First(k) == {q[i] : i \in 1 .. k}
<1>1. n \in Nat /\ \A i \in 1 .. n : q[i] \in Time
  OBVIOUS
<1>2. S \in SUBSET Time
  BY <1>1
<1>3. \A i, j \in 1 .. n : <<q[i], q[j]>> \in EarlierName <=> i < j
  <2> SUFFICES ASSUME NEW i \in 1 .. n, NEW j \in 1 .. n, <<q[i], q[j]>> \in EarlierName
               PROVE  i < j
    OBVIOUS
  <2>1. i # j
    BY <1>1, NotBeforeItself
  <2>2. ~ (j < i)
    <3> SUFFICES ASSUME j < i PROVE FALSE
      OBVIOUS
    <3>1. <<q[j], q[i]>> \in EarlierName
      OBVIOUS
    <3> QED BY <1>1, <3>1, NamesTransitive, NotBeforeItself
  <2> QED BY <1>1, <2>1, <2>2
<1>4. \A k \in 0 .. n : Cardinality(First(k)) = k
  <2> SUFFICES ASSUME NEW k \in 0 .. n PROVE Cardinality(First(k)) = k
    OBVIOUS
  <2> DEFINE f == [i \in 1 .. k |-> q[i]]
  <2>1. f \in Injection(1 .. k, First(k)) /\ f \in Surjection(1 .. k, First(k))
    <3>1. \A i, j \in 1 .. k : q[i] = q[j] => i = j
      <4> SUFFICES ASSUME NEW i \in 1 .. k, NEW j \in 1 .. k, q[i] = q[j], i # j PROVE FALSE
        OBVIOUS
      <4>1. i \in 1 .. n /\ j \in 1 .. n /\ (i < j \/ j < i)
        BY <1>1
      <4> QED BY <1>1, <1>3, <4>1, NotBeforeItself
    <3> QED BY <3>1 DEF Injection, IsInjective, Surjection
  <2>2. First(k) \in SUBSET Time
    BY <1>1
  <2>3. IsFiniteSet(First(k))
    BY <2>2, FilesFinite
  <2>4. Cardinality(1 .. k) = k
    BY <1>1, FS_Interval
  <2> HIDE DEF First, f
  <2> QED BY <2>1, <2>3, <2>4, FS_Injection
<1>5. \A k \in 1 .. n : Preceding(EarlierName, S, q[k]) = First(k - 1)
  <2> SUFFICES ASSUME NEW k \in 1 .. n PROVE Preceding(EarlierName, S, q[k]) = First(k - 1)
    OBVIOUS
  <2>1. \A u \in S : <<u, q[k]>> \in EarlierName <=> \E i \in 1 .. k - 1 : u = q[i]
    <3> SUFFICES ASSUME NEW i \in 1 .. n
                 PROVE  <<q[i], q[k]>> \in EarlierName <=> \E j \in 1 .. k - 1 : q[i] = q[j]
      OBVIOUS
    <3>1. i < k => i \in 1 .. k - 1
      BY <1>1
    <3>2. \A j \in 1 .. k - 1 : j \in 1 .. n /\ j < k
      BY <1>1
    <3> QED BY <1>3, <3>1, <3>2
  <2>2. \A i \in 1 .. k - 1 : q[i] \in S
    BY <1>1
  <2> QED BY <2>1, <2>2 DEF Preceding
<1>6. Cardinality(S) = n
  BY <1>1, <1>4
<1>7. \A k \in 1 .. n : Cardinality(Preceding(EarlierName, S, q[k])) = k - 1
  <2> SUFFICES ASSUME NEW k \in 1 .. n PROVE Cardinality(Preceding(EarlierName, S, q[k])) = k - 1
    OBVIOUS
  <2> HIDE DEF First
  <2>1. k - 1 \in 0 .. n
    BY <1>1
  <2>2. Preceding(EarlierName, S, q[k]) = First(k - 1)
    BY <1>5
  <2> QED BY <1>4, <2>1, <2>2
<1> QED BY <1>2, <1>6, <1>7

NamesOf(cs) ==
    [k \in 1 .. Cardinality(DOMAIN cs) |->
        CHOOSE t \in DOMAIN cs : Cardinality(Preceding(EarlierName, DOMAIN cs, t)) = k - 1]

InOrder(q) == \A i, j \in DOMAIN q : i < j => <<q[i], q[j]>> \in EarlierName

LEMMA NamesType ==
    ASSUME NEW cs, DOMAIN cs \subseteq Time
    PROVE  /\ Cardinality(DOMAIN cs) \in Nat
           /\ NamesOf(cs) \in [1 .. Cardinality(DOMAIN cs) -> DOMAIN cs]
<1> DEFINE S == DOMAIN cs
<1>1. S \in SUBSET Time
  OBVIOUS
<1> HIDE DEF S
<1>2. Cardinality(S) \in Nat
  BY <1>1, FilesFinite
<1>3. \A k \in 1 .. Cardinality(S) : (CHOOSE t \in S : Cardinality(Preceding(EarlierName, S, t)) = k - 1) \in S
  BY <1>1, FilesFinite, PlaceIsTaken
<1> QED BY <1>2, <1>3 DEF NamesOf, S

LEMMA NamesAreFlushes ==
    ASSUME NEW cs, NEW q \in Seq(Time), InOrder(q), DOMAIN cs = ToSet(q)
    PROVE  NamesOf(cs) = q
<1> DEFINE S == DOMAIN cs
<1>1. DOMAIN q = 1 .. Len(q) /\ Len(q) \in Nat
  OBVIOUS
<1>2. S = {q[i] : i \in 1 .. Len(q)}
  BY <1>1 DEF ToSet
<1>3. /\ S \in SUBSET Time /\ Cardinality(S) = Len(q)
      /\ \A k \in 1 .. Len(q) : Cardinality(Preceding(EarlierName, S, q[k])) = k - 1
  <2>1. \A i, j \in 1 .. Len(q) : i < j => <<q[i], q[j]>> \in EarlierName
    BY <1>1 DEF InOrder
  <2> HIDE DEF S
  <2> QED BY <1>1, <1>2, <2>1, RankOfFlush
<1>4. NamesOf(cs) = [k \in 1 .. Len(q) |-> CHOOSE t \in S : Cardinality(Preceding(EarlierName, S, t)) = k - 1]
  BY <1>3 DEF NamesOf
<1>5. \A k \in 1 .. Len(q) : (CHOOSE t \in S : Cardinality(Preceding(EarlierName, S, t)) = k - 1) = q[k]
  <2> SUFFICES ASSUME NEW k \in 1 .. Len(q)
               PROVE  (CHOOSE t \in S : Cardinality(Preceding(EarlierName, S, t)) = k - 1) = q[k]
    OBVIOUS
  <2>1. q[k] \in S /\ Cardinality(Preceding(EarlierName, S, q[k])) = k - 1
    BY <1>2, <1>3
  <2>2. \A t \in S : Cardinality(Preceding(EarlierName, S, t)) = k - 1 => t = q[k]
    BY <1>3, <2>1, FilesFinite, PlaceTells
  <2> HIDE DEF S
  <2> QED BY <2>1, <2>2
<1>6. NamesOf(cs) = [k \in 1 .. Len(q) |-> q[k]]
  BY <1>4, <1>5
<1> QED BY <1>1, <1>6

-----------------------------------------------------------------------------
(***************************************************************************)
(* FlattenSeq.                                                             *)
(***************************************************************************)
FlattensTo(f, ss, n) ==
    f = [i \in 1 .. n |-> IF i = 1 THEN ss[i] ELSE f[i - 1] \o ss[i]]

LEMMA FlattenExists ==
    ASSUME NEW ss, NEW n \in Nat
    PROVE  \E f : FlattensTo(f, ss, n)
<1> DEFINE Bad == {m \in Nat : ~ \E f : FlattensTo(f, ss, m)}
<1> SUFFICES ASSUME n \in Bad PROVE FALSE
  OBVIOUS
<1>1. PICK m \in Bad : \A k \in Bad : m <= k
  BY LeastOf
<1>2. m # 0
  <2> DEFINE f == [i \in 1 .. 0 |-> ss[i]]
  <2>1. FlattensTo(f, ss, 0)
    BY DEF FlattensTo
  <2> QED BY <2>1
<1>3. m \in Nat /\ m - 1 \in Nat /\ m - 1 \notin Bad
  BY <1>1, <1>2
<1>4. PICK f : FlattensTo(f, ss, m - 1)
  BY <1>3
<1> DEFINE g == [i \in 1 .. m |-> IF i = m THEN IF i = 1 THEN ss[i] ELSE f[i - 1] \o ss[i] ELSE f[i]]
<1>5. FlattensTo(g, ss, m)
  <2>1. \A i \in 1 .. m : i # 1 => i - 1 \in 1 .. m - 1 /\ i - 1 # m
    BY <1>3
  <2>2. \A i \in 1 .. m : i # 1 => g[i - 1] = f[i - 1]
    BY <1>3, <2>1
  <2>3. \A i \in 1 .. m - 1 : f[i] = IF i = 1 THEN ss[i] ELSE f[i - 1] \o ss[i]
    BY <1>4 DEF FlattensTo
  <2>4. \A i \in 1 .. m : g[i] = IF i = 1 THEN ss[i] ELSE g[i - 1] \o ss[i]
    <3> SUFFICES ASSUME NEW i \in 1 .. m
                 PROVE  g[i] = IF i = 1 THEN ss[i] ELSE g[i - 1] \o ss[i]
      OBVIOUS
    <3>1. i = m \/ i \in 1 .. m - 1
      BY <1>3
    <3>2. g[i] = IF i = 1 THEN ss[i] ELSE f[i - 1] \o ss[i]
      BY <2>3, <3>1
    <3> HIDE DEF g
    <3> QED BY <2>2, <3>2
  <2>5. g = [i \in 1 .. m |-> g[i]]
    OBVIOUS
  <2> HIDE DEF g
  <2> QED BY <2>4, <2>5 DEF FlattensTo
<1> QED BY <1>1, <1>5

LEMMA FlattenDef ==
    ASSUME NEW ss, Len(ss) \in Nat \ {0}
    PROVE  \E f : FlattensTo(f, ss, Len(ss)) /\ FlattenSeq(ss) = f[Len(ss)]
<1> DEFINE f == CHOOSE f : FlattensTo(f, ss, Len(ss))
<1>1. FlattensTo(f, ss, Len(ss))
  BY FlattenExists
<1>2. FlattenSeq(ss) = f[Len(ss)]
  BY DEF FlattenSeq, FlattensTo
<1> QED BY <1>1, <1>2

LEMMA FlattenEmpty == FlattenSeq(<<>>) = <<>>
BY DEF FlattenSeq

LEMMA FlattenType ==
    ASSUME NEW S, NEW ss \in Seq(Seq(S))
    PROVE  FlattenSeq(ss) \in Seq(S)
<1>1. CASE Len(ss) = 0
  <2>1. ss = <<>>
    BY <1>1
  <2>2. FlattenSeq(ss) = <<>>
    BY <2>1, FlattenEmpty, Zenon
  <2> QED BY <2>2
<1>2. CASE Len(ss) # 0
  <2>1. Len(ss) \in Nat \ {0}
    BY <1>2
  <2>2. PICK f : FlattensTo(f, ss, Len(ss)) /\ FlattenSeq(ss) = f[Len(ss)]
    BY <2>1, FlattenDef
  <2> DEFINE Bad == {i \in 1 .. Len(ss) : f[i] \notin Seq(S)}
  <2> SUFFICES ASSUME Bad # {} PROVE FALSE
    BY <2>1, <2>2
  <2>3. Bad \subseteq Nat
    OBVIOUS
  <2>4. PICK i \in Bad : \A j \in Bad : i <= j
    <3> HIDE DEF Bad
    <3> QED BY <2>3, LeastOf
  <2>5. i \in 1 .. Len(ss) /\ f[i] \notin Seq(S)
    OBVIOUS
  <2>6. \A j \in 1 .. Len(ss) : j < i => f[j] \in Seq(S)
    BY <2>4
  <2> HIDE DEF Bad
  <2>7. f[i] = IF i = 1 THEN ss[i] ELSE f[i - 1] \o ss[i]
    BY <2>2, <2>5 DEF FlattensTo
  <2>8. ss[i] \in Seq(S)
    BY <2>5
  <2>9. i # 1 => f[i - 1] \in Seq(S)
    <3>1. i # 1 => i - 1 \in 1 .. Len(ss) /\ i - 1 < i
      BY <2>1, <2>5
    <3> QED BY <2>6, <3>1
  <2> QED BY <2>5, <2>7, <2>8, <2>9, ConcatProperties
<1> QED BY <1>1, <1>2

LEMMA FlattenAppend ==
    ASSUME NEW S, NEW ss \in Seq(Seq(S)), NEW s \in Seq(S), NEW n \in Nat, n = Len(ss),
           NEW longer \in Seq(Seq(S)), Len(longer) = n + 1,
           \A i \in 1 .. n : longer[i] = ss[i], longer[n + 1] = s
    PROVE  FlattenSeq(longer) = FlattenSeq(ss) \o s
<1>1. PICK g : FlattensTo(g, longer, n + 1) /\ FlattenSeq(longer) = g[n + 1]
  <2>1. Len(longer) \in Nat \ {0}
    OBVIOUS
  <2> QED BY <2>1, FlattenDef
<1>2. g[n + 1] = IF n + 1 = 1 THEN s ELSE g[n] \o s
  <2>1. PICK m \in Nat : m = n + 1
    OBVIOUS
  <2>2. m \in 1 .. m /\ m - 1 = n /\ longer[m] = s
    BY <2>1
  <2>3. FlattensTo(g, longer, m)
    BY <1>1, <2>1
  <2>4. g[m] = IF m = 1 THEN longer[m] ELSE g[m - 1] \o longer[m]
    BY <2>2, <2>3 DEF FlattensTo
  <2>5. g[m] = IF m = 1 THEN s ELSE g[n] \o s
    BY <2>2, <2>4
  <2> QED BY <2>1, <2>5
<1>3. CASE n = 0
  <2>a. ss = <<>>
    <3>1. Len(ss) = 0
      BY <1>3
    <3>2. \A u \in Seq(Seq(S)) : Len(u) = 0 => u = <<>>
      OBVIOUS
    <3> QED BY <3>1, <3>2
  <2>1. FlattenSeq(ss) = <<>>
    BY <2>a, FlattenEmpty, Zenon
  <2>2. FlattenSeq(longer) = s
    BY <1>1, <1>2, <1>3
  <2> QED BY <2>1, <2>2, ConcatEmptySeq
<1>4. CASE n # 0
  <2>1. PICK f : FlattensTo(f, ss, n) /\ FlattenSeq(ss) = f[n]
    <3>1. Len(ss) \in Nat \ {0}
      BY <1>4
    <3> QED BY <3>1, FlattenDef
  <2>2. \A i \in 1 .. n : f[i] = g[i]
    <3> DEFINE Bad == {i \in 1 .. n : f[i] # g[i]}
    <3> SUFFICES ASSUME Bad # {} PROVE FALSE
      OBVIOUS
    <3>1. Bad \subseteq Nat
      OBVIOUS
    <3>2. PICK i \in Bad : \A j \in Bad : i <= j
      <4> HIDE DEF Bad
      <4> QED BY <3>1, LeastOf
    <3>3. i \in 1 .. n /\ i \in 1 .. n + 1 /\ f[i] # g[i]
      OBVIOUS
    <3>4. \A j \in 1 .. n : j < i => f[j] = g[j]
      BY <3>2
    <3> HIDE DEF Bad
    <3>5. f[i] = IF i = 1 THEN ss[i] ELSE f[i - 1] \o ss[i]
      BY <2>1, <3>3 DEF FlattensTo
    <3>6. g[i] = IF i = 1 THEN longer[i] ELSE g[i - 1] \o longer[i]
      BY <1>1, <3>3 DEF FlattensTo
    <3>7. i # 1 => f[i - 1] = g[i - 1]
      <4>1. i # 1 => i - 1 \in 1 .. n /\ i - 1 < i
        BY <3>3
      <4> QED BY <3>4, <4>1
    <3> QED BY <3>3, <3>5, <3>6, <3>7
  <2>3. f[n] = g[n]
    BY <1>4, <2>2
  <2>4. g[n + 1] = g[n] \o s
    BY <1>2, <1>4
  <2> QED BY <1>1, <2>1, <2>3, <2>4
<1> QED BY <1>3, <1>4

-----------------------------------------------------------------------------
(***************************************************************************)
(* The size of a buffer, a fold over its indices in any order.             *)
(***************************************************************************)
SizeOf(sz, q) == FoldSeq(LAMBDA i, sum : sz[i] + sum, 0, q)

Some(s) == CHOOSE x \in s : TRUE

SumOn(f, sz, q, dom) ==
    f = [s \in dom |-> IF s = {} THEN 0 ELSE sz[q[Some(s)]] + f[s \ {Some(s)}]]

SumOver(f, sz, q, D) == SumOn(f, sz, q, SUBSET D)

Smaller(D, n) == {s \in SUBSET D : Cardinality(s) <= n}

TakesSome(f, sz, q, D) ==
    \A s \in SUBSET D : s # {} => f[s] = sz[q[Some(s)]] + f[s \ {Some(s)}]

TakesAny(f, sz, q, D) ==
    \A s \in SUBSET D : \A x \in D \ s : f[s \cup {x}] = sz[q[x]] + f[s]

Agree(f, g, D) == \A s \in SUBSET D : f[s] = g[s]

LEMMA SizeOfDef ==
    ASSUME NEW sz, NEW q
    PROVE  SizeOf(sz, q) = (CHOOSE f : SumOver(f, sz, q, DOMAIN q))[DOMAIN q]
BY DEF SizeOf, FoldSeq, FoldFunction, FoldFunctionOnSet, MapThenFoldSet, SumOver, SumOn, Some

LEMMA SomeOf ==
    ASSUME NEW D, IsFiniteSet(D), NEW s \in SUBSET D
    PROVE  /\ IsFiniteSet(s) /\ Cardinality(s) \in Nat
           /\ (Cardinality(s) = 0) <=> (s = {})
           /\ s # {} => /\ Some(s) \in s
                        /\ s \ {Some(s)} \in SUBSET D
                        /\ Cardinality(s \ {Some(s)}) = Cardinality(s) - 1
<1>1. IsFiniteSet(s) /\ Cardinality(s) \in Nat
  BY FS_Subset, FS_CardinalityType
<1>2. (Cardinality(s) = 0) <=> (s = {})
  BY <1>1, FS_EmptySet
<1>3. s # {} => Some(s) \in s
  BY DEF Some
<1>4. s # {} => Cardinality(s \ {Some(s)}) = Cardinality(s) - 1
  BY <1>1, <1>3, FS_RemoveElement
<1> QED BY <1>1, <1>2, <1>3, <1>4

LEMMA SumExists ==
    ASSUME NEW sz, NEW q, NEW D, IsFiniteSet(D), NEW n \in Nat
    PROVE  \E f : SumOn(f, sz, q, Smaller(D, n))
<1> DEFINE Bad == {m \in Nat : ~ \E f : SumOn(f, sz, q, Smaller(D, m))}
<1> SUFFICES ASSUME n \in Bad PROVE FALSE
  OBVIOUS
<1>1. PICK m \in Bad : \A k \in Bad : m <= k
  BY LeastOf
<1>2. m # 0
  <2> DEFINE f == [s \in Smaller(D, 0) |-> 0]
  <2>1. \A s \in Smaller(D, 0) : s = {}
    <3> SUFFICES ASSUME NEW s \in SUBSET D, Cardinality(s) <= 0 PROVE s = {}
      BY DEF Smaller
    <3>1. Cardinality(s) \in Nat /\ (Cardinality(s) = 0 <=> s = {})
      BY SomeOf
    <3> QED BY <3>1
  <2>2. SumOn(f, sz, q, Smaller(D, 0))
    BY <2>1 DEF SumOn
  <2> QED BY <2>2
<1>3. m \in Nat /\ m - 1 \in Nat /\ m - 1 \notin Bad
  BY <1>1, <1>2
<1>4. PICK f : SumOn(f, sz, q, Smaller(D, m - 1))
  BY <1>3
<1> DEFINE Body(h, s) == IF s = {} THEN 0 ELSE sz[q[Some(s)]] + h[s \ {Some(s)}]
           g == [s \in Smaller(D, m) |-> Body(f, s)]
<1> HIDE DEF Bad
<1>5. \A s \in Smaller(D, m) : s # {} => /\ s \ {Some(s)} \in Smaller(D, m - 1)
                                         /\ s \ {Some(s)} \in Smaller(D, m)
  <2> SUFFICES ASSUME NEW s \in SUBSET D, Cardinality(s) <= m, s # {}
               PROVE  s \ {Some(s)} \in SUBSET D /\ Cardinality(s \ {Some(s)}) <= m - 1
                      /\ Cardinality(s \ {Some(s)}) <= m
    BY DEF Smaller
  <2>1. s \ {Some(s)} \in SUBSET D /\ Cardinality(s \ {Some(s)}) = Cardinality(s) - 1
        /\ Cardinality(s) \in Nat
    BY SomeOf
  <2> QED BY <1>3, <2>1
<1>6. \A s \in Smaller(D, m - 1) : f[s] = Body(f, s) /\ s \in Smaller(D, m)
  <2>1. \A s \in SUBSET D : Cardinality(s) <= m - 1 => Cardinality(s) <= m
    <3> SUFFICES ASSUME NEW s \in SUBSET D, Cardinality(s) <= m - 1 PROVE Cardinality(s) <= m
      OBVIOUS
    <3>1. Cardinality(s) \in Nat
      BY SomeOf
    <3> QED BY <1>3, <3>1
  <2> QED BY <1>4, <2>1 DEF SumOn, Smaller
<1>7. \A s \in Smaller(D, m) : g[s] = Body(f, s)
  BY DEF Body
<1>8. \A s \in Smaller(D, m) : s # {} => g[s \ {Some(s)}] = f[s \ {Some(s)}]
  <2> HIDE DEF g, Body
  <2> QED BY <1>5, <1>6, <1>7
<1>9. \A s \in Smaller(D, m) : g[s] = Body(g, s)
  <2> HIDE DEF g
  <2> QED BY <1>7, <1>8
<1>10. SumOn(g, sz, q, Smaller(D, m))
  <2>1. g = [s \in Smaller(D, m) |-> g[s]]
    OBVIOUS
  <2>2. g = [s \in Smaller(D, m) |-> Body(g, s)]
    <3> HIDE DEF g, Body
    <3> QED BY <1>9, <2>1
  <2> HIDE DEF g
  <2> QED BY <2>2 DEF SumOn
<1> HIDE DEF g
<1> QED BY <1>1, <1>10 DEF Bad

LEMMA SumIsSum ==
    ASSUME NEW sz, NEW q, NEW D, IsFiniteSet(D),
           NEW f, f = CHOOSE g : SumOver(g, sz, q, D)
    PROVE  SumOver(f, sz, q, D)
<1>1. Cardinality(D) \in Nat
  BY FS_CardinalityType
<1>2. PICK g : SumOn(g, sz, q, Smaller(D, Cardinality(D)))
  BY <1>1, SumExists
<1>3. Smaller(D, Cardinality(D)) = SUBSET D
  BY FS_Subset DEF Smaller
<1> QED BY <1>2, <1>3 DEF SumOver

LEMMA SumDef ==
    ASSUME NEW sz, NEW q, NEW D, NEW f, SumOver(f, sz, q, D)
    PROVE  f[{}] = 0 /\ TakesSome(f, sz, q, D)
BY DEF SumOver, SumOn, TakesSome

LEMMA SumType ==
    ASSUME NEW sz, NEW q, NEW D, IsFiniteSet(D), NEW f, SumOver(f, sz, q, D),
           \A i \in D : sz[q[i]] \in Nat
    PROVE  \A s \in SUBSET D : f[s] \in Nat
<1> DEFINE Bad == {n \in Nat : \E s \in SUBSET D : Cardinality(s) = n /\ f[s] \notin Nat}
<1> SUFFICES ASSUME NEW u \in SUBSET D, f[u] \notin Nat PROVE FALSE
  OBVIOUS
<1>1. Cardinality(u) \in Bad
  BY SomeOf
<1>2. PICK n \in Bad : \A k \in Bad : n <= k
  <2>1. Bad \subseteq Nat /\ Bad # {}
    BY <1>1
  <2> HIDE DEF Bad
  <2> QED BY <2>1, LeastOf
<1>3. PICK s \in SUBSET D : Cardinality(s) = n /\ f[s] \notin Nat
  OBVIOUS
<1>4. s # {}
  <2>1. f[{}] = 0
    BY SumDef
  <2> SUFFICES ASSUME s = {} PROVE FALSE
    OBVIOUS
  <2>2. f[s] = f[{}]
    OBVIOUS
  <2> QED BY <1>3, <2>1, <2>2
<1>5. /\ Some(s) \in s /\ s \ {Some(s)} \in SUBSET D
      /\ Cardinality(s \ {Some(s)}) = n - 1 /\ n \in Nat /\ n - 1 \in Nat
  <2>1. /\ Some(s) \in s /\ s \ {Some(s)} \in SUBSET D
        /\ Cardinality(s \ {Some(s)}) = n - 1
    BY <1>3, <1>4, SomeOf
  <2>2. n \in Nat /\ n # 0
    BY <1>3, <1>4, SomeOf
  <2> QED BY <2>1, <2>2
<1>6. n - 1 \notin Bad
  <2> HIDE DEF Bad
  <2> QED BY <1>2, <1>5
<1>7. f[s \ {Some(s)}] \in Nat
  BY <1>5, <1>6
<1>8. f[s] = sz[q[Some(s)]] + f[s \ {Some(s)}]
  <2>1. TakesSome(f, sz, q, D)
    BY SumDef
  <2> QED BY <1>4, <2>1 DEF TakesSome
<1> QED BY <1>3, <1>5, <1>7, <1>8

(* Whichever element is taken first, the sum is the same.                  *)
LEMMA SumAdds ==
    ASSUME NEW sz, NEW q, NEW D, IsFiniteSet(D), NEW f, SumOver(f, sz, q, D),
           \A i \in D : sz[q[i]] \in Nat
    PROVE  TakesAny(f, sz, q, D)
<1> DEFINE Adds(s, x) == f[s \cup {x}] = sz[q[x]] + f[s]
           Bad == {n \in Nat : \E s \in SUBSET D : \E x \in D \ s : Cardinality(s) = n /\ ~ Adds(s, x)}
<1> SUFFICES ASSUME NEW u \in SUBSET D, NEW v \in D \ u, ~ Adds(u, v) PROVE FALSE
  BY DEF TakesAny
<1>1. Cardinality(u) \in Bad
  BY SomeOf
<1>2. PICK n \in Bad : \A k \in Bad : n <= k
  <2>1. Bad \subseteq Nat /\ Bad # {}
    BY <1>1
  <2> HIDE DEF Bad
  <2> QED BY <2>1, LeastOf
<1>3. PICK s \in SUBSET D : \E x \in D \ s : Cardinality(s) = n /\ ~ Adds(s, x)
  OBVIOUS
<1>4. PICK x \in D \ s : Cardinality(s) = n /\ ~ Adds(s, x)
  BY <1>3
<1>5. \A r \in SUBSET D : \A y \in D \ r : Cardinality(r) < n => Adds(r, y)
  <2> SUFFICES ASSUME NEW r \in SUBSET D, NEW y \in D \ r, Cardinality(r) < n, ~ Adds(r, y)
               PROVE  FALSE
    OBVIOUS
  <2>1. Cardinality(r) \in Nat
    BY SomeOf
  <2>2. Cardinality(r) \in Bad
    BY <2>1
  <2>3. n \in Nat
    OBVIOUS
  <2> HIDE DEF Bad
  <2> QED BY <1>2, <2>1, <2>2, <2>3
<1> HIDE DEF Bad
<1>6. \A r \in SUBSET D : f[r] \in Nat
  BY SumType
<1> DEFINE t == s \cup {x}
           y == Some(t)
<1>7. y \in t /\ t \in SUBSET D /\ f[t] = sz[q[y]] + f[t \ {y}]
  <2>1. t # {} /\ t \in SUBSET D
    OBVIOUS
  <2> HIDE DEF t
  <2>2. f[t] = sz[q[Some(t)]] + f[t \ {Some(t)}]
    <3>1. TakesSome(f, sz, q, D)
      BY SumDef
    <3> QED BY <2>1, <3>1 DEF TakesSome
  <2>3. Some(t) \in t
    BY <2>1, SomeOf
  <2> QED BY <2>1, <2>2, <2>3
<1> HIDE DEF y
<1>8. y # x
  <2> SUFFICES ASSUME y = x PROVE FALSE
    OBVIOUS
  <2>1. t \ {y} = s
    OBVIOUS
  <2> QED BY <1>4, <1>7, <2>1
<1> DEFINE r == s \ {y}
<1>9. y \in s /\ r \in SUBSET D /\ y \in D \ r /\ x \in D \ r
      /\ t \ {y} = r \cup {x} /\ r \cup {y} = s
  BY <1>7, <1>8
<1>10. Cardinality(r) < n
  <2>1. IsFiniteSet(s) /\ Cardinality(s) \in Nat
    BY SomeOf
  <2>2. Cardinality(s \ {y}) = Cardinality(s) - 1
    BY <1>9, <2>1, FS_RemoveElement
  <2> QED BY <1>4, <2>1, <2>2
<1> HIDE DEF r
<1>11. f[s] = sz[q[y]] + f[r]
  BY <1>5, <1>9, <1>10
<1>12. f[t \ {y}] = sz[q[x]] + f[r]
  BY <1>5, <1>9, <1>10
<1>13. sz[q[x]] \in Nat /\ sz[q[y]] \in Nat /\ f[r] \in Nat
  BY <1>6, <1>9
<1>14. f[t] = sz[q[x]] + f[s]
  BY <1>7, <1>11, <1>12, <1>13
<1> QED BY <1>4, <1>14

(* The sum depends on what is summed only.                                 *)
LEMMA SumSame ==
    ASSUME NEW sz, NEW q, NEW p, NEW D, NEW E, IsFiniteSet(D), D \subseteq E,
           NEW f, SumOver(f, sz, q, D), NEW g, SumOver(g, sz, p, E),
           \A i \in D : p[i] = q[i]
    PROVE  Agree(f, g, D)
<1> DEFINE Bad == {n \in Nat : \E s \in SUBSET D : Cardinality(s) = n /\ f[s] # g[s]}
<1> SUFFICES ASSUME NEW u \in SUBSET D, f[u] # g[u] PROVE FALSE
  BY DEF Agree
<1>1. Cardinality(u) \in Bad
  BY SomeOf
<1>2. PICK n \in Bad : \A k \in Bad : n <= k
  <2>1. Bad \subseteq Nat /\ Bad # {}
    BY <1>1
  <2> HIDE DEF Bad
  <2> QED BY <2>1, LeastOf
<1>3. PICK s \in SUBSET D : Cardinality(s) = n /\ f[s] # g[s]
  OBVIOUS
<1>4. s # {}
  <2>1. f[{}] = 0 /\ g[{}] = 0
    BY SumDef
  <2> SUFFICES ASSUME s = {} PROVE FALSE
    OBVIOUS
  <2>2. f[s] = f[{}]
    OBVIOUS
  <2> QED BY <1>3, <2>1, <2>2
<1>5. /\ Some(s) \in s /\ s \ {Some(s)} \in SUBSET D
      /\ Cardinality(s \ {Some(s)}) = n - 1 /\ n \in Nat /\ n - 1 \in Nat
  <2>1. /\ Some(s) \in s /\ s \ {Some(s)} \in SUBSET D
        /\ Cardinality(s \ {Some(s)}) = n - 1
    BY <1>3, <1>4, SomeOf
  <2>2. n \in Nat /\ n # 0
    BY <1>3, <1>4, SomeOf
  <2> QED BY <2>1, <2>2
<1>6. n - 1 \notin Bad
  <2> HIDE DEF Bad
  <2> QED BY <1>2, <1>5
<1>7. f[s \ {Some(s)}] = g[s \ {Some(s)}]
  BY <1>5, <1>6
<1>8. /\ f[s] = sz[q[Some(s)]] + f[s \ {Some(s)}]
      /\ g[s] = sz[p[Some(s)]] + g[s \ {Some(s)}]
  <2>1. s \in SUBSET E
    OBVIOUS
  <2>2. TakesSome(f, sz, q, D) /\ TakesSome(g, sz, p, E)
    BY SumDef
  <2> QED BY <1>4, <2>1, <2>2 DEF TakesSome
<1>9. p[Some(s)] = q[Some(s)]
  BY <1>5
<1> QED BY <1>3, <1>7, <1>8, <1>9

LEMMA SizeOfEmpty ==
    ASSUME NEW sz
    PROVE  SizeOf(sz, <<>>) = 0
<1> DEFINE f == CHOOSE g : SumOver(g, sz, <<>>, {})
<1>1. SumOver(f, sz, <<>>, {})
  BY FS_EmptySet, SumIsSum
<1>2. DOMAIN <<>> = {}
  OBVIOUS
<1>3. SizeOf(sz, <<>>) = f[{}]
  BY <1>2, SizeOfDef
<1> HIDE DEF f
<1>4. f[{}] = 0
  BY <1>1, SumDef
<1> QED BY <1>3, <1>4

LEMMA SizeOfAppend ==
    ASSUME NEW S, NEW sz \in [S -> Nat], NEW q \in Seq(S), NEW e \in S
    PROVE  /\ SizeOf(sz, q) \in Nat
           /\ SizeOf(sz, Append(q, e)) = SizeOf(sz, q) + sz[e]
<1> DEFINE p == Append(q, e)
           n == Len(q)
<1>1. n \in Nat /\ DOMAIN q = 1 .. n /\ DOMAIN p = 1 .. n + 1 /\ p[n + 1] = e
      /\ \A i \in 1 .. n : p[i] = q[i]
  OBVIOUS
<1>2. \A i \in 1 .. n : sz[q[i]] \in Nat
  OBVIOUS
<1>3. \A i \in 1 .. n + 1 : sz[p[i]] \in Nat
  <2>1. \A i \in 1 .. n + 1 : p[i] \in S
    OBVIOUS
  <2> HIDE DEF p
  <2> QED BY <2>1
<1> DEFINE D == 1 .. n
           E == 1 .. n + 1
           f == CHOOSE g : SumOver(g, sz, q, D)
           h == CHOOSE g : SumOver(g, sz, p, E)
<1>4. SizeOf(sz, q) = f[D] /\ SizeOf(sz, p) = h[E]
  <2> HIDE DEF p
  <2> QED BY <1>1, SizeOfDef
<1>5. IsFiniteSet(D) /\ IsFiniteSet(E)
  BY <1>1, FS_Interval
<1>6. /\ D \in SUBSET D /\ D \in SUBSET E /\ D \subseteq E
      /\ n + 1 \in E \ D /\ D \cup {n + 1} = E
  BY <1>1
<1>7. /\ \A i \in D : sz[q[i]] \in Nat
      /\ \A i \in D : p[i] = q[i]
      /\ \A i \in E : sz[p[i]] \in Nat
  BY <1>1, <1>2, <1>3
<1> HIDE DEF p, D, E, n
<1>8. SumOver(f, sz, q, D) /\ SumOver(h, sz, p, E)
  BY <1>5, SumIsSum
<1> HIDE DEF f, h
<1>9. f[D] = h[D]
  <2>1. Agree(f, h, D)
    BY <1>5, <1>6, <1>7, <1>8, SumSame
  <2> QED BY <1>6, <2>1 DEF Agree
<1>10. h[E] = sz[p[n + 1]] + h[D]
  <2>1. TakesAny(h, sz, p, E)
    BY <1>5, <1>7, <1>8, SumAdds
  <2>2. h[D \cup {n + 1}] = sz[p[n + 1]] + h[D]
    BY <1>6, <2>1 DEF TakesAny
  <2> QED BY <1>6, <2>2
<1>11. f[D] \in Nat
  <2>1. \A s \in SUBSET D : f[s] \in Nat
    BY <1>5, <1>7, <1>8, SumType
  <2> QED BY <1>6, <2>1
<1>12. sz[e] \in Nat
  OBVIOUS
<1> QED BY <1>1, <1>4, <1>9, <1>10, <1>11, <1>12 DEF p

-----------------------------------------------------------------------------
(***************************************************************************)
(* What loadRaftState finds in chunk files cs.  A flush under a name after *)
(* all others puts its chunk at the end.                                   *)
(***************************************************************************)
FoundIn(cs) == FlattenSeq([k \in DOMAIN NamesOf(cs) |-> cs[NamesOf(cs)[k]]])

Chunks == UNION {[S -> Seq(Index)] : S \in SUBSET Time}

Flushed(cs, t, s) == [u \in DOMAIN cs \union {t} |-> IF u = t THEN s ELSE cs[u]]

LEMMA FoundType ==
    ASSUME NEW cs \in Chunks
    PROVE  FoundIn(cs) \in Seq(Index)
<1> DEFINE n == Cardinality(DOMAIN cs)
           ss == [k \in 1 .. n |-> cs[NamesOf(cs)[k]]]
<1>1. DOMAIN cs \subseteq Time /\ \A t \in DOMAIN cs : cs[t] \in Seq(Index)
  BY DEF Chunks
<1>2. n \in Nat /\ NamesOf(cs) \in [1 .. n -> DOMAIN cs]
  BY <1>1, NamesType
<1> HIDE DEF n
<1>3. ss \in Seq(Seq(Index))
  <2>1. \A k \in 1 .. n : cs[NamesOf(cs)[k]] \in Seq(Index)
    BY <1>1, <1>2
  <2> QED BY <1>2, <2>1
<1>4. FoundIn(cs) = FlattenSeq(ss)
  <2>1. DOMAIN NamesOf(cs) = 1 .. n
    BY <1>2
  <2> QED BY <2>1, Zenon DEF FoundIn
<1> HIDE DEF ss
<1> QED BY <1>3, <1>4, FlattenType

LEMMA FoundInOrder ==
    ASSUME NEW cs \in Chunks, NEW q \in Seq(Time), InOrder(q), DOMAIN cs = ToSet(q)
    PROVE  /\ [k \in 1 .. Len(q) |-> cs[q[k]]] \in Seq(Seq(Index))
           /\ FoundIn(cs) = FlattenSeq([k \in 1 .. Len(q) |-> cs[q[k]]])
<1>1. NamesOf(cs) = q
  BY NamesAreFlushes
<1>2. DOMAIN q = 1 .. Len(q) /\ Len(q) \in Nat
  OBVIOUS
<1>3. \A k \in 1 .. Len(q) : cs[q[k]] \in Seq(Index)
  <2>1. \A t \in DOMAIN cs : cs[t] \in Seq(Index)
    BY DEF Chunks
  <2>2. \A k \in 1 .. Len(q) : q[k] \in ToSet(q)
    BY <1>2 DEF ToSet
  <2> QED BY <2>1, <2>2
<1>4. FoundIn(cs) = FlattenSeq([k \in 1 .. Len(q) |-> cs[q[k]]])
  BY <1>1, <1>2, Zenon DEF FoundIn
<1> QED BY <1>2, <1>3, <1>4

LEMMA InOrderAppend ==
    ASSUME NEW q \in Seq(Time), NEW t \in Time, InOrder(Append(q, t))
    PROVE  InOrder(q) /\ t \notin ToSet(q)
<1> DEFINE p == Append(q, t)
           n == Len(q)
<1>1. /\ n \in Nat /\ DOMAIN q = 1 .. n /\ DOMAIN p = 1 .. n + 1
      /\ \A i \in 1 .. n : p[i] = q[i] /\ q[i] \in Time
      /\ p[n + 1] = t
  OBVIOUS
<1>2. \A i, j \in 1 .. n + 1 : i < j => <<p[i], p[j]>> \in EarlierName
  BY <1>1 DEF InOrder
<1> HIDE DEF p, n
<1>3. InOrder(q)
  <2>1. \A i \in 1 .. n : i \in 1 .. n + 1
    BY <1>1
  <2> QED BY <1>1, <1>2, <2>1 DEF InOrder
<1>4. \A i \in 1 .. n : q[i] # t
  <2> SUFFICES ASSUME NEW i \in 1 .. n, q[i] = t PROVE FALSE
    OBVIOUS
  <2>1. i \in 1 .. n + 1 /\ n + 1 \in 1 .. n + 1 /\ i < n + 1
    BY <1>1
  <2>2. <<p[i], p[n + 1]>> \in EarlierName
    BY <1>2, <2>1
  <2> QED BY <1>1, <2>2, NotBeforeItself
<1> QED BY <1>1, <1>3, <1>4 DEF ToSet

LEMMA FoundAppend ==
    ASSUME NEW cs \in Chunks, NEW q \in Seq(Time), DOMAIN cs = ToSet(q),
           NEW t \in Time, InOrder(Append(q, t)), NEW s \in Seq(Index),
           Flushed(cs, t, s) \in Chunks
    PROVE  FoundIn(Flushed(cs, t, s)) = FoundIn(cs) \o s
<1>1. PICK ds : ds = Flushed(cs, t, s)
  OBVIOUS
<1>2. PICK p : p = Append(q, t)
  OBVIOUS
<1>3. PICK n : n = Len(q)
  OBVIOUS
<1>4. /\ n \in Nat /\ p \in Seq(Time) /\ Len(p) = n + 1
      /\ DOMAIN q = 1 .. n /\ DOMAIN p = 1 .. n + 1
      /\ \A i \in 1 .. n : p[i] = q[i]
      /\ p[n + 1] = t
  BY <1>2, <1>3
<1>5. InOrder(q) /\ t \notin ToSet(q) /\ InOrder(p)
  BY <1>2, InOrderAppend
<1>6. /\ DOMAIN ds = ToSet(q) \cup {t}
      /\ ds[t] = s
      /\ \A u \in ToSet(q) : ds[u] = cs[u]
  BY <1>1, <1>5 DEF Flushed
<1>7. DOMAIN ds = ToSet(p)
  <2>1. \A i \in 1 .. n + 1 : i \in 1 .. n \/ i = n + 1
    BY <1>4
  <2>2. n + 1 \in 1 .. n + 1 /\ \A i \in 1 .. n : i \in 1 .. n + 1
    BY <1>4
  <2> QED BY <1>4, <1>6, <2>1, <2>2, SMTT(30) DEF ToSet
<1>8. PICK ss : ss = [k \in 1 .. n |-> cs[q[k]]]
  OBVIOUS
<1>9. PICK ll : ll = [k \in 1 .. n + 1 |-> ds[p[k]]]
  OBVIOUS
<1>10. ss \in Seq(Seq(Index)) /\ FoundIn(cs) = FlattenSeq(ss)
  BY <1>3, <1>5, <1>8, FoundInOrder
<1>11. ll \in Seq(Seq(Index)) /\ FoundIn(ds) = FlattenSeq(ll)
  <2>1. ds \in Chunks
    BY <1>1
  <2>2. Len(p) = n + 1
    BY <1>4
  <2>3. /\ [k \in 1 .. Len(p) |-> ds[p[k]]] \in Seq(Seq(Index))
        /\ FoundIn(ds) = FlattenSeq([k \in 1 .. Len(p) |-> ds[p[k]]])
    BY <1>4, <1>5, <1>7, <2>1, FoundInOrder
  <2> QED BY <1>9, <2>2, <2>3
<1>12. n = Len(ss) /\ Len(ll) = n + 1
  BY <1>4, <1>8, <1>9
<1>13. ll[n + 1] = s /\ \A i \in 1 .. n : ll[i] = ss[i]
  <2>1. n + 1 \in 1 .. n + 1 /\ \A i \in 1 .. n : i \in 1 .. n + 1 /\ q[i] \in ToSet(q)
    BY <1>4 DEF ToSet
  <2> QED BY <1>4, <1>6, <1>8, <1>9, <2>1
<1>14. FlattenSeq(ll) = FlattenSeq(ss) \o s
  <2>1. n \in Nat /\ s \in Seq(Index)
    BY <1>4
  <2>2. ss \in Seq(Seq(Index)) /\ ll \in Seq(Seq(Index))
    BY <1>10, <1>11
  <2>3. n = Len(ss) /\ Len(ll) = n + 1 /\ ll[n + 1] = s /\ \A i \in 1 .. n : ll[i] = ss[i]
    BY <1>12, <1>13
  <2> QED BY ONLY <2>1, <2>2, <2>3, FlattenAppend, ZenonT(30)
<1> QED BY <1>1, <1>10, <1>11, <1>14

-----------------------------------------------------------------------------
(***************************************************************************)
(* The log up to an index.                                                 *)
(***************************************************************************)
LEMMA UpToType ==
    ASSUME NEW n \in 0 .. MaxLogIndex
    PROVE  /\ UpTo(n) \in Seq(Index) /\ Len(UpTo(n)) = n
           /\ \A k \in 1 .. n : UpTo(n)[k] = k
           /\ Contiguous(UpTo(n))
<1>1. MaxLogIndex \in Nat
  BY PersisterAssumption
<1>2. \A k \in 1 .. n : k \in 1 .. MaxLogIndex
  BY <1>1
<1>3. UpTo(n) \in Seq(Index) /\ Len(UpTo(n)) = n /\ \A k \in 1 .. n : UpTo(n)[k] = k
  BY <1>1, <1>2 DEF UpTo, Index
<1>4. \A k \in 2 .. n : k \in 1 .. n /\ k - 1 \in 1 .. n
  BY <1>1
<1>5. Contiguous(UpTo(n))
  <2> SUFFICES ASSUME NEW k \in 2 .. n PROVE UpTo(n)[k] = UpTo(n)[k - 1] + 1
    BY <1>3 DEF Contiguous
  <2>1. UpTo(n)[k] = k /\ UpTo(n)[k - 1] = k - 1
    BY <1>3, <1>4
  <2> QED BY <2>1
<1> QED BY <1>3, <1>5

LEMMA UpToNext ==
    ASSUME NEW n \in 0 .. MaxLogIndex, n < MaxLogIndex, NEW s \in Seq(Index), NEW t \in Seq(Index),
           s \o t = UpTo(n)
    PROVE  s \o Append(t, n + 1) = UpTo(n + 1)
<1>1. MaxLogIndex \in Nat
  BY PersisterAssumption
<1>2. PICK m \in 1 .. MaxLogIndex : m = n + 1
  BY <1>1
<1>3. /\ UpTo(n) \in Seq(Index) /\ Len(UpTo(n)) = n /\ \A k \in 1 .. n : UpTo(n)[k] = k
      /\ UpTo(m) \in Seq(Index) /\ Len(UpTo(m)) = m /\ \A k \in 1 .. m : UpTo(m)[k] = k
  <2>1. m \in 0 .. MaxLogIndex
    BY <1>1
  <2> QED BY <2>1, UpToType
<1>4. m \in Index
  BY DEF Index
<1>5. s \o Append(t, m) = Append(s \o t, m)
  BY <1>4
<1>6. PICK u : u = UpTo(n)
  OBVIOUS
<1>7. PICK v : v = UpTo(m)
  OBVIOUS
<1>8. Append(u, m) = v
  <2>1. /\ Append(u, m) \in Seq(Index) /\ Len(Append(u, m)) = m
        /\ \A k \in 1 .. m : Append(u, m)[k] = IF k = m THEN m ELSE u[k]
    BY <1>1, <1>2, <1>3, <1>4, <1>6
  <2>2. \A k \in 1 .. m : k = m \/ k \in 1 .. n
    BY <1>1, <1>2
  <2>3. \A k \in 1 .. m : Append(u, m)[k] = v[k]
    BY <1>3, <1>6, <1>7, <2>1, <2>2
  <2>4. v \in Seq(Index) /\ Len(v) = m
    BY <1>3, <1>7
  <2> QED BY <2>1, <2>3, <2>4, SeqEqual
<1> QED BY <1>2, <1>5, <1>6, <1>7, <1>8

LEMMA PrefixOfConcat ==
    ASSUME NEW s \in Seq(Index), NEW t \in Seq(Index)
    PROVE  IsPrefix(s, s \o t) /\ IsPrefix(s, s)
<1>1. PICK u \in Seq(Index) : u = s \o t
  BY ConcatProperties
<1>2. /\ Len(s) \in Nat /\ Len(t) \in Nat /\ Len(u) = Len(s) + Len(t)
      /\ \A k \in 1 .. Len(s) : u[k] = s[k]
  BY <1>1
<1>3. SubSeq(s, 1, Len(s)) = SubSeq(u, 1, Len(s))
  BY <1>2
<1>4. IsPrefix(s, u)
  BY <1>2, <1>3 DEF IsPrefix
<1>5. IsPrefix(s, s)
  BY <1>2 DEF IsPrefix
<1> QED BY <1>1, <1>4, <1>5

-----------------------------------------------------------------------------
(***************************************************************************)
(* The invariant.  A process that does not run has an empty buffer; what   *)
(* is being flushed is the buffer.  The chunks, in the order of their      *)
(* names when that is the order of the flushes, are a beginning of the log *)
(* as long as no entry of a log with a hole was flushed, and the buffer of *)
(* a process continues it as long as no such log was saved; then the index *)
(* the loop of saveLogs is at is the one after the last in the buffer, and *)
(* the position of that index holds its entry.                             *)
(***************************************************************************)
BufferOfProcess ==
    /\ ~ Up => logBuf = <<>> /\ written = FALSE
    /\ written = TRUE => tmp = logBuf

LogIsWhole ==
    InOrder(flushes) /\ hole # "files" =>
        /\ at # "aborted"
        /\ Up /\ hole = "none" => FoundIn(chunks) \o logBuf = UpTo(lastInBufLogId)
        /\ \E n \in 0 .. MaxLogIndex : FoundIn(chunks) = UpTo(n)

LoopIsInStep ==
    /\ ~ Up => hole # "buffer"
    /\ at = "saving" /\ hole = "none" =>
          /\ next = lastInBufLogId + 1
          /\ next <= commitIndex => GapFreeUpTo(commitIndex)

SizeIsCounted ==
    /\ estimateLogBufSize = SizeOf(size, logBuf)
    /\ Len(logBuf) <= 1 \/ estimateLogBufSize <= ChunkBytes

IInv == TypeOK /\ BufferOfProcess /\ LogIsWhole /\ LoopIsInStep /\ SizeIsCounted

LEMMA FoundIsFoundIn == Found = FoundIn(chunks) /\ Found' = FoundIn(chunks')
BY DEF Found, FoundIn, NamesOf, ChunkNames, Preceding

LEMMA OrderIsInOrder == NamesInOrder <=> InOrder(flushes)
BY DEF NamesInOrder, InOrder

LEMMA ChunksType ==
    ASSUME TypeOK
    PROVE  chunks \in Chunks
<1>1. ToSet(flushes) \in SUBSET Time
  BY DEF TypeOK, ToSet
<1> QED BY <1>1 DEF TypeOK, Chunks

LEMMA InitHolds == Init => IInv
<1> SUFFICES ASSUME Init PROVE IInv
  OBVIOUS
<1> USE DEF Init
<1>1. ToSet(<<>>) = {}
  BY DEF ToSet
<1>2. BootTime \in Time /\ 0 \in 0 .. MaxLogIndex /\ 0 \in 0 .. MaxFaults
  BY PersisterAssumption DEF Time
<1>3. TypeOK
  <2>1. chunks \in [ToSet(flushes) -> Seq(Index)]
    BY <1>1 DEF NoChunks
  <2>2. /\ logBuf \in Seq(Index) /\ tmp \in Seq(Index) /\ flushes \in Seq(Time)
        /\ logs \in Seq(Index)
    OBVIOUS
  <2>3. next \in 0 .. MaxLogIndex + 1
    BY PersisterAssumption
  <2> QED BY <1>2, <2>1, <2>2, <2>3 DEF TypeOK
<1>4. BufferOfProcess
  BY DEF BufferOfProcess
<1>5. LogIsWhole
  <2>1. FoundIn(chunks) = <<>>
    <3>1. chunks \in Chunks /\ DOMAIN chunks = ToSet(flushes)
      BY <1>3, ChunksType DEF TypeOK
    <3>2. flushes \in Seq(Time) /\ InOrder(flushes)
      BY DEF InOrder
    <3>3. FoundIn(chunks) = FlattenSeq([k \in 1 .. Len(flushes) |-> chunks[flushes[k]]])
      BY <3>1, <3>2, FoundInOrder
    <3>4. [k \in 1 .. Len(flushes) |-> chunks[flushes[k]]] = <<>>
      OBVIOUS
    <3> QED BY <3>3, <3>4, FlattenEmpty
  <2>2. UpTo(0) = <<>>
    BY DEF UpTo
  <2>3. ~ Up /\ at # "aborted"
    BY DEF Up
  <2> QED BY <1>2, <2>1, <2>2, <2>3 DEF LogIsWhole
<1>6. SizeIsCounted
  BY SizeOfEmpty DEF SizeIsCounted
<1>7. LoopIsInStep
  BY DEF LoopIsInStep, Up
<1> QED BY <1>3, <1>4, <1>5, <1>6, <1>7 DEF IInv

LEMMA BufferIsSized ==
    ASSUME TypeOK
    PROVE  /\ SizeOf(size, logBuf) \in Nat
           /\ \A e \in Index : /\ size[e] \in Nat
                               /\ SizeOf(size, Append(logBuf, e)) = SizeOf(size, logBuf) + size[e]
<1>1. size \in [Index -> Nat] /\ logBuf \in Seq(Index)
  BY PersisterAssumption DEF TypeOK
<1>2. SizeOf(size, logBuf) \in Nat
  <2>1. CASE Index = {}
    <3>1. logBuf = <<>>
      BY <1>1, <2>1
    <3> QED BY <3>1, SizeOfEmpty
  <2>2. CASE Index # {}
    BY <1>1, <2>2, SizeOfAppend
  <2> QED BY <2>1, <2>2
<1> QED BY <1>1, <1>2, SizeOfAppend

-----------------------------------------------------------------------------
(***************************************************************************)
(* A step changes the chunks and the flushes in FlushRenames only.         *)
(***************************************************************************)
LEMMA AppendEntriesKeeps ==
    ASSUME IInv, NEW prev \in 0 .. MaxLogIndex, NEW first \in Index, NEW last \in 0 .. MaxLogIndex,
           AppendEntries(prev, first, last)
    PROVE  IInv'
<1> USE DEF memoryVars, fileVars
<1>1. MaxLogIndex \in Nat /\ logs \in Seq(Index)
  BY PersisterAssumption DEF IInv, TypeOK
<1>2. Run(first, last) \in Seq(Index)
  <2> DEFINE n == IF last < first THEN 0 ELSE last - first + 1
  <2>1. first \in Nat /\ last \in Nat /\ n \in Nat /\ 1 .. last - first + 1 = 1 .. n
    BY <1>1 DEF Index
  <2>2. \A k \in 1 .. n : first + k - 1 \in Index
    BY <1>1, <2>1 DEF Index
  <2>3. Run(first, last) = [k \in 1 .. n |-> first + k - 1]
    BY <2>1 DEF Run
  <2> HIDE DEF n
  <2> QED BY <2>1, <2>2, <2>3, IsASeq
<1>3. ASSUME NEW i \in Nat PROVE PopFrom(i) \in Seq(Index)
  <2> DEFINE below == {k \in DOMAIN logs : logs[k] < i}
  <2>1. /\ Len(logs) \in Nat /\ DOMAIN logs = 1 .. Len(logs)
        /\ \A k \in 1 .. Len(logs) : logs[k] \in Index
    BY <1>1
  <2>2. IsFiniteSet(1 .. Len(logs)) /\ Cardinality(1 .. Len(logs)) = Len(logs)
    <3>1. PICK n \in Nat : n = Len(logs)
      BY <2>1
    <3>2. 1 \in Int /\ n \in Int
      BY <3>1
    <3>3. IsFiniteSet(1 .. n) /\ Cardinality(1 .. n) = IF 1 > n THEN 0 ELSE n - 1 + 1
      BY ONLY <3>2, FS_Interval, Zenon
    <3>4. Cardinality(1 .. n) = n
      BY <3>1, <3>3
    <3> QED BY <3>1, <3>3, <3>4
  <2>3. below \subseteq 1 .. Len(logs)
    BY <2>1
  <2>4. IsFiniteSet(below) /\ Cardinality(below) <= Len(logs)
    BY <2>2, <2>3, FS_Subset
  <2>5. Cardinality(below) \in 0 .. Len(logs)
    BY <2>1, <2>4, FS_CardinalityType
  <2> HIDE DEF below
  <2>6. PICK c \in 0 .. Len(logs) : c = Cardinality(below)
    BY <2>5
  <2>7. SubSeq(logs, 1, c) \in Seq(Index)
    BY <1>1, <2>1, <2>6
  <2> QED BY <2>6, <2>7 DEF PopFrom, below
<1>4. logs' \in Seq(Index)
  <2>1. prev \in Nat /\ first \in Nat
    BY <1>1 DEF Index
  <2>2. PopFrom(prev) \in Seq(Index) /\ PopFrom(first) \in Seq(Index)
    BY <1>3, <2>1
  <2>3. logs' = PopFrom(prev) \o Run(first, last) \/ logs' = PopFrom(first) \o Run(first, last)
    BY DEF AppendEntries
  <2> QED BY <1>2, <2>2, <2>3, ConcatProperties
<1> USE DEF AppendEntries
<1>5. TypeOK'
  BY <1>4 DEF IInv, TypeOK
<1>6. BufferOfProcess' /\ LogIsWhole'
  BY DEF IInv, BufferOfProcess, LogIsWhole, Up, InOrder
<1>7. LoopIsInStep'
  BY DEF IInv, LoopIsInStep, Up
<1>8. SizeIsCounted'
  BY DEF IInv, SizeIsCounted
<1> QED BY <1>5, <1>6, <1>7, <1>8 DEF IInv

LEMMA SaveLogsKeeps ==
    ASSUME IInv, NEW i \in Index, SaveLogs(i)
    PROVE  IInv'
<1> USE DEF SaveLogs, memoryVars, fileVars
<1>1. MaxLogIndex \in Nat /\ i \in 0 .. MaxLogIndex /\ lastInBufLogId \in 0 .. MaxLogIndex
  BY PersisterAssumption DEF IInv, TypeOK, Index
<1>2. next' \in 0 .. MaxLogIndex + 1
  BY <1>1
<1>3. TypeOK'
  BY <1>1, <1>2 DEF IInv, TypeOK
<1>4. BufferOfProcess'
  BY DEF IInv, BufferOfProcess, Up
<1>5. LogIsWhole'
  BY DEF IInv, LogIsWhole, Up, InOrder
<1>6. LoopIsInStep'
  <2>1. Up'
    BY DEF Up
  <2>2. hole' = "none" => i <= lastInBufLogId \/ GapFreeUpTo(i)
    BY <1>1
  <2>3. next' = lastInBufLogId' + 1 /\ (next' <= commitIndex' => ~ i <= lastInBufLogId)
    BY <1>1
  <2>4. GapFreeUpTo(i) => GapFreeUpTo(commitIndex)'
    BY DEF GapFreeUpTo
  <2> QED BY <2>1, <2>2, <2>3, <2>4 DEF LoopIsInStep
<1>7. SizeIsCounted'
  BY DEF IInv, SizeIsCounted
<1> QED BY <1>3, <1>4, <1>5, <1>6, <1>7 DEF IInv

\* What saveLogs reads is an entry; the one of the index, if the log is whole.
LEMMA ReadType ==
    ASSUME TypeOK, NEW i
    PROVE  Read(i) \subseteq Index
<1>1. \A k \in DOMAIN logs : logs[k] \in Index
  BY DEF TypeOK
<1> QED BY <1>1 DEF Read, Inside

LEMMA ReadOfWhole ==
    ASSUME TypeOK, NEW n \in Index, NEW i \in 1 .. n, GapFreeUpTo(n)
    PROVE  Inside(i) /\ Read(i) = {i}
<1>1. Len(logs) \in Nat /\ DOMAIN logs = 1 .. Len(logs) /\ n \in Nat /\ i \in Nat
  BY DEF TypeOK, Index
<1>2. 1 \in 1 .. n /\ n <= Len(logs) /\ \A k \in 1 .. n : logs[k] = k
  BY <1>1 DEF GapFreeUpTo
<1>3. logs[1] = 1 /\ logs[i] = i
  BY <1>2
<1>4. Position(i) = i
  BY <1>1, <1>3 DEF Position
<1>5. i \in 1 .. Len(logs) /\ logs # <<>>
  BY <1>1, <1>2
<1> QED BY <1>1, <1>3, <1>4, <1>5 DEF Inside, Read

LEMMA SaveEntryKeeps ==
    ASSUME IInv, SaveEntry
    PROVE  IInv'
<1> USE DEF SaveEntry, MoreToSave, fileVars
<1>1. PICK n \in Read(next) :
          /\ Exceeds(n) => logBuf = <<>>
          /\ logBuf' = Append(logBuf, n)
          /\ estimateLogBufSize' = estimateLogBufSize + size[n]
          /\ lastInBufLogId' = n
  OBVIOUS
<1>2. n \in Index
  BY <1>1, ReadType DEF IInv
<1>3. /\ MaxLogIndex \in Nat /\ MaxFaults \in Nat /\ next \in 0 .. MaxLogIndex + 1
      /\ commitIndex \in 0 .. MaxLogIndex /\ faults \in 0 .. MaxFaults
  BY PersisterAssumption DEF IInv, TypeOK
<1>4. /\ SizeOf(size, logBuf) \in Nat /\ size[n] \in Nat
      /\ SizeOf(size, Append(logBuf, n)) = SizeOf(size, logBuf) + size[n]
  BY <1>2, BufferIsSized DEF IInv
<1>5. TypeOK'
  <2>1. logBuf' \in Seq(Index) /\ estimateLogBufSize' \in Nat
    BY <1>1, <1>2, <1>4 DEF IInv, TypeOK
  <2>2. next' \in 0 .. MaxLogIndex + 1
    BY <1>3
  <2>3. faults' \in 0 .. MaxFaults
    BY <1>3
  <2>4. lastInBufLogId' \in 0 .. MaxLogIndex
    BY <1>1, <1>2, <1>3 DEF Index
  <2> QED BY <2>1, <2>2, <2>3, <2>4 DEF IInv, TypeOK
<1>6. BufferOfProcess'
  <2>1. Up'
    BY DEF Up
  <2>2. written' # TRUE
    OBVIOUS
  <2> QED BY <2>1, <2>2 DEF BufferOfProcess
<1>7. ASSUME hole = "none"
      PROVE  /\ next = lastInBufLogId + 1 /\ GapFreeUpTo(commitIndex)
             /\ n = next /\ lastInBufLogId < MaxLogIndex
  <2>1. next = lastInBufLogId + 1 /\ GapFreeUpTo(commitIndex)
    BY <1>7 DEF IInv, LoopIsInStep
  <2>2. lastInBufLogId \in 0 .. MaxLogIndex
    BY DEF IInv, TypeOK
  <2>3. commitIndex \in Index /\ next \in 1 .. commitIndex
    BY <1>3, <2>1, <2>2 DEF Index
  <2>4. Read(next) = {next}
    BY <2>1, <2>3, ReadOfWhole DEF IInv
  <2>5. n = next
    BY <1>1, <2>4
  <2>6. lastInBufLogId < MaxLogIndex
    BY <1>3, <2>1, <2>2
  <2> QED BY <2>1, <2>5, <2>6
<1>8. LogIsWhole'
  <2>1. ASSUME InOrder(flushes), hole = "none"
        PROVE  FoundIn(chunks) \o logBuf' = UpTo(n)
    <3>1. FoundIn(chunks) \o logBuf = UpTo(lastInBufLogId)
      BY <2>1 DEF IInv, LogIsWhole, Up
    <3>2. FoundIn(chunks) \in Seq(Index) /\ logBuf \in Seq(Index)
      BY ChunksType, FoundType DEF IInv, TypeOK
    <3>3. lastInBufLogId \in 0 .. MaxLogIndex /\ lastInBufLogId < MaxLogIndex
      BY <1>7, <2>1 DEF IInv, TypeOK
    <3>4. FoundIn(chunks) \o Append(logBuf, lastInBufLogId + 1) = UpTo(lastInBufLogId + 1)
      BY <3>1, <3>2, <3>3, UpToNext
    <3>5. n = lastInBufLogId + 1
      BY <1>7, <2>1
    <3> QED BY <1>1, <3>4, <3>5
  <2>2. /\ at' = at /\ hole' = hole /\ flushes' = flushes /\ chunks' = chunks
        /\ lastInBufLogId' = n /\ at # "aborted"
    BY <1>1
  <2>3. InOrder(flushes) /\ hole # "files" => \E m \in 0 .. MaxLogIndex : FoundIn(chunks) = UpTo(m)
    BY DEF IInv, LogIsWhole
  <2> QED BY <2>1, <2>2, <2>3 DEF LogIsWhole, InOrder
<1>9. LoopIsInStep'
  <2>1. Up'
    BY DEF Up
  <2>2. GapFreeUpTo(commitIndex) => GapFreeUpTo(commitIndex)'
    BY DEF GapFreeUpTo
  <2> QED BY <1>1, <1>7, <2>1, <2>2 DEF LoopIsInStep
<1>10. SizeIsCounted'
  <2>1. estimateLogBufSize' = SizeOf(size', logBuf')
    BY <1>1, <1>4 DEF IInv, SizeIsCounted
  <2>2. CASE logBuf = <<>>
    <3>1. Len(logBuf') <= 1
      BY <1>1, <2>2
    <3> QED BY <2>1, <3>1 DEF SizeIsCounted
  <2>3. CASE ~ Exceeds(n)
    <3>1. estimateLogBufSize' <= ChunkBytes'
      BY <1>1, <1>4, <2>3, PersisterAssumption DEF IInv, SizeIsCounted, Exceeds
    <3> QED BY <2>1, <3>1 DEF SizeIsCounted
  <2> QED BY <1>1, <2>2, <2>3
<1> QED BY <1>5, <1>6, <1>8, <1>9, <1>10 DEF IInv

LEMMA SaveEndsKeeps ==
    ASSUME IInv, SaveEnds \/ Destroy \/ Tick \/ Reboot \/ UNCHANGED vars
    PROVE  IInv'
<1> USE DEF SaveEnds, Destroy, Tick, Reboot, memoryVars, fileVars, vars
<1>1. TypeOK'
  <2>a. /\ BootTime \in Nat /\ MaxTime \in Nat /\ MaxFaults \in Nat /\ BootTime <= MaxTime
        /\ now \in BootTime .. MaxTime /\ faults \in 0 .. MaxFaults
    BY PersisterAssumption DEF IInv, TypeOK, Time
  <2>b. now' \in BootTime .. MaxTime
    BY <2>a
  <2>c. faults' \in 0 .. MaxFaults
    BY <2>a
  <2>1. now' \in Time /\ faults' \in 0 .. MaxFaults
    BY <2>b, <2>c DEF Time
  <2>2. next' \in 0 .. MaxLogIndex + 1
    BY PersisterAssumption DEF IInv, TypeOK
  <2> QED BY <2>1, <2>2 DEF IInv, TypeOK
<1>2. /\ logBuf' = logBuf /\ written' = written /\ tmp' = tmp /\ flushes' = flushes
      /\ chunks' = chunks /\ lastInBufLogId' = lastInBufLogId /\ size' = size
      /\ estimateLogBufSize' = estimateLogBufSize
      /\ Up' <=> Up /\ (at' = "aborted" => at = "aborted") /\ hole' = hole
  BY DEF Up
<1>3. BufferOfProcess' /\ LogIsWhole'
  BY <1>2 DEF IInv, BufferOfProcess, LogIsWhole, InOrder
<1>4. SizeIsCounted'
  BY <1>2 DEF IInv, SizeIsCounted
<1>5. LoopIsInStep'
  <2>1. at' = "saving" => at = "saving" /\ UNCHANGED <<next, commitIndex, logs>>
    OBVIOUS
  <2> QED BY <1>2, <2>1 DEF IInv, LoopIsInStep, GapFreeUpTo
<1> QED BY <1>1, <1>3, <1>4, <1>5 DEF IInv

LEMMA FlushWritesKeeps ==
    ASSUME IInv, FlushWrites
    PROVE  IInv'
<1> USE DEF FlushWrites, FlushIsDue, MoreToSave, memoryVars
<1>1. TypeOK'
  BY DEF IInv, TypeOK
<1>2. BufferOfProcess' /\ LogIsWhole'
  BY DEF IInv, BufferOfProcess, LogIsWhole, Up, InOrder
<1>3. SizeIsCounted'
  BY DEF IInv, SizeIsCounted
<1>4. LoopIsInStep'
  BY DEF IInv, LoopIsInStep, Up, GapFreeUpTo
<1> QED BY <1>1, <1>2, <1>3, <1>4 DEF IInv

LEMMA RenameAppends ==
    ASSUME IInv, FlushRenames, InOrder(flushes')
    PROVE  InOrder(flushes) /\ FoundIn(chunks') = FoundIn(chunks) \o logBuf
<1>1. tmp = logBuf /\ tmp \in Seq(Index) /\ now \in Time /\ flushes \in Seq(Time)
  BY DEF FlushRenames, IInv, TypeOK, BufferOfProcess
<1>2. flushes' = Append(flushes, now)
  BY DEF FlushRenames
<1>3. InOrder(Append(flushes, now))
  BY <1>2
<1>4. chunks \in Chunks /\ DOMAIN chunks = ToSet(flushes)
  BY ChunksType DEF IInv, TypeOK
<1>5. chunks' = Flushed(chunks, now, tmp)
  BY DEF FlushRenames, Flushed
<1>6. Flushed(chunks, now, tmp) \in Chunks
  <2>1. ToSet(flushes) \in SUBSET Time
    BY <1>1 DEF ToSet
  <2>2. Flushed(chunks, now, tmp) \in [ToSet(flushes) \cup {now} -> Seq(Index)]
    BY <1>1, <1>4 DEF IInv, TypeOK, Flushed
  <2> QED BY <1>1, <2>1, <2>2 DEF Chunks
<1>7. FoundIn(Flushed(chunks, now, tmp)) = FoundIn(chunks) \o tmp
  BY <1>1, <1>3, <1>4, <1>6, FoundAppend
<1> QED BY <1>1, <1>3, <1>5, <1>7, InOrderAppend

LEMMA FlushRenamesKeeps ==
    ASSUME IInv, FlushRenames
    PROVE  IInv'
<1> USE DEF FlushRenames
<1>1. Up /\ Up' /\ written' = FALSE /\ written' # TRUE
  BY DEF IInv, BufferOfProcess, Up
<1>2. TypeOK'
  <2>1. flushes' \in Seq(Time)
    BY DEF IInv, TypeOK
  <2>2. ToSet(flushes') = ToSet(flushes) \cup {now}
    <3>1. PICK q \in Seq(Time) : q = flushes
      BY DEF IInv, TypeOK
    <3>2. PICK p : p = Append(q, now)
      OBVIOUS
    <3>3. /\ Len(q) \in Nat /\ DOMAIN q = 1 .. Len(q) /\ DOMAIN p = 1 .. Len(q) + 1
          /\ p[Len(q) + 1] = now /\ \A i \in 1 .. Len(q) : p[i] = q[i]
      BY <3>2 DEF IInv, TypeOK
    <3>4. \A i \in 1 .. Len(q) + 1 : i \in 1 .. Len(q) \/ i = Len(q) + 1
      BY <3>3
    <3>5. Len(q) + 1 \in 1 .. Len(q) + 1 /\ \A i \in 1 .. Len(q) : i \in 1 .. Len(q) + 1
      BY <3>3
    <3>6. ToSet(p) = ToSet(q) \cup {now}
      BY <3>3, <3>4, <3>5 DEF ToSet
    <3> QED BY <3>1, <3>2, <3>6
  <2>3. chunks' \in [ToSet(flushes) \cup {now} -> Seq(Index)]
    BY DEF IInv, TypeOK
  <2>4. chunks' \in [ToSet(flushes') -> Seq(Index)]
    BY <2>2, <2>3
  <2>5. tmp' \in Seq(Index) /\ logBuf' \in Seq(Index) /\ estimateLogBufSize' \in Nat
    OBVIOUS
  <2>6. written' \in BOOLEAN
    OBVIOUS
  <2> QED BY <2>1, <2>4, <2>5, <2>6 DEF IInv, TypeOK
<1>3. BufferOfProcess'
  BY <1>1 DEF BufferOfProcess
<1>4. LogIsWhole'
  <2>a. lastInBufLogId \in 0 .. MaxLogIndex
    BY DEF IInv, TypeOK
  <2>b. hole' # "files" => hole = "none"
    BY DEF IInv, TypeOK
  <2> SUFFICES ASSUME InOrder(flushes'), hole = "none"
               PROVE  /\ FoundIn(chunks') \o logBuf' = UpTo(lastInBufLogId)
                      /\ FoundIn(chunks') = UpTo(lastInBufLogId)
    BY <1>1, <2>a, <2>b DEF LogIsWhole, Up
  <2>1. InOrder(flushes) /\ FoundIn(chunks') = FoundIn(chunks) \o logBuf
    BY RenameAppends
  <2>2. FoundIn(chunks) \o logBuf = UpTo(lastInBufLogId)
    BY <1>1, <2>1 DEF IInv, LogIsWhole
  <2>3. UpTo(lastInBufLogId) \in Seq(Index)
    BY UpToType DEF IInv, TypeOK
  <2>4. UpTo(lastInBufLogId) \o <<>> = UpTo(lastInBufLogId)
    <3>1. PICK u \in Seq(Index) : u = UpTo(lastInBufLogId)
      BY <2>3
    <3>2. u \o <<>> = u
      BY ConcatEmptySeq
    <3> QED BY <3>1, <3>2
  <2>5. FoundIn(chunks') = UpTo(lastInBufLogId) /\ logBuf' = <<>>
    BY <2>1, <2>2
  <2> QED BY <2>4, <2>5
<1>5. SizeIsCounted'
  <2>1. logBuf' = <<>> /\ estimateLogBufSize' = 0 /\ size' = size
    OBVIOUS
  <2>2. SizeOf(size, <<>>) = 0
    BY SizeOfEmpty
  <2>3. Len(logBuf') <= 1
    BY <2>1
  <2> QED BY <2>1, <2>2, <2>3 DEF SizeIsCounted
<1>6. LoopIsInStep'
  <2>1. UNCHANGED <<at, next, commitIndex, logs, lastInBufLogId>> /\ (hole' = "none" => hole = "none")
    OBVIOUS
  <2> QED BY <1>1, <2>1 DEF IInv, LoopIsInStep, GapFreeUpTo
<1> QED BY <1>2, <1>3, <1>4, <1>5, <1>6 DEF IInv

LEMMA LoadKeeps ==
    ASSUME IInv, Load
    PROVE  IInv'
<1> USE DEF Load, fileVars
<1>1. Found = FoundIn(chunks) /\ Found \in Seq(Index)
  BY FoundIsFoundIn, ChunksType, FoundType DEF IInv
<1>2. ~ Up /\ logBuf = <<>> /\ written = FALSE /\ at # "aborted" /\ hole # "buffer"
  BY DEF IInv, BufferOfProcess, LoopIsInStep, Up
<1>3. MaxLogIndex \in Nat
  BY PersisterAssumption
<1>4. lastInBufLogId' \in 0 .. MaxLogIndex
  <2>1. CASE Contiguous(Found) /\ Found # <<>>
    <3>1. Len(Found) \in 1 .. Len(Found)
      BY <1>1, <2>1
    <3>2. Last(Found) \in Index
      BY <1>1, <3>1 DEF Last
    <3> QED BY <1>3, <2>1, <3>2 DEF Index
  <2>2. CASE Contiguous(Found) /\ Found = <<>>
    BY <1>3, <2>2
  <2>3. CASE ~ Contiguous(Found)
    BY <2>3 DEF IInv, TypeOK
  <2> QED BY <2>1, <2>2, <2>3
<1>5. TypeOK'
  BY <1>1, <1>4 DEF IInv, TypeOK
<1>6. BufferOfProcess'
  BY <1>2 DEF BufferOfProcess
<1>7. LogIsWhole'
  <2>a. UNCHANGED <<flushes, chunks, logBuf, hole>>
    OBVIOUS
  <2>b. InOrder(flushes) /\ hole # "files" => \E n \in 0 .. MaxLogIndex : FoundIn(chunks) = UpTo(n)
    BY DEF IInv, LogIsWhole
  <2> SUFFICES ASSUME InOrder(flushes), hole # "files"
               PROVE  at' = "idle" /\ FoundIn(chunks) \o logBuf = UpTo(lastInBufLogId')
    BY <2>a, <2>b DEF LogIsWhole, InOrder
  <2>1. PICK n \in 0 .. MaxLogIndex : Found = UpTo(n)
    BY <1>1, <2>b
  <2>2. /\ Contiguous(Found) /\ Len(Found) = n
        /\ \A k \in 1 .. n : Found[k] = k
    BY <2>1, UpToType
  <2>3. at' = "idle"
    BY <2>2
  <2>4. lastInBufLogId' = n
    <3>1. CASE n = 0
      <4>1. Found = <<>>
        BY <1>1, <2>2, <3>1
      <4> QED BY <2>2, <3>1, <4>1
    <3>2. CASE n # 0
      <4>1. Found # <<>>
        BY <2>2, <3>2
      <4>2. Last(Found) = n
        BY <1>3, <2>2, <3>2 DEF Last
      <4> QED BY <2>2, <4>1, <4>2
    <3> QED BY <3>1, <3>2
  <2>5. Found \o <<>> = Found
    BY <1>1, ConcatEmptySeq
  <2> QED BY <1>1, <1>2, <2>1, <2>3, <2>4, <2>5
<1>8. SizeIsCounted'
  BY DEF IInv, SizeIsCounted
<1>9. LoopIsInStep'
  <2>1. at' # "saving" /\ hole' # "buffer"
    BY <1>2
  <2> QED BY <2>1 DEF LoopIsInStep
<1> QED BY <1>5, <1>6, <1>7, <1>8, <1>9 DEF IInv

LEMMA GoneKeeps ==
    ASSUME IInv, Destroyed \/ SaveDies \/ Kill
    PROVE  IInv'
<1> USE DEF Destroyed, SaveDies, MoreToSave, Kill, Gone
<1>1. Up /\ ~ Up' /\ at' # "aborted"
  BY DEF Up
<1>2. TypeOK'
  <2>1. /\ faults' \in 0 .. MaxFaults /\ 0 \in 0 .. MaxLogIndex
        /\ 0 \in 0 .. MaxLogIndex + 1
    BY PersisterAssumption DEF IInv, TypeOK
  <2>2. logBuf' = <<>> /\ estimateLogBufSize' = 0 /\ written' = FALSE /\ commitIndex' = 0
        /\ lastInBufLogId' = 0 /\ at' = "down" /\ logs' = <<>> /\ next' = 0
    OBVIOUS
  <2>3. size' = size /\ tmp' = tmp /\ chunks' = chunks /\ now' = now /\ flushes' = flushes
    OBVIOUS
  <2>4. /\ size' \in [Index -> Sizes] /\ tmp' \in Seq(Index) /\ now' \in Time
        /\ flushes' \in Seq(Time) /\ chunks' \in [ToSet(flushes') -> Seq(Index)]
    BY <2>3 DEF IInv, TypeOK
  <2>5. logBuf' \in Seq(Index) /\ logs' \in Seq(Index) /\ estimateLogBufSize' \in Nat
    <3>1. logBuf' = <<>> /\ logs' = <<>> /\ estimateLogBufSize' = 0
      BY <2>2
    <3> QED BY <3>1
  <2>6. written' \in BOOLEAN
    <3>1. written' = FALSE
      BY <2>2
    <3> QED BY <3>1
  <2>7. hole' \in {"none", "files"}
    BY DEF IInv, TypeOK
  <2> HIDE DEF Destroyed, SaveDies, Kill, Gone
  <2> QED BY <2>1, <2>2, <2>4, <2>5, <2>6, <2>7 DEF TypeOK
<1>3. BufferOfProcess'
  BY DEF BufferOfProcess
<1>4. LogIsWhole'
  <2>1. flushes' = flushes /\ chunks' = chunks /\ (hole' # "files" => hole # "files")
    OBVIOUS
  <2>2. InOrder(flushes) /\ hole # "files" => \E n \in 0 .. MaxLogIndex : FoundIn(chunks) = UpTo(n)
    BY DEF IInv, LogIsWhole
  <2> QED BY <1>1, <2>1, <2>2 DEF LogIsWhole, InOrder
<1>5. SizeIsCounted'
  <2>1. logBuf' = <<>> /\ estimateLogBufSize' = 0 /\ size' = size
    OBVIOUS
  <2>2. SizeOf(size, <<>>) = 0
    BY SizeOfEmpty
  <2>3. Len(logBuf') <= 1
    BY <2>1
  <2> QED BY <2>1, <2>2, <2>3 DEF SizeIsCounted
<1>6. LoopIsInStep'
  BY DEF LoopIsInStep
<1> QED BY <1>2, <1>3, <1>4, <1>5, <1>6 DEF IInv

LEMMA NextHolds == IInv /\ [Next]_vars => IInv'
<1> SUFFICES ASSUME IInv, [Next]_vars PROVE IInv'
  OBVIOUS
<1>1. ASSUME NEW i \in Index, SaveLogs(i) PROVE IInv'
  BY <1>1, SaveLogsKeeps
<1>2. CASE SaveEntry
  BY <1>2, SaveEntryKeeps
<1>3. CASE SaveEnds \/ Destroy \/ Tick \/ Reboot \/ UNCHANGED vars
  BY <1>3, SaveEndsKeeps
<1>4. CASE FlushWrites
  BY <1>4, FlushWritesKeeps
<1>5. CASE FlushRenames
  BY <1>5, FlushRenamesKeeps
<1>6. CASE Load
  BY <1>6, LoadKeeps
<1>7. CASE Destroyed \/ SaveDies \/ Kill
  BY <1>7, GoneKeeps
<1>8. ASSUME NEW prev \in 0 .. MaxLogIndex, NEW last \in 0 .. MaxLogIndex, NEW first \in Index,
             AppendEntries(prev, first, last)
      PROVE  IInv'
  BY <1>8, AppendEntriesKeeps
<1> QED BY <1>1, <1>2, <1>3, <1>4, <1>5, <1>6, <1>7, <1>8 DEF Next

-----------------------------------------------------------------------------
(***************************************************************************)
(* The theorems.                                                           *)
(***************************************************************************)
\* The invariant above holds in every state that saves, flushes, kills,
\* restarts and reboots can reach.
THEOREM PersisterInvariant == Spec => []IInv
<1>1. Init => IInv
  BY InitHolds
<1>2. IInv /\ [Next]_vars => IInv'
  BY NextHolds
<1> QED BY <1>1, <1>2, PTL DEF Spec

\* Every variable of the Persister keeps its type, the times in the names of
\* its chunk files are the times of flushes.
THEOREM TypeCorrect == Spec => []TypeOK
<1>1. IInv => TypeOK
  BY DEF IInv
<1> QED BY <1>1, PersisterInvariant, PTL

\* As long as the names of the chunk files are in the order of the flushes,
\* the chunks and the buffer of a running process together are the log up to
\* lastInBufLogId: saveLogs skips no entry and writes none twice, unless it
\* met a hole in the log.
THEOREM LogIsSavedWhole == Spec => []NothingIsSkipped
<1>1. IInv => NothingIsSkipped
  BY FoundIsFoundIn, OrderIsInOrder DEF IInv, LogIsWhole, NothingIsSkipped
<1> QED BY <1>1, PersisterInvariant, PTL

\* checkState stops a server from starting again only when the names of its
\* chunk files are not in the order in which they were flushed, or when a log
\* with a hole was flushed to them.
THEOREM AbortsByNamesOrHoles == Spec => []StartsAgain
<1>1. IInv => StartsAgain
  BY OrderIsInOrder DEF IInv, LogIsWhole, StartsAgain
<1> QED BY <1>1, PersisterInvariant, PTL

\* The buffer, all that a kill can lose, holds at most LOG_CHUNK_BYTES or one
\* entry.
THEOREM BufferIsBounded == Spec => []LossIsBounded
<1>1. IInv => LossIsBounded
  BY DEF IInv, SizeIsCounted, LossIsBounded, SizeOf
<1> QED BY <1>1, PersisterInvariant, PTL

LEMMA FoundGrows ==
    ASSUME IInv, [Next]_vars, NamesInOrder'
    PROVE  IsPrefix(Found, Found')
<1>1. FoundIn(chunks) \in Seq(Index) /\ logBuf \in Seq(Index)
  BY ChunksType, FoundType DEF IInv, TypeOK
<1>2. InOrder(flushes')
  BY DEF NamesInOrder, InOrder
<1>3. CASE FlushRenames
  <2>1. FoundIn(chunks') = FoundIn(chunks) \o logBuf
    BY <1>2, <1>3, RenameAppends
  <2>2. IsPrefix(FoundIn(chunks), FoundIn(chunks) \o logBuf)
    BY <1>1, PrefixOfConcat
  <2> QED BY <2>1, <2>2, FoundIsFoundIn
<1>4. CASE ~ FlushRenames
  <2>1. chunks' = chunks
    BY <1>4 DEF Next, AppendEntries, SaveLogs, SaveEntry, SaveEnds, FlushWrites, Load, Destroy,
                Destroyed, SaveDies, Kill, Gone, Reboot, Tick, vars, fileVars
  <2>2. FoundIn(chunks') = FoundIn(chunks)
    BY <2>1
  <2>3. IsPrefix(FoundIn(chunks), FoundIn(chunks))
    BY <1>1, PrefixOfConcat
  <2> QED BY <2>2, <2>3, FoundIsFoundIn
<1> QED BY <1>3, <1>4

\* What a restart would find only grows, through every step of a flush, kills
\* and reboots, as long as the names are in order.
THEOREM FlushesAreFound == Spec => FlushedIsFound
<1>1. IInv /\ [Next]_vars =>
         [chunks' # chunks /\ NamesInOrder' => IsPrefix(Found, Found')]_vars
  BY FoundGrows
<1>2. Spec => []IInv
  BY PersisterInvariant
<1> QED BY <1>1, <1>2, PTL DEF Spec, FlushedIsFound
=============================================================================
